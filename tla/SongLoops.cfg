SPECIFICATION FairSpec
CONSTANTS
  Song <- MCSong
  Endless <- MCEndless
  Count <- MCCount
  Rounds = 24
  MaxPlayed = 24
  MaxStarts = 1
INVARIANTS TypeOK PlaysExpansion StackFollowsNesting LoopsAtTheirDepth
PROPERTY ComesToAnEnd
