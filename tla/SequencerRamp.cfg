SPECIFICATION Spec
CONSTANTS
  MaxLines = 3
  Text = "ramps"
  Songs <- MCSongs
  Sub <- MCSub
  SubSong <- MCSubSong
  MaxColumn = 1
  SampleRate = 1000
  StartTime = 100
  Word = 1024
  MaxRamp = 20
INVARIANTS
  RampsAreGradual
