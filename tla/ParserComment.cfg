SPECIFICATION Spec
CONSTANTS
  Line <- MCLine
  Junk <- MCJunk
  MaxColumn = 4
  Word = 1024
  NoPort = "NULL"
  Comments = TRUE
INVARIANT CommentsSayNothing
