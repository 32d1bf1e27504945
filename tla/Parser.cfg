SPECIFICATION Spec
CONSTANTS
  Line <- MCLine
  Junk <- MCJunk
  MaxColumn = 4
  Word = 1024
  NoPort = "NULL"
  Comments = FALSE
INVARIANTS
  TypeOK
  NoSubpatternPlaysItself
  ParsersKnowTheirText
  SongsAsWritten
  ModifiersAreStatic
  ContinuesTheColumn
  SubpatternsAreBound
  ColumnsHaveTheirPorts
