SPECIFICATION Spec
CONSTANTS
  MaxLines = 4
  Text = "plain"
  Songs <- MCSongs
  Sub <- MCSub
  SubSong <- MCSubSong
  MaxColumn = 1
  SampleRate = 1000
  StartTime = 100
  Word = 1024
  MaxRamp = 20
INVARIANTS
  TypeOK
  NotesLastUntilTheNextEvent
  NoHangingNote
  SubpatternInStep
  RampsAreGradual
