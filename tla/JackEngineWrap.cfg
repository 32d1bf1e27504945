SPECIFICATION Spec
CONSTANTS
  Message <- MCWrapMessages
  Blank <- MCBlank
  Port = {"default", "b"}
  DefaultPort = "default"
  NoPort = "none"
  HeapCapacity = 3
  RingCapacity = 4
  PortSpace = 4
  NFrames = 3
  LookAhead = 2
  SleepFrames = 2
  Wrap = 32
  StartFrame = 26
  InsertUntil = 30
  MaxFrame = 38
INVARIANT RingInOrder
