SPECIFICATION Spec
CONSTANTS
  Message <- MCFewMessages
  Blank <- MCBlank
  Port = {"default", "b"}
  DefaultPort = "default"
  NoPort = "none"
  HeapCapacity = 2
  RingCapacity = 3
  PortSpace = 4
  NFrames = 3
  LookAhead = 2
  SleepFrames = 2
  Wrap = 64
  StartFrame = 0
  InsertUntil = 4
  MaxFrame = 10
INVARIANTS
  TypeOK AccountedFor PoppedIsDue OnTime BufferIsComplete
  RingInOrder KeptIfInTime NotEarly IInv
PROPERTY ImplementsMidiDelivery
