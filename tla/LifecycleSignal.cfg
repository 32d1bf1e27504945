SPECIFICATION LifecycleSpec
CONSTANTS
  Message <- MCShortMessage
  Song <- MCShortSong
  Blank <- MCBlank
  Port = {"default", "b"}
  DefaultPort = "default"
  NoPort = "none"
  HeapCapacity = 2
  RingCapacity = 3
  PortSpace = 4
  NFrames = 3
  LookAhead = 2
  SleepFrames = 2
  PollFrames = 6
  SignalFrames = 4
  Signals = TRUE
  MaxWait = 1
  MaxDelays = 1
  Wrap = 128
  StartFrame = 0
  InsertUntil = 60
  MaxFrame = 60
INVARIANT AllSoundsStopped
