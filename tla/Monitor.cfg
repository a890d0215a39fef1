SPECIFICATION Spec
CONSTANTS
  Int64Max = 12
  MaxOverrun = 1
  FrameCount = 3
  Timeout = 6
  ReadSlice = 2
  MaxDelay = 1
  MaxFrames = 2
INVARIANTS ExitCodeTellsTruth SessionIsBounded
PROPERTY MonitorEnds
CHECK_DEADLOCK FALSE
