SPECIFICATION CliSpec
CONSTANTS
  MaxCommandAge = 2
  FeedbackTimeout = 2
  TransmitPeriod = 1
  WriteTimeout = 1
  ZeroRetryInterval = 1
  MaximumZeroAttempts = 2
  FreshCommandsRequired = 1
  SpeedLimitsValid = TRUE
  MaximumDuration = 60
  Int64Max = 4
  LastSequence = 1
  Lifetime = 1
  Command <- MCCommand
  Token <- MCToken
  MaxGeneration = 2
  MaxOverrun = 1
  ReconnectInterval = 1
  ReadTimeout = 1
  MaxDelay = 1
  MaxBatch = 2
INVARIANTS ExitCodeTellsTruth InputFailureDisarms
PROPERTIES NoMotionAfterTheEnd ImplementsMotionGate
