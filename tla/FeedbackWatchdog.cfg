SPECIFICATION HSpec
CONSTANTS
  MaxCommandAge = 2
  FeedbackTimeout = 2
  TransmitPeriod = 1
  WriteTimeout = 1
  ZeroRetryInterval = 1
  MaximumZeroAttempts = 2
  FreshCommandsRequired = 2
  SpeedLimitsValid = TRUE
  MaximumDuration = 60
  Int64Max = 6
  LastSequence = 3
  Lifetime = 1
  Command <- MCCommand
  Token <- MCToken
  MaxGeneration = 1
  MaxOverrun = 1
INVARIANT FeedbackWatchdogZeroes
CHECK_DEADLOCK FALSE
