SPECIFICATION CliSpec
CONSTANTS
  MaxCommandAge = 3
  FeedbackTimeout = 3
  TransmitPeriod = 1
  WriteTimeout = 1
  ZeroRetryInterval = 1
  MaximumZeroAttempts = 2
  FreshCommandsRequired = 1
  SpeedLimitsValid = TRUE
  MaximumDuration = 60
  Int64Max = 6
  LastSequence = 1
  Lifetime = 2
  Command <- MCCommand
  Token <- MCToken
  MaxGeneration = 1
  MaxOverrun = 1
  ReconnectInterval = 1
  ReadTimeout = 1
  MaxDelay = 1
  MaxBatch = 1
INVARIANT InhibitRevokes
