SPECIFICATION HSpec
CONSTANTS
  MaxCommandAge = 2
  FeedbackTimeout = 2
  TransmitPeriod = 1
  WriteTimeout = 1
  ZeroRetryInterval = 1
  MaximumZeroAttempts = 2
  FreshCommandsRequired = 2
  SpeedLimitsValid = TRUE
  MaximumDuration = 60
  Int64Max = 5
  LastSequence = 2
  Lifetime = 2
  Command <- MCCommand
  Token <- MCToken
  MaxGeneration = 2
  MaxOverrun = 1
INVARIANTS TypeOK NoOrphanMotion ActiveIsEarned CachedCommandIsNewest EpisodeHasBudget RetryBudgetIsBounded
PROPERTIES FaultIsFinal MotionRateIsLimited ImplementsMotionGate MotionIsPermitted ReleaseIsEarned
CONSTRAINTS ClockBound ResetBound
CHECK_DEADLOCK FALSE
