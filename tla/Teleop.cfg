SPECIFICATION Spec
CONSTANTS
  Int64Max = 7
  ReleaseTimeout = 2
  CommandPeriod = 1
  MinSpeed = 1
  InitialSpeed = 1
  MaxSpeed = 1
  SpeedStep = 1
  Direction = {"w", "s"}
  IdleWait = 4
  MaxDelay = 1
  MaxEvents = 2
INVARIANTS NoOrphanCommand CommandFollowsHand SilenceIsNoticed
PROPERTIES IdentifiersIncrease ShutdownEnds
CHECK_DEADLOCK FALSE
