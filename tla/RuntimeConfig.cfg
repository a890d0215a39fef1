SPECIFICATION MainSpec
CONSTANTS
  NaN = NaN
  NanosecondsPerMillisecond = 10
  Scale = 800
  Twelfth = 2
  Ninth = 8
  ReleasedDevicePath <- MCReleased
  CandidateConfig <- MCConfigs
INVARIANTS NoLateRefusal TeleopFitsLimits
CHECK_DEADLOCK FALSE
