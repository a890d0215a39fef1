SPECIFICATION CodecSpec
CONSTANTS
  NaN = NaN
  ByteXor <- MCXor
  Motion <- MCMotion
  SpeedLimit <- MCLimit
  Report <- MCReport
  Damage <- MCDamage
INVARIANTS EncodingNeverSpeedsUp ZeroFrameIsZero FeedbackIsGenuine
CHECK_DEADLOCK FALSE
