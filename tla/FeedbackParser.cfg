SPECIFICATION Spec
CONSTANTS
  FrameSize = 4
  Byte = {0, 1, 2, 3}
  FrameHeader = 3
  FrameTail = 2
  ByteXor <- MCXor
  MaxChunk = 2
  MaxStream = 9
INVARIANTS FramesMatchReference BytesAreAccounted RetainedIsCandidate
