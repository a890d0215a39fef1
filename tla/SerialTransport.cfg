SPECIFICATION LiveSpec
CONSTANTS
  Int64Max = 6
  MaxOverrun = 6
  FrameSize = 2
  Capacity = 1
  Millisecond = 2
  IntMax = 2
  Deadline = {0, 3, 4, 6}
  MaxGeneration = 2
INVARIANTS WriteMeetsContract CleanOutcomeIsClean ReadMeetsContract DescriptorsAreReleased
PROPERTY CallsReturn
