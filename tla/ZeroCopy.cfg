CONSTANTS
  NFrames = 2
  NUM_BUFFERS = 2
  MaxDraws = 2
SPECIFICATION RSpec
CHECK_DEADLOCK FALSE
INVARIANTS
  PicturesAreNotOverwritten
  MemoryOutlivesPictures
  NoOwnerNoMemory
  PoolNoLargerThanFrames
  GpuSamplesStableFrames
PROPERTY ImplementsOwnership
