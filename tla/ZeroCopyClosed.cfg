CONSTANT NFrames = 3
SPECIFICATION Spec
CHECK_DEADLOCK FALSE
INVARIANT MemoryAlwaysOutlivesPictures
