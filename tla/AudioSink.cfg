CONSTANTS
  GRAIN_FRAMES = 3
  QUEUE_DEPTH = 2
  MaxFrames = 7
  MaxPacket = 4
SPECIFICATION SinkSpec
INVARIANTS
  AcceptedFramesAreKept
  DelayIsHonest
