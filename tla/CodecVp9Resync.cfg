CONSTANTS
  Streams <- MCVp9
  NFrames = 4
  Dpb = 2
  KodiRefs = 2
  HwModes = {"faulty"}
  ErrorsBeforeResync = 4
  MaxErrorsInRow = 5
  MaxMidStreamResets = 1
  FailuresBeforeSoftware = 3
  MaxWaitIrap = 3
  MaxReplayPackets = 6
  MaxSeeks = 0
SPECIFICATION Spec
CHECK_DEADLOCK FALSE
INVARIANT AllKeyframesAreTaken
