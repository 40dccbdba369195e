CONSTANTS
  Streams <- MCStreams
  NFrames = 4
  Dpb = 2
  KodiRefs = 2
  HwModes = {"healthy", "refuses", "faulty", "leaky"}
  ErrorsBeforeResync = 4
  MaxErrorsInRow = 5
  MaxMidStreamResets = 1
  FailuresBeforeSoftware = 3
  MaxWaitIrap = 3
  MaxReplayPackets = 6
  MaxSeeks = 1
SPECIFICATION FairSpec
CHECK_DEADLOCK FALSE
INVARIANTS
  NothingLostNothingTwice
  NoSilentStall
  ParameterSetsFirst
  SoftwareGetsAll
  HealthyStaysInHardware
  EveryPictureOnce
  KeyframesAreTaken
PROPERTIES
  Ends
  RefusedStreamsGoToSoftware
