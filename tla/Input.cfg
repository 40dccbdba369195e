CONSTANTS
  NSlots = 1
  Users = {1}
  NButtons = 3
  NDirections = 2
SPECIFICATION FairSpec
INVARIANTS
  DialogReleased
  FallbackOnlyUnopened
  NoStuckKeys
PROPERTIES
  CancelEnds
  ControllersComeBack
