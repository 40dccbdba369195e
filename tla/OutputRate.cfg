CONSTANTS
  SystemRates = {23976, 29970, 50000, 59940, 89910, 119880}
  VrrRates = {48000, 50000, 59940, 60000, 71928}
  ProfileRate = 120000
SPECIFICATION FairSpec
CHECK_DEADLOCK FALSE
INVARIANTS
  RatesAgree
  PacedExactlyOnLink
  ModesOffered
PROPERTIES
  LinkIsNoticed
  ClockFollowsRate
