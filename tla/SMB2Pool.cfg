CONSTANTS
  Users = {u1, u2}
  NConns = 4
  Shares = {"media"}
  MaxIdle = 1
  Kinds = {"stat", "list", "shares", "open"}
SPECIFICATION FairSpec
INVARIANTS
  ExclusiveUse
  BrokenNeverReused
PROPERTIES
  ExpiredNotReused
  CallsEnd
