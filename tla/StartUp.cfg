SPECIFICATION Spec
CONSTANTS
  DirBlock = 2
  DIRBUF_MIN = 1
  DIRBUF_MAX = 4
  Blksizes = {1, 4}
  Polls = 2
  Kids <- MCKids
  Root = ".kodi"
  ProbedDirs = {".kodi", "userdata"}
  TempDirs = {".kodi", "temp"}
  Blocked <- MCBlocked
  Working <- MCWorking
INVARIANTS
  WalksAreComplete
  NeverRunsHalfWiped
  SqliteWorksAtHome
  RequestIsWithdrawn
