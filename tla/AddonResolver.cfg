CONSTANTS
  Addons = {"a", "b"}
  Files <- MCFiles
  HostNames = {"malloc"}
SPECIFICATION Spec
INVARIANTS
  HostNamesAreBound
