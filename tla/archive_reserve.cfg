SPECIFICATION Spec
CONSTANTS
  Workers = {"w1", "w2"}
  Paths <- MCPaths
  Flat <- OneFlat
  Ops = {"write", "delete"}
  MayTouch <- Owned
  NoPath = NoPath
  NoName = NoName
  ManifestName = ManifestName
  MaxAge = 1
  Cap = 5
  MaxNow = 0
  MaxCalls = 5
  MaxFaults = 1
INVARIANTS
  NothingLost
PROPERTIES
  MoveLandsOnPlaceholder
