SPECIFICATION Spec
CONSTANTS
  Workers = {"w1", "w2"}
  Paths <- MCPaths
  Flat <- OneFlat
  Ops = {"write", "delete"}
  MayTouch <- Owned
  NoPath = NoPath
  NoName = NoName
  ManifestName = ManifestName
  MaxAge = 1
  Cap = 1
  MaxNow = 2
  MaxCalls = 5
  MaxFaults = 0
PROPERTIES
  MoveLandsOnPlaceholder
