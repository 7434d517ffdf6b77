SPECIFICATION Spec
CONSTANTS
  Workers = {"w1"}
  Paths <- MCPaths
  Flat <- OneFlat
  Ops = {"write", "delete"}
  MayTouch <- Shared
  NoPath = NoPath
  NoName = NoName
  ManifestName = ManifestName
  MaxAge = 1
  Cap = 2
  MaxNow = 2
  MaxCalls = 2
  MaxFaults = 0
PROPERTIES
  ExpiredWereKept
