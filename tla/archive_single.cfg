SPECIFICATION Spec
CONSTANTS
  Workers = {"w1"}
  Paths <- MCPaths
  Flat <- OneFlat
  Ops = {"write", "delete", "restore"}
  MayTouch <- Shared
  NoPath = NoPath
  NoName = NoName
  ManifestName = ManifestName
  MaxAge = 1
  Cap = 1
  MaxNow = 2
  MaxCalls = 5
  MaxFaults = 1
INVARIANTS
  TypeOK
  NothingLost
  ManifestCoversArchive
PROPERTIES
  NothingReplaced
  RestoreGoesHome
  PruneEnforcesCaps
