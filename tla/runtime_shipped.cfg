SPECIFICATION FairSpec
CONSTANTS
  Tools <- ToolNames
  Registry <- RegisteredTools
  Paths = {"a", "b"}
  NoPath = NoPath
  Unhashable = Unhashable
  Directives <- DirectiveIds
  CustomGuards = {}
  Budget = 2
  NoStep <- MCNoStep
  Configs <- ShippedConfigs
  Responses <- WriteReplies
  NoCall = NoCall
INVARIANTS
  TypeOK
  WriteBudgetHolds
  BulkWriteLeavesTrace
PROPERTIES
  ImplementsContract
  RunEnds
