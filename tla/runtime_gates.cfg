SPECIFICATION FairSpec
CONSTANTS
  Tools <- ToolNames
  Registry <- RegisteredTools
  Paths = {"a", "b"}
  NoPath = NoPath
  Unhashable = Unhashable
  Directives <- DirectiveIds
  CustomGuards = {"check_mine"}
  Budget = 1
  NoStep <- MCNoStep
  Configs <- AnyConfigs
  Responses <- AnyReplies
  NoCall = NoCall
INVARIANTS
  TranscriptMatchesAudit
  MediatedHistory
  EndingIsRecorded
  UnguardedIsAnnounced
  ModelCallBound
  AuditInStepOrder
