SPECIFICATION FairHttpSpec
CONSTANTS
  Tools <- ToolNames
  Registry <- RegisteredTools
  Paths = {"a"}
  NoPath = NoPath
  Unhashable = Unhashable
  Directives = {"here"}
  CustomGuards = {}
  Budget = 1
  NoStep <- MCNoStep
  Contexts <- MCContexts
  Calls <- MCCalls
  MaxCalls = 2
  Hosts = {"host.example", "other.example"}
  Targets <- MCTargets
  Addresses = {"public1", "public2", "private"}
  Denied = {"private"}
  Answers <- MCAnswers
  ProxySettings <- MCProxySettings
  Credentials <- MCCredentials
  MaxHops = 2
  MaxRebinds = 1
INVARIANTS
  ClearedToInvoke
  OnlyVettedReached
  RefusalIsTold
PROPERTIES
  CallEndsOrServerHolds
