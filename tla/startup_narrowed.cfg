SPECIFICATION Spec
CONSTANTS
  Tools <- MCTools
  Registry <- MCRegistry
  Paths = {"a"}
  NoPath = NoPath
  Unhashable = Unhashable
  Directives <- MCDirectives
  CustomGuards <- MCCustomGuards
  Budget = 1
  NoGuard = NoGuard
  Omitted = Omitted
  WrongArity <- MCWrongArity
  ShippedBindings <- MCShippedBindings
  ShippedRules <- MCShippedRules
  Reviewed <- MCReviewed
  SafeIds <- MCSafeIds
  PolicyNames <- MCPolicyNames
  NoId = NoId
  NoPlan = NoPlan
  AnyDirective = AnyDirective
  Absent = Absent
  Unreadable = Unreadable
  Requests <- MCRequests
  DirectiveFiles <- MCDirectiveFiles
  PolicyFiles <- MCPolicyFiles
  DirectiveSaves <- MCDirectiveSaves
  PolicySaves <- MCPolicySaves
  Probes <- MCProbes
  MaxSaves = 1
INVARIANTS
  ReviewedRefusalsHold
