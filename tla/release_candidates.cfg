SPECIFICATION Spec
CONSTANTS
  Builders = {b1, b2}
  Publishers = {p1, p2}
  Commits = {"c1", "c2"}
  Trees = {"t1", "t2"}
  TreeOf <- MCTreeOf
  Checkouts <- MCCheckouts
  BuildOrders <- MCBuildOrders
  PublishOrders <- MCPublishOrders
  Stray = "stray"
  Absent = Absent
  Torn = Torn
  Mixed = Mixed
  Foreign = Foreign
  Budgets <- MCBudgets
INVARIANTS
  TypeOK
  RecordIsEarned
  VerifiedIsTested
  PublishedWasTested
  ReleaseIsOneBuild
SYMMETRY Symmetric
CHECK_DEADLOCK FALSE
