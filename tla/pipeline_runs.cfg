SPECIFICATION Spec
CONSTANTS
  Threads = {t1, t2}
  Runs = {r1, r2}
  NoRun = NoRun
  MaxEvents = 3
SYMMETRY ThreadAndRunSymmetry
INVARIANTS
  TypeOK
  SecretsStayWithTheirRun
  EventsNameTheirRun
  SequenceIncreases
  CollectorIsLive
  LossIsReported
  FileKeepsOrder
