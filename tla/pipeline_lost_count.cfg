SPECIFICATION Spec
CONSTANTS
  Threads = {t1, t2}
  Runs = {r1, r2}
  NoRun = NoRun
  MaxEvents = 4
SYMMETRY ThreadAndRunSymmetry
INVARIANTS
  LostCountIsRight
