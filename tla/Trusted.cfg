SPECIFICATION Spec
CONSTANTS
  Parts = {"live", "capacity", "poc", "shadow", "requests"}
  MaxFaults = 1
  Pair = {"t1", "t2"}
  Targets = {"t1"}
  Runs = {r1, r2}
  MaxParallel = 2
  Procs = {p1, p2}
  Keys = {k1, k2}
  Requests = {q1, q2}
  Payloads = {"f1", "f2"}
  MaxEpoch = 2
  MaxDeaths = 1
SYMMETRY Symmetry
INVARIANTS ContainersAccounted ShadowKept
PROPERTY StopsAndResultsStand
CHECK_DEADLOCK FALSE
