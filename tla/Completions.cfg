SPECIFICATION SuiteSpec
CONSTANTS
  Parts = {"program", "grants", "sources", "notices", "runs", "edits",
           "checks"}
  u1 = u1
  u2 = u2
  t1 = t1
  t2 = t2
  Metrics = {1, 2}
  Percents = {70, 85, 96}
  Procs = {"wake", "worker"}
  MaxWrites = 2
  MaxManual = 2
  MaxErrors = 1
  Events = {1, 2}
  Secret = {2}
  MaxLost = 2
  Runs = {"r1", "r2"}
  Dirs = 2
  MaxOrder = 2
  MaxChanges = 1
  Tabs = {b1, b2}
  Workers = {w1, w2}
  Checks = {c1, c2}
  None = None
  Users = {u1, u2}
  Tasks = {t1, t2}
  Attempts <- MCAttempts
  Historic <- MCHistoric
  MaxSwitches = 2
SYMMETRY Symmetry
INVARIANTS CompletionProven RecordsTrue SyncedCatalogue
PROPERTIES SnapshotIsComposition SuccessesRecorded GrantsJustified
CHECK_DEADLOCK FALSE
