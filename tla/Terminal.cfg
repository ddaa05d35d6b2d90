SPECIFICATION SuiteSpec
CONSTANTS
  Parts = {"clock", "lite", "lost", "sessions", "http"}
  Workers = {w1, w2}
  Sessions = {s1, s2, s3}
  MaxSessions = 2
  MaxRestarts = 3
  MaxBrokerFaults = 2
  MaxRuns = 2
  MaxGen = 2
  MaxReboots = 1
  MaxAnchors = 1
  MaxHttpFaults = 2
  MaxCrashes = 1
  Ops = {start, reset}
  Resets = {reset}
  MaxIds = 4
  MaxLiteFaults = 1
  MaxLost = 1
  MaxCleanups = 2
  Attempts = {a1}
  Threshold = 2
  Period = 2
  RunTime = 2
  MaxTime = 9
SYMMETRY Symmetry
INVARIANTS BusyEnvironmentBounded RunningCheckBounded NothingLeftBehind
  ShellsKept
PROPERTY VerdictsStand
CHECK_DEADLOCK FALSE
