SPECIFICATION Spec
CONSTANTS
  Tabs = {t1}
  Workers = {w1, w2}
  Ops = {o1, o2, o3}
  Runs = {}
  None = None
  ReviewChoices = {FALSE}
SYMMETRY Symmetry
INVARIANTS
  TypeOK OneAdmittedOperation SingleExecutor RestartCountMatches
    ReadyHasContainer
PROPERTIES LedgerImplemented ReadyNeverFails
CHECK_DEADLOCK FALSE
