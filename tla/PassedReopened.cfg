SPECIFICATION Spec
CONSTANTS
  Tabs = {t1, t2}
  Workers = {w1, w2}
  Ops = {o1, o2}
  Runs = {r1}
  None = None
  ReviewChoices = {FALSE}
SYMMETRY Symmetry
PROPERTIES PassedNotReopened
CHECK_DEADLOCK FALSE
