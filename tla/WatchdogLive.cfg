SPECIFICATION FairSpec
CONSTANTS
  Tabs = {t1}
  Workers = {w1}
  Ops = {o1, o2}
  Runs = {r1}
  None = None
  ReviewChoices = {FALSE, TRUE}
INVARIANT EvidenceMatches
PROPERTY WatchdogEnds
CHECK_DEADLOCK FALSE
