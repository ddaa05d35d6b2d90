SPECIFICATION SuiteSpec
CONSTANTS
  Parts = {"answers", "forms", "numbers", "queue"}
  Requests = {r1, r2}
  Queue = 2
  MaxNumber = 3
  MaxDeletes = 2
  MaxLost = 1
  MaxToggles = 1
  Tabs = {t1, t2}
  Bodies = {Blank, a, b}
  Blank = Blank
  Keys = {k1, k2}
  ReviewKeys = {m1, m2}
  Notes = {n1}
  HasContext = TRUE
  None = None
SYMMETRY Symmetry
INVARIANTS PassedIsSubmitted DecisionProjected AIReviewsOfVersions
  AIDecisionInLedger ResultsCounted
PROPERTY AttemptsKept
CHECK_DEADLOCK FALSE
