SPECIFICATION SuiteSpec
CONSTANTS
  Parts = {"forms"}
  Requests = {r1, r2}
  Queue = 2
  MaxNumber = 3
  MaxDeletes = 2
  MaxLost = 1
  MaxToggles = 1
  Tabs = {t1, t2}
  Bodies = {Blank, a, b}
  Blank = Blank
  Keys = {k1, k2}
  ReviewKeys = {m1, m2}
  Notes = {n1}
  HasContext = FALSE
  None = None
SYMMETRY Symmetry
INVARIANT OnReviewShowsLatest
CHECK_DEADLOCK FALSE
