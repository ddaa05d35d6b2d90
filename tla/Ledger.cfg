SPECIFICATION SuiteSpec
CONSTANTS
  Parts = {"checks", "resets", "answers", "quiet", "program", "past"}
INVARIANTS ReportsTrue
CHECK_DEADLOCK FALSE
