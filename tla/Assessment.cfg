SPECIFICATION SuiteSpec
CONSTANTS
  Parts = {"progress", "exam", "grading", "bank", "composition"}
  EntryTypesModelled = {"new_hire", "internal_transfer"}
  QualityValues = {79, 80}
  SpeedValues = {59, 60}
  MaxDays = 91
  Tabs = {"t1", "t2"}
  QuestionCount = 2
  TimeLimit = 1
  Scores = {100}
  PassMark = 85
  AttemptLimit = 2
  AllowBack = TRUE
  OpensAt = 1
  ClosesAt = 3
  Conditions = {"employee"}
  MaxTime = 3
INVARIANTS ExamsFair ExamsComposed JudgementsAgree
PROPERTY TimeOnlyAdds
CHECK_DEADLOCK FALSE
