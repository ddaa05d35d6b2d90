----------------------------- MODULE MCAssessment -----------------------------
(***************************************************************************)
(* How employees and trainees are assessed, in one instance for TLC: the   *)
(* exams, the question bank and the progress, attention and readiness of   *)
(* the diary.  The models share no state: a behaviour is one of the part   *)
(* that is chosen at first, and the variables of the others are off.       *)
(***************************************************************************)
EXTENDS TraineeAssessment, TLC

CONSTANTS
  Parts,   \* "progress", "exam", "grading", "bank", "composition"
  Tabs, QuestionCount, TimeLimit, Scores, PassMark, AttemptLimit, AllowBack,
  OpensAt, ClosesAt, Conditions, MaxTime

VARIABLES
  part,
  clock, exam, started, answer, broken, tab, rowLock,
  question, payload, response,
  bank, skillOf, inactive, editor, start, attempt

examVars == <<clock, exam, started, answer, broken, tab, rowLock>>
gradingVars == <<question, payload, response>>
bankVars == <<bank, skillOf, inactive, editor, start, attempt>>

\* Two tabs, two questions, a retake, an employee who leaves and returns.
Exam == INSTANCE ExamAttempts

\* Up to three rows; "a" and "A" are equal to the code that folds case.
Grading == INSTANCE QuestionGrading WITH
  Texts <- {"a", "A", "b", "c"}, MaxRows <- 3

\* Skill "mail" has the families f1 and f2, skill "web" has f3.
SkillOf == [f \in {"f1", "f2", "f3"} |-> IF f = "f3" THEN "web" ELSE "mail"]
SlugOf == [s \in {"mail", "web"} |-> s]

\* Two requests of editors on a question; one question for each skill.
Bank == INSTANCE QuestionBank WITH
  Editors <- {"e1", "e2"}, Questions <- {"q1", "q2"},
  Family <- [q \in {"q1", "q2"} |-> IF q = "q1" THEN "f1" ELSE "f3"],
  Skill <- SkillOf, Quota <- [s \in {"mail", "web"} |-> 1], Slug <- SlugOf,
  Edited <- "q1", RowIds <- {1, 2, 3}, Places <- {"f1"}, Moves <- {}, Switched <- {}

\* Two questions of f1 and one each of f2 and f3, two of "mail" asked; families
\* are switched and moved meanwhile, and q3 is filed elsewhere.
Plan == INSTANCE QuestionBank WITH
  Editors <- {"e1"}, Questions <- {"q1", "q2", "q3", "q4"},
  Family <- [q \in {"q1", "q2", "q3", "q4"} |->
              CASE q = "q4" -> "f3" [] q = "q3" -> "f2" [] OTHER -> "f1"],
  Skill <- SkillOf,
  Quota <- [s \in {"mail", "web"} |-> IF s = "mail" THEN 2 ELSE 1],
  Slug <- SlugOf, Edited <- "q3", RowIds <- {1, 2}, Places <- {"f2", "f3"},
  Moves <- {<<"f1", "web">>, <<"f1", "mail">>}, Switched <- {"f1", "mail"}

\* The question the editors start from is a valid one.
ASSUME ReadyAssumption == Bank!Valid("single_choice", Bank!AsRows(Bank!Ready("q1").rows["option"]))

Off(v) == v = "off"
ExamOff ==
  /\ Off(clock) /\ Off(exam) /\ Off(started) /\ Off(answer)
  /\ Off(broken) /\ Off(tab) /\ Off(rowLock)
GradingOff == Off(question) /\ Off(payload) /\ Off(response)
BankOff ==
  Off(bank) /\ Off(skillOf) /\ Off(inactive) /\ Off(editor) /\ Off(start) /\ Off(attempt)
\* A new hire on the first day.
ProgressOff == Init /\ entry_type = "new_hire" /\ current = 1

SuiteInit ==
  /\ part \in Parts
  /\ \/ part = "progress" /\ Init /\ ExamOff /\ GradingOff /\ BankOff
     \/ part = "exam" /\ Exam!Init /\ ProgressOff /\ GradingOff /\ BankOff
     \/ part = "grading" /\ Grading!Init /\ ProgressOff /\ ExamOff /\ BankOff
     \/ part = "bank" /\ Bank!Init /\ ProgressOff /\ ExamOff /\ GradingOff
     \/ part = "composition" /\ Plan!Init /\ ProgressOff /\ ExamOff /\ GradingOff

ProgressNext ==
  part = "progress" /\ Next /\ UNCHANGED <<examVars, gradingVars, bankVars>>
ExamNext ==
  part = "exam" /\ Exam!Next /\ UNCHANGED <<vars, gradingVars, bankVars>>
GradingNext ==
  part = "grading" /\ Grading!Next /\ UNCHANGED <<vars, examVars, bankVars>>
BankNext ==
  part = "bank" /\ Bank!Next /\ UNCHANGED <<vars, examVars, gradingVars>>
PlanNext ==
  part = "composition" /\ Plan!Next /\ UNCHANGED <<vars, examVars, gradingVars>>

SuiteNext ==
  /\ UNCHANGED part
  /\ ProgressNext \/ ExamNext \/ GradingNext \/ BankNext \/ PlanNext

suiteVars == <<part, vars, examVars, gradingVars, bankVars>>
SuiteSpec == SuiteInit /\ [][SuiteNext]_suiteVars

-----------------------------------------------------------------------------
(* The properties of the parts, each stated in its module; those of the     *)
(* progress are the ones of TraineeAssessment themselves.                   *)

\* Whatever two tabs do, one question is open at a time, a score is earned
\* only by a request that arrived before the deadline, and the result of a
\* completed attempt is the one of the answers that are stored.
ExamsFair == part = "exam" => Exam!ExamsFair

\* What an employee is asked and what the answers are worth.  Whatever two
\* editors leave behind, the snapshot of a committed attempt is a valid
\* question, and a question is active and invalid only after requests of
\* editors that overlapped.  An attempt has the quota of every skill and no
\* family twice for one, as they were when that skill was drawn; nor for two,
\* unless one was moved between the draws.  Its result has one line for each
\* skill with its questions.
\* The right answer, and no other, has the full score, however the rows were
\* shuffled; it can be given, and putting two neighbours right gains.
ExamsComposed ==
  /\ part = "bank" =>
       Bank!TypeOK /\ Bank!SnapshotsSolvable /\ Bank!LoneEditorSafe
  /\ part = "composition" =>
       Plan!TypeOK /\ Plan!ComposedAsPlanned /\ Plan!BreakdownPerSkill
  /\ part = "grading" =>
       Grading!OnlyRightScoresFull /\ Grading!Solvable /\ Grading!SwapGains
  /\ part = "exam" => Exam!TypeOK

\* The services that judge a trainee from the same figures agree: who is ready
\* for the next stage has no open question about quality or speed, and the
\* card and the dashboards name the same trainees who overstay a stage.
JudgementsAgree == TypeOK /\ ReadyIsUndisputed /\ RisksAgree

\* What time does: progress never falls, waiting makes nobody less ready and
\* clears no reason for attention; and a question's clock is started once in
\* an attempt, so that no reload and no second tab gives more time.
TimeOnlyAdds ==
  [][/\ part = "progress" => ProgressGrows /\ ReadinessGrows /\ AttentionGrows
     /\ part = "exam" => Exam!ClockKept]_suiteVars
===============================================================================
