---------------------------- MODULE ExamAttempts ----------------------------
(***************************************************************************)
(* The attempts of one exam assignment and the browser tabs of its         *)
(* employee (assessment/services/attempts.py, question_flow.py, answers.py,*)
(* results.py and the views that call them). A request reads the clock     *)
(* before it waits for row locks; open and submit are transactions of      *)
(* their own, and so is the completion that follows them.                  *)
(* Row locks: open takes the attempt and then the question, submit the     *)
(* question and then the attempt (the FOR UPDATE of a join).               *)
(***************************************************************************)
EXTENDS Naturals, FiniteSets, FiniteSetsExt

CONSTANTS
  Tabs,          \* concurrent requests of the employee
  QuestionCount, \* question_count: the snapshots of an attempt
  TimeLimit,     \* time_limit_seconds
  Scores,        \* the percentages a submitted answer can get
  PassMark,      \* pass_percentage
  AttemptLimit,
  AllowBack,     \* allow_back_navigation
  OpensAt, ClosesAt,   \* the window of the campaign
  Conditions,    \* what the staff switch: "assignment", "employee", "campaign", "blueprint", "level"
  MaxTime

VARIABLES
  clock,
  exam,          \* the latest ExamAttempt: number, status, result
  started,       \* ExamQuestionSnapshot.started_at, 0 for NULL
  answer,        \* ExamAnswer of each question
  broken,        \* the conditions of a start that do not hold at present
  tab,           \* the request of each tab
  rowLock        \* the holder of each row: 0 is the attempt, q a snapshot

vars == <<clock, exam, started, answer, broken, tab, rowLock>>

\* The positions of the snapshots.
Questions == 1..QuestionCount
Nobody == "nobody"
Rest == [pc |-> "idle", number |-> 0, now |-> 0, question |-> 0, score |-> 0]

Init ==
  /\ clock = 1
  /\ exam = [number |-> 0, status |-> "none", result |-> {}]
  /\ started = [q \in Questions |-> 0]
  /\ answer = [q \in Questions |-> {}]
  /\ broken = {}
  /\ tab = [t \in Tabs |-> Rest]
  /\ rowLock = [r \in {0} \cup Questions |-> Nobody]

Active == exam.status = "in_progress"
Unanswered == {q \in Questions : answer[q] = {}}
\* Mutant: the last question without an answer.
CurrentMutant == IF Unanswered = {} THEN 0 ELSE Max(Unanswered)
\* get_current_question: the first without an answer, 0 when there is none.
Current == IF Unanswered = {} THEN 0 ELSE Min(Unanswered)
Deadline(q) == started[q] + TimeLimit

Free(r, t) == rowLock[r] \in {Nobody, t}
\* Commit or rollback: every row lock of the transaction is released.
Unlocked(t) == [r \in {0} \cup Questions |-> IF rowLock[r] = t THEN Nobody ELSE rowLock[r]]
Finish(t) == tab' = [tab EXCEPT ![t] = Rest]

Tick ==
  /\ clock < MaxTime
  /\ clock' = clock + 1
  /\ UNCHANGED <<broken, exam, started, answer, tab, rowLock>>

-----------------------------------------------------------------------------
(* start_exam_attempt, under the lock of the assignment *)

\* Mutant: the attempts already made are not counted.
MayStartMutant == ~Active /\ broken = {} /\ clock \in OpensAt..(ClosesAt - 1)
\* An attempt in progress is returned as it is; a new one needs a valid
\* assignment, an open campaign and fewer than attempt_limit ever made.
MayStart ==
  /\ ~Active
  /\ broken = {}
  /\ clock \in OpensAt..(ClosesAt - 1)
  /\ exam.number < AttemptLimit

StartAttempt ==
  /\ MayStart
  /\ exam' = [number |-> exam.number + 1, status |-> "in_progress", result |-> {}]
  /\ started' = [q \in Questions |-> 0]
  /\ answer' = [q \in Questions |-> {}]
  /\ UNCHANGED <<broken, clock, tab, rowLock>>

\* The staff switch a flag of the assignment, the campaign, the blueprint or
\* the profile, or change the level of the employee.
Switch(c) ==
  /\ broken' = IF c \in broken THEN broken \ {c} ELSE broken \cup {c}
  /\ UNCHANGED <<clock, exam, started, answer, tab, rowLock>>

\* _get_assignment_state of an assignment the dashboard lists
AssignmentState ==
  CASE Active -> "in_progress"
    [] ~Active /\ broken \cap {"blueprint", "campaign"} # {} -> "unavailable"
    [] ~Active /\ broken \cap {"blueprint", "campaign"} = {} ->
         IF clock < OpensAt THEN "upcoming"
         ELSE IF clock >= ClosesAt THEN "expired"
         ELSE IF exam.number >= AttemptLimit THEN "completed" ELSE "available"
Listed == broken \cap {"assignment", "employee"} = {}

-----------------------------------------------------------------------------
(* attempt_question *)

\* The SupportProfile of the employee takes part in the assessment.
ProfileActive == "employee" \notin broken
\* _get_employee_profile and the status, read without a lock
MayRequest(t) == tab[t].pc = "idle" /\ ProfileActive /\ Active

\* The view reads the status and the time without a lock.
RequestQuestion(t) ==
  /\ MayRequest(t)
  /\ tab' = [tab EXCEPT ![t] = [Rest EXCEPT !.pc = "open", !.number = exam.number, !.now = clock]]
  /\ UNCHANGED <<broken, clock, exam, started, answer, rowLock>>

LockAttempt(t) ==
  /\ tab[t].pc = "open"
  /\ Free(0, t)
  /\ rowLock' = [rowLock EXCEPT ![0] = t]
  /\ tab' = [tab EXCEPT ![t].pc = "loop"]
  /\ UNCHANGED <<broken, clock, exam, started, answer>>

\* The attempt ended meanwhile or every question is answered: no question,
\* and the view goes on to complete the attempt.
OpenNothing(t) ==
  /\ tab[t].pc = "loop"
  /\ tab[t].number # exam.number \/ ~Active \/ Current = 0
  /\ rowLock' = Unlocked(t)
  /\ tab' = [tab EXCEPT ![t].pc = "complete"]
  /\ UNCHANGED <<broken, clock, exam, started, answer>>

InLoop(t) == tab[t].pc = "loop" /\ tab[t].number = exam.number /\ Active /\ Current # 0

\* Mutant: a second tab starts the time of the open question again.
ShownMutant(t) == [started EXCEPT ![Current] = tab[t].now]
\* started_at is set once ...
Shown(t) == [started EXCEPT ![Current] = IF @ = 0 THEN tab[t].now ELSE @]

\* ... and an open question within its time is shown as it is.
OpenShow(t) ==
  /\ InLoop(t)
  /\ Free(Current, t)
  /\ started[Current] = 0 \/ tab[t].now < Deadline(Current)
  /\ started' = Shown(t)
  /\ rowLock' = Unlocked(t)
  /\ Finish(t)
  /\ UNCHANGED <<broken, clock, exam, answer>>

\* An open question past its time is answered by a timeout; the loop goes on.
OpenTimeout(t) ==
  /\ InLoop(t)
  /\ Free(Current, t)
  /\ started[Current] # 0
  /\ tab[t].now >= Deadline(Current)
  /\ answer' = [answer EXCEPT ![Current] = {[score |-> 0, timedOut |-> TRUE, at |-> tab[t].now]}]
  /\ rowLock' = [rowLock EXCEPT ![Current] = t]
  /\ UNCHANGED <<broken, clock, exam, started, tab>>

-----------------------------------------------------------------------------
(* submit_question_answer *)

\* The view compares the posted question with the current one, unlocked;
\* with no question left it goes on to complete the attempt.
RequestSubmit(t, q, s) ==
  /\ MayRequest(t)
  /\ Current \in {0, q}
  /\ tab' = [tab EXCEPT ![t] = [pc |-> IF Current = 0 THEN "complete" ELSE "posted",
                                number |-> exam.number, now |-> 0, question |-> q, score |-> s]]
  /\ UNCHANGED <<broken, clock, exam, started, answer, rowLock>>

\* submit_exam_answer reads the clock before it waits for the rows.
ReadClock(t) ==
  /\ tab[t].pc = "posted"
  /\ tab' = [tab EXCEPT ![t].pc = "submit", ![t].now = clock]
  /\ UNCHANGED <<broken, clock, exam, started, answer, rowLock>>

LockQuestion(t) ==
  /\ tab[t].pc = "submit"
  /\ Free(tab[t].question, t)
  /\ rowLock' = [rowLock EXCEPT ![tab[t].question] = t]
  /\ tab' = [tab EXCEPT ![t].pc = "grade"]
  /\ UNCHANGED <<broken, clock, exam, started, answer>>

\* Mutant: the status is not read again under the lock.
AcceptsMutant(t) ==
  LET q == tab[t].question IN
    tab[t].number = exam.number /\ started[q] # 0 /\ (answer[q] = {} \/ (AllowBack /\ tab[t].now < Deadline(q)))
\* A first answer is always recorded; a second one only with back navigation
\* and within the time.
Accepts(t) ==
  LET q == tab[t].question IN
    /\ tab[t].number = exam.number
    /\ Active
    /\ started[q] # 0
    /\ answer[q] = {} \/ (AllowBack /\ tab[t].now < Deadline(q))

\* Mutant: a late answer keeps its score.
GradedMutant(t) == [score |-> tab[t].score, timedOut |-> tab[t].now >= Deadline(tab[t].question), at |-> tab[t].now]
Graded(t) ==
  LET late == tab[t].now >= Deadline(tab[t].question) IN
    [score |-> IF late THEN 0 ELSE tab[t].score, timedOut |-> late, at |-> tab[t].now]

SubmitAccepted(t) ==
  /\ tab[t].pc = "grade"
  /\ Free(0, t)
  /\ Accepts(t)
  /\ answer' = [answer EXCEPT ![tab[t].question] = {Graded(t)}]
  /\ rowLock' = Unlocked(t)
  /\ tab' = [tab EXCEPT ![t].pc = "after"]
  /\ UNCHANGED <<broken, clock, exam, started>>

SubmitRefused(t) ==
  /\ tab[t].pc = "grade"
  /\ Free(0, t)
  /\ ~Accepts(t)
  /\ rowLock' = Unlocked(t)
  /\ Finish(t)
  /\ UNCHANGED <<broken, clock, exam, started, answer>>

\* get_current_question once more, without a lock.
SubmitAfter(t) ==
  /\ tab[t].pc = "after"
  /\ IF Current = 0 THEN tab' = [tab EXCEPT ![t].pc = "complete"] ELSE Finish(t)
  /\ UNCHANGED <<broken, clock, exam, started, answer, rowLock>>

-----------------------------------------------------------------------------
(* complete_exam_attempt *)

\* _average_score in hundredths of a percent, rounded half up
Total(a) == MapThenSumSet(LAMBDA q : MapThenSumSet(LAMBDA x : x.score, a[q]), Questions)
AverageScore(a) == LET n == Cardinality(Questions) IN (200 * Total(a) + n) \div (2 * n)

Result(a) ==
  [score |-> AverageScore(a), passed |-> AverageScore(a) >= 100 * PassMark,
   correct |-> Cardinality({q \in Questions : \E x \in a[q] : x.score = 100})]

\* Every question is answered, and the attempt was not ended by another tab.
Completes(t) == tab[t].number = exam.number /\ Active /\ Unanswered = {}

Complete(t) ==
  /\ tab[t].pc = "complete"
  /\ Free(0, t)
  /\ exam' = IF Completes(t) THEN [exam EXCEPT !.status = "completed", !.result = {Result(answer)}] ELSE exam
  /\ Finish(t)
  /\ UNCHANGED <<broken, clock, started, answer, rowLock>>

\* The admin form: invalidation of an attempt in any state.
Invalidate ==
  /\ exam.status \in {"in_progress", "completed"}
  /\ rowLock[0] = Nobody
  /\ exam' = [exam EXCEPT !.status = "invalidated"]
  /\ UNCHANGED <<broken, clock, started, answer, tab, rowLock>>

-----------------------------------------------------------------------------
\* PostgreSQL finds two transactions that wait for each other and ends one.
Waits(t, u) ==
  \/ tab[t].pc = "grade" /\ rowLock[0] = u /\ u # t
  \/ InLoop(t) /\ rowLock[Current] = u /\ u # t
\* Mutant: nobody ends the deadlock.
DeadlockedMutant(t) == FALSE
Deadlocked(t) == \E u \in Tabs : Waits(t, u) /\ Waits(u, t)
DeadlockAbort(t) ==
  /\ Deadlocked(t)
  /\ rowLock' = Unlocked(t)
  /\ Finish(t)
  /\ UNCHANGED <<broken, clock, exam, started, answer>>

TabStep(t) ==
  \/ LockAttempt(t) \/ OpenNothing(t) \/ OpenShow(t) \/ OpenTimeout(t)
  \/ ReadClock(t) \/ LockQuestion(t) \/ SubmitAccepted(t) \/ SubmitRefused(t) \/ SubmitAfter(t)
  \/ Complete(t) \/ DeadlockAbort(t)

Next ==
  \/ Tick \/ StartAttempt \/ Invalidate
  \/ \E c \in Conditions : Switch(c)
  \/ \E t \in Tabs : RequestQuestion(t) \/ TabStep(t)
  \/ \E t \in Tabs, q \in Questions, s \in Scores : RequestSubmit(t, q, s)

\* A running request goes on, and the database serves the waiters of a row
\* lock in turn: no other tab passes this one for ever.
Fairness == \A t \in Tabs : SF_vars(TabStep(t))
Spec == Init /\ [][Next]_vars /\ Fairness

-----------------------------------------------------------------------------
(* Properties *)

\* The rows, and what the validators of the models allow
ExamBlueprint ==
  /\ QuestionCount \in Nat \ {0} /\ TimeLimit \in Nat \ {0}
  /\ PassMark \in 1..100 /\ AllowBack \in BOOLEAN
ExamAssignment == AttemptLimit \in 1..10 /\ broken \subseteq Conditions
ExamAttempt ==
  [number: 0..AttemptLimit,
   status: {"none", "in_progress", "completed", "invalidated"},
   result: SUBSET [score: 0..10000, passed: BOOLEAN,
                   correct: 0..Cardinality(Questions)]]
\* started_at of the snapshot at each position
ExamQuestionSnapshot == [Questions -> 0..MaxTime]
ExamAnswer == [score: 0..100, timedOut: BOOLEAN, at: Nat]
TypeOK ==
  /\ clock \in 1..MaxTime
  /\ ExamBlueprint /\ ExamAssignment
  /\ exam \in ExamAttempt
  /\ started \in ExamQuestionSnapshot
  /\ answer \in [Questions -> SUBSET ExamAnswer]
  /\ \A q \in Questions : Cardinality(answer[q]) <= 1
  /\ rowLock \in [{0} \cup Questions -> Tabs \cup {Nobody}]

\* One question at a time: a question is opened only after every earlier one
\* has its answer, whatever the tabs do, and only opened ones are answered.
OneOpenQuestion ==
  \A q \in Questions :
     /\ started[q] # 0 => \A p \in 1..(q - 1) : answer[p] # {}
     /\ answer[q] # {} => started[q] # 0

\* A score is only ever earned by a request that arrived before the deadline.
NoScoreAfterDeadline ==
  \A q \in Questions : \A a \in answer[q] : a.score > 0 => a.at < Deadline(q) /\ ~a.timedOut

\* The result of a completed attempt is the one of the answers that are
\* stored: none is missing and none changes after it was computed.
ResultMatchesAnswers ==
  exam.result # {} => Unanswered = {} /\ exam.result = {Result(answer)}

\* Whatever two tabs do, the exam is fair to its employee and to its result.
ExamsFair == OneOpenQuestion /\ NoScoreAfterDeadline /\ ResultMatchesAnswers

\* A question's clock is started once in an attempt: no reload and no second
\* tab gives more time.
ClockKept ==
  exam'.number = exam.number =>
    \A q \in Questions : started[q] # 0 => started'[q] = started[q]
ClockStartsOnce == [][ClockKept]_vars

\* "Результат сохранён" (the result is saved), as the dashboard says of an
\* assignment whose attempts are used.
ResultSaved == Listed /\ AssignmentState = "completed" => exam.result # {}

\* "Тест готов к прохождению" (the test is ready to be taken), as the
\* dashboard says of an available one: start_exam_attempt accepts it.
AvailableStarts == Listed /\ AssignmentState = "available" => MayStart

\* A request ends, also when two of them lock the rows in opposite orders.
RequestsEnd == \A t \in Tabs : tab[t].pc # "idle" ~> tab[t].pc = "idle"
=============================================================================
