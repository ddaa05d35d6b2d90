----------------------------- MODULE ExamProofs -----------------------------
(***************************************************************************)
(* What the exam promises for any number of tabs and questions, any scores *)
(* and any window: one question is open at a time, its clock starts once,  *)
(* no late answer scores, and a result is the one of the stored answers.   *)
(* The blueprint is any that its validators accept.  Then what the diary   *)
(* says of a trainee, and what an attempt is composed of, for any bank of  *)
(* questions and any editors.                                              *)
(***************************************************************************)
EXTENDS MCAssessment, FiniteSetTheorems, WellFoundedInduction, TLAPS

-----------------------------------------------------------------------------
(* The current question.                                                   *)

\* A set of positions that is not empty has a first one.
LEMMA FirstPosition ==
  ASSUME NEW S \in SUBSET Exam!Questions, S # {}
  PROVE  Exam!Min(S) \in S /\ \A q \in S : Exam!Min(S) <= q
<1>1. S \subseteq Nat
  BY DEF Exam!Questions
<1>2. PICK first \in S : \A q \in S : ~(<<q, first>> \in OpToRel(<, Nat))
  BY <1>1, NatLessThanWellFounded, WFMin
<1>3. ASSUME NEW q \in S PROVE first <= q
  <2>1. q \in Nat /\ first \in Nat
    BY <1>1, <1>2
  <2>2. ~(q < first)
    BY <1>2, <2>1 DEF OpToRel
  <2>3. QED
    BY <2>1, <2>2
<1>4. QED
  BY <1>2, <1>3 DEF Exam!Min

\* Whatever precedes the current question has its answer, and it has none.
LEMMA CurrentFirst ==
  ASSUME QuestionCount \in Nat, Exam!Current # 0
  PROVE  /\ Exam!Current \in Exam!Questions
         /\ answer[Exam!Current] = {}
         /\ \A p \in 1..(Exam!Current - 1) : answer[p] # {}
<1>1. Exam!Unanswered # {} /\ Exam!Current = Exam!Min(Exam!Unanswered)
  BY DEF Exam!Current
<1>2. Exam!Unanswered \in SUBSET Exam!Questions
  BY DEF Exam!Unanswered
<1>3. Exam!Min(Exam!Unanswered) \in Exam!Unanswered /\ \A q \in Exam!Unanswered : Exam!Min(Exam!Unanswered) <= q
  BY <1>1, <1>2, FirstPosition
<1>4. Exam!Current \in Exam!Questions /\ answer[Exam!Current] = {}
  BY <1>1, <1>3 DEF Exam!Unanswered
<1>5. ASSUME NEW p \in 1..(Exam!Current - 1) PROVE answer[p] # {}
  <2>1. p \in Exam!Questions /\ ~(Exam!Current <= p)
    BY <1>4 DEF Exam!Questions
  <2>2. p \notin Exam!Unanswered
    BY <1>1, <1>3, <2>1
  <2>3. QED
    BY <2>1, <2>2 DEF Exam!Unanswered
<1>6. QED
  BY <1>4, <1>5

-----------------------------------------------------------------------------
(* The inductive invariant.                                                *)

Request ==
  [pc: {"idle", "open", "loop", "posted", "submit", "grade", "after", "complete"},
   number: Nat, now: Nat, question: Exam!Questions \cup {0}, score: Scores \cup {0}]
Given == [score: Scores \cup {0}, timedOut: BOOLEAN, at: Nat]

\* The shapes of the state: what TypeOK says of them without its bounds.
Shapes ==
  /\ clock \in Nat
  /\ exam \in [number: Nat, status: {"none", "in_progress", "completed", "invalidated"},
               result: SUBSET {Exam!Result(answer)}]
  /\ started \in [Exam!Questions -> Nat]
  /\ answer \in [Exam!Questions -> SUBSET Given]
  /\ tab \in [Tabs -> Request]
\* A request that posts an answer posts it to a question of the attempt.
PostedQuestion ==
  \A t \in Tabs : tab[t].pc \in {"posted", "submit", "grade"} => tab[t].question \in Exam!Questions
\* The attempt in progress has no result yet: its answers may still change.
ResultOnlyAtEnd == Exam!Active => exam.result = {}

ExamInv == Shapes /\ PostedQuestion /\ ResultOnlyAtEnd /\ Exam!ExamsFair

LEMMA ExamInitially ==
  ASSUME Exam!ExamBlueprint
  PROVE  Exam!Init => ExamInv
<1> SUFFICES ASSUME Exam!Init PROVE ExamInv
  OBVIOUS
<1>1. Shapes /\ PostedQuestion
  BY DEF Exam!Init, Shapes, PostedQuestion, Request, Given, Exam!Rest
<1>2. ResultOnlyAtEnd /\ Exam!ExamsFair
  BY DEF Exam!Init, ResultOnlyAtEnd, Exam!ExamsFair, Exam!OneOpenQuestion, Exam!NoScoreAfterDeadline,
         Exam!ResultMatchesAnswers, Exam!Active
<1>3. QED
  BY <1>1, <1>2 DEF ExamInv

\* A step that touches neither the attempt nor its questions keeps what is
\* said of them.
LEMMA ExamUntouched ==
  ASSUME ExamInv, UNCHANGED <<exam, started, answer>>,
         clock' \in Nat, tab' \in [Tabs -> Request], PostedQuestion'
  PROVE  ExamInv'
<1>1. Shapes'
  BY DEF ExamInv, Shapes
<1>2. ResultOnlyAtEnd'
  BY DEF ExamInv, ResultOnlyAtEnd, Exam!Active
<1>3. Exam!OneOpenQuestion' /\ Exam!NoScoreAfterDeadline'
  BY DEF ExamInv, Exam!ExamsFair, Exam!OneOpenQuestion, Exam!NoScoreAfterDeadline, Exam!Deadline
<1>4. Exam!Result(answer)' = Exam!Result(answer)
  OBVIOUS
<1>5. Exam!ResultMatchesAnswers'
  BY <1>4 DEF ExamInv, Exam!ExamsFair, Exam!ResultMatchesAnswers, Exam!Unanswered
<1>6. QED
  BY <1>1, <1>2, <1>3, <1>5 DEF ExamInv, Exam!ExamsFair

\* A transaction that ends leaves its tab at rest.
LEMMA FinishRests ==
  ASSUME ExamInv, NEW t \in Tabs, Exam!Finish(t)
  PROVE  tab' \in [Tabs -> Request] /\ PostedQuestion'
<1>1. Exam!Rest \in Request
  BY DEF Exam!Rest, Request
<1>2. tab' = [tab EXCEPT ![t] = Exam!Rest] /\ tab \in [Tabs -> Request]
  BY DEF Exam!Finish, ExamInv, Shapes
<1>3. PostedQuestion'
  BY <1>2 DEF ExamInv, PostedQuestion, Exam!Rest
<1>4. QED
  BY <1>1, <1>2, <1>3

\* The first showing sets a clock that is not set and no other.
LEMMA ShownStarts ==
  ASSUME Exam!ExamBlueprint, ExamInv, NEW t \in Tabs, Exam!InLoop(t), started' = Exam!Shown(t)
  PROVE  /\ started' \in [Exam!Questions -> Nat]
         /\ \A q \in Exam!Questions : started[q] # 0 => started'[q] = started[q]
         /\ \A q \in Exam!Questions : q # Exam!Current => started'[q] = started[q]
<1>1. started \in [Exam!Questions -> Nat] /\ tab[t].now \in Nat
  BY DEF ExamInv, Shapes, Request
<1>2. Exam!Current # 0 /\ QuestionCount \in Nat
  BY DEF Exam!InLoop, Exam!ExamBlueprint
<1>3. Exam!Current \in Exam!Questions
  BY <1>2, CurrentFirst
<1>4. QED
  BY <1>1, <1>3 DEF Exam!Shown

LEMMA OpenShowStep ==
  ASSUME Exam!ExamBlueprint, ExamInv, NEW t \in Tabs, Exam!OpenShow(t)
  PROVE  ExamInv'
<1>1. Exam!InLoop(t) /\ started' = Exam!Shown(t) /\ Exam!Finish(t) /\ UNCHANGED <<clock, exam, answer>>
  BY DEF Exam!OpenShow
<1>2. /\ Exam!Current \in Exam!Questions /\ answer[Exam!Current] = {}
      /\ \A p \in 1..(Exam!Current - 1) : answer[p] # {}
  BY <1>1, CurrentFirst DEF Exam!InLoop, Exam!ExamBlueprint
<1>3. /\ started' \in [Exam!Questions -> Nat]
      /\ \A q \in Exam!Questions : q # Exam!Current => started'[q] = started[q]
  BY <1>1, ShownStarts
<1>4. tab' \in [Tabs -> Request] /\ PostedQuestion'
  BY <1>1, FinishRests
<1>5. Shapes'
  BY <1>1, <1>3, <1>4 DEF ExamInv, Shapes
<1>6. ResultOnlyAtEnd'
  BY <1>1 DEF ExamInv, ResultOnlyAtEnd, Exam!Active
<1>7. Exam!OneOpenQuestion'
  BY <1>1, <1>2, <1>3 DEF ExamInv, Exam!ExamsFair, Exam!OneOpenQuestion
<1>8. Exam!NoScoreAfterDeadline'
  BY <1>1, <1>2, <1>3 DEF ExamInv, Exam!ExamsFair, Exam!NoScoreAfterDeadline, Exam!Deadline
<1>9. Exam!ResultMatchesAnswers'
  BY <1>1 DEF ExamInv, Exam!ExamsFair, Exam!ResultMatchesAnswers, Exam!Unanswered
<1>10. QED
  BY <1>4, <1>5, <1>6, <1>7, <1>8, <1>9 DEF ExamInv, Exam!ExamsFair

\* An answer recorded while the attempt is in progress, to a question that
\* was opened, with a score that it earned in time.
LEMMA AnswerRecorded ==
  ASSUME ExamInv, NEW q \in Exam!Questions, NEW a \in Given,
         started[q] # 0, a.score > 0 => a.at < Exam!Deadline(q) /\ ~a.timedOut, Exam!Active,
         answer' = [answer EXCEPT ![q] = {a}], UNCHANGED <<clock, exam, started>>,
         tab' \in [Tabs -> Request], PostedQuestion'
  PROVE  ExamInv'
<1>1. answer' \in [Exam!Questions -> SUBSET Given] /\ exam'.result = {}
  BY DEF ExamInv, Shapes, ResultOnlyAtEnd
<1>2. Shapes'
  BY <1>1 DEF ExamInv, Shapes
<1>3. ResultOnlyAtEnd' /\ Exam!ResultMatchesAnswers'
  BY <1>1 DEF ResultOnlyAtEnd, Exam!ResultMatchesAnswers
<1>4. \A p \in Exam!Questions : answer[p] # {} => answer'[p] # {}
  BY DEF ExamInv, Shapes
<1>5. \A p \in Exam!Questions : answer'[p] = IF p = q THEN {a} ELSE answer[p]
  BY DEF ExamInv, Shapes
<1>6. \A p \in 1..(q - 1) : answer[p] # {}
  BY DEF ExamInv, Exam!ExamsFair, Exam!OneOpenQuestion
<1>7. Exam!OneOpenQuestion'
  <2>1. ASSUME NEW r \in Exam!Questions, started'[r] # 0, NEW p \in 1..(r - 1)
        PROVE  answer'[p] # {}
    <3>1. answer[p] # {} 
      BY <2>1 DEF ExamInv, Exam!ExamsFair, Exam!OneOpenQuestion
    <3>2. QED
      BY <3>1 DEF ExamInv, Shapes
  <2>2. ASSUME NEW r \in Exam!Questions, answer'[r] # {} PROVE started'[r] # 0
    BY <1>5, <2>2 DEF ExamInv, Exam!ExamsFair, Exam!OneOpenQuestion
  <2>3. QED
    BY <2>1, <2>2 DEF Exam!OneOpenQuestion
<1>8. Exam!NoScoreAfterDeadline'
  BY <1>5 DEF ExamInv, Exam!ExamsFair, Exam!NoScoreAfterDeadline, Exam!Deadline
<1>9. QED
  BY <1>2, <1>3, <1>7, <1>8 DEF ExamInv, Exam!ExamsFair

LEMMA OpenTimeoutStep ==
  ASSUME Exam!ExamBlueprint, ExamInv, NEW t \in Tabs, Exam!OpenTimeout(t)
  PROVE  ExamInv'
<1> DEFINE a == [score |-> 0, timedOut |-> TRUE, at |-> tab[t].now]
<1>1. Exam!Current \in Exam!Questions /\ started[Exam!Current] # 0 /\ Exam!Active
  BY CurrentFirst DEF Exam!OpenTimeout, Exam!InLoop, Exam!ExamBlueprint
<1>2. a \in Given /\ ~(a.score > 0)
  BY DEF ExamInv, Shapes, Request, Given
<1>3. /\ answer' = [answer EXCEPT ![Exam!Current] = {a}]
      /\ UNCHANGED <<clock, exam, started, tab>>
  BY DEF Exam!OpenTimeout
<1>4. tab' \in [Tabs -> Request] /\ PostedQuestion'
  BY <1>3 DEF ExamInv, Shapes, PostedQuestion
<1> HIDE DEF a
<1>5. QED
  BY <1>1, <1>2, <1>3, <1>4, AnswerRecorded

LEMMA SubmitAcceptedStep ==
  ASSUME Exam!ExamBlueprint, ExamInv, NEW t \in Tabs, Exam!SubmitAccepted(t)
  PROVE  ExamInv'
<1> DEFINE q == tab[t].question
           a == Exam!Graded(t)
<1>1. q \in Exam!Questions /\ started[q] # 0 /\ Exam!Active
  BY DEF ExamInv, PostedQuestion, Exam!SubmitAccepted, Exam!Accepts
<1>2. tab[t] \in Request /\ Exam!Deadline(q) \in Nat
  BY <1>1 DEF ExamInv, Shapes, Exam!ExamBlueprint, Exam!Deadline
<1>3. a \in Given /\ (a.score > 0 => a.at < Exam!Deadline(q) /\ ~a.timedOut)
  <2>1. tab[t].now \in Nat /\ tab[t].score \in Scores \cup {0}
    BY <1>2 DEF Request
  <2>2. CASE tab[t].now >= Exam!Deadline(q)
    <3>1. a = [score |-> 0, timedOut |-> TRUE, at |-> tab[t].now]
      BY <2>2 DEF Exam!Graded
    <3>2. QED
      BY <2>1, <3>1 DEF Given
  <2>3. CASE ~(tab[t].now >= Exam!Deadline(q))
    <3>1. tab[t].now < Exam!Deadline(q) /\ (tab[t].now >= Exam!Deadline(q)) = FALSE
      BY <1>2, <2>1, <2>3
    <3>2. a = [score |-> tab[t].score, timedOut |-> FALSE, at |-> tab[t].now]
      BY <3>1 DEF Exam!Graded
    <3>3. QED
      BY <2>1, <3>1, <3>2 DEF Given
  <2>4. QED
    BY <2>2, <2>3
<1>4. /\ answer' = [answer EXCEPT ![q] = {a}]
      /\ tab' = [tab EXCEPT ![t].pc = "after"]
      /\ UNCHANGED <<clock, exam, started>>
  BY DEF Exam!SubmitAccepted
<1>5. tab' \in [Tabs -> Request] /\ PostedQuestion'
  BY <1>4 DEF ExamInv, Shapes, PostedQuestion, Request
<1> HIDE DEF a, q
<1>6. QED
  BY <1>1, <1>3, <1>4, <1>5, AnswerRecorded

LEMMA CompleteStep ==
  ASSUME ExamInv, NEW t \in Tabs, Exam!Complete(t)
  PROVE  ExamInv'
<1>1. /\ exam' = IF Exam!Completes(t) THEN [exam EXCEPT !.status = "completed", !.result = {Exam!Result(answer)}] ELSE exam
      /\ Exam!Finish(t) /\ UNCHANGED <<clock, started, answer>>
  BY DEF Exam!Complete
<1>2. tab' \in [Tabs -> Request] /\ PostedQuestion'
  BY <1>1, FinishRests
<1>3. CASE ~Exam!Completes(t)
  BY <1>1, <1>2, <1>3, ExamUntouched DEF ExamInv, Shapes
<1>4. CASE Exam!Completes(t)
  <2>1. /\ exam'.result = {Exam!Result(answer')} /\ exam'.status = "completed"
        /\ exam'.number \in Nat /\ Exam!Unanswered' = {}
        /\ exam' = [exam EXCEPT !.status = "completed", !.result = {Exam!Result(answer')}]
    BY <1>1, <1>4 DEF ExamInv, Shapes, Exam!Completes, Exam!Unanswered
  <2>2. Shapes'
    BY <1>1, <1>2, <2>1 DEF ExamInv, Shapes
  <2>3. ResultOnlyAtEnd' /\ Exam!ResultMatchesAnswers'
    BY <2>1 DEF ResultOnlyAtEnd, Exam!ResultMatchesAnswers, Exam!Active
  <2>4. Exam!OneOpenQuestion' /\ Exam!NoScoreAfterDeadline'
    BY <1>1 DEF ExamInv, Exam!ExamsFair, Exam!OneOpenQuestion, Exam!NoScoreAfterDeadline, Exam!Deadline
  <2>5. QED
    BY <1>2, <2>2, <2>3, <2>4 DEF ExamInv, Exam!ExamsFair
<1>5. QED
  BY <1>3, <1>4

LEMMA StartStep ==
  ASSUME ExamInv, Exam!StartAttempt
  PROVE  ExamInv'
<1>1. /\ exam' = [number |-> exam.number + 1, status |-> "in_progress", result |-> {}]
      /\ started' = [q \in Exam!Questions |-> 0]
      /\ answer' = [q \in Exam!Questions |-> {}]
      /\ UNCHANGED <<clock, tab>>
  BY DEF Exam!StartAttempt
<1>2. Shapes' /\ PostedQuestion'
  BY <1>1 DEF ExamInv, Shapes, PostedQuestion
<1>3. ResultOnlyAtEnd' /\ Exam!ExamsFair'
  BY <1>1 DEF ResultOnlyAtEnd, Exam!ExamsFair, Exam!OneOpenQuestion, Exam!NoScoreAfterDeadline,
              Exam!ResultMatchesAnswers
<1>4. QED
  BY <1>2, <1>3 DEF ExamInv

LEMMA InvalidateStep ==
  ASSUME ExamInv, Exam!Invalidate
  PROVE  ExamInv'
<1>1. /\ exam' = [exam EXCEPT !.status = "invalidated"]
      /\ UNCHANGED <<clock, started, answer, tab>>
  BY DEF Exam!Invalidate
<1>2. Shapes' /\ PostedQuestion' /\ exam'.result = exam.result /\ exam'.status = "invalidated"
  BY <1>1 DEF ExamInv, Shapes, PostedQuestion
<1>3. ResultOnlyAtEnd'
  BY <1>2 DEF ResultOnlyAtEnd, Exam!Active
<1>4. Exam!ResultMatchesAnswers'
  BY <1>1, <1>2 DEF ExamInv, Exam!ExamsFair, Exam!ResultMatchesAnswers, Exam!Unanswered
<1>5. Exam!OneOpenQuestion' /\ Exam!NoScoreAfterDeadline'
  BY <1>1 DEF ExamInv, Exam!ExamsFair, Exam!OneOpenQuestion, Exam!NoScoreAfterDeadline, Exam!Deadline
<1>6. QED
  BY <1>2, <1>3, <1>4, <1>5 DEF ExamInv, Exam!ExamsFair

\* The steps that end a request or move it on, the clock and the staff.
LEMMA RequestStep ==
  ASSUME ExamInv, NEW t \in Tabs,
         Exam!RequestQuestion(t) \/ Exam!LockAttempt(t) \/ Exam!OpenNothing(t) \/ Exam!ReadClock(t)
         \/ Exam!LockQuestion(t) \/ Exam!SubmitRefused(t) \/ Exam!SubmitAfter(t) \/ Exam!DeadlockAbort(t)
         \/ \E q \in Exam!Questions, s \in Scores : Exam!RequestSubmit(t, q, s)
  PROVE  ExamInv'
<1>1. UNCHANGED <<clock, exam, started, answer>>
  BY DEF Exam!RequestQuestion, Exam!LockAttempt, Exam!OpenNothing, Exam!ReadClock, Exam!LockQuestion, Exam!SubmitRefused,
         Exam!SubmitAfter, Exam!DeadlockAbort, Exam!RequestSubmit
<1>2. clock' \in Nat /\ tab \in [Tabs -> Request] /\ exam.number \in Nat
  BY <1>1 DEF ExamInv, Shapes
<1>3. tab' \in [Tabs -> Request] /\ PostedQuestion'
  <2>1. CASE Exam!RequestQuestion(t)
    BY <1>2, <2>1 DEF Exam!RequestQuestion, ExamInv, Shapes, PostedQuestion, Request, Exam!Rest
  <2>2. CASE Exam!LockAttempt(t) \/ Exam!OpenNothing(t)
    BY <1>2, <2>2 DEF Exam!LockAttempt, Exam!OpenNothing, ExamInv, PostedQuestion, Request
  <2>3. CASE Exam!ReadClock(t) \/ Exam!LockQuestion(t)
    BY <1>2, <2>3 DEF Exam!ReadClock, Exam!LockQuestion, ExamInv, Shapes, PostedQuestion, Request
  <2>4. CASE Exam!SubmitRefused(t) \/ Exam!DeadlockAbort(t)
    BY <2>4, FinishRests DEF Exam!SubmitRefused, Exam!DeadlockAbort
  <2>5. CASE Exam!SubmitAfter(t)
    <3>1. CASE Exam!Current = 0
      BY <1>2, <2>5, <3>1 DEF Exam!SubmitAfter, ExamInv, PostedQuestion, Request
    <3>2. CASE Exam!Current # 0
      BY <2>5, <3>2, FinishRests DEF Exam!SubmitAfter
    <3>3. QED
      BY <3>1, <3>2
  <2>6. CASE \E q \in Exam!Questions, s \in Scores : Exam!RequestSubmit(t, q, s)
    <3>1. PICK q \in Exam!Questions, s \in Scores : Exam!RequestSubmit(t, q, s)
      BY <2>6
    <3>2. tab' = [tab EXCEPT ![t] = [pc |-> IF Exam!Current = 0 THEN "complete" ELSE "posted",
                                     number |-> exam.number, now |-> 0, question |-> q, score |-> s]]
      BY <3>1 DEF Exam!RequestSubmit
    <3>3. QED
      BY <1>2, <3>2 DEF ExamInv, PostedQuestion, Request
  <2>7. QED
    BY <2>1, <2>2, <2>3, <2>4, <2>5, <2>6
<1>4. QED
  BY <1>1, <1>2, <1>3, ExamUntouched

LEMMA ExamInductive ==
  ASSUME Exam!ExamBlueprint
  PROVE  ExamInv /\ [Exam!Next]_(Exam!vars) => ExamInv'
<1> SUFFICES ASSUME ExamInv, [Exam!Next]_(Exam!vars) PROVE ExamInv'
  OBVIOUS
<1>1. CASE Exam!Tick \/ UNCHANGED Exam!vars \/ \E c \in Conditions : Exam!Switch(c)
  <2>1. UNCHANGED <<exam, started, answer, tab>> /\ clock' \in {clock, clock + 1}
    BY <1>1 DEF Exam!Tick, Exam!Switch, Exam!vars
  <2>2. clock' \in Nat /\ tab' \in [Tabs -> Request] /\ PostedQuestion'
    BY <2>1 DEF ExamInv, Shapes, PostedQuestion
  <2>3. QED
    BY <2>1, <2>2, ExamUntouched
<1>2. CASE Exam!StartAttempt
  BY <1>2, StartStep
<1>3. CASE Exam!Invalidate
  BY <1>3, InvalidateStep
<1>4. ASSUME NEW t \in Tabs, Exam!RequestQuestion(t) \/ Exam!TabStep(t) PROVE ExamInv'
  <2>1. CASE Exam!OpenShow(t)
    BY <2>1, OpenShowStep
  <2>2. CASE Exam!OpenTimeout(t)
    BY <2>2, OpenTimeoutStep
  <2>3. CASE Exam!SubmitAccepted(t)
    BY <2>3, SubmitAcceptedStep
  <2>4. CASE Exam!Complete(t)
    BY <2>4, CompleteStep
  <2>5. QED
    BY <1>4, <2>1, <2>2, <2>3, <2>4, RequestStep DEF Exam!TabStep
<1>5. CASE \E t \in Tabs, q \in Exam!Questions, s \in Scores : Exam!RequestSubmit(t, q, s)
  BY <1>5, RequestStep
<1>6. QED
  BY <1>1, <1>2, <1>3, <1>4, <1>5 DEF Exam!Next

-----------------------------------------------------------------------------
(* The theorems.                                                           *)

\* Whatever the tabs of an employee do, one question is open at a time, only
\* an answer within its time scores, and a result is the one of the answers
\* (attempts.py, question_flow.py, answers.py, results.py).
THEOREM ExamFair == ASSUME Exam!ExamBlueprint PROVE Exam!Spec => []Exam!ExamsFair
<1>1. Exam!Init => ExamInv
  BY ExamInitially
<1>2. ExamInv /\ [Exam!Next]_(Exam!vars) => ExamInv'
  BY ExamInductive
<1>3. ExamInv => Exam!ExamsFair
  BY DEF ExamInv
<1>4. QED
  BY <1>1, <1>2, <1>3, PTL DEF Exam!Spec

\* No request sets the clock of a question anew.
LEMMA ClockStep ==
  ASSUME Exam!ExamBlueprint
  PROVE  ExamInv /\ [Exam!Next]_(Exam!vars) => [Exam!ClockKept]_(Exam!vars)
<1> SUFFICES ASSUME ExamInv, Exam!Next PROVE Exam!ClockKept
  OBVIOUS
<1>1. CASE Exam!StartAttempt
  <2>1. exam'.number = exam.number + 1 /\ exam.number \in Nat
    BY <1>1 DEF Exam!StartAttempt, ExamInv, Shapes
  <2>2. QED
    BY <2>1 DEF Exam!ClockKept
<1>2. ASSUME NEW t \in Tabs, Exam!OpenShow(t) PROVE Exam!ClockKept
  BY <1>2, ShownStarts DEF Exam!OpenShow, Exam!ClockKept
<1>3. CASE ~Exam!StartAttempt /\ \A t \in Tabs : ~Exam!OpenShow(t)
  <2>1. UNCHANGED started
    BY <1>3 DEF Exam!Next, Exam!TabStep, Exam!Tick, Exam!Invalidate, Exam!Switch, Exam!RequestQuestion, Exam!RequestSubmit, Exam!LockAttempt,
                Exam!OpenNothing, Exam!OpenTimeout, Exam!ReadClock, Exam!LockQuestion, Exam!SubmitAccepted, Exam!SubmitRefused,
                Exam!SubmitAfter, Exam!Complete, Exam!DeadlockAbort
  <2>2. QED
    BY <2>1 DEF Exam!ClockKept
<1>4. QED
  BY <1>1, <1>2, <1>3

\* The clock of a question that was shown is never set again in its attempt
\* (question_flow.py): no reload and no second tab gives more time.
THEOREM ClockStarted == ASSUME Exam!ExamBlueprint PROVE Exam!Spec => Exam!ClockStartsOnce
<1>1. ExamInv /\ [Exam!Next]_(Exam!vars) => [Exam!ClockKept]_(Exam!vars)
  BY ClockStep
<1>2. Exam!Init => ExamInv
  BY ExamInitially
<1>3. ExamInv /\ [Exam!Next]_(Exam!vars) => ExamInv'
  BY ExamInductive
<1>4. QED
  BY <1>1, <1>2, <1>3, PTL DEF Exam!Spec, Exam!ClockStartsOnce

\* The exam of the instance that is model-checked with the progress of trainees.
LEMMA ExamOfSuite == ASSUME Exam!ExamBlueprint PROVE SuiteSpec => [](part = "exam" => ExamInv)
<1> DEFINE PartInv == part = "exam" => ExamInv
<1>1. SuiteInit => PartInv
  BY ExamInitially DEF SuiteInit
<1>2. PartInv /\ [SuiteNext]_suiteVars => PartInv'
  <2> SUFFICES ASSUME PartInv, [SuiteNext]_suiteVars, part' = "exam"
               PROVE  ExamInv'
    OBVIOUS
  <2>1. part = "exam" /\ ExamInv
    BY DEF SuiteNext, suiteVars
  <2>2. [Exam!Next]_(Exam!vars)
    BY <2>1 DEF SuiteNext, suiteVars, examVars, Exam!vars, ProgressNext, ExamNext, GradingNext,
                BankNext, PlanNext
  <2> QED
    BY <2>1, <2>2, ExamInductive
<1>3. QED
  BY <1>1, <1>2, PTL DEF SuiteSpec

\* So they do in the instance that is model-checked with the exams, for every
\* choice of its constants.
THEOREM SuiteExamsFair == ASSUME Exam!ExamBlueprint PROVE SuiteSpec => []ExamsFair
<1>1. (part = "exam" => ExamInv) => ExamsFair
  BY DEF ExamInv, ExamsFair
<1>2. QED
  BY <1>1, ExamOfSuite, PTL

-----------------------------------------------------------------------------
(* Progress, attention and readiness: the catalog.                         *)

\* The catalog of migration 0007, stage by stage.
LEMMA Stages ==
  /\ Len(Catalog) = 6 /\ DOMAIN Catalog = 1..6
  /\ Catalog[1] = Stage("teachbase", 10, 14, 35, FALSE)
  /\ Catalog[2] = Stage("sandbox_candidate", 1, 2, 5, FALSE)
  /\ Catalog[3] = Stage("with_review", 15, 20, 35, TRUE)
  /\ Catalog[4] = Stage("optional_review", 5, 10, 10, TRUE)
  /\ Catalog[5] = Stage("no_review", 10, 10, 15, TRUE)
  /\ Catalog[6] = Stage("done", 0, 0, 0, TRUE)
BY DEF Catalog, Stage

\* The stages a trainee goes through, and the next one.
LEMMA StagesOf ==
  entry_type \in {"new_hire", "internal_transfer"} =>
    /\ entry_type = "new_hire" => Applicable = 1..6
    /\ entry_type = "internal_transfer" => Applicable = 3..6
<1>1. \A i \in 1..6 : Catalog[i].applies_to_internal_transfer <=> i \in 3..6
  BY Stages DEF Stage
<1>2. QED
  BY <1>1, Stages DEF Applicable

\* The weights before each stage, for the two programs.
Weights(type) == IF type = "new_hire" THEN <<0, 35, 40, 75, 85, 100, 100>> ELSE <<0, 0, 0, 35, 45, 60, 60>>

\* The weight of the stages up to one of them is the sum it is defined to be.
LEMMA WeightsOf ==
  entry_type \in {"new_hire", "internal_transfer"} =>
    \A n \in 0..6 : WeightUpTo[n] = Weights(entry_type)[n + 1]
<1> SUFFICES ASSUME entry_type \in {"new_hire", "internal_transfer"}
             PROVE  \A n \in 0..6 : WeightUpTo[n] = Weights(entry_type)[n + 1]
  OBVIOUS
<1> DEFINE Sum(f) == [n \in 0..Len(Catalog) |->
             IF n = 0 THEN 0 ELSE f[n - 1] + IF n \in Applicable THEN Catalog[n].weight ELSE 0]
<1> DEFINE table == [n \in 0..6 |-> Weights(entry_type)[n + 1]]
<1>1. \A n \in 1..6 : Catalog[n].weight = <<35, 5, 35, 10, 15, 0>>[n]
  BY Stages DEF Stage
<1>2. ASSUME NEW n \in 0..6
      PROVE  table[n] = IF n = 0 THEN 0 ELSE table[n - 1] + IF n \in Applicable THEN Catalog[n].weight ELSE 0
  BY <1>1, StagesOf DEF Weights
<1>3. table = Sum(table)
  BY <1>2, Stages
<1>4. WeightUpTo = Sum(WeightUpTo)
  <2>1. \E f : f = Sum(f)
    BY <1>3
  <2>2. WeightUpTo = CHOOSE f : f = Sum(f)
    BY DEF WeightUpTo
  <2>3. QED
    BY <2>1, <2>2
<1>5. /\ WeightUpTo[0] = 0
      /\ \A n \in 1..6 : WeightUpTo[n] = WeightUpTo[n - 1] + IF n \in Applicable THEN Catalog[n].weight ELSE 0
  BY <1>4, Stages
<1>6. /\ WeightUpTo[1] = WeightUpTo[0] + IF 1 \in Applicable THEN 35 ELSE 0
      /\ WeightUpTo[2] = WeightUpTo[1] + IF 2 \in Applicable THEN 5 ELSE 0
      /\ WeightUpTo[3] = WeightUpTo[2] + IF 3 \in Applicable THEN 35 ELSE 0
      /\ WeightUpTo[4] = WeightUpTo[3] + IF 4 \in Applicable THEN 10 ELSE 0
      /\ WeightUpTo[5] = WeightUpTo[4] + IF 5 \in Applicable THEN 15 ELSE 0
      /\ WeightUpTo[6] = WeightUpTo[5] + IF 6 \in Applicable THEN 0 ELSE 0
  BY <1>1, <1>5
<1>7. CASE entry_type = "new_hire"
  BY <1>5, <1>6, <1>7, StagesOf DEF Weights
<1>8. CASE entry_type = "internal_transfer"
  BY <1>5, <1>6, <1>8, StagesOf DEF Weights
<1>9. QED
  BY <1>7, <1>8

-----------------------------------------------------------------------------
(* Progress: a share of the weights, rounded half to even.                 *)

\* Half to even never turns an order around.
LEMMA RoundMonotone ==
  ASSUME NEW d \in Nat \ {0}, NEW a \in Nat, NEW b \in Nat, a <= b
  PROVE  Round(a, d) \in Nat /\ Round(a, d) <= Round(b, d)
<1>1. PICK q \in Nat, r \in 0..(d - 1) : a = d * q + r /\ q = a \div d /\ r = a % d
  OBVIOUS
<1>2. PICK p \in Nat, s \in 0..(d - 1) : b = d * p + s /\ p = b \div d /\ s = b % d
  OBVIOUS
<1>3. q <= p
  <2> SUFFICES ASSUME q >= p + 1 PROVE FALSE
    BY <1>1, <1>2
  <2>1. PICK k \in Nat : q = p + 1 + k
    BY <1>1, <1>2
  <2>2. d * q = d * p + d + d * k /\ d * k \in Nat /\ d * p \in Nat
    BY <2>1
  <2>3. QED
    BY <1>1, <1>2, <2>2
<1>4. q = p => r <= s
  BY <1>1, <1>2
<1>5. Round(a, d) \in {q, q + 1} /\ Round(b, d) \in {p, p + 1}
  BY <1>1, <1>2 DEF Round
<1>6. CASE q = p
  <2> DEFINE up(x) == 2 * x > d \/ (2 * x = d /\ q % 2 = 1)
  <2>1. Round(a, d) = (IF up(r) THEN q + 1 ELSE q) /\ Round(b, d) = (IF up(s) THEN q + 1 ELSE q)
    BY <1>1, <1>2, <1>6 DEF Round
  <2>2. up(r) => up(s)
    BY <1>4, <1>6
  <2> HIDE DEF up
  <2>3. QED
    BY <2>1, <2>2
<1>7. CASE q < p
  BY <1>5, <1>7
<1>8. QED
  BY <1>3, <1>5, <1>6, <1>7

Overrides == {"", "high"}

\* What a card may say: the stage is one of its program.
CardInv ==
  /\ entry_type \in {"new_hire", "internal_transfer"}
  /\ current \in Applicable
  /\ days_on_stage \in Nat /\ days_total \in Nat
  /\ quality \in Int /\ speed \in Int
  /\ override \in Overrides

\* The progress at the start of each stage.
StartsAt(type) == IF type = "new_hire" THEN <<0, 35, 40, 75, 85, 100, 100>> ELSE <<0, 0, 0, 58, 75, 100, 100>>

\* The figures of a stage: the weight before it, its own, the most days it
\* may take and the weight of the program.
Figures ==
  [new_hire |-> << <<0, 35, 14, 100>>, <<35, 5, 2, 100>>, <<40, 35, 20, 100>>, <<75, 10, 10, 100>>, <<85, 15, 10, 100>> >>,
   internal_transfer |-> << <<0, 0, 0, 0>>, <<0, 0, 0, 0>>, <<0, 35, 20, 60>>, <<35, 10, 10, 60>>, <<45, 15, 10, 60>> >>]
ShareOf(f, d) == Round((f[1] * f[3] + f[2] * Least(d, f[3])) * 100, f[3] * f[4])

LEMMA FiguresRounded ==
  ASSUME NEW type \in {"new_hire", "internal_transfer"}, NEW i \in 1..5, type = "new_hire" \/ i \in 3..5,
         NEW d \in Nat
  PROVE  /\ ShareOf(Figures[type][i], d) \in Nat
         /\ StartsAt(type)[i] <= ShareOf(Figures[type][i], d)
         /\ ShareOf(Figures[type][i], d) <= StartsAt(type)[i + 1]
         /\ d = 0 => ShareOf(Figures[type][i], d) = StartsAt(type)[i]
<1> DEFINE f == Figures[type][i]
           share == Round((f[1] * f[3] + f[2] * Least(d, f[3])) * 100, f[3] * f[4])
           low == Round(f[1] * f[3] * 100, f[3] * f[4])
           high == Round((f[1] * f[3] + f[2] * f[3]) * 100, f[3] * f[4])
<1>1. /\ f[1] \in {0, 35, 40, 45, 75, 85} /\ f[2] \in {5, 10, 15, 35} /\ f[3] \in {2, 10, 14, 20} /\ f[4] \in {60, 100}
  BY DEF Figures
<1>2. share \in Nat /\ low <= share /\ share <= high /\ (d = 0 => share = low)
  <2>1. PICK before, w, max, total : /\ before = f[1] /\ w = f[2] /\ max = f[3] /\ total = f[4]
                                     /\ before \in Nat /\ w \in Nat /\ max \in Nat \ {0} /\ total \in Nat \ {0}
    <3>1. f[1] \in Nat /\ f[2] \in Nat /\ f[3] \in Nat \ {0} /\ f[4] \in Nat \ {0}
      BY <1>1
    <3> HIDE DEF f
    <3>2. QED
      BY <3>1, Zenon
  <2> HIDE DEF f
  <2> DEFINE m == Least(d, max)
             a == before * max * 100
             b == (before * max + w * m) * 100
             c == (before * max + w * max) * 100
  <2>2. m \in Nat /\ m <= max /\ (d = 0 => m = 0)
    BY <2>1 DEF Least
  <2>3. a \in Nat /\ b \in Nat /\ c \in Nat /\ a <= b /\ b <= c /\ (d = 0 => b = a)
    <3> HIDE DEF m
    <3>1. PICK rest \in Nat : max = m + rest
      <4>1. max - m \in Nat /\ max = m + (max - m)
        BY <2>1, <2>2
      <4>2. QED
        BY <4>1
    <3>2. w * max = w * m + w * rest /\ w * m \in Nat /\ w * rest \in Nat /\ before * max \in Nat
      BY <2>1, <2>2, <3>1
    <3> DEFINE x == before * max  y == w * m  z == w * max
    <3>3. x \in Nat /\ y \in Nat /\ z \in Nat /\ y <= z /\ (d = 0 => y = 0)
      BY <2>1, <2>2, <3>2
    <3>4. a = x * 100 /\ b = (x + y) * 100 /\ c = (x + z) * 100
      OBVIOUS
    <3> HIDE DEF x, y, z, a, b, c
    <3>5. QED
      BY <3>3, <3>4
  <2>4. max * total \in Nat \ {0}
    BY <2>1
  <2>5. low = Round(a, max * total) /\ share = Round(b, max * total) /\ high = Round(c, max * total)
    BY <2>1
  <2> HIDE DEF a, b, c, low, share, high
  <2>6. QED
    BY <2>3, <2>4, <2>5, RoundMonotone
<1>3. low = StartsAt(type)[i] /\ high = StartsAt(type)[i + 1]
  <2>1. CASE type = "new_hire" /\ i = 1
    BY <2>1 DEF Figures, StartsAt, Round
  <2>2. CASE type = "new_hire" /\ i = 2
    BY <2>2 DEF Figures, StartsAt, Round
  <2>3. CASE type = "new_hire" /\ i = 3
    BY <2>3 DEF Figures, StartsAt, Round
  <2>4. CASE type = "new_hire" /\ i = 4
    BY <2>4 DEF Figures, StartsAt, Round
  <2>5. CASE type = "new_hire" /\ i = 5
    BY <2>5 DEF Figures, StartsAt, Round
  <2>6. CASE type = "internal_transfer" /\ i = 3
    BY <2>6 DEF Figures, StartsAt, Round
  <2>7. CASE type = "internal_transfer" /\ i = 4
    BY <2>7 DEF Figures, StartsAt, Round
  <2>8. CASE type = "internal_transfer" /\ i = 5
    BY <2>8 DEF Figures, StartsAt, Round
  <2>9. QED
    BY <2>1, <2>2, <2>3, <2>4, <2>5, <2>6, <2>7, <2>8
<1>4. QED
  BY <1>2, <1>3 DEF ShareOf

\* A card has the stages of one of the two programs.
LEMMA ProgramOfCard ==
  CardInv => \/ entry_type = "new_hire" /\ Applicable = 1..6
             \/ entry_type = "internal_transfer" /\ Applicable = 3..6
<1> SUFFICES ASSUME CardInv
             PROVE  \/ entry_type = "new_hire" /\ Applicable = 1..6
                    \/ entry_type = "internal_transfer" /\ Applicable = 3..6
  OBVIOUS
<1>1. entry_type \in {"new_hire", "internal_transfer"}
  BY DEF CardInv
<1>2. QED
  BY <1>1, StagesOf

\* The longer a trainee is on a stage, the larger its share.
LEMMA FiguresGrow ==
  ASSUME NEW type \in {"new_hire", "internal_transfer"}, NEW i \in 1..5, type = "new_hire" \/ i \in 3..5,
         NEW d \in Nat
  PROVE  ShareOf(Figures[type][i], d) <= ShareOf(Figures[type][i], d + 1)
<1> DEFINE f == Figures[type][i]
           low == (f[1] * f[3] + f[2] * Least(d, f[3])) * 100
           high == (f[1] * f[3] + f[2] * Least(d + 1, f[3])) * 100
           whole == f[3] * f[4]
<1>1. /\ f[1] \in {0, 35, 40, 45, 75, 85} /\ f[2] \in {5, 10, 15, 35} /\ f[3] \in {2, 10, 14, 20} /\ f[4] \in {60, 100}
  BY DEF Figures
<1> HIDE DEF f
<1>2. whole \in Nat \ {0}
  BY <1>1
<1>3. low \in Nat /\ high \in Nat /\ low <= high
  <2> DEFINE m == Least(d, f[3])  n == Least(d + 1, f[3])  a == f[1] * f[3]
  <2>1. m \in Nat /\ n \in Nat /\ m <= n
    BY <1>1 DEF Least
  <2>2. a \in Nat
    BY <1>1
  <2>3. low = (a + f[2] * m) * 100 /\ high = (a + f[2] * n) * 100
    OBVIOUS
  <2> HIDE DEF m, n, a, low, high
  <2>4. QED
    BY <1>1, <2>1, <2>2, <2>3
<1>4. ShareOf(f, d) = Round(low, whole) /\ ShareOf(f, d + 1) = Round(high, whole)
  BY DEF ShareOf
<1> HIDE DEF low, high, whole
<1>5. ShareOf(f, d) <= ShareOf(f, d + 1)
  BY <1>2, <1>3, <1>4, RoundMonotone
<1>6. QED
  BY <1>5 DEF f

\* The progress of a card that is not done is the share of its figures.
LEMMA ProgressShare ==
  CardInv /\ current # 6 =>
    /\ entry_type \in {"new_hire", "internal_transfer"} /\ current \in 1..5
    /\ entry_type = "new_hire" \/ current \in 3..5
    /\ progress_percent = ShareOf(Figures[entry_type][current], days_on_stage)
<1> SUFFICES ASSUME CardInv, current # 6
             PROVE  /\ entry_type \in {"new_hire", "internal_transfer"} /\ current \in 1..5
                    /\ entry_type = "new_hire" \/ current \in 3..5
                    /\ progress_percent = ShareOf(Figures[entry_type][current], days_on_stage)
  OBVIOUS
<1>1. /\ entry_type \in {"new_hire", "internal_transfer"} /\ current \in 1..5
      /\ entry_type = "new_hire" \/ current \in 3..5
  BY ProgramOfCard DEF CardInv
<1> DEFINE f == Figures[entry_type][current]
<1>2. stage.group # "done" /\ stage.max_days = f[3] /\ stage.weight = f[2] /\ f[3] # 0
  BY <1>1, Stages DEF Figures, stage, Stage
<1>3. WeightUpTo[current - 1] = f[1] /\ WeightUpTo[Len(Catalog)] = f[4]
  BY <1>1, WeightsOf, Stages DEF Figures, Weights
<1>4. progress_percent = Round((f[1] * f[3] + f[2] * Least(days_on_stage, f[3])) * 100, f[3] * f[4])
  <2> HIDE DEF f
  <2>1. QED
    BY <1>2, <1>3 DEF progress_percent
<1>5. QED
  BY <1>1, <1>4 DEF ShareOf

LEMMA ProgressShareNext ==
  (CardInv /\ current # 6 => progress_percent = ShareOf(Figures[entry_type][current], days_on_stage))'
<1>1. CardInv /\ current # 6 => progress_percent = ShareOf(Figures[entry_type][current], days_on_stage)
  BY ProgressShare
<1>2. QED
  BY <1>1, PTL

\* Progress lies between the starts of its stage and of the one after.
LEMMA ProgressBetween ==
  CardInv =>
    /\ progress_percent \in 0..100
    /\ StartsAt(entry_type)[current] <= progress_percent
    /\ current # 6 => progress_percent <= StartsAt(entry_type)[current + 1]
    /\ current = 6 => progress_percent = 100
    /\ days_on_stage = 0 => progress_percent = StartsAt(entry_type)[current]
<1> SUFFICES ASSUME CardInv
             PROVE  /\ progress_percent \in 0..100
                    /\ StartsAt(entry_type)[current] <= progress_percent
                    /\ current # 6 => progress_percent <= StartsAt(entry_type)[current + 1]
                    /\ current = 6 => progress_percent = 100
                    /\ days_on_stage = 0 => progress_percent = StartsAt(entry_type)[current]
  OBVIOUS
<1>1. CASE current = 6
  <2>1. stage.group = "done"
    BY <1>1, Stages DEF stage, Stage
  <2>2. progress_percent = 100
    BY <2>1 DEF progress_percent
  <2>3. QED
    BY <1>1, <2>2, ProgramOfCard DEF StartsAt
<1>2. CASE current # 6
  <2> DEFINE share == ShareOf(Figures[entry_type][current], days_on_stage)
  <2>1. /\ entry_type \in {"new_hire", "internal_transfer"} /\ current \in 1..5
        /\ entry_type = "new_hire" \/ current \in 3..5
        /\ progress_percent = share
        /\ days_on_stage \in Nat
    BY <1>2, ProgressShare DEF CardInv
  <2>2. /\ share \in Nat
        /\ StartsAt(entry_type)[current] <= share /\ share <= StartsAt(entry_type)[current + 1]
        /\ days_on_stage = 0 => share = StartsAt(entry_type)[current]
    BY <2>1, FiguresRounded
  <2>3. StartsAt(entry_type)[current + 1] \in 0..100
    BY <2>1 DEF StartsAt
  <2> HIDE DEF share
  <2>4. QED
    BY <1>2, <2>1, <2>2, <2>3
<1>3. QED
  BY <1>1, <1>2

LEMMA ProgressBetweenNext ==
  (CardInv =>
     /\ progress_percent \in 0..100
     /\ days_on_stage = 0 => progress_percent = StartsAt(entry_type)[current])'
<1>1. CardInv => /\ progress_percent \in 0..100
                 /\ days_on_stage = 0 => progress_percent = StartsAt(entry_type)[current]
  BY ProgressBetween
<1>2. QED
  BY <1>1, PTL

-----------------------------------------------------------------------------
(* The judgements of one moment.                                           *)

\* The stage of a card is one of the six of the catalog.
LEMMA StageOfCard ==
  CardInv =>
    /\ current \in 1..6
    /\ stage.group = <<"teachbase", "sandbox_candidate", "with_review", "optional_review", "no_review",
                                     "done">>[current]
    /\ stage.max_days = <<14, 2, 20, 10, 10, 0>>[current]
    /\ stage.min_days = <<10, 1, 15, 5, 10, 0>>[current]
<1> SUFFICES ASSUME CardInv
             PROVE  /\ current \in 1..6
                    /\ stage.group = <<"teachbase", "sandbox_candidate", "with_review", "optional_review", "no_review",
                                     "done">>[current]
                    /\ stage.max_days = <<14, 2, 20, 10, 10, 0>>[current]
                    /\ stage.min_days = <<10, 1, 15, 5, 10, 0>>[current]
  OBVIOUS
<1>1. current \in 1..6
  BY ProgramOfCard DEF CardInv
<1>2. QED
  BY <1>1, Stages DEF stage, Stage

\* A judgement of readiness is one of three, or the stage is completed; who is
\* ready has the speed of the last stage and the quality of the reviews.
LEMMA ReadinessTyped ==
  CardInv =>
    /\ readiness.state \in {"ready", "almost_ready", "not_ready", "completed"}
    /\ readiness.state = "ready" /\ stage.group = "with_review" => QualityReasons = {}
    /\ readiness.state = "ready" /\ stage.group = "no_review" => SpeedReasons = {}
<1> SUFFICES ASSUME CardInv
             PROVE  /\ readiness.state \in {"ready", "almost_ready", "not_ready", "completed"}
                    /\ readiness.state = "ready" /\ stage.group = "with_review" => QualityReasons = {}
                    /\ readiness.state = "ready" /\ stage.group = "no_review" => SpeedReasons = {}
  OBVIOUS
<1>1. /\ Ready.state = "ready"
      /\ \A rs : NotReady(rs).state = "not_ready" /\ AlmostReady(rs).state = "almost_ready"
  BY DEF Ready, NotReady, AlmostReady
<1>2. sandbox_readiness.state \in {"ready", "not_ready"}
  BY <1>1 DEF sandbox_readiness
<1>3. /\ with_review_readiness.state \in {"ready", "almost_ready", "not_ready"}
      /\ with_review_readiness.state = "ready" => QualityReasons = {}
  BY <1>1 DEF with_review_readiness
<1>4. time_based_readiness.state \in {"ready", "almost_ready", "not_ready"}
  BY <1>1 DEF time_based_readiness
<1>5. /\ no_review_readiness.state \in {"ready", "almost_ready", "not_ready"}
      /\ no_review_readiness.state = "ready" => SpeedReasons = {}
  BY <1>1 DEF no_review_readiness
<1>6. CASE NextStages = {} \/ stage.group = "done"
  <2>1. CASE stage.group = "done"
    <3>1. readiness = [state |-> "completed", reasons |-> {}]
      BY <2>1 DEF readiness
    <3>2. QED
      BY <2>1, <3>1
  <2>2. CASE stage.group # "done"
    <3>1. readiness = NotReady({"next_stage_missing"})
      BY <1>6, <2>2 DEF readiness
    <3>2. QED
      BY <1>1, <3>1
  <2>3. QED
    BY <2>1, <2>2
<1>7. CASE NextStages # {} /\ stage.group # "done"
  <2>1. readiness = CASE stage.group = "sandbox_candidate" -> sandbox_readiness
                      [] stage.group = "with_review" -> with_review_readiness
                      [] stage.group = "no_review" -> no_review_readiness
                      [] OTHER -> time_based_readiness
    BY <1>7 DEF readiness
  <2>2. QED
    BY <1>2, <1>3, <1>4, <1>5, <2>1
<1>8. QED
  BY <1>6, <1>7

LEMMA JudgementsOfCard == CardInv => JudgementsAgree
<1> SUFFICES ASSUME CardInv PROVE JudgementsAgree
  OBVIOUS
<1>1. /\ days_on_stage \in Nat /\ override \in Overrides
      /\ stage.group # "done" => stage.max_days \in Nat \ {0}
  <2>1. current \in 1..6 /\ (stage.group # "done" => current # 6)
    BY StageOfCard
  <2>2. \A i \in 1..5 : <<14, 2, 20, 10, 10, 0>>[i] \in Nat \ {0}
    OBVIOUS
  <2>3. QED
    BY <2>1, <2>2, StageOfCard DEF CardInv
<1>2. TypeOK
  <2>1. risk_level \in {"none", "low", "medium", "high"}
    BY <1>1, Zenon DEF risk_level, Overrides
  <2>2. card_risk_level \in {"none", "low", "medium", "high"}
    BY <1>1, Zenon DEF card_risk_level, Overrides
  <2>3. QED
    BY <2>1, <2>2, ProgressBetween, ReadinessTyped DEF TypeOK
<1>3. ReadyIsUndisputed
  <2> SUFFICES ASSUME readiness.state = "ready", NEW c \in attention, c \in QualityReasons \cup SpeedReasons PROVE FALSE
    BY DEF ReadyIsUndisputed
  <2>1. c \in {"quality_missing", "quality_below_target", "speed_missing", "speed_below_target"}
    BY DEF QualityReasons, SpeedReasons
  <2>2. (stage.group = "with_review" /\ c \in QualityReasons) \/ (stage.group = "no_review" /\ c \in SpeedReasons)
    BY <2>1 DEF attention
  <2>3. QED
    BY <2>2, ReadinessTyped
<1>4. RisksAgree
  <2>1. ASSUME stage.group # "done"
        PROVE  "stage_overdue" \in attention <=> ~(days_on_stage <= stage.max_days)
    <3>1. "stage_overdue" \in attention <=> days_on_stage > stage.max_days
      BY <2>1 DEF attention, QualityReasons, SpeedReasons
    <3>2. QED
      BY <1>1, <2>1, <3>1
  <2>2. ASSUME stage.group # "done", override = ""
        PROVE  card_risk_level # "low" <=> ~(days_on_stage <= stage.max_days)
    <3>1. stage.max_days # 0
      BY <1>1, <2>2, Zenon
    <3>2. QED
      BY <2>2, <3>1, Zenon DEF card_risk_level
  <2>3. QED
    BY <2>1, <2>2, Zenon DEF RisksAgree
<1>5. QED
  BY <1>2, <1>3, <1>4 DEF JudgementsAgree

-----------------------------------------------------------------------------
(* What time does.                                                         *)

\* The stage that follows is a later one of the program.
LEMMA NextStage ==
  CardInv =>
    \A i \in NextStages : /\ i \in Applicable /\ i \in 2..6 /\ i = current + 1
<1> SUFFICES ASSUME CardInv, NEW i \in NextStages PROVE i \in Applicable /\ i \in 2..6 /\ i = current + 1
  OBVIOUS
<1>1. i \in Applicable /\ i > current /\ \A j \in Applicable : j > current => i <= j
  BY DEF NextStages
<1>2. entry_type \in {"new_hire", "internal_transfer"} /\ current \in Applicable
  BY DEF CardInv
<1>3. Applicable = 1..6 \/ Applicable = 3..6
  BY <1>2, StagesOf
<1>4. current + 1 \in Applicable
  BY <1>1, <1>2, <1>3
<1>5. QED
  BY <1>1, <1>2, <1>3, <1>4

LEMMA CardInitially == Init => CardInv
<1> SUFFICES ASSUME Init PROVE CardInv
  OBVIOUS
<1>1. entry_type \in {"new_hire", "internal_transfer"} /\ current \in Applicable
  BY InputsAssumption DEF Init
<1>2. override \in Overrides
  BY Zenon DEF Init, Overrides
<1>3. days_on_stage = 0 /\ days_total = 0 /\ quality = None /\ speed = None
  BY Zenon DEF Init
<1>4. QED
  BY <1>1, <1>2, <1>3 DEF CardInv, None

LEMMA CardKept == CardInv /\ [Next]_vars => CardInv'
<1> SUFFICES ASSUME CardInv, [Next]_vars PROVE CardInv'
  OBVIOUS
<1>1. entry_type' = entry_type
  <2>1. SetOverride => entry_type' = entry_type
    BY Zenon DEF SetOverride
  <2>2. QED
    BY <2>1 DEF Next, Tick, Advance, RateWeek, ChangeL1, vars
<1>2. Applicable' = Applicable
  BY <1>1 DEF Applicable
<1>3. CASE Tick
  <2>1. /\ current' = current /\ quality' = quality /\ speed' = speed /\ override' = override
        /\ days_on_stage' = days_on_stage + 1 /\ days_total' = days_total + 1
    BY <1>3 DEF Tick, ratings
  <2>2. QED
    BY <1>1, <1>2, <2>1 DEF CardInv
<1>4. CASE Advance
  <2>1. PICK i \in NextStages : current' = i
    BY <1>4 DEF Advance
  <2>2. i \in Applicable
    BY <2>1, NextStage
  <2>3. QED
    BY <1>1, <1>2, <1>4, <2>1, <2>2 DEF CardInv, Advance, ratings
<1>5. CASE RateWeek
  <2>1. speed' \in Int
    BY <1>5, InputsAssumption DEF RateWeek
  <2>2. quality' \in QualityValues \/ quality' = quality
    BY <1>5 DEF RateWeek
  <2>3. quality' \in Int
    <3>1. quality \in Int
      BY DEF CardInv
    <3>2. \A q \in QualityValues : q \in Int
      BY InputsAssumption
    <3>3. QED
      BY <2>2, <3>1, <3>2
  <2>4. QED
    BY <1>1, <1>2, <1>5, <2>1, <2>3 DEF CardInv, RateWeek
<1>6. CASE SetOverride
  <2>1. override' \in Overrides
    BY <1>6, Zenon DEF SetOverride, Overrides
  <2>2. /\ current' = current /\ days_on_stage' = days_on_stage /\ days_total' = days_total
        /\ quality' = quality /\ speed' = speed
    BY <1>6, Zenon DEF SetOverride
  <2>3. QED
    BY <1>1, <1>2, <2>1, <2>2 DEF CardInv
<1>7. CASE ChangeL1
  BY <1>1, <1>2, <1>7 DEF CardInv, ChangeL1
<1>8. CASE UNCHANGED vars
  BY <1>1, <1>2, <1>8 DEF CardInv, vars
<1>9. QED
  BY <1>3, <1>4, <1>5, <1>6, <1>7, <1>8 DEF Next

\* What a day changes, and what it leaves.
LEMMA DayPasses ==
  ASSUME CardInv, Tick
  PROVE  /\ stage' = stage /\ current' = current /\ entry_type' = entry_type /\ l1' = l1 /\ override' = override
         /\ days_on_stage' = days_on_stage + 1 /\ days_on_stage \in Nat
         /\ QualityReasons' = QualityReasons /\ SpeedReasons' = SpeedReasons /\ NextStages' = NextStages
         /\ until_minimum' <= until_minimum /\ until_minimum \in Nat /\ until_minimum' \in Nat
         /\ days_left' <= days_left /\ days_left \in Nat /\ days_left' \in Nat
         /\ NearEnd => NearEnd'
<1>1. /\ current' = current /\ entry_type' = entry_type /\ l1' = l1 /\ override' = override
      /\ quality' = quality /\ speed' = speed
      /\ days_on_stage' = days_on_stage + 1 /\ days_total' = days_total + 1
  BY DEF Tick, ratings
<1>2. stage' = stage
  BY <1>1 DEF stage
<1>3. QualityReasons' = QualityReasons /\ SpeedReasons' = SpeedReasons
  BY <1>1 DEF QualityReasons, SpeedReasons
<1>4. NextStages' = NextStages
  <2>1. Applicable' = Applicable
    BY <1>1 DEF Applicable
  <2>2. QED
    BY <1>1, <2>1 DEF NextStages
<1>5. days_on_stage \in Nat /\ days_total \in Nat /\ entry_type \in {"new_hire", "internal_transfer"}
  BY DEF CardInv
<1>6. until_minimum' <= until_minimum /\ until_minimum \in Nat /\ until_minimum' \in Nat
  <2>1. stage.min_days \in Nat
    <3>1. \A i \in 1..6 : <<10, 1, 15, 5, 10, 0>>[i] \in Nat
      OBVIOUS
    <3>2. QED
      BY <3>1, StageOfCard
  <2>2. until_minimum' = NotNegative(stage.min_days - (days_on_stage + 1))
    BY <1>1, <1>2 DEF until_minimum
  <2>3. until_minimum = NotNegative(stage.min_days - days_on_stage)
    BY DEF until_minimum
  <2>4. QED
    BY <1>5, <2>1, <2>2, <2>3 DEF NotNegative
<1>7. days_left' <= days_left /\ days_left \in Nat /\ days_left' \in Nat
  <2>1. PROBATION_DAYS_BY_ENTRY_TYPE[entry_type] \in Nat
    BY <1>5 DEF PROBATION_DAYS_BY_ENTRY_TYPE
  <2>2. days_left' = NotNegative(PROBATION_DAYS_BY_ENTRY_TYPE[entry_type] - (days_total + 1))
    BY <1>1 DEF days_left
  <2>3. days_left = NotNegative(PROBATION_DAYS_BY_ENTRY_TYPE[entry_type] - days_total)
    BY DEF days_left
  <2>4. QED
    BY <1>5, <2>1, <2>2, <2>3 DEF NotNegative
<1>8. NearEnd => NearEnd'
  <2>1. ATTENTION_DAYS_LEFT_BY_ENTRY_TYPE[entry_type] \in Nat
    BY <1>5 DEF ATTENTION_DAYS_LEFT_BY_ENTRY_TYPE
  <2>2. QED
    BY <1>1, <1>7, <2>1 DEF NearEnd
<1>9. QED
  BY <1>1, <1>2, <1>3, <1>4, <1>5, <1>6, <1>7, <1>8

LEMMA AttentionStays == ASSUME CardInv, Tick PROVE AttentionGrows
<1>1. stage.group # "done"
  BY DEF Tick
<1>2. days_on_stage > stage.max_days => days_on_stage' > stage'.max_days
  <2>1. stage.max_days \in Nat
    <3>1. \A i \in 1..6 : <<14, 2, 20, 10, 10, 0>>[i] \in Nat
      OBVIOUS
    <3>2. QED
      BY <3>1, StageOfCard
  <2>2. QED
    BY <2>1, DayPasses
<1>3. days_on_stage >= stage.max_days => days_on_stage' >= stage'.max_days
  <2>1. stage.max_days \in Nat
    <3>1. \A i \in 1..6 : <<14, 2, 20, 10, 10, 0>>[i] \in Nat
      OBVIOUS
    <3>2. QED
      BY <3>1, StageOfCard
  <2>2. QED
    BY <2>1, DayPasses
<1>4. ASSUME NEW c \in attention PROVE c \in attention'
  <2> DEFINE manual == {x \in {"manual_high_risk"} : override = "high"}
             overdue == {x \in {"stage_overdue"} : days_on_stage > stage.max_days}
             quality_ == {x \in QualityReasons : stage.group = "with_review" /\ days_on_stage >= stage.max_days}
             behind == {x \in {"behind_probation_route"} : NearEnd /\ stage.group # "no_review"}
             speed_ == {x \in SpeedReasons : NearEnd /\ stage.group = "no_review"}
  <2>1. /\ attention = manual \cup overdue \cup quality_ \cup behind \cup speed_
        /\ attention' = manual' \cup overdue' \cup quality_' \cup behind' \cup speed_'
    BY <1>1, DayPasses DEF attention
  <2>2. manual \subseteq manual' /\ overdue \subseteq overdue' /\ quality_ \subseteq quality_'
        /\ behind \subseteq behind' /\ speed_ \subseteq speed_'
    BY <1>2, <1>3, DayPasses
  <2> HIDE DEF manual, overdue, quality_, behind, speed_
  <2>3. QED
    BY <1>4, <2>1, <2>2
<1>5. QED
  BY <1>4 DEF AttentionGrows

\* The states of readiness, in the order of Rank.
LEMMA Ranks ==
  /\ Ready.state = "ready"
  /\ \A rs : NotReady(rs).state = "not_ready" /\ AlmostReady(rs).state = "almost_ready"
  /\ Rank["not_ready"] = 0 /\ Rank["almost_ready"] = 1 /\ Rank["ready"] = 2 /\ Rank["completed"] = 3
BY DEF Ready, NotReady, AlmostReady, Rank

LEMMA ReadinessStays == ASSUME CardInv, Tick PROVE ReadinessGrows
<1>1. stage.group # "done" /\ stage'.group # "done"
  BY DayPasses DEF Tick
<1>2. /\ until_minimum' <= until_minimum /\ until_minimum \in Nat /\ until_minimum' \in Nat
      /\ (until_minimum' > 0 => until_minimum > 0)
  BY DayPasses
<1>3. TimeReason' \subseteq TimeReason
  BY <1>2 DEF TimeReason
<1>4. Rank[with_review_readiness'.state] >= Rank[with_review_readiness.state]
  <2> DEFINE rs == TimeReason \cup QualityReasons
  <2>1. with_review_readiness.state
          = IF rs = {} THEN "ready"
            ELSE IF rs = TimeReason /\ until_minimum <= ALMOST_READY_STAGE_DAYS THEN "almost_ready" ELSE "not_ready"
    BY Ranks DEF with_review_readiness
  <2>2. with_review_readiness'.state
          = IF rs' = {} THEN "ready"
            ELSE IF rs' = TimeReason' /\ until_minimum' <= ALMOST_READY_STAGE_DAYS THEN "almost_ready" ELSE "not_ready"
    BY Ranks DEF with_review_readiness
  <2>3. rs = {} => rs' = {}
    BY <1>3, DayPasses
  <2>4. rs = TimeReason /\ until_minimum <= ALMOST_READY_STAGE_DAYS
          => rs' = TimeReason' /\ until_minimum' <= ALMOST_READY_STAGE_DAYS
    <3> SUFFICES ASSUME rs = TimeReason, until_minimum <= ALMOST_READY_STAGE_DAYS
                 PROVE  rs' = TimeReason' /\ until_minimum' <= ALMOST_READY_STAGE_DAYS
      OBVIOUS
    <3>1. until_minimum' <= ALMOST_READY_STAGE_DAYS
      BY <1>2 DEF ALMOST_READY_STAGE_DAYS
    <3>2. TimeReason \subseteq {"minimum_stage_days"} /\ QualityReasons \subseteq {"quality_missing", "quality_below_target"}
      BY DEF TimeReason, QualityReasons
    <3>3. QualityReasons = {}
      BY <3>2
    <3>4. QED
      BY <3>1, <3>3, DayPasses
  <2> HIDE DEF rs
  <2>5. QED
    BY <2>1, <2>2, <2>3, <2>4, Ranks
<1>5. Rank[no_review_readiness'.state] >= Rank[no_review_readiness.state]
  <2> DEFINE rs == TimeReason \cup SpeedReasons \cup {c \in {"probation_not_finished"} : days_left > 0}
             soon == rs \subseteq TimeReasons /\ until_minimum <= ALMOST_READY_STAGE_DAYS /\ NearEnd
  <2>1. no_review_readiness.state = IF rs = {} THEN "ready" ELSE IF soon THEN "almost_ready" ELSE "not_ready"
    BY Ranks DEF no_review_readiness
  <2>2. no_review_readiness'.state = IF rs' = {} THEN "ready" ELSE IF soon' THEN "almost_ready" ELSE "not_ready"
    BY Ranks DEF no_review_readiness
  <2>3. rs' \subseteq rs
    BY <1>3, DayPasses
  <2>4. soon => soon'
    BY <1>2, <2>3, DayPasses DEF TimeReasons, ALMOST_READY_STAGE_DAYS
  <2> HIDE DEF rs, soon
  <2>5. QED
    BY <2>1, <2>2, <2>3, <2>4, Ranks
<1>6. Rank[time_based_readiness'.state] >= Rank[time_based_readiness.state]
  <2>1. time_based_readiness.state
          = IF current = 1 THEN "not_ready" ELSE IF until_minimum = 0 THEN "ready"
            ELSE IF until_minimum <= ALMOST_READY_STAGE_DAYS THEN "almost_ready" ELSE "not_ready"
    BY Ranks DEF time_based_readiness
  <2>2. time_based_readiness'.state
          = IF current' = 1 THEN "not_ready" ELSE IF until_minimum' = 0 THEN "ready"
            ELSE IF until_minimum' <= ALMOST_READY_STAGE_DAYS THEN "almost_ready" ELSE "not_ready"
    BY Ranks DEF time_based_readiness
  <2>3. QED
    BY <1>2, <2>1, <2>2, DayPasses, Ranks DEF ALMOST_READY_STAGE_DAYS
<1>7. sandbox_readiness' = sandbox_readiness /\ Rank[sandbox_readiness.state] \in Nat
  <2>1. sandbox_readiness' = sandbox_readiness
    BY DayPasses DEF sandbox_readiness, Ready, NotReady
  <2>2. sandbox_readiness.state \in {"ready", "not_ready"}
    BY Ranks DEF sandbox_readiness
  <2>3. QED
    BY <2>1, <2>2, Ranks
<1>8. CASE NextStages = {}
  <2>1. readiness = NotReady({"next_stage_missing"}) /\ readiness' = NotReady({"next_stage_missing"})
    BY <1>1, <1>8, DayPasses DEF readiness, NotReady
  <2>2. QED
    BY <2>1, Ranks DEF ReadinessGrows
<1>9. CASE NextStages # {}
  <2>1. readiness = CASE stage.group = "sandbox_candidate" -> sandbox_readiness
                      [] stage.group = "with_review" -> with_review_readiness
                      [] stage.group = "no_review" -> no_review_readiness
                      [] OTHER -> time_based_readiness
    BY <1>1, <1>9 DEF readiness
  <2>2. readiness' = CASE stage.group = "sandbox_candidate" -> sandbox_readiness'
                       [] stage.group = "with_review" -> with_review_readiness'
                       [] stage.group = "no_review" -> no_review_readiness'
                       [] OTHER -> time_based_readiness'
    BY <1>1, <1>9, DayPasses DEF readiness
  <2>3. QED
    BY <1>4, <1>5, <1>6, <1>7, <2>1, <2>2 DEF ReadinessGrows
<1>10. QED
  BY <1>8, <1>9

\* Progress, with a day or a stage.
LEMMA ProgressStays ==
  ASSUME CardInv, CardInv', Tick \/ Advance PROVE progress_percent' >= progress_percent
<1>1. CASE Advance
  <2>1. PICK i \in NextStages : current' = i
    BY <1>1 DEF Advance
  <2>2. current' = current + 1 /\ current' \in 2..6 /\ entry_type' = entry_type /\ days_on_stage' = 0
    BY <1>1, <2>1, NextStage DEF Advance
  <2>3. progress_percent' = StartsAt(entry_type)[current + 1]
    BY <2>2, ProgressBetweenNext
  <2>4. current # 6 /\ current \in 1..5
    BY <2>2, StageOfCard
  <2>5. progress_percent <= StartsAt(entry_type)[current + 1] /\ progress_percent \in 0..100
    BY <2>4, ProgressBetween
  <2>6. progress_percent' \in 0..100
    BY ProgressBetweenNext
  <2>7. QED
    BY <2>3, <2>5, <2>6
<1>2. CASE Tick
  <2>1. /\ current' = current /\ entry_type' = entry_type
        /\ days_on_stage' = days_on_stage + 1 /\ days_on_stage \in Nat
    BY <1>2, DayPasses
  <2>2. current # 6
    BY <1>2, Stages DEF Tick, stage, Stage
  <2>3. progress_percent = ShareOf(Figures[entry_type][current], days_on_stage)
    BY <2>2, ProgressShare
  <2>4. progress_percent' = ShareOf(Figures[entry_type][current], days_on_stage + 1)
    BY <2>1, <2>2, ProgressShareNext
  <2>5. ShareOf(Figures[entry_type][current], days_on_stage) <= ShareOf(Figures[entry_type][current], days_on_stage + 1)
    BY <2>1, <2>2, ProgressShare, FiguresGrow
  <2>6. progress_percent \in 0..100 /\ progress_percent' \in 0..100
    BY ProgressBetween, ProgressBetweenNext
  <2>7. QED
    BY <2>3, <2>4, <2>5, <2>6
<1>3. QED
  BY <1>1, <1>2

-----------------------------------------------------------------------------
(* The card in the instance that is model-checked.                         *)

LEMMA CardOfSuite == SuiteSpec => []CardInv
<1>1. SuiteInit => CardInv
  BY CardInitially DEF SuiteInit, ProgressOff
<1>2. CardInv /\ [SuiteNext]_suiteVars => CardInv'
  <2> SUFFICES ASSUME CardInv, [SuiteNext]_suiteVars PROVE CardInv'
    OBVIOUS
  <2>1. [Next]_vars
    BY DEF SuiteNext, suiteVars, ProgressNext, ExamNext, GradingNext, BankNext, PlanNext
  <2>2. QED
    BY <2>1, CardKept
<1>3. QED
  BY <1>1, <1>2, PTL DEF SuiteSpec

\* The two services that judge a trainee from the same figures (assessment.py
\* and attention.py) and the card (models.py) agree, for any values of the
\* weeks and any number of days.
THEOREM SuiteJudgementsAgree == SuiteSpec => []JudgementsAgree
<1>1. CardInv => JudgementsAgree
  BY JudgementsOfCard
<1>2. QED
  BY <1>1, CardOfSuite, PTL

\* Time only adds: progress never falls, waiting makes nobody less ready and
\* clears no reason for attention, and a question's clock starts once.
THEOREM SuiteTimeOnlyAdds == ASSUME Exam!ExamBlueprint PROVE SuiteSpec => TimeOnlyAdds
<1> DEFINE Adds == /\ part = "progress" => ProgressGrows /\ ReadinessGrows /\ AttentionGrows
                   /\ part = "exam" => Exam!ClockKept
           PartInv == part = "exam" => ExamInv
<1>1. PartInv /\ CardInv /\ CardInv' /\ [SuiteNext]_suiteVars => [Adds]_suiteVars
  <2> SUFFICES ASSUME PartInv, CardInv, CardInv', SuiteNext PROVE Adds \/ UNCHANGED suiteVars
    OBVIOUS
  <2>1. ProgressGrows /\ ReadinessGrows /\ AttentionGrows
    BY ProgressStays, ReadinessStays, AttentionStays DEF ProgressGrows, ReadinessGrows, AttentionGrows
  <2>2. CASE part # "exam"
    BY <2>1, <2>2
  <2>3. CASE part = "exam"
    <3>1. Exam!Next /\ UNCHANGED <<part, vars, gradingVars, bankVars>>
      BY <2>3 DEF SuiteNext, ProgressNext, ExamNext, GradingNext, BankNext, PlanNext
    <3>2. [Exam!ClockKept]_(Exam!vars)
      BY <2>3, <3>1, ClockStep
    <3>3. UNCHANGED Exam!vars => UNCHANGED suiteVars
      BY <3>1 DEF suiteVars, Exam!vars, examVars
    <3>4. QED
      BY <2>1, <3>2, <3>3
  <2>4. QED
    BY <2>2, <2>3
<1>2. SuiteSpec => []PartInv
  BY ExamOfSuite
<1>3. QED
  BY <1>1, <1>2, CardOfSuite, PTL DEF SuiteSpec, TimeOnlyAdds

-----------------------------------------------------------------------------
(* The question bank, for any editors, questions, families and quotas.     *)

CONSTANTS Editors, Questions, Family, Skill, Quota, Slug, Edited, RowIds, Places, Moves, Switched

AnyBank == INSTANCE QuestionBank

LEMMA CountOfBank == \A S : AnyBank!Cardinality(S) = Cardinality(S)
BY DEF Cardinality, AnyBank!Cardinality

\* What was loaded for the skills that have been drawn.
Planned(loaded, drawn) ==
  /\ IsFiniteSet(loaded)
  /\ \A d \in loaded : d.question \in Questions /\ d.skill \in drawn
  /\ \A k \in drawn : Cardinality({d \in loaded : d.skill = k}) = Quota[k]
  /\ \A c, d \in loaded : c.skill = d.skill /\ c.family = d.family => c = d

\* No family was drawn for two skills.
Apart(loaded) == \A c, d \in loaded : c.family = d.family => c.skill = d.skill

\* What was loaded is filed as it was then.
Unmoved(loaded) ==
  \A d \in loaded : bank[d.question].family = d.family /\ skillOf[d.family] = d.skill

Copied(snapshots, loaded) ==
  /\ {s.of : s \in snapshots} \subseteq loaded
  /\ \A s, t \in snapshots : s.of = t.of => s = t
  /\ \A s \in snapshots : AnyBank!Valid(s.of.type, AnyBank!AsRows(s.rows))

\* The start has drawn the quotas of the skills that are not left, and copies
\* each loaded question once; as long as nothing was moved between two draws,
\* what was loaded is still filed so, and the next draw stays apart from it.
DrawInv ==
  /\ start.left \subseteq DOMAIN Quota
  /\ Planned(start.loaded, DOMAIN Quota \ start.left)
  /\ Copied(start.snapshots, start.loaded)
  /\ start.left # {} => start.snapshots = {}
  /\ ~start.moved => Apart(start.loaded)
  /\ ~start.moved /\ AnyBank!Drawing => Unmoved(start.loaded)

\* The committed attempt is a copy of everything that was drawn.
Composed ==
  \E loaded : /\ Planned(loaded, DOMAIN Quota)
              /\ Copied(attempt, loaded)
              /\ {s.of : s \in attempt} = loaded
              /\ ~start.moved => Apart(loaded)

StartInv ==
  /\ DOMAIN bank = Questions
  /\ start = [pc |-> start.pc, left |-> start.left, short |-> start.short, loaded |-> start.loaded,
              snapshots |-> start.snapshots, moved |-> start.moved]
  /\ start.pc = "count" => start.loaded = {} /\ start.snapshots = {} /\ start.moved = FALSE
  /\ start.pc = "draw" => DrawInv
  /\ attempt # {} => start.pc = "committed" /\ Composed

LEMMA NothingStarted ==
  \E left, short :
    AnyBank!NoStart = [pc |-> "count", left |-> left, short |-> short, loaded |-> {}, snapshots |-> {}, moved |-> FALSE]
<1>1. PICK left, short : left = DOMAIN Quota /\ short = (DOMAIN Quota = {})
  OBVIOUS
<1>2. AnyBank!NoStart = [pc |-> "count", left |-> left, short |-> short, loaded |-> {}, snapshots |-> {}, moved |-> FALSE]
  BY <1>1 DEF AnyBank!NoStart
<1>3. QED
  BY <1>2

LEMMA StartInitially == AnyBank!Init => StartInv
BY NothingStarted DEF AnyBank!Init, StartInv

\* One draw: as many as the skill's quota, each of another family.
LEMMA Drawn ==
  ASSUME IsFiniteSet(Questions), NEW s, NEW qs \in AnyBank!Selections(s),
         NEW new, new = {AnyBank!Loaded(q) : q \in qs}
  PROVE  /\ IsFiniteSet(new) /\ Cardinality(new) = Quota[s]
         /\ \A d \in new : d.question \in Questions /\ d.skill = s
         /\ \A d \in new : bank[d.question].family = d.family /\ skillOf[d.family] = d.skill
         /\ \A c, d \in new : c.family = d.family => c = d
<1>1. /\ qs \subseteq AnyBank!Pool(s) /\ AnyBank!Cardinality(qs) = Quota[s]
      /\ AnyBank!IsInjective([q \in qs |-> bank[q].family])
  BY DEF AnyBank!Selections
<1>2. \A q \in qs : q \in Questions /\ skillOf[bank[q].family] = s
  BY <1>1 DEF AnyBank!Pool
<1>3. \A p, q \in qs : bank[p].family = bank[q].family => p = q
  BY <1>1 DEF AnyBank!IsInjective
<1>4. IsFiniteSet(qs)
  BY <1>2, FS_Subset
<1>5. \A q \in qs : /\ AnyBank!Loaded(q).question = q /\ AnyBank!Loaded(q).family = bank[q].family
                    /\ AnyBank!Loaded(q).skill = s
  BY <1>2 DEF AnyBank!Loaded
<1> DEFINE f == [q \in qs |-> AnyBank!Loaded(q)]
<1>6. f \in Bijection(qs, new)
  <2>1. f \in [qs -> new]
    OBVIOUS
  <2>2. \A p, q \in qs : f[p] = f[q] => p = q
    BY <1>5
  <2>3. \A d \in new : \E q \in qs : f[q] = d
    OBVIOUS
  <2> HIDE DEF f
  <2>4. QED
    BY <2>1, <2>2, <2>3 DEF Bijection, Injection, Surjection, IsInjective
<1>7. IsFiniteSet(new) /\ Cardinality(new) = Cardinality(qs)
  BY <1>4, <1>6, FS_Bijection DEF ExistsBijection
<1>8. QED
  BY <1>1, <1>2, <1>3, <1>5, <1>7, CountOfBank

LEMMA SelectKept ==
  ASSUME IsFiniteSet(Questions), StartInv, NEW s \in DOMAIN Quota, AnyBank!Select(s)
  PROVE  StartInv'
<1>1. PICK qs \in AnyBank!Selections(s) :
        start' = [start EXCEPT !.left = @ \ {s}, !.loaded = @ \cup {AnyBank!Loaded(q) : q \in qs}]
  BY DEF AnyBank!Select
<1>2. PICK new : new = {AnyBank!Loaded(q) : q \in qs}
  OBVIOUS
<1>3. PICK left, loaded : left = start.left \ {s} /\ loaded = start.loaded \cup new
  OBVIOUS
<1>4. /\ start.pc = "draw" /\ s \in start.left /\ DrawInv
      /\ bank' = bank /\ skillOf' = skillOf /\ attempt' = attempt
  BY DEF AnyBank!Select, StartInv
<1>5. start' = [pc |-> "draw", left |-> left, short |-> start.short, loaded |-> loaded,
                snapshots |-> start.snapshots, moved |-> start.moved]
  BY <1>1, <1>2, <1>3, <1>4 DEF StartInv
<1>6. /\ IsFiniteSet(new) /\ Cardinality(new) = Quota[s]
      /\ \A d \in new : d.question \in Questions /\ d.skill = s
      /\ \A d \in new : bank[d.question].family = d.family /\ skillOf[d.family] = d.skill
      /\ \A c, d \in new : c.family = d.family => c = d
  BY <1>2, Drawn
<1>7. \A d \in start.loaded : d.question \in Questions /\ d.skill \in DOMAIN Quota /\ d.skill # s
  BY <1>4 DEF DrawInv, Planned
<1>8. start.snapshots = {}
  BY <1>4 DEF DrawInv
<1>9. Planned(loaded, DOMAIN Quota \ left)
  <2>1. IsFiniteSet(loaded)
    BY <1>3, <1>4, <1>6, FS_Union DEF DrawInv, Planned
  <2>2. ASSUME NEW k \in DOMAIN Quota \ left
        PROVE  Cardinality({d \in loaded : d.skill = k}) = Quota[k]
    <3>1. CASE k = s
      <4>1. {d \in loaded : d.skill = k} = new
        BY <1>3, <1>6, <1>7, <3>1
      <4>2. QED
        BY <1>6, <3>1, <4>1
    <3>2. CASE k # s
      <4>1. {d \in loaded : d.skill = k} = {d \in start.loaded : d.skill = k}
        BY <1>3, <1>6, <3>2
      <4>2. k \in DOMAIN Quota \ start.left
        BY <1>3, <3>2
      <4>3. QED
        BY <1>4, <4>1, <4>2 DEF DrawInv, Planned
    <3>3. QED
      BY <3>1, <3>2
  <2>3. \A d \in loaded : d.question \in Questions /\ d.skill \in DOMAIN Quota \ left
    BY <1>3, <1>4, <1>6, <1>7 DEF DrawInv, Planned
  <2>4. \A c, d \in loaded : c.skill = d.skill /\ c.family = d.family => c = d
    BY <1>3, <1>4, <1>6, <1>7 DEF DrawInv, Planned
  <2>5. QED
    BY <2>1, <2>2, <2>3, <2>4 DEF Planned
<1>10. ~start.moved => Unmoved(start.loaded)
  <2>1. CASE start.left = DOMAIN Quota
    <3>1. start.loaded = {}
      BY <1>4, <2>1 DEF DrawInv, Planned
    <3>2. QED
      BY <3>1 DEF Unmoved
  <2>2. CASE start.left # DOMAIN Quota
    BY <1>4, <2>2 DEF DrawInv, AnyBank!Drawing
  <2>3. QED
    BY <2>1, <2>2
<1>11. ~start.moved => Unmoved(loaded)
  BY <1>3, <1>6, <1>10 DEF Unmoved
<1>12. ~start.moved => Apart(loaded)
  <2>1. \A c, d : skillOf[c.family] = c.skill /\ skillOf[d.family] = d.skill /\ c.family = d.family => c.skill = d.skill
    OBVIOUS
  <2>2. QED
    BY <1>11, <2>1 DEF Unmoved, Apart
<1>13. DrawInv'
  <2>1. Copied({}, loaded)
    BY DEF Copied
  <2>2. start'.left = left /\ start'.loaded = loaded /\ start'.snapshots = {} /\ start'.moved = start.moved
    BY <1>5, <1>8
  <2>3. left \subseteq DOMAIN Quota
    BY <1>3, <1>4 DEF DrawInv
  <2>4. ~start.moved => Unmoved(loaded)'
    BY <1>4, <1>11 DEF Unmoved
  <2>5. Unmoved(start.loaded)' <=> Unmoved(loaded)'
    BY <2>2 DEF Unmoved
  <2>6. QED
    BY <1>9, <1>12, <2>1, <2>2, <2>3, <2>4, <2>5 DEF DrawInv
<1>14. QED
  BY <1>4, <1>5, <1>13 DEF StartInv

LEMMA SnapshotKept ==
  ASSUME StartInv, NEW d, AnyBank!SnapshotNext(d)
  PROVE  StartInv'
<1>1. /\ start.pc = "draw" /\ start.left = {} /\ d \in start.loaded \ AnyBank!Taken
      /\ bank' = bank /\ skillOf' = skillOf /\ attempt' = attempt /\ DrawInv
  BY DEF AnyBank!SnapshotNext, StartInv
<1>2. CASE AnyBank!SnapshotValid(d)
  <2>1. PICK s : s = [of |-> d, rows |-> AnyBank!RowsOf(d)]
    OBVIOUS
  <2>2. PICK all : all = start.snapshots \cup {s}
    OBVIOUS
  <2>3. start' = [pc |-> "draw", left |-> start.left, short |-> start.short, loaded |-> start.loaded,
                  snapshots |-> all, moved |-> start.moved]
    BY <1>1, <1>2, <2>1, <2>2 DEF AnyBank!SnapshotNext, StartInv
  <2>4. s.of = d /\ AnyBank!Valid(s.of.type, AnyBank!AsRows(s.rows))
    BY <1>2, <2>1 DEF AnyBank!SnapshotValid
  <2>5. Copied(all, start.loaded)
    BY <1>1, <2>2, <2>4 DEF DrawInv, Copied, AnyBank!Taken
  <2>6. DrawInv'
    BY <1>1, <2>3, <2>5 DEF DrawInv, AnyBank!Drawing
  <2>7. QED
    BY <1>1, <2>3, <2>6 DEF StartInv
<1>3. CASE ~AnyBank!SnapshotValid(d)
  <2>1. start' = [AnyBank!NoStart EXCEPT !.pc = "refused"]
    BY <1>3 DEF AnyBank!SnapshotNext
  <2>2. PICK left, short :
          AnyBank!NoStart = [pc |-> "count", left |-> left, short |-> short, loaded |-> {}, snapshots |-> {},
                             moved |-> FALSE]
    BY NothingStarted
  <2>3. start' = [pc |-> "refused", left |-> left, short |-> short, loaded |-> {}, snapshots |-> {}, moved |-> FALSE]
    BY <2>1, <2>2
  <2>4. QED
    BY <1>1, <2>3 DEF StartInv
<1>4. QED
  BY <1>2, <1>3

LEMMA CommitKept == ASSUME StartInv, AnyBank!Commit PROVE StartInv'
<1>1. /\ start.pc = "draw" /\ start.left = {} /\ {s.of : s \in start.snapshots} = start.loaded
      /\ attempt' = start.snapshots /\ bank' = bank /\ DrawInv
      /\ start' = [AnyBank!NoStart EXCEPT !.pc = "committed", !.moved = start.moved]
  BY DEF AnyBank!Commit, AnyBank!Taken, StartInv
<1>2. \E left, short :
        start' = [pc |-> "committed", left |-> left, short |-> short, loaded |-> {}, snapshots |-> {},
                  moved |-> start.moved]
  <2>1. PICK left, short :
          AnyBank!NoStart = [pc |-> "count", left |-> left, short |-> short, loaded |-> {}, snapshots |-> {},
                             moved |-> FALSE]
    BY NothingStarted
  <2>2. start' = [pc |-> "committed", left |-> left, short |-> short, loaded |-> {}, snapshots |-> {},
                  moved |-> start.moved]
    BY <1>1, <2>1
  <2>3. QED
    BY <2>2
<1>3. Planned(start.loaded, DOMAIN Quota) /\ Copied(attempt', start.loaded) /\ (~start.moved => Apart(start.loaded))
  <2>1. DOMAIN Quota \ start.left = DOMAIN Quota
    BY <1>1
  <2>2. QED
    BY <1>1, <2>1 DEF DrawInv
<1>4. Composed'
  BY <1>1, <1>2, <1>3 DEF Composed
<1>5. QED
  BY <1>1, <1>2, <1>4 DEF StartInv

\* What the editors write moves nothing, or the start is told.
LEMMA SaveKept == ASSUME StartInv, NEW e \in Editors, NEW admin \in BOOLEAN, AnyBank!SaveForm(e, admin) PROVE StartInv'
<1>1. PICK q : /\ q.family = editor[e].family
               /\ bank' = [bank EXCEPT ![Edited] = q]
  BY DEF AnyBank!SaveForm
<1>2. PICK moved : /\ moved = (start.moved \/ (AnyBank!Drawing /\ editor[e].family # bank[Edited].family))
                   /\ start' = [start EXCEPT !.moved = moved]
  BY DEF AnyBank!SaveForm
<1>3. skillOf' = skillOf /\ attempt' = attempt
  BY DEF AnyBank!SaveForm
<1>4. start' = [pc |-> start.pc, left |-> start.left, short |-> start.short, loaded |-> start.loaded,
                snapshots |-> start.snapshots, moved |-> moved]
  BY <1>2 DEF StartInv
<1>5. start.pc # "draw" => ~AnyBank!Drawing
  BY DEF AnyBank!Drawing
<1>6. \A x \in Questions : bank'[x] = IF x = Edited THEN q ELSE bank[x]
  BY <1>1 DEF StartInv
<1>7. ASSUME start.pc = "draw" PROVE DrawInv'
  <2>1. DrawInv
    BY <1>7 DEF StartInv
  <2>2. AnyBank!Drawing' <=> AnyBank!Drawing
    BY <1>4 DEF AnyBank!Drawing
  <2>3. ASSUME ~moved, AnyBank!Drawing PROVE Unmoved(start.loaded)'
    <3>1. editor[e].family = bank[Edited].family /\ Unmoved(start.loaded)
      BY <1>2, <2>1, <2>3 DEF DrawInv
    <3>2. \A x \in Questions : bank'[x].family = bank[x].family
      BY <1>1, <1>6, <3>1
    <3>3. \A d \in start.loaded : d.question \in Questions
      BY <2>1 DEF DrawInv, Planned
    <3>4. start'.loaded = start.loaded
      BY <1>4
    <3>5. QED
      BY <1>3, <3>1, <3>2, <3>3, <3>4 DEF Unmoved
  <2>4. ~moved => Apart(start.loaded)
    BY <1>2, <2>1 DEF DrawInv
  <2>5. QED
    BY <1>4, <2>1, <2>2, <2>3, <2>4 DEF DrawInv
<1>8. DOMAIN bank' = Questions
  BY <1>1 DEF StartInv
<1>9. start.pc = "committed" /\ Composed => Composed'
  <2>1. start.pc = "committed" => start'.moved = moved /\ (moved <=> start.moved)
    BY <1>2, <1>4, <1>5
  <2>2. QED
    BY <1>3, <2>1 DEF Composed
<1>10. start.pc = "count" => ~AnyBank!Drawing /\ moved = FALSE
  BY <1>2, <1>5 DEF StartInv
<1>11. QED
  BY <1>3, <1>4, <1>7, <1>8, <1>9, <1>10 DEF StartInv

LEMMA MoveKept == ASSUME StartInv, NEW f, NEW k, AnyBank!MoveFamily(f, k) PROVE StartInv'
<1>1. PICK moved : moved = (start.moved \/ AnyBank!Drawing) /\ start' = [start EXCEPT !.moved = moved]
  BY DEF AnyBank!MoveFamily
<1>2. bank' = bank /\ attempt' = attempt
  BY DEF AnyBank!MoveFamily
<1>3. start' = [pc |-> start.pc, left |-> start.left, short |-> start.short, loaded |-> start.loaded,
                snapshots |-> start.snapshots, moved |-> moved]
  BY <1>1 DEF StartInv
<1>4. (start.pc # "draw" => ~AnyBank!Drawing) /\ (AnyBank!Drawing' <=> AnyBank!Drawing)
  BY <1>3 DEF AnyBank!Drawing
<1>5. ASSUME start.pc = "draw" PROVE DrawInv'
  <2>1. DrawInv
    BY <1>5 DEF StartInv
  <2>2. ~moved => Apart(start.loaded)
    BY <1>1, <2>1 DEF DrawInv
  <2>3. ~(~moved /\ AnyBank!Drawing)
    BY <1>1
  <2>4. QED
    BY <1>3, <1>4, <2>1, <2>2, <2>3 DEF DrawInv
<1>6. start.pc = "committed" /\ Composed => Composed'
  <2>1. start.pc = "committed" => start'.moved = moved /\ (moved <=> start.moved)
    BY <1>1, <1>3, <1>4
  <2>2. QED
    BY <1>2, <2>1 DEF Composed
<1>7. start.pc = "count" => moved = FALSE
  BY <1>1, <1>4 DEF StartInv
<1>8. QED
  BY <1>2, <1>3, <1>5, <1>6, <1>7 DEF StartInv

LEMMA StartKept ==
  ASSUME IsFiniteSet(Questions) PROVE StartInv /\ [AnyBank!Next]_(AnyBank!vars) => StartInv'
<1> SUFFICES ASSUME StartInv, [AnyBank!Next]_(AnyBank!vars) PROVE StartInv'
  OBVIOUS
<1>1. CASE UNCHANGED <<bank, skillOf, start, attempt>>
  BY <1>1 DEF StartInv, DrawInv, Composed, Unmoved, AnyBank!Drawing
<1>2. CASE AnyBank!ValidatePool
  <2>1. PICK pc \in {"refused", "draw"} : start' = [start EXCEPT !.pc = pc, !.left = DOMAIN Quota]
    BY <1>2 DEF AnyBank!ValidatePool
  <2>2. start' = [pc |-> pc, left |-> DOMAIN Quota, short |-> start.short, loaded |-> {}, snapshots |-> {}, moved |-> FALSE]
    BY <1>2, <2>1 DEF StartInv, AnyBank!ValidatePool
  <2>3. DrawInv'
    <3>1. Planned({}, DOMAIN Quota \ DOMAIN Quota) /\ Copied({}, {}) /\ Apart({})
      BY FS_EmptySet DEF Planned, Copied, Apart
    <3>2. ~AnyBank!Drawing'
      BY <2>2 DEF AnyBank!Drawing
    <3>3. QED
      BY <2>2, <3>1, <3>2 DEF DrawInv
  <2>4. start.pc = "count" /\ bank' = bank /\ attempt' = attempt
    BY <1>2 DEF AnyBank!ValidatePool
  <2>5. QED
    BY <2>2, <2>3, <2>4 DEF StartInv
<1>3. ASSUME NEW k \in DOMAIN Quota, AnyBank!CountFamilies(k) PROVE StartInv'
  <2>1. PICK left, short : start' = [start EXCEPT !.left = left, !.short = short]
    BY <1>3 DEF AnyBank!CountFamilies
  <2>2. start.pc = "count" /\ bank' = bank /\ attempt' = attempt
    BY <1>3 DEF AnyBank!CountFamilies
  <2>3. start' = [pc |-> "count", left |-> left, short |-> short, loaded |-> {}, snapshots |-> {}, moved |-> FALSE]
    BY <2>1, <2>2 DEF StartInv
  <2>4. QED
    BY <2>2, <2>3 DEF StartInv
<1>4. ASSUME NEW k \in DOMAIN Quota, AnyBank!SampleFails(k) PROVE StartInv'
  <2>1. start.pc = "draw" /\ bank' = bank /\ attempt' = attempt /\ start' = [AnyBank!NoStart EXCEPT !.pc = "failed"]
    BY <1>4 DEF AnyBank!SampleFails
  <2>2. PICK left, short :
          AnyBank!NoStart = [pc |-> "count", left |-> left, short |-> short, loaded |-> {}, snapshots |-> {},
                             moved |-> FALSE]
    BY NothingStarted
  <2>3. start' = [pc |-> "failed", left |-> left, short |-> short, loaded |-> {}, snapshots |-> {}, moved |-> FALSE]
    BY <2>1, <2>2
  <2>4. QED
    BY <2>1, <2>3 DEF StartInv
<1>5. CASE AnyBank!Restart
  <2>1. start.pc \in {"refused", "failed"} /\ bank' = bank /\ attempt' = attempt /\ start' = AnyBank!NoStart
    BY <1>5 DEF AnyBank!Restart
  <2>2. PICK left, short :
          start' = [pc |-> "count", left |-> left, short |-> short, loaded |-> {}, snapshots |-> {}, moved |-> FALSE]
    BY <2>1, NothingStarted
  <2>3. QED
    BY <2>1, <2>2 DEF StartInv
<1>6. CASE \E e \in Editors : AnyBank!EditorStep(e)
  <2>1. ASSUME NEW e \in Editors, AnyBank!EditorStep(e) PROVE StartInv'
    <3>1. CASE \E admin \in BOOLEAN : AnyBank!SaveForm(e, admin)
      BY <3>1, SaveKept
    <3>2. CASE ~\E admin \in BOOLEAN : AnyBank!SaveForm(e, admin)
      <4>1. UNCHANGED <<bank, skillOf, start, attempt>>
        BY <2>1, <3>2 DEF AnyBank!EditorStep, AnyBank!OpenForm, AnyBank!PostForm
      <4>2. QED
        BY <1>1, <4>1
    <3>3. QED
      BY <3>1, <3>2
  <2>2. QED
    BY <1>6, <2>1
<1>7. CASE \E x \in Switched : AnyBank!SwitchFamily(x)
  BY <1>1, <1>7 DEF AnyBank!SwitchFamily
<1>8. CASE UNCHANGED AnyBank!vars
  BY <1>1, <1>8 DEF AnyBank!vars
<1>9. QED
  BY <1>2, <1>3, <1>4, <1>5, <1>6, <1>7, <1>8, SelectKept, SnapshotKept, CommitKept, MoveKept DEF AnyBank!Next

\* Each loaded question of a copy stands for one snapshot.
LEMMA CopiesCounted ==
  ASSUME NEW loaded, Planned(loaded, DOMAIN Quota), Copied(attempt, loaded), {s.of : s \in attempt} = loaded,
         NEW k \in DOMAIN Quota
  PROVE  Cardinality({s \in attempt : s.of.skill = k}) = Quota[k]
<1> DEFINE S == {s \in attempt : s.of.skill = k}
           D == {d \in loaded : d.skill = k}
           f == [d \in D |-> CHOOSE s \in attempt : s.of = d]
<1>1. IsFiniteSet(D)
  BY FS_Subset DEF Planned
<1>2. \A d \in D : f[d] \in attempt /\ f[d].of = d
  OBVIOUS
<1>3. f \in Bijection(D, S)
  <2>1. f \in [D -> S]
    BY <1>2
  <2>2. \A c, d \in D : f[c] = f[d] => c = d
    BY <1>2
  <2>3. \A s \in S : s.of \in D /\ f[s.of] = s
    BY <1>2 DEF Copied
  <2> HIDE DEF f, S, D
  <2>4. QED
    BY <2>1, <2>2, <2>3 DEF Bijection, Injection, Surjection, IsInjective
<1>4. Cardinality(S) = Cardinality(D)
  BY <1>1, <1>3, FS_Bijection DEF ExistsBijection
<1>5. QED
  BY <1>4 DEF Planned

LEMMA ComposedOfStart == StartInv => AnyBank!ComposedAsPlanned /\ AnyBank!SnapshotsSolvable
<1> SUFFICES ASSUME StartInv PROVE AnyBank!ComposedAsPlanned /\ AnyBank!SnapshotsSolvable
  OBVIOUS
<1>1. CASE attempt = {}
  BY <1>1 DEF AnyBank!ComposedAsPlanned, AnyBank!SnapshotsSolvable
<1>2. CASE attempt # {}
  <2>1. PICK loaded : /\ Planned(loaded, DOMAIN Quota) /\ Copied(attempt, loaded)
                      /\ {s.of : s \in attempt} = loaded
                      /\ ~start.moved => Apart(loaded)
    BY <1>2 DEF StartInv, Composed
  <2>2. \A s \in attempt : s.of \in loaded
    BY <2>1
  <2>3. ASSUME NEW s \in attempt, NEW t \in attempt, s.of.family = t.of.family,
               s.of.skill = t.of.skill \/ ~start.moved
        PROVE  s = t
    <3>1. s.of.skill = t.of.skill
      BY <2>1, <2>2, <2>3 DEF Apart
    <3>2. s.of = t.of
      BY <2>1, <2>2, <2>3, <3>1 DEF Planned
    <3>3. QED
      BY <2>1, <3>2 DEF Copied
  <2>4. \A k \in DOMAIN Quota : Cardinality({s \in attempt : s.of.skill = k}) = Quota[k]
    BY <2>1, CopiesCounted
  <2>5. AnyBank!SnapshotsSolvable
    BY <2>1 DEF Copied, AnyBank!SnapshotsSolvable
  <2>6. QED
    BY <2>3, <2>4, <2>5, CountOfBank DEF AnyBank!ComposedAsPlanned
<1>3. QED
  BY <1>1, <1>2

\* An attempt has the quota of every skill, from families that differ, as they
\* were when the skill was drawn, and each of its questions can be answered,
\* whatever editors do while the pool is counted, drawn and copied; and no
\* family comes for two skills unless a family or a question was moved between
\* two draws (blueprint_validation.py, question_selection.py,
\* question_snapshot.py, attempts.py).
THEOREM AttemptComposed ==
  ASSUME IsFiniteSet(Questions)
  PROVE  AnyBank!Spec => [](AnyBank!ComposedAsPlanned /\ AnyBank!SnapshotsSolvable)
<1>1. StartInv => AnyBank!ComposedAsPlanned /\ AnyBank!SnapshotsSolvable
  BY ComposedOfStart
<1>2. StartInv /\ [AnyBank!Next]_(AnyBank!vars) => StartInv'
  BY StartKept
<1>3. QED
  BY <1>1, <1>2, StartInitially, PTL DEF AnyBank!Spec

\* The result of an attempt has a line for each skill with its questions when
\* the slugs of the blueprint's skills differ (_build_breakdown of results.py).
THEOREM BreakdownComplete ==
  ASSUME IsFiniteSet(Questions), AnyBank!BlueprintSkillQuota,
         \A k, l \in DOMAIN Quota : Slug[k] = Slug[l] => k = l
  PROVE  AnyBank!Spec => []AnyBank!BreakdownPerSkill
<1>1. StartInv => AnyBank!BreakdownPerSkill
  <2> SUFFICES ASSUME StartInv, attempt # {}, NEW k \in DOMAIN Quota PROVE AnyBank!SkillBreakdown[Slug[k]] = Quota[k]
    BY DEF AnyBank!BreakdownPerSkill
  <2>1. PICK loaded : Planned(loaded, DOMAIN Quota) /\ Copied(attempt, loaded) /\ {s.of : s \in attempt} = loaded
    BY DEF StartInv, Composed
  <2>2. \A s \in attempt : s.of.skill \in DOMAIN Quota
    BY <2>1 DEF Planned
  <2>3. Cardinality({s \in attempt : s.of.skill = k}) = Quota[k]
    BY <2>1, CopiesCounted
  <2>4. \E s \in attempt : s.of.skill = k
    <3>1. Quota[k] # 0
      BY DEF AnyBank!BlueprintSkillQuota
    <3>2. {s \in attempt : s.of.skill = k} # {}
      BY <2>3, <3>1, FS_EmptySet
    <3>3. QED
      BY <3>2
  <2>5. {s \in attempt : Slug[s.of.skill] = Slug[k]} = {s \in attempt : s.of.skill = k}
    BY <2>2
  <2>6. Slug[k] \in {Slug[s.of.skill] : s \in attempt}
    BY <2>4
  <2>7. AnyBank!SkillBreakdown[Slug[k]] = Cardinality({s \in attempt : Slug[s.of.skill] = Slug[k]})
    BY <2>6, CountOfBank DEF AnyBank!SkillBreakdown
  <2>8. QED
    BY <2>3, <2>5, <2>7
<1>2. StartInv /\ [AnyBank!Next]_(AnyBank!vars) => StartInv'
  BY StartKept
<1>3. QED
  BY <1>1, <1>2, StartInitially, PTL DEF AnyBank!Spec

-----------------------------------------------------------------------------
(* The bank and its editors.                                               *)

Rows == UNION {[ids -> BOOLEAN] : ids \in SUBSET RowIds}
Posted(e) == editor[e].pc = "posted"
\* The page of a request that nothing was saved since.
Fresh(e) == (editor[e].pc = "form" \/ Posted(e)) /\ editor[e].stale = FALSE
StoredRows == UNION {DOMAIN bank[Edited].rows[kind] : kind \in {"option", "line"}}
EditedValid == AnyBank!Valid(bank[Edited].type, AnyBank!AsRows(bank[Edited].rows[AnyBank!Kind(bank[Edited].type)]))

\* The questions have their types, and a posted form those of its fields.
BankTyped ==
  /\ bank \in [Questions -> AnyBank!Question]
  /\ DOMAIN editor = Editors
  /\ \A e \in Editors :
       /\ editor[e] = [pc |-> editor[e].pc, known |-> editor[e].known, type |-> editor[e].type,
                       status |-> editor[e].status, family |-> editor[e].family, rows |-> editor[e].rows,
                       changed |-> editor[e].changed, stale |-> editor[e].stale]
       /\ editor[e].stale \in BOOLEAN
       /\ Posted(e) => /\ editor[e].type \in {"single_choice", "line_selection"}
                       /\ editor[e].status \in {"draft", "active"}
                       /\ editor[e].family \in Places
                       /\ editor[e].rows \in Rows /\ editor[e].changed \subseteq DOMAIN editor[e].rows

\* A fresh page shows what is stored, and what was posted from it was
\* validated and compared with that.
Compared(e) ==
  LET stored == bank[Edited].rows[AnyBank!Kind(editor[e].type)]
      rows == editor[e].rows
  IN  /\ editor[e].changed = {id \in DOMAIN rows : id \notin DOMAIN stored \/ rows[id] # stored[id]}
      /\ AnyBank!Accepts(editor[e].status, editor[e].type, rows)

EditInv ==
  /\ ~AnyBank!Overlapped => (bank[Edited].status = "active" => EditedValid)
  /\ \A e \in Editors : Fresh(e) => editor[e].known = StoredRows /\ (Posted(e) => Compared(e))

EditorLimits == {1, 2} \subseteq RowIds /\ Edited \in Questions
\* The question the editors start from is a valid one.
ReadyValid == AnyBank!Valid("single_choice", AnyBank!AsRows([id \in {1, 2} |-> id = 1]))

LEMMA KindOfType == \A type : AnyBank!Kind(type) \in {"option", "line"}
BY DEF AnyBank!Kind
LEMMA KindOfChoice == AnyBank!Kind("single_choice") = "option"
BY DEF AnyBank!Kind, AnyBank!ChoiceTypes

LEMMA IdleForm ==
  \E t : AnyBank!Idle = [pc |-> "idle", known |-> {}, type |-> t, status |-> t, family |-> t,
                         rows |-> AnyBank!NoRows, changed |-> {}, stale |-> FALSE]
BY Zenon DEF AnyBank!Idle

LEMMA RowsOfReady ==
  ASSUME EditorLimits, NEW q \in Questions
  PROVE  /\ AnyBank!Ready(q) \in AnyBank!Question
         /\ AnyBank!Ready(q).type = "single_choice"
         /\ AnyBank!Ready(q).rows["option"] = [id \in {1, 2} |-> id = 1]
<1>1. AnyBank!NoRows \in Rows
  <2>1. AnyBank!NoRows \in [{} -> BOOLEAN]
    BY DEF AnyBank!NoRows
  <2>2. QED
    BY <2>1 DEF Rows
<1>2. [id \in {1, 2} |-> id = 1] \in Rows
  <2>1. [id \in {1, 2} |-> id = 1] \in [{1, 2} -> BOOLEAN]
    OBVIOUS
  <2>2. {1, 2} \in SUBSET RowIds
    BY DEF EditorLimits
  <2>3. QED
    BY <2>1, <2>2 DEF Rows
<1>3. PICK rows : rows = [kind \in {"option", "line"} |-> IF kind = "option" THEN [id \in {1, 2} |-> id = 1] ELSE AnyBank!NoRows]
  OBVIOUS
<1>4. rows \in [{"option", "line"} -> Rows] /\ rows["option"] = [id \in {1, 2} |-> id = 1]
  BY <1>1, <1>2, <1>3
<1>5. AnyBank!Ready(q) = [type |-> "single_choice", status |-> "active", family |-> Family[q], rows |-> rows]
  BY <1>3 DEF AnyBank!Ready
<1>6. Family[q] \in AnyBank!QuestionFamily
  BY DEF AnyBank!QuestionFamily
<1>7. QED
  BY <1>4, <1>5, <1>6 DEF AnyBank!Question, Rows

LEMMA EditInitially == ASSUME EditorLimits, ReadyValid PROVE AnyBank!Init => BankTyped /\ EditInv
<1> SUFFICES ASSUME AnyBank!Init PROVE BankTyped /\ EditInv
  OBVIOUS
<1>1. bank = [q \in Questions |-> AnyBank!Ready(q)] /\ editor = [e \in Editors |-> AnyBank!Idle]
  BY DEF AnyBank!Init
<1>2. PICK t : AnyBank!Idle = [pc |-> "idle", known |-> {}, type |-> t, status |-> t, family |-> t,
                               rows |-> AnyBank!NoRows, changed |-> {}, stale |-> FALSE]
  BY IdleForm
<1>3. \A e \in Editors : editor[e] = AnyBank!Idle
  BY <1>1
<1>4. BankTyped
  <2>1. bank \in [Questions -> AnyBank!Question]
    BY <1>1, RowsOfReady
  <2>2. \A e \in Editors : editor[e] = [pc |-> editor[e].pc, known |-> editor[e].known, type |-> editor[e].type,
                       status |-> editor[e].status, family |-> editor[e].family, rows |-> editor[e].rows,
                       changed |-> editor[e].changed, stale |-> editor[e].stale]
    BY <1>2, <1>3
  <2>3. ASSUME NEW e \in Editors PROVE editor[e].stale \in BOOLEAN /\ ~Posted(e)
    <3>1. AnyBank!Idle.pc = "idle" /\ AnyBank!Idle.stale = FALSE
      BY <1>2
    <3>2. QED
      BY <1>3, <3>1 DEF Posted
  <2>4. QED
    BY <1>1, <2>1, <2>2, <2>3 DEF BankTyped
<1>5. EditedValid
  <2>1. bank[Edited] = AnyBank!Ready(Edited)
    BY <1>1 DEF EditorLimits
  <2>2. AnyBank!Ready(Edited).type = "single_choice" /\ AnyBank!Ready(Edited).rows["option"] = [id \in {1, 2} |-> id = 1]
    BY RowsOfReady DEF EditorLimits
  <2>3. QED
    BY <2>1, <2>2, KindOfChoice DEF EditedValid, ReadyValid
<1>6. EditInv
  <2>1. \A e \in Editors : ~Fresh(e)
    BY <1>2, <1>3 DEF Fresh, Posted
  <2>2. QED
    BY <1>5, <2>1 DEF EditInv
<1>7. QED
  BY <1>4, <1>6

\* What an editor's own form is does not concern the others.
LEMMA OwnForm ==
  ASSUME BankTyped, EditInv, NEW e \in Editors, NEW f, bank' = bank, editor' = [editor EXCEPT ![e] = f],
         f.pc \in {"form", "posted"}, editor[e].pc \in {"idle", "form"}, f.stale \in BOOLEAN,
         f = [pc |-> f.pc, known |-> f.known, type |-> f.type, status |-> f.status, family |-> f.family,
              rows |-> f.rows, changed |-> f.changed, stale |-> f.stale],
         f.pc = "posted" => /\ f.type \in {"single_choice", "line_selection"} /\ f.status \in {"draft", "active"}
                            /\ f.family \in Places /\ f.rows \in Rows /\ f.changed \subseteq DOMAIN f.rows,
         Fresh(e)' => editor'[e].known = StoredRows /\ (Posted(e)' => Compared(e)')
  PROVE  BankTyped' /\ EditInv'
<1>1. DOMAIN editor' = Editors /\ editor'[e] = f /\ \A x \in Editors : x # e => editor'[x] = editor[x]
  BY DEF BankTyped
<1>2. BankTyped'
  BY <1>1 DEF BankTyped, Posted
<1>3. AnyBank!Overlapped' <=> AnyBank!Overlapped
  BY <1>1 DEF AnyBank!Overlapped
<1>4. (EditedValid' <=> EditedValid) /\ StoredRows' = StoredRows
  BY DEF EditedValid, StoredRows
<1>5. ASSUME NEW x \in Editors, x # e PROVE (Fresh(x)' <=> Fresh(x)) /\ (Posted(x)' <=> Posted(x)) /\ (Compared(x)' <=> Compared(x))
  BY <1>1, <1>5 DEF Fresh, Posted, Compared
<1>6. EditInv'
  BY <1>1, <1>3, <1>4, <1>5 DEF EditInv
<1>7. QED
  BY <1>2, <1>6

LEMMA FormOpened ==
  ASSUME BankTyped, EditInv, NEW e \in Editors, AnyBank!OpenForm(e) PROVE BankTyped' /\ EditInv'
<1>1. PICK f : f = [AnyBank!Idle EXCEPT !.pc = "form", !.known = StoredRows]
  OBVIOUS
<1>2. PICK t : AnyBank!Idle = [pc |-> "idle", known |-> {}, type |-> t, status |-> t, family |-> t,
                               rows |-> AnyBank!NoRows, changed |-> {}, stale |-> FALSE]
  BY IdleForm
<1>3. f = [pc |-> "form", known |-> StoredRows, type |-> t, status |-> t, family |-> t,
           rows |-> AnyBank!NoRows, changed |-> {}, stale |-> FALSE]
  BY <1>1, <1>2
<1>4. editor[e].pc = "idle" /\ bank' = bank /\ editor' = [editor EXCEPT ![e] = f]
  BY <1>1 DEF AnyBank!OpenForm, StoredRows
<1>5. editor'[e].known = StoredRows /\ ~Posted(e)'
  BY <1>3, <1>4 DEF BankTyped, Posted
<1>6. QED
  BY <1>3, <1>4, <1>5, OwnForm

LEMMA FormPosted ==
  ASSUME BankTyped, EditInv, NEW e \in Editors, NEW status \in {"draft", "active"},
         NEW type \in {"single_choice", "line_selection"}, NEW family \in Places, NEW rows \in Rows,
         AnyBank!PostForm(e, status, type, family, rows)
  PROVE  BankTyped' /\ EditInv'
<1> DEFINE stored == bank[Edited].rows[AnyBank!Kind(type)]
           changed == {id \in DOMAIN rows : id \notin DOMAIN stored \/ rows[id] # stored[id]}
<1>1. PICK f : f = [pc |-> "posted", known |-> editor[e].known, type |-> type, status |-> status, family |-> family,
                    rows |-> rows, stale |-> editor[e].stale, changed |-> changed]
  OBVIOUS
<1>2. /\ editor[e].pc = "form" /\ bank' = bank /\ editor' = [editor EXCEPT ![e] = f]
      /\ AnyBank!Accepts(status, type, rows)
  BY <1>1 DEF AnyBank!PostForm
<1>3. /\ f.pc = "posted" /\ f.known = editor[e].known /\ f.type = type /\ f.status = status /\ f.rows = rows
      /\ f.family = family /\ f.stale = editor[e].stale /\ f.changed = changed /\ changed \subseteq DOMAIN rows
  BY <1>1
<1>4. f = [pc |-> f.pc, known |-> f.known, type |-> f.type, status |-> f.status, family |-> f.family,
           rows |-> f.rows, changed |-> f.changed, stale |-> f.stale]
  BY <1>1
<1>5. editor'[e] = f
  BY <1>2 DEF BankTyped
<1>6. Fresh(e)' => editor'[e].known = StoredRows
  BY <1>2, <1>3, <1>5 DEF Fresh, EditInv
<1>7. Compared(e)'
  BY <1>2, <1>3, <1>5 DEF Compared
<1> HIDE DEF changed
<1>8. f.stale \in BOOLEAN
  BY <1>3 DEF BankTyped
<1>9. QED
  BY <1>2, <1>3, <1>4, <1>6, <1>7, <1>8, OwnForm

LEMMA FormSaved ==
  ASSUME EditorLimits, BankTyped, EditInv, NEW e \in Editors, NEW admin \in BOOLEAN, AnyBank!SaveForm(e, admin)
  PROVE  BankTyped' /\ EditInv'
<1> DEFINE f == editor[e]
           old == bank[Edited].rows[AnyBank!Kind(f.type)]
           kept == (DOMAIN old \ (f.known \ DOMAIN f.rows)) \cup f.changed
           saved == [id \in kept |-> IF id \in f.changed THEN f.rows[id] ELSE old[id]]
           all == [kind \in {"option", "line"} |-> IF kind = AnyBank!Kind(f.type) THEN saved ELSE AnyBank!OtherRows(kind, admin)]
<1>1. PICK done : done = [AnyBank!Idle EXCEPT !.pc = "done", !.stale = f.stale]
  OBVIOUS
<1>2. PICK t : done = [pc |-> "done", known |-> {}, type |-> t, status |-> t, family |-> t,
                       rows |-> AnyBank!NoRows, changed |-> {}, stale |-> f.stale]
  <2>1. PICK t : AnyBank!Idle = [pc |-> "idle", known |-> {}, type |-> t, status |-> t, family |-> t,
                                 rows |-> AnyBank!NoRows, changed |-> {}, stale |-> FALSE]
    BY IdleForm
  <2>2. done = [pc |-> "done", known |-> {}, type |-> t, status |-> t, family |-> t,
                rows |-> AnyBank!NoRows, changed |-> {}, stale |-> f.stale]
    BY <1>1, <2>1
  <2>3. QED
    BY <2>2
<1>3. PICK q : q = [type |-> f.type, status |-> f.status, family |-> f.family, rows |-> all]
  OBVIOUS
<1>4. /\ f.pc = "posted" /\ bank' = [bank EXCEPT ![Edited] = q]
      /\ editor' = [x \in Editors |->
           IF x = e THEN done ELSE [editor[x] EXCEPT !.stale = @ \/ editor[x].pc \in {"form", "posted"}]]
  BY <1>1, <1>3 DEF AnyBank!SaveForm
<1>5. DOMAIN editor' = Editors /\ editor'[e] = done
  BY <1>4
<1>6. ASSUME NEW x \in Editors, x # e
      PROVE  \E stale \in BOOLEAN :
               /\ editor'[x] = [editor[x] EXCEPT !.stale = stale]
               /\ stale <=> (editor[x].stale \/ editor[x].pc \in {"form", "posted"})
  <2>1. PICK stale : stale = (editor[x].stale \/ editor[x].pc \in {"form", "posted"})
    OBVIOUS
  <2>2. stale \in BOOLEAN
    BY <2>1
  <2>3. editor'[x] = [editor[x] EXCEPT !.stale = stale]
    BY <1>4, <1>6, <2>1
  <2>4. QED
    BY <2>1, <2>2, <2>3
<1>7. /\ f.type \in {"single_choice", "line_selection"} /\ f.status \in {"draft", "active"} /\ f.family \in Places
      /\ f.rows \in Rows /\ f.changed \subseteq DOMAIN f.rows /\ f.stale \in BOOLEAN
  BY <1>4 DEF BankTyped, Posted
<1>8. Edited \in Questions /\ bank[Edited] \in AnyBank!Question
  BY DEF BankTyped, EditorLimits
<1>9. \A kind \in {"option", "line"} : bank[Edited].rows[kind] \in Rows
  BY <1>8 DEF AnyBank!Question, Rows
<1>10. saved \in Rows
  <2>1. PICK ids \in SUBSET RowIds : f.rows \in [ids -> BOOLEAN]
    BY <1>7 DEF Rows
  <2>2. PICK olds \in SUBSET RowIds : old \in [olds -> BOOLEAN]
    BY <1>9, KindOfType DEF Rows
  <2>3. kept \subseteq RowIds
    BY <1>7, <2>1, <2>2
  <2>4. \A id \in kept : (IF id \in f.changed THEN f.rows[id] ELSE old[id]) \in BOOLEAN
    BY <1>7, <2>1, <2>2
  <2>5. saved \in [kept -> BOOLEAN]
    BY <2>4
  <2>6. QED
    BY <2>3, <2>5 DEF Rows
<1> HIDE DEF saved
<1>11. all \in [{"option", "line"} -> Rows]
  <2>1. AnyBank!NoRows \in Rows
    <3>1. AnyBank!NoRows \in [{} -> BOOLEAN]
      BY DEF AnyBank!NoRows
    <3>2. QED
      BY <3>1 DEF Rows
  <2>2. \A kind \in {"option", "line"} : AnyBank!OtherRows(kind, admin) \in Rows
    BY <1>9, <2>1 DEF AnyBank!OtherRows
  <2>3. QED
    BY <1>10, <2>2
<1>12. bank' \in [Questions -> AnyBank!Question]
  <2>1. q \in AnyBank!Question
    BY <1>3, <1>7, <1>11 DEF AnyBank!Question, AnyBank!QuestionFamily, Rows
  <2>2. QED
    BY <1>4, <2>1 DEF BankTyped
<1> HIDE DEF all
<1>13. ASSUME NEW x \in Editors, x # e
       PROVE  /\ editor'[x].pc = editor[x].pc /\ editor'[x].stale \in BOOLEAN
              /\ editor'[x].pc \in {"form", "posted"} => editor'[x].stale
              /\ editor[x].stale => editor'[x].stale
              /\ editor'[x] = [pc |-> editor[x].pc, known |-> editor[x].known, type |-> editor[x].type,
                               status |-> editor[x].status, family |-> editor[x].family, rows |-> editor[x].rows,
                               changed |-> editor[x].changed, stale |-> editor'[x].stale]
              /\ editor[x].pc = "done" => (editor'[x].stale <=> editor[x].stale)
  <2>1. PICK stale \in BOOLEAN :
          /\ editor'[x] = [editor[x] EXCEPT !.stale = stale]
          /\ stale <=> (editor[x].stale \/ editor[x].pc \in {"form", "posted"})
    BY <1>6, <1>13
  <2>2. editor[x] = [pc |-> editor[x].pc, known |-> editor[x].known, type |-> editor[x].type,
                     status |-> editor[x].status, family |-> editor[x].family, rows |-> editor[x].rows,
                     changed |-> editor[x].changed, stale |-> editor[x].stale]
    BY DEF BankTyped
  <2>3. editor'[x] = [pc |-> editor[x].pc, known |-> editor[x].known, type |-> editor[x].type,
                      status |-> editor[x].status, family |-> editor[x].family, rows |-> editor[x].rows,
                      changed |-> editor[x].changed, stale |-> stale]
    BY <2>1, <2>2
  <2>4. QED
    BY <2>1, <2>3
<1>14. BankTyped'
  <2>1. ASSUME NEW x \in Editors
        PROVE  (/\ editor[x] = [pc |-> editor[x].pc, known |-> editor[x].known, type |-> editor[x].type,
                                status |-> editor[x].status, family |-> editor[x].family, rows |-> editor[x].rows,
                                changed |-> editor[x].changed, stale |-> editor[x].stale]
                /\ editor[x].stale \in BOOLEAN
                /\ Posted(x) => /\ editor[x].type \in {"single_choice", "line_selection"}
                                /\ editor[x].status \in {"draft", "active"}
                                /\ editor[x].family \in Places
                                /\ editor[x].rows \in Rows /\ editor[x].changed \subseteq DOMAIN editor[x].rows)'
    <3>1. CASE x = e
      BY <1>2, <1>5, <1>7, <3>1 DEF Posted
    <3>2. CASE x # e
      <4>1. Posted(x) => /\ editor[x].type \in {"single_choice", "line_selection"}
                         /\ editor[x].status \in {"draft", "active"}
                         /\ editor[x].family \in Places
                         /\ editor[x].rows \in Rows /\ editor[x].changed \subseteq DOMAIN editor[x].rows
        BY DEF BankTyped
      <4>a. editor'[x] = [pc |-> editor[x].pc, known |-> editor[x].known, type |-> editor[x].type,
                          status |-> editor[x].status, family |-> editor[x].family, rows |-> editor[x].rows,
                          changed |-> editor[x].changed, stale |-> editor'[x].stale]
        BY <1>13, <3>2
      <4>2. /\ editor'[x].pc = editor[x].pc /\ editor'[x].known = editor[x].known
            /\ editor'[x].type = editor[x].type /\ editor'[x].status = editor[x].status
            /\ editor'[x].family = editor[x].family /\ editor'[x].rows = editor[x].rows
            /\ editor'[x].changed = editor[x].changed
        BY <4>a
      <4>3. editor'[x] = [pc |-> editor'[x].pc, known |-> editor'[x].known, type |-> editor'[x].type,
                          status |-> editor'[x].status, family |-> editor'[x].family, rows |-> editor'[x].rows,
                          changed |-> editor'[x].changed, stale |-> editor'[x].stale]
        BY <4>a, <4>2
      <4>4. editor'[x].stale \in BOOLEAN
        BY <1>13, <3>2
      <4>5. QED
        BY <4>1, <4>2, <4>3, <4>4 DEF Posted
    <3>3. QED
      BY <3>1, <3>2
  <2>2. QED
    BY <1>5, <1>12, <2>1 DEF BankTyped
<1>15. \A x \in Editors : ~Fresh(x)'
  BY <1>2, <1>5, <1>13 DEF Fresh, Posted
<1>16. ASSUME ~AnyBank!Overlapped', bank'[Edited].status = "active" PROVE EditedValid'
  <2>1. f.stale = FALSE
    BY <1>2, <1>5, <1>7, <1>16 DEF AnyBank!Overlapped
  <2>2. /\ f.known = StoredRows
        /\ f.changed = {id \in DOMAIN f.rows : id \notin DOMAIN old \/ f.rows[id] # old[id]}
        /\ AnyBank!Accepts(f.status, f.type, f.rows)
    BY <1>4, <2>1 DEF EditInv, Fresh, Posted, Compared
  <2>3. DOMAIN old \subseteq f.known
    BY <2>2, KindOfType DEF StoredRows
  <2>4. saved = f.rows
    <3>1. kept = DOMAIN f.rows
      BY <2>2, <2>3
    <3>2. f.rows = [id \in DOMAIN f.rows |-> f.rows[id]]
      BY <1>7 DEF Rows
    <3>3. \A id \in kept : (IF id \in f.changed THEN f.rows[id] ELSE old[id]) = f.rows[id]
      BY <2>2, <3>1
    <3> HIDE DEF kept, f, old
    <3>4. QED
      BY <3>1, <3>2, <3>3 DEF saved
  <2>5. bank'[Edited] = q
    BY <1>4, <1>8 DEF BankTyped
  <2>6. q.type = f.type /\ q.status = f.status /\ q.rows[AnyBank!Kind(q.type)] = f.rows
    BY <1>3, <2>4, KindOfType DEF all
  <2>7. QED
    BY <1>16, <2>2, <2>5, <2>6 DEF EditedValid, AnyBank!Accepts
<1>17. QED
  BY <1>14, <1>15, <1>16 DEF EditInv

LEMMA EditKept ==
  ASSUME EditorLimits
  PROVE  BankTyped /\ EditInv /\ [AnyBank!Next]_(AnyBank!vars) => (BankTyped /\ EditInv)'
<1> SUFFICES ASSUME BankTyped, EditInv, [AnyBank!Next]_(AnyBank!vars) PROVE BankTyped' /\ EditInv'
  OBVIOUS
<1>1. CASE UNCHANGED <<bank, editor>>
  <2>1. (EditedValid' <=> EditedValid) /\ (AnyBank!Overlapped' <=> AnyBank!Overlapped) /\ StoredRows' = StoredRows
    BY <1>1 DEF EditedValid, AnyBank!Overlapped, StoredRows
  <2>2. \A e : (Fresh(e)' <=> Fresh(e)) /\ (Posted(e)' <=> Posted(e)) /\ (Compared(e)' <=> Compared(e))
    BY <1>1 DEF Fresh, Posted, Compared
  <2>3. BankTyped'
    BY <1>1 DEF BankTyped, Posted
  <2>4. QED
    BY <1>1, <2>1, <2>2, <2>3 DEF EditInv
<1>2. ASSUME NEW e \in Editors, AnyBank!EditorStep(e) PROVE BankTyped' /\ EditInv'
  <2>1. CASE AnyBank!OpenForm(e)
    BY <2>1, FormOpened
  <2>2. ASSUME NEW admin \in BOOLEAN, AnyBank!SaveForm(e, admin) PROVE BankTyped' /\ EditInv'
    BY <2>2, FormSaved
  <2>3. ASSUME NEW status \in {"draft", "active"}, NEW type \in {"single_choice", "line_selection"},
               NEW family \in Places, NEW rows \in AnyBank!PostedRows(e),
               AnyBank!PostForm(e, status, type, family, rows)
        PROVE  BankTyped' /\ EditInv'
    BY <2>3, FormPosted DEF AnyBank!PostedRows, Rows
  <2>4. QED
    BY <1>2, <2>1, <2>2, <2>3 DEF AnyBank!EditorStep
<1>3. CASE ~\E e \in Editors : AnyBank!EditorStep(e)
  <2>1. UNCHANGED <<bank, editor>>
    BY <1>3 DEF AnyBank!Next, AnyBank!SwitchFamily, AnyBank!MoveFamily, AnyBank!CountFamilies,
                AnyBank!ValidatePool, AnyBank!SampleFails, AnyBank!Commit, AnyBank!Restart, AnyBank!Select,
                AnyBank!SnapshotNext, AnyBank!vars
  <2>2. QED
    BY <1>1, <2>1
<1>4. QED
  BY <1>2, <1>3

\* The validation of the editor (_mentor_question_editor and its formsets): a
\* question is active and invalid only when a request was saved from a page of
\* before another one was saved; any number of requests, of whoever makes
\* them, leave no such question when each page was made after the last save.
THEOREM LoneEditorValid ==
  ASSUME EditorLimits, ReadyValid PROVE AnyBank!Spec => []AnyBank!LoneEditorSafe
<1>1. EditInv => AnyBank!LoneEditorSafe
  BY DEF EditInv, EditedValid, AnyBank!LoneEditorSafe
<1>2. BankTyped /\ EditInv /\ [AnyBank!Next]_(AnyBank!vars) => (BankTyped /\ EditInv)'
  BY EditKept
<1>3. AnyBank!Init => BankTyped /\ EditInv
  BY EditInitially
<1>4. QED
  BY <1>1, <1>2, <1>3, PTL DEF AnyBank!Spec
=============================================================================
