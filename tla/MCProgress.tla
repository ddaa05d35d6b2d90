----------------------------- MODULE MCProgress -----------------------------
(***************************************************************************)
(* What must happen in the end, in one instance for TLC.  A behaviour is   *)
(* one of the part that is chosen at first, and the variables of the other *)
(* parts are off.  A fairness condition of the instance stands for one     *)
(* condition of each module, of which only the one of the part that runs   *)
(* says anything.                                                          *)
(***************************************************************************)
EXTENDS Naturals

CONSTANT Parts   \* "lite", "sessions", "exams", "sources", "notices", "http"

VARIABLES
  part,
  row, ledger, task, pair, ids, lock, worker, budget,
  broker, pc, exec, shells, running, allowed, brokerFaults,
  clock, exam, started, answer, broken, request, rowLock,
  percent, finished, source, award, journal, receipts, manual_ops, writing,
  job, user_lock, journey_lock, errors,
  granted, delivery, revoked, claim_token, leased, tab, shown, expired, lost,
  attempt, box, runs, dispatch, messages, workers, claims, verifiers, late,
  faults, crashes

liteVars == <<row, ledger, task, pair, ids, lock, worker, budget>>
sessionVars == <<broker, pc, exec, shells, running, allowed, brokerFaults>>
examVars == <<clock, exam, started, answer, broken, request, rowLock>>
grantVars == <<percent, finished, source, award, journal, receipts, manual_ops,
               writing, job, user_lock, journey_lock, errors>>
noticeVars == <<granted, delivery, revoked, claim_token, leased, tab, shown,
                expired, lost>>
httpVars == <<attempt, box, runs, dispatch, messages, workers, claims,
              verifiers, late, faults, crashes>>

\* The two workers, tabs or processes of a part.
Two == {"first", "second"}
Names == <<"first", "second">>

\* A cleanup that comes between a start and a reset, and a fault.
Lite == INSTANCE TerminalLite WITH
  Ops <- {"start", "reset"}, Resets <- {"reset"}, Workers <- Two,
  MaxIds <- 4, MaxFaults <- 1, MaxLost <- 0, MaxCleanups <- 1

\* Two connections, and a broker that dies as often as Docker restarts it.
Broker == INSTANCE TerminalSession WITH
  Sessions <- {1, 2}, MaxSessions <- 2, MaxRestarts <- 2, MaxFaults <- 2,
  faults <- brokerFaults, journal <- shells

\* Two tabs on one attempt, which lock its rows in opposite orders.
Exam == INSTANCE ExamAttempts WITH
  Tabs <- Two, QuestionCount <- 1, TimeLimit <- 1, Scores <- {100},
  PassMark <- 85, AttemptLimit <- 1, AllowBack <- TRUE, OpensAt <- 1,
  ClosesAt <- 4, Conditions <- {}, MaxTime <- 3, tab <- request

\* Two weeks, failures and retries.
Sources == INSTANCE Achievements WITH
  Metrics <- {1, 2}, Percents <- {85, 96}, Procs <- Two,
  MaxWrites <- 2, MaxManual <- 0, MaxErrors <- 1

\* Two tabs, an ordinary and a secret award, and a lost answer.
Notices == INSTANCE AchievementNotifications WITH
  Events <- {1, 2}, Secret <- {2}, Tabs <- Two, MaxLost <- 1

\* Two observations on one worker.
Http == INSTANCE HttpObservations WITH
  Workers <- {1}, MaxRuns <- 2, MaxGen <- 1, MaxReboots <- 0, MaxAnchors <- 0,
  MaxFaults <- 1, MaxCrashes <- 1

Off(v) == v = "off"
LiteOff ==
  /\ Off(row) /\ Off(ledger) /\ Off(task) /\ Off(pair)
  /\ Off(ids) /\ Off(lock) /\ Off(worker) /\ Off(budget)
SessionsOff ==
  /\ Off(broker) /\ Off(pc) /\ Off(exec) /\ Off(shells)
  /\ Off(running) /\ Off(allowed) /\ Off(brokerFaults)
ExamsOff ==
  /\ Off(clock) /\ Off(exam) /\ Off(started) /\ Off(answer)
  /\ Off(broken) /\ Off(request) /\ Off(rowLock)
GrantsOff ==
  /\ Off(percent) /\ Off(finished) /\ Off(source) /\ Off(award)
  /\ Off(journal) /\ Off(receipts) /\ Off(manual_ops) /\ Off(writing)
  /\ Off(job) /\ Off(user_lock) /\ Off(journey_lock) /\ Off(errors)
NoticesOff ==
  /\ Off(granted) /\ Off(delivery) /\ Off(revoked) /\ Off(claim_token)
  /\ Off(leased) /\ Off(tab) /\ Off(shown) /\ Off(expired) /\ Off(lost)
HttpOff ==
  /\ Off(attempt) /\ Off(box) /\ Off(runs) /\ Off(dispatch)
  /\ Off(messages) /\ Off(workers) /\ Off(claims) /\ Off(verifiers)
  /\ Off(late) /\ Off(faults) /\ Off(crashes)

SuiteInit ==
  /\ part \in Parts
  /\ IF part = "lite" THEN Lite!Init ELSE LiteOff
  /\ IF part = "sessions" THEN Broker!Init ELSE SessionsOff
  /\ IF part = "exams" THEN Exam!Init ELSE ExamsOff
  /\ IF part = "sources" THEN Sources!Init ELSE GrantsOff
  /\ IF part = "notices" THEN Notices!Init ELSE NoticesOff
  /\ IF part = "http" THEN Http!Init ELSE HttpOff

SuiteNext ==
  /\ UNCHANGED part
  /\ IF part = "lite" THEN Lite!Next ELSE UNCHANGED liteVars
  /\ IF part = "sessions" THEN Broker!Next ELSE UNCHANGED sessionVars
  /\ IF part = "exams" THEN Exam!Next ELSE UNCHANGED examVars
  /\ IF part = "sources" THEN Sources!Next ELSE UNCHANGED grantVars
  /\ IF part = "notices" THEN Notices!Next ELSE UNCHANGED noticeVars
  /\ IF part = "http" THEN Http!Next ELSE UNCHANGED httpVars

suiteVars == <<part, liteVars, sessionVars, examVars, grantVars, noticeVars,
               httpVars>>

\* An action of the part that runs, and the rest unchanged.
Alone ==
  /\ UNCHANGED part
  /\ part # "lite" => UNCHANGED liteVars
  /\ part # "sessions" => UNCHANGED sessionVars
  /\ part # "exams" => UNCHANGED examVars
  /\ part # "sources" => UNCHANGED grantVars
  /\ part # "notices" => UNCHANGED noticeVars
  /\ part # "http" => UNCHANGED httpVars

-----------------------------------------------------------------------------
(* The fairness of the modules: for i in 1..2 the workers, sessions, tabs,  *)
(* runs, weeks, events and sources that it is stated for.                   *)

\* What is served when it keeps asking, since it is enabled on and off: the
\* cleanup that reconciliation sends again, the next waiter of a row lock, a
\* source the management worker finds again, and a tab that polls again.
Served(i) ==
  /\ Alone
  /\ CASE part = "lite" -> i = 1 /\ \E w \in Two : Lite!CleanupStart(w)
       [] part = "exams" -> Exam!TabStep(Names[i])
       [] part = "sources" ->
            i \in DOMAIN source
              /\ \E p \in Two : Sources!LockUser(p, i)
       [] part = "notices" -> \E t \in Two : Notices!Poll(t, i)
       [] OTHER -> FALSE
Locked == Alone /\ part = "sources"
          /\ \E p \in Two : Sources!Evaluate(p)

\* A worker, a thread or a tab goes on unless it dies.
Proceeds(i) ==
  /\ Alone
  /\ CASE part = "lite" -> Lite!WorkerStep(Names[i])
       [] part = "sessions" -> Broker!SessionStep(i)
       [] part = "sources" -> Sources!Finish(Names[i])
       [] part = "notices" -> Notices!TabStep(Names[i])
       [] part = "http" -> i = 1 /\ Http!Step(i)
       [] OTHER -> FALSE

\* A timer runs out, a week ends, a callback of a commit is called.
Elapses(i) ==
  /\ Alone
  /\ CASE part = "sessions" -> Broker!BootstrapTimesOut(i)
       [] part = "sources" -> Sources!WeekEnds(i)
       [] part = "notices" -> Notices!LeaseEnds(i)
       [] part = "http" -> Http!Dispatch(i) \/ Http!DispatchRaised(i)
       [] OTHER -> FALSE

\* The broker and Docker's restart of it, a writer of metrics that has its
\* lock, the repair at the end of the worker's command.
Continues ==
  /\ Alone
  /\ CASE part = "sessions" -> Broker!BrokerStep
       [] part = "sources" -> Sources!Publish
       [] part = "notices" -> Notices!RepairDelivery
       [] OTHER -> FALSE

SuiteFairSpec ==
  /\ SuiteInit /\ [][SuiteNext]_suiteVars
  /\ SF_suiteVars(Served(1)) /\ SF_suiteVars(Served(2)) /\ WF_suiteVars(Locked)
  /\ WF_suiteVars(Proceeds(1)) /\ WF_suiteVars(Proceeds(2))
  /\ WF_suiteVars(Elapses(1)) /\ WF_suiteVars(Elapses(2))
  /\ WF_suiteVars(Continues)

-----------------------------------------------------------------------------
(* What the modules state of their parts, told apart by the part.          *)

\* What is to be taken down is taken down: a requested cleanup of an
\* environment is carried out, whatever operation, fault or worker it meets
\* (CleanupFinishes of TerminalLite), and once the lease is revoked every
\* shell ends, through its relay or through the recovery of the next broker
\* (RevokedShellsEnd of TerminalSession).
TornDown ==
  \/ part = "lite" /\ row.op.stage = "done"
  \/ part = "sessions" /\ \A s \in {1, 2} : exec[s] # "shell"
ToTearDown ==
  (part = "lite" /\ row.cleanup) \/ (part = "sessions" /\ ~allowed)
TearDownEnds == ToTearDown ~> TornDown

\* A request is answered: one about an exam, also when two of them lock the
\* rows in opposite orders (RequestsEnd of ExamAttempts), and an observation,
\* whatever happens to the attempt, to the broker and to Docker's answers,
\* unless its worker dies (RunsEnd of HttpObservations).
Asked(i) ==
  \/ part = "exams" /\ request[Names[i]].pc # "idle"
  \/ part = "http" /\ runs[i].status = "queued"
Answered(i) ==
  \/ part = "exams" /\ request[Names[i]].pc = "idle"
  \/ part = "http" /\ (runs[i].status = "finished" \/ crashes > 0)
RequestsAnswered == \A i \in {1, 2} : Asked(i) ~> Answered(i)

\* What was recorded has its effect: every source event ends processed, a
\* failed wake, an error and a week that was not over yet included
\* (SourcesProcessed of Achievements), and every granted event is read, also
\* one whose row an older release did not write and one whose claiming tab
\* was lost (EventuallyRead of AchievementNotifications).
Recorded(i) ==
  \/ part = "sources" /\ i \in DOMAIN source
  \/ part = "notices" /\ i \in granted
Delivered(i) ==
  \/ part = "sources" /\ i \in DOMAIN source /\ source[i].status = "processed"
  \/ part = "notices" /\ (delivery[i] = "read" \/ ~Notices!Visible(i))
RecordsDelivered == \A i \in {1, 2} : Recorded(i) ~> Delivered(i)

\* Nothing waits for ever: no teardown, no request, no record.
WorkEnds == TearDownEnds /\ RequestsAnswered /\ RecordsDelivered
=============================================================================
