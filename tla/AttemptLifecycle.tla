-------------------------- MODULE AttemptLifecycle --------------------------
(***************************************************************************)
(* One attempt of the Ticket Sandbox under all its processes at once: the  *)
(* trainee's requests, the Celery workers that start environments and run  *)
(* checks, the broker that loses and repeats deliveries, the watchdog and  *)
(* the 72-hour cleanup.                                                    *)
(***************************************************************************)
EXTENDS Environments, Checks, Maintenance

-----------------------------------------------------------------------------
(* The broker and the failures of the processes.                           *)

\* A free worker takes a message.
Deliver(w) ==
  /\ job[w].pc = "idle"
  /\ \E m \in queue :
       /\ queue' = queue \ {m}
       /\ job' = [job EXCEPT ![w].id = m,
                             ![w].pc = IF m \in Ops THEN "env_begin" ELSE "check_guard"]
  /\ UNCHANGED <<row, ledger, docker, tab, dog, sweep>>

\* Environment tasks are acknowledged late, so their message can be delivered
\* again while a worker still executes it (visibility timeout) ...
Redeliver(w) ==
  /\ job[w].pc \in EnvSteps
  /\ job[w].id \notin queue
  /\ queue' = queue \cup {job[w].id}
  /\ UNCHANGED <<row, ledger, docker, job, tab, dog, sweep>>

\* ... and comes back when the worker is lost.  A check is acknowledged when
\* it is delivered: its message goes with the worker.
WorkerCrash(w) ==
  /\ job[w].pc # "idle"
  /\ queue' = IF job[w].pc \in EnvSteps THEN queue \cup {job[w].id} ELSE queue
  /\ job' = [job EXCEPT ![w] = NoJob]
  /\ UNCHANGED <<row, ledger, docker, tab, dog, sweep>>

\* The web process dies with the request: what it has not sent is never sent.
WebCrash(t) ==
  /\ tab[t].pc # "idle"
  /\ tab' = [tab EXCEPT ![t] = NoTab]
  /\ UNCHANGED <<row, ledger, docker, queue, job, dog, sweep>>

-----------------------------------------------------------------------------
Web(t) ==
  \/ StartTask(t) \/ TryMarkStarting(t)
  \/ RestartTask(t) \/ TryMarkRestarting(t)
  \/ SendEnvironment(t) \/ SendEnvironmentFails(t)
  \/ CheckTask(t) \/ TryMarkCheckRunning(t)
  \/ SendCheck(t) \/ SendCheckFails(t)
  \/ WebCrash(t)

EnvWorker(w) ==
  \/ EnvBegin(w) \/ EnvRemove(w) \/ EnvCreate(w) \/ EnvTerminal(w)
  \/ EnvDockerError(w) \/ EnvCommit(w) \/ EnvCommitFails(w)
  \/ EnvFail(w) \/ EnvLatest(w) \/ EnvError(w)

CheckWorker(w) ==
  \/ CheckGuard(w) \/ CheckBegin(w) \/ CheckLoad(w) \/ CheckExec(w) \/ CheckTeardown(w)
  \/ CheckRaise(w) \/ CheckCommit(w) \/ CheckFail(w) \/ CheckError(w)

Broker(w) == Deliver(w) \/ Redeliver(w) \/ WorkerCrash(w)

Watchdog ==
  \/ DogSelectEnvironment \/ DogSelectCheck
  \/ DogMarkEnvironment \/ DogMarkCheck

Cleanup ==
  \/ SweepSelectUnfinished \/ SweepSelectPassed \/ SweepRequest
  \/ SweepRemove \/ SweepRefresh \/ SweepSave \/ SweepDies

Next ==
  \/ \E t \in Tabs : Web(t)
  \/ \E w \in Workers : EnvWorker(w) \/ CheckWorker(w) \/ Broker(w)
  \/ Watchdog
  \/ Cleanup

Spec == Init /\ [][Next]_vars

\* cron runs detect_stuck_attempts every five minutes and the command goes
\* through all it selected; no other process is sure to make progress.
Fairness ==
  /\ WF_vars(DogSelectEnvironment) /\ WF_vars(DogMarkEnvironment)
  /\ WF_vars(DogSelectCheck) /\ WF_vars(DogMarkCheck)

FairSpec == Spec /\ Fairness

-----------------------------------------------------------------------------
(* Invariants.                                                             *)

\* The variables hold values of their types (the fields of TaskAttempt and of
\* the ledger models, the memory of the processes).
TypeOK ==
  /\ row \in Row
  /\ ops \in [Ops -> Op]
  /\ lastOp \in Ops \cup {None}
  /\ runs \in [Runs -> Run]
  /\ lastRun \in Runs \cup {None}
  /\ checkRuns \in [passed: Nat, failed: Nat]
  /\ docker \in Ops \cup {None}
  /\ queue \subseteq Ops \cup Runs
  /\ job \in [Workers -> Job]
  /\ tab \in [Tabs -> Tab]
  /\ dog \in Dog
  /\ sweep \in Sweep

Admitted(o) == Open(o) /\ ops[o].started

\* begin_environment admits an operation only when no other one is open, and
\* the cleanup closes the others before it admits itself: at most one admitted
\* operation is open, whatever was delivered, repeated or interrupted.
OneAdmittedOperation ==
  \A o, p \in Ops : Admitted(o) /\ Admitted(p) => o = p

Working == (EnvSteps \ {"env_begin"}) \cup (CheckSteps \ {"check_guard", "check_begin"})

\* A message delivered twice is executed once: two workers are never past the
\* admission of the same operation or the same run.
SingleExecutor ==
  \A v, w \in Workers :
    job[v].pc \in Working /\ job[w].pc \in Working /\ job[v].id = job[w].id => v = w

SuccessfulResets == {o \in Ops : ops[o].kind = "reset" /\ ops[o].outcome = "success"}

\* restart_count, which each restart computes from the copy its worker holds
\* since admission, is the number of resets the ledger calls successful.
RestartCountMatches == row.restarts = Cardinality(SuccessfulResets)

\* The CheckRun rows, technical_passed_at and the finished events tell one
\* story: a result that comes after its execution was closed leaves no trace,
\* and no execution leaves two.
EvidenceMatches ==
  /\ checkRuns.passed = Cardinality({r \in Runs : runs[r].result = "passed"})
  /\ checkRuns.failed =
       Cardinality({r \in Runs : runs[r].stored /\ runs[r].result # "passed"})
  /\ row.passed <=> checkRuns.passed > 0

\* An environment shown as ready has its containers recorded, until the check
\* that passed the attempt removed them.
ReadyHasContainer == row.env = "ready" /\ ~row.passed => row.container

-----------------------------------------------------------------------------
(* Action properties, and the ledger the processes implement together.     *)

\* A late error never turns a ready environment into a failed one: every
\* error handler looks at the row again under its lock.
ReadyNeverFails == [][row.env = "ready" => row'.env # "error"]_vars

Ledger == INSTANCE OperationLedger WITH restarts <- row.restarts

\* Whatever the processes do, the events they leave and restart_count change as
\* OperationLedger says: requested once, admitted alone, closed once, a reset
\* counted when and only when it succeeds.
LedgerImplemented == Ledger!Spec

-----------------------------------------------------------------------------
(* Liveness, under the watchdog's fairness alone: workers may die and      *)
(* messages may be lost for good.                                          *)

\* An environment does not stay starting or restarting, unless the attempt got
\* its technical pass meanwhile (the watchdog leaves such a row alone).
BusyEnvironmentEnds == EnvBusy /\ ~row.passed ~> ~EnvBusy \/ row.passed

\* A check does not stay running, unless the environment failed under it.
RunningCheckEnds ==
  row.check = "running" /\ ~row.passed
    ~> row.check # "running" \/ row.passed \/ row.env = "error"

\* Whatever message or worker is lost for good, the watchdog ends both.
WatchdogEnds == BusyEnvironmentEnds /\ RunningCheckEnds

-----------------------------------------------------------------------------
(* What the documentation says of the program, and the code does not keep. *)

\* models.py on technical_locked: ordinary start and restart actions must not
\* return an attempt that is technically closed to work.  The views test the
\* lock before they take the row lock, and nobody tests it again.
PassedNotReopened ==
  [][row.passed /\ row.status = "passed" => row'.status # "in_progress"]_vars

\* Somebody will still report on the run: it waits to be sent, it is in the
\* broker, or a worker has it.
Attended(r) ==
  \/ r \in queue
  \/ \E t \in Tabs : tab[t].id = r
  \/ \E w \in Workers : job[w].id = r

\* ARCHITECTURE.md on the watchdog: it restores the state of the database when
\* a worker or an operation broke off, looking for check_status = running.
LostCheckIsDetected ==
  row.check = "running" /\ ~row.passed /\ ~Attended(lastRun)
    => StuckCheck \/ StuckEnvironment

\* ARCHITECTURE.md on restart: the old containers are removed, new ones are
\* created.  So the name is free when the only worker at Docker is about to
\* create the container of a restart.
RestartFindsNameFree ==
  \A w \in Workers :
    /\ job[w].pc = "env_create"
    /\ ops[job[w].id].kind = "reset"
    /\ \A v \in Workers \ {w} : job[v].pc = "idle"
    => docker = None

\* CHANGELOG.md on cleanup_task_containers: the command must not touch attempts
\* with technical_passed_at.  Its status would then never be "new" again.  The
\* command tests the pass on a copy it refreshed before it took the lock.
PassedNotReset == row.passed => row.status # "new"
=============================================================================
