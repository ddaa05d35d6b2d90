---------------------------- MODULE AttemptProofs ----------------------------
(***************************************************************************)
(* Type correctness of AttemptLifecycle, for every choice of the constants,*)
(* and what the trainee is told about the environment: a ready environment *)
(* has its containers recorded, and no late error takes it away.           *)
(* TypeOK alone is not inductive: a step writes at the index its message   *)
(* names, so the messages must name ids of the right kind (IdsOK).         *)
(* Then the evidence ledger of the attempt, for any number of tabs,        *)
(* workers, operations and check runs: AttemptLifecycle implements         *)
(* OperationLedger; the CheckRun rows, the finished events and             *)
(* technical_passed_at agree, and no message is executed twice.            *)
(***************************************************************************)
EXTENDS AttemptLifecycle, FiniteSetTheorems, TLAPS

USE DEF ledger

\* A process at an environment step holds an operation id, at a check step a run
\* id; the cleanup command holds an operation id once it has registered.
IdsOK ==
  /\ \A t \in Tabs : /\ tab[t].pc = "send_env" => tab[t].id \in Ops
                     /\ tab[t].pc = "send_check" => tab[t].id \in Runs
  /\ \A w \in Workers : /\ job[w].pc \in EnvSteps => job[w].id \in Ops
                        /\ job[w].pc \in CheckSteps => job[w].id \in Runs
  /\ sweep.pc \in {"remove", "refresh", "save"} => sweep.op \in Ops

\* The inductive invariant of this module.
TypeInv == TypeOK /\ IdsOK

\* interrupt, finish and finish_check leave well-formed events.
LEMMA LedgerTypes ==
  ASSUME TypeOK
  PROVE  /\ InterruptOps \in [Ops -> Op]
         /\ InterruptRuns \in [Runs -> Run]
         /\ \A o, outcome : outcome \in {"success", "not_started", "unknown"}
                              => FinishOp(o, outcome) \in [Ops -> Op]
         /\ \A r, result, stored :
              result \in {"passed", "failed", "unknown"} /\ stored \in BOOLEAN
                => FinishRun(r, result, stored) \in [Runs -> Run]
<1>1. InterruptOps \in [Ops -> Op]
  BY DEF TypeOK, InterruptOps, Op
<1>2. InterruptRuns \in [Runs -> Run]
  BY DEF TypeOK, InterruptRuns, Run
<1>3. ASSUME NEW o, NEW outcome \in {"success", "not_started", "unknown"}
      PROVE  FinishOp(o, outcome) \in [Ops -> Op]
  BY DEF TypeOK, FinishOp, Op
<1>4. ASSUME NEW r, NEW result \in {"passed", "failed", "unknown"}, NEW stored \in BOOLEAN
      PROVE  FinishRun(r, result, stored) \in [Runs -> Run]
  BY DEF TypeOK, FinishRun, Run
<1>5. QED
  BY <1>1, <1>2, <1>3, <1>4

\* The rows the workers and the cleanup command save are rows.
LEMMA RowTypes ==
  ASSUME TypeOK
  PROVE  /\ \A kind : \A copy \in Nat : ReadyRow(kind, copy) \in Row
         /\ \A exit : \A container \in BOOLEAN : CheckedRow(exit, container) \in Row
         /\ SweptRow \in Row
<1> USE DEF TypeOK, Row, Status, CheckStatus, EnvironmentStatus
<1>1. ASSUME NEW kind, NEW copy \in Nat
      PROVE  ReadyRow(kind, copy) \in Row
  <2>1. Restarted(copy) \in Nat
    BY DEF Restarted
  <2>2. QED
    BY <2>1 DEF ReadyRow
<1>2. ASSUME NEW exit, NEW container \in BOOLEAN
      PROVE  CheckedRow(exit, container) \in Row
  BY DEF CheckedRow
<1>3. SweptRow \in Row
  BY DEF SweptRow, Sweep
<1>4. QED
  BY <1>1, <1>2, <1>3

\* So are the rows and the events the error handlers leave.
LEMMA MarkTypes ==
  ASSUME TypeOK
  PROVE  /\ \A closed \in [Ops -> Op] : MarkEnvironmentError(closed) =>
              row' \in Row /\ ops' \in [Ops -> Op] /\ runs' \in [Runs -> Run]
         /\ \A r : MarkCheckError(r) => row' \in Row /\ runs' \in [Runs -> Run]
<1>1. [row EXCEPT !.status = "failed", !.env = "error"] \in Row
  BY DEF TypeOK, Row, Status, EnvironmentStatus
<1>2. [row EXCEPT !.status = "failed", !.check = "error"] \in Row
  BY DEF TypeOK, Row, Status, CheckStatus
<1>3. ASSUME NEW closed \in [Ops -> Op], MarkEnvironmentError(closed)
      PROVE  row' \in Row /\ ops' \in [Ops -> Op] /\ runs' \in [Runs -> Run]
  BY <1>1, <1>3, LedgerTypes DEF MarkEnvironmentError, TypeOK
<1>4. ASSUME NEW r, MarkCheckError(r)
      PROVE  row' \in Row /\ runs' \in [Runs -> Run]
  <2>1. FinishRun(r, "unknown", FALSE) \in [Runs -> Run]
    BY LedgerTypes
  <2>2. QED
    BY <1>2, <1>4, <2>1 DEF MarkCheckError, TypeOK
<1>5. QED
  BY <1>3, <1>4

\* The steps of the web process preserve the types.
LEMMA WebTypes ==
  ASSUME TypeInv, NEW t \in Tabs, Web(t)
  PROVE  TypeInv'
<1> USE DEF TypeInv, TypeOK
<1>1. NoTab \in Tab
  BY DEF NoTab, Tab
<1>2. CASE StartTask(t)
  BY <1>2 DEF StartTask, Tab, IdsOK
<1>3. CASE RestartTask(t)
  BY <1>3 DEF RestartTask, Tab, IdsOK
<1>4. ASSUME NEW kind \in {"start", "reset"}, NEW marked \in Row, TryMark(t, kind, marked)
      PROVE  TypeInv'
  <2>1. PICK o \in Ops :
          /\ lastOp' = o
          /\ \/ /\ ops' = [ops EXCEPT ![o].kind = kind]
                /\ row' = marked
                /\ tab' = [tab EXCEPT ![t] = [pc |-> "send_env", id |-> o]]
             \/ /\ ops' = [ops EXCEPT ![o].kind = kind, ![o].outcome = "not_started"]
                /\ tab' = [tab EXCEPT ![t] = NoTab]
                /\ UNCHANGED row
    BY <1>4 DEF TryMark
  <2>2. ops' \in [Ops -> Op]
    BY <2>1 DEF Op
  <2>3. [pc |-> "send_env", id |-> o] \in Tab
    BY DEF Tab
  <2>4. tab' \in [Tabs -> Tab] /\ row' \in Row /\ lastOp' \in Ops
    BY <1>1, <2>1, <2>3
  <2>5. IdsOK'
    BY <1>4, <2>1 DEF TryMark, IdsOK, NoTab
  <2>6. QED
    BY <1>4, <2>2, <2>4, <2>5 DEF TryMark
<1>5. CASE TryMarkStarting(t)
  <2>1. [row EXCEPT !.env = "starting"] \in Row
    BY DEF Row, EnvironmentStatus
  <2>2. QED
    BY <1>4, <1>5, <2>1 DEF TryMarkStarting
<1>6. CASE TryMarkRestarting(t)
  <2>1. [row EXCEPT !.env = "restarting", !.check = "idle"] \in Row
    BY DEF Row, EnvironmentStatus, CheckStatus
  <2>2. QED
    BY <1>4, <1>6, <2>1 DEF TryMarkRestarting
<1>7. CASE SendEnvironment(t)
  BY <1>7, <1>1 DEF SendEnvironment, NoTab, IdsOK
<1>8. CASE SendEnvironmentFails(t)
  <2>1. FinishOp(tab[t].id, "unknown") \in [Ops -> Op]
    BY LedgerTypes
  <2>2. IdsOK'
    BY <1>8 DEF SendEnvironmentFails, IdsOK, NoTab
  <2>3. QED
    BY <1>8, <1>1, <2>1, <2>2, MarkTypes DEF SendEnvironmentFails
<1>9. CASE CheckTask(t)
  BY <1>9 DEF CheckTask, Tab, IdsOK
<1>10. CASE TryMarkCheckRunning(t)
  <2>1. row.attempts + 1 \in Nat
    BY DEF Row
  <2>2. [row EXCEPT !.attempts = row.attempts + 1, !.status = "in_progress",
                    !.check = "running"] \in Row
    <3> DEFINE n == row.attempts + 1
    <3> n \in Nat
      BY <2>1
    <3> HIDE DEF n
    <3> [row EXCEPT !.attempts = n, !.status = "in_progress", !.check = "running"] \in Row
      BY DEF Row, Status, CheckStatus
    <3> QED
      BY DEF n
  <2>3. \A r \in Runs : [runs EXCEPT ![r].requested = TRUE] \in [Runs -> Run]
    BY DEF Run
  <2>4. \A r \in Runs : [pc |-> "send_check", id |-> r] \in Tab
    BY DEF Tab
  <2>5. IdsOK'
    BY <1>10 DEF TryMarkCheckRunning, IdsOK, NoTab
  <2>6. QED
    BY <1>1, <1>10, <2>2, <2>3, <2>4, <2>5 DEF TryMarkCheckRunning
<1>11. CASE SendCheck(t)
  BY <1>11, <1>1 DEF SendCheck, NoTab, IdsOK
<1>12. CASE SendCheckFails(t)
  <2>1. IdsOK'
    BY <1>12 DEF SendCheckFails, IdsOK, NoTab
  <2>2. QED
    BY <1>12, <1>1, <2>1, MarkTypes DEF SendCheckFails
<1>13. CASE WebCrash(t)
  BY <1>13, <1>1 DEF WebCrash, NoTab, IdsOK
<1>14. QED
  BY <1>2, <1>3, <1>5, <1>6, <1>7, <1>8, <1>9, <1>10, <1>11, <1>12, <1>13 DEF Web

\* The steps of a worker with an environment operation preserve the types.
LEMMA EnvWorkerTypes ==
  ASSUME TypeInv, NEW w \in Workers, EnvWorker(w)
  PROVE  TypeInv'
<1> USE DEF TypeInv, TypeOK
<1>1. NoJob \in Job
  BY DEF NoJob, Job
<1>2. ASSUME NEW pc \in EnvSteps, job[w].pc \in EnvSteps,
             job' = [job EXCEPT ![w].pc = pc], UNCHANGED <<tab, sweep>>
      PROVE  job' \in [Workers -> Job] /\ IdsOK'
  BY <1>2 DEF Job, IdsOK, EnvSteps, CheckSteps
<1>3. ASSUME job' = [job EXCEPT ![w] = NoJob], UNCHANGED <<tab, sweep>>
      PROVE  job' \in [Workers -> Job] /\ IdsOK'
  BY <1>1, <1>3 DEF NoJob, IdsOK, EnvSteps, CheckSteps
<1>4. CASE EnvBegin(w)
  <2>1. \A o : FinishOp(o, "not_started") \in [Ops -> Op]
    BY LedgerTypes
  <2>2. \A o : [ops EXCEPT ![o].started = TRUE] \in [Ops -> Op]
    BY DEF Op
  <2>3. job' \in [Workers -> Job]
    BY <1>1, <1>4 DEF EnvBegin, Job, Row, EnvSteps
  <2>4. IdsOK'
    <3>1. CASE job' = [job EXCEPT ![w] = NoJob]
      BY <1>3, <1>4, <3>1 DEF EnvBegin
    <3>2. CASE job' # [job EXCEPT ![w] = NoJob]
      <4>1. job[w].id \in Ops /\ \A v \in Workers : job'[v].id = job[v].id
        BY <1>4, <3>2 DEF EnvBegin, IdsOK, EnvSteps, Job
      <4>2. job'[w].pc \in EnvSteps \ CheckSteps
        BY <1>4, <3>2 DEF EnvBegin, EnvSteps, CheckSteps, Job
      <4>3. \A v \in Workers \ {w} : job'[v] = job[v]
        BY <1>4, <3>2 DEF EnvBegin
      <4>4. QED
        BY <1>4, <4>1, <4>2, <4>3 DEF EnvBegin, IdsOK
    <3>3. QED
      BY <3>1, <3>2
  <2>5. QED
    BY <1>4, <2>1, <2>2, <2>3, <2>4 DEF EnvBegin
<1>5. ASSUME EnvRaise(w), job[w].pc \in EnvSteps
      PROVE  TypeInv'
  BY <1>2, <1>5 DEF EnvRaise, EnvSteps
<1>6. CASE EnvRemove(w)
  BY <1>2, <1>6 DEF EnvRemove, RemovedBy, EnvSteps
<1>7. CASE EnvCreate(w)
  BY <1>2, <1>7 DEF EnvCreate, EnvSteps, IdsOK
<1>8. CASE EnvTerminal(w)
  BY <1>2, <1>8 DEF EnvTerminal, EnvSteps
<1>9. CASE EnvDockerError(w)
  BY <1>5, <1>9 DEF EnvDockerError, EnvSteps
<1>10. CASE EnvCommit(w)
  <2>1. FinishOp(job[w].id, "success") \in [Ops -> Op]
    BY LedgerTypes
  <2>2. job[w].restarts \in Nat
    BY DEF Job
  <2>3. ReadyRow(ops[job[w].id].kind, job[w].restarts) \in Row
    BY <2>2, RowTypes
  <2>4. QED
    BY <1>3, <1>10, <2>1, <2>3 DEF EnvCommit
<1>11. CASE EnvCommitFails(w)
  BY <1>5, <1>11 DEF EnvCommitFails, EnvSteps
<1>12. CASE EnvFail(w)
  <2>1. FinishOp(job[w].id, "unknown") \in [Ops -> Op]
    BY LedgerTypes
  <2>2. QED
    BY <1>2, <1>12, <2>1 DEF EnvFail, EnvSteps
<1>13. CASE EnvLatest(w)
  <2>1. CASE lastOp = job[w].id
    <3>1. job' = [job EXCEPT ![w].pc = "env_error"]
      BY <1>13, <2>1 DEF EnvLatest
    <3>2. QED
      BY <1>2, <1>13, <3>1 DEF EnvLatest, EnvSteps
  <2>2. CASE lastOp # job[w].id
    <3>1. job' = [job EXCEPT ![w] = NoJob]
      BY <1>13, <2>2 DEF EnvLatest
    <3>2. QED
      BY <1>3, <1>13, <3>1 DEF EnvLatest
  <2>3. QED
    BY <2>1, <2>2
<1>14. CASE EnvError(w)
  BY <1>3, <1>14, MarkTypes DEF EnvError
<1>15. QED
  BY <1>4, <1>6, <1>7, <1>8, <1>9, <1>10, <1>11, <1>12, <1>13, <1>14 DEF EnvWorker

\* The steps of a worker with a check preserve the types.
LEMMA CheckWorkerTypes ==
  ASSUME TypeInv, NEW w \in Workers, CheckWorker(w)
  PROVE  TypeInv'
<1> USE DEF TypeInv, TypeOK
<1>1. NoJob \in Job
  BY DEF NoJob, Job
<1>2. ASSUME NEW pc \in CheckSteps, job[w].pc \in CheckSteps,
             job' = [job EXCEPT ![w].pc = pc], UNCHANGED <<tab, sweep>>
      PROVE  job' \in [Workers -> Job] /\ IdsOK'
  BY <1>2 DEF Job, IdsOK, EnvSteps, CheckSteps
<1>3. ASSUME job' = [job EXCEPT ![w] = NoJob], UNCHANGED <<tab, sweep>>
      PROVE  job' \in [Workers -> Job] /\ IdsOK'
  BY <1>1, <1>3 DEF NoJob, IdsOK, EnvSteps, CheckSteps
<1>4. CASE CheckGuard(w)
  <2>1. job' = [job EXCEPT ![w] = NoJob] \/ job' = [job EXCEPT ![w].pc = "check_begin"]
    BY <1>4 DEF CheckGuard
  <2>2. QED
    BY <1>2, <1>3, <1>4, <2>1 DEF CheckGuard, CheckSteps
<1>5. CASE CheckBegin(w)
  <2>1. \A r : [runs EXCEPT ![r].started = TRUE] \in [Runs -> Run]
    BY DEF Run
  <2>2. QED
    BY <1>2, <1>3, <1>5, <2>1 DEF CheckBegin, CheckSteps
<1>6. CASE CheckLoad(w)
  <2>1. job' \in [Workers -> Job]
    <3>1. row.container \in BOOLEAN
      BY DEF Row
    <3>2. [job[w] EXCEPT !.pc = "check_exec", !.container = row.container] \in Job
      BY <3>1 DEF Job, CheckSteps
    <3>3. QED
      BY <1>1, <1>6, <3>2 DEF CheckLoad
  <2>2. IdsOK'
    BY <1>6 DEF CheckLoad, IdsOK, NoJob, EnvSteps, CheckSteps
  <2>3. QED
    BY <1>6, <2>1, <2>2 DEF CheckLoad
<1>7. CASE CheckExec(w)
  <2>1. job' \in [Workers -> Job]
    BY <1>7 DEF CheckExec, Job, CheckSteps
  <2>2. IdsOK'
    BY <1>7 DEF CheckExec, IdsOK, EnvSteps, CheckSteps
  <2>3. QED
    BY <1>7, <2>1, <2>2 DEF CheckExec
<1>8. CASE CheckTeardown(w)
  <2>1. job' \in [Workers -> Job]
    <3>1. [job[w] EXCEPT !.pc = "check_commit", !.container = FALSE] \in Job
      BY DEF Job, CheckSteps
    <3>2. job' = [job EXCEPT ![w] = [job[w] EXCEPT !.pc = "check_commit", !.container = FALSE]]
      BY <1>8 DEF CheckTeardown
    <3>3. QED
      BY <3>1, <3>2
  <2>2. IdsOK'
    BY <1>8 DEF CheckTeardown, IdsOK, EnvSteps, CheckSteps
  <2>3. QED
    BY <1>8, <2>1, <2>2 DEF CheckTeardown
<1>9. CASE CheckRaise(w)
  <2>1. [NoJob EXCEPT !.pc = "check_fail", !.id = job[w].id] \in Job
    BY DEF NoJob, Job, CheckSteps
  <2>2. IdsOK'
    BY <1>9 DEF CheckRaise, NoJob, IdsOK, EnvSteps, CheckSteps
  <2>3. QED
    BY <1>9, <2>1, <2>2 DEF CheckRaise
<1>10. CASE CheckCommit(w)
  <2> DEFINE exit == job[w].exit
             stored == exit \in {"zero", "one", "other"}
  <2>1. CheckedResult(exit) \in {"passed", "failed", "unknown"}
    BY DEF CheckedResult
  <2>2. stored \in BOOLEAN
    OBVIOUS
  <2>3. FinishRun(job[w].id, CheckedResult(exit), stored) \in [Runs -> Run]
    <3> HIDE DEF exit, stored
    <3> QED
      BY <2>1, <2>2, LedgerTypes
  <2>4. job[w].container \in BOOLEAN
    BY DEF Job
  <2>5. CheckedRow(exit, job[w].container) \in Row
    BY <2>4, RowTypes
  <2>6. StoredCheckRuns(exit) \in [passed: Nat, failed: Nat]
    BY DEF StoredCheckRuns
  <2>7. QED
    BY <1>3, <1>10, <2>3, <2>5, <2>6 DEF CheckCommit
<1>11. CASE CheckFail(w)
  <2>1. FinishRun(job[w].id, "unknown", FALSE) \in [Runs -> Run]
    BY LedgerTypes
  <2>2. QED
    BY <1>2, <1>11, <2>1 DEF CheckFail, CheckSteps
<1>12. CASE CheckError(w)
  BY <1>3, <1>12, MarkTypes DEF CheckError
<1>13. QED
  BY <1>4, <1>5, <1>6, <1>7, <1>8, <1>9, <1>10, <1>11, <1>12 DEF CheckWorker

\* Deliveries, repeated deliveries and lost workers preserve the types.
LEMMA BrokerTypes ==
  ASSUME TypeInv, NEW w \in Workers, Broker(w)
  PROVE  TypeInv'
<1> USE DEF TypeInv, TypeOK
<1>1. CASE Deliver(w)
  <2>1. job' \in [Workers -> Job]
    BY <1>1 DEF Deliver, Job, EnvSteps, CheckSteps
  <2>2. IdsOK'
    BY <1>1 DEF Deliver, IdsOK, EnvSteps, CheckSteps
  <2>3. QED
    BY <1>1, <2>1, <2>2 DEF Deliver
<1>2. CASE Redeliver(w)
  BY <1>2 DEF Redeliver, IdsOK
<1>3. CASE WorkerCrash(w)
  <2>1. NoJob \in Job
    BY DEF NoJob, Job
  <2>2. IdsOK'
    BY <1>3 DEF WorkerCrash, IdsOK, NoJob, EnvSteps, CheckSteps
  <2>3. QED
    BY <1>3, <2>1, <2>2 DEF WorkerCrash, IdsOK
<1>4. QED
  BY <1>1, <1>2, <1>3 DEF Broker

\* The watchdog and the cleanup command preserve the types.
LEMMA CronTypes ==
  ASSUME TypeInv, Watchdog \/ Cleanup
  PROVE  TypeInv'
<1> USE DEF TypeInv, TypeOK
<1>1. NoDog \in Dog /\ NoSweep \in Sweep
  BY DEF NoDog, Dog, NoSweep, Sweep, Status, CheckStatus
<1>2. CASE DogSelectEnvironment
  BY <1>2 DEF DogSelectEnvironment, Dog, IdsOK
<1>3. CASE DogSelectCheck
  BY <1>3 DEF DogSelectCheck, Dog, IdsOK
<1>4. CASE DogMarkEnvironment
  <2>1. [row EXCEPT !.env = "error", !.status = "failed",
                    !.check = IF dog.running THEN "error" ELSE @] \in Row
    BY DEF Row, Status, CheckStatus, EnvironmentStatus
  <2>2. QED
    BY <1>1, <1>4, <2>1, LedgerTypes DEF DogMarkEnvironment, IdsOK
<1>5. CASE DogMarkCheck
  <2>1. [row EXCEPT !.check = "error", !.status = "failed"] \in Row
    BY DEF Row, Status, CheckStatus
  <2>2. QED
    BY <1>1, <1>5, <2>1, LedgerTypes DEF DogMarkCheck, IdsOK
<1>6. CASE SweepSelectUnfinished
  BY <1>1, <1>6 DEF SweepSelectUnfinished, Sweep, Row, NoSweep, IdsOK
<1>7. CASE SweepSelectPassed
  BY <1>1, <1>7 DEF SweepSelectPassed, Sweep, Row, NoSweep, IdsOK
<1>8. CASE SweepRequest
  <2>1. InterruptOps \in [Ops -> Op] /\ InterruptRuns \in [Runs -> Run]
    BY LedgerTypes
  <2>2. ASSUME NEW f \in [Ops -> Op], NEW o \in Ops
        PROVE  [f EXCEPT ![o].kind = "cleanup", ![o].started = TRUE] \in [Ops -> Op]
    <3>1. [f[o] EXCEPT !.kind = "cleanup", !.started = TRUE] \in Op
      BY DEF Op
    <3>2. [f EXCEPT ![o].kind = "cleanup", ![o].started = TRUE]
            = [f EXCEPT ![o] = [f[o] EXCEPT !.kind = "cleanup", !.started = TRUE]]
      OBVIOUS
    <3>3. QED
      BY <3>1, <3>2
  <2>3. \A o \in Ops : [sweep EXCEPT !.pc = "remove", !.op = o] \in Sweep
    BY DEF Sweep
  <2>4. IdsOK'
    BY <1>8 DEF SweepRequest, IdsOK, Sweep
  <2>5. PICK o \in Ops :
          /\ ops' = [InterruptOps EXCEPT ![o].kind = "cleanup", ![o].started = TRUE]
          /\ lastOp' = o
          /\ sweep' = [sweep EXCEPT !.pc = "remove", !.op = o]
    BY <1>8 DEF SweepRequest
  <2>6. ops' \in [Ops -> Op]
    BY <2>1, <2>2, <2>5
  <2>7. QED
    BY <1>8, <2>1, <2>3, <2>4, <2>5, <2>6 DEF SweepRequest
<1>9. CASE SweepRemove
  BY <1>9 DEF SweepRemove, Sweep, IdsOK
<1>10. CASE SweepRefresh
  BY <1>10 DEF SweepRefresh, Sweep, IdsOK, Row
<1>11. CASE SweepSave
  <2>1. FinishOp(sweep.op, "success") \in [Ops -> Op]
    BY LedgerTypes
  <2>2. SweptRow \in Row
    BY RowTypes
  <2>3. QED
    BY <1>1, <1>11, <2>1, <2>2 DEF SweepSave, IdsOK, NoSweep
<1>12. CASE SweepDies
  BY <1>1, <1>12 DEF SweepDies, IdsOK, NoSweep
<1>13. QED
  BY <1>2, <1>3, <1>4, <1>5, <1>6, <1>7, <1>8, <1>9, <1>10, <1>11, <1>12 DEF Watchdog, Cleanup

\* A new attempt satisfies the invariant.
LEMMA InitTypes ==
  ASSUME Init
  PROVE  TypeInv
<1>1. NoJob \in Job /\ NoTab \in Tab /\ NoDog \in Dog /\ NoSweep \in Sweep
  BY DEF NoJob, Job, NoTab, Tab, NoDog, Dog, NoSweep, Sweep, Status, CheckStatus
<1>2. row \in Row
  BY ReviewFlags DEF Init, Row, Status, CheckStatus, EnvironmentStatus
<1>3. TypeOK
  BY <1>1, <1>2 DEF Init, TypeOK, Op, Run
<1>4. IdsOK
  BY DEF Init, IdsOK, NoJob, NoTab, NoSweep, EnvSteps, CheckSteps
<1>5. QED
  BY <1>3, <1>4 DEF TypeInv

\* Every step preserves the invariant.
LEMMA NextTypes ==
  ASSUME TypeInv, [Next]_vars
  PROVE  TypeInv'
<1>1. CASE Next
  BY <1>1, WebTypes, EnvWorkerTypes, CheckWorkerTypes, BrokerTypes, CronTypes DEF Next
<1>2. CASE UNCHANGED vars
  BY <1>2 DEF vars, TypeInv, TypeOK, IdsOK
<1>3. QED
  BY <1>1, <1>2

\* The variables keep their types: no interleaving leaves a value in the row, the
\* ledger, the broker or a process that the code does not provide for.
THEOREM TypeCorrect == Spec => []TypeOK
<1>1. TypeInv => TypeOK
  BY DEF TypeInv
<1>2. QED
  BY InitTypes, NextTypes, <1>1, PTL DEF Spec

-----------------------------------------------------------------------------
(* The environment in the row.                                             *)

\* What a step may do to the environment in the row.  It is unchanged, or becomes
\* busy; becomes ready with its containers; loses the containers when it is idle
\* or the attempt has its pass; fails only while it is busy.
RowMoves ==
  \/ row'.env = row.env /\ row'.container = row.container /\ row'.passed = row.passed
  \/ row'.env \in {"starting", "restarting", "idle"}
  \/ row'.env = "ready" /\ row'.container
  \/ row'.env = row.env /\ row'.passed
  \/ EnvBusy /\ row'.env = "error"

\* Every action of the system makes one of these moves: only the error handlers
\* and the watchdog set environment_status to error, and they look at it first.
LEMMA NextRow ==
  ASSUME TypeOK, [Next]_vars
  PROVE  RowMoves
<1> USE DEF TypeOK, RowMoves
<1>1. CASE row' = row
  BY <1>1
<1>2. ASSUME NEW t \in Tabs, Web(t)
      PROVE  RowMoves
  <2>1. CASE TryMarkStarting(t) \/ TryMarkRestarting(t)
    BY <1>1, <2>1 DEF TryMarkStarting, TryMarkRestarting, TryMark, Row
  <2>2. CASE SendEnvironmentFails(t)
    BY <1>1, <2>2 DEF SendEnvironmentFails, MarkEnvironmentError, Row
  <2>3. CASE TryMarkCheckRunning(t)
    BY <1>1, <2>3 DEF TryMarkCheckRunning, Row
  <2>4. CASE SendCheckFails(t)
    BY <1>1, <2>4 DEF SendCheckFails, MarkCheckError, Row
  <2>5. QED
    BY <1>1, <1>2, <2>1, <2>2, <2>3, <2>4 DEF Web, StartTask, RestartTask, SendEnvironment,
       CheckTask, SendCheck, WebCrash
<1>3. ASSUME NEW w \in Workers, EnvWorker(w)
      PROVE  RowMoves
  <2>1. CASE EnvCommit(w)
    BY <2>1 DEF EnvCommit, ReadyRow, Row
  <2>2. CASE EnvError(w)
    BY <1>1, <2>2 DEF EnvError, MarkEnvironmentError, Row
  <2>3. QED
    BY <1>1, <1>3, <2>1, <2>2 DEF EnvWorker, EnvBegin, EnvRemove, EnvCreate, EnvTerminal,
       EnvDockerError, EnvCommitFails, EnvRaise, EnvFail, EnvLatest
<1>4. ASSUME NEW w \in Workers, CheckWorker(w)
      PROVE  RowMoves
  <2>1. CASE CheckCommit(w)
    BY <2>1 DEF CheckCommit, CheckedRow, Row
  <2>2. CASE CheckError(w)
    BY <1>1, <2>2 DEF CheckError, MarkCheckError, Row
  <2>3. QED
    BY <1>1, <1>4, <2>1, <2>2 DEF CheckWorker, CheckGuard, CheckBegin, CheckLoad, CheckExec,
       CheckTeardown, CheckRaise, CheckFail
<1>5. ASSUME NEW w \in Workers, Broker(w)
      PROVE  RowMoves
  BY <1>1, <1>5 DEF Broker, Deliver, Redeliver, WorkerCrash
<1>6. CASE Watchdog
  <2>1. CASE DogMarkEnvironment
    BY <1>1, <2>1 DEF DogMarkEnvironment, Row
  <2>2. CASE DogMarkCheck
    BY <1>1, <2>2 DEF DogMarkCheck, Row
  <2>3. QED
    BY <1>1, <1>6, <2>1, <2>2 DEF Watchdog, DogSelectEnvironment, DogSelectCheck
<1>7. CASE Cleanup
  <2>1. CASE SweepSave
    BY <2>1 DEF SweepSave, SweptRow, Row
  <2>2. QED
    BY <1>1, <1>7, <2>1 DEF Cleanup, SweepSelectUnfinished, SweepSelectPassed, SweepRequest,
       SweepRemove, SweepRefresh, SweepDies
<1>8. QED
  BY <1>1, <1>2, <1>3, <1>4, <1>5, <1>6, <1>7 DEF Next, vars

\* Whatever the workers, the error handlers, the watchdog and the cleanup write in
\* whichever order, an attempt shown as ready and not yet passed has a container.
THEOREM ReadyContainer == Spec => []ReadyHasContainer
<1>1. Init => ReadyHasContainer
  BY DEF Init, ReadyHasContainer
<1>2. TypeInv /\ ReadyHasContainer /\ [Next]_vars => ReadyHasContainer'
  <2>1. SUFFICES ASSUME TypeOK, ReadyHasContainer, RowMoves
                 PROVE  ReadyHasContainer'
    BY NextRow DEF TypeInv
  <2>2. QED
    BY <2>1 DEF RowMoves, ReadyHasContainer, EnvBusy, TypeOK, Row
<1>3. QED
  BY InitTypes, NextTypes, <1>1, <1>2, PTL DEF Spec

\* A late error of a worker, of the broker or of the watchdog never turns a ready
\* environment into a failed one.
THEOREM ReadyStays == Spec => ReadyNeverFails
<1>1. TypeInv /\ [Next]_vars => [row.env = "ready" => row'.env # "error"]_vars
  <2>1. SUFFICES ASSUME TypeOK, RowMoves, row.env = "ready"
                 PROVE  row'.env # "error"
    BY NextRow DEF TypeInv
  <2>2. QED
    BY <2>1 DEF RowMoves, EnvBusy
<1>2. QED
  BY InitTypes, NextTypes, <1>1, PTL DEF Spec, ReadyNeverFails

-----------------------------------------------------------------------------
(* The evidence ledger, and what OperationLedger allows a step to do to it.*)

\* The abstract ledger under the refinement mapping.
L == INSTANCE OperationLedger WITH restarts <- row.restarts

\* Finiteness and cardinality mean the same in both modules.
LEMMA SameCardinality ==
  L!IsFiniteSet(Ops) /\ \A S : L!Cardinality(S) = Cardinality(S)
<1>1. L!IsFiniteSet(Ops)
  BY FiniteIds DEF IsFiniteSet, L!IsFiniteSet
<1>2. \A S : L!Cardinality(S) = Cardinality(S)
  BY DEF L!Cardinality, Cardinality
<1>3. QED
  BY <1>1, <1>2

\* The types, and an operation without a request has no other event either.
LedgerType ==
  /\ ops \in [Ops -> L!Op]
  /\ row.restarts \in Nat
  /\ \A o \in Ops : ops[o].kind = "none" => ops[o] = L!Unrequested

\* AtMostOneAdmitted and RestartsCounted are inductive together with the types.
LedgerInv == LedgerType /\ L!AtMostOneAdmitted /\ L!RestartsCounted

\* The events of the ledger are only added: an operation keeps its kind, is
\* never un-started, and keeps the outcome it was closed with.
AppendOnly ==
  \A o \in Ops :
    /\ ops[o].kind # "none" => ops'[o].kind = ops[o].kind
    /\ ops[o].started => ops'[o].started
    /\ ops[o].outcome # "open" => ops'[o].outcome = ops[o].outcome

\* An operation that becomes admitted is the only open one after the step.
AdmittedAlone ==
  \A o \in Ops : ~ops[o].started /\ ops'[o].started => \A p \in Ops \ {o} : ~L!Open(p)'

\* Every step of the abstract ledger, one lemma for the invariant's first part:
\* the types, the growth of the ledger and the exclusive admission.
LEMMA LedgerStep ==
  ASSUME LedgerType, [L!Next]_(L!ledgerVars)
  PROVE  LedgerType' /\ AppendOnly /\ AdmittedAlone
<1> USE DEF LedgerType
<1>1. ASSUME NEW o \in Ops, NEW kind \in {"start", "reset"},
             NEW outcome \in {"open", "not_started"}, L!Request(o, kind, outcome)
      PROVE  LedgerType' /\ AppendOnly /\ AdmittedAlone
  <2>1. [kind |-> kind, started |-> FALSE, outcome |-> outcome] \in L!Op
    BY DEF L!Op
  <2>2. LedgerType'
    BY <1>1, <2>1 DEF L!Request
  <2>3. ops[o] = L!Unrequested /\ ~ops'[o].started /\ \A p \in Ops \ {o} : ops'[p] = ops[p]
    BY <1>1 DEF L!Request
  <2>4. QED
    BY <1>1, <2>2, <2>3 DEF L!Request, L!Unrequested, AppendOnly, AdmittedAlone
<1>2. ASSUME NEW o \in Ops, L!Admit(o)
      PROVE  LedgerType' /\ AppendOnly /\ AdmittedAlone
  BY <1>2 DEF L!Admit, L!Alone, L!Open, L!Op, L!Unrequested, AppendOnly, AdmittedAlone
<1>3. ASSUME NEW o \in Ops, L!Refuse(o)
      PROVE  LedgerType' /\ AppendOnly /\ AdmittedAlone
  BY <1>3 DEF L!Refuse, L!Open, L!Op, L!Unrequested, AppendOnly, AdmittedAlone
<1>4. ASSUME NEW o \in Ops, L!Cleanup(o)
      PROVE  LedgerType' /\ AppendOnly /\ AdmittedAlone
  <2>1. \A p \in Ops \ {o} :
          ops'[p] = IF L!Open(p) THEN [ops[p] EXCEPT !.outcome = "unknown"] ELSE ops[p]
    BY <1>4 DEF L!Cleanup, L!CleanupEvents, L!CloseAll
  <2>2. ops'[o] = [kind |-> "cleanup", started |-> TRUE, outcome |-> "open"]
    BY <1>4 DEF L!Cleanup, L!CleanupEvents, L!CloseAll
  <2>3. ops' \in [Ops -> L!Op]
    BY <1>4 DEF L!Cleanup, L!CleanupEvents, L!CloseAll, L!Op
  <2>4. QED
    BY <1>4, <2>1, <2>2, <2>3 DEF L!Cleanup, L!Open, L!Op, L!Unrequested, AppendOnly, AdmittedAlone
<1>5. ASSUME NEW o \in Ops, L!Succeed(o)
      PROVE  LedgerType' /\ AppendOnly /\ AdmittedAlone
  <2>1. row'.restarts \in Nat
    BY <1>5 DEF L!Succeed
  <2>2. L!Open(o) /\ ops' = [ops EXCEPT ![o].outcome = "success"]
    BY <1>5 DEF L!Succeed, L!MaySucceed, L!Admitted
  <2>3. QED
    BY <2>1, <2>2 DEF L!Open, L!Op, L!Unrequested, AppendOnly, AdmittedAlone
<1>6. ASSUME NEW S \in SUBSET Ops, L!Close(S)
      PROVE  LedgerType' /\ AppendOnly /\ AdmittedAlone
  BY <1>6 DEF L!Close, L!CloseAll, L!Open, L!Op, L!Unrequested, AppendOnly, AdmittedAlone
<1>7. CASE UNCHANGED L!ledgerVars
  BY <1>7 DEF L!ledgerVars, AppendOnly, AdmittedAlone
<1>8. QED
  BY <1>1, <1>2, <1>3, <1>4, <1>5, <1>6, <1>7 DEF L!Next

\* Exclusive admission follows from the three facts of LedgerStep alone.
LEMMA AdmissionStep ==
  ASSUME LedgerType, L!AtMostOneAdmitted, [L!Next]_(L!ledgerVars)
  PROVE  L!AtMostOneAdmitted'
<1>1. AppendOnly /\ AdmittedAlone /\ LedgerType'
  BY LedgerStep
<1>2. SUFFICES ASSUME NEW o \in Ops, NEW p \in Ops, L!Admitted(o)', L!Admitted(p)', o # p
               PROVE  FALSE
  BY DEF L!AtMostOneAdmitted
<1>3. ops[o].started /\ ops[p].started
  BY <1>1, <1>2 DEF AdmittedAlone, L!Admitted, LedgerType, L!Op
<1>4. L!Admitted(o) /\ L!Admitted(p)
  BY <1>1, <1>2, <1>3 DEF AppendOnly, L!Admitted, L!Open, LedgerType, L!Op, L!Unrequested
<1>5. QED
  BY <1>2, <1>4 DEF L!AtMostOneAdmitted

\* The counter follows the set of successful resets, one at a time.
LEMMA CounterStep ==
  ASSUME LedgerType, L!RestartsCounted, [L!Next]_(L!ledgerVars)
  PROVE  L!RestartsCounted'
<1>0. IsFiniteSet(L!SuccessfulResets)
  BY FiniteIds, FS_Subset DEF L!SuccessfulResets
<1>1. ASSUME NEW o \in Ops, L!Succeed(o)
      PROVE  L!RestartsCounted'
  <2>1. CASE ops[o].kind = "reset"
    <3>1. L!SuccessfulResets' = L!SuccessfulResets \cup {o}
      BY <1>1, <2>1 DEF L!Succeed, L!SuccessfulResets, LedgerType, L!Op
    <3>2. o \notin L!SuccessfulResets
      BY <1>1 DEF L!Succeed, L!MaySucceed, L!Admitted, L!Open, L!SuccessfulResets
    <3>3. Cardinality(L!SuccessfulResets \cup {o}) = Cardinality(L!SuccessfulResets) + 1
      BY <1>0, <3>2, FS_AddElement
    <3>4. QED
      BY <1>1, <2>1, <3>1, <3>3, SameCardinality DEF L!Succeed, L!RestartsCounted
  <2>2. CASE ops[o].kind # "reset"
    <3>1. L!SuccessfulResets' = L!SuccessfulResets
      BY <1>1, <2>2 DEF L!Succeed, L!SuccessfulResets, LedgerType, L!Op
    <3>2. QED
      BY <1>1, <2>2, <3>1 DEF L!Succeed, L!RestartsCounted
  <2>3. QED
    BY <2>1, <2>2
<1>2. ASSUME UNCHANGED row.restarts, L!SuccessfulResets' = L!SuccessfulResets
      PROVE  L!RestartsCounted'
  BY <1>2 DEF L!RestartsCounted
<1>3. ASSUME NEW o \in Ops, NEW kind, NEW outcome \in {"open", "not_started"},
             L!Request(o, kind, outcome)
      PROVE  L!RestartsCounted'
  BY <1>2, <1>3 DEF L!Request, L!SuccessfulResets, LedgerType, L!Op, L!Unrequested
<1>4. ASSUME NEW o \in Ops, L!Admit(o) \/ L!Refuse(o)
      PROVE  L!RestartsCounted'
  BY <1>2, <1>4 DEF L!Admit, L!Refuse, L!Open, L!SuccessfulResets, LedgerType, L!Op
<1>5. ASSUME NEW o \in Ops, L!Cleanup(o)
      PROVE  L!RestartsCounted'
  <2>1. \A p \in Ops \ {o} :
          ops'[p] = IF L!Open(p) THEN [ops[p] EXCEPT !.outcome = "unknown"] ELSE ops[p]
    BY <1>5 DEF L!Cleanup, L!CleanupEvents, L!CloseAll
  <2>2. ops'[o].kind = "cleanup" /\ ops[o].kind = "none"
    BY <1>5 DEF L!Cleanup, L!CleanupEvents, L!CloseAll
  <2>3. L!SuccessfulResets' = L!SuccessfulResets
    <3>1. o \notin L!SuccessfulResets /\ o \notin L!SuccessfulResets'
      BY <2>2 DEF L!SuccessfulResets
    <3>2. \A p \in Ops \ {o} : p \in L!SuccessfulResets' <=> p \in L!SuccessfulResets
      BY <2>1 DEF L!SuccessfulResets, L!Open, LedgerType, L!Op
    <3>3. QED
      BY <3>1, <3>2 DEF L!SuccessfulResets
  <2>4. QED
    BY <1>2, <1>5, <2>3 DEF L!Cleanup
<1>6. ASSUME NEW S \in SUBSET Ops, L!Close(S)
      PROVE  L!RestartsCounted'
  BY <1>2, <1>6 DEF L!Close, L!CloseAll, L!Open, L!SuccessfulResets, LedgerType, L!Op
<1>7. CASE UNCHANGED L!ledgerVars
  BY <1>2, <1>7 DEF L!ledgerVars, L!SuccessfulResets
<1>8. QED
  BY <1>1, <1>3, <1>4, <1>5, <1>6, <1>7 DEF L!Next

\* restart_count moves only when an admitted operation is closed.
LEMMA CounterMoves ==
  ASSUME LedgerType, [L!Next]_(L!ledgerVars), row'.restarts # row.restarts
  PROVE  \E o \in Ops : L!Admitted(o) /\ ~L!Open(o)'
<1>1. PICK o \in Ops : L!Succeed(o)
  BY DEF L!Next, L!Request, L!Admit, L!Refuse, L!Cleanup, L!Close, L!ledgerVars
<1>2. L!Admitted(o) /\ ~L!Open(o)'
  BY <1>1 DEF L!Succeed, L!MaySucceed, L!Open, LedgerType, L!Op
<1>3. QED
  BY <1>2

\* The initial ledger, with no event, satisfies the invariant.
LEMMA LedgerInit ==
  ASSUME L!Init
  PROVE  LedgerInv
<1>1. LedgerType /\ L!AtMostOneAdmitted
  BY DEF L!Init, LedgerType, L!Op, L!Unrequested, L!AtMostOneAdmitted, L!Admitted, L!Open
<1>2. L!SuccessfulResets = {}
  BY DEF L!Init, L!Unrequested, L!SuccessfulResets
<1>3. L!RestartsCounted
  BY <1>2, FS_EmptySet, SameCardinality DEF L!Init, L!RestartsCounted
<1>4. QED
  BY <1>1, <1>3 DEF LedgerInv

-----------------------------------------------------------------------------
(* The invariant that connects the processes with the ledger.              *)

\* Some process or the broker holds the operation.
Known(o) ==
  \/ o \in queue
  \/ \E w \in Workers : job[w].id = o
  \/ \E t \in Tabs : tab[t].id = o
  \/ sweep.op = o

\* No process holds an operation that was not requested.
KnownRequested == \A o \in Ops : Known(o) => Requested(o)

EnvWorking == EnvSteps \ {"env_begin"}

\* A worker past begin_environment has its started event in the ledger.
WorkingStarted == \A w \in Workers : job[w].pc \in EnvWorking => ops[job[w].id].started

\* Two workers are never past the admission of the same operation.
OneEnvWorker ==
  \A v, w \in Workers :
    job[v].pc \in EnvWorking /\ job[w].pc \in EnvWorking /\ job[v].id = job[w].id => v = w

\* While its operation is open, the restart_count a worker copied is current.
CopyCurrent ==
  \A w \in Workers :
    job[w].pc \in EnvWorking /\ Open(job[w].id) => job[w].restarts = row.restarts

\* The operation the cleanup command closes is its own.
SweepAdmitted ==
  sweep.pc \in {"remove", "refresh", "save"} =>
    ops[sweep.op].kind = "cleanup" /\ ops[sweep.op].started

\* The inductive invariant: the ledger's own, and what ties the processes to it.
OpInv ==
  /\ TypeInv
  /\ LedgerInv
  /\ KnownRequested
  /\ WorkingStarted
  /\ OneEnvWorker
  /\ CopyCurrent
  /\ SweepAdmitted

-----------------------------------------------------------------------------
(* What one step does, as far as the invariant is concerned.               *)

\* The step is one of the abstract ledger's, or leaves the ledger alone.
LedgerMoves == [L!Next]_(L!ledgerVars)

\* A process learns of an operation from another one, or requests it.
KnownMoves == \A o \in Ops : Known(o)' => Known(o) \/ Requested(o)'

\* The worker passes begin_environment in this step.
Admission(w) ==
  /\ job'[w].id = job[w].id
  /\ job[w].id \in Ops
  /\ ~ops[job[w].id].started
  /\ ops'[job[w].id].started
  /\ job'[w].restarts = row'.restarts
  /\ \A v \in Workers \ {w} : job'[v] = job[v]

\* A worker past begin_environment was there before, with the same operation
\* and the same copy, or has just been admitted.
JobMoves ==
  \A w \in Workers :
    \/ job'[w].pc \notin EnvWorking
    \/ /\ job[w].pc \in EnvWorking
       /\ job'[w].id = job[w].id
       /\ job'[w].restarts = job[w].restarts
    \/ Admission(w)

SweepSteps == {"remove", "refresh", "save"}

\* The cleanup command keeps its operation, or has just registered one.
SweepMoves ==
  sweep'.pc \in SweepSteps =>
    \/ sweep.pc \in SweepSteps /\ sweep'.op = sweep.op
    \/ ops'[sweep'.op].kind = "cleanup" /\ ops'[sweep'.op].started

\* A step of the system, seen from the ledger of operations.
Moves == LedgerMoves /\ KnownMoves /\ JobMoves /\ SweepMoves

\* What the events of a request make of an operation without events.
LEMMA Relabelled ==
  ASSUME NEW kind \in {"start", "reset", "cleanup"}, NEW r, r = L!Unrequested
  PROVE  /\ [r EXCEPT !.kind = kind]
              = [kind |-> kind, started |-> FALSE, outcome |-> "open"]
         /\ [r EXCEPT !.kind = kind, !.started = TRUE]
              = [kind |-> kind, started |-> TRUE, outcome |-> "open"]
<1> DEFINE a == [r EXCEPT !.kind = kind]
           b == [r EXCEPT !.kind = kind, !.started = TRUE]
           c == [kind |-> kind, started |-> FALSE, outcome |-> "open"]
           d == [kind |-> kind, started |-> TRUE, outcome |-> "open"]
<1>1. r \in Op /\ a \in Op /\ b \in Op
  BY DEF Op, L!Unrequested
<1>2. c \in Op /\ d \in Op
  BY DEF Op
<1>3. \A p, q \in Op :
        p.kind = q.kind /\ p.started = q.started /\ p.outcome = q.outcome => p = q
  BY DEF Op
<1>4. a.kind = c.kind /\ a.started = c.started /\ a.outcome = c.outcome
  BY DEF L!Unrequested
<1>5. b.kind = kind /\ b.started /\ b.outcome = "open"
  BY DEF L!Unrequested
<1>6. a = c
  BY <1>1, <1>2, <1>3, <1>4
<1>7. b = d
  BY <1>1, <1>2, <1>3, <1>5
<1>8. QED
  BY <1>6, <1>7

\* A step that changes neither the operations nor restart_count.
LEMMA LedgerUnchanged ==
  ASSUME UNCHANGED <<ops, row>>
  PROVE  LedgerMoves
BY DEF LedgerMoves, L!ledgerVars

\* finish of an operation that failed, was refused by the broker or was lost:
\* a step of the abstract ledger, whether it was still open or not.
LEMMA FinishUnknown ==
  ASSUME TypeInv, NEW o, ops' = FinishOp(o, "unknown"), row'.restarts = row.restarts
  PROVE  LedgerMoves
<1>1. CASE o \in Ops /\ Open(o)
  <2>1. ops' = L!CloseAll({o})
    BY <1>1 DEF FinishOp, L!CloseAll, TypeInv, TypeOK, Op
  <2>2. L!Close({o})
    BY <1>1, <2>1 DEF L!Close, L!Open, Open, Requested
  <2>3. QED
    BY <1>1, <2>2 DEF LedgerMoves, L!Next
<1>2. CASE ~(o \in Ops /\ Open(o))
  <2>1. ops' = ops
    BY <1>2 DEF FinishOp, TypeInv, TypeOK
  <2>2. QED
    BY <2>1 DEF LedgerMoves, L!ledgerVars
<1>3. QED
  BY <1>1, <1>2

\* interrupt closes what is open.
LEMMA Interrupted ==
  ASSUME TypeInv, ops' = InterruptOps, row'.restarts = row.restarts
  PROVE  LedgerMoves
<1> DEFINE S == {o \in Ops : Open(o)}
<1>1. ops' = L!CloseAll(S)
  BY DEF InterruptOps, L!CloseAll
<1>2. L!Close(S)
  BY <1>1 DEF L!Close, L!Open, Open, Requested
<1>3. S \in SUBSET Ops
  OBVIOUS
<1>4. QED
  BY <1>2, <1>3 DEF LedgerMoves, L!Next

\* The error handlers of environments.py.
LEMMA ErrorMarked ==
  ASSUME TypeInv, NEW closed, MarkEnvironmentError(closed),
         closed = ops \/ \E o : closed = FinishOp(o, "unknown")
  PROVE  LedgerMoves
<1>1. row'.restarts = row.restarts
  BY DEF MarkEnvironmentError, TypeInv, TypeOK, Row
<1>2. CASE ops' = InterruptOps
  BY <1>1, <1>2, Interrupted
<1>3. CASE ops' = closed
  BY <1>1, <1>3, FinishUnknown DEF LedgerMoves, L!ledgerVars
<1>4. QED
  BY <1>2, <1>3 DEF MarkEnvironmentError

\* The web process.
LEMMA WebMoves ==
  ASSUME OpInv, NEW t \in Tabs, Web(t)
  PROVE  Moves
<1> USE DEF OpInv, TypeInv, TypeOK
<1>1. UNCHANGED <<job, sweep>>
  BY DEF Web, StartTask, RestartTask, TryMarkStarting, TryMarkRestarting, TryMark,
         SendEnvironment, SendEnvironmentFails, CheckTask, TryMarkCheckRunning,
         SendCheck, SendCheckFails, WebCrash
<1>2. JobMoves /\ SweepMoves
  BY <1>1 DEF JobMoves, SweepMoves
<1>3. ASSUME queue' \subseteq queue \cup {tab[t].id},
             \A u \in Tabs : tab'[u].id \in {tab[u].id, None} \cup Runs
      PROVE  KnownMoves
  BY <1>1, <1>3, DistinctIds DEF KnownMoves, Known
<1>4. ASSUME LedgerMoves, KnownMoves
      PROVE  Moves
  BY <1>2, <1>4 DEF Moves
<1>5. CASE StartTask(t) \/ RestartTask(t) \/ CheckTask(t)
  <2>1. KnownMoves
    BY <1>3, <1>5 DEF StartTask, RestartTask, CheckTask, Tab
  <2>2. LedgerMoves
    BY <1>5, LedgerUnchanged DEF StartTask, RestartTask, CheckTask
  <2>3. QED
    BY <1>4, <2>1, <2>2
<1>6. ASSUME NEW kind \in {"start", "reset"}, NEW marked, TryMark(t, kind, marked),
             marked.restarts = row.restarts
      PROVE  Moves
  <2>1. PICK o \in Ops :
          /\ ~Requested(o)
          /\ \/ /\ ops' = [ops EXCEPT ![o].kind = kind]
                /\ row' = marked
                /\ tab' = [tab EXCEPT ![t] = [pc |-> "send_env", id |-> o]]
             \/ /\ ops' = [ops EXCEPT ![o].kind = kind, ![o].outcome = "not_started"]
                /\ tab' = [tab EXCEPT ![t] = NoTab]
                /\ UNCHANGED row
          /\ UNCHANGED queue
    BY <1>6 DEF TryMark
  <2>2. ops[o] = L!Unrequested
    BY <2>1 DEF LedgerInv, LedgerType, Requested
  <2>3. \E outcome \in {"open", "not_started"} : L!Request(o, kind, outcome)
    <3>1. CASE ops' = [ops EXCEPT ![o].kind = kind]
      <4>1. ops' = [ops EXCEPT ![o] = [kind |-> kind, started |-> FALSE, outcome |-> "open"]]
        <5>1. [ops[o] EXCEPT !.kind = kind]
                = [kind |-> kind, started |-> FALSE, outcome |-> "open"]
          BY <2>2, Relabelled
        <5>2. ops' = [ops EXCEPT ![o] = [ops[o] EXCEPT !.kind = kind]]
          BY <3>1
        <5>3. QED
          BY <5>1, <5>2
      <4>2. QED
        BY <1>6, <2>1, <2>2, <4>1 DEF L!Request, L!Unrequested
    <3>2. CASE ops' = [ops EXCEPT ![o].kind = kind, ![o].outcome = "not_started"]
      <4>1. ops' = [ops EXCEPT ![o] = [kind |-> kind, started |-> FALSE,
                                       outcome |-> "not_started"]]
        BY <2>2, <3>2 DEF L!Unrequested
      <4>2. QED
        BY <1>6, <2>1, <2>2, <4>1 DEF L!Request, L!Unrequested
    <3>3. QED
      BY <2>1, <3>1, <3>2
  <2>4. LedgerMoves
    BY <2>3 DEF LedgerMoves, L!Next
  <2>5. Requested(o)'
    BY <2>1 DEF Requested, Op
  <2>6. \A u \in Tabs : tab'[u].id \in {tab[u].id, o, None}
    BY <2>1 DEF NoTab, Tab
  <2>7. KnownMoves
    BY <1>1, <2>1, <2>5, <2>6, DistinctIds DEF KnownMoves, Known
  <2>8. QED
    BY <1>4, <2>4, <2>7
<1>7. CASE TryMarkStarting(t)
  <2>1. [row EXCEPT !.env = "starting"].restarts = row.restarts
    BY DEF Row
  <2>2. QED
    BY <1>6, <1>7, <2>1 DEF TryMarkStarting
<1>8. CASE TryMarkRestarting(t)
  <2>1. [row EXCEPT !.env = "restarting", !.check = "idle"].restarts = row.restarts
    BY DEF Row
  <2>2. QED
    BY <1>6, <1>8, <2>1 DEF TryMarkRestarting
<1>9. CASE SendEnvironment(t) \/ SendCheck(t) \/ WebCrash(t)
  <2>1. KnownMoves
    BY <1>3, <1>9 DEF SendEnvironment, SendCheck, WebCrash, NoTab
  <2>2. LedgerMoves
    BY <1>9, LedgerUnchanged DEF SendEnvironment, SendCheck, WebCrash
  <2>3. QED
    BY <1>4, <2>1, <2>2
<1>10. CASE SendEnvironmentFails(t)
  <2>1. KnownMoves
    BY <1>3, <1>10 DEF SendEnvironmentFails, NoTab
  <2>2. LedgerMoves
    BY <1>10, ErrorMarked DEF SendEnvironmentFails
  <2>3. QED
    BY <1>4, <2>1, <2>2
<1>11. CASE TryMarkCheckRunning(t) \/ SendCheckFails(t)
  <2>1. \A u \in Tabs : tab'[u].id \in {tab[u].id, None} \cup Runs
    BY <1>11 DEF TryMarkCheckRunning, SendCheckFails, NoTab
  <2>2. KnownMoves
    BY <1>3, <1>11, <2>1 DEF TryMarkCheckRunning, SendCheckFails
  <2>3. row'.restarts = row.restarts /\ UNCHANGED ops
    BY <1>11 DEF TryMarkCheckRunning, SendCheckFails, MarkCheckError, Row
  <2>4. LedgerMoves
    BY <2>3 DEF LedgerMoves, L!ledgerVars
  <2>5. QED
    BY <1>4, <2>2, <2>4
<1>12. QED
  BY <1>5, <1>7, <1>8, <1>9, <1>10, <1>11 DEF Web

\* The worker of an environment operation.
LEMMA EnvWorkerMoves ==
  ASSUME OpInv, NEW w \in Workers, EnvWorker(w)
  PROVE  Moves
<1> USE DEF OpInv, TypeInv, TypeOK
<1>1. UNCHANGED <<queue, tab, sweep>>
  BY DEF EnvWorker, EnvBegin, EnvRaise, EnvRemove, EnvCreate, EnvTerminal, EnvDockerError,
         EnvCommit, EnvCommitFails, EnvFail, EnvLatest, EnvError
<1>2. SweepMoves
  BY <1>1 DEF SweepMoves
<1>3. ASSUME \A v \in Workers : job'[v].id \in {job[v].id, None}
      PROVE  KnownMoves
  BY <1>1, <1>3, DistinctIds DEF KnownMoves, Known
<1>4. ASSUME LedgerMoves, KnownMoves, JobMoves
      PROVE  Moves
  BY <1>2, <1>4 DEF Moves
<1>5. ASSUME NEW pc \in EnvSteps, job[w].pc \in EnvWorking, job' = [job EXCEPT ![w].pc = pc]
      PROVE  KnownMoves /\ JobMoves
  <2>1. KnownMoves
    BY <1>3, <1>5 DEF Job
  <2>2. JobMoves
    BY <1>5 DEF JobMoves, Job
  <2>3. QED
    BY <2>1, <2>2
<1>6. ASSUME job' = [job EXCEPT ![w] = NoJob]
      PROVE  KnownMoves /\ JobMoves
  <2>1. KnownMoves
    BY <1>3, <1>6 DEF NoJob
  <2>2. JobMoves
    BY <1>6 DEF JobMoves, NoJob, EnvWorking, EnvSteps
  <2>3. QED
    BY <2>1, <2>2
<1>7. CASE EnvBegin(w)
  <2> DEFINE o == job[w].id
  <2>1. o \in Ops /\ Requested(o) /\ row' = row
    BY <1>7 DEF EnvBegin, IdsOK, EnvSteps, KnownRequested, Known
  <2>2. CASE Delivered(o)
    <3>1. job' = [job EXCEPT ![w] = NoJob] /\ UNCHANGED <<ops, row>>
      BY <1>7, <2>2 DEF EnvBegin
    <3>2. QED
      BY <1>4, <1>6, <3>1, LedgerUnchanged
  <2>3. CASE ~Delivered(o) /\ OtherOpen(o)
    <3>1. job' = [job EXCEPT ![w] = NoJob] /\ ops' = FinishOp(o, "not_started")
      BY <1>7, <2>3 DEF EnvBegin
    <3>2. L!Open(o) /\ ~ops[o].started /\ ~L!Alone(o)
      BY <2>1, <2>3 DEF Delivered, OtherOpen, L!Open, L!Alone, Open, Requested
    <3>3. L!Refuse(o)
      BY <2>1, <3>1, <3>2 DEF L!Refuse, L!Open, FinishOp, Open, Requested
    <3>4. LedgerMoves
      BY <2>1, <3>3 DEF LedgerMoves, L!Next
    <3>5. QED
      BY <1>4, <1>6, <3>1, <3>4
  <2>4. CASE ~Delivered(o) /\ ~OtherOpen(o)
    <3>1. /\ ops' = [ops EXCEPT ![o].started = TRUE]
          /\ job' = [job EXCEPT ![w].pc = IF ops[o].kind = "reset" THEN "env_remove"
                                                                   ELSE "env_create",
                                ![w].restarts = row.restarts,
                                ![w].container = row.container]
      BY <1>7, <2>4 DEF EnvBegin
    <3>2. L!Open(o) /\ ~ops[o].started /\ L!Alone(o)
      BY <2>1, <2>4 DEF Delivered, OtherOpen, L!Open, L!Alone, Open, Requested
    <3>3. L!Admit(o)
      BY <2>1, <3>1, <3>2 DEF L!Admit
    <3>4. LedgerMoves
      BY <2>1, <3>3 DEF LedgerMoves, L!Next
    <3>5. /\ job'[w].id = job[w].id
          /\ job'[w].restarts = row.restarts
          /\ \A v \in Workers \ {w} : job'[v] = job[v]
      BY <3>1 DEF Job
    <3>6. ops'[o].started
      BY <2>1, <3>1 DEF Op
    <3>7. KnownMoves
      BY <1>3, <3>5
    <3>8. Admission(w)
      BY <2>1, <3>2, <3>5, <3>6 DEF Admission
    <3>9. JobMoves
      BY <3>5, <3>8 DEF JobMoves
    <3>10. QED
      BY <1>4, <3>4, <3>7, <3>9
  <2>5. QED
    BY <2>2, <2>3, <2>4
<1>8. CASE EnvRemove(w) \/ EnvCreate(w) \/ EnvTerminal(w) \/ EnvDockerError(w) \/ EnvCommitFails(w)
  <2>1. UNCHANGED <<ops, row>>
    BY <1>8 DEF EnvRemove, EnvCreate, EnvTerminal, EnvDockerError, EnvCommitFails, EnvRaise
  <2>2. job[w].pc \in EnvWorking /\ \E pc \in EnvSteps : job' = [job EXCEPT ![w].pc = pc]
    BY <1>8 DEF EnvRemove, EnvCreate, EnvTerminal, EnvDockerError, EnvCommitFails, EnvRaise,
                EnvWorking, EnvSteps
  <2>3. QED
    BY <1>4, <1>5, <2>1, <2>2, LedgerUnchanged
<1>9. CASE EnvCommit(w)
  <2> DEFINE o == job[w].id
  <2>1. job[w].pc \in EnvWorking /\ o \in Ops
    BY <1>9 DEF EnvCommit, EnvWorking, EnvSteps, IdsOK
  <2>2. Open(o) /\ ops[o].started
    BY <1>9, <2>1 DEF EnvCommit, EnvironmentLive, Open, KnownRequested, Known, WorkingStarted
  <2>3. job[w].restarts = row.restarts
    BY <2>1, <2>2 DEF CopyCurrent
  <2>4. row'.restarts = IF ops[o].kind = "reset" THEN row.restarts + 1 ELSE row.restarts
    <3>1. row' = ReadyRow(ops[o].kind, row.restarts)
      BY <1>9, <2>3 DEF EnvCommit
    <3>2. QED
      BY <3>1 DEF ReadyRow, Restarted, Row
  <2>5. ops' = [ops EXCEPT ![o].outcome = "success"]
    BY <1>9, <2>2 DEF EnvCommit, FinishOp
  <2>6. L!Succeed(o)
    BY <2>2, <2>4, <2>5 DEF L!Succeed, L!MaySucceed, L!Admitted, L!Open, Open, Requested
  <2>7. LedgerMoves
    BY <2>1, <2>6 DEF LedgerMoves, L!Next
  <2>8. QED
    BY <1>4, <1>6, <1>9, <2>7 DEF EnvCommit
<1>10. CASE EnvFail(w)
  <2>1. LedgerMoves
    BY <1>10, FinishUnknown DEF EnvFail
  <2>2. QED
    BY <1>4, <1>5, <1>10, <2>1 DEF EnvFail, EnvWorking, EnvSteps
<1>11. CASE EnvLatest(w)
  <2>1. LedgerMoves
    BY <1>11, LedgerUnchanged DEF EnvLatest
  <2>2. CASE lastOp = job[w].id
    <3>1. job' = [job EXCEPT ![w].pc = "env_error"]
      BY <1>11, <2>2 DEF EnvLatest
    <3>2. QED
      BY <1>4, <1>5, <1>11, <2>1, <3>1 DEF EnvLatest, EnvWorking, EnvSteps
  <2>3. CASE lastOp # job[w].id
    <3>1. job' = [job EXCEPT ![w] = NoJob]
      BY <1>11, <2>3 DEF EnvLatest
    <3>2. QED
      BY <1>4, <1>6, <2>1, <3>1
  <2>4. QED
    BY <2>2, <2>3
<1>12. CASE EnvError(w)
  <2>1. LedgerMoves
    BY <1>12, ErrorMarked DEF EnvError
  <2>2. QED
    BY <1>4, <1>6, <1>12, <2>1 DEF EnvError
<1>13. QED
  BY <1>7, <1>8, <1>9, <1>10, <1>11, <1>12 DEF EnvWorker

\* The worker of a check does not touch environment operations.
LEMMA CheckWorkerMoves ==
  ASSUME OpInv, NEW w \in Workers, CheckWorker(w)
  PROVE  Moves
<1> USE DEF OpInv, TypeInv, TypeOK
<1>1. UNCHANGED <<ops, queue, tab, sweep>>
  BY DEF CheckWorker, CheckGuard, CheckBegin, CheckLoad, CheckExec, CheckTeardown, CheckRaise,
         CheckCommit, CheckFail, CheckError
<1>2. row'.restarts = row.restarts
  <2>1. CASE CheckCommit(w)
    BY <2>1 DEF CheckCommit, CheckedRow, Row
  <2>2. CASE CheckError(w)
    BY <2>2 DEF CheckError, MarkCheckError, Row
  <2>3. CASE row' = row
    BY <2>3
  <2>4. QED
    BY <2>1, <2>2, <2>3 DEF CheckWorker, CheckGuard, CheckBegin, CheckLoad, CheckExec, CheckTeardown,
                            CheckRaise, CheckFail
<1>3. \A v \in Workers \ {w} : job'[v] = job[v]
  BY DEF CheckWorker, CheckGuard, CheckBegin, CheckLoad, CheckExec, CheckTeardown, CheckRaise,
         CheckCommit, CheckFail, CheckError
<1>4. job'[w].pc \notin EnvWorking /\ job'[w].id \in {job[w].id, None}
  <2> USE DEF EnvWorking, EnvSteps
  <2>1. ASSUME job' = [job EXCEPT ![w] = NoJob]
        PROVE  job'[w].pc \notin EnvWorking /\ job'[w].id \in {job[w].id, None}
    BY <2>1 DEF NoJob
  <2>2. ASSUME NEW pc \in CheckSteps, job' = [job EXCEPT ![w].pc = pc]
        PROVE  job'[w].pc \notin EnvWorking /\ job'[w].id \in {job[w].id, None}
    BY <2>2 DEF CheckSteps, Job
  <2>3. CASE CheckBegin(w) \/ CheckFail(w)
    BY <2>1, <2>2, <2>3 DEF CheckBegin, CheckFail, CheckSteps
  <2>4. CASE CheckGuard(w)
    <3>1. job' = [job EXCEPT ![w] = NoJob] \/ job' = [job EXCEPT ![w].pc = "check_begin"]
      BY <2>4 DEF CheckGuard
    <3>2. QED
      BY <2>1, <2>2, <3>1 DEF CheckSteps
  <2>5. CASE CheckLoad(w)
    BY <2>5 DEF CheckLoad, Job, NoJob
  <2>6. CASE CheckExec(w) \/ CheckTeardown(w)
    BY <2>6 DEF CheckExec, CheckTeardown, Job
  <2>7. CASE CheckCommit(w) \/ CheckError(w)
    BY <2>1, <2>7 DEF CheckCommit, CheckError
  <2>8. CASE CheckRaise(w)
    <3>1. job'[w] = [NoJob EXCEPT !.pc = "check_fail", !.id = job[w].id]
      BY <2>8 DEF CheckRaise
    <3>2. QED
      BY <3>1 DEF NoJob
  <2>9. QED
    BY <2>3, <2>4, <2>5, <2>6, <2>7, <2>8 DEF CheckWorker
<1>5. LedgerMoves
  BY <1>1, <1>2 DEF LedgerMoves, L!ledgerVars
<1>6. KnownMoves
  BY <1>1, <1>3, <1>4, DistinctIds DEF KnownMoves, Known
<1>7. JobMoves
  BY <1>3, <1>4 DEF JobMoves
<1>8. QED
  BY <1>1, <1>5, <1>6, <1>7 DEF Moves, SweepMoves

\* The broker moves known ids between its queue and the workers.
LEMMA BrokerMoves ==
  ASSUME OpInv, NEW w \in Workers, Broker(w)
  PROVE  Moves
<1> USE DEF OpInv, TypeInv, TypeOK
<1>1. UNCHANGED <<ops, row, tab, sweep>>
  BY DEF Broker, Deliver, Redeliver, WorkerCrash
<1>2. \A v \in Workers \ {w} : job'[v] = job[v]
  BY DEF Broker, Deliver, Redeliver, WorkerCrash
<1>3. /\ job'[w] = job[w] \/ job'[w].pc \notin EnvWorking
      /\ job'[w].id \in {job[w].id, None} \cup queue
      /\ queue' \subseteq queue \cup {job[w].id}
  <2>1. CASE Deliver(w)
    BY <2>1 DEF Deliver, Job, EnvWorking, EnvSteps
  <2>2. CASE Redeliver(w)
    BY <2>2 DEF Redeliver
  <2>3. CASE WorkerCrash(w)
    BY <2>3 DEF WorkerCrash, NoJob, EnvWorking, EnvSteps
  <2>4. QED
    BY <2>1, <2>2, <2>3 DEF Broker
<1>4. LedgerMoves
  BY <1>1, LedgerUnchanged
<1>5. KnownMoves
  BY <1>1, <1>2, <1>3, DistinctIds DEF KnownMoves, Known
<1>6. JobMoves
  BY <1>2, <1>3 DEF JobMoves
<1>7. QED
  BY <1>1, <1>4, <1>5, <1>6 DEF Moves, SweepMoves

\* The watchdog.
LEMMA WatchdogMoves ==
  ASSUME OpInv, Watchdog
  PROVE  Moves
<1> USE DEF OpInv, TypeInv, TypeOK
<1>1. UNCHANGED <<queue, job, tab, sweep>>
  BY DEF Watchdog, DogSelectEnvironment, DogSelectCheck, DogMarkEnvironment, DogMarkCheck
<1>2. KnownMoves /\ JobMoves /\ SweepMoves
  BY <1>1 DEF KnownMoves, Known, JobMoves, SweepMoves
<1>3. CASE UNCHANGED <<ops, row>>
  BY <1>2, <1>3, LedgerUnchanged DEF Moves
<1>4. CASE ops' = InterruptOps /\ row'.restarts = row.restarts
  BY <1>2, <1>4, Interrupted DEF Moves
<1>5. CASE DogMarkEnvironment
  BY <1>3, <1>4, <1>5 DEF DogMarkEnvironment, Row
<1>6. CASE DogMarkCheck
  BY <1>3, <1>4, <1>6 DEF DogMarkCheck, Row
<1>7. QED
  BY <1>3, <1>5, <1>6 DEF Watchdog, DogSelectEnvironment, DogSelectCheck

\* The cleanup command.
LEMMA CleanupMoves ==
  ASSUME OpInv, Cleanup
  PROVE  Moves
<1> USE DEF OpInv, TypeInv, TypeOK
<1>1. UNCHANGED <<queue, job, tab>>
  BY DEF Cleanup, SweepSelectUnfinished, SweepSelectPassed, SweepRequest, SweepRemove,
         SweepRefresh, SweepSave, SweepDies
<1>2. JobMoves
  BY <1>1 DEF JobMoves
<1>3. ASSUME sweep'.op \in {sweep.op, None}
      PROVE  KnownMoves
  BY <1>1, <1>3, DistinctIds DEF KnownMoves, Known
<1>4. CASE SweepSelectUnfinished \/ SweepSelectPassed \/ SweepDies
  <2>1. sweep'.op = None /\ sweep'.pc \notin SweepSteps
    <3>1. CASE SweepSelectUnfinished
      BY <3>1 DEF SweepSelectUnfinished, NoSweep, SweepSteps
    <3>2. CASE SweepSelectPassed
      BY <3>2 DEF SweepSelectPassed, NoSweep, SweepSteps
    <3>3. CASE SweepDies
      BY <3>3 DEF SweepDies, NoSweep, SweepSteps
    <3>4. QED
      BY <1>4, <3>1, <3>2, <3>3
  <2>2. LedgerMoves
    BY <1>4, LedgerUnchanged DEF SweepSelectUnfinished, SweepSelectPassed, SweepDies
  <2>3. QED
    BY <1>2, <1>3, <2>1, <2>2 DEF Moves, SweepMoves
<1>5. CASE SweepRemove \/ SweepRefresh
  <2>1. sweep'.op = sweep.op /\ sweep.pc \in SweepSteps
    BY <1>5 DEF SweepRemove, SweepRefresh, Sweep, SweepSteps
  <2>2. LedgerMoves
    BY <1>5, LedgerUnchanged DEF SweepRemove, SweepRefresh
  <2>3. QED
    BY <1>2, <1>3, <2>1, <2>2 DEF Moves, SweepMoves
<1>6. CASE SweepRequest
  <2>1. PICK o \in Ops :
          /\ ~Requested(o)
          /\ ops' = [InterruptOps EXCEPT ![o].kind = "cleanup", ![o].started = TRUE]
          /\ sweep' = [sweep EXCEPT !.pc = "remove", !.op = o]
          /\ row' = row
    BY <1>6 DEF SweepRequest
  <2>2. ops[o] = L!Unrequested
    BY <2>1 DEF LedgerInv, LedgerType, Requested
  <2>3. InterruptOps[o] = L!Unrequested
    BY <2>1, <2>2 DEF InterruptOps, Open
  <2>4. ops' = [InterruptOps EXCEPT ![o] = [kind |-> "cleanup", started |-> TRUE,
                                            outcome |-> "open"]]
    <3>1. ops' = [InterruptOps EXCEPT ![o] =
                    [InterruptOps[o] EXCEPT !.kind = "cleanup", !.started = TRUE]]
      BY <2>1
    <3>2. [InterruptOps[o] EXCEPT !.kind = "cleanup", !.started = TRUE]
            = [kind |-> "cleanup", started |-> TRUE, outcome |-> "open"]
      BY <2>3, Relabelled
    <3>3. QED
      BY <3>1, <3>2
  <2>5. InterruptOps = L!CloseAll({p \in Ops : L!Open(p)})
    BY DEF InterruptOps, L!CloseAll, L!Open, Open, Requested
  <2>6. L!Cleanup(o)
    <3>1. ops' = L!CleanupEvents(o)
      BY <2>4, <2>5 DEF L!CleanupEvents
    <3>2. QED
      BY <2>1, <2>2, <3>1 DEF L!Cleanup, L!Unrequested
  <2>7. LedgerMoves
    BY <2>6 DEF LedgerMoves, L!Next
  <2>8. ops'[o].kind = "cleanup" /\ ops'[o].started
    BY <2>4 DEF InterruptOps
  <2>9. sweep'.op = o
    BY <2>1 DEF Sweep
  <2>10. KnownMoves
    BY <1>1, <2>8, <2>9 DEF KnownMoves, Known, Requested
  <2>11. QED
    BY <1>2, <2>7, <2>8, <2>9, <2>10 DEF Moves, SweepMoves
<1>7. CASE SweepSave
  <2> DEFINE o == sweep.op
  <2>1. o \in Ops /\ ops[o].kind = "cleanup" /\ ops[o].started
    BY <1>7 DEF SweepSave, IdsOK, SweepAdmitted
  <2>2. row'.restarts = row.restarts
    BY <1>7 DEF SweepSave, SweptRow, Row
  <2>3. sweep' = NoSweep /\ ops' = FinishOp(o, "success")
    BY <1>7 DEF SweepSave
  <2>4. ASSUME Open(o) PROVE LedgerMoves
    <3>1. L!Succeed(o)
      BY <2>1, <2>2, <2>3, <2>4 DEF L!Succeed, L!MaySucceed, L!Admitted, L!Open, FinishOp, Open
    <3>2. QED
      BY <2>1, <3>1 DEF LedgerMoves, L!Next
  <2>5. ASSUME ~Open(o) PROVE LedgerMoves
    BY <2>2, <2>3, <2>5 DEF LedgerMoves, L!ledgerVars, FinishOp
  <2>6. QED
    BY <1>2, <1>3, <2>3, <2>4, <2>5 DEF Moves, SweepMoves, NoSweep, SweepSteps
<1>8. QED
  BY <1>4, <1>5, <1>6, <1>7 DEF Cleanup

-----------------------------------------------------------------------------
(* The invariant is inductive.                                             *)

\* Every step of the system is one of these moves.
LEMMA NextMoves ==
  ASSUME OpInv, [Next]_vars
  PROVE  Moves
<1>1. CASE Next
  BY <1>1, WebMoves, EnvWorkerMoves, CheckWorkerMoves, BrokerMoves, WatchdogMoves,
     CleanupMoves DEF Next
<1>2. CASE UNCHANGED vars
  <2>1. LedgerMoves
    BY <1>2, LedgerUnchanged DEF vars
  <2>2. QED
    BY <1>2, <2>1 DEF vars, Moves, KnownMoves, Known, JobMoves, SweepMoves
<1>3. QED
  BY <1>1, <1>2

\* The moves preserve the invariant, whichever action made them.
LEMMA MovesPreserve ==
  ASSUME OpInv, TypeInv', Moves
  PROVE  OpInv'
<1> USE DEF OpInv, TypeInv, TypeOK
<1>1. LedgerType /\ LedgerMoves
  BY DEF LedgerInv, Moves
<1>2. LedgerType' /\ AppendOnly
  BY <1>1, LedgerStep DEF LedgerMoves
<1>3. LedgerInv'
  BY <1>1, <1>2, SameCardinality, AdmissionStep, CounterStep DEF LedgerMoves, LedgerInv
<1>4. KnownRequested'
  BY <1>2 DEF Moves, KnownMoves, KnownRequested, Requested, AppendOnly
<1>5. ASSUME NEW w \in Workers, job'[w].pc \in EnvWorking
      PROVE  /\ job[w].id \in Ops
             /\ job'[w].id = job[w].id
             /\ ops'[job[w].id].started
             /\ \/ Admission(w)
                \/ /\ job[w].pc \in EnvWorking
                   /\ job'[w].restarts = job[w].restarts
                   /\ ops[job[w].id].started
  BY <1>2, <1>5 DEF Moves, JobMoves, Admission, WorkingStarted, AppendOnly, IdsOK, EnvWorking
<1>6. WorkingStarted'
  BY <1>5 DEF WorkingStarted
<1>7. OneEnvWorker'
  <2>1. SUFFICES ASSUME NEW v \in Workers, NEW w \in Workers, v # w,
                        job'[v].pc \in EnvWorking, job'[w].pc \in EnvWorking,
                        job'[v].id = job'[w].id
                 PROVE  FALSE
    BY DEF OneEnvWorker
  <2>2. ~Admission(v) /\ ~Admission(w)
    BY <2>1, <1>5 DEF Admission, WorkingStarted
  <2>3. QED
    BY <1>5, <2>1, <2>2 DEF OneEnvWorker
<1>8. CopyCurrent'
  <2>1. SUFFICES ASSUME NEW w \in Workers, job'[w].pc \in EnvWorking, Open(job[w].id)',
                        job'[w].id = job[w].id, ~Admission(w)
                 PROVE  job'[w].restarts = row'.restarts
    BY <1>5 DEF CopyCurrent, Admission, Open, Requested
  <2>2. job[w].id \in Ops /\ job'[w].restarts = job[w].restarts /\ ops[job[w].id].started
        /\ job[w].pc \in EnvWorking
    BY <1>5, <2>1
  <2>3. L!Admitted(job[w].id)
    BY <1>1, <1>2, <2>1, <2>2 DEF L!Admitted, L!Open, Open, Requested, AppendOnly,
                                  KnownRequested, Known
  <2>4. row'.restarts = row.restarts
    <3>1. SUFFICES ASSUME row'.restarts # row.restarts PROVE FALSE
      OBVIOUS
    <3>2. PICK o \in Ops : L!Admitted(o) /\ ~L!Open(o)'
      BY <1>1, <3>1, SameCardinality, CounterMoves DEF LedgerMoves
    <3>3. o = job[w].id
      BY <2>2, <2>3, <3>2 DEF LedgerInv, L!AtMostOneAdmitted
    <3>4. QED
      BY <2>1, <3>2, <3>3 DEF L!Open, Open, Requested
  <2>5. QED
    BY <2>2, <2>3, <2>4 DEF CopyCurrent, L!Admitted, L!Open, Open, Requested
<1>9. SweepAdmitted'
  BY <1>2 DEF Moves, SweepMoves, SweepSteps, SweepAdmitted, AppendOnly, IdsOK
<1>10. QED
  BY <1>3, <1>4, <1>6, <1>7, <1>8, <1>9

\* A new attempt satisfies the invariant.
LEMMA OpInvInit ==
  ASSUME Init
  PROVE  OpInv
<1>1. TypeInv
  BY InitTypes
<1>2. L!Init
  BY DEF Init, L!Init, L!Unrequested
<1>3. LedgerInv
  BY <1>2, LedgerInit
<1>4. KnownRequested /\ WorkingStarted /\ OneEnvWorker /\ CopyCurrent /\ SweepAdmitted
  BY DistinctIds DEF Init, KnownRequested, Known, WorkingStarted, OneEnvWorker, CopyCurrent,
     SweepAdmitted, NoJob, NoTab, NoSweep, EnvWorking, EnvSteps
<1>5. QED
  BY <1>1, <1>3, <1>4 DEF OpInv

\* Every step preserves the invariant.
LEMMA OpInvStep ==
  ASSUME OpInv, [Next]_vars
  PROVE  OpInv'
<1>1. TypeInv'
  BY NextTypes DEF OpInv
<1>2. QED
  BY <1>1, NextMoves, MovesPreserve

-----------------------------------------------------------------------------
(* The theorems.                                                           *)

\* The processes of one attempt implement the ledger of its operations: for any
\* number of tabs, workers, operations and checks, and with every crash, repeated
\* delivery and maintenance command, what happens to SandboxEnvironmentEvent and
\* restart_count is a behaviour of OperationLedger.
THEOREM ImplementsLedger == Spec => LedgerImplemented
<1>1. Init => Ledger!Init
  BY DEF Init, Ledger!Init, Ledger!Unrequested
<1>2. OpInv /\ [Next]_vars => [Ledger!Next]_(Ledger!ledgerVars)
  <2>1. LedgerMoves => [Ledger!Next]_(Ledger!ledgerVars)
    BY DEF LedgerMoves, L!Next, Ledger!Next, L!ledgerVars, Ledger!ledgerVars,
      L!Request, Ledger!Request, L!Admit, Ledger!Admit, L!Refuse, Ledger!Refuse,
      L!Cleanup, Ledger!Cleanup, L!Succeed, Ledger!Succeed, L!Close, Ledger!Close,
      L!Open, Ledger!Open, L!Alone, Ledger!Alone, L!Admitted, Ledger!Admitted,
      L!MaySucceed, Ledger!MaySucceed, L!CloseAll, Ledger!CloseAll,
      L!CleanupEvents, Ledger!CleanupEvents
  <2>2. QED
    BY <2>1, NextMoves DEF Moves
<1>3. QED
  BY OpInvInit, OpInvStep, <1>1, <1>2, PTL DEF Spec, LedgerImplemented, Ledger!Spec

\* begin_environment, under all interleavings: at most one admitted operation of
\* the attempt is open.
THEOREM OneAdmitted == Spec => []OneAdmittedOperation
<1>1. OpInv => OneAdmittedOperation
  BY DEF OpInv, LedgerInv, L!AtMostOneAdmitted, L!Admitted, L!Open,
         OneAdmittedOperation, Admitted, Open, Requested
<1>2. QED
  BY OpInvInit, OpInvStep, <1>1, PTL DEF Spec

\* restart_count is the number of successful resets, although every worker
\* computes it from a copy that may be old when it is written.
THEOREM RestartCountCorrect == Spec => []RestartCountMatches
<1>1. OpInv => RestartCountMatches
  <2>1. SuccessfulResets = L!SuccessfulResets
    BY DEF SuccessfulResets, L!SuccessfulResets
  <2>2. QED
    BY <2>1, SameCardinality DEF OpInv, LedgerInv, L!RestartsCounted, RestartCountMatches
<1>2. QED
  BY OpInvInit, OpInvStep, <1>1, PTL DEF Spec

-----------------------------------------------------------------------------
(* The invariant that connects the processes with the runs.                *)

\* Some process or the broker holds the run.
RunKnown(r) ==
  \/ r \in queue
  \/ \E w \in Workers : job[w].id = r
  \/ \E t \in Tabs : tab[t].id = r

\* No process holds a run that was not requested.
RunsRequested == \A r \in Runs : RunKnown(r) => runs[r].requested

\* Only a finished event points to a CheckRun row.
StoredClosed == \A r \in Runs : runs[r].stored => runs[r].result # "open"

CheckWorking == CheckSteps \ {"check_guard", "check_begin"}

\* A worker past begin_check has its started event in the ledger.
CheckStarted == \A w \in Workers : job[w].pc \in CheckWorking => runs[job[w].id].started

\* Two workers are never past the admission of the same run.
OneCheckWorker ==
  \A v, w \in Workers :
    job[v].pc \in CheckWorking /\ job[w].pc \in CheckWorking /\ job[v].id = job[w].id => v = w

PassedRuns == {r \in Runs : runs[r].result = "passed"}
FailedRuns == {r \in Runs : runs[r].stored /\ runs[r].result # "passed"}

\* The inductive invariant.
RunInv ==
  /\ TypeInv
  /\ RunsRequested
  /\ StoredClosed
  /\ CheckStarted
  /\ OneCheckWorker
  /\ EvidenceMatches

-----------------------------------------------------------------------------
(* What one step does, as far as the invariant is concerned.               *)

\* Executions are only closed, and never as passed or with a CheckRun row.
RunsQuiet ==
  /\ checkRuns' = checkRuns
  /\ row'.passed = row.passed
  /\ \A r \in Runs :
       /\ runs'[r].stored = runs[r].stored
       /\ \/ runs'[r].result = runs[r].result
          \/ runs[r].result = "open" /\ runs'[r].result = "unknown"

\* The step stores a result, or leaves the evidence as it is.
EvidenceMoves == RunsQuiet \/ \E w \in Workers : CheckCommit(w)

\* Events are only added.
RunsGrow ==
  \A r \in Runs : /\ runs[r].requested => runs'[r].requested
                  /\ runs[r].started => runs'[r].started

\* A process learns of a run from another one, or requests it.
RunKnownMoves == \A r \in Runs : RunKnown(r)' => RunKnown(r) \/ runs'[r].requested

\* The worker passes begin_check in this step.
CheckAdmission(w) ==
  /\ job'[w].id = job[w].id
  /\ job[w].id \in Runs
  /\ ~runs[job[w].id].started
  /\ runs'[job[w].id].started
  /\ \A v \in Workers \ {w} : job'[v] = job[v]

\* A worker past begin_check was there before, with the same run, or has just
\* been admitted.
CheckJobMoves ==
  \A w \in Workers :
    \/ job'[w].pc \notin CheckWorking
    \/ job[w].pc \in CheckWorking /\ job'[w].id = job[w].id
    \/ CheckAdmission(w)

\* A step of the system, seen from the evidence of the checks.
RunMoves == EvidenceMoves /\ RunsGrow /\ RunKnownMoves /\ CheckJobMoves

\* interrupt, and finish_check without a result, leave the evidence as it is.
LEMMA ClosedQuietly ==
  ASSUME TypeInv, checkRuns' = checkRuns, row'.passed = row.passed,
         runs' = runs \/ runs' = InterruptRuns \/ \E r : runs' = FinishRun(r, "unknown", FALSE),
         StoredClosed
  PROVE  EvidenceMoves /\ RunsGrow
<1> USE DEF TypeInv, TypeOK
<1>1. CASE runs' = runs
  BY <1>1 DEF EvidenceMoves, RunsQuiet, RunsGrow
<1>2. CASE runs' = InterruptRuns
  BY <1>2 DEF EvidenceMoves, RunsQuiet, RunsGrow, InterruptRuns, RunOpen, Run
<1>3. CASE \E r : runs' = FinishRun(r, "unknown", FALSE)
  <2>1. PICK q : runs' = FinishRun(q, "unknown", FALSE)
    BY <1>3
  <2>2. CASE q \in Runs /\ RunOpen(q)
    <3>1. ~runs[q].stored
      BY <2>2 DEF StoredClosed, RunOpen
    <3>2. runs' = [runs EXCEPT ![q].result = "unknown", ![q].stored = FALSE]
      BY <2>1, <2>2 DEF FinishRun
    <3>3. \A r \in Runs \ {q} : runs'[r] = runs[r]
      BY <3>2
    <3>4. /\ runs'[q].result = "unknown" /\ runs'[q].stored = FALSE
          /\ runs'[q].requested = runs[q].requested
          /\ runs'[q].started = runs[q].started
      BY <2>2, <3>2 DEF Run
    <3>5. runs'[q].stored = runs[q].stored
      BY <2>2, <3>1, <3>4 DEF Run
    <3>6. QED
      BY <2>2, <3>3, <3>4, <3>5 DEF EvidenceMoves, RunsQuiet, RunsGrow, RunOpen
  <2>3. CASE ~(q \in Runs /\ RunOpen(q))
    <3>1. runs' = runs
      BY <2>1, <2>3 DEF FinishRun
    <3>2. QED
      BY <3>1 DEF EvidenceMoves, RunsQuiet, RunsGrow
  <2>4. QED
    BY <2>2, <2>3
<1>4. QED
  BY <1>1, <1>2, <1>3

\* The web process.
LEMMA WebRuns ==
  ASSUME RunInv, NEW t \in Tabs, Web(t)
  PROVE  RunMoves
<1> USE DEF RunInv, TypeInv, TypeOK
<1>1. UNCHANGED job /\ UNCHANGED checkRuns
  BY DEF Web, StartTask, RestartTask, TryMarkStarting, TryMarkRestarting, TryMark,
         SendEnvironment, SendEnvironmentFails, CheckTask, TryMarkCheckRunning,
         SendCheck, SendCheckFails, WebCrash
<1>2. CheckJobMoves
  BY <1>1 DEF CheckJobMoves
<1>3. ASSUME queue' \subseteq queue \cup {tab[t].id},
             \A u \in Tabs : tab'[u].id \in {tab[u].id, None} \cup Ops
      PROVE  RunKnownMoves
  BY <1>1, <1>3, DistinctIds DEF RunKnownMoves, RunKnown
<1>4. CASE StartTask(t) \/ RestartTask(t) \/ CheckTask(t)
  <2>1. RunKnownMoves
    BY <1>3, <1>4 DEF StartTask, RestartTask, CheckTask, Tab
  <2>2. QED
    BY <1>1, <1>2, <1>4, <2>1, ClosedQuietly DEF StartTask, RestartTask, CheckTask, RunMoves
<1>5. ASSUME NEW kind, NEW marked, marked.passed = row.passed, TryMark(t, kind, marked)
      PROVE  RunMoves
  <2>1. \A u \in Tabs : tab'[u].id \in {tab[u].id, None} \cup Ops
    BY <1>5 DEF TryMark, NoTab
  <2>2. RunKnownMoves
    BY <1>3, <1>5, <2>1 DEF TryMark
  <2>3. row'.passed = row.passed /\ runs' = runs
    BY <1>5 DEF TryMark
  <2>4. QED
    BY <1>1, <1>2, <2>2, <2>3, ClosedQuietly DEF RunMoves
<1>6. CASE TryMarkStarting(t) \/ TryMarkRestarting(t)
  <2>1. /\ [row EXCEPT !.env = "starting"].passed = row.passed
        /\ [row EXCEPT !.env = "restarting", !.check = "idle"].passed = row.passed
    BY DEF Row
  <2>2. QED
    BY <1>5, <1>6, <2>1 DEF TryMarkStarting, TryMarkRestarting
<1>7. CASE SendEnvironment(t) \/ SendCheck(t) \/ WebCrash(t)
  <2>1. RunKnownMoves
    BY <1>3, <1>7 DEF SendEnvironment, SendCheck, WebCrash, NoTab
  <2>2. QED
    BY <1>1, <1>2, <1>7, <2>1, ClosedQuietly DEF SendEnvironment, SendCheck, WebCrash, RunMoves
<1>8. CASE SendEnvironmentFails(t)
  <2>1. RunKnownMoves
    BY <1>3, <1>8 DEF SendEnvironmentFails, NoTab
  <2>2. row'.passed = row.passed /\ (runs' = runs \/ runs' = InterruptRuns)
    BY <1>8 DEF SendEnvironmentFails, MarkEnvironmentError, Row
  <2>3. QED
    BY <1>1, <1>2, <2>1, <2>2, ClosedQuietly DEF RunMoves
<1>9. CASE SendCheckFails(t)
  <2>1. RunKnownMoves
    BY <1>3, <1>9 DEF SendCheckFails, NoTab
  <2>2. row'.passed = row.passed
        /\ (runs' = runs \/ runs' = FinishRun(tab[t].id, "unknown", FALSE))
    BY <1>9 DEF SendCheckFails, MarkCheckError, Row
  <2>3. QED
    BY <1>1, <1>2, <2>1, <2>2, ClosedQuietly DEF RunMoves
<1>10. CASE TryMarkCheckRunning(t)
  <2>1. CASE CheckMarkWins
    <3>1. PICK r \in Runs :
            /\ runs' = [runs EXCEPT ![r].requested = TRUE]
            /\ tab' = [tab EXCEPT ![t] = [pc |-> "send_check", id |-> r]]
            /\ row' = [row EXCEPT !.attempts = @ + 1, !.status = "in_progress",
                                  !.check = "running"]
            /\ UNCHANGED queue
      BY <1>10, <2>1 DEF TryMarkCheckRunning
    <3>2. row'.passed = row.passed
      BY <3>1 DEF Row
    <3>3. /\ \A q \in Runs \ {r} : runs'[q] = runs[q]
          /\ runs'[r].requested
          /\ runs'[r].started = runs[r].started
          /\ runs'[r].stored = runs[r].stored
          /\ runs'[r].result = runs[r].result
      BY <3>1 DEF Run
    <3>4. EvidenceMoves /\ RunsGrow
      BY <1>1, <3>2, <3>3 DEF EvidenceMoves, RunsQuiet, RunsGrow
    <3>5. \A u \in Tabs : tab'[u].id \in {tab[u].id, r}
      BY <3>1
    <3>6. RunKnownMoves
      BY <1>1, <3>1, <3>3, <3>5 DEF RunKnownMoves, RunKnown
    <3>7. QED
      BY <1>2, <3>4, <3>6 DEF RunMoves
  <2>2. CASE ~CheckMarkWins
    <3>1. tab' = [tab EXCEPT ![t] = NoTab] /\ UNCHANGED <<row, runs, queue>>
      BY <1>10, <2>2 DEF TryMarkCheckRunning
    <3>2. RunKnownMoves
      BY <1>3, <3>1 DEF NoTab
    <3>3. QED
      BY <1>1, <1>2, <3>1, <3>2, ClosedQuietly DEF RunMoves
  <2>3. QED
    BY <2>1, <2>2
<1>11. QED
  BY <1>4, <1>6, <1>7, <1>8, <1>9, <1>10 DEF Web

\* The worker of an environment operation closes checks only when it fails.
LEMMA EnvWorkerRuns ==
  ASSUME RunInv, NEW w \in Workers, EnvWorker(w)
  PROVE  RunMoves
<1> USE DEF RunInv, TypeInv, TypeOK
<1>1. UNCHANGED <<checkRuns, queue, tab>>
  BY DEF EnvWorker, EnvBegin, EnvRemove, EnvCreate, EnvTerminal, EnvDockerError, EnvCommit,
         EnvCommitFails, EnvRaise, EnvFail, EnvLatest, EnvError
<1>2. \A v \in Workers \ {w} : job'[v] = job[v]
  BY DEF EnvWorker, EnvBegin, EnvRemove, EnvCreate, EnvTerminal, EnvDockerError, EnvCommit,
         EnvCommitFails, EnvRaise, EnvFail, EnvLatest, EnvError
<1>3. job'[w].pc \notin CheckWorking /\ job'[w].id \in {job[w].id, None}
  <2> USE DEF CheckWorking, CheckSteps
  <2>1. CASE job' = [job EXCEPT ![w] = NoJob]
    BY <2>1 DEF NoJob
  <2>2. CASE EnvBegin(w)
    BY <2>1, <2>2 DEF EnvBegin, Job
  <2>3. CASE \E pc \in EnvSteps : job' = [job EXCEPT ![w].pc = pc]
    BY <2>3 DEF EnvSteps, Job
  <2>4. CASE EnvLatest(w)
    <3>1. job' = [job EXCEPT ![w] = NoJob] \/ job' = [job EXCEPT ![w].pc = "env_error"]
      BY <2>4 DEF EnvLatest
    <3>2. QED
      BY <2>1, <2>3, <3>1 DEF EnvSteps
  <2>5. CASE EnvRemove(w) \/ EnvCreate(w) \/ EnvTerminal(w) \/ EnvFail(w)
    BY <2>3, <2>5 DEF EnvRemove, EnvCreate, EnvTerminal, EnvFail, EnvSteps
  <2>6. CASE EnvDockerError(w) \/ EnvCommitFails(w)
    BY <2>3, <2>6 DEF EnvDockerError, EnvCommitFails, EnvRaise, EnvSteps
  <2>7. CASE EnvCommit(w) \/ EnvError(w)
    BY <2>1, <2>7 DEF EnvCommit, EnvError
  <2>8. QED
    BY <2>2, <2>4, <2>5, <2>6, <2>7 DEF EnvWorker
<1>4. row'.passed = row.passed /\ (runs' = runs \/ runs' = InterruptRuns)
  <2>1. CASE EnvCommit(w)
    BY <2>1 DEF EnvCommit, ReadyRow, Row
  <2>2. CASE EnvError(w)
    BY <2>2 DEF EnvError, MarkEnvironmentError, Row
  <2>3. CASE UNCHANGED <<row, runs>>
    BY <2>3
  <2>4. QED
    BY <2>1, <2>2, <2>3 DEF EnvWorker, EnvBegin, EnvRemove, EnvCreate, EnvTerminal,
       EnvDockerError, EnvCommitFails, EnvRaise, EnvFail, EnvLatest
<1>5. RunKnownMoves
  BY <1>1, <1>2, <1>3, DistinctIds DEF RunKnownMoves, RunKnown
<1>6. CheckJobMoves
  BY <1>2, <1>3 DEF CheckJobMoves
<1>7. QED
  BY <1>1, <1>4, <1>5, <1>6, ClosedQuietly DEF RunMoves

\* The worker of a check: begin_check admits it once, and only its commit stores.
LEMMA CheckWorkerRuns ==
  ASSUME RunInv, NEW w \in Workers, CheckWorker(w)
  PROVE  RunMoves
<1> USE DEF RunInv, TypeInv, TypeOK
<1>1. UNCHANGED <<queue, tab>>
  BY DEF CheckWorker, CheckGuard, CheckBegin, CheckLoad, CheckExec, CheckTeardown, CheckRaise,
         CheckCommit, CheckFail, CheckError
<1>2. \A v \in Workers \ {w} : job'[v] = job[v]
  BY DEF CheckWorker, CheckGuard, CheckBegin, CheckLoad, CheckExec, CheckTeardown, CheckRaise,
         CheckCommit, CheckFail, CheckError
<1>3. job[w].id \in Runs
  BY DEF IdsOK, CheckSteps, CheckWorker, CheckGuard, CheckBegin, CheckLoad, CheckExec,
         CheckTeardown, CheckRaise, CheckCommit, CheckFail, CheckError
<1>4. ASSUME EvidenceMoves /\ RunsGrow, job'[w].id \in {job[w].id, None},
             \/ job'[w].pc \notin CheckWorking
             \/ job[w].pc \in CheckWorking /\ job'[w].id = job[w].id
             \/ CheckAdmission(w)
      PROVE  RunMoves
  <2>1. RunKnownMoves
    BY <1>1, <1>2, <1>4, DistinctIds DEF RunKnownMoves, RunKnown
  <2>2. CheckJobMoves
    BY <1>2, <1>4 DEF CheckJobMoves
  <2>3. QED
    BY <1>4, <2>1, <2>2 DEF RunMoves
<1>5. CASE CheckGuard(w)
  <2>1. job'[w].pc \in {"idle", "check_begin"} /\ job'[w].id \in {job[w].id, None}
    BY <1>5 DEF CheckGuard, NoJob, Job
  <2>2. EvidenceMoves /\ RunsGrow
    BY <1>5, ClosedQuietly DEF CheckGuard
  <2>3. QED
    BY <1>4, <2>1, <2>2 DEF CheckWorking, CheckSteps
<1>6. CASE CheckBegin(w)
  <2>1. CASE CheckDelivered(job[w].id)
    <3>1. job'[w] = NoJob /\ UNCHANGED <<row, runs, checkRuns>>
      BY <1>6, <2>1 DEF CheckBegin
    <3>2. QED
      BY <1>4, <3>1, ClosedQuietly DEF NoJob, CheckWorking, CheckSteps
  <2>2. CASE ~CheckDelivered(job[w].id)
    <3> DEFINE r == job[w].id
    <3>1. /\ runs' = [runs EXCEPT ![r].started = TRUE]
          /\ job' = [job EXCEPT ![w].pc = "check_load"]
          /\ UNCHANGED <<row, checkRuns>>
      BY <1>6, <2>2 DEF CheckBegin
    <3>2. /\ \A q \in Runs \ {r} : runs'[q] = runs[q]
          /\ runs'[r].started
          /\ runs'[r].requested = runs[r].requested
          /\ runs'[r].stored = runs[r].stored
          /\ runs'[r].result = runs[r].result
      BY <1>3, <3>1 DEF Run
    <3>3. EvidenceMoves /\ RunsGrow
      BY <3>1, <3>2 DEF EvidenceMoves, RunsQuiet, RunsGrow
    <3>4. job'[w].id = job[w].id
      BY <3>1 DEF Job
    <3>5. CheckAdmission(w)
      BY <1>2, <1>3, <2>2, <3>2, <3>4 DEF CheckAdmission, CheckDelivered
    <3>6. QED
      BY <1>4, <3>3, <3>4, <3>5
  <2>3. QED
    BY <2>1, <2>2
<1>7. CASE CheckLoad(w) \/ CheckExec(w) \/ CheckTeardown(w) \/ CheckRaise(w)
  <2>1. job[w].pc \in CheckWorking
    BY <1>7 DEF CheckLoad, CheckExec, CheckTeardown, CheckRaise, CheckWorking, CheckSteps
  <2>2. job'[w] = NoJob \/ job'[w].id = job[w].id
    <3>1. CASE CheckLoad(w)
      BY <3>1 DEF CheckLoad, Job
    <3>2. CASE CheckExec(w)
      BY <3>2 DEF CheckExec, Job
    <3>3. CASE CheckTeardown(w)
      BY <3>3 DEF CheckTeardown, Job
    <3>4. CASE CheckRaise(w)
      <4>1. job'[w] = [NoJob EXCEPT !.pc = "check_fail", !.id = job[w].id]
        BY <3>4 DEF CheckRaise
      <4>2. QED
        BY <4>1 DEF NoJob
    <3>5. QED
      BY <1>7, <3>1, <3>2, <3>3, <3>4
  <2>3. EvidenceMoves /\ RunsGrow
    BY <1>7, ClosedQuietly DEF CheckLoad, CheckExec, CheckTeardown, CheckRaise
  <2>4. QED
    BY <1>4, <2>1, <2>2, <2>3 DEF NoJob, CheckWorking, CheckSteps
<1>8. CASE CheckCommit(w)
  <2>1. job'[w] = NoJob
    BY <1>8 DEF CheckCommit
  <2>2. EvidenceMoves
    BY <1>8 DEF EvidenceMoves
  <2>3. RunsGrow
    BY <1>8 DEF CheckCommit, FinishRun, RunsGrow, Run
  <2>4. QED
    BY <1>4, <2>1, <2>2, <2>3 DEF NoJob, CheckWorking, CheckSteps
<1>9. CASE CheckFail(w) \/ CheckError(w)
  <2>1. job[w].pc \in CheckWorking /\ (job'[w] = NoJob \/ job'[w].id = job[w].id)
    <3>1. job[w].pc \in CheckWorking
      BY <1>9 DEF CheckFail, CheckError, CheckWorking, CheckSteps
    <3>2. CASE CheckFail(w)
      BY <3>1, <3>2 DEF CheckFail, Job
    <3>3. CASE CheckError(w)
      BY <3>1, <3>3 DEF CheckError
    <3>4. QED
      BY <1>9, <3>2, <3>3
  <2>2. /\ row'.passed = row.passed /\ checkRuns' = checkRuns
        /\ runs' = runs \/ runs' = FinishRun(job[w].id, "unknown", FALSE)
    BY <1>9 DEF CheckFail, CheckError, MarkCheckError, Row
  <2>3. EvidenceMoves /\ RunsGrow
    BY <2>2, ClosedQuietly
  <2>4. QED
    BY <1>4, <2>1, <2>3 DEF NoJob, CheckWorking, CheckSteps
<1>10. QED
  BY <1>5, <1>6, <1>7, <1>8, <1>9 DEF CheckWorker

\* The broker moves known ids between its queue and the workers.
LEMMA BrokerRuns ==
  ASSUME RunInv, NEW w \in Workers, Broker(w)
  PROVE  RunMoves
<1> USE DEF RunInv, TypeInv, TypeOK
<1>1. UNCHANGED <<runs, checkRuns, row, tab>>
  BY DEF Broker, Deliver, Redeliver, WorkerCrash
<1>2. \A v \in Workers \ {w} : job'[v] = job[v]
  BY DEF Broker, Deliver, Redeliver, WorkerCrash
<1>3. /\ job'[w] = job[w] \/ job'[w].pc \notin CheckWorking
      /\ job'[w].id \in {job[w].id, None} \cup queue
      /\ queue' \subseteq queue \cup {job[w].id}
  <2>1. CASE Deliver(w)
    BY <2>1 DEF Deliver, Job, CheckWorking, CheckSteps
  <2>2. CASE Redeliver(w)
    BY <2>2 DEF Redeliver
  <2>3. CASE WorkerCrash(w)
    BY <2>3 DEF WorkerCrash, NoJob, CheckWorking, CheckSteps
  <2>4. QED
    BY <2>1, <2>2, <2>3 DEF Broker
<1>4. RunKnownMoves
  BY <1>1, <1>2, <1>3, DistinctIds DEF RunKnownMoves, RunKnown
<1>5. CheckJobMoves
  BY <1>2, <1>3 DEF CheckJobMoves
<1>6. QED
  BY <1>1, <1>4, <1>5, ClosedQuietly DEF RunMoves

\* The watchdog and the cleanup command close runs, and store nothing.
LEMMA CronRuns ==
  ASSUME RunInv, Watchdog \/ Cleanup
  PROVE  RunMoves
<1> USE DEF RunInv, TypeInv, TypeOK
<1>1. UNCHANGED <<checkRuns, queue, job, tab>>
  BY DEF Watchdog, DogSelectEnvironment, DogSelectCheck, DogMarkEnvironment, DogMarkCheck,
         Cleanup, SweepSelectUnfinished, SweepSelectPassed, SweepRequest, SweepRemove,
         SweepRefresh, SweepSave, SweepDies
<1>2. RunKnownMoves /\ CheckJobMoves
  BY <1>1 DEF RunKnownMoves, RunKnown, CheckJobMoves
<1>3. row'.passed = row.passed /\ (runs' = runs \/ runs' = InterruptRuns)
  <2>1. CASE DogMarkEnvironment
    BY <2>1 DEF DogMarkEnvironment, Row
  <2>2. CASE DogMarkCheck
    BY <2>2 DEF DogMarkCheck, Row
  <2>3. CASE SweepRequest
    BY <2>3 DEF SweepRequest
  <2>4. CASE SweepSave
    BY <2>4 DEF SweepSave, SweptRow, Row
  <2>5. CASE UNCHANGED <<row, runs>>
    BY <2>5
  <2>6. QED
    BY <2>1, <2>2, <2>3, <2>4, <2>5 DEF Watchdog, DogSelectEnvironment, DogSelectCheck,
       Cleanup, SweepSelectUnfinished, SweepSelectPassed, SweepRemove, SweepRefresh, SweepDies
<1>4. QED
  BY <1>1, <1>2, <1>3, ClosedQuietly DEF RunMoves

-----------------------------------------------------------------------------
(* The invariant is inductive.                                             *)

\* Every step of the system is one of these moves.
LEMMA NextRuns ==
  ASSUME RunInv, [Next]_vars
  PROVE  RunMoves
<1>1. CASE Next
  BY <1>1, WebRuns, EnvWorkerRuns, CheckWorkerRuns, BrokerRuns, CronRuns DEF Next
<1>2. CASE UNCHANGED vars
  BY <1>2, ClosedQuietly DEF vars, RunInv, RunMoves, RunKnownMoves, RunKnown, CheckJobMoves
<1>3. QED
  BY <1>1, <1>2

\* A step that stores nothing leaves both sides of EvidenceMatches alone.
LEMMA QuietEvidence ==
  ASSUME TypeInv, StoredClosed, EvidenceMatches, RunsQuiet
  PROVE  StoredClosed' /\ EvidenceMatches'
<1> USE DEF TypeInv, TypeOK
<1>1. StoredClosed'
  BY DEF StoredClosed, RunsQuiet, Run
<1>2. PassedRuns' = PassedRuns
  BY DEF PassedRuns, RunsQuiet
<1>3. FailedRuns' = FailedRuns
  BY DEF FailedRuns, RunsQuiet, StoredClosed, Run
<1>4. checkRuns' = checkRuns /\ row'.passed = row.passed
  BY DEF RunsQuiet
<1>5. QED
  BY <1>1, <1>2, <1>3, <1>4 DEF EvidenceMatches, PassedRuns, FailedRuns

\* A commit stores one result, of a run that had none: the count and the set
\* grow by one together, and the row gets the pass with the first passed run.
LEMMA CommittedEvidence ==
  ASSUME RunInv, NEW w \in Workers, CheckCommit(w)
  PROVE  StoredClosed' /\ EvidenceMatches'
<1> USE DEF RunInv, TypeInv, TypeOK
<1> DEFINE r == job[w].id
           exit == job[w].exit
<1>1. r \in Runs /\ runs[r].requested /\ runs[r].result = "open" /\ ~runs[r].stored
  <2>1. r \in Runs
    BY DEF CheckCommit, IdsOK, CheckSteps
  <2>2. RunKnown(r)
    BY DEF RunKnown
  <2>3. QED
    BY <2>1, <2>2 DEF CheckCommit, CheckLive, RunsRequested, StoredClosed
<1>2. runs' = [runs EXCEPT ![r].result = CheckedResult(exit),
                           ![r].stored = exit \in {"zero", "one", "other"}]
  BY <1>1 DEF CheckCommit, FinishRun, RunOpen
<1>3. \A q \in Runs \ {r} : runs'[q] = runs[q]
  BY <1>2
<1>4. runs'[r].result = CheckedResult(exit)
  BY <1>1, <1>2 DEF Run
<1>5. runs'[r].stored <=> exit \in {"zero", "one", "other"}
  BY <1>1, <1>2 DEF Run
<1>6. StoredClosed'
  BY <1>1, <1>3, <1>4 DEF StoredClosed, CheckedResult
<1>7. IsFiniteSet(PassedRuns) /\ IsFiniteSet(FailedRuns)
  BY FiniteIds, FS_Subset DEF PassedRuns, FailedRuns
<1>8. r \notin PassedRuns /\ r \notin FailedRuns
  BY <1>1 DEF PassedRuns, FailedRuns
<1>9. /\ checkRuns.passed = Cardinality(PassedRuns)
      /\ checkRuns.failed = Cardinality(FailedRuns)
      /\ row.passed <=> checkRuns.passed > 0
  BY DEF EvidenceMatches, PassedRuns, FailedRuns
<1>10. SUFFICES /\ checkRuns'.passed = Cardinality(PassedRuns')
                /\ checkRuns'.failed = Cardinality(FailedRuns')
                /\ row'.passed <=> checkRuns'.passed > 0
  BY <1>6 DEF EvidenceMatches, PassedRuns, FailedRuns
<1>11. CASE exit = "zero"
  <2>1. PassedRuns' = PassedRuns \cup {r}
    BY <1>1, <1>3, <1>4, <1>11 DEF PassedRuns, CheckedResult
  <2>2. FailedRuns' = FailedRuns
    BY <1>1, <1>3, <1>4, <1>11 DEF FailedRuns, CheckedResult
  <2>3. Cardinality(PassedRuns \cup {r}) = Cardinality(PassedRuns) + 1
    BY <1>7, <1>8, FS_AddElement
  <2>4. checkRuns' = [checkRuns EXCEPT !.passed = @ + 1]
    BY <1>11 DEF CheckCommit, StoredCheckRuns
  <2>5. checkRuns'.passed = checkRuns.passed + 1 /\ checkRuns'.failed = checkRuns.failed
    BY <2>4
  <2>6. row'.passed
    BY <1>11 DEF CheckCommit, CheckedRow, Row
  <2>7. QED
    BY <1>9, <2>1, <2>2, <2>3, <2>5, <2>6
<1>12. CASE exit \in {"one", "other"}
  <2>1. PassedRuns' = PassedRuns
    BY <1>1, <1>3, <1>4, <1>12 DEF PassedRuns, CheckedResult
  <2>2. FailedRuns' = FailedRuns \cup {r}
    BY <1>1, <1>3, <1>4, <1>5, <1>12 DEF FailedRuns, CheckedResult
  <2>3. Cardinality(FailedRuns \cup {r}) = Cardinality(FailedRuns) + 1
    BY <1>7, <1>8, FS_AddElement
  <2>4. checkRuns' = [checkRuns EXCEPT !.failed = @ + 1]
    BY <1>12 DEF CheckCommit, StoredCheckRuns
  <2>5. checkRuns'.failed = checkRuns.failed + 1 /\ checkRuns'.passed = checkRuns.passed
    BY <2>4
  <2>6. row'.passed = row.passed
    BY <1>12 DEF CheckCommit, CheckedRow, Row
  <2>7. QED
    BY <1>9, <2>1, <2>2, <2>3, <2>5, <2>6
<1>13. CASE exit \notin {"zero", "one", "other"}
  <2>1. PassedRuns' = PassedRuns /\ FailedRuns' = FailedRuns
    BY <1>1, <1>3, <1>4, <1>5, <1>13 DEF PassedRuns, FailedRuns, CheckedResult
  <2>2. checkRuns' = checkRuns
    BY <1>13 DEF CheckCommit, StoredCheckRuns
  <2>3. row'.passed = row.passed
    BY <1>13 DEF CheckCommit, CheckedRow, Row
  <2>4. QED
    BY <1>9, <2>1, <2>2, <2>3
<1>14. QED
  BY <1>11, <1>12, <1>13

\* Every step preserves the invariant.
LEMMA RunInvStep ==
  ASSUME RunInv, [Next]_vars
  PROVE  RunInv'
<1> USE DEF RunInv
<1>1. TypeInv' /\ RunMoves
  BY NextTypes, NextRuns
<1>2. StoredClosed' /\ EvidenceMatches'
  BY <1>1, QuietEvidence, CommittedEvidence DEF RunMoves, EvidenceMoves
<1>3. RunsRequested'
  BY <1>1 DEF RunMoves, RunKnownMoves, RunsGrow, RunsRequested
<1>4. ASSUME NEW w \in Workers, job'[w].pc \in CheckWorking
      PROVE  /\ job[w].id \in Runs
             /\ job'[w].id = job[w].id
             /\ runs'[job[w].id].started
             /\ CheckAdmission(w) \/ (job[w].pc \in CheckWorking /\ runs[job[w].id].started)
  BY <1>1, <1>4 DEF RunMoves, CheckJobMoves, CheckAdmission, CheckStarted, RunsGrow,
                    TypeInv, IdsOK, CheckWorking
<1>5. CheckStarted'
  BY <1>4 DEF CheckStarted
<1>6. OneCheckWorker'
  <2>1. SUFFICES ASSUME NEW v \in Workers, NEW w \in Workers, v # w,
                        job'[v].pc \in CheckWorking, job'[w].pc \in CheckWorking,
                        job'[v].id = job'[w].id
                 PROVE  FALSE
    BY DEF OneCheckWorker
  <2>2. ~CheckAdmission(v) /\ ~CheckAdmission(w)
    BY <2>1, <1>4 DEF CheckAdmission, CheckStarted
  <2>3. QED
    BY <1>4, <2>1, <2>2 DEF OneCheckWorker
<1>7. QED
  BY <1>1, <1>2, <1>3, <1>5, <1>6

\* A new attempt satisfies the invariant.
LEMMA RunInvInit ==
  ASSUME Init
  PROVE  RunInv
<1>1. TypeInv
  BY InitTypes
<1>2. RunsRequested /\ StoredClosed /\ CheckStarted /\ OneCheckWorker
  BY DistinctIds DEF Init, RunsRequested, RunKnown, StoredClosed, CheckStarted, OneCheckWorker,
     NoJob, NoTab, CheckWorking, CheckSteps
<1>3. PassedRuns = {} /\ FailedRuns = {}
  BY DEF Init, PassedRuns, FailedRuns
<1>4. checkRuns.passed = 0 /\ checkRuns.failed = 0 /\ row.passed = FALSE
  BY DEF Init
<1>5. EvidenceMatches
  <2>1. Cardinality(PassedRuns) = 0 /\ Cardinality(FailedRuns) = 0
    BY <1>3, FS_EmptySet
  <2>2. ~row.passed /\ ~(checkRuns.passed > 0)
    BY <1>4
  <2>3. QED
    BY <1>4, <2>1, <2>2 DEF EvidenceMatches, PassedRuns, FailedRuns
<1>6. QED
  BY <1>1, <1>2, <1>5 DEF RunInv

-----------------------------------------------------------------------------
(* The theorems.                                                           *)

\* The CheckRun rows, the finished events and technical_passed_at agree: a result
\* that arrives after its execution was interrupted, refused or closed as lost is
\* never stored, and no execution is stored twice.
THEOREM EvidenceCorrect == Spec => []EvidenceMatches
<1>1. RunInv => EvidenceMatches
  BY DEF RunInv
<1>2. QED
  BY RunInvInit, RunInvStep, <1>1, PTL DEF Spec

\* The worker wrapper executes a message once, however often the broker delivers
\* it: two workers are never past the admission of one operation or one run.
THEOREM ExecutedOnce == Spec => []SingleExecutor
<1>1. OpInv /\ RunInv => SingleExecutor
  <2>1. SUFFICES ASSUME OpInv, RunInv, NEW v \in Workers, NEW w \in Workers,
                        job[v].pc \in Working, job[w].pc \in Working, job[v].id = job[w].id
                 PROVE  v = w
    BY DEF SingleExecutor
  <2>2. \A u \in {v, w} : job[u].pc \in EnvWorking \/ job[u].pc \in CheckWorking
    BY <2>1 DEF Working, EnvWorking, CheckWorking
  <2>3. \A u \in {v, w} : /\ job[u].pc \in EnvWorking => job[u].id \in Ops
                          /\ job[u].pc \in CheckWorking => job[u].id \in Runs
    BY <2>1 DEF RunInv, TypeInv, IdsOK, EnvWorking, CheckWorking
  <2>4. CASE job[v].id \in Ops
    BY <2>1, <2>2, <2>3, <2>4, DistinctIds DEF OpInv, OneEnvWorker
  <2>5. CASE job[v].id \in Runs
    BY <2>1, <2>2, <2>3, <2>5, DistinctIds DEF RunInv, OneCheckWorker
  <2>6. QED
    BY <2>2, <2>3, <2>4, <2>5
<1>2. QED
  BY OpInvInit, OpInvStep, RunInvInit, RunInvStep, <1>1, PTL DEF Spec
=============================================================================
