---------------------------- MODULE Maintenance -----------------------------
(***************************************************************************)
(* The two cron commands that repair attempts behind the workers' backs:   *)
(* detect_stuck_attempts (the watchdog) and cleanup_task_containers.       *)
(* Both select rows without a lock and write them back later.  The age     *)
(* they select by is not modelled: either may find an attempt old enough   *)
(* at any time.                                                            *)
(***************************************************************************)
EXTENDS AttemptState

-----------------------------------------------------------------------------
(* detect_stuck_attempts.                                                  *)

\* Mutants of the two queries: a restarting environment is not looked for; a
\* check is looked for only where the environment is not ready.
StuckStartingOnly == row.env = "starting" /\ ~row.passed /\ row.status # "passed"
StuckCheckIdleOnly ==
  /\ row.check = "running"
  /\ ~row.passed
  /\ row.status # "passed"
  /\ row.env = "idle"

\* The query over environments, and the one over checks.
StuckEnvironment == EnvBusy /\ ~row.passed /\ row.status # "passed"

StuckCheck ==
  /\ row.check = "running"
  /\ ~row.passed
  /\ row.status # "passed"
  /\ row.env \notin {"starting", "restarting", "error"}

DogSelectEnvironment ==
  /\ dog.pc = "idle"
  /\ StuckEnvironment
  /\ dog' = [pc |-> "env", running |-> row.check = "running"]
  /\ UNCHANGED <<row, ledger, docker, queue, job, tab, sweep>>

DogSelectCheck ==
  /\ dog.pc = "idle"
  /\ StuckCheck
  /\ dog' = [pc |-> "check", running |-> TRUE]
  /\ UNCHANGED <<row, ledger, docker, queue, job, tab, sweep>>

\* mark_stuck_environment_attempts: the row is looked at again under the lock;
\* the check is written off only if it was running when the row was selected.
DogMarkEnvironment ==
  /\ dog.pc = "env"
  /\ \/ /\ ~row.passed
        /\ EnvBusy
        /\ ops' = InterruptOps
        /\ runs' = InterruptRuns
        /\ row' = [row EXCEPT !.env = "error", !.status = "failed",
                              !.check = IF dog.running THEN "error" ELSE @]
     \/ /\ row.passed \/ ~EnvBusy
        /\ UNCHANGED <<ops, runs, row>>
  /\ dog' = NoDog
  /\ UNCHANGED <<lastOp, lastRun, checkRuns, docker, queue, job, tab, sweep>>

DogMarkCheck ==
  /\ dog.pc = "check"
  /\ \/ /\ ~row.passed
        /\ row.check = "running"
        /\ ops' = InterruptOps
        /\ runs' = InterruptRuns
        /\ row' = [row EXCEPT !.check = "error", !.status = "failed"]
     \/ /\ row.passed \/ row.check # "running"
        /\ UNCHANGED <<ops, runs, row>>
  /\ dog' = NoDog
  /\ UNCHANGED <<lastOp, lastRun, checkRuns, docker, queue, job, tab, sweep>>

-----------------------------------------------------------------------------
(* cleanup_task_containers.                                                *)

\* The first query: started 72 hours ago and still without a technical pass.
SweepSelectUnfinished ==
  /\ sweep.pc = "idle"
  /\ row.started
  /\ ~row.passed
  /\ sweep' = [NoSweep EXCEPT !.pc = "request", !.unfinished = TRUE,
                              !.container = row.container]
  /\ UNCHANGED <<row, ledger, docker, queue, job, tab, dog>>

\* The second query: passed 72 hours ago and no answer sent yet.
SweepSelectPassed ==
  /\ sweep.pc = "idle"
  /\ RequiresReview
  /\ row.passed
  /\ row.status = "in_progress"
  /\ row.container
  /\ sweep' = [NoSweep EXCEPT !.pc = "request", !.container = row.container]
  /\ UNCHANGED <<row, ledger, docker, queue, job, tab, dog>>

\* The first transaction: everything open is interrupted, and the cleanup
\* becomes an operation of its own, requested and started.
SweepRequest ==
  /\ sweep.pc = "request"
  /\ \E o \in Ops :
       /\ ~Requested(o)
       /\ ops' = [InterruptOps EXCEPT ![o].kind = "cleanup", ![o].started = TRUE]
       /\ lastOp' = o
       /\ sweep' = [sweep EXCEPT !.pc = "remove", !.op = o]
  /\ runs' = InterruptRuns
  /\ UNCHANGED <<row, lastRun, checkRuns, docker, queue, job, tab, dog>>

\* Outside any transaction: the container named by the selected copy goes.
SweepRemove ==
  /\ sweep.pc = "remove"
  /\ docker' = IF sweep.container THEN None ELSE docker
  /\ sweep' = [sweep EXCEPT !.pc = IF sweep.unfinished THEN "refresh" ELSE "save"]
  /\ UNCHANGED <<row, ledger, queue, job, tab, dog>>

\* refresh_from_db, before the second transaction takes the lock.
SweepRefresh ==
  /\ sweep.pc = "refresh"
  /\ sweep' = [sweep EXCEPT !.pc = "save", !.passed = row.passed,
                            !.status = row.status, !.check = row.check]
  /\ UNCHANGED <<row, ledger, docker, queue, job, tab, dog>>

\* Mutants: environment_status is not reset; it is reset to a value of status.
SweptKeepsEnvironment ==
  [row EXCEPT !.container = FALSE,
              !.status = IF sweep.passed THEN sweep.status ELSE "new",
              !.check = IF sweep.passed THEN sweep.check ELSE "idle"]
SweptMixesStatuses == [row EXCEPT !.container = FALSE, !.env = "new"]

\* The row the second transaction writes.  The first loop writes status and
\* check_status of its copy back, reset unless that copy had the pass.
SweptRow ==
  IF sweep.unfinished
    THEN [row EXCEPT !.container = FALSE, !.env = "idle",
                     !.status = IF sweep.passed THEN sweep.status ELSE "new",
                     !.check = IF sweep.passed THEN sweep.check ELSE "idle"]
    ELSE [row EXCEPT !.container = FALSE, !.env = "idle"]

SweepSave ==
  /\ sweep.pc = "save"
  /\ ops' = FinishOp(sweep.op, "success")
  /\ row' = SweptRow
  /\ sweep' = NoSweep
  /\ UNCHANGED <<lastOp, runs, lastRun, checkRuns, docker, queue, job, tab, dog>>

\* A Docker error ends the command; its operation stays open.
SweepDies ==
  /\ sweep.pc \in {"request", "remove", "refresh", "save"}
  /\ sweep' = NoSweep
  /\ UNCHANGED <<row, ledger, docker, queue, job, tab, dog>>
=============================================================================
