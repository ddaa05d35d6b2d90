---------------------------- MODULE Environments ----------------------------
(***************************************************************************)
(* Starting and restarting the environment of an attempt                   *)
(* (sandbox/services/environments.py, the start_task and restart_task      *)
(* views, and the worker wrapper of ledger_execution.py).                  *)
(***************************************************************************)
EXTENDS AttemptState

-----------------------------------------------------------------------------
(* The web process.  A view reads the row without a lock, and takes the    *)
(* lock only when it registers the request.                                *)

\* start_task: the guards, evaluated on the unlocked row.  A repeated
\* operation_id changes nothing, so only requests with a fresh id are steps.
StartTask(t) ==
  /\ tab[t].pc = "idle"
  /\ ~row.passed
  /\ ~EnvBusy
  /\ ~row.container
  /\ tab' = [tab EXCEPT ![t].pc = "start"]
  /\ UNCHANGED <<row, ledger, docker, queue, job, dog, sweep>>

\* restart_task: the same for the restart button.
RestartTask(t) ==
  /\ tab[t].pc = "idle"
  /\ ~row.passed
  /\ ~EnvBusy
  /\ row.check # "running"
  /\ tab' = [tab EXCEPT ![t].pc = "reset"]
  /\ UNCHANGED <<row, ledger, docker, queue, job, dog, sweep>>

\* The conditional UPDATE of try_mark_environment_*: only one request wins.
MarkWins == ~EnvBusy

\* request_environment followed by the conditional UPDATE, in one transaction.
\* The loser's operation is closed at once as not_started.
TryMark(t, kind, marked) ==
  /\ tab[t].pc = kind
  /\ \E o \in Ops :
       /\ ~Requested(o)
       /\ lastOp' = o
       /\ \/ /\ MarkWins
             /\ ops' = [ops EXCEPT ![o].kind = kind]
             /\ row' = marked
             /\ tab' = [tab EXCEPT ![t] = [pc |-> "send_env", id |-> o]]
          \/ /\ ~MarkWins
             /\ ops' = [ops EXCEPT ![o].kind = kind, ![o].outcome = "not_started"]
             /\ tab' = [tab EXCEPT ![t] = NoTab]
             /\ UNCHANGED row
  /\ UNCHANGED <<runs, lastRun, checkRuns, docker, queue, job, dog, sweep>>

TryMarkStarting(t) == TryMark(t, "start", [row EXCEPT !.env = "starting"])

TryMarkRestarting(t) ==
  TryMark(t, "reset", [row EXCEPT !.env = "restarting", !.check = "idle"])

\* Mutant: the row is not looked at again once it is locked.
MarkErrorUnconditionally(closed) ==
  /\ ops' = InterruptOps
  /\ runs' = InterruptRuns
  /\ row' = [row EXCEPT !.status = "failed", !.env = "error"]

\* mark_environment_start_error and mark_environment_restart_error, once the
\* row is locked.  The ledger always holds events of this attempt here, so a
\* row that is no longer busy is left alone.
MarkEnvironmentError(closed) ==
  \/ /\ EnvBusy
     /\ ops' = InterruptOps
     /\ runs' = InterruptRuns
     /\ row' = [row EXCEPT !.status = "failed", !.env = "error"]
  \/ /\ ~EnvBusy
     /\ ops' = closed
     /\ UNCHANGED <<runs, row>>

\* dispatch, after the commit: the message reaches the broker.
SendEnvironment(t) ==
  /\ tab[t].pc = "send_env"
  /\ queue' = queue \cup {tab[t].id}
  /\ tab' = [tab EXCEPT ![t] = NoTab]
  /\ UNCHANGED <<row, ledger, docker, job, dog, sweep>>

\* dispatch, when the broker refuses: the operation is closed and the
\* environment marked as failed in the same transaction.
SendEnvironmentFails(t) ==
  /\ tab[t].pc = "send_env"
  /\ MarkEnvironmentError(FinishOp(tab[t].id, "unknown"))
  /\ tab' = [tab EXCEPT ![t] = NoTab]
  /\ UNCHANGED <<lastOp, lastRun, checkRuns, docker, queue, job, dog, sweep>>

-----------------------------------------------------------------------------
(* The Celery worker.                                                      *)

\* Mutants of the two admission tests: only a closed operation is refused; the
\* other operations of the attempt are not looked at.
OnlyFinishedRefused(o) == ops[o].outcome # "open"
OthersIgnored(o) == FALSE

\* begin_environment: the operation was started or closed before.
Delivered(o) == ops[o].started \/ ops[o].outcome # "open"

\* begin_environment: another operation of the attempt is not finished.
OtherOpen(o) == \E p \in Ops \ {o} : Open(p)

\* The admission transaction of the worker wrapper, and the refresh of the
\* worker's copy of the row that ends it.
EnvBegin(w) ==
  LET o == job[w].id IN
  /\ job[w].pc = "env_begin"
  /\ \/ /\ Delivered(o)
        /\ job' = [job EXCEPT ![w] = NoJob]
        /\ UNCHANGED ops
     \/ /\ ~Delivered(o)
        /\ OtherOpen(o)
        /\ ops' = FinishOp(o, "not_started")
        /\ job' = [job EXCEPT ![w] = NoJob]
     \/ /\ ~Delivered(o)
        /\ ~OtherOpen(o)
        /\ ops' = [ops EXCEPT ![o].started = TRUE]
        /\ job' = [job EXCEPT ![w].pc = IF ops[o].kind = "reset" THEN "env_remove"
                                                                 ELSE "env_create",
                              ![w].restarts = row.restarts,
                              ![w].container = row.container]
  /\ UNCHANGED <<row, lastOp, runs, lastRun, checkRuns, docker, queue, tab, dog, sweep>>

\* A Docker call that raises, or a rejected result: on to the error handler.
EnvRaise(w) ==
  /\ job' = [job EXCEPT ![w].pc = "env_fail"]
  /\ UNCHANGED <<row, ledger, docker, queue, tab, dog, sweep>>

\* What run_environment_restart removes: the container its copy of the row
\* names.  The name is the attempt's, so whichever container bears it goes.
RemovedBy(named) == IF named THEN None ELSE docker

EnvRemove(w) ==
  /\ job[w].pc = "env_remove"
  /\ docker' = RemovedBy(job[w].container)
  /\ job' = [job EXCEPT ![w].pc = "env_create"]
  /\ UNCHANGED <<row, ledger, queue, tab, dog, sweep>>

\* create_task_container: Docker refuses a name that is in use.
EnvCreate(w) ==
  /\ job[w].pc = "env_create"
  /\ docker = None
  /\ docker' = job[w].id
  /\ job' = [job EXCEPT ![w].pc = "env_terminal"]
  /\ UNCHANGED <<row, ledger, queue, tab, dog, sweep>>

\* create_terminal_container and wait_for_terminal_ready.
EnvTerminal(w) ==
  /\ job[w].pc = "env_terminal"
  /\ job' = [job EXCEPT ![w].pc = "env_commit"]
  /\ UNCHANGED <<row, ledger, docker, queue, tab, dog, sweep>>

\* Any of the three may raise instead: the daemon fails, the name is in use,
\* the terminal does not answer in time.
EnvDockerError(w) ==
  /\ job[w].pc \in {"env_remove", "env_create", "env_terminal"}
  /\ EnvRaise(w)

\* The row as run_environment_start and run_environment_restart save it; the
\* counter is the worker's own copy plus one.
Restarted(copy) == copy + 1
ReadyRow(kind, copy) ==
  IF kind = "reset"
    THEN [row EXCEPT !.status = "in_progress", !.restarts = Restarted(copy),
                     !.started = TRUE, !.container = TRUE,
                     !.check = "idle", !.env = "ready"]
    ELSE [row EXCEPT !.status = "in_progress", !.started = TRUE,
                     !.container = TRUE, !.env = "ready"]

EnvCommit(w) ==
  LET o == job[w].id IN
  /\ job[w].pc = "env_commit"
  /\ EnvironmentLive(o)
  /\ row' = ReadyRow(ops[o].kind, job[w].restarts)
  /\ ops' = FinishOp(o, "success")
  /\ job' = [job EXCEPT ![w] = NoJob]
  /\ UNCHANGED <<lastOp, runs, lastRun, checkRuns, docker, queue, tab, dog, sweep>>

\* environment_live raises, or the transaction itself fails.
EnvCommitFails(w) ==
  /\ job[w].pc = "env_commit"
  /\ EnvRaise(w)

\* The except clause of the wrapper closes the operation ...
EnvFail(w) ==
  /\ job[w].pc = "env_fail"
  /\ ops' = FinishOp(job[w].id, "unknown")
  /\ job' = [job EXCEPT ![w].pc = "env_latest"]
  /\ UNCHANGED <<row, lastOp, runs, lastRun, checkRuns, docker, queue, tab, dog, sweep>>

\* ... and _mark_background_environment_*_error goes on only if no other
\* operation was requested since, which it reads without a lock.
EnvLatest(w) ==
  /\ job[w].pc = "env_latest"
  /\ job' = [job EXCEPT ![w] = IF lastOp = @.id THEN [@ EXCEPT !.pc = "env_error"] ELSE NoJob]
  /\ UNCHANGED <<row, ledger, docker, queue, tab, dog, sweep>>

EnvError(w) ==
  /\ job[w].pc = "env_error"
  /\ MarkEnvironmentError(ops)
  /\ job' = [job EXCEPT ![w] = NoJob]
  /\ UNCHANGED <<lastOp, lastRun, checkRuns, docker, queue, tab, dog, sweep>>
=============================================================================
