------------------------------- MODULE Checks -------------------------------
(***************************************************************************)
(* The technical check of an attempt (sandbox/services/checks.py, the      *)
(* check_task view and the worker wrapper `checked' of                     *)
(* ledger_execution.py).                                                   *)
(***************************************************************************)
EXTENDS AttemptState

-----------------------------------------------------------------------------
(* The web process.                                                        *)

\* check_task of an attempt that is not yet passed: the guards, evaluated on
\* the unlocked row.
CheckTask(t) ==
  /\ tab[t].pc = "idle"
  /\ row.status \notin {"passed", "on_review"}
  /\ row.check # "running"
  /\ ~row.passed
  /\ row.env \notin {"starting", "restarting", "error"}
  /\ row.container
  /\ tab' = [tab EXCEPT ![t].pc = "check"]
  /\ UNCHANGED <<row, ledger, docker, queue, job, dog, sweep>>

\* The conditional UPDATE of try_mark_attempt_check_running.  It does not look
\* at environment_status.
CheckMarkWins == ~row.passed /\ row.check # "running"

\* The UPDATE and request_check, in one transaction.
TryMarkCheckRunning(t) ==
  /\ tab[t].pc = "check"
  /\ \/ /\ CheckMarkWins
        /\ \E r \in Runs :
             /\ ~runs[r].requested
             /\ runs' = [runs EXCEPT ![r].requested = TRUE]
             /\ lastRun' = r
             /\ tab' = [tab EXCEPT ![t] = [pc |-> "send_check", id |-> r]]
        /\ row' = [row EXCEPT !.attempts = @ + 1, !.status = "in_progress",
                              !.check = "running"]
     \/ /\ ~CheckMarkWins
        /\ tab' = [tab EXCEPT ![t] = NoTab]
        /\ UNCHANGED <<row, runs, lastRun>>
  /\ UNCHANGED <<ops, lastOp, checkRuns, docker, queue, job, dog, sweep>>

SendCheck(t) ==
  /\ tab[t].pc = "send_check"
  /\ queue' = queue \cup {tab[t].id}
  /\ tab' = [tab EXCEPT ![t] = NoTab]
  /\ UNCHANGED <<row, ledger, docker, job, dog, sweep>>

\* _mark_background_check_error, under the row lock.
CheckErrorApplies(r) == ~row.passed /\ row.check = "running" /\ lastRun = r
MarkCheckError(r) ==
  \/ /\ CheckErrorApplies(r)
     /\ runs' = FinishRun(r, "unknown", FALSE)
     /\ row' = [row EXCEPT !.status = "failed", !.check = "error"]
  \/ /\ ~CheckErrorApplies(r)
     /\ UNCHANGED <<runs, row>>

\* dispatch, when the broker refuses the message.
SendCheckFails(t) ==
  /\ tab[t].pc = "send_check"
  /\ MarkCheckError(tab[t].id)
  /\ tab' = [tab EXCEPT ![t] = NoTab]
  /\ UNCHANGED <<ops, lastOp, lastRun, checkRuns, docker, queue, job, dog, sweep>>

-----------------------------------------------------------------------------
(* The Celery worker.                                                      *)

\* The wrapper runs nothing for an attempt that has its technical pass, which it
\* reads without a lock.
CheckGuard(w) ==
  /\ job[w].pc = "check_guard"
  /\ job' = [job EXCEPT ![w] = IF row.passed THEN NoJob ELSE [@ EXCEPT !.pc = "check_begin"]]
  /\ UNCHANGED <<row, ledger, docker, queue, tab, dog, sweep>>

\* begin_check: an execution with any event is not run again.
CheckDelivered(r) == runs[r].started \/ runs[r].result # "open"

\* The admission transaction of the wrapper.
CheckBegin(w) ==
  LET r == job[w].id IN
  /\ job[w].pc = "check_begin"
  /\ \/ /\ CheckDelivered(r)
        /\ job' = [job EXCEPT ![w] = NoJob]
        /\ UNCHANGED runs
     \/ /\ ~CheckDelivered(r)
        /\ runs' = [runs EXCEPT ![r].started = TRUE]
        /\ job' = [job EXCEPT ![w].pc = "check_load"]
  /\ UNCHANGED <<row, ops, lastOp, lastRun, checkRuns, docker, queue, tab, dog, sweep>>

\* run_attempt_check refreshes its copy and looks for the pass once more.
CheckLoad(w) ==
  /\ job[w].pc = "check_load"
  /\ job' = [job EXCEPT ![w] = IF row.passed THEN NoJob
                               ELSE [@ EXCEPT !.pc = "check_exec",
                                              !.container = row.container]]
  /\ UNCHANGED <<row, ledger, docker, queue, tab, dog, sweep>>

\* check_task_container: the checker runs in whatever container bears the
\* attempt's name; without one, or with a failing daemon, the call raises.
CheckExec(w) ==
  /\ job[w].pc = "check_exec"
  /\ \E exit \in {"docker_error", "missing", "zero", "one", "other"} :
       /\ exit # "docker_error" => job[w].container /\ docker # None
       /\ job' = [job EXCEPT ![w].exit = exit,
                             ![w].pc = IF exit = "zero" /\ ~RequiresReview
                                         THEN "check_teardown" ELSE "check_commit"]
  /\ UNCHANGED <<row, ledger, docker, queue, tab, dog, sweep>>

\* exit code 0 without a manual review: the containers are removed, and the
\* names cleared in the worker's copy, before the result is saved.
CheckTeardown(w) ==
  /\ job[w].pc = "check_teardown"
  /\ docker' = None
  /\ job' = [job EXCEPT ![w].pc = "check_commit", ![w].container = FALSE]
  /\ UNCHANGED <<row, ledger, queue, tab, dog, sweep>>

\* remove_*_container raises, check_live rejects a late result, or the
\* transaction fails: all reach the except clause of the wrapper, and the outcome
\* the worker held is lost.
CheckRaise(w) ==
  /\ job[w].pc \in {"check_teardown", "check_commit"}
  /\ job' = [job EXCEPT ![w] = [NoJob EXCEPT !.pc = "check_fail", !.id = job[w].id]]
  /\ UNCHANGED <<row, ledger, docker, queue, tab, dog, sweep>>

\* What the transaction saves for each outcome of the checker.  The container
\* names of a passed check come from the worker's copy.
CheckedRow(exit, container) ==
  IF exit = "zero"
    THEN [row EXCEPT !.passed = TRUE, !.check = "passed", !.container = container,
                     !.status = IF RequiresReview THEN "in_progress" ELSE "passed"]
    ELSE [row EXCEPT !.status = "failed",
                     !.check = IF exit \in {"one", "other"} THEN "failed" ELSE "error"]

CheckedResult(exit) ==
  CASE exit = "zero" -> "passed" [] exit = "one" -> "failed" [] OTHER -> "unknown"

\* A CheckRun row needs a real exit code.
StoredCheckRuns(exit) ==
  CASE exit = "zero" -> [checkRuns EXCEPT !.passed = @ + 1]
    [] exit \in {"one", "other"} -> [checkRuns EXCEPT !.failed = @ + 1]
    [] OTHER -> checkRuns

CheckCommit(w) ==
  LET exit == job[w].exit IN
  /\ job[w].pc = "check_commit"
  /\ CheckLive(job[w].id)
  /\ row' = CheckedRow(exit, job[w].container)
  /\ checkRuns' = StoredCheckRuns(exit)
  /\ runs' = FinishRun(job[w].id, CheckedResult(exit), exit \in {"zero", "one", "other"})
  /\ job' = [job EXCEPT ![w] = NoJob]
  /\ UNCHANGED <<ops, lastOp, lastRun, docker, queue, tab, dog, sweep>>

\* The except clause of the wrapper closes the execution ...
CheckFail(w) ==
  /\ job[w].pc = "check_fail"
  /\ runs' = FinishRun(job[w].id, "unknown", FALSE)
  /\ job' = [job EXCEPT ![w].pc = "check_error"]
  /\ UNCHANGED <<row, ops, lastOp, lastRun, checkRuns, docker, queue, tab, dog, sweep>>

\* ... and the background entry point marks the row.
CheckError(w) ==
  /\ job[w].pc = "check_error"
  /\ MarkCheckError(job[w].id)
  /\ job' = [job EXCEPT ![w] = NoJob]
  /\ UNCHANGED <<ops, lastOp, lastRun, checkRuns, docker, queue, tab, dog, sweep>>
=============================================================================
