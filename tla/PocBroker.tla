------------------------------ MODULE PocBroker ------------------------------
(***************************************************************************)
(* The proof-of-concept broker of the trusted checker.  execute admits a   *)
(* run under a lease on its target, starts a thread that prepares and runs *)
(* the runner, and waits for it until the deadline; a thread that missed   *)
(* the deadline goes on beside the caller.  Another process may execute    *)
(* the same run again, clean up or reconcile.  A process may die (its      *)
(* caller and its thread together) and a call to the daemon may be lost    *)
(* and executed later.                                                     *)
(*                                                                         *)
(* Every operation of State is one SQLite transaction under the write      *)
(* lock, and so one step; start and removal are called inside theirs.      *)
(***************************************************************************)
EXTENDS Integers, FiniteSets

CONSTANTS
  Targets,
  Runs,
  MaxParallel,  \* max_parallel
  MaxFaults     \* bound on deaths, lost calls and restarts of targets

VARIABLES
  run,        \* the tables runs, create_intents, runner_ownership,
              \* runner_starts and cleanups
  lock,       \* the table locks: the runs that hold a lease on the target
  thread,     \* the operation thread of a run
  caller,     \* the call of execute that waits for it
  late,       \* runs whose deadline has passed
  gen,        \* starts of the target since it was enrolled
  box,        \* the runner's container at the daemon
  inflight,   \* create calls the daemon may still execute
  starts,     \* start calls made
  faults

store == <<run, lock>>
daemon == <<box, inflight, starts>>
vars == <<store, thread, caller, late, gen, daemon, faults>>

Blank == [status |-> "none", target |-> {}, result |-> "none",
          intent |-> FALSE, owned |-> FALSE, runner |-> FALSE,
          started |-> FALSE, cleaned |-> FALSE, probed |-> 0]
NoThread == [pc |-> "none", probed |-> 0, outcome |-> "none"]
NoCaller == [pc |-> "none", result |-> "none", probed |-> 0,
             nocreate |-> FALSE, cancelled |-> FALSE]

Init ==
  /\ run = [r \in Runs |-> Blank]
  /\ lock = [t \in Targets |-> {}]
  /\ thread = [r \in Runs |-> NoThread]
  /\ caller = [r \in Runs |-> NoCaller]
  /\ late = {}
  /\ gen = [t \in Targets |-> 0]
  /\ box = [r \in Runs |-> "none"]
  /\ inflight = {}
  /\ starts = [r \in Runs |-> 0]
  /\ faults = 0

Fault == faults < MaxFaults /\ faults' = faults + 1
Exists(r) == box[r] \in {"created", "running", "exited"}
TargetOf(r) == CHOOSE t \in Targets : t \in run[r].target
Unlocked(r) == [t \in Targets |-> lock[t] \ {r}]

ThreadAt(r, pc) == thread[r].pc = pc
ThreadTo(r, pc) == thread' = [thread EXCEPT ![r].pc = pc]

issue(r, t) ==
  /\ run[r].status = "none"
  /\ run' = [run EXCEPT ![r].status = "issued", ![r].target = {t}]
  /\ UNCHANGED <<lock, thread, caller, late, gen, daemon, faults>>

\* ---------------------------------------------------------- execute: the caller

admit(r) ==
  /\ run[r].status = "issued"
  /\ lock[TargetOf(r)] = {}
  /\ Cardinality({t \in Targets : lock[t] # {}}) < MaxParallel
  /\ lock' = [lock EXCEPT ![TargetOf(r)] = {r}]
  /\ run' = [run EXCEPT ![r].status = "running"]
  /\ \/ /\ ThreadTo(r, "inspect")
        /\ caller' = [caller EXCEPT ![r].pc = "wait"]
     \/ \* changed or unsupported policy, no artifact, no free thread
        /\ caller' = [caller EXCEPT ![r].pc = "finish",
             ![r].result = "unknown", ![r].nocreate = TRUE]
        /\ UNCHANGED thread
  /\ UNCHANGED <<late, gen, daemon, faults>>

\* finish is a compare-and-set on status = running.
FinishedMutant(r, result, probed) ==
  [run EXCEPT ![r].status = "finished", ![r].result = result,
              ![r].probed = probed]

Finished(r, result, probed) ==
  IF run[r].status # "running" THEN run
  ELSE [run EXCEPT ![r].status = "finished", ![r].result = result,
                   ![r].probed = probed]

\* nocreate is not prepare_attempted: the thread failed before it went on
\* to prepare.
Received(r, nocreate) ==
  [caller EXCEPT ![r] =
     [pc |-> "finish",
      result |-> IF r \in late THEN "unknown" ELSE thread[r].outcome,
      probed |-> thread[r].probed,
      nocreate |-> nocreate, cancelled |-> r \in late]]

ReceiveMutant(r) ==
  /\ caller[r].pc = "wait" /\ ThreadAt(r, "result")
  /\ caller' = Received(r, ~run[r].owned)
  /\ ThreadTo(r, "cleanup")
  /\ UNCHANGED <<store, late, gen, daemon, faults>>

\* results.get: the thread's result, unless the deadline has passed.
Receive(r) ==
  /\ caller[r].pc = "wait" /\ ThreadAt(r, "result")
  /\ caller' = Received(r, ~run[r].intent)
  /\ ThreadTo(r, "cleanup")
  /\ UNCHANGED <<store, late, gen, daemon, faults>>

Timeout(r) ==
  /\ caller[r].pc = "wait" /\ r \in late
  /\ caller' = [caller EXCEPT ![r].pc = "finish", ![r].result = "unknown",
                              ![r].cancelled = TRUE]
  /\ UNCHANGED <<store, thread, late, gen, daemon, faults>>

\* Only a run that provably never called create gives its lease back here.
Finish(r) ==
  /\ caller[r].pc = "finish"
  /\ run' = Finished(r, caller[r].result, caller[r].probed)
  /\ caller' = [caller EXCEPT ![r].cancelled = TRUE,
       ![r].pc = IF caller[r].nocreate THEN "release" ELSE "cleanup"]
  /\ UNCHANGED <<lock, thread, late, gen, daemon, faults>>

release(r) ==
  /\ caller[r].pc = "release"
  /\ lock' = Unlocked(r)
  /\ caller' = [caller EXCEPT ![r].pc = "cleanup"]
  /\ UNCHANGED <<run, thread, late, gen, daemon, faults>>

\* execute of a run that another call left running past its deadline; the
\* cleanup it goes on with is Cleanup.
ExecuteAgain(r) ==
  /\ run[r].status = "running" /\ r \in late
  /\ run' = Finished(r, "unknown", 0)
  /\ UNCHANGED <<lock, thread, caller, late, gen, daemon, faults>>

\* ------------------------------------------------------ execute: the thread

\* Lifecycle.check: deadline, cancellation, status.
check(r) ==
  r \notin late /\ ~caller[r].cancelled /\ run[r].status = "running"

\* Any error ends in an unknown result.
ThreadFails(r) ==
  thread' = [thread EXCEPT ![r] = [NoThread EXCEPT !.pc = "result",
                                                   !.outcome = "unknown"]]

InspectTarget(r) ==
  /\ ThreadAt(r, "inspect")
  /\ IF gen[TargetOf(r)] = 0 /\ check(r) THEN ThreadTo(r, "begin")
     ELSE ThreadFails(r)
  /\ UNCHANGED <<store, caller, late, gen, daemon, faults>>

create_intent(r) ==
  /\ ThreadAt(r, "begin")
  /\ IF check(r) /\ ~run[r].intent
     THEN run' = [run EXCEPT ![r].intent = TRUE] /\ ThreadTo(r, "create")
     ELSE ThreadFails(r) /\ UNCHANGED run
  /\ UNCHANGED <<lock, caller, late, gen, daemon, faults>>

CheckCreate(r) ==
  /\ ThreadAt(r, "create")
  /\ IF check(r) THEN ThreadTo(r, "creating") ELSE ThreadFails(r)
  /\ UNCHANGED <<store, caller, late, gen, daemon, faults>>

\* The call may be made, or executed, after the run was finished.
Prepare(r) ==
  /\ ThreadAt(r, "creating")
  /\ \/ /\ box' = [box EXCEPT ![r] = "created"]
        /\ ThreadTo(r, "own") /\ UNCHANGED <<inflight, faults>>
     \/ /\ Fault
        /\ inflight' = inflight \cup {r}
        /\ ThreadFails(r) /\ UNCHANGED box
  /\ UNCHANGED <<store, caller, late, gen, starts>>

\* The exact id is owned even after the run was closed.
own_runner(r) ==
  /\ ThreadAt(r, "own")
  /\ run' = [run EXCEPT ![r].owned = TRUE]
  /\ IF check(r) THEN ThreadTo(r, "register") ELSE ThreadFails(r)
  /\ UNCHANGED <<lock, caller, late, gen, daemon, faults>>

register_runner(r) ==
  /\ ThreadAt(r, "register")
  /\ IF check(r) /\ ~run[r].runner /\ box[r] = "created"
     THEN run' = [run EXCEPT ![r].runner = TRUE] /\ ThreadTo(r, "start")
     ELSE ThreadFails(r) /\ UNCHANGED run
  /\ UNCHANGED <<lock, caller, late, gen, daemon, faults>>

\* What start_once reads under its lock: the receipt of the start is kept
\* although the event or the daemon then refuses the call.
StartReceipt(r) ==
  /\ run[r].status = "running" /\ r \notin late
  /\ run[r].runner /\ run[r].owned /\ ~run[r].started

MayStartMutant(r) ==
  run[r].runner /\ run[r].owned /\ ~run[r].started

MayStart(r) == StartReceipt(r) /\ ~caller[r].cancelled

start_once(r) ==
  /\ ThreadAt(r, "start")
  /\ run' = [run EXCEPT ![r].started = @ \/ StartReceipt(r)]
  /\ IF MayStart(r)
     THEN /\ starts' = [starts EXCEPT ![r] = @ + 1]
          /\ \/ /\ box[r] = "created"
                /\ box' = [box EXCEPT ![r] = "running"]
                /\ ThreadTo(r, "probe") /\ UNCHANGED faults
             \/ Fault /\ ThreadFails(r) /\ UNCHANGED box
     ELSE ThreadFails(r) /\ UNCHANGED <<box, starts, faults>>
  /\ UNCHANGED <<lock, caller, late, gen, inflight>>

\* The runner asks the target that runs now and exits.
Probe(r) ==
  /\ ThreadAt(r, "probe")
  /\ \/ /\ check(r) /\ box[r] = "running"
        /\ box' = [box EXCEPT ![r] = "exited"]
        /\ \E o \in {"passed", "failed", "unknown"} :
             thread' = [thread EXCEPT ![r] =
               [pc |-> "after", probed |-> gen[TargetOf(r)], outcome |-> o]]
     \/ ThreadFails(r) /\ UNCHANGED box
  /\ UNCHANGED <<store, caller, late, gen, inflight, starts, faults>>

InspectAfterMutant(r) ==
  /\ ThreadAt(r, "after")
  /\ IF check(r) THEN ThreadTo(r, "result") ELSE ThreadFails(r)
  /\ UNCHANGED <<store, caller, late, gen, daemon, faults>>

InspectAfter(r) ==
  /\ ThreadAt(r, "after")
  /\ IF check(r) /\ gen[TargetOf(r)] = 0 THEN ThreadTo(r, "result")
     ELSE ThreadFails(r)
  /\ UNCHANGED <<store, caller, late, gen, daemon, faults>>

\* The caller stopped waiting: the result goes into the queue unread.
Unread(r) ==
  /\ ThreadAt(r, "result") /\ caller[r].pc # "wait"
  /\ ThreadTo(r, "cleanup")
  /\ UNCHANGED <<store, caller, late, gen, daemon, faults>>

\* ------------------------------------------------------ cleanup, recovery

\* confirm_cleanup: the removal is called inside the transaction.  A death
\* or a lost answer rolls the confirmation back and keeps the lease.
confirm_cleanup(r) ==
  IF run[r].status # "finished" \/ ~run[r].owned
  THEN UNCHANGED <<store, box, faults>>
  ELSE \/ /\ run[r].cleaned \/ Exists(r)
          /\ box' = IF Exists(r) THEN [box EXCEPT ![r] = "removed"] ELSE box
          /\ run' = [run EXCEPT ![r].cleaned = TRUE]
          /\ lock' = Unlocked(r)
          /\ UNCHANGED faults
       \/ /\ Exists(r) /\ ~run[r].cleaned /\ Fault
          /\ box' = [box EXCEPT ![r] = "removed"]
          /\ UNCHANGED store
       \/ ~run[r].cleaned /\ UNCHANGED <<store, box, faults>>

\* By the thread, by the caller, or by the operator at any time.
Cleanup(r) ==
  /\ confirm_cleanup(r)
  /\ \/ ThreadAt(r, "cleanup") /\ ThreadTo(r, "none") /\ UNCHANGED caller
     \/ /\ caller[r].pc = "cleanup"
        /\ caller' = [caller EXCEPT ![r].pc = "none"] /\ UNCHANGED thread
     \/ UNCHANGED <<thread, caller>>
  /\ UNCHANGED <<late, gen, inflight, starts>>

\* An exact, never started container with the daemon's own create event.
reconcile(r) ==
  /\ run[r].status = "finished" /\ run[r].result = "unknown"
  /\ run[r].intent /\ box[r] = "created"
  /\ run' = [run EXCEPT ![r].owned = TRUE]
  /\ UNCHANGED <<lock, thread, caller, late, gen, daemon, faults>>

\* ----------------------------------------------------------- environment

DeadlinePasses(r) ==
  /\ run[r].status = "running" /\ r \notin late
  /\ late' = late \cup {r}
  /\ UNCHANGED <<store, thread, caller, gen, daemon, faults>>

Die(r) ==
  /\ thread[r] # NoThread \/ caller[r] # NoCaller
  /\ Fault
  /\ thread' = [thread EXCEPT ![r] = NoThread]
  /\ caller' = [caller EXCEPT ![r] = NoCaller]
  /\ \/ UNCHANGED inflight
     \/ ThreadAt(r, "creating") /\ inflight' = inflight \cup {r}
  /\ UNCHANGED <<store, late, gen, box, starts>>

RestartTarget(t) ==
  /\ Fault
  /\ gen' = [gen EXCEPT ![t] = @ + 1]
  /\ UNCHANGED <<store, thread, caller, late, daemon>>

CreateLate(r) ==
  /\ r \in inflight
  /\ inflight' = inflight \ {r}
  /\ box' = [box EXCEPT ![r] = "created"]
  /\ UNCHANGED <<store, thread, caller, late, gen, starts, faults>>

Thread(r) ==
  \/ InspectTarget(r) \/ create_intent(r) \/ CheckCreate(r) \/ Prepare(r)
  \/ own_runner(r) \/ register_runner(r) \/ start_once(r) \/ Probe(r)
  \/ InspectAfter(r) \/ Unread(r)

Caller(r) ==
  admit(r) \/ Receive(r) \/ Timeout(r) \/ Finish(r) \/ release(r)

Next ==
  \/ \E r \in Runs :
       \/ Caller(r) \/ Thread(r) \/ Cleanup(r) \/ ExecuteAgain(r)
       \/ reconcile(r) \/ DeadlinePasses(r) \/ Die(r) \/ CreateLate(r)
       \/ \E t \in Targets : issue(r, t)
  \/ \E t \in Targets : RestartTarget(t)

Spec == Init /\ [][Next]_vars

-------------------------------------------------------------------------------
(* A runner's container, one the daemon may still create, and a thread that *)
(* is about to call create hold the lease of their target: after a timeout, *)
(* a death or a lost answer no other run gets near the target before the    *)
(* container is known to be gone.                                           *)
LeaseHeld ==
  \A r \in Runs :
    (Exists(r) \/ r \in inflight \/ ThreadAt(r, "creating"))
      => r \in lock[TargetOf(r)]

(* "No new start is invoked after terminal closure" (start_once), and none  *)
(* twice, although the thread outlives the call that finished its run.      *)
StartWhileRunning ==
  \A r \in Runs : starts'[r] # starts[r]
    => run[r].status = "running" /\ starts[r] = 0
StartsWhileRunning == [][StartWhileRunning]_vars

(* A passed or failed result is about the target as it was enrolled: it was *)
(* not restarted before, during or after the probe it reports.              *)
VerdictOfEnrolled ==
  \A r \in Runs : run[r].result \in {"passed", "failed"}
    => run[r].probed = 0 /\ run[r].started

(* A result that another call has recorded for the run is never replaced by *)
(* the one of a late thread or a late caller.                               *)
ResultStays ==
  \A r \in Runs : run[r].result # "none"
    => run'[r].result = run[r].result
ResultFinal == [][ResultStays]_vars
===============================================================================
