----------------------------- MODULE LiveRuntime -----------------------------
(***************************************************************************)
(* The live runtime of the trusted checker: operator's processes that      *)
(* provision a target, submit a run, roll back, clean up and recover,      *)
(* against one journal and one Docker daemon.  A process may die between   *)
(* any two transactions; a call to the daemon may be answered, refused or  *)
(* lost, and a lost call may still be executed later; containers may be    *)
(* restarted from outside.  Both processes may work on the same request.   *)
(*                                                                         *)
(* A process between two transactions is at a program point (pc); what it  *)
(* read from the daemon before a transaction is kept in seen.  A create or *)
(* start call is made inside a transaction: the process passes its last    *)
(* checks under the journal's lock and makes the call, in a later step,    *)
(* while it still holds it.  The optional sealed mock network session is   *)
(* left out.                                                               *)
(***************************************************************************)
EXTENDS RuntimeAuthority

CONSTANTS
  Procs,
  MaxFaults    \* bound on deaths, lost calls, restarts, deadlines, controls

VARIABLES
  box,       \* containers at the daemon, one for each object
  inflight,  \* calls without an answer that the daemon may still execute
  calls,     \* create and start calls made for each object
  proc,      \* the processes
  lock,      \* SQLite's write lock, while a call to the daemon is made under it
  faults     \* counter for MaxFaults

docker == <<box, inflight, calls>>
vars == <<authority, docker, proc, lock, faults>>

NoBox == [status |-> "none", gen |-> 0]
Exists(o) == box[o].status \in {"created", "running", "exited"}

Nothing == [target |-> NoBox, runner |-> NoBox, probe |-> NoProbe]
Idle == [pc |-> "idle", on |-> {}, phase |-> "none", seen |-> Nothing]

Init ==
  /\ control = [enabled |-> TRUE, epoch |-> 1, stopped |-> FALSE]
  /\ revoked = {} /\ late = {}
  /\ obj = [o \in Objects |-> Absent]
  /\ box = [o \in Objects |-> NoBox]
  /\ inflight = {}
  /\ calls = [o \in Objects |-> [create |-> 0, start |-> 0]]
  /\ proc = [p \in Procs |-> Idle]
  /\ lock = {}
  /\ faults = 0

\* ------------------------------------------------------------ control flow

At(p, o, pc) == proc[p].pc = pc /\ proc[p].on = {o}
Goto(p, o, pc) ==
  proc' = [proc EXCEPT ![p] = [Idle EXCEPT !.pc = pc, !.on = {o}]]
Look(p, o, phase) ==
  proc' = [proc EXCEPT
             ![p] = [Idle EXCEPT !.pc = "look", !.on = {o}, !.phase = phase]]
Done(p) == proc' = [proc EXCEPT ![p] = Idle]

\* The handlers of provision_new and of submit.
Fail(p, o) == Goto(p, o, IF o \in Targets THEN "quarantine" ELSE "abandon")

\* BEGIN IMMEDIATE: nobody else is inside a transaction.
FreeMutant == TRUE

Free == lock = {}

\* What a transaction of a process needs and leaves alone.
Quiet == Free /\ UNCHANGED <<control, revoked, late, lock, faults>>
Unanswered == faults < MaxFaults /\ faults' = faults + 1

\* A transaction at pc: the effect and the next point, or Denied.
Transaction(p, o, pc, may, effect, next) ==
  /\ At(p, o, pc)
  /\ \/ may /\ effect /\ next
     \/ ~may /\ UNCHANGED obj /\ Fail(p, o)
  /\ Quiet /\ UNCHANGED docker

\* ------------------------------------------- requests: provision_new, submit

ProvisionNewMutant(p, t) ==
  /\ proc[p] = Idle
  /\ Admitting
  /\ \/ MayProvision(t) /\ provision(t) /\ Goto(p, t, "create")
     \/ /\ obj[t].phase = "create_requested"
        /\ UNCHANGED obj /\ Goto(p, t, "call")
  /\ Quiet /\ UNCHANGED docker

ProvisionNew(p, t) ==
  /\ proc[p] = Idle
  /\ Admitting
  /\ \/ MayProvision(t) /\ provision(t)
     \/ obj[t].phase = "intent_recorded" /\ UNCHANGED obj
  /\ Goto(p, t, "create")
  /\ Quiet /\ UNCHANGED docker

\* A run that another call has already advanced is only expired.
Submit(p, r, t) ==
  /\ proc[p] = Idle
  /\ \/ MayReserve(r, t) /\ reserve_run(r, t) /\ Look(p, r, "before_create")
     \/ /\ ValidEnrollment(t) /\ obj[r].target = {t}
        /\ \/ /\ obj[r].phase = "reserved"
              /\ UNCHANGED obj /\ Look(p, r, "before_create")
           \/ obj[r].phase # "reserved" /\ expire_run(r) /\ UNCHANGED proc
  /\ Quiet /\ UNCHANGED docker

\* -------------------------------------------------------- adapter.create

BeginCreate(p, o) ==
  Transaction(p, o, "create", MayBeginCreate(o), begin_create(o),
              Goto(p, o, "fence"))

DispatchCreate(p, o) ==
  /\ At(p, o, "fence")
  /\ \/ MayDispatchCreate(o) /\ create_dispatch(o) /\ Goto(p, o, "call")
     \/ ~MayDispatchCreate(o) /\ UNCHANGED obj /\ Goto(p, o, "unconfirmed")
  /\ Quiet /\ UNCHANGED docker

\* The last look at the controls before a call, in the fence's second
\* transaction: the process goes on with the lock, or is refused.
Pass(p, o, pc, may, refused) ==
  /\ At(p, o, pc) /\ Free
  /\ \/ may /\ lock' = {p} /\ UNCHANGED proc
     \/ ~may /\ refused /\ UNCHANGED lock
  /\ UNCHANGED <<authority, docker, faults>>

PassCreate(p, o) ==
  Pass(p, o, "call", MayCreate(o), Goto(p, o, "unconfirmed"))

\* The call itself, made and answered with the lock held: nothing is looked at
\* again, although the stop file and the clock do not wait for the lock.
CallCreate(p, o) ==
  /\ At(p, o, "call") /\ lock = {p}
  /\ calls' = [calls EXCEPT ![o].create = @ + 1]
  /\ \/ /\ box' = [box EXCEPT ![o].status = "created"]
        /\ Goto(p, o, "respond")
        /\ UNCHANGED <<inflight, faults>>
     \/ /\ Unanswered
        /\ \/ inflight' = inflight \cup {<<"create", o>>}
           \/ UNCHANGED inflight
        /\ Goto(p, o, "unconfirmed")
        /\ UNCHANGED box
  /\ lock' = {}
  /\ UNCHANGED authority

RecordResponse(p, o) ==
  Transaction(p, o, "respond", MayRecordResponse(o),
              record_create_response(o),
              IF o \in Targets THEN Goto(p, o, "start")
              ELSE Look(p, o, "before_start"))

\* No answer: the adapter quarantines, then the handler runs.
Unconfirmed(p, o) ==
  /\ At(p, o, "unconfirmed")
  /\ quarantine(o) /\ Fail(p, o)
  /\ Quiet /\ UNCHANGED docker

Quarantine(p, t) ==
  /\ At(p, t, "quarantine")
  /\ quarantine(t) /\ Done(p)
  /\ Quiet /\ UNCHANGED docker

\* ----------------------------------------------------------- start a target

DispatchTargetStart(p, t) ==
  Transaction(p, t, "start", MayDispatchTargetStart(t) /\ Exists(t),
              target_start_dispatch(t), Goto(p, t, "start_call"))

\* A start call: executed, lost, or refused because the container is gone.
CallStart(o) ==
  /\ calls' = [calls EXCEPT ![o].start = @ + 1]
  /\ \/ /\ box[o].status = "created"
        /\ box' = [box EXCEPT ![o] = [status |-> "running", gen |-> 1]]
        /\ UNCHANGED <<inflight, faults>>
     \/ /\ Unanswered
        /\ inflight' = inflight \cup {<<"start", o>>}
        /\ UNCHANGED box

PassStartTarget(p, t) ==
  Pass(p, t, "start_call", MayStartTarget(t), Fail(p, t))

StartTarget(p, t) ==
  /\ At(p, t, "start_call") /\ lock = {p}
  /\ CallStart(t)
  /\ IF inflight' = inflight THEN Look(p, t, "enroll") ELSE Fail(p, t)
  /\ lock' = {}
  /\ UNCHANGED authority

Verify(p, t) ==
  Transaction(p, t, "enroll", MayVerifyProvision(t, proc[p].seen),
              verify_provision(t, proc[p].seen), Goto(p, t, "enroll2"))

Enroll(p, t) ==
  Transaction(p, t, "enroll2", MayEnroll(t), enroll(t), Done(p))

\* -------------------------------------------------------------- observations

\* Reading the daemon for a phase; evidence that cannot be had is a refusal.
Observe(p, o) ==
  LET seen == [Nothing EXCEPT
                 !.target = IF o \in Targets THEN box[o]
                            ELSE box[CHOOSE t \in obj[o].target : TRUE],
                 !.runner = IF o \in Targets THEN NoBox ELSE box[o]]
  IN /\ At(p, o, "look")
     /\ \/ proc' = [proc EXCEPT ![p].pc = proc[p].phase, ![p].seen = seen]
        \/ Fail(p, o)
     /\ UNCHANGED <<authority, docker, lock, faults>>

\* --------------------------------------------------------- the run's phases

AfterPhase(p, r, phase) ==
  CASE phase = "before_create" -> Goto(p, r, "create")
    [] phase = "before_start" -> Goto(p, r, "authorize")
    [] phase = "before_probe" -> Goto(p, r, "release")
    [] phase = "after_probe" -> Look(p, r, "before_publish")
    [] phase = "before_publish" -> Goto(p, r, "finish")

Check(p, r) ==
  \E phase \in DOMAIN ExpectedPhase :
    Transaction(p, r, phase, MayCheckTarget(r, phase, proc[p].seen),
                check_target(r, phase), AfterPhase(p, r, phase))

Authorize(p, r) ==
  Transaction(p, r, "authorize", MayAuthorizeStart(r), authorize_start(r),
              Goto(p, r, "start"))

DispatchStart(p, r) ==
  Transaction(p, r, "start", MayDispatchStart(r), start_dispatch(r),
              Goto(p, r, "start_call"))

PassStartRunner(p, r) == Pass(p, r, "start_call", MayStart(r), Fail(p, r))

StartRunner(p, r) ==
  /\ At(p, r, "start_call") /\ lock = {p}
  /\ CallStart(r)
  /\ IF inflight' = inflight /\ MayRecordStart(r)
     THEN start_invoked(r) /\ Look(p, r, "live")
     ELSE UNCHANGED obj /\ Fail(p, r)
  /\ lock' = {}
  /\ UNCHANGED <<control, revoked, late>>

RecordLive(p, r) ==
  Transaction(p, r, "live", MayRecordLive(r, proc[p].seen),
              record_runner_live(r, proc[p].seen), Look(p, r, "before_probe"))

Release(p, r) ==
  Transaction(p, r, "release", MayRelease(r), probe_release(r),
              Goto(p, r, "probe"))

\* The runner asks whatever target runs now; a refused connection is a
\* failed check, an uncertain transport an unknown one.
Probe(p, r) ==
  /\ At(p, r, "probe")
  /\ \/ /\ box[r].status = "running"
        /\ \E t \in obj[r].target, outcome \in {"passed", "failed", "unknown"} :
             /\ outcome = "passed" => box[t].status = "running"
             /\ proc' = [proc EXCEPT ![p].pc = "record_probe",
                  ![p].seen.probe = [target |-> box[t].gen,
                                     runner |-> box[r].gen,
                                     outcome |-> outcome]]
     \/ Fail(p, r)
  /\ UNCHANGED <<authority, docker, lock, faults>>

RecordProbe(p, r) ==
  Transaction(p, r, "record_probe", MayRecordProbe(r),
              record_probe(r, proc[p].seen.probe), Look(p, r, "after_probe"))

DispatchFinish(p, r) ==
  Transaction(p, r, "finish", MayDispatchFinish(r), finish_dispatch(r),
              Goto(p, r, "wait"))

\* FINISH ends the runner; its output must still be what was collected, which
\* the runner of another start does not print.
Wait(p, r) ==
  /\ At(p, r, "wait")
  /\ \/ /\ box[r].status = "running"
        /\ box' = [box EXCEPT ![r].status = "exited"]
        /\ IF box[r].gen = obj[r].probe.runner THEN Look(p, r, "finished")
           ELSE Fail(p, r)
     \/ Fail(p, r) /\ UNCHANGED box
  /\ UNCHANGED <<authority, inflight, calls, lock, faults>>

RecordFinished(p, r) ==
  Transaction(p, r, "finished", MayRecordFinished(r, proc[p].seen),
              record_runner_finished(r), Goto(p, r, "publish"))

Publish(p, r) ==
  /\ At(p, r, "publish")
  /\ publish(r) /\ Goto(p, r, "confirm")
  /\ Quiet /\ UNCHANGED docker

Abandon(p, r) ==
  /\ At(p, r, "abandon")
  /\ unknown(r) /\ Goto(p, r, "confirm")
  /\ Quiet /\ UNCHANGED docker

\* ------------------------------------------- ExactCleanup, OwnershipRecovery

Cleanup(p, o) ==
  /\ proc[p] = Idle /\ "owned" \in obj[o].docs
  /\ Goto(p, o, "confirm")
  /\ Quiet /\ UNCHANGED <<obj, docker>>

Confirm(p, o) ==
  /\ At(p, o, "confirm") /\ Free
  /\ IF CleanupAllowed(o) /\ obj[o].cleanup # "confirmed" /\ Exists(o)
     THEN Goto(p, o, "remove") ELSE Done(p)
  /\ UNCHANGED <<authority, docker, lock, faults>>

\* DELETE by the exact id: only its own 204 counts.
RemoveMutant(p, o) ==
  /\ At(p, o, "remove")
  /\ \/ /\ Exists(o)
        /\ box' = [box EXCEPT ![o].status = "removed"]
        /\ Goto(p, o, "ack") /\ UNCHANGED <<inflight, faults>>
     \/ /\ Exists(o) /\ Unanswered
        /\ inflight' = inflight \cup {<<"remove", o>>}
        /\ Goto(p, o, "ack") /\ UNCHANGED box
     \/ ~Exists(o) /\ Done(p) /\ UNCHANGED <<box, inflight, faults>>
  /\ UNCHANGED <<authority, calls, lock>>

Remove(p, o) ==
  /\ At(p, o, "remove")
  /\ \/ /\ Exists(o)
        /\ box' = [box EXCEPT ![o].status = "removed"]
        /\ Goto(p, o, "ack") /\ UNCHANGED <<inflight, faults>>
     \/ /\ Exists(o) /\ Unanswered
        /\ inflight' = inflight \cup {<<"remove", o>>}
        /\ Done(p) /\ UNCHANGED box
     \/ ~Exists(o) /\ Done(p) /\ UNCHANGED <<box, inflight, faults>>
  /\ UNCHANGED <<authority, calls, lock>>

Acknowledge(p, o) ==
  /\ At(p, o, "ack")
  /\ IF "remove_ack" \in obj[o].docs THEN Done(p) /\ UNCHANGED obj
     ELSE /\ Put(o, [obj[o] EXCEPT !.docs = @ \cup {"remove_ack"}])
          /\ Goto(p, o, "record_cleanup")
  /\ Quiet /\ UNCHANGED docker

RecordCleanup(p, o) ==
  /\ At(p, o, "record_cleanup")
  /\ IF MayRecordCleanup(o) THEN record_cleanup(o) ELSE UNCHANGED obj
  /\ Done(p)
  /\ Quiet /\ UNCHANGED docker

\* An independent trace names the container of a dispatched create that was
\* never answered; it is owned for its cleanup only.
Recover(o) ==
  /\ obj[o].phase = "quarantined" \/ obj[o].result = "unknown"
  /\ MayRecordResponse(o)
  /\ box[o] = [status |-> "created", gen |-> 0]
  /\ record_create_response(o)
  /\ Quiet /\ UNCHANGED <<docker, proc>>

\* kill, revoke the binding, remove the target.
RollbackTarget(p, t) ==
  /\ proc[p] = Idle /\ MayRevokeBinding(t)
  /\ request_stop /\ Goto(p, t, "revoke")
  /\ UNCHANGED <<docker, lock, faults>>

RevokeBinding(p, t) ==
  /\ At(p, t, "revoke") /\ Free
  /\ revoke_binding(t) /\ Goto(p, t, "confirm")
  /\ UNCHANGED <<docker, lock, faults>>

\* ---------------------------------------------- controls and the environment

\* The switch and the approval are rows of the journal, the stop is a file and
\* the deadline a time: these two do not wait for the lock.
Control ==
  /\ \/ Free /\ \E on \in BOOLEAN : set_enabled(on)
     \/ Free /\ revoke_approval
     \/ request_stop
     \/ \E o \in Objects : /\ obj[o].phase # "absent" /\ o \notin late
                           /\ late' = late \cup {o}
                           /\ UNCHANGED <<control, revoked, obj>>
  /\ Unanswered /\ UNCHANGED <<docker, proc, lock>>

\* Not every lost call is executed; one that is may come at any time.
Execute(op) ==
  /\ inflight' = inflight \ {op}
  /\ LET o == op[2] IN
     \/ /\ op[1] = "create"
        /\ box' = [box EXCEPT ![o].status = "created"]
     \/ /\ op[1] = "start" /\ box[o].status = "created"
        /\ box' = [box EXCEPT ![o] = [status |-> "running", gen |-> 1]]
     \/ /\ op[1] = "remove" /\ Exists(o)
        /\ box' = [box EXCEPT ![o].status = "removed"]
  /\ UNCHANGED <<authority, calls, proc, lock, faults>>

\* A restart from outside keeps the container and changes its start.
Restart(o) ==
  /\ box[o].status = "running" /\ Unanswered
  /\ \/ box' = [box EXCEPT ![o].gen = @ + 1]
     \/ box' = [box EXCEPT ![o].status = "exited"]
  /\ UNCHANGED <<authority, inflight, calls, proc, lock>>

\* SQLite drops the lock of a process that died.
Die(p) ==
  /\ proc[p] # Idle /\ Unanswered
  /\ Done(p) /\ lock' = lock \ {p}
  /\ UNCHANGED <<authority, docker>>

\* A transaction waits a second for the lock.  In a handler, and in a cleanup,
\* the error ends the work as a death does.
LockTimeout(p, o) ==
  /\ ~Free /\ p \notin lock /\ proc[p].on = {o} /\ Unanswered
  /\ \/ proc[p].pc \in {"fence", "call"} /\ Goto(p, o, "unconfirmed")
     \/ /\ proc[p].pc \in
             {"create", "unconfirmed", "respond", "start", "start_call",
              "enroll", "enroll2", "authorize", "live", "release",
              "record_probe", "finish", "finished", "publish"}
             \cup DOMAIN ExpectedPhase
        /\ Fail(p, o)
  /\ UNCHANGED <<authority, docker, lock>>

Expire(r) ==
  /\ obj[r].phase # "absent"
  /\ expire_run(r)
  /\ Quiet /\ UNCHANGED <<docker, proc>>

Provisioning(p, t) ==
  \/ ProvisionNew(p, t) \/ Quarantine(p, t) \/ DispatchTargetStart(p, t)
  \/ PassStartTarget(p, t) \/ StartTarget(p, t) \/ Verify(p, t)
  \/ Enroll(p, t)
  \/ RollbackTarget(p, t) \/ RevokeBinding(p, t)

Running(p, r) ==
  \/ \E t \in Targets : Submit(p, r, t)
  \/ Check(p, r) \/ Authorize(p, r) \/ DispatchStart(p, r)
  \/ PassStartRunner(p, r) \/ StartRunner(p, r) \/ RecordLive(p, r)
  \/ Release(p, r) \/ Probe(p, r)
  \/ RecordProbe(p, r) \/ DispatchFinish(p, r) \/ Wait(p, r)
  \/ RecordFinished(p, r) \/ Publish(p, r) \/ Abandon(p, r)

Either(p, o) ==
  \/ BeginCreate(p, o) \/ DispatchCreate(p, o) \/ PassCreate(p, o)
  \/ CallCreate(p, o) \/ LockTimeout(p, o)
  \/ RecordResponse(p, o) \/ Unconfirmed(p, o) \/ Observe(p, o)
  \/ Cleanup(p, o) \/ Confirm(p, o) \/ Remove(p, o) \/ Acknowledge(p, o)
  \/ RecordCleanup(p, o)

Next ==
  \/ \E p \in Procs : \/ \E t \in Targets : Provisioning(p, t)
                      \/ \E r \in Runs : Running(p, r)
                      \/ \E o \in Objects : Either(p, o)
                      \/ Die(p)
  \/ \E o \in Objects : Recover(o) \/ Restart(o)
  \/ \E r \in Runs : Expire(r)
  \/ \E op \in inflight : Execute(op)
  \/ Control

Spec == Init /\ [][Next]_vars

-------------------------------------------------------------------------------
\* A container of an object, or one that may still appear.
Outstanding(o) == Exists(o) \/ <<"create", o>> \in inflight

(* Deaths, lost answers, repeated requests and two processes on one request *)
(* never make the runtime create or start the container of an object twice: *)
(* the dispatch is committed before the call and is never taken back.       *)
AtMostOnce == \A o \in Objects : calls[o].create <= 1 /\ calls[o].start <= 1

(* A container that exists, or that a lost call may still create, is on the *)
(* books: its dispatch is recorded and its cleanup is neither waived nor    *)
(* confirmed.  So the breaker and the capacity rule can see it.             *)
NoOrphan ==
  \A o \in Objects :
    Outstanding(o) => /\ "create_dispatch" \in obj[o].docs
                      /\ obj[o].cleanup \in {"quarantined", "pending",
                                             "retained"}

(* The pilot's capacity: one target and one runner at a time, whatever      *)
(* earlier ones left behind.                                                *)
Capacity ==
  /\ Cardinality({t \in Targets : Outstanding(t)}) <= 1
  /\ Cardinality({r \in Runs : Outstanding(r)}) <= 1

(* A published verdict comes from a probe by the runner that was recorded   *)
(* live, of the very start of the target that was enrolled, although both   *)
(* may be restarted between the observations.                               *)
VerdictOfEnrolled ==
  \A r \in Runs : obj[r].result \in {"passed", "failed"} =>
    /\ \A t \in obj[r].target : obj[r].probe.target = obj[t].base
    /\ obj[r].probe.runner = obj[r].base
    /\ obj[r].result = obj[r].probe.outcome

(* Once the runtime was stopped nobody passes the last check any more, so   *)
(* only the one process that had passed it may still make its call.  The    *)
(* same holds of a passed deadline.  The journal's own controls cannot      *)
(* change under that process: at the moment of the call the runtime is      *)
(* enabled as it was when the object was admitted, the approval stands, the *)
(* object is still to be created, and the target of a started run is not    *)
(* revoked.                                                                 *)
CallAuthorised ==
  /\ control.stopped => lock' \subseteq lock
  /\ \A p \in lock' \ lock : proc[p].on \cap late = {}
  /\ \A o \in Objects : calls'[o] # calls[o] =>
       /\ \E p \in Procs : lock = {p} /\ proc[p].on = {o} /\ lock' = {}
       /\ control.enabled /\ obj[o].epoch = control.epoch
       /\ "approval" \notin revoked
       /\ calls'[o].create # calls[o].create => obj[o].phase = "create_requested"
       /\ o \in Runs /\ calls'[o].start # calls[o].start
            => obj[o].target \cap revoked = {}
CallsAreAuthorised == [][CallAuthorised]_vars

(* What recovery.py says of the start: an ended run is not started.         *)
EndedNeverStarts ==
  [][\A r \in Runs : calls'[r].start # calls[r].start
       => obj[r].result = "none"]_vars
===============================================================================
