--------------------------- MODULE RuntimeAuthority ---------------------------
(***************************************************************************)
(* The runtime authority of the trusted checker: the journal of the        *)
(* targets and runs it admitted, and the rules of each of its              *)
(* transactions.  A transaction X has a guard MayX (what the code requires *)
(* before it writes) and an effect X; a violated guard is the code's       *)
(* Denied.  SQLite runs every transaction under one write lock, so a       *)
(* transaction is one step.  LiveRuntime puts them in the order in which   *)
(* the operator's processes call them.                                     *)
(*                                                                         *)
(* Identifiers, digests and signatures are abstracted: a receipt is        *)
(* genuine and belongs to its object.  Time is abstracted to the set of    *)
(* objects whose deadline has passed; a stale or foreign observation is a  *)
(* refusal that LiveRuntime allows at every observation.                   *)
(***************************************************************************)
EXTENDS Integers, FiniteSets

CONSTANTS
  Targets,   \* provisionings, one for each attempt: the claim of an attempt
  Runs       \* sample slots: the claim of a run

Objects == Targets \cup Runs

VARIABLES
  control,   \* rt_control and the stop marker beside the journal
  revoked,   \* rt_revocations: "approval" and the bindings of targets
  late,      \* objects whose deadline has passed
  obj        \* rt_objects with their rt_documents

authority == <<control, revoked, late, obj>>

NoProbe == [target |-> 0, runner |-> 0, outcome |-> "none"]

Absent ==
  [phase |-> "absent", cleanup |-> "not_required", epoch |-> 0,
   result |-> "none",  \* of the terminal document
   docs |-> {},        \* documents that are written once
   target |-> {},      \* run_enrollment: the target of a run
   base |-> 0,         \* generation in target_baseline or runner_live
   probe |-> NoProbe]

Put(o, fields) == obj' = [obj EXCEPT ![o] = fields]

\* --------------------------------------------------------------- the rules

\* The stop marker, the approval, the switch.
Admitting ==
  /\ ~control.stopped
  /\ control.enabled
  /\ "approval" \notin revoked

\* ... and for an object that was admitted: its epoch and its deadline.
Current(o) ==
  /\ Admitting
  /\ obj[o].epoch = control.epoch
  /\ o \notin late

UnresolvedMutant(o) ==
  /\ obj[o].phase \in {"create_requested", "quarantined"}
  /\ obj[o].cleanup # "confirmed"

Unresolved(o) ==
  \/ /\ obj[o].phase \in {"create_requested", "quarantined"}
     /\ obj[o].cleanup # "confirmed"
  \/ /\ obj[o].result # "none"
     /\ obj[o].cleanup \in {"pending", "quarantined"}

CircuitClosed(except) == \A o \in Objects \ except : ~Unresolved(o)

ValidEnrollment(t) ==
  obj[t].phase = "enrolled" /\ t \notin revoked /\ Admitting

\* Targets need no enrollment while they are provisioned.
EnrollmentValid(o) == \A t \in obj[o].target : ValidEnrollment(t)

\* A run ends once; what its cleanup owes depends on what was dispatched.
Terminal(row, outcome) ==
  IF row.result # "none" THEN row
  ELSE [row EXCEPT
         !.phase = "terminal", !.result = outcome,
         !.cleanup = IF "owned" \in row.docs THEN "pending"
                     ELSE IF "create_dispatch" \in row.docs THEN "quarantined"
                     ELSE "not_required"]

\* ------------------------------------------------------ operator's controls

set_enabled(on) ==
  /\ control' = [control EXCEPT !.enabled = on, !.epoch = @ + 1]
  /\ UNCHANGED <<revoked, late, obj>>

\* A file beside the journal, written without its lock and never removed.
request_stop ==
  /\ control' = [control EXCEPT !.stopped = TRUE]
  /\ UNCHANGED <<revoked, late, obj>>

revoke_approval ==
  /\ revoked' = revoked \cup {"approval"}
  /\ UNCHANGED <<control, late, obj>>

MayRevokeBinding(t) == "enrollment" \in obj[t].docs

revoke_binding(t) ==
  /\ revoked' = revoked \cup {t}
  /\ Put(t, [obj[t] EXCEPT !.phase = "quarantined", !.cleanup = "pending"])
  /\ UNCHANGED <<control, late>>

\* -------------------------------------------------------- admission, create

MayProvision(t) ==
  /\ Admitting
  /\ obj[t].phase = "absent"
  /\ CircuitClosed({})
  /\ \A u \in Targets :
       obj[u].phase # "absent" => obj[u].cleanup = "confirmed"

provision(t) ==
  Put(t, [Absent EXCEPT !.phase = "intent_recorded", !.epoch = control.epoch])

MayReserve(r, t) ==
  /\ ValidEnrollment(t)
  /\ obj[r].phase = "absent"
  /\ CircuitClosed({})
  /\ \A q \in Runs : obj[q].phase # "absent" => obj[q].result # "none"

reserve_run(r, t) ==
  Put(r, [Absent EXCEPT !.phase = "reserved", !.epoch = control.epoch,
                        !.target = {t}])

MayBeginCreate(o) ==
  /\ Current(o)
  /\ CircuitClosed({o})
  /\ obj[o].phase = IF o \in Targets THEN "intent_recorded"
                    ELSE "checked_create"
  /\ EnrollmentValid(o)

begin_create(o) ==
  Put(o, [obj[o] EXCEPT !.phase = "create_requested",
                        !.cleanup = "quarantined"])

\* First transaction of create_fence.
MayDispatchCreate(o) ==
  /\ Current(o)
  /\ obj[o].phase = "create_requested"
  /\ "create_dispatch" \notin obj[o].docs
  /\ EnrollmentValid(o)

create_dispatch(o) ==
  Put(o, [obj[o] EXCEPT !.docs = @ \cup {"create_dispatch"}])

\* Second transaction, and the stop and deadline tests of _call within it.
MayCreateMutant(o) == obj[o].phase = "create_requested"

MayCreate(o) == Current(o) /\ obj[o].phase = "create_requested"

MayRecordResponse(o) ==
  "create_dispatch" \in obj[o].docs /\ "owned" \notin obj[o].docs

\* A late response is owned for its cleanup and is never admitted.
record_create_response(o) ==
  LET live == /\ obj[o].result = "none"
              /\ obj[o].phase = "create_requested"
              /\ Current(o)
              /\ EnrollmentValid(o)
      owned == [obj[o] EXCEPT !.docs = @ \cup {"owned"}]
  IN Put(o, IF obj[o].result # "none" THEN [owned EXCEPT !.cleanup = "pending"]
            ELSE IF ~live
            THEN [owned EXCEPT !.phase = "quarantined", !.cleanup = "pending"]
            ELSE IF o \in Targets
            THEN [owned EXCEPT !.phase = "exact_id_recorded",
                               !.cleanup = "retained"]
            ELSE [owned EXCEPT !.phase = "runner_owned",
                               !.cleanup = "pending"])

quarantine(o) ==
  Put(o, IF obj[o].result # "none" THEN obj[o]
         ELSE [obj[o] EXCEPT !.phase = "quarantined",
                             !.cleanup = "quarantined"])

\* --------------------------------------------------- target start, enrolment

MayDispatchTargetStart(t) ==
  /\ Current(t)
  /\ obj[t].phase = "exact_id_recorded"
  /\ "start_dispatch" \notin obj[t].docs

target_start_dispatch(t) ==
  Put(t, [obj[t] EXCEPT !.docs = @ \cup {"start_dispatch"}])

MayStartTarget(t) == Current(t) /\ obj[t].phase = "exact_id_recorded"

\* seen: what the adapter observed of the target before the transaction.
MayVerifyProvision(t, seen) ==
  /\ Current(t)
  /\ obj[t].phase = "exact_id_recorded"
  /\ "start_dispatch" \in obj[t].docs
  /\ seen.target.status = "running"

verify_provision(t, seen) ==
  Put(t, [obj[t] EXCEPT !.phase = "identity_verified",
                        !.base = seen.target.gen])

MayEnroll(t) == Current(t) /\ obj[t].phase = "identity_verified"

enroll(t) ==
  Put(t, [obj[t] EXCEPT !.phase = "enrolled",
                        !.docs = @ \cup {"enrollment"}])

\* ------------------------------------------------------------- phases of a run

ExpectedPhase ==
  [before_create |-> "reserved", before_start |-> "runner_owned",
   before_probe |-> "running", after_probe |-> "probe_recorded",
   before_publish |-> "post_checked"]

NextPhase ==
  [before_create |-> "checked_create", before_start |-> "checked_start",
   before_probe |-> "probe_ready", after_probe |-> "post_checked",
   before_publish |-> "publish_checked"]

\* The target seen is the enrolled one: same container, same start.
SameTargetMutant(r, seen) == seen.target.status = "running"

SameTarget(r, seen) ==
  \A t \in obj[r].target :
    seen.target = [status |-> "running", gen |-> obj[t].base]

\* The runner seen is the one recorded live, still running or done.
SameRunner(r, seen) ==
  /\ seen.runner.status \in {"running", "exited"}
  /\ seen.runner.gen = obj[r].base

MayCheckTarget(r, phase, seen) ==
  /\ Current(r)
  /\ EnrollmentValid(r)
  /\ obj[r].result = "none"
  /\ obj[r].phase = ExpectedPhase[phase]
  /\ SameTarget(r, seen)
  /\ CASE phase = "before_create" -> TRUE
       [] phase = "before_start" -> seen.runner.status = "created"
       [] OTHER -> SameRunner(r, seen)

check_target(r, phase) == Put(r, [obj[r] EXCEPT !.phase = NextPhase[phase]])

MayAuthorizeStart(r) ==
  Current(r) /\ EnrollmentValid(r) /\ obj[r].phase = "checked_start"

authorize_start(r) == Put(r, [obj[r] EXCEPT !.phase = "start_authorized"])

MayDispatchStart(r) ==
  Current(r) /\ EnrollmentValid(r) /\ obj[r].phase = "start_authorized"

start_dispatch(r) ==
  Put(r, [obj[r] EXCEPT !.phase = "start_requested",
                        !.docs = @ \cup {"start_dispatch"}])

\* Second transaction of start_fence: the phase is not read again.
MayStart(r) == Current(r) /\ EnrollmentValid(r)

\* After the call; rt_terminal_immutable aborts the write on an ended run.
MayRecordStart(r) == obj[r].result = "none"

start_invoked(r) == Put(r, [obj[r] EXCEPT !.phase = "start_invoked"])

MayRecordLive(r, seen) ==
  /\ Current(r)
  /\ EnrollmentValid(r)
  /\ obj[r].phase = "start_invoked"
  /\ seen.runner.status = "running"

record_runner_live(r, seen) ==
  Put(r, [obj[r] EXCEPT !.phase = "running", !.base = seen.runner.gen])

MayRelease(r) ==
  /\ Current(r)
  /\ obj[r].phase = "probe_ready"
  /\ "probe_release" \notin obj[r].docs

probe_release(r) ==
  Put(r, [obj[r] EXCEPT !.docs = @ \cup {"probe_release"}])

MayRecordProbe(r) ==
  Current(r) /\ EnrollmentValid(r) /\ obj[r].phase = "probe_ready"

record_probe(r, probe) ==
  Put(r, [obj[r] EXCEPT !.phase = "probe_recorded", !.probe = probe])

MayDispatchFinish(r) ==
  obj[r].phase = "publish_checked" /\ "finish_dispatch" \notin obj[r].docs

finish_dispatch(r) ==
  Put(r, [obj[r] EXCEPT !.docs = @ \cup {"finish_dispatch"}])

MayRecordFinished(r, seen) ==
  /\ Current(r)
  /\ obj[r].phase = "publish_checked"
  /\ EnrollmentValid(r)
  /\ SameRunner(r, seen)
  /\ seen.runner.status = "exited"

record_runner_finished(r) ==
  Put(r, [obj[r] EXCEPT !.docs = @ \cup {"runner_finished"}])

MayPublish(r) ==
  /\ Current(r)
  /\ EnrollmentValid(r)
  /\ obj[r].phase = "publish_checked"
  /\ "runner_finished" \in obj[r].docs

unknown(r) == Put(r, Terminal(obj[r], "unknown"))

publish(r) ==
  IF MayPublish(r) THEN Put(r, Terminal(obj[r], obj[r].probe.outcome))
  ELSE unknown(r)

expire_run(r) ==
  IF Current(r) /\ EnrollmentValid(r) THEN Put(r, obj[r]) ELSE unknown(r)

\* ----------------------------------------------------------------- cleanup

CleanupAllowed(o) ==
  /\ "owned" \in obj[o].docs
  /\ IF o \in Runs THEN obj[o].result # "none"
     ELSE obj[o].phase = "quarantined"

MayRecordCleanup(o) == CleanupAllowed(o) /\ "cleanup" \notin obj[o].docs

record_cleanup(o) ==
  Put(o, [obj[o] EXCEPT !.cleanup = "confirmed",
                        !.docs = @ \cup {"cleanup"}])
===============================================================================
