------------------------------ MODULE MCTrusted ------------------------------
(***************************************************************************)
(* The three runtimes of the trusted checker in one instance for TLC.  They *)
(* are separate programs: a behaviour is one of the part that is chosen at  *)
(* first.  Variables of one name serve each part in turn, and a variable    *)
(* the part does not have is off.                                           *)
(***************************************************************************)
EXTENDS Naturals, FiniteSets, TLC

CONSTANTS
  Parts,        \* "live", "capacity", "poc", "shadow", "requests"
  MaxFaults,    \* deaths, lost calls and the like in a behaviour
  Pair,         \* two targets of the live runtime
  Targets,      \* the first of them
  Runs,         \* two runs
  MaxParallel,
  Procs,        \* two processes
  Keys, Requests, Payloads, MaxEpoch, MaxDeaths

\* The claim of an attempt is not the claim of a run.
ASSUME PairNotRuns == Pair \cap Runs = {}

VARIABLES
  part,
  control, late, proc, calls,    \* of the live runtime and of shadow runs
  box, inflight, faults, lock,   \* of the live runtime and of the broker
  run,                           \* of the broker and of shadow runs
  revoked, obj,
  thread, caller, gen, starts,
  alias, backend, lost, deaths

Live == INSTANCE LiveRuntime WITH Targets <- Pair
Poc == INSTANCE PocBroker
Shadow == INSTANCE ShadowRuns

Off(v) == v = "off"
LiveOff == Off(revoked) /\ Off(obj)
PocOff ==
  Off(thread) /\ Off(caller) /\ Off(gen) /\ Off(starts)
ShadowOff == Off(alias) /\ Off(backend) /\ Off(lost) /\ Off(deaths)

Init ==
  /\ part \in Parts
  /\ \/ part \in {"live", "capacity"} /\ Live!Init /\ Off(run) /\ PocOff /\ ShadowOff
     \/ /\ part = "poc" /\ Poc!Init
        /\ Off(control) /\ Off(proc) /\ Off(calls) /\ LiveOff /\ ShadowOff
     \/ /\ part \in {"shadow", "requests"} /\ Shadow!Init
        /\ Off(box) /\ Off(inflight) /\ Off(faults) /\ Off(lock)
        /\ LiveOff /\ PocOff

pocVars == <<thread, caller, gen, starts>>
shadowVars == <<alias, backend, lost, deaths>>

\* "live": both processes on one target and one run.  "capacity": one process on
\* all, while nobody stops the runtime, revokes anything or is late.
LiveNext ==
  /\ Live!Next
  /\ part = "live" =>
       LET used == {o \in Live!Objects : obj'[o].phase # "absent"}
       IN used \cap Pair \subseteq Targets /\ Cardinality(used \cap Runs) <= 1
  /\ part = "capacity" =>
       /\ UNCHANGED <<control, late, revoked>>
       /\ \E p \in Procs : \A q \in Procs \ {p} : proc'[q].pc = "idle"
  /\ UNCHANGED <<run, pocVars, shadowVars>>
PocNext ==
  /\ part = "poc" /\ Poc!Next
  /\ UNCHANGED <<control, proc, calls, revoked, obj, shadowVars>>

\* "shadow": one payload.  "requests": payloads that differ, and nobody dies.
ShadowNext ==
  /\ Shadow!Next
  /\ part = "shadow" =>
       \A q \in Requests : \A a \in alias'[q] : a[2] = "f1"
  /\ part = "requests" => deaths' = 0 /\ control'.epoch <= 1
  /\ UNCHANGED <<box, inflight, faults, lock, revoked, obj, pocVars>>

Next ==
  /\ UNCHANGED part
  /\ \/ part \in {"live", "capacity"} /\ LiveNext
     \/ PocNext
     \/ part \in {"shadow", "requests"} /\ ShadowNext

vars == <<part, control, late, proc, calls, box, inflight, faults, lock, run,
          revoked, obj, pocVars, shadowVars>>
Spec == Init /\ [][Next]_vars

Symmetry == UNION {Permutations(S) : S \in {Runs, Procs, Keys, Requests}}

-----------------------------------------------------------------------------
(* The properties of the parts, each stated in its module.                 *)

\* Deaths, lost answers, repeated requests and two processes on one request
\* never make the live runtime create or start a container twice, nor the
\* live runtime and the broker two of them for one target; what exists and
\* what a lost call may still create is on the books of the authority or holds
\* its lease; and a published verdict comes from a probe of the very start of
\* the target that was enrolled.
ContainersAccounted ==
  /\ part \in {"live", "capacity"} =>
       Live!AtMostOnce /\ Live!NoOrphan /\ Live!Capacity /\ Live!VerdictOfEnrolled
  /\ part = "poc" => Poc!LeaseHeld /\ Poc!VerdictOfEnrolled

\* Coordinators that die, lose answers or repeat requests never make the
\* shadow issue or start an execution twice or two at a time, nothing that may
\* exist is forgotten, and requests with the same id or the same canonical key
\* get the run that was made from exactly their payload.
ShadowKept == part \in {"shadow", "requests"} => Shadow!ShadowKept

\* After a stop or a deadline nobody in the live runtime passes the last check
\* before a call, so at most the one call behind it is still made, and no call
\* ever finds the switch, the approval or the object's phase changed since that
\* check.  The broker starts no runner whose run was finished, although a
\* thread outlives the call that finished it; a killed or late shadow run is
\* neither started nor given a verdict; and a result that was recorded or
\* reported never changes.
StopsAndResultsStand ==
  [][/\ part \in {"live", "capacity"} => Live!CallAuthorised
     /\ part = "poc" => Poc!StartWhileRunning /\ Poc!ResultStays
     /\ part \in {"shadow", "requests"} => Shadow!KillComesFirst /\ Shadow!ReportStays]_vars
==============================================================================
