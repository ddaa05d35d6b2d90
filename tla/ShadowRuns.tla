------------------------------ MODULE ShadowRuns ------------------------------
(***************************************************************************)
(* The offline shadow of the trusted checker: coordinators submit requests *)
(* to one SQLite store and drive one execution backend through issue,      *)
(* start, observation, result and cleanup, under a kill switch and a       *)
(* deadline.  Every transaction of ShadowStore holds the write lock and is *)
(* one step, the backend call made inside it included; dispatch_issue and  *)
(* start are two transactions each.  A coordinator may die at any point: a *)
(* death inside a transaction rolls it back but not the backend's call.    *)
(***************************************************************************)
EXTENDS Naturals, FiniteSets

CONSTANTS
  Procs,       \* calls of submit
  Keys,        \* canonical keys: enrollment, policy, sample slot, check
  Requests,    \* request uuids
  Payloads,    \* what else the fingerprint covers: the deadline, the evidence
  MaxEpoch,    \* bound on set_enabled
  MaxDeaths    \* bound on deaths of coordinators

VARIABLES
  control,     \* shadow_control
  run,         \* shadow_runs, by canonical key
  alias,       \* shadow_requests
  late,        \* runs whose deadline has passed
  proc,
  backend,     \* issued, started and cleaned executions
  calls,       \* issue and start calls made, by key
  lost,        \* issue calls whose receipt was never recorded
  deaths

vars == <<control, run, alias, late, proc, backend, calls, lost, deaths>>

NoRun == [lifecycle |-> "none", payload |-> {}, epoch |-> 0,
          dispatched |-> FALSE, started |-> FALSE, observed |-> FALSE,
          same |-> FALSE, result |-> "none", cleanup |-> "not_required",
          unresolved |-> FALSE]
Idle == [pc |-> "idle", key |-> {}, result |-> "none", same |-> FALSE,
         confirmed |-> FALSE]

Init ==
  /\ control = [enabled |-> FALSE, epoch |-> 0]
  /\ run = [k \in Keys |-> NoRun]
  /\ alias = [q \in Requests |-> {}]
  /\ late = {}
  /\ proc = [p \in Procs |-> Idle]
  /\ backend = [issued |-> {}, started |-> {}, cleaned |-> {}]
  /\ calls = [issue |-> [k \in Keys |-> 0], start |-> [k \in Keys |-> 0]]
  /\ lost = {}
  /\ deaths = 0

Key(p) == CHOOSE k \in Keys : k \in proc[p].key
At(p, pc) == proc[p].pc = pc
Go(p, pc) == proc' = [proc EXCEPT ![p].pc = pc]
Return(p) == proc' = [proc EXCEPT ![p] = Idle]
Write(k, row) == run' = [run EXCEPT ![k] = row]
IsTerminal(k) == run[k].lifecycle = "terminal"
Death == deaths < MaxDeaths /\ deaths' = deaths + 1
outside == <<alias, deaths>>

set_enabled(enabled) ==
  /\ control.epoch < MaxEpoch
  /\ control' = [enabled |-> enabled, epoch |-> control.epoch + 1]
  /\ UNCHANGED <<run, alias, late, proc, backend, calls, lost, deaths>>

\* Nothing of an earlier run can still exist or come into existence.
Circuit ==
  \A k \in Keys :
    /\ ~run[k].unresolved
    /\ IsTerminal(k) => run[k].cleanup \notin {"pending", "quarantined"}
Active == {k \in Keys : run[k].lifecycle \notin {"none", "terminal"}}

SamePayloadMutant(k, f) == run[k].payload # {}

\* A request answers the run of its canonical key; a second request with the
\* key joins the run when its fingerprint is the same.
SamePayload(k, f) == run[k].payload = {f}

reserve(p, q, k, f) ==
  /\ At(p, "idle")
  /\ \/ /\ alias[q] = {<<k, f>>} /\ UNCHANGED <<run, alias>>
        /\ proc' = [proc EXCEPT ![p].pc = "expire", ![p].key = {k}]
     \/ /\ alias[q] = {} /\ run[k] # NoRun /\ SamePayload(k, f)
        /\ alias' = [alias EXCEPT ![q] = {<<k, f>>}] /\ UNCHANGED run
        /\ proc' = [proc EXCEPT ![p].pc = "expire", ![p].key = {k}]
     \/ /\ alias[q] = {} /\ run[k] = NoRun
        /\ control.enabled /\ Circuit /\ Active = {}
        /\ alias' = [alias EXCEPT ![q] = {<<k, f>>}]
        /\ Write(k, [NoRun EXCEPT !.lifecycle = "reserved", !.payload = {f},
                                  !.epoch = control.epoch])
        /\ proc' = [proc EXCEPT ![p].pc = "claim", ![p].key = {k}]
  /\ UNCHANGED <<control, late, backend, calls, lost, deaths>>

\* ----------------------------------------------------- terminal states, gate

TerminalMutant(k, result) ==
  [run[k] EXCEPT !.lifecycle = "terminal", !.result = result]

Terminal(k, result) ==
  IF IsTerminal(k) THEN run[k]
  ELSE [run[k] EXCEPT !.lifecycle = "terminal", !.result = result]

Open(k) ==
  /\ k \notin late
  /\ control.enabled /\ control.epoch = run[k].epoch

Gate(k) == ~IsTerminal(k) /\ Open(k)

expire(k) ==
  IF Gate(k) THEN UNCHANGED run ELSE Write(k, Terminal(k, "unknown"))

Expire(p) ==
  /\ At(p, "expire") /\ expire(Key(p)) /\ Return(p)
  /\ UNCHANGED <<control, late, backend, calls, lost, outside>>

OperatorExpire(k) ==
  /\ run[k] # NoRun /\ expire(k)
  /\ UNCHANGED <<control, late, proc, backend, calls, lost, outside>>

\* --------------------------------------------------------------------- issue

claim_issue(p) ==
  /\ At(p, "claim")
  /\ LET k == Key(p) IN
     IF Gate(k) /\ run[k].lifecycle = "reserved"
     THEN /\ Write(k, [run[k] EXCEPT !.lifecycle = "issuing",
                         !.cleanup = "quarantined", !.unresolved = TRUE])
          /\ Go(p, "dispatch")
     ELSE expire(k) /\ Return(p)
  /\ UNCHANGED <<control, late, backend, calls, lost, outside>>

\* A direct retry of dispatch_issue with the ticket of a lost caller.
Retry(p, k) ==
  /\ At(p, "idle") /\ run[k].lifecycle = "issuing"
  /\ proc' = [proc EXCEPT ![p].pc = "dispatch", ![p].key = {k}]
  /\ UNCHANGED <<control, run, late, backend, calls, lost, outside>>

MayDispatchMutant(k) == run[k].lifecycle = "issuing"

MayDispatch(k) == run[k].lifecycle = "issuing" /\ ~run[k].dispatched

DispatchIntent(p) ==
  /\ At(p, "dispatch")
  /\ IF MayDispatch(Key(p))
     THEN /\ Write(Key(p), [run[Key(p)] EXCEPT !.dispatched = TRUE])
          /\ Go(p, "issue")
     ELSE Return(p) /\ UNCHANGED run
  /\ UNCHANGED <<control, late, backend, calls, lost, outside>>

IssueCall(k) ==
  /\ calls' = [calls EXCEPT !.issue[k] = @ + 1]
  /\ backend' = [backend EXCEPT !.issued = @ \cup {k}]

\* The run ends with nothing left to clean up.
Closed(k) ==
  Write(k, [Terminal(k, "unknown") EXCEPT !.cleanup = "not_required",
                                          !.unresolved = FALSE])

\* The deadline may pass during the call; the kill switch waits for the lock.
IssueAnswered(p, k) ==
  /\ IssueCall(k) /\ UNCHANGED <<lost, deaths>>
  /\ \/ /\ Write(k, [run[k] EXCEPT !.cleanup = "not_required",
                       !.unresolved = FALSE, !.lifecycle = "issued"])
        /\ Go(p, "start") /\ UNCHANGED late
     \/ /\ Closed(k)
        /\ late' = late \cup {k} /\ Return(p)

IssueUnknownMutant(p, k) ==
  /\ IssueCall(k) /\ lost' = lost \cup {k}
  /\ Closed(k)
  /\ Return(p) /\ UNCHANGED <<late, deaths>>

IssueUnknown(p, k) ==
  /\ IssueCall(k) /\ lost' = lost \cup {k}
  /\ Write(k, Terminal(k, "unknown"))
  /\ Return(p) /\ UNCHANGED <<late, deaths>>

IssueDeath(p, k) ==
  /\ Death /\ IssueCall(k) /\ lost' = lost \cup {k}
  /\ Return(p) /\ UNCHANGED <<run, late>>

dispatch_issue(p) ==
  /\ At(p, "issue")
  /\ LET k == Key(p) IN
     \/ /\ run[k].lifecycle # "issuing"
        /\ Return(p) /\ UNCHANGED <<run, late, backend, calls, lost, deaths>>
     \/ /\ run[k].lifecycle = "issuing" /\ ~Gate(k)
        /\ Closed(k)
        /\ Return(p) /\ UNCHANGED <<late, backend, calls, lost, deaths>>
     \/ /\ run[k].lifecycle = "issuing" /\ Gate(k)
        /\ IssueAnswered(p, k) \/ IssueUnknown(p, k) \/ IssueDeath(p, k)
  /\ UNCHANGED <<control, alias>>

\* --------------------------------------------------------------------- start

StartIntentMutant(p) ==
  /\ At(p, "start")
  /\ LET k == Key(p) IN
     IF Gate(k) /\ run[k].lifecycle = "issued"
     THEN /\ Write(k, [run[k] EXCEPT !.lifecycle = "running", !.started = TRUE])
          /\ Go(p, "starting")
     ELSE expire(k) /\ Return(p)
  /\ UNCHANGED <<control, late, backend, calls, lost, outside>>

StartIntent(p) ==
  /\ At(p, "start")
  /\ LET k == Key(p) IN
     IF Gate(k) /\ run[k].lifecycle = "issued"
     THEN /\ Write(k, [run[k] EXCEPT !.lifecycle = "running", !.started = TRUE,
                         !.cleanup = "pending", !.unresolved = TRUE])
          /\ Go(p, "starting")
     ELSE expire(k) /\ Return(p)
  /\ UNCHANGED <<control, late, backend, calls, lost, outside>>

StartCall(k) ==
  /\ calls' = [calls EXCEPT !.start[k] = @ + 1]
  /\ backend' = [backend EXCEPT !.started = @ \cup {k}]

\* The last look at the kill switch and the deadline before the call.
MayStartMutant(k) == ~IsTerminal(k)

MayStart(k) == Gate(k)

start(p) ==
  /\ At(p, "starting")
  /\ LET k == Key(p) IN
     \/ /\ ~MayStart(k) /\ Closed(k)
        /\ Return(p) /\ UNCHANGED <<backend, calls, deaths>>
     \/ /\ MayStart(k) /\ StartCall(k)
        /\ Go(p, "observe") /\ UNCHANGED <<run, deaths>>
     \/ \* the answer is lost
        /\ MayStart(k) /\ StartCall(k)
        /\ Write(k, [Terminal(k, "unknown") EXCEPT !.cleanup = "quarantined"])
        /\ Return(p) /\ UNCHANGED deaths
     \/ /\ Death /\ MayStart(k) /\ StartCall(k)
        /\ Return(p) /\ UNCHANGED run
  /\ UNCHANGED <<control, alias, late, lost>>

\* -------------------------------------------------- observation and result

\* What the transport brought back.
Transports == {"expected", "other_body", "other_status", "redirect",
               "oversized", "incomplete", "timeout", "fault"}

evaluate_response(t) ==
  CASE t = "expected" -> "passed"
    [] t \in {"other_body", "other_status", "redirect", "oversized"} -> "failed"
    [] OTHER -> "unknown"

\* same: the runtime matched the enrolled target before and after.
probe(same, t) == IF same THEN evaluate_response(t) ELSE "unknown"

Observe(p) ==
  /\ At(p, "observe")
  /\ \/ \E same, confirmed \in BOOLEAN, t \in Transports :
          /\ confirmed => Key(p) \in backend.cleaned
          /\ proc' = [proc EXCEPT ![p] = [pc |-> "finish", key |-> @.key,
               result |-> probe(same, t), same |-> same,
               confirmed |-> confirmed]]
     \/ \* no receipt, a foreign one or an exception
        proc' = [proc EXCEPT ![p].pc = "finish", ![p].result = "unknown"]
  /\ UNCHANGED <<control, run, late, backend, calls, lost, outside>>

\* A closed gate takes the verdict away, not the observations.
finish(p) ==
  /\ At(p, "finish")
  /\ LET k == Key(p) IN
     IF IsTerminal(k) THEN UNCHANGED run
     ELSE Write(k, [Terminal(k, IF Gate(k) THEN proc[p].result ELSE "unknown")
                      EXCEPT !.observed = TRUE, !.same = proc[p].same])
  /\ IF proc[p].confirmed THEN Go(p, "reconcile") ELSE Return(p)
  /\ UNCHANGED <<control, late, backend, calls, lost, outside>>

\* The exact receipt of a known start, or nothing.
confirm_cleanup(k) ==
  IF IsTerminal(k) /\ run[k].started /\ k \in backend.cleaned
  THEN Write(k, [run[k] EXCEPT !.cleanup = "confirmed", !.unresolved = FALSE])
  ELSE UNCHANGED run

Reconcile(p) ==
  /\ At(p, "reconcile") /\ confirm_cleanup(Key(p)) /\ Return(p)
  /\ UNCHANGED <<control, late, backend, calls, lost, outside>>

OperatorReconcile(k) ==
  /\ IsTerminal(k) /\ run[k].started /\ confirm_cleanup(k)
  /\ UNCHANGED <<control, late, proc, backend, calls, lost, outside>>

\* The report compares a known verdict with ordinary evidence whose windows
\* overlap the observation.
compare(k, ordinary) ==
  IF run[k].result \in {"none", "unknown"} \/ ordinary = "unknown"
     \/ ~run[k].started \/ ~run[k].observed
  THEN "incomparable"
  ELSE IF ordinary = run[k].result THEN "agrees" ELSE "differs"

\* --------------------------------------------------------------- environment

DeadlinePasses(k) ==
  /\ k \in Active /\ k \notin late
  /\ late' = late \cup {k}
  /\ UNCHANGED <<control, run, proc, backend, calls, lost, outside>>

BackendCleans(k) ==
  /\ k \in backend.started \ backend.cleaned
  /\ backend' = [backend EXCEPT !.cleaned = @ \cup {k}]
  /\ UNCHANGED <<control, run, late, proc, calls, lost, outside>>

Die(p) ==
  /\ ~At(p, "idle") /\ Death /\ Return(p)
  /\ UNCHANGED <<control, run, alias, late, backend, calls, lost>>

Submit(p) ==
  \/ \E q \in Requests, k \in Keys, f \in Payloads : reserve(p, q, k, f)
  \/ Expire(p) \/ claim_issue(p) \/ DispatchIntent(p) \/ dispatch_issue(p)
  \/ StartIntent(p) \/ start(p) \/ Observe(p) \/ finish(p) \/ Reconcile(p)

Next ==
  \/ \E p \in Procs : Submit(p) \/ Die(p) \/ \E k \in Keys : Retry(p, k)
  \/ \E enabled \in BOOLEAN : set_enabled(enabled)
  \/ \E k \in Keys : \/ OperatorExpire(k) \/ OperatorReconcile(k)
                     \/ DeadlinePasses(k) \/ BackendCleans(k)

Spec == Init /\ [][Next]_vars

-------------------------------------------------------------------------------
(* No execution is issued or started twice, whoever repeats the dispatch of *)
(* a lost caller ("Missing acknowledgment is not permission to send another *)
(* issue").                                                                 *)
AtMostOnce == \A k \in Keys : calls.issue[k] <= 1 /\ calls.start[k] <= 1

(* A start whose cleanup is unknown and an issue without a receipt keep the *)
(* circuit open or their run active: "recovery cannot invent absence".      *)
NothingForgotten ==
  \A k \in Keys :
    k \in (backend.started \ backend.cleaned) \cup lost
      => run[k].unresolved

(* One execution at a time: a new one starts only after the last is gone.   *)
OneExecution == Cardinality(backend.started \ backend.cleaned) <= 1

(* A kill or a deadline that comes first prevents the start and the         *)
(* verdict, wherever between the transactions of the run it falls.          *)
KillComesFirst ==
  \A k \in Keys :
    \/ calls'.start[k] # calls.start[k]
    \/ run'[k].result \in {"passed", "failed"} \ {run[k].result}
    => Open(k)
KillPrevents == [][KillComesFirst]_vars

(* Verdict and comparison of a reported run never change, and rest on an    *)
(* observation of the enrolled target.                                      *)
ReportStays ==
  \A k \in Keys, ordinary \in {"passed", "failed"} :
    /\ IsTerminal(k) => /\ run'[k].result = run[k].result
                        /\ compare(k, ordinary)' = compare(k, ordinary)
    /\ compare(k, ordinary)' # "incomparable" => run'[k].same
ReportStable == [][ReportStays]_vars

(* Requests with the same id or the same canonical key get the run that was *)
(* made from exactly their payload.                                         *)
RequestBinding ==
  \A q \in Requests, k \in Keys, f \in Payloads :
    <<k, f>> \in alias[q] => run[k].payload = {f}

(* What the shadow promises of its store and its backend.                   *)
ShadowKept ==
  AtMostOnce /\ NothingForgotten /\ OneExecution /\ RequestBinding
===============================================================================
