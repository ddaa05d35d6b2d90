--------------------------- MODULE HttpObservations ---------------------------
(***************************************************************************)
(* The observation-only HTTP pilot: a trainee asks for an observation of   *)
(* the environment of one attempt, a worker claims the run, pins the       *)
(* runtime, starts a verifier container next to the target and records     *)
(* what the target answered, while the environment is reset, the target    *)
(* restarts, the attempt ends, checks and the host configuration change,   *)
(* messages are duplicated and workers die.                                *)
(*                                                                         *)
(* The target answers at an address that its successor may take over, so   *)
(* what tells one container from another are only the inspections by full  *)
(* id, start time and pid.  Docker is external.                            *)
(***************************************************************************)
EXTENDS Naturals, FiniteSets, TLC

CONSTANTS
  Workers,
  MaxRuns,      \* bound on the observations requested
  MaxGen,       \* bound on the environment operations of the attempt
  MaxReboots,   \* bound on restarts of the target by Docker
  MaxAnchors,   \* bound on changes of technical executions and of the policy
  MaxFaults,    \* bound on lost, late, doubled or broken deliveries and calls
  MaxCrashes    \* bound on workers that die

Runs == 1..MaxRuns

VARIABLES
  attempt,    \* what _context reads of the attempt and its environment
  box,        \* the target container: its generation and its starts
  runs,       \* HTTPObservationRun rows by ordinal
  dispatch,   \* runs whose on_commit callback is to publish or to raise
  messages,   \* deliveries of run_http_observation_task per run
  workers,
  claims,     \* artifacts, created with O_EXCL
  verifiers,  \* runs whose verifier container exists
  late,       \* runs whose create request Docker has yet to carry out
  faults,
  crashes

vars == <<attempt, box, runs, dispatch, messages, workers, claims, verifiers,
          late, faults, crashes>>

NoBox == [gen |-> 0, boot |-> 0]
NoRun == [status |-> "none", http |-> "unknown", reason |-> "queued",
          identity |-> <<>>, pinned |-> FALSE]
Idle == [pc |-> "idle", run |-> 0, answer |-> "unknown", bound |-> FALSE,
         probed |-> NoBox, created |-> "no", why |-> "none"]

Init ==
  /\ attempt = [open |-> TRUE, gen |-> 1, ready |-> TRUE,
                pinned |-> [gen |-> 1, boot |-> 0], anchor |-> 0]
  /\ box = [gen |-> 1, boot |-> 0]
  /\ runs = [r \in Runs |-> NoRun]
  /\ dispatch = {}
  /\ messages = [r \in Runs |-> 0]
  /\ workers = [w \in Workers |-> Idle]
  /\ claims = {} /\ verifiers = {} /\ late = {}
  /\ faults = 0 /\ crashes = 0

Fault == faults < MaxFaults /\ faults' = faults + 1

rest1 == <<attempt, box, crashes>>
rest2 == <<claims, verifiers, late>>
rest3 == <<dispatch, messages>>

----------------------------------------------------------------------------
(* The attempt and its environment.                                        *)

RequestReset ==
  /\ attempt.open /\ attempt.gen < MaxGen
  /\ attempt' = [attempt EXCEPT !.gen = @ + 1, !.ready = FALSE]
  /\ UNCHANGED <<box, runs, workers, faults, crashes, rest2, rest3>>

\* The environment is created anew and its runtime read back before READY.
FinishReset ==
  /\ attempt.open /\ ~attempt.ready
  /\ box' = [gen |-> attempt.gen, boot |-> 0]
  /\ attempt' = [attempt EXCEPT !.ready = TRUE, !.pinned = box']
  /\ UNCHANGED <<runs, workers, faults, crashes, rest2, rest3>>

Reboot ==
  /\ box.boot < MaxReboots
  /\ box' = [box EXCEPT !.boot = @ + 1]
  /\ UNCHANGED <<attempt, runs, workers, faults, crashes, rest2, rest3>>

\* The attempt passes or stops being the current one.
EndAttempt ==
  /\ attempt.open
  /\ attempt' = [attempt EXCEPT !.open = FALSE]
  /\ UNCHANGED <<box, runs, workers, faults, crashes, rest2, rest3>>

\* A technical execution, an event of one, or another host configuration.
MoveAnchor ==
  /\ attempt.anchor < MaxAnchors
  /\ attempt' = [attempt EXCEPT !.anchor = @ + 1]
  /\ UNCHANGED <<box, runs, workers, faults, crashes, rest2, rest3>>

----------------------------------------------------------------------------
(* Requests and their dispatch.                                            *)

Context == attempt.open /\ attempt.ready /\ attempt.pinned.gen = attempt.gen
Identity == <<attempt.gen, attempt.pinned, attempt.anchor>>

Active == {r \in Runs : runs[r].status \in {"queued", "running"}}

\* Under the lock of the attempt; an active run is returned instead.
request_observation(r) ==
  /\ Context
  /\ Active = {}
  /\ runs[r].status = "none"
  /\ \A q \in Runs : q < r => runs[q].status # "none"
  /\ runs' = [runs EXCEPT ![r] = [NoRun EXCEPT !.status = "queued",
                                               !.identity = Identity]]
  /\ dispatch' = dispatch \union {<<r, "publish">>}
  /\ UNCHANGED <<messages, workers, faults, rest1, rest2>>

FinishedMutant(r, http, reason) ==
  [runs EXCEPT ![r].status = "finished", ![r].http = http, ![r].reason = reason]
Finished(r, http, reason) ==
  IF r \in Active
  THEN [runs EXCEPT ![r].status = "finished", ![r].http = http,
                    ![r].reason = reason]
  ELSE runs

DispatchFailedMutant(r) == runs
DispatchFailed(r) == Finished(r, "unknown", "dispatch_unavailable")

\* delay() publishes the message, possibly twice, or raises, whether or not
\* the broker has taken it.
Dispatch(r) ==
  /\ <<r, "publish">> \in dispatch
  /\ \/ /\ dispatch' = dispatch \ {<<r, "publish">>}
        /\ messages' = [messages EXCEPT ![r] = 1]
        /\ UNCHANGED faults
     \/ /\ Fault
        /\ dispatch' = dispatch \ {<<r, "publish">>}
        /\ messages' = [messages EXCEPT ![r] = 2]
     \/ /\ Fault
        /\ dispatch' = (dispatch \ {<<r, "publish">>}) \union {<<r, "raise">>}
        /\ \E n \in {0, 1} : messages' = [messages EXCEPT ![r] = n]
  /\ UNCHANGED <<runs, workers, rest1, rest2>>

DispatchRaised(r) ==
  /\ <<r, "raise">> \in dispatch
  /\ dispatch' = dispatch \ {<<r, "raise">>}
  /\ runs' = DispatchFailed(r)
  /\ UNCHANGED <<messages, workers, faults, rest1, rest2>>

----------------------------------------------------------------------------
(* run_observation and DockerPilot.observe, fence by fence.                *)

\* _current: everything the run was requested for still holds.
Current(r) ==
  Context /\ Identity = runs[r].identity /\ runs[r].status = "running"

\* DjangoObservationSource
Source(r) == Current(r) /\ runs[r].pinned

\* The target is the pinned container and has not restarted.
TargetMutant(r) == box.gen = runs[r].identity[2].gen
Target(r) == box = runs[r].identity[2]

Goes(w, pc) == workers' = [workers EXCEPT ![w].pc = pc]
\* A refusal keeps what was created for the cleanup and forgets the answer.
Refuse(w, why) ==
  workers' = [workers EXCEPT ![w].pc = "cleanup", ![w].answer = "unknown",
                             ![w].bound = FALSE, ![w].why = why]

Deliver(w, r) ==
  /\ workers[w].pc = "idle" /\ messages[r] > 0
  /\ messages' = [messages EXCEPT ![r] = @ - 1]
  /\ IF runs[r].status = "queued"
     THEN /\ runs' = [runs EXCEPT ![r].status = "running"]
          /\ workers' = [workers EXCEPT ![w] = [Idle EXCEPT !.pc = "pin",
                                                            !.run = r]]
     ELSE UNCHANGED <<runs, workers>>
  /\ UNCHANGED <<dispatch, faults, rest1, rest2>>

End(w, http, reason) ==
  /\ runs' = Finished(workers[w].run, http, reason)
  /\ workers' = [workers EXCEPT ![w] = Idle]

Pin(w) ==
  LET r == workers[w].run
  IN /\ workers[w].pc = "pin"
     /\ IF Current(r)
        THEN /\ runs' = [runs EXCEPT ![r].pinned = TRUE]
             /\ Goes(w, "claim")
        ELSE End(w, "unknown", "stale")
     /\ UNCHANGED <<faults, rest1, rest2, rest3>>

Claim(w) ==
  LET r == workers[w].run
  IN /\ workers[w].pc = "claim"
     /\ IF ~Source(r) \/ r \in claims
        THEN Refuse(w, "refused") /\ UNCHANGED claims
        ELSE Goes(w, "create") /\ claims' = claims \union {r}
     /\ UNCHANGED <<runs, faults, verifiers, late, rest1, rest3>>

\* The response of the create request may be lost, with the container there
\* already or not yet.
Create(w) ==
  LET r == workers[w].run
      Made(how, why) ==
        workers' = [workers EXCEPT ![w].created = how, ![w].why = why,
                      ![w].pc = IF how = "yes" THEN "start" ELSE "cleanup"]
  IN /\ workers[w].pc = "create"
     /\ \/ /\ ~Target(r)
           /\ Refuse(w, "runtime_changed")
           /\ UNCHANGED <<verifiers, late, faults>>
        \/ /\ Target(r)
           /\ verifiers' = verifiers \union {r}
           /\ Made("yes", "none")
           /\ UNCHANGED <<late, faults>>
        \/ /\ Target(r) /\ Fault
           /\ verifiers' = verifiers \union {r}
           /\ Made("lost", "timeout")
           /\ UNCHANGED late
        \/ /\ Target(r) /\ Fault
           /\ late' = late \union {r}
           /\ Made("lost", "timeout")
           /\ UNCHANGED verifiers
     /\ UNCHANGED <<runs, claims, rest1, rest3>>

LateCreate(r) ==
  /\ r \in late
  /\ late' = late \ {r}
  /\ verifiers' = verifiers \union {r}
  /\ UNCHANGED <<runs, workers, faults, claims, rest1, rest3>>

Start(w) ==
  LET r == workers[w].run
  IN /\ workers[w].pc = "start"
     /\ IF Source(r) THEN Goes(w, "probe") ELSE Refuse(w, "stale_execution")
     /\ UNCHANGED <<runs, faults, rest1, rest2, rest3>>

\* Whatever container holds the address answers; a timeout or a broken
\* stream is a fault.
Probe(w) ==
  /\ workers[w].pc = "probe"
  /\ \/ /\ \E answer \in {"matched", "mismatch", "unknown"} :
             workers' = [workers EXCEPT ![w].pc = "verify",
                                        ![w].answer = answer,
                                        ![w].probed = box]
        /\ UNCHANGED faults
     \/ Fault /\ Refuse(w, "timeout")
  /\ UNCHANGED <<runs, rest1, rest2, rest3>>

\* The target is inspected again, and only then the attempt read.
Inspect(w) ==
  /\ workers[w].pc = "verify"
  /\ IF Target(workers[w].run) THEN Goes(w, "fence")
     ELSE Refuse(w, "runtime_changed")
  /\ UNCHANGED <<runs, faults, rest1, rest2, rest3>>

Fence(w) ==
  /\ workers[w].pc = "fence"
  /\ IF Source(workers[w].run)
     THEN workers' = [workers EXCEPT ![w].pc = "cleanup", ![w].bound = TRUE]
     ELSE Refuse(w, "stale_execution")
  /\ UNCHANGED <<runs, faults, rest1, rest2, rest3>>

\* The verifier is removed and its absence read back; a lost create whose
\* container is not there proves nothing.
CleanupUnknownMutant(w) ==
  workers' = [workers EXCEPT ![w].pc = "again"]
CleanupUnknown(w) ==
  workers' = [workers EXCEPT ![w].pc = "commit", ![w].answer = "unknown",
                             ![w].bound = FALSE, ![w].why = "cleanup_unknown"]

Cleanup(w) ==
  LET r == workers[w].run
      next == IF workers[w].bound THEN "again" ELSE "commit"
  IN /\ workers[w].pc = "cleanup"
     /\ \/ /\ workers[w].created = "no"
           /\ Goes(w, next)
           /\ UNCHANGED <<verifiers, faults>>
        \/ /\ workers[w].created # "no" /\ r \in verifiers
           /\ verifiers' = verifiers \ {r}
           /\ Goes(w, next)
           /\ UNCHANGED faults
        \/ /\ workers[w].created # "no" /\ r \in verifiers
           /\ Fault
           /\ CleanupUnknown(w)
           /\ UNCHANGED verifiers
        \/ /\ workers[w].created # "no" /\ r \notin verifiers
           /\ IF workers[w].created = "yes" THEN Goes(w, next)
              ELSE CleanupUnknown(w)
           /\ UNCHANGED <<verifiers, faults>>
     /\ UNCHANGED <<runs, claims, late, rest1, rest3>>

\* The evidence is checked once more after the cleanup, and the artifact
\* replaced.
Again(w) ==
  LET r == workers[w].run
  IN /\ workers[w].pc = "again"
     /\ \/ /\ Target(r) /\ Source(r)
           /\ Goes(w, "commit")
           /\ UNCHANGED faults
        \/ /\ ~(Target(r) /\ Source(r))
           /\ workers' = [workers EXCEPT ![w].pc = "commit",
                            ![w].answer = "unknown", ![w].bound = FALSE,
                            ![w].why = "stale_execution"]
           /\ UNCHANGED faults
        \/ /\ Fault
           /\ workers' = [workers EXCEPT ![w].pc = "commit",
                            ![w].answer = "unknown", ![w].bound = FALSE,
                            ![w].why = "artifact_unavailable"]
     /\ UNCHANGED <<runs, rest1, rest2, rest3>>

\* Under the lock of the attempt, which a reset takes too.
Commit(w) ==
  /\ workers[w].pc = "commit"
  /\ IF Current(workers[w].run) THEN End(w, workers[w].answer, workers[w].why)
     ELSE End(w, "unknown", "stale")
  /\ UNCHANGED <<faults, rest1, rest2, rest3>>

\* The worker process dies; nothing is recorded.
Crash(w) ==
  /\ workers[w].pc # "idle"
  /\ crashes < MaxCrashes /\ crashes' = crashes + 1
  /\ workers' = [workers EXCEPT ![w] = Idle]
  /\ UNCHANGED <<attempt, box, runs, faults, rest2, rest3>>

Step(w) ==
  \/ \E r \in Runs : Deliver(w, r)
  \/ Pin(w) \/ Claim(w) \/ Create(w) \/ Start(w) \/ Probe(w) \/ Inspect(w)
  \/ Fence(w) \/ Cleanup(w) \/ Again(w) \/ Commit(w)

Next ==
  \/ RequestReset \/ FinishReset \/ Reboot \/ EndAttempt \/ MoveAnchor
  \/ \E r \in Runs : \/ request_observation(r) \/ Dispatch(r)
                     \/ DispatchRaised(r) \/ LateCreate(r)
  \/ \E w \in Workers : Step(w) \/ Crash(w)

Spec == Init /\ [][Next]_vars

\* The callback of a committed request runs, Celery serves its queue, and
\* every Docker call ends within its timeout.
FairSpec ==
  /\ Spec
  /\ \A r \in Runs : WF_vars(Dispatch(r) \/ DispatchRaised(r))
  /\ \A w \in Workers : WF_vars(Step(w))

----------------------------------------------------------------------------

\* A verdict is recorded only when the target that answered is the one the
\* run was requested for, never restarted, and when at that moment the
\* attempt is still current and its environment still that one; whatever
\* resets, restarts and changes fall between the fences.
VerdictIsTrue ==
  \A r \in Runs :
    runs[r].status # "finished" /\ runs'[r].http # "unknown"
      => /\ attempt.open /\ attempt.ready
         /\ <<attempt.gen, attempt.pinned, attempt.anchor>> = runs[r].identity
         /\ \E w \in Workers : /\ workers[w].run = r
                               /\ workers[w].probed = attempt.pinned
VerdictTrue == [][VerdictIsTrue]_vars

\* A run with a verdict leaves no verifier container behind, now or later;
\* lost answers of Docker end in an unknown result.
VerdictCleans ==
  \A r \in Runs : runs[r].http # "unknown" => r \notin verifiers \union late

\* What a finished run says stays: a late worker, a failed dispatch of a
\* message that arrived all the same and a repeated delivery change nothing.
FinishedStays ==
  \A r \in Runs : runs[r].status = "finished" => runs'[r] = runs[r]
FinishedFinal == [][FinishedStays]_vars

\* Every requested observation ends, whatever happens to the attempt, to the
\* environment, to the broker and to Docker's answers, unless its worker
\* dies.
RunsEnd ==
  \A r \in Runs :
    runs[r].status = "queued" ~> runs[r].status = "finished" \/ crashes > 0
=============================================================================
