-------------------------- MODULE TerminalSession --------------------------
(***************************************************************************)
(* The sessions of one terminal broker (terminal/broker_v2.py with         *)
(* terminal/session_exec.py). A session is a Docker Exec in the task       *)
(* container; its bootstrap waits for an acknowledgement before it becomes *)
(* a shell, and the broker journals the exact process before it gives it.  *)
(* The journal directory outlives the broker, which recovers from it.      *)
(***************************************************************************)
EXTENDS Naturals, FiniteSets

CONSTANTS
  Sessions,      \* the tokens of the connections
  MaxSessions,   \* BoundedSemaphore(max_sessions)
  MaxRestarts,   \* restart_policy on-failure, MaximumRetryCount
  MaxFaults      \* crashes of the broker and unconfirmed cleanups

VARIABLES
  broker,        \* the broker process: its phase, its failed event, restarts
  pc,            \* where the thread of each session is
  exec,          \* Docker: the Exec of each session
  journal,       \* <token>.json: absent, with the Exec, with its process
  running,       \* Docker: the task container runs
  allowed,       \* the lease the authorization view still grants
  faults

vars == <<broker, pc, exec, journal, running, allowed, faults>>

Init ==
  /\ broker = [phase |-> "recovering", failed |-> FALSE, restarts |-> 0]
  /\ pc = [s \in Sessions |-> "new"]
  /\ exec = [s \in Sessions |-> "none"]
  /\ journal = [s \in Sessions |-> "none"]
  /\ running = TRUE
  /\ allowed = TRUE
  /\ faults = 0

Live == {"auth", "create", "save", "start", "identity", "ack", "relay", "cleanup"}
Threads == {s \in Sessions : pc[s] \in Live}      \* threads, each with a slot
Step(s, next) == pc' = [pc EXCEPT ![s] = next]
Mark(e, s) == exec' = [exec EXCEPT ![s] = e]

\* server.accept and slots.acquire(blocking=False); the loop looked at failed
\* and at the container before it waited for the connection.
Connect(s) ==
  /\ broker.phase = "serving"
  /\ pc[s] = "new"
  /\ Cardinality(Threads) < MaxSessions
  /\ Step(s, "auth")
  /\ UNCHANGED <<broker, exec, journal, running, allowed, faults>>

\* Mutant: the broker's own failure is not looked at.
AdmissibleMutant == broker.phase # "stopping" /\ running /\ allowed
\* failed, shutdown, valid, authorized: after the slot is taken.
Admissible == ~broker.failed /\ broker.phase # "stopping" /\ running /\ allowed

Authenticate(s) ==
  /\ pc[s] = "auth"
  /\ Step(s, IF Admissible THEN "create" ELSE "end")
  /\ UNCHANGED <<broker, exec, journal, running, allowed, faults>>

ExecCreate(s) ==
  /\ pc[s] = "create"
  /\ running
  /\ Mark("created", s)
  /\ Step(s, "save")
  /\ UNCHANGED <<broker, journal, running, allowed, faults>>

\* Nothing is started until the Exec id is durable ...
SaveExec(s) ==
  /\ pc[s] = "save"
  /\ journal' = [journal EXCEPT ![s] = "exec"]
  /\ Step(s, "start")
  /\ UNCHANGED <<broker, exec, running, allowed, faults>>

ExecStart(s) ==
  /\ pc[s] = "start"
  /\ exec[s] = "created"
  /\ Mark("boot", s)
  /\ Step(s, "identity")
  /\ UNCHANGED <<broker, journal, running, allowed, faults>>

\* Mutant: the process is not journalled before the acknowledgement.
SaveProcessMutant(s) ==
  /\ pc[s] = "identity"
  /\ exec[s] = "boot"
  /\ Step(s, "ack")
  /\ UNCHANGED <<broker, exec, journal, running, allowed, faults>>
\* ... and no user code runs until its process is.
SaveProcess(s) ==
  /\ pc[s] = "identity"
  /\ exec[s] = "boot"
  /\ journal' = [journal EXCEPT ![s] = "process"]
  /\ Step(s, "ack")
  /\ UNCHANGED <<broker, exec, running, allowed, faults>>

\* sendall(b"G"): a bootstrap that is still there becomes bash.
Acknowledge(s) ==
  /\ pc[s] = "ack"
  /\ exec' = [exec EXCEPT ![s] = IF @ = "boot" THEN "shell" ELSE @]
  /\ Step(s, "relay")
  /\ UNCHANGED <<broker, journal, running, allowed, faults>>

\* The relay loop ends: the client left, the shell ended, or the check that
\* is repeated every half second failed.
Ends(s) == broker.phase # "serving" \/ broker.failed \/ ~running \/ ~allowed \/ exec[s] = "gone"
RelayEnds(s) ==
  /\ pc[s] = "relay"
  /\ Ends(s)
  /\ Step(s, "cleanup")
  /\ UNCHANGED <<broker, exec, journal, running, allowed, faults>>
ClientLeaves(s) ==
  /\ pc[s] = "relay"
  /\ Step(s, "cleanup")
  /\ UNCHANGED <<broker, exec, journal, running, allowed, faults>>

\* The Exec ended before its bootstrap line or could not be made: EOF, NotFound.
SessionBroken(s) ==
  /\ \/ pc[s] = "create" /\ ~running
     \/ pc[s] = "start" /\ exec[s] # "created"
     \/ pc[s] = "identity" /\ exec[s] # "boot"
  /\ Step(s, IF pc[s] = "create" THEN "end" ELSE "cleanup")
  /\ UNCHANGED <<broker, exec, journal, running, allowed, faults>>

\* Any other exception of Docker, the disk or the socket in a session.
SessionFails(s) ==
  /\ pc[s] \in {"create", "save", "start", "identity", "ack"}
  /\ Step(s, IF pc[s] = "create" THEN "end" ELSE "cleanup")
  /\ UNCHANGED <<broker, exec, journal, running, allowed, faults>>

-----------------------------------------------------------------------------
(* Broker.cleanup *)

\* A never-started Exec, an Exec that exited or a stopped container needs no
\* helper; a bootstrap without a journalled process is waited for; a recorded
\* process is killed by the helper, which compares its start time.
Confirmed(s) == exec[s] \in {"created", "gone"} \/ ~running \/ journal[s] = "process"
After(s) == IF exec[s] \in {"boot", "shell"} THEN "gone" ELSE exec[s]

\* The session's finally clause: the journal goes once the cleanup is confirmed.
CleanupConfirmed(s) ==
  /\ pc[s] = "cleanup"
  /\ Confirmed(s)
  /\ Mark(After(s), s)
  /\ journal' = [journal EXCEPT ![s] = "none"]
  /\ Step(s, "end")
  /\ UNCHANGED <<broker, running, allowed, faults>>

\* Mutant: an unconfirmed cleanup is taken for a clean one.
CleanupUnconfirmedMutant(s) ==
  /\ pc[s] = "cleanup"
  /\ faults < MaxFaults
  /\ journal' = [journal EXCEPT ![s] = "none"]
  /\ Step(s, "end")
  /\ faults' = faults + 1
  /\ UNCHANGED <<broker, exec, running, allowed>>
\* Docker does not confirm: the journal stays, new sessions are denied.
CleanupUnconfirmed(s) ==
  /\ pc[s] = "cleanup"
  /\ faults < MaxFaults
  /\ broker' = [broker EXCEPT !.failed = TRUE]
  /\ Step(s, "end")
  /\ faults' = faults + 1
  /\ UNCHANGED <<exec, journal, running, allowed>>

-----------------------------------------------------------------------------
(* The process *)

\* Mutant: the journal is not looked at before the broker serves.
RecoveredMutant == TRUE
\* recover: every journal is cleaned up ...
Recovered == \A s \in Sessions : journal[s] = "none"

RecoverOne(s) ==
  /\ broker.phase = "recovering"
  /\ journal[s] # "none"
  /\ Confirmed(s)
  /\ Mark(After(s), s)
  /\ journal' = [journal EXCEPT ![s] = "none"]
  /\ UNCHANGED <<broker, pc, running, allowed, faults>>

\* ... before the socket is opened.
Serve ==
  /\ broker.phase = "recovering"
  /\ Recovered
  /\ running
  /\ broker' = [broker EXCEPT !.phase = "serving"]
  /\ UNCHANGED <<pc, exec, journal, running, allowed, faults>>

\* Recovery is blocked, or the container is not the one of the identity.
RecoveryFails ==
  /\ broker.phase = "recovering"
  /\ \/ ~running /\ Recovered /\ UNCHANGED faults
     \/ ~Recovered /\ faults < MaxFaults /\ faults' = faults + 1
  /\ broker' = [broker EXCEPT !.phase = "failed"]
  /\ UNCHANGED <<pc, exec, journal, running, allowed>>

\* SIGTERM, or the accept loop sees a failed cleanup or a changed container.
Sigterm ==
  /\ broker.phase = "serving"
  /\ broker' = [broker EXCEPT !.phase = "stopping"]
  /\ UNCHANGED <<pc, exec, journal, running, allowed, faults>>
Stop ==
  /\ broker.phase = "serving"
  /\ broker.failed \/ ~running
  /\ broker' = [broker EXCEPT !.phase = "stopping"]
  /\ UNCHANGED <<pc, exec, journal, running, allowed, faults>>

\* Every worker is joined; a failed broker exits with an error.
Exit ==
  /\ broker.phase = "stopping"
  /\ Threads = {}
  /\ broker' = [broker EXCEPT !.phase = IF broker.failed THEN "failed" ELSE "exited"]
  /\ UNCHANGED <<pc, exec, journal, running, allowed, faults>>

\* The process dies; its threads with it.
Crash ==
  /\ faults < MaxFaults
  /\ broker.phase \in {"recovering", "serving", "stopping"}
  /\ broker' = [broker EXCEPT !.phase = "failed"]
  /\ pc' = [s \in Sessions |-> IF pc[s] \in Live THEN "dead" ELSE pc[s]]
  /\ faults' = faults + 1
  /\ UNCHANGED <<exec, journal, running, allowed>>

\* Mutant: restarted without limit.
RestartMutant ==
  /\ broker.phase = "failed"
  /\ broker' = [phase |-> "recovering", failed |-> FALSE, restarts |-> broker.restarts + 1]
  /\ UNCHANGED <<pc, exec, journal, running, allowed, faults>>
\* Docker's restart policy
Restart ==
  /\ broker.phase = "failed"
  /\ broker.restarts < MaxRestarts
  /\ broker' = [phase |-> "recovering", failed |-> FALSE, restarts |-> broker.restarts + 1]
  /\ UNCHANGED <<pc, exec, journal, running, allowed, faults>>

-----------------------------------------------------------------------------
(* The task container and the rest of the system *)

\* Five seconds without an acknowledgement end the bootstrap.
BootstrapTimesOut(s) ==
  /\ exec[s] = "boot"
  /\ Mark("gone", s)
  /\ UNCHANGED <<broker, pc, journal, running, allowed, faults>>

ShellExits(s) ==
  /\ exec[s] = "shell"
  /\ Mark("gone", s)
  /\ UNCHANGED <<broker, pc, journal, running, allowed, faults>>

\* exec_start was sent, the answer never came: the daemon starts it late.
LateStart(s) ==
  /\ exec[s] = "created"
  /\ pc[s] \in {"cleanup", "end", "dead"}
  /\ running
  /\ Mark("boot", s)
  /\ UNCHANGED <<broker, pc, journal, running, allowed, faults>>

\* The environment is torn down, with every process in it.
ContainerStops ==
  /\ running
  /\ running' = FALSE
  /\ exec' = [s \in Sessions |-> IF exec[s] = "none" THEN "none" ELSE "gone"]
  /\ UNCHANGED <<broker, pc, journal, allowed, faults>>

\* The answer was submitted, a cleanup was requested, the trainee blocked.
Revoke ==
  /\ allowed
  /\ allowed' = FALSE
  /\ UNCHANGED <<broker, pc, exec, journal, running, faults>>

-----------------------------------------------------------------------------
SessionStep(s) ==
  \/ Authenticate(s) \/ ExecCreate(s) \/ SaveExec(s) \/ ExecStart(s) \/ SaveProcess(s)
  \/ Acknowledge(s) \/ SessionBroken(s) \/ RelayEnds(s) \/ CleanupConfirmed(s)
BrokerStep == (\E s \in Sessions : RecoverOne(s)) \/ Serve \/ RecoveryFails \/ Stop \/ Exit \/ Restart

Next ==
  \/ \E s \in Sessions : Connect(s) \/ ClientLeaves(s) \/ SessionFails(s) \/ SessionStep(s)
  \/ \E s \in Sessions : CleanupUnconfirmed(s) \/ BootstrapTimesOut(s) \/ ShellExits(s) \/ LateStart(s)
  \/ BrokerStep \/ Sigterm \/ Crash \/ ContainerStops \/ Revoke

\* Threads and the accept loop are scheduled, Docker restarts the broker, and
\* the bootstrap's timer runs; nobody has to leave or to revoke anything.
Fairness ==
  /\ \A s \in Sessions : WF_vars(SessionStep(s)) /\ WF_vars(BootstrapTimesOut(s))
  /\ WF_vars(BrokerStep)

Spec == Init /\ [][Next]_vars /\ Fairness

-----------------------------------------------------------------------------
(* Properties *)

\* The limits of the broker and of its container's restart policy.
Limits == MaxSessions \in Nat /\ MaxRestarts \in Nat /\ MaxFaults \in Nat
TypeOK ==
  /\ Limits
  /\ broker \in [phase: {"recovering", "serving", "stopping", "failed", "exited"},
                 failed: BOOLEAN, restarts: 0..MaxRestarts]
  /\ pc \in [Sessions -> Live \cup {"new", "end", "dead"}]
  /\ exec \in [Sessions -> {"none", "created", "boot", "shell", "gone"}]
  /\ journal \in [Sessions -> {"none", "exec", "process"}]
  /\ running \in BOOLEAN /\ allowed \in BOOLEAN /\ faults \in 0..MaxFaults

\* "No user code without a durable identity": a shell that runs is in the
\* journal with its process, whatever crashed, failed or came late.
ShellsJournalled == \A s \in Sessions : exec[s] = "shell" => journal[s] = "process"

\* While the broker serves without a failure, every shell has its thread:
\* recovery left none of a dead broker behind.
NoOrphanShell ==
  broker.phase = "serving" /\ ~broker.failed =>
     \A s \in Sessions : exec[s] = "shell" => pc[s] \in {"relay", "cleanup"}

\* Never more shells than slots, although a session whose cleanup failed
\* gives back its slot and leaves its shell.
ShellsBounded == Cardinality({s \in Sessions : exec[s] = "shell"}) <= MaxSessions

\* No shell is without its books, its thread or its slot.
ShellsKept == TypeOK /\ ShellsJournalled /\ NoOrphanShell /\ ShellsBounded

\* Once the lease is revoked, every shell ends: through its relay, or after a
\* crash through the recovery of the next broker.
RevokedShellsEnd == ~allowed ~> \A s \in Sessions : exec[s] # "shell"
=============================================================================
