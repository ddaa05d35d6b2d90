----------------------------- MODULE MCTerminal -----------------------------
(***************************************************************************)
(* What runs beside the handlers of an attempt, in one instance for TLC:   *)
(* the watchdog against the clock, the environments of the terminal        *)
(* broker, the broker's sessions, and the HTTP observations.  A behaviour  *)
(* is one of the part that is chosen at first; in the other parts          *)
(* WatchdogClock stays as it is and the variables that are declared here   *)
(* are off.                                                                *)
(***************************************************************************)
EXTENDS WatchdogClock, FiniteSets, TLC

CONSTANTS Parts,      \* "clock", "lite", "lost", "sessions", "http"
          Workers,    \* Celery worker slots
          Ops, Resets,    \* environment operations, and those that are resets
          MaxIds, MaxLiteFaults, MaxLost, MaxCleanups,
          Sessions,   \* tokens of terminal connections
          MaxSessions, MaxRestarts, MaxBrokerFaults,
          MaxRuns, MaxGen, MaxReboots, MaxAnchors,    \* of the observations
          MaxHttpFaults, MaxCrashes

VARIABLES
  part,
  env, ledger, task, pair, ids, lock, worker, budget,
  broker, pc, exec, journal, running, allowed, brokerFaults,
  attempt, box, runs, dispatch, messages, workers, claims, verifiers, late,
  faults, crashes

liteVars == <<env, ledger, task, pair, ids, lock, worker, budget>>
sessionVars == <<broker, pc, exec, journal, running, allowed, brokerFaults>>
httpVars == <<attempt, box, runs, dispatch, messages, workers, claims,
              verifiers, late, faults, crashes>>

\* The environments of broker mode: where executors also lose their database
\* session, and where they do not.
Lite == INSTANCE TerminalLite WITH row <- env, MaxFaults <- MaxLiteFaults

\* What the names stand for: an attempt has finitely many operations.
LiteNames ==
  /\ IsFiniteSet(Ops) /\ Resets \subseteq Ops
  /\ Lite!NoOp \notin Ops /\ Lite!Nobody \notin Workers
  /\ MaxIds \in Nat \ {0} /\ MaxLiteFaults \in Nat /\ MaxLost \in Nat
  /\ MaxCleanups \in Nat

ASSUME LiteAssumption == LiteNames

\* More connections than slots, and two faults.
Broker == INSTANCE TerminalSession WITH
  MaxFaults <- MaxBrokerFaults, faults <- brokerFaults

\* Two observations, two workers, two environments and a reboot.
Http == INSTANCE HttpObservations WITH MaxFaults <- MaxHttpFaults

Off(v) == v = "off"
LiteOff ==
  /\ Off(env) /\ Off(ledger) /\ Off(task) /\ Off(pair)
  /\ Off(ids) /\ Off(lock) /\ Off(worker) /\ Off(budget)
SessionsOff ==
  /\ Off(broker) /\ Off(pc) /\ Off(exec) /\ Off(journal)
  /\ Off(running) /\ Off(allowed) /\ Off(brokerFaults)
HttpOff ==
  /\ Off(attempt) /\ Off(box) /\ Off(runs) /\ Off(dispatch)
  /\ Off(messages) /\ Off(workers) /\ Off(claims) /\ Off(verifiers)
  /\ Off(late) /\ Off(faults) /\ Off(crashes)

SuiteInit ==
  /\ part \in Parts
  /\ Init
  /\ \/ part = "clock" /\ LiteOff /\ SessionsOff /\ HttpOff
     \/ part = "lite" /\ Lite!Init /\ budget.lost = 0 /\ SessionsOff /\ HttpOff
     \/ part = "lost" /\ Lite!Init /\ budget.lost = MaxLost /\ SessionsOff /\ HttpOff
     \/ part = "sessions" /\ Broker!Init /\ LiteOff /\ HttpOff
     \/ part = "http" /\ Http!Init /\ LiteOff /\ SessionsOff

SuiteNext ==
  /\ UNCHANGED part
  /\ \/ part = "clock" /\ Next /\ UNCHANGED <<liteVars, sessionVars, httpVars>>
     \/ part \in {"lite", "lost"} /\ Lite!Next /\ UNCHANGED <<vars, sessionVars, httpVars>>
     \/ part = "sessions" /\ Broker!Next /\ UNCHANGED <<vars, liteVars, httpVars>>
     \/ part = "http" /\ Http!Next /\ UNCHANGED <<vars, liteVars, sessionVars>>

suiteVars == <<part, vars, liteVars, sessionVars, httpVars>>
SuiteSpec == SuiteInit /\ [][SuiteNext]_suiteVars

Symmetry == Permutations(Workers) \cup Permutations(Sessions)

-----------------------------------------------------------------------------
(* The properties of the parts, each stated in its module; those of the    *)
(* clock are the ones of WatchdogClock themselves.                         *)

\* What the trainee is shown as ready is a running task container with its
\* terminal and its broker, and restart_count counts the resets whose success
\* is in the ledger, although workers die between any two stages.  Nothing is
\* left behind unseen: a container that exists is of a generation the row still
\* names, and a retired one is never active again, also when an executor lost
\* its database session; a run with a verdict leaves no verifier container, now
\* or later.
NothingLeftBehind ==
  /\ part \in {"lite", "lost"} =>
       /\ Lite!TypeOK /\ Lite!RestartsMatchLedger
       /\ Lite!KnownGeneration /\ Lite!RetiredInactive
  /\ part = "lite" => Lite!ReadyIsLive
  /\ part = "http" => Http!VerdictCleans

\* A shell that runs is in the journal with its process, has its thread while
\* the broker serves without a failure, and there are never more shells than
\* slots, whatever crashed, failed or came late.
ShellsKept == part = "sessions" => Broker!ShellsKept

\* A verdict is of the target the run was requested for, while it still is the
\* environment of the current attempt, and what a finished run says stays.
VerdictsStand ==
  [][part = "http" => Http!VerdictIsTrue /\ Http!FinishedStays]_suiteVars
==============================================================================
