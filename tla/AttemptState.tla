---------------------------- MODULE AttemptState ----------------------------
(***************************************************************************)
(* The state shared by the processes that work on ONE TaskAttempt of the   *)
(* Ticket Sandbox: the database row, its append-only evidence ledger, the  *)
(* Docker daemon, the Celery broker, and what each process holds in        *)
(* memory between two transactions.                                        *)
(*                                                                         *)
(* Every transaction of the code takes the row lock of the attempt         *)
(* (SELECT ... FOR UPDATE) before it writes, so a transaction is one step. *)
(* What a process read BEFORE it took the lock is kept in its own record:  *)
(* a request whose guards were checked, the copy of the row a worker holds *)
(* while Docker runs, the rows a maintenance command selected.             *)
(*                                                                         *)
(* TERMINAL_BROKER_ENABLED is false (its default), so a container is named *)
(* after its attempt and a second one cannot be created under that name.   *)
(***************************************************************************)
EXTENDS Naturals, FiniteSets

CONSTANTS
  Tabs,            \* HTTP requests of the trainee that may be in flight at once
  Workers,         \* Celery worker processes
  Ops,             \* operation ids of environment requests (UUIDs)
  Runs,            \* run ids of check requests (UUIDs)
  None,            \* no id
  ReviewChoices    \* the values of RequiresReview, below, that attempts may have

ASSUME FiniteIds == IsFiniteSet(Ops) /\ IsFiniteSet(Runs)
ASSUME DistinctIds == Ops \cap Runs = {} /\ None \notin Ops \cup Runs
ASSUME ReviewFlags == ReviewChoices \subseteq BOOLEAN

VARIABLES
  row,       \* the TaskAttempt row
  ops,       \* SandboxEnvironmentEvent, folded per operation
  lastOp,    \* the operation requested last (greatest pk of phase "requested")
  runs,      \* TechnicalCheckExecution and its events, folded per run
  lastRun,   \* the run with the greatest ordinal
  checkRuns, \* how many CheckRun rows say PASSED and FAILED
  docker,    \* the operation that created the live task container
  queue,     \* messages in the Celery broker
  job,       \* what each worker is executing
  tab,       \* the trainee's requests in flight
  dog,       \* the detect_stuck_attempts command
  sweep      \* the cleanup_task_containers command

ledger == <<ops, lastOp, runs, lastRun, checkRuns>>
vars == <<row, ops, lastOp, runs, lastRun, checkRuns, docker, queue, job, tab, dog, sweep>>

-----------------------------------------------------------------------------
(* Types.                                                                  *)

Status == {"new", "in_progress", "on_review", "failed", "passed"}
CheckStatus == {"idle", "running", "passed", "failed", "error"}
EnvironmentStatus == {"idle", "starting", "ready", "restarting", "error"}

\* TaskAttempt: `passed' is technical_passed_at, `started' is started_at,
\* `container' says whether the container and terminal names are filled in, and
\* `review' never changes: task.requires_manual_review of a credit attempt.
Row == [status: Status, check: CheckStatus, env: EnvironmentStatus,
        passed: BOOLEAN, started: BOOLEAN, container: BOOLEAN, review: BOOLEAN,
        attempts: Nat, restarts: Nat]

\* An operation of kind "none" was never requested.  outcome "open" means no
\* finished event; "unknown" is the outcome of every close without a result.
Op == [kind: {"none", "start", "reset", "cleanup"}, started: BOOLEAN,
       outcome: {"open", "success", "not_started", "unknown"}]

\* `stored' says whether the finished event points to a CheckRun row.
Run == [requested: BOOLEAN, started: BOOLEAN,
        result: {"open", "passed", "failed", "unknown"}, stored: BOOLEAN]

EnvSteps == {"env_begin", "env_remove", "env_create", "env_terminal",
             "env_commit", "env_fail", "env_latest", "env_error"}
CheckSteps == {"check_guard", "check_begin", "check_load", "check_exec",
               "check_teardown", "check_commit", "check_fail", "check_error"}

\* A worker's job: its step, the id in the message, and the fields of its copy
\* of the row that it later writes back or acts upon.
Job == [pc: {"idle"} \cup EnvSteps \cup CheckSteps, id: Ops \cup Runs \cup {None},
        restarts: Nat, container: BOOLEAN,
        exit: {"none", "docker_error", "missing", "zero", "one", "other"}]

Tab == [pc: {"idle", "start", "reset", "check", "send_env", "send_check"},
        id: Ops \cup Runs \cup {None}]

Dog == [pc: {"idle", "env", "check"}, running: BOOLEAN]

Sweep == [pc: {"idle", "request", "remove", "refresh", "save"},
          unfinished: BOOLEAN, op: Ops \cup {None}, container: BOOLEAN,
          passed: BOOLEAN, status: Status, check: CheckStatus]

NoJob == [pc |-> "idle", id |-> None, restarts |-> 0, container |-> FALSE, exit |-> "none"]
NoTab == [pc |-> "idle", id |-> None]
NoDog == [pc |-> "idle", running |-> FALSE]
NoSweep == [pc |-> "idle", unfinished |-> FALSE, op |-> None, container |-> FALSE,
            passed |-> FALSE, status |-> "new", check |-> "idle"]

-----------------------------------------------------------------------------
(* The ledger.                                                             *)

Requested(o) == ops[o].kind # "none"
Open(o) == Requested(o) /\ ops[o].outcome = "open"
RunOpen(r) == runs[r].requested /\ runs[r].result = "open"

\* Mutant of FinishOp: a later close replaces the first one.
FinishAgain(o, outcome) ==
  IF Requested(o) THEN [ops EXCEPT ![o].outcome = outcome] ELSE ops

\* get_or_create of the finished phase: the first close of an operation stays.
FinishOp(o, outcome) ==
  IF Open(o) THEN [ops EXCEPT ![o].outcome = outcome] ELSE ops

\* finish_check: no event is added to an execution that is already finished.
FinishRun(r, result, stored) ==
  IF RunOpen(r) THEN [runs EXCEPT ![r].result = result, ![r].stored = stored] ELSE runs

\* interrupt: every open check and every open operation is closed as unknown.
InterruptRuns ==
  [r \in Runs |-> IF RunOpen(r) THEN [runs[r] EXCEPT !.result = "unknown"] ELSE runs[r]]
InterruptOps ==
  [o \in Ops |-> IF Open(o) THEN [ops[o] EXCEPT !.outcome = "unknown"] ELSE ops[o]]

\* Mutants of the two tests below: a late result is accepted.
EnvironmentAlwaysLive(o) == TRUE
CheckAlwaysLive(r) == TRUE

\* environment_live and check_live: a result is accepted only while its
\* operation is open.
EnvironmentLive(o) == ops[o].outcome = "open"
CheckLive(r) == runs[r].result = "open"

-----------------------------------------------------------------------------
RequiresReview == row.review
EnvBusy == row.env \in {"starting", "restarting"}

\* A new attempt, created by get_current_attempt: nothing has happened yet.
Init ==
  /\ \E review \in ReviewChoices :
       row = [status |-> "new", check |-> "idle", env |-> "idle", passed |-> FALSE,
              started |-> FALSE, container |-> FALSE, review |-> review,
              attempts |-> 0, restarts |-> 0]
  /\ ops = [o \in Ops |-> [kind |-> "none", started |-> FALSE, outcome |-> "open"]]
  /\ lastOp = None
  /\ runs = [r \in Runs |-> [requested |-> FALSE, started |-> FALSE,
                             result |-> "open", stored |-> FALSE]]
  /\ lastRun = None
  /\ checkRuns = [passed |-> 0, failed |-> 0]
  /\ docker = None
  /\ queue = {}
  /\ job = [w \in Workers |-> NoJob]
  /\ tab = [t \in Tabs |-> NoTab]
  /\ dog = NoDog
  /\ sweep = NoSweep
=============================================================================
