---------------------------- MODULE TerminalLite ----------------------------
(***************************************************************************)
(* The resumable environment lifecycle of broker mode, for one attempt     *)
(* (sandbox/services/terminal_lite.py and terminal_teardown.py).           *)
(* Workers take a session advisory lock, perform Docker calls outside any  *)
(* transaction, and persist the stage they reached in                      *)
(* TaskAttempt.environment_operation; a redelivery resumes from it.        *)
(* Generations are numbered: 0 is "no generation" (a container of the time *)
(* before the broker), a new operation takes the next one.                 *)
(***************************************************************************)
EXTENDS Naturals, FiniteSets

CONSTANTS
  Ops,           \* operation ids
  Resets,        \* those that are resets; the others are starts
  Workers,       \* Celery worker slots
  MaxIds,        \* containers Docker ever creates for the attempt
  MaxFaults,     \* Docker failures and worker crashes
  MaxLost,       \* executors whose database session is replaced under them
  MaxCleanups    \* times cleanup() is called

VARIABLES
  row,           \* the environment columns of the TaskAttempt
  ledger,        \* SandboxEnvironmentEvent: the outcome of each operation
  task,          \* Docker: the task container under the name of a generation
  pair,          \* Docker: its terminal and its terminal broker
  ids,           \* Docker: the container ids given out
  lock,          \* pg_try_advisory_lock: the worker that holds it
  worker,        \* what each worker is doing
  budget         \* the faults, lost sessions and cleanups left

vars == <<row, ledger, task, pair, ids, lock, worker, budget>>

NoOp == "no operation"
Nobody == "nobody"
Gens == 0..Cardinality(Ops)
EnvSpecs == [gen: Gens, id: 0..MaxIds]     \* the checkpoint of an environment
Both == {"terminal", "broker"}

Absent == [id |-> 0, up |-> FALSE]
Idle == [pc |-> "idle", op |-> NoOp, gen |-> 0, specs |-> {}]
Blank == [id |-> NoOp, stage |-> "none", old |-> {}, gen |-> 0, target |-> 0, retired |-> {}]

\* An attempt without an environment, or with one of before the broker; sessions
\* are lost, or none is.
Init ==
  /\ row \in {[working |-> TRUE, cleanup |-> FALSE, env |-> IF c = 0 THEN "idle" ELSE "ready",
               gen |-> 0, cid |-> c, op |-> Blank, restarts |-> 0] : c \in {0, 1}}
  /\ ledger = [o \in Ops |-> "none"]
  /\ task = [g \in Gens |-> IF g = 0 /\ row.cid = 1 THEN [id |-> 1, up |-> TRUE] ELSE Absent]
  /\ pair = [g \in Gens |-> IF g = 0 /\ row.cid = 1 THEN {"terminal"} ELSE {}]
  /\ ids = row.cid
  /\ lock = Nobody
  /\ worker = [w \in Workers |-> Idle]
  /\ budget \in [faults: {MaxFaults}, lost: {0, MaxLost}, cleanups: {MaxCleanups}]

Pending(o) == ledger[o] \in {"requested", "started"}
Goto(w, pc) == worker' = [worker EXCEPT ![w].pc = pc]
\* The with block ends: the lock is released, unless the session changed.
Release(w) ==
  /\ worker' = [worker EXCEPT ![w] = Idle]
  /\ lock' = IF lock = w THEN Nobody ELSE lock
Fence(w) == lock = w

\* snapshot: the pinned environment of the row, as a set of at most one spec.
Snapshot == IF row.cid = 0 THEN {} ELSE {[gen |-> row.gen, id |-> row.cid]}
\* Mutant: what was replaced is forgotten.
RetireMutant(retired, specs) == retired
\* retire: generations only, each once.
Retire(retired, specs) ==
  retired \cup {s \in specs : s.gen # 0 /\ \A r \in retired : r.gen # s.gen}

-----------------------------------------------------------------------------
(* The web process *)

\* try_mark_environment_starting and try_mark_environment_restarting.
RequestOperation(o) ==
  /\ ledger[o] = "none"
  /\ row.working
  /\ row.op.stage \notin {"teardown", "create", "terminal"}
  /\ IF row.env = "starting"
     THEN ledger' = [ledger EXCEPT ![o] = "not_started"] /\ UNCHANGED row
     ELSE ledger' = [ledger EXCEPT ![o] = "requested"] /\ row' = [row EXCEPT !.env = "starting"]
  /\ UNCHANGED <<task, pair, ids, lock, worker, budget>>

\* The answer is submitted, or returned: the status leaves WORKING_STATUSES
\* or is one of them again. Neither takes the advisory lock.
ChangeStatus ==
  /\ row' = [row EXCEPT !.working = ~row.working]
  /\ UNCHANGED <<ledger, task, pair, ids, lock, worker, budget>>

\* cleanup, the first statement: the durable intent, saved without the lock.
RequestCleanup ==
  /\ budget.cleanups > 0
  /\ row.gen # 0
  /\ row' = [row EXCEPT !.cleanup = TRUE]
  /\ budget' = [budget EXCEPT !.cleanups = @ - 1]
  /\ UNCHANGED <<ledger, task, pair, ids, lock, worker>>

-----------------------------------------------------------------------------
(* run *)

\* Mutant: a request that meets a cleanup still to be done clears it.
RevokedMutant(r) == ~r.working
\* The access was revoked before the operation started.
Revoked(r) == (r.cleanup /\ r.op.stage # "done") \/ ~r.working

\* A delivery, a retry or reconcile_broker_environments: lock, refresh, and
\* the operation is closed without a result if the access was revoked ...
RunRefused(o) ==
  /\ lock = Nobody
  /\ Pending(o)
  /\ Revoked(row)
  /\ ledger' = [ledger EXCEPT ![o] = "not_started"]
  /\ row' = [row EXCEPT !.cleanup = row.cleanup /\ row.op.stage # "done"]
  /\ UNCHANGED <<task, pair, ids, lock, worker, budget>>

\* Mutant: the generation of the previous operation is used again.
NewOperationMutant(o) ==
  [row EXCEPT !.op = [id |-> o, stage |-> "teardown", old |-> Snapshot, gen |-> IF row.gen = 0 THEN 1 ELSE row.gen,
                      target |-> 0, retired |-> row.op.retired],
              !.gen = IF row.gen = 0 THEN 1 ELSE row.gen, !.env = "starting", !.cleanup = FALSE]
NewOperation(o) ==
  [row EXCEPT !.op = [id |-> o, stage |-> "teardown", old |-> Snapshot, gen |-> row.op.gen + 1,
                      target |-> 0, retired |-> row.op.retired],
              !.gen = row.op.gen + 1, !.env = "starting", !.cleanup = FALSE]

\* ... or its generation is persisted, before any Docker side effect, or the
\* stage of an earlier delivery is resumed.
RunStart(w, o) ==
  /\ lock = Nobody
  /\ worker[w].pc = "idle"
  /\ Pending(o)
  /\ ~Revoked(row)
  /\ IF row.op.id = o
     THEN row' = [row EXCEPT !.cleanup = FALSE]
     ELSE row.op.stage \in {"none", "ready", "done"} /\ row' = NewOperation(o)
  /\ ledger' = [ledger EXCEPT ![o] = "started"]
  /\ lock' = w
  /\ worker' = [worker EXCEPT ![w] =
       [pc |-> IF row'.op.stage = "teardown" THEN "destroy" ELSE "find",
        op |-> o, gen |-> row'.op.gen, specs |-> row'.op.old]]
  /\ UNCHANGED <<task, pair, ids, budget>>

\* destroy of a set of specs; an id of 0 is looked up by the task's name.
Hits(s) == task[s.gen].id # 0 /\ s.id \in {0, task[s.gen].id}
DestroyTasks(specs) ==
  [g \in Gens |-> IF \E s \in specs : s.gen = g /\ Hits(s) THEN Absent ELSE task[g]]
DestroyPairs(specs) ==
  [g \in Gens |-> IF \E s \in specs : s.gen = g /\ (s.id # 0 \/ Hits(s)) THEN {} ELSE pair[g]]

Destroy(w, next) ==
  /\ task' = DestroyTasks(worker[w].specs)
  /\ pair' = DestroyPairs(worker[w].specs)
  /\ IF Fence(w) THEN Goto(w, next) /\ UNCHANGED lock ELSE Release(w)
  /\ UNCHANGED <<row, ledger, ids, budget>>

RunDestroy(w) == worker[w].pc = "destroy" /\ Destroy(w, "advance")

\* checkpoint re-reads the row under its lock ...
Checkpointed(w) == ~row.cleanup /\ row.working /\ row.op.id = worker[w].op

\* ... and an operation revoked meanwhile gives up, to be finished later.
RunRevoked(w) ==
  /\ worker[w].pc \in {"advance", "pin", "publish"}
  /\ Fence(w)
  /\ ~Checkpointed(w)
  /\ row' = [row EXCEPT !.env = "starting"]
  /\ Release(w)
  /\ UNCHANGED <<ledger, task, pair, ids, budget>>

\* checkpoint(stage='create') with the old environment retired
RunAdvance(w) ==
  /\ worker[w].pc = "advance"
  /\ Fence(w)
  /\ Checkpointed(w)
  /\ row' = [row EXCEPT !.op.stage = "create", !.op.retired = Retire(@, row.op.old)]
  /\ Goto(w, "clear")
  /\ UNCHANGED <<ledger, task, pair, ids, lock, budget>>

\* The container columns, in a save of their own.
RunClear(w) ==
  /\ worker[w].pc = "clear"
  /\ row' = [row EXCEPT !.cid = 0]
  /\ Goto(w, "find")
  /\ UNCHANGED <<ledger, task, pair, ids, lock, budget>>

\* The task container by its name: one that was only created is started.
RunFind(w) ==
  /\ worker[w].pc = "find"
  /\ Fence(w)
  /\ LET g == worker[w].gen IN
       IF task[g].id = 0
       THEN Goto(w, "create") /\ UNCHANGED task
       ELSE /\ row.op.target \in {0, task[g].id}
            /\ task' = [task EXCEPT ![g].up = TRUE]
            /\ Goto(w, "pin")
  /\ UNCHANGED <<row, ledger, pair, ids, lock, budget>>

\* create_task_container, after an image build of any length: no fence. The
\* name may be taken by then; the daemon refuses.
RunCreate(w) ==
  /\ worker[w].pc = "create"
  /\ ids < MaxIds
  /\ LET g == worker[w].gen IN
       /\ task[g].id = 0
       /\ task' = [task EXCEPT ![g] = [id |-> ids + 1, up |-> TRUE]]
  /\ ids' = ids + 1
  /\ IF Fence(w) THEN Goto(w, "pin") /\ UNCHANGED lock ELSE Release(w)
  /\ UNCHANGED <<row, ledger, pair, budget>>

\* checkpoint(stage='terminal', target_id=...)
RunPin(w) ==
  /\ worker[w].pc = "pin"
  /\ Fence(w)
  /\ Checkpointed(w)
  /\ row' = [row EXCEPT !.op.stage = "terminal", !.op.target = task[worker[w].gen].id]
  /\ Goto(w, "record")
  /\ UNCHANGED <<ledger, task, pair, ids, lock, budget>>

\* Mutant: a terminal left without its broker is taken for a pair.
PairCompleteMutant(g) == pair[g] # {}
PairComplete(g) == pair[g] = Both

\* The columns of the new container are saved; then the terminal is looked up.
RunRecord(w) ==
  /\ worker[w].pc = "record"
  /\ Fence(w)
  /\ row' = [row EXCEPT !.cid = row.op.target]
  /\ Goto(w, IF PairComplete(worker[w].gen) THEN "publish" ELSE "broker")
  /\ UNCHANGED <<ledger, task, pair, ids, lock, budget>>

\* _create_broker_terminal, no fence in it: what is left of the pair is
\* removed by name, the broker launched ...
RunBroker(w) ==
  /\ worker[w].pc = "broker"
  /\ task[worker[w].gen].id # 0
  /\ pair' = [pair EXCEPT ![worker[w].gen] = {"broker"}]
  /\ Goto(w, "terminal")
  /\ UNCHANGED <<row, ledger, task, ids, lock, budget>>

\* ... then ttyd, with its readiness.
RunTerminal(w) ==
  /\ worker[w].pc = "terminal"
  /\ "terminal" \notin pair[worker[w].gen]
  /\ pair' = [pair EXCEPT ![worker[w].gen] = @ \cup {"terminal"}]
  /\ IF Fence(w) THEN Goto(w, "publish") /\ UNCHANGED lock ELSE Release(w)
  /\ UNCHANGED <<row, ledger, task, ids, budget>>

\* Mutant: the counter is not saved in the transaction of the result.
RunPublishMutant(w) ==
  /\ worker[w].pc = "publish"
  /\ Fence(w)
  /\ Checkpointed(w)
  /\ row' = [row EXCEPT !.op.stage = "ready", !.env = "ready"]
  /\ ledger' = [ledger EXCEPT ![worker[w].op] = "success"]
  /\ Release(w)
  /\ UNCHANGED <<task, pair, ids, budget>>
\* The publication: stage, columns, restart_count and the ledger at once.
RunPublish(w) ==
  /\ worker[w].pc = "publish"
  /\ Fence(w)
  /\ Checkpointed(w)
  /\ row' = [row EXCEPT !.op.stage = "ready", !.env = "ready",
                        !.restarts = @ + IF worker[w].op \in Resets THEN 1 ELSE 0]
  /\ ledger' = [ledger EXCEPT ![worker[w].op] = "success"]
  /\ Release(w)
  /\ UNCHANGED <<task, pair, ids, budget>>

-----------------------------------------------------------------------------
(* cleanup under the lock, and reap_retired *)

\* The retired specs are saved before anything is destroyed.
CleanupSpecs ==
  LET old == IF row.op.old # {} /\ \A s \in row.op.old : s.id = row.cid
             THEN row.op.old ELSE Snapshot
  IN old \cup row.op.old

CleanupStart(w) ==
  /\ lock = Nobody
  /\ worker[w].pc = "idle"
  /\ row.cleanup
  /\ ~(row.op.stage = "done" /\ row.cid = 0)
  /\ LET replacement == IF row.op.gen = 0 THEN {} ELSE {[gen |-> row.op.gen, id |-> row.op.target]}
         byName == IF row.op.stage \in {"none", "done"} THEN {} ELSE {[gen |-> row.op.gen, id |-> 0]}
     IN /\ row' = [row EXCEPT !.op.retired = Retire(Retire(@, CleanupSpecs), replacement)]
        /\ worker' = [worker EXCEPT ![w] =
             [pc |-> "c_destroy", op |-> NoOp, gen |-> row.op.gen, specs |-> CleanupSpecs \cup byName]]
  /\ lock' = w
  /\ UNCHANGED <<ledger, task, pair, ids, budget>>

CleanupDestroy(w) == worker[w].pc = "c_destroy" /\ Destroy(w, "c_done")

\* Mutant: the status of a removed environment is not one of the choices.
CleanupDoneMutant(w) ==
  /\ worker[w].pc = "c_done"
  /\ Fence(w)
  /\ row' = [row EXCEPT !.op.stage = "done", !.env = "removed", !.cid = 0]
  /\ Release(w)
  /\ UNCHANGED <<ledger, task, pair, ids, budget>>
\* ledger.interrupt and the cleared columns, in one transaction; the intent
\* stays set until the next operation starts.
CleanupDone(w) ==
  /\ worker[w].pc = "c_done"
  /\ Fence(w)
  /\ ledger' = [o \in Ops |-> IF Pending(o) THEN "unknown" ELSE ledger[o]]
  /\ row' = [row EXCEPT !.op.stage = "done", !.env = "idle", !.cid = 0]
  /\ Release(w)
  /\ UNCHANGED <<task, pair, ids, budget>>

ActiveRetired(r) ==
  \E s \in r.op.retired : s.gen = r.gen /\ r.op.stage # "done" /\ ~r.cleanup

\* reap_retired: refuses as soon as an active generation is in the history.
ReapStart(w) ==
  /\ lock = Nobody
  /\ worker[w].pc = "idle"
  /\ row.op.retired # {}
  /\ ~ActiveRetired(row)
  /\ lock' = w
  /\ worker' = [worker EXCEPT ![w] =
       [pc |-> "r_destroy", op |-> NoOp, gen |-> 0, specs |-> row.op.retired]]
  /\ UNCHANGED <<row, ledger, task, pair, ids, budget>>

ReapDestroy(w) ==
  /\ worker[w].pc = "r_destroy"
  /\ task' = DestroyTasks(worker[w].specs)
  /\ pair' = DestroyPairs(worker[w].specs)
  /\ Release(w)
  /\ UNCHANGED <<row, ledger, ids, budget>>

-----------------------------------------------------------------------------
(* Faults *)

DockerSteps == {"destroy", "find", "create", "broker", "terminal", "c_destroy", "r_destroy"}

\* A Docker call fails. run saves a retryable status; the operation stays
\* unfinished for the redelivery. What was done before the failure remains.
DockerFails(w) ==
  /\ budget.faults > 0
  /\ worker[w].pc \in DockerSteps
  /\ row' = IF Fence(w) /\ worker[w].op # NoOp THEN [row EXCEPT !.env = "starting"] ELSE row
  /\ pair' \in CASE worker[w].pc \in {"destroy", "c_destroy", "r_destroy"} ->
                     {pair, DestroyPairs(worker[w].specs)}
               [] worker[w].pc = "broker" -> {[pair EXCEPT ![worker[w].gen] = p] : p \in {{}, {"broker"}}}
               [] worker[w].pc = "terminal" -> {[pair EXCEPT ![worker[w].gen] = @ \ {"broker"}]}
               [] OTHER -> {pair}
  /\ Release(w)
  /\ budget' = [budget EXCEPT !.faults = @ - 1]
  /\ UNCHANGED <<ledger, task, ids>>

\* The worker dies at any point, a container it was making perhaps created
\* and not started; the server drops the lock with the session.
Crash(w) ==
  /\ budget.faults > 0
  /\ worker[w].pc # "idle"
  /\ \/ UNCHANGED <<task, ids>>
     \/ /\ worker[w].pc = "create" /\ ids < MaxIds /\ task[worker[w].gen].id = 0
        /\ task' = [task EXCEPT ![worker[w].gen] = [id |-> ids + 1, up |-> FALSE]]
        /\ ids' = ids + 1
  /\ Release(w)
  /\ budget' = [budget EXCEPT !.faults = @ - 1]
  /\ UNCHANGED <<row, ledger, pair>>

\* The database session of a live worker is replaced during a Docker call:
\* the advisory lock is free, and the worker learns of it at its next fence.
LoseSession(w) ==
  /\ budget.lost > 0
  /\ Fence(w)
  /\ worker[w].pc \in DockerSteps \ {"find"}
  /\ lock' = Nobody
  /\ budget' = [budget EXCEPT !.lost = @ - 1]
  /\ UNCHANGED <<row, ledger, task, pair, ids, worker>>

\* A late creation whose name is taken, or whose task is gone: an exception,
\* and the fence in its handler raises again. A ttyd that cannot be created
\* takes the broker found under its name with it.
LateConflict(w) ==
  /\ ~Fence(w)
  /\ \/ worker[w].pc = "create" /\ task[worker[w].gen].id # 0 /\ UNCHANGED pair
     \/ worker[w].pc = "broker" /\ task[worker[w].gen].id = 0 /\ UNCHANGED pair
     \/ worker[w].pc = "terminal" /\ "terminal" \in pair[worker[w].gen]
        /\ pair' = [pair EXCEPT ![worker[w].gen] = @ \ {"broker"}]
  /\ Release(w)
  /\ UNCHANGED <<row, ledger, task, ids, budget>>

-----------------------------------------------------------------------------
RunStep(w) ==
  \/ RunDestroy(w) \/ RunRevoked(w) \/ RunAdvance(w) \/ RunClear(w) \/ RunFind(w) \/ RunCreate(w)
  \/ RunPin(w) \/ RunRecord(w) \/ RunBroker(w) \/ RunTerminal(w) \/ RunPublish(w)
WorkerStep(w) ==
  \/ RunStep(w) \/ CleanupDestroy(w) \/ CleanupDone(w) \/ ReapDestroy(w) \/ LateConflict(w)

Next ==
  \/ \E o \in Ops : RequestOperation(o) \/ RunRefused(o)
  \/ ChangeStatus
  \/ RequestCleanup
  \/ \E w \in Workers, o \in Ops : RunStart(w, o)
  \/ \E w \in Workers : CleanupStart(w) \/ ReapStart(w) \/ WorkerStep(w)
  \/ \E w \in Workers : DockerFails(w) \/ Crash(w) \/ LoseSession(w)

\* A worker goes on unless it dies. Reconciliation sends the cleanup again
\* every 30 seconds, and the other holders of the lock are short: an attempt
\* that is repeated finds it free.
Fairness ==
  /\ \A w \in Workers : WF_vars(WorkerStep(w))
  /\ SF_vars(\E w \in Workers : CleanupStart(w))

Spec == Init /\ [][Next]_vars /\ Fairness

-----------------------------------------------------------------------------
(* Properties *)

TypeOK ==
  /\ row \in [working: BOOLEAN, cleanup: BOOLEAN, env: {"idle", "starting", "ready"}, gen: Gens,
              cid: 0..MaxIds, restarts: Nat,
              op: [id: Ops \cup {NoOp}, stage: {"none", "teardown", "create", "terminal", "ready", "done"},
                   old: SUBSET EnvSpecs, gen: Gens, target: 0..MaxIds, retired: SUBSET EnvSpecs]]
  /\ ledger \in [Ops -> {"none", "requested", "started", "success", "not_started", "unknown"}]
  /\ task \in [Gens -> [id: 0..MaxIds, up: BOOLEAN]]
  /\ pair \in [Gens -> SUBSET Both]
  /\ ids \in 0..MaxIds
  /\ lock \in Workers \cup {Nobody}
  /\ worker \in [Workers -> [pc: {"idle", "advance", "clear", "pin", "record", "publish", "c_done"} \cup DockerSteps,
                             op: Ops \cup {NoOp}, gen: Gens, specs: SUBSET EnvSpecs]]
  /\ budget \in [faults: 0..MaxFaults, lost: 0..MaxLost, cleanups: 0..MaxCleanups]

\* A container that exists, whoever made it and however late, is of a
\* generation the row still names: the current one, the one being torn down,
\* or a retired one that the reaper visits. Nothing is lost by a crash.
KnownGeneration ==
  \A g \in Gens : task[g].id # 0 \/ pair[g] # {} =>
     \/ g = row.gen
     \/ \E s \in row.op.old \cup row.op.retired : s.gen = g

\* reap_retired never meets its IdentityError: a retired generation is not
\* active again, also between a cleanup and the operation after it.
RetiredInactive == ~ActiveRetired(row)

\* restart_count counts the resets whose success is in the ledger: a resumed
\* or redelivered operation is not counted twice.
RestartsMatchLedger ==
  row.restarts = Cardinality({o \in Resets : ledger[o] = "success"})

\* What the trainee is shown as ready is a running task container, the one
\* the row pins, with its terminal and its broker.
ReadyIsLive ==
  row.env = "ready" /\ ~row.cleanup /\ row.gen # 0 =>
     /\ task[row.gen] = [id |-> row.cid, up |-> TRUE]
     /\ pair[row.gen] = Both
     /\ ledger[row.op.id] = "success"

\* "Reconcile late daemon responses after worker death": once the attempt is
\* cleaned up and no worker is busy, what exists is what the reaper removes.
ReaperReaches ==
  row.op.stage = "done" /\ (\A w \in Workers : worker[w].pc = "idle") =>
     \A g \in Gens : task[g].id # 0 => \E s \in row.op.retired : s.gen = g /\ Hits(s)

\* A requested cleanup is carried out, whatever it interrupts.
CleanupFinishes == row.cleanup ~> row.op.stage = "done"
=============================================================================
