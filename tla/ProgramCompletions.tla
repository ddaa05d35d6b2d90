------------------------- MODULE ProgramCompletions -------------------------
(***************************************************************************)
(* Completion of the L1 program: the last part of the transaction that     *)
(* stores a passed check (record_completion_after_success), the            *)
(* maintenance command that restores completions, and the administrators   *)
(* who switch the queue and its tasks meanwhile.                           *)
(*                                                                         *)
(* Transactions are READ COMMITTED: a statement sees what was committed    *)
(* when it starts, and its own transaction's writes.  The queue row is the *)
(* lock that orders everyone who reads the composition of the program.     *)
(***************************************************************************)
EXTENDS Naturals, FiniteSets

CONSTANTS
  Users,
  Tasks,
  Attempts,     \* <<user, task, attempt_number>>
  Historic,     \* attempts whose only evidence is a CheckRun with exit code 0
  MaxSwitches   \* bound on the changes administrators make

Free == <<>>
RestoreTx == <<"restore">>

ASSUME AttemptsAssumption ==
  /\ Attempts \subseteq Users \X Tasks \X {1, 2}
  /\ Historic \subseteq Attempts

VARIABLES
  active,       \* Task.is_active
  queue_active, \* Queue.is_active
  evidence,     \* attempts with committed technical evidence
  ahead,        \* those whose passed_at came from a clock ahead of the readers'
  caught,       \* those of them the clock of the readers has passed
  stage,        \* the transaction of each attempt's successful check
  candidate,    \* the composition a transaction read under the locks
  unlocked,     \* attempts whose transaction got "active_queue_missing"
  lock,         \* holder of the queue row and of its task rows
  completion,   \* SandboxProgramCompletion of each user, at most one
  published,    \* source events of the providers, written with their facts
  restore,      \* restore_sandbox_completions
  switches

adminVars == <<active, queue_active, switches>>
proofVars == <<evidence, ahead, caught>>
txVars == <<stage, candidate, unlocked>>
storeVars == <<completion, published>>
vars == <<adminVars, proofVars, txVars, lock, storeVars, restore>>

Init ==
  /\ active \in SUBSET Tasks
  /\ queue_active = TRUE
  /\ evidence = Historic
  /\ ahead = {} /\ caught = {}
  /\ stage = [a \in Attempts |-> IF a \in Historic THEN "over" ELSE "checking"]
  /\ candidate = [a \in Attempts |-> {}]
  /\ unlocked = {}
  /\ lock = Free
  /\ completion = [u \in Users |-> {}]
  /\ published = {}
  /\ restore = [stage |-> "idle", users |-> {}, fingerprint |-> {}]
  /\ switches = 0

(***************************************************************************)
(* What a transaction sees: the committed evidence and its own.            *)
(***************************************************************************)
Seen(own) == evidence \cup own

EligibleMutant(u, tasks, seen) ==
  /\ tasks # {}
  /\ \A t \in tasks : \E n \in {1, 2} : <<u, t, n>> \in seen

(* _candidate: every active task has the credit attempt of the user with   *)
(* evidence that is not in the future.                                     *)
Eligible(u, tasks, seen) ==
  /\ tasks # {}
  /\ \A t \in tasks : <<u, t, 1>> \in seen /\ <<u, t, 1>> \notin ahead \ caught

(* build_sandbox_queue_progress_map: what the pages show of the queue.     *)
Progress(u) ==
  LET done == {t \in active : <<u, t, 1>> \in evidence}
      shown == queue_active /\ active # {}
  IN [total_count |-> IF shown THEN Cardinality(active) ELSE 0,
      passed_count |-> IF shown THEN Cardinality(done) ELSE 0,
      is_ready |-> shown /\ done = active,
      is_completed |-> completion[u] # {}]

StoreMutant(u, tasks, source) ==
  completion' = [completion EXCEPT ![u] =
    @ \cup {[tasks |-> tasks, source |-> source]}]

(* _store: get_or_create under the unique constraint of the user.          *)
Store(u, tasks, source) ==
  completion' = [completion EXCEPT ![u] =
       IF @ = {} THEN {[tasks |-> tasks, source |-> source]} ELSE @]

(* The check of attempt a succeeded: its transaction writes the CheckRun   *)
(* and technical_passed_at.  Only a credit attempt of a user without a     *)
(* completion goes on to the locks.                                        *)
WritePassed(a) ==
  /\ stage[a] = "checking"
  /\ stage' = [stage EXCEPT ![a] =
       IF a[3] = 1 /\ completion[a[1]] = {} THEN "waiting" ELSE "skipped"]
  /\ UNCHANGED <<adminVars, proofVars, storeVars, candidate, unlocked, lock,
                 restore>>

LockQueueMutant(a) ==
  /\ stage[a] = "waiting"
  /\ candidate' = [candidate EXCEPT ![a] =
       IF queue_active /\ Eligible(a[1], active, Seen({a})) THEN active ELSE {}]
  /\ stage' = [stage EXCEPT ![a] =
       IF queue_active THEN "decided" ELSE "skipped"]
  /\ UNCHANGED <<adminVars, proofVars, storeVars, unlocked, lock, restore>>

(* _locked_candidate: the queue row, then every task row of the queue, the *)
(* inactive ones too.  An inactive queue is not locked.                    *)
LockQueue(a) ==
  /\ stage[a] = "waiting"
  /\ lock = Free
  /\ IF queue_active
       THEN /\ lock' = a
            /\ candidate' = [candidate EXCEPT ![a] =
                 IF Eligible(a[1], active, Seen({a})) THEN active ELSE {}]
            /\ stage' = [stage EXCEPT ![a] = "decided"]
            /\ UNCHANGED unlocked
       ELSE /\ stage' = [stage EXCEPT ![a] = "skipped"]
            /\ unlocked' = unlocked \cup {a}
            /\ UNCHANGED <<lock, candidate>>
  /\ UNCHANGED <<adminVars, proofVars, storeVars, restore>>

(* The end of the transaction: the completion, the source events and the   *)
(* evidence are committed together.  The clock of the worker that checked  *)
(* may be ahead of the others.                                             *)
CommitSuccess(a) ==
  /\ stage[a] \in {"decided", "skipped"}
  /\ IF a[2] \in candidate[a]
       THEN Store(a[1], candidate[a], "technical_check")
       ELSE UNCHANGED completion
  /\ evidence' = evidence \cup {a}
  /\ \E late \in SUBSET {a} : ahead' = ahead \cup late
  /\ published' = published
       \cup {<<"sandbox_technical", b>> : b \in {c \in {a} : c[3] = 1}}
       \cup {<<"sandbox_completion", u>> :
               u \in {v \in Users : completion[v] # completion'[v]}}
  /\ lock' = IF lock = a THEN Free ELSE lock
  /\ stage' = [stage EXCEPT ![a] = "over"]
  /\ UNCHANGED <<adminVars, caught, candidate, unlocked, restore>>

(* The worker is lost, or check_live refuses a stale execution: nothing of *)
(* the transaction remains.                                                *)
Abort(a) ==
  /\ stage[a] \in {"waiting", "decided", "skipped"}
  /\ lock' = IF lock = a THEN Free ELSE lock
  /\ candidate' = [candidate EXCEPT ![a] = {}]
  /\ stage' = [stage EXCEPT ![a] = "checking"]
  /\ unlocked' = unlocked \ {a}
  /\ UNCHANGED <<adminVars, proofVars, storeVars, restore>>

ClockPasses ==
  /\ caught # ahead
  /\ caught' = ahead
  /\ UNCHANGED <<adminVars, txVars, storeVars, evidence, ahead, lock,
                 restore>>

SwitchTaskMutant(t) ==
  /\ switches < MaxSwitches
  /\ active' = IF t \in active THEN active \ {t} ELSE active \cup {t}
  /\ switches' = switches + 1
  /\ UNCHANGED <<proofVars, txVars, storeVars, queue_active, lock, restore>>

(* An administrator saves a task or the queue; the row locks make the      *)
(* update wait for the transaction that holds them.                        *)
SwitchTask(t) ==
  /\ switches < MaxSwitches
  /\ lock = Free
  /\ active' = IF t \in active THEN active \ {t} ELSE active \cup {t}
  /\ switches' = switches + 1
  /\ UNCHANGED <<proofVars, txVars, storeVars, queue_active, lock, restore>>

SwitchQueue ==
  /\ switches < MaxSwitches
  /\ lock = Free
  /\ queue_active' = ~queue_active
  /\ switches' = switches + 1
  /\ UNCHANGED <<proofVars, txVars, storeVars, active, lock, restore>>

-----------------------------------------------------------------------------
(* restore_sandbox_completions: a dry run shows the fingerprint of the     *)
(* current composition, --apply takes it back with explicit users.         *)
Analyze(selected) ==
  /\ restore.stage = "idle"
  /\ queue_active
  /\ restore' = [stage |-> "analyzed", users |-> selected,
                 fingerprint |-> active]
  /\ UNCHANGED <<adminVars, proofVars, txVars, storeVars, lock>>

Remaining == {u \in restore.users : completion[u] = {}}

RestoreAcceptsMutant ==
  /\ queue_active
  /\ active = restore.fingerprint
  /\ \E u \in Remaining : Eligible(u, active, evidence)

(* restore_program_completion of every selected user in one transaction:   *)
(* one refusal rolls all of them back.                                     *)
RestoreAccepts ==
  /\ queue_active
  /\ active = restore.fingerprint
  /\ \A u \in Remaining : Eligible(u, active, evidence)

RestoreLock ==
  /\ restore.stage = "analyzed"
  /\ lock = Free
  /\ IF Remaining # {} /\ RestoreAccepts
       THEN lock' = RestoreTx /\ restore' = [restore EXCEPT !.stage = "locked"]
       ELSE lock' = lock /\ restore' = [restore EXCEPT !.stage = "idle"]
  /\ UNCHANGED <<adminVars, proofVars, txVars, storeVars>>

RestoreCommit ==
  /\ restore.stage = "locked"
  /\ completion' = [u \in Users |->
       IF u \in Remaining
         THEN {[tasks |-> restore.fingerprint, source |-> "legacy_restore"]}
         ELSE completion[u]]
  /\ published' = published \cup {<<"sandbox_completion", u>> : u \in Remaining}
  /\ lock' = Free
  /\ restore' = [restore EXCEPT !.stage = "idle"]
  /\ UNCHANGED <<adminVars, proofVars, txVars>>

-----------------------------------------------------------------------------
Next ==
  \/ \E a \in Attempts :
       WritePassed(a) \/ LockQueue(a) \/ CommitSuccess(a) \/ Abort(a)
  \/ ClockPasses
  \/ \E t \in Tasks : SwitchTask(t)
  \/ SwitchQueue
  \/ \E selected \in SUBSET Users \ {{}} : Analyze(selected)
  \/ RestoreLock
  \/ RestoreCommit

Spec == Init /\ [][Next]_vars

Snapshot == [tasks : SUBSET Tasks \ {{}},
             source : {"technical_check", "legacy_restore"}]

(* The rows of the program and the transactions in flight have their       *)
(* types, and a user never has two completions (the unique constraint of   *)
(* SandboxProgramCompletion).                                              *)
TypeOK ==
  /\ active \subseteq Tasks /\ queue_active \in BOOLEAN
  /\ evidence \subseteq Attempts 
  /\ ahead \subseteq evidence /\ caught \subseteq ahead
  /\ stage \in [Attempts ->
                 {"checking", "waiting", "decided", "skipped", "over"}]
  /\ candidate \in [Attempts -> SUBSET Tasks]
  /\ lock \in Attempts \cup {Free, RestoreTx}
  /\ completion \in [Users -> SUBSET Snapshot]
  /\ \A u \in Users : Cardinality(completion[u]) <= 1
  /\ restore.stage \in {"idle", "analyzed", "locked"}

(* A stored completion rests on the credit attempts of its own snapshot:   *)
(* each task of it has committed technical evidence of attempt 1, whoever  *)
(* stored it (record_completion_after_success or the restore command) and  *)
(* whatever administrators switched meanwhile.                             *)
CompletionProven ==
  \A u \in Users : \A c \in completion[u] :
    c.tasks # {} /\ \A t \in c.tasks : <<u, t, 1>> \in evidence

(* A completion is stored for the composition that is active when it is    *)
(* committed: the locks of _locked_candidate exclude an administrator who  *)
(* would change it between the reading and the commit.                     *)
SnapshotIsComposition ==
  [][\A u \in Users : \A c \in completion'[u] \ completion[u] :
       c.tasks = active /\ queue_active]_vars

(* The last success completes the program: when the transaction of a       *)
(* credit attempt of an active task commits and the queue's progress is    *)
(* then ready, the user has a completion, also when two last successes     *)
(* commit at the same time.  The exceptions are evidence from a clock that *)
(* is ahead and a success that found the queue switched off.               *)
LastSuccessCompletes ==
  [][\A a \in Attempts :
       /\ stage[a] = "decided" /\ stage'[a] = "over"
       /\ a[2] \in active /\ ahead' = {}
       /\ \A b \in unlocked : b[1] # a[1]
       /\ Progress(a[1])'.is_ready
       => Progress(a[1])'.is_completed]_vars
=============================================================================
