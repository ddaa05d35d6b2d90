-------------------------- MODULE CompletionProofs --------------------------
(***************************************************************************)
(* What a program completion rests on, for any users, tasks and attempts;  *)
(* what sync_training_tasks leaves of the catalogue it is made of; and what *)
(* awards and their notifications rest on.                                 *)
(***************************************************************************)
EXTENDS MCCompletions, Sequences, FiniteSetTheorems, WellFoundedInduction,
        TLAPS

USE AttemptsAssumption

\* Nobody is mistaken for another holder of the queue's row.
LEMMA HoldersDiffer ==
  /\ Free \notin Attempts
  /\ RestoreTx \notin Attempts
  /\ Free # RestoreTx
<1>1. \A a \in Attempts : DOMAIN a = 1..3
  <2> SUFFICES ASSUME NEW a \in Attempts PROVE DOMAIN a = 1..3
    OBVIOUS
  <2>1. a \in Users \X Tasks \X {1, 2}
    OBVIOUS
  <2> QED
    BY <2>1
<1>2. DOMAIN Free = 1..0 /\ DOMAIN RestoreTx = 1..1
  BY DEF Free, RestoreTx
<1>3. 3 \in 1..3 /\ 3 \notin 1..0 /\ 3 \notin 1..1 /\ 1 \in 1..1 /\ 1 \notin 1..0
  OBVIOUS
<1> QED
  BY <1>1, <1>2, <1>3

-----------------------------------------------------------------------------
(* The inductive invariant.                                                *)

\* The types it needs.
Shapes ==
  /\ stage \in [Attempts ->
                 {"checking", "waiting", "decided", "skipped", "over"}]
  /\ candidate \in [Attempts -> SUBSET Tasks]
  /\ active \subseteq Tasks
  /\ DOMAIN completion = Users
  /\ restore \in [stage : {"idle", "analyzed", "locked"},
                  users : SUBSET Users, fingerprint : SUBSET Tasks]

Proven(u, tasks, seen) ==
  tasks # {} /\ \A t \in tasks : <<u, t, 1>> \in seen

\* A transaction that has not decided, or decided without the locks, brings no
\* composition to its commit.
UndecidedEmpty ==
  \A a \in Attempts :
    stage[a] \in {"checking", "waiting", "skipped"} => candidate[a] = {}

\* One that has decided holds the queue's row, and what it read under the lock
\* is still so: the composition is active and every task of it proven.
DecidedHolds ==
  \A a \in Attempts :
    stage[a] = "decided" =>
      /\ lock = a
      /\ queue_active
      /\ candidate[a] # {} =>
           candidate[a] = active /\ Proven(a[1], active, evidence \cup {a})

\* The same of the restore command.
RestoreHolds ==
  restore.stage = "locked" =>
    /\ lock = RestoreTx
    /\ queue_active
    /\ active = restore.fingerprint
    /\ \A u \in Remaining : Proven(u, active, evidence)

ProofInv ==
  Shapes /\ UndecidedEmpty /\ DecidedHolds /\ RestoreHolds /\ CompletionProven

LEMMA ProofInit == Init => ProofInv
<1> SUFFICES ASSUME Init PROVE ProofInv
  OBVIOUS
<1>1. Shapes
  BY DEF Init, Shapes
<1>2. UndecidedEmpty /\ DecidedHolds /\ RestoreHolds
  BY DEF Init, UndecidedEmpty, DecidedHolds, RestoreHolds
<1>3. CompletionProven
  BY DEF Init, CompletionProven
<1> QED
  BY <1>1, <1>2, <1>3 DEF ProofInv

\* What Eligible establishes.
LEMMA EligibleProven ==
  ASSUME NEW u, NEW tasks, NEW seen, Eligible(u, tasks, seen)
  PROVE  Proven(u, tasks, seen)
BY DEF Eligible, Proven

\* The steps of one transaction of a successful check.
LEMMA SuccessStep ==
  ASSUME ProofInv, NEW a \in Attempts,
         WritePassed(a) \/ LockQueue(a) \/ CommitSuccess(a) \/ Abort(a)
  PROVE  ProofInv'
<1>i. Shapes /\ UndecidedEmpty /\ DecidedHolds /\ RestoreHolds
      /\ CompletionProven
  BY DEF ProofInv
<1>1. CASE WritePassed(a)
  <2>1. /\ \A b \in Attempts \ {a} : stage'[b] = stage[b]
        /\ stage[a] = "checking"
        /\ stage'[a] \in {"waiting", "skipped"}
        /\ stage' \in [Attempts ->
                 {"checking", "waiting", "decided", "skipped", "over"}]
    BY <1>1, <1>i DEF WritePassed, Shapes
  <2>2. UNCHANGED <<adminVars, proofVars, storeVars, candidate, lock, restore>>
    BY <1>1 DEF WritePassed
  <2>3. Shapes'
    BY <1>i, <2>1, <2>2 DEF Shapes, adminVars, proofVars, storeVars
  <2>4. UndecidedEmpty'
    BY <1>i, <2>1, <2>2 DEF UndecidedEmpty
  <2>5. DecidedHolds'
    BY <1>i, <2>1, <2>2 DEF DecidedHolds, adminVars, proofVars, Proven
  <2>6. RestoreHolds'
    BY <1>i, <2>2 DEF RestoreHolds, Remaining, adminVars, proofVars, storeVars,
         Proven
  <2>7. CompletionProven'
    BY <1>i, <2>2 DEF CompletionProven, proofVars, storeVars
  <2> QED
    BY <2>3, <2>4, <2>5, <2>6, <2>7 DEF ProofInv
<1>2. CASE LockQueue(a)
  <2>1. UNCHANGED <<adminVars, proofVars, storeVars, restore>>
    BY <1>2 DEF LockQueue
  <2>2. stage[a] = "waiting" /\ lock = Free
    BY <1>2 DEF LockQueue
  <2>3. \A b \in Attempts : stage[b] # "decided"
    BY <1>i, <2>2, HoldersDiffer DEF DecidedHolds
  <2>4. restore.stage # "locked"
    BY <1>i, <2>2, HoldersDiffer DEF RestoreHolds
  <2>5. CASE queue_active
    <3>1. /\ lock' = a
          /\ \A b \in Attempts \ {a} : /\ stage'[b] = stage[b]
                                       /\ candidate'[b] = candidate[b]
          /\ stage'[a] = "decided"
          /\ candidate'[a] = IF Eligible(a[1], active, Seen({a}))
                               THEN active ELSE {}
      BY <1>2, <1>i, <2>5 DEF LockQueue, Shapes
    <3>2. Shapes'
      BY <1>2, <1>i, <2>1, <2>5 DEF Shapes, LockQueue, adminVars, proofVars,
           storeVars
    <3>3. UndecidedEmpty'
      BY <1>i, <3>1 DEF UndecidedEmpty
    <3>4. DecidedHolds'
      <4> SUFFICES ASSUME NEW b \in Attempts, stage'[b] = "decided"
                   PROVE  /\ lock' = b
                          /\ queue_active'
                          /\ candidate'[b] # {} =>
                               /\ candidate'[b] = active'
                               /\ Proven(b[1], active', evidence' \cup {b})
        BY DEF DecidedHolds
      <4>1. b = a
        BY <2>3, <3>1
      <4>2. candidate'[a] # {} => Eligible(a[1], active, Seen({a}))
        BY <3>1
      <4>3. candidate'[a] # {} => Proven(a[1], active, evidence \cup {a})
        BY <4>2, EligibleProven DEF Seen
      <4> QED
        BY <2>1, <2>5, <3>1, <4>1, <4>3 DEF adminVars, proofVars
    <3> QED
      BY <1>i, <2>1, <2>4, <3>2, <3>3, <3>4
      DEF ProofInv, RestoreHolds, CompletionProven, proofVars, storeVars
  <2>6. CASE ~queue_active
    <3>1. /\ UNCHANGED <<lock, candidate>>
          /\ stage'[a] = "skipped"
          /\ \A b \in Attempts \ {a} : stage'[b] = stage[b]
      BY <1>2, <1>i, <2>6 DEF LockQueue, Shapes
    <3>2. Shapes'
      BY <1>2, <1>i, <2>1, <2>6 DEF Shapes, LockQueue, adminVars, proofVars,
           storeVars
    <3>3. UndecidedEmpty'
      BY <1>i, <2>2, <3>1 DEF UndecidedEmpty
    <3>4. DecidedHolds'
      BY <2>3, <3>1 DEF DecidedHolds
    <3> QED
      BY <1>i, <2>1, <2>4, <3>2, <3>3, <3>4
      DEF ProofInv, RestoreHolds, CompletionProven, proofVars, storeVars
  <2> QED
    BY <2>5, <2>6
<1>3. CASE CommitSuccess(a)
  <2>1. /\ stage[a] \in {"decided", "skipped"}
        /\ evidence' = evidence \cup {a}
        /\ lock' = IF lock = a THEN Free ELSE lock
        /\ \A b \in Attempts \ {a} : stage'[b] = stage[b]
        /\ stage'[a] = "over"
        /\ UNCHANGED <<active, queue_active, candidate, restore>>
    BY <1>3, <1>i DEF CommitSuccess, Shapes, adminVars
  <2>2. /\ DOMAIN completion' = Users
        /\ \A u \in Users : completion'[u] # completion[u] =>
             /\ u = a[1]
             /\ candidate[a] # {}
             /\ completion[u] = {}
             /\ completion'[u] = {[tasks |-> candidate[a],
                                   source |-> "technical_check"]}
    <3>1. CASE a[2] \in candidate[a]
      BY <1>3, <1>i, <3>1 DEF CommitSuccess, Store, Shapes
    <3>2. CASE a[2] \notin candidate[a]
      BY <1>3, <1>i, <3>2 DEF CommitSuccess, Shapes
    <3> QED
      BY <3>1, <3>2
  <2>3. candidate[a] # {} =>
          candidate[a] = active /\ Proven(a[1], active, evidence')
    BY <1>i, <2>1 DEF UndecidedEmpty, DecidedHolds
  <2>4. Shapes'
    BY <1>3, <1>i, <2>1, <2>2 DEF Shapes, CommitSuccess
  <2>5. UndecidedEmpty'
    BY <1>i, <2>1 DEF UndecidedEmpty
  <2>6. DecidedHolds'
    <3> SUFFICES ASSUME NEW b \in Attempts, stage'[b] = "decided"
                 PROVE  /\ lock' = b
                        /\ queue_active'
                        /\ candidate'[b] # {} =>
                             /\ candidate'[b] = active'
                             /\ Proven(b[1], active', evidence' \cup {b})
      BY DEF DecidedHolds
    <3>1. b # a /\ stage[b] = "decided"
      BY <2>1
    <3>2. /\ lock = b
          /\ queue_active
          /\ candidate[b] # {} =>
               candidate[b] = active /\ Proven(b[1], active, evidence \cup {b})
      BY <1>i, <3>1 DEF DecidedHolds
    <3> QED
      BY <2>1, <3>1, <3>2 DEF Proven
  <2>7. RestoreHolds'
    <3> SUFFICES ASSUME restore'.stage = "locked"
                 PROVE  /\ lock' = RestoreTx
                        /\ queue_active'
                        /\ active' = restore'.fingerprint
                        /\ \A u \in Remaining' : Proven(u, active', evidence')
      BY DEF RestoreHolds
    <3>1. /\ lock = RestoreTx
          /\ queue_active
          /\ active = restore.fingerprint
          /\ \A u \in Remaining : Proven(u, active, evidence)
      BY <1>i, <2>1 DEF RestoreHolds
    <3>2. lock # a
      BY <3>1, HoldersDiffer
    <3>3. restore.users \subseteq Users
      BY <1>i DEF Shapes
    <3>4. Remaining' \subseteq Remaining
      BY <2>1, <2>2, <3>3 DEF Remaining
    <3> QED
      BY <2>1, <3>1, <3>2, <3>4 DEF Proven
  <2>8. CompletionProven'
    <3> SUFFICES ASSUME NEW u \in Users, NEW c \in completion'[u]
                 PROVE  Proven(u, c.tasks, evidence')
      BY DEF CompletionProven, Proven
    <3>1. CASE completion'[u] = completion[u]
      BY <1>i, <2>1, <3>1 DEF CompletionProven, Proven
    <3>2. CASE completion'[u] # completion[u]
      <4>1. u = a[1] /\ c.tasks = candidate[a] /\ candidate[a] # {}
        BY <2>2, <3>2
      <4> QED
        BY <2>3, <4>1
    <3> QED
      BY <3>1, <3>2
  <2> QED
    BY <2>4, <2>5, <2>6, <2>7, <2>8 DEF ProofInv
<1>4. CASE Abort(a)
  <2>1. UNCHANGED <<adminVars, proofVars, storeVars, restore>>
    BY <1>4 DEF Abort
  <2>2. /\ stage'[a] = "checking"
        /\ candidate'[a] = {}
        /\ \A b \in Attempts \ {a} : /\ stage'[b] = stage[b]
                                     /\ candidate'[b] = candidate[b]
        /\ lock' = IF lock = a THEN Free ELSE lock
    BY <1>4, <1>i DEF Abort, Shapes
  <2>3. Shapes'
    BY <1>4, <1>i, <2>1 DEF Abort, Shapes, adminVars, proofVars, storeVars
  <2>4. UndecidedEmpty'
    BY <1>i, <2>2 DEF UndecidedEmpty
  <2>5. DecidedHolds'
    BY <1>i, <2>1, <2>2 DEF DecidedHolds, Proven, adminVars, proofVars
  <2>6. RestoreHolds'
    BY <1>i, <2>1, <2>2, HoldersDiffer
    DEF RestoreHolds, Remaining, Proven, adminVars, proofVars, storeVars
  <2>7. CompletionProven'
    BY <1>i, <2>1 DEF CompletionProven, proofVars, storeVars
  <2> QED
    BY <2>3, <2>4, <2>5, <2>6, <2>7 DEF ProofInv
<1> QED
  BY <1>1, <1>2, <1>3, <1>4

\* Administrators and the clock: the row locks keep them out while anybody has
\* decided.
LEMMA AdminStep ==
  ASSUME ProofInv,
         ClockPasses \/ (\E t \in Tasks : SwitchTask(t)) \/ SwitchQueue
  PROVE  ProofInv'
<1>i. Shapes /\ UndecidedEmpty /\ DecidedHolds /\ RestoreHolds
      /\ CompletionProven
  BY DEF ProofInv
<1>1. CASE ClockPasses
  BY <1>1, <1>i DEF ClockPasses, ProofInv, Shapes, UndecidedEmpty, DecidedHolds,
       RestoreHolds, CompletionProven, Remaining, Proven, adminVars, txVars,
       storeVars
<1>2. CASE (\E t \in Tasks : SwitchTask(t)) \/ SwitchQueue
  <2>1. /\ lock = Free
        /\ active' \subseteq Tasks
        /\ UNCHANGED <<proofVars, txVars, storeVars, lock, restore>>
    BY <1>2, <1>i DEF SwitchTask, SwitchQueue, Shapes
  <2>2. \A b \in Attempts : stage[b] # "decided"
    BY <1>i, <2>1, HoldersDiffer DEF DecidedHolds
  <2>3. restore.stage # "locked"
    BY <1>i, <2>1, HoldersDiffer DEF RestoreHolds
  <2>4. Shapes' /\ UndecidedEmpty'
    BY <1>i, <2>1 DEF Shapes, UndecidedEmpty, txVars, storeVars
  <2>5. DecidedHolds' /\ RestoreHolds'
    BY <2>1, <2>2, <2>3 DEF DecidedHolds, RestoreHolds, txVars
  <2>6. CompletionProven'
    BY <1>i, <2>1 DEF CompletionProven, proofVars, storeVars
  <2> QED
    BY <2>4, <2>5, <2>6 DEF ProofInv
<1> QED
  BY <1>1, <1>2

\* The restore command.
LEMMA RestoreStep ==
  ASSUME ProofInv,
         \/ \E selected \in SUBSET Users \ {{}} : Analyze(selected)
         \/ RestoreLock
         \/ RestoreCommit
  PROVE  ProofInv'
<1>i. Shapes /\ UndecidedEmpty /\ DecidedHolds /\ RestoreHolds
      /\ CompletionProven
  BY DEF ProofInv
<1>1. ASSUME NEW selected \in SUBSET Users \ {{}}, Analyze(selected)
      PROVE  ProofInv'
  <2>1. UNCHANGED <<adminVars, proofVars, txVars, storeVars, lock>>
    BY <1>1 DEF Analyze
  <2>2. Shapes' /\ restore'.stage # "locked"
    BY <1>1, <1>i, <2>1 DEF Analyze, Shapes, adminVars, txVars, storeVars
  <2>3. UndecidedEmpty' /\ DecidedHolds' /\ CompletionProven'
    BY <1>i, <2>1 DEF UndecidedEmpty, DecidedHolds, CompletionProven, Proven,
         adminVars, proofVars, txVars, storeVars
  <2> QED
    BY <2>2, <2>3 DEF ProofInv, RestoreHolds
<1>2. CASE RestoreLock
  <2>1. /\ UNCHANGED <<adminVars, proofVars, txVars, storeVars>>
        /\ lock = Free
    BY <1>2 DEF RestoreLock
  <2>2. \A b \in Attempts : stage[b] # "decided"
    BY <1>i, <2>1, HoldersDiffer DEF DecidedHolds
  <2>3. /\ restore' \in [stage : {"idle", "analyzed", "locked"},
                         users : SUBSET Users, fingerprint : SUBSET Tasks]
        /\ restore'.users = restore.users
        /\ restore'.fingerprint = restore.fingerprint
        /\ restore'.stage = "locked" => lock' = RestoreTx /\ RestoreAccepts
    BY <1>2, <1>i DEF RestoreLock, Shapes
  <2>4. Shapes' /\ UndecidedEmpty' /\ DecidedHolds' /\ CompletionProven'
    BY <1>i, <2>1, <2>2, <2>3 DEF Shapes, UndecidedEmpty, DecidedHolds,
         CompletionProven, adminVars, proofVars, txVars, storeVars
  <2>5. RestoreHolds'
    <3> SUFFICES ASSUME restore'.stage = "locked"
                 PROVE  /\ lock' = RestoreTx
                        /\ queue_active'
                        /\ active' = restore'.fingerprint
                        /\ \A u \in Remaining' : Proven(u, active', evidence')
      BY DEF RestoreHolds
    <3>1. Remaining' = Remaining
      BY <2>1, <2>3 DEF Remaining, storeVars
    <3>2. \A u \in Remaining : Eligible(u, active, evidence)
      BY <2>3 DEF RestoreAccepts
    <3>3. \A u \in Remaining : Proven(u, active, evidence)
      BY <3>2, EligibleProven
    <3> QED
      BY <2>1, <2>3, <3>1, <3>3 DEF RestoreAccepts, adminVars, proofVars
  <2> QED
    BY <2>4, <2>5 DEF ProofInv
<1>3. CASE RestoreCommit
  <2>1. /\ UNCHANGED <<adminVars, proofVars, txVars>>
        /\ restore.stage = "locked"
        /\ lock' = Free
        /\ restore' = [restore EXCEPT !.stage = "idle"]
        /\ completion' = [u \in Users |->
             IF u \in Remaining
               THEN {[tasks |-> restore.fingerprint,
                      source |-> "legacy_restore"]}
               ELSE completion[u]]
    BY <1>3 DEF RestoreCommit
  <2>2. /\ lock = RestoreTx
        /\ active = restore.fingerprint
        /\ \A u \in Remaining : Proven(u, active, evidence)
    BY <1>i, <2>1 DEF RestoreHolds
  <2>3. \A b \in Attempts : stage[b] # "decided"
    BY <1>i, <2>2, HoldersDiffer DEF DecidedHolds
  <2>4. Shapes' /\ RestoreHolds'
    BY <1>i, <2>1 DEF Shapes, RestoreHolds, adminVars, txVars
  <2>5. UndecidedEmpty' /\ DecidedHolds'
    BY <1>i, <2>1, <2>3 DEF UndecidedEmpty, DecidedHolds, txVars
  <2>6. CompletionProven'
    <3> SUFFICES ASSUME NEW u \in Users, NEW c \in completion'[u]
                 PROVE  Proven(u, c.tasks, evidence)
      BY <2>1 DEF CompletionProven, Proven, proofVars
    <3>1. CASE u \in Remaining
      <4>1. c.tasks = active
        BY <2>1, <2>2, <3>1
      <4> QED
        BY <2>2, <3>1, <4>1
    <3>2. CASE u \notin Remaining
      BY <1>i, <2>1, <3>2 DEF CompletionProven, Proven
    <3> QED
      BY <3>1, <3>2
  <2> QED
    BY <2>4, <2>5, <2>6 DEF ProofInv
<1> QED
  BY <1>1, <1>2, <1>3

LEMMA ProofStep == ProofInv /\ [Next]_vars => ProofInv'
<1> SUFFICES ASSUME ProofInv, [Next]_vars PROVE ProofInv'
  OBVIOUS
<1>1. CASE Next
  BY <1>1, SuccessStep, AdminStep, RestoreStep DEF Next
<1>2. CASE UNCHANGED vars
  BY <1>2 DEF vars, adminVars, proofVars, txVars, storeVars, ProofInv, Shapes,
       UndecidedEmpty, DecidedHolds, RestoreHolds, CompletionProven, Remaining,
       Proven
<1> QED
  BY <1>1, <1>2

\* Every completion, whether the last success or the restore command stored it,
\* rests on committed evidence of the credit attempt of each of its tasks.
THEOREM CompletionsProven == Spec => []CompletionProven
<1>1. ProofInv => CompletionProven
  BY DEF ProofInv
<1>2. QED
  BY ProofInit, ProofStep, <1>1, PTL DEF Spec

\* A step that stores a completion finds its composition active.
LEMMA StoresComposition ==
  ASSUME ProofInv, [Next]_vars
  PROVE  [\A u \in Users : \A c \in completion'[u] \ completion[u] :
            c.tasks = active /\ queue_active]_vars
<1> SUFFICES ASSUME NEW u \in Users, NEW c \in completion'[u] \ completion[u]
             PROVE  c.tasks = active /\ queue_active
  OBVIOUS
<1>i. Shapes /\ UndecidedEmpty /\ DecidedHolds /\ RestoreHolds
  BY DEF ProofInv
<1>0. (\E a \in Attempts : CommitSuccess(a)) \/ RestoreCommit
  BY DEF Next, WritePassed, LockQueue, Abort, ClockPasses, SwitchTask,
       SwitchQueue, Analyze, RestoreLock, storeVars, vars
<1>1. ASSUME NEW a \in Attempts, CommitSuccess(a)
      PROVE  c.tasks = active /\ queue_active
  <2>1. CASE a[2] \in candidate[a]
    <3>1. c = [tasks |-> candidate[a], source |-> "technical_check"]
      BY <1>1, <1>i, <2>1 DEF CommitSuccess, Store, Shapes
    <3>2. stage[a] = "decided"
      BY <1>1, <1>i, <2>1 DEF CommitSuccess, UndecidedEmpty
    <3> QED
      BY <1>i, <2>1, <3>1, <3>2 DEF DecidedHolds
  <2>2. CASE a[2] \notin candidate[a]
    BY <1>1, <2>2 DEF CommitSuccess
  <2> QED
    BY <2>1, <2>2
<1>2. CASE RestoreCommit
  <2>1. c.tasks = restore.fingerprint
    BY <1>2 DEF RestoreCommit
  <2> QED
    BY <1>2, <1>i, <2>1 DEF RestoreCommit, RestoreHolds
<1> QED
  BY <1>0, <1>1, <1>2

\* A completion is stored for the composition that is active when it is
\* committed: no administrator gets between the reading and the commit.
THEOREM SnapshotsAreCompositions == Spec => SnapshotIsComposition
<1>1. ProofInv /\ [Next]_vars =>
        [\A u \in Users : \A c \in completion'[u] \ completion[u] :
            c.tasks = active /\ queue_active]_vars
  BY StoresComposition
<1>2. QED
  BY ProofInit, ProofStep, <1>1, PTL DEF Spec, SnapshotIsComposition
-----------------------------------------------------------------------------
(* The catalogue of tasks that a program is made of: any number of         *)
(* overlapping runs of sync_training_tasks, over any directories.          *)

\* A run that is not over.
Busy(r) == run[r].pc \notin Sync!Ended

\* While a run is undisturbed, whoever is at work is.
QuietTogether ==
  (\E r \in Runs : run[r].quiet) => \A q \in Runs : Busy(q) => run[q].quiet

\* The row of a directory is what its metadata say.
Saved(s) ==
  s \in DOMAIN catalogue /\ (files[s].order # Sync!NoOrder => catalogue[s] = files[s].order)

\* What an undisturbed run knows: its listing, the order it is about to save,
\* and the rows of the directories it has visited.
Informed(x) ==
  x.quiet =>
    /\ x.dirs = Sync!Listed
    /\ x.pc \in {"save", "create"} =>
         x.s \in Sync!Listed /\ x.want = Sync!Wanted(x.s, Sync!Listed)
    /\ x.strict /\ ~x.dry /\ ~x.skipped /\ x.pc \notin {"failed", "crashed"}
         => \A s \in Sync!Listed : s < x.s => Saved(s)
    /\ x.pc = "done" => x.s > Dirs /\ (x.strict => ~x.skipped)
    /\ x.free =>
         Sync!Uncontested /\ ~x.skipped /\ x.pc \notin {"failed", "crashed"}

CatalogueInv == Sync!TypeOK /\ QuietTogether /\ \A r \in Runs : Informed(run[r])

LEMMA OrdersCounted ==
  ASSUME Sync!Limits, NEW s, NEW D \in SUBSET Sync!Slugs
  PROVE  Sync!default_order(s, D) \in Nat
<1>1. IsFiniteSet(Sync!Slugs)
  BY FS_Interval DEF Sync!Limits, Sync!Slugs
<1>2. {u \in D : u <= s} \subseteq Sync!Slugs
  OBVIOUS
<1>3. IsFiniteSet({u \in D : u <= s})
  BY <1>1, <1>2, FS_Subset
<1>4. Cardinality({u \in D : u <= s}) \in Nat
  BY <1>3, FS_CardinalityType
<1>5. \A S : Sync!Cardinality(S) = Cardinality(S)
  BY DEF Cardinality, Sync!Cardinality
<1> QED
  BY <1>4, <1>5 DEF Sync!default_order

LEMMA WantedOrders ==
  ASSUME Sync!Limits, files \in [Sync!Slugs -> Sync!Directories],
         NEW s \in Sync!Slugs, NEW D \in SUBSET Sync!Slugs
  PROVE  Sync!Wanted(s, D) \in Nat
<1>1. files[s].order \in Nat
  BY DEF Sync!Directories, Sync!Orders, Sync!NoOrder, Sync!Limits
<1> QED
  BY <1>1, OrdersCounted DEF Sync!Wanted

\* Nothing an undisturbed run relies on is taken back.
RowsKept ==
  /\ Sync!Uncontested => Sync!Uncontested'
  /\ \A u \in Sync!Slugs : Saved(u) => Saved(u)'

LEMMA RowsUnchanged ==
  ASSUME files' = files, catalogue' = catalogue
  PROVE  RowsKept
<1>1. Sync!Listed' = Sync!Listed /\ (\A s : Sync!Wanted(s, Sync!Listed)' = Sync!Wanted(s, Sync!Listed))
      /\ \A s : Sync!Present(s)' = Sync!Present(s)
  BY DEF Sync!Listed, Sync!Present, Sync!Wanted
<1>2. Sync!Uncontested => Sync!Uncontested'
  BY <1>1 DEF Sync!Uncontested, Sync!Listed
<1>3. \A u \in Sync!Slugs : Saved(u) => Saved(u)'
  BY DEF Saved
<1> QED
  BY <1>2, <1>3 DEF RowsKept

LEMMA InformedKept ==
  ASSUME files' = files, RowsKept, NEW x, Informed(x)
  PROVE  Informed(x)'
<1>1. Sync!Listed' = Sync!Listed /\ \A s : Sync!Wanted(s, Sync!Listed)' = Sync!Wanted(s, Sync!Listed)
  BY DEF Sync!Listed, Sync!Present, Sync!Wanted
<1>2. Sync!Listed \subseteq Sync!Slugs
  BY DEF Sync!Listed
<1> QED
  BY <1>1, <1>2 DEF Informed, RowsKept

\* A step of one run.
LEMMA RunChanges ==
  ASSUME CatalogueInv, NEW r \in Runs, NEW x \in Sync!SyncRun,
         run' = [run EXCEPT ![r] = x],
         x.pc \in {"save", "create"} => x.s \in Sync!Slugs,
         x.quiet = run[r].quiet, x.pc \notin Sync!Ended => Busy(r),
         files' = files, clean' \in BOOLEAN, DOMAIN catalogue' \subseteq Sync!Slugs,
         run[r].quiet => RowsKept /\ Informed(x)',
         catalogue' = catalogue \/ Busy(r)
  PROVE  CatalogueInv'
<1> USE DEF CatalogueInv
<1>1. run' \in [Runs -> Sync!SyncRun] /\ run'[r] = x
       /\ \A q \in Runs \ {r} : run'[q] = run[q]
  BY DEF Sync!TypeOK
<1>2. Sync!TypeOK'
  BY <1>1 DEF Sync!TypeOK, Sync!Limits
<1>3. QuietTogether'
  BY <1>1 DEF QuietTogether, Busy
<1>4. ASSUME NEW q \in Runs
      PROVE  Informed(run[q])'
  <2>1. CASE run[r].quiet
    <3>1. RowsKept /\ Informed(x)'
      BY <2>1
    <3>2. CASE q = r
      BY <3>1, <3>2, <1>1 DEF Informed
    <3>3. CASE q # r
      <4>1. PICK y : y = run[q]
        OBVIOUS
      <4>2. Informed(y)'
        BY <3>1, <4>1, InformedKept
      <4> QED
        BY <4>1, <4>2, <3>3, <1>1 DEF Informed
    <3> QED
      BY <3>2, <3>3
  <2>2. CASE ~run[r].quiet /\ Busy(r)
    <3>1. ~run'[q].quiet
      BY <2>2, <1>1 DEF QuietTogether, Sync!TypeOK, Sync!SyncRun
    <3> QED
      BY <3>1 DEF Informed
  <2>3. CASE ~run[r].quiet /\ catalogue' = catalogue
    <3>1. RowsKept
      BY <2>3, RowsUnchanged
    <3>2. CASE q = r
      BY <3>2, <1>1, <2>3 DEF Informed
    <3>3. CASE q # r
      <4>1. PICK y : y = run[q]
        OBVIOUS
      <4>2. Informed(y)'
        BY <3>1, <4>1, InformedKept
      <4> QED
        BY <4>1, <4>2, <3>3, <1>1 DEF Informed
    <3> QED
      BY <3>2, <3>3
  <2> QED
    BY <2>1, <2>2, <2>3
<1> QED
  BY <1>2, <1>3, <1>4

LEMMA StartKeeps ==
  ASSUME CatalogueInv, NEW r \in Runs, NEW dry \in BOOLEAN, NEW strict \in BOOLEAN,
         Sync!Start(r, dry, strict)
  PROVE  CatalogueInv'
<1> USE DEF CatalogueInv
<1> DEFINE x == [Sync!NotRun EXCEPT !.pc = "visit", !.dry = dry, !.strict = strict, !.s = 1,
                      !.dirs = Sync!Listed,
                      !.quiet = \A q \in Runs : run[q].pc \notin Sync!Ended
                                                 => run[q].quiet,
                      !.free = Sync!Uncontested, !.promised = clean]
<1>0. run' = [run EXCEPT ![r] = x]
  BY DEF Sync!Start
<1>1. x \in Sync!SyncRun /\ x.pc = "visit" /\ x.s = 1 /\ x.dirs = Sync!Listed /\ x.skipped = FALSE
  BY DEF Sync!SyncRun, Sync!NotRun, Sync!NoOrder, Sync!TypeOK, Sync!Listed, Sync!Uncontested
<1>2. x.quiet = \A q \in Runs : Busy(q) => run[q].quiet
  BY DEF Sync!NotRun, Busy
<1>3. x.free = Sync!Uncontested
  BY DEF Sync!NotRun
<1>4. files' = files /\ catalogue' = catalogue /\ clean' = clean
  BY DEF Sync!Start
<1>5. Informed(x)
  BY <1>1, <1>3 DEF Informed, Sync!Listed, Sync!Slugs
<1> HIDE DEF x
<1>6. run' \in [Runs -> Sync!SyncRun] /\ run'[r] = x
       /\ \A q \in Runs \ {r} : run'[q] = run[q]
  BY <1>0, <1>1 DEF Sync!TypeOK
<1>7. Sync!TypeOK'
  BY <1>6, <1>1, <1>4 DEF Sync!TypeOK, Sync!Limits
<1>8. QuietTogether'
  BY <1>6, <1>2 DEF QuietTogether, Busy
<1>9. RowsKept
  BY <1>4, RowsUnchanged
<1>10. ASSUME NEW q \in Runs PROVE Informed(run[q])'
  <2>1. PICK y : y = run'[q]
    OBVIOUS
  <2>2. Informed(y)
    BY <2>1, <1>5, <1>6
  <2>3. Informed(y)'
    BY <2>2, <1>4, <1>9, InformedKept
  <2> QED
    BY <2>1, <2>3 DEF Informed
<1> QED
  BY <1>7, <1>8, <1>10

\* What update_or_create writes for an undisturbed run.
LEMMA PutKeeps ==
  ASSUME CatalogueInv, NEW r \in Runs, run[r].pc \in {"save", "create"},
         Sync!Put(r, run[r].s), files' = files, clean' = clean
  PROVE  CatalogueInv'
<1> USE DEF CatalogueInv
<1>0. PICK s : s = run[r].s
  OBVIOUS
<1>1. run[r] \in Sync!SyncRun /\ s \in Sync!Slugs /\ s \in Nat /\ Busy(r)
  BY <1>0 DEF Sync!TypeOK, Busy, Sync!Ended, Sync!Slugs
<1>2. ASSUME run[r].quiet
      PROVE  /\ run[r].dirs = Sync!Listed /\ s \in Sync!Listed
             /\ run[r].want = Sync!Wanted(s, Sync!Listed)
             /\ run[r].free => Sync!Uncontested /\ Sync!Fits(s, run[r].want)
  <2>1. /\ run[r].dirs = Sync!Listed /\ s \in Sync!Listed
        /\ run[r].want = Sync!Wanted(s, Sync!Listed)
        /\ run[r].free => Sync!Uncontested
    BY <1>0, <1>2 DEF Informed
  <2>2. ASSUME Sync!Uncontested PROVE Sync!Fits(s, run[r].want)
    BY <1>1, <2>1, <2>2 DEF Sync!Uncontested, Sync!Fits, Sync!TypeOK, Sync!Listed
  <2> QED
    BY <2>1, <2>2
<1>3. CASE Sync!Fits(s, run[r].want)
  <2> DEFINE x0 == [run[r] EXCEPT !.s = s + 1, !.pc = "visit", !.want = Sync!NoOrder]
  <2>1. run' = [run EXCEPT ![r] = x0]
    BY <1>0, <1>1, <1>3 DEF Sync!Put, Sync!Continue, Sync!TypeOK
  <2>2. x0 \in Sync!SyncRun
    <3>1. [run[r] EXCEPT !.s = s + 1] \in Sync!SyncRun
      BY <1>1 DEF Sync!SyncRun
    <3>2. [run[r] EXCEPT !.s = s + 1, !.pc = "visit"] \in Sync!SyncRun
      BY <3>1 DEF Sync!SyncRun
    <3> QED
      BY <3>2 DEF Sync!SyncRun, Sync!NoOrder
  <2>3. x0.pc = "visit" /\ x0.s = s + 1 /\ x0.quiet = run[r].quiet
        /\ x0.dirs = run[r].dirs /\ x0.free = run[r].free /\ x0.skipped = run[r].skipped
        /\ x0.strict = run[r].strict /\ x0.dry = run[r].dry
    BY <1>1 DEF Sync!SyncRun
  <2> HIDE DEF x0
  <2>4. PICK x : x = x0
    OBVIOUS
  <2>5. /\ DOMAIN catalogue' = DOMAIN catalogue \cup {s} /\ catalogue'[s] = run[r].want
        /\ \A u \in DOMAIN catalogue \ {s} : catalogue'[u] = catalogue[u]
    BY <1>0, <1>3 DEF Sync!Put
  <2>6. Sync!Listed' = Sync!Listed /\ (\A u : Sync!Wanted(u, Sync!Listed)' = Sync!Wanted(u, Sync!Listed))
        /\ \A u : Sync!Present(u)' = Sync!Present(u)
    BY DEF Sync!Listed, Sync!Present, Sync!Wanted
  <2>7. ASSUME run[r].quiet PROVE RowsKept /\ Informed(x)'
    <3>1. ASSUME Sync!Uncontested PROVE Sync!Uncontested'
      BY <1>2, <2>7, <2>5, <2>6, <3>1 DEF Sync!Uncontested, Sync!Listed
    <3>2. Saved(s)'
      BY <1>2, <2>7, <2>5 DEF Saved, Sync!Wanted
    <3>3. ASSUME NEW u \in Sync!Slugs, u # s, Saved(u) PROVE Saved(u)'
      BY <2>5, <3>3 DEF Saved
    <3>4. RowsKept
      BY <3>1, <3>2, <3>3 DEF RowsKept
    <3>5. Informed(run[r])
      OBVIOUS
    <3>6. /\ run[r].strict /\ ~run[r].dry /\ ~run[r].skipped
               => \A u \in Sync!Listed : u < s => Saved(u)
          /\ run[r].free => Sync!Uncontested /\ ~run[r].skipped
      BY <1>0, <1>1, <2>7, <3>5 DEF Informed
    <3>7. \A u \in Sync!Listed : u \in Sync!Slugs /\ u \in Nat /\ (u < s + 1 => u < s \/ u = s)
      BY <1>1 DEF Sync!Listed, Sync!Slugs
    <3> QED
      BY <1>2, <2>3, <2>4, <2>6, <2>7, <3>2, <3>4, <3>6, <3>7 DEF Informed, RowsKept
  <2>8. DOMAIN catalogue' \subseteq Sync!Slugs
    BY <2>5, <1>1 DEF Sync!TypeOK
  <2>9. run' = [run EXCEPT ![r] = x] /\ x \in Sync!SyncRun
        /\ x.quiet = run[r].quiet /\ x.pc = "visit"
    BY <2>1, <2>2, <2>3, <2>4
  <2>10. clean' \in BOOLEAN
    BY DEF Sync!TypeOK
  <2> QED
    BY <1>1, <2>7, <2>8, <2>9, <2>10, RunChanges
<1>4. CASE ~Sync!Fits(s, run[r].want)
  <2>1. ~run[r].free \/ ~run[r].quiet
    BY <1>2, <1>4
  <2> DEFINE x0 == [run[r] EXCEPT !.pc = "crashed"]
  <2>2. run' = [run EXCEPT ![r] = x0] /\ catalogue' = catalogue
    BY <1>0, <1>1, <1>4 DEF Sync!Put, Sync!TypeOK
  <2>3. x0 \in Sync!SyncRun /\ x0.pc = "crashed" /\ x0.quiet = run[r].quiet
        /\ x0.dirs = run[r].dirs /\ x0.free = run[r].free
    BY <1>1 DEF Sync!SyncRun
  <2> HIDE DEF x0
  <2>4. PICK x : x = x0
    OBVIOUS
  <2>5. RowsKept
    BY <2>2, RowsUnchanged
  <2>6. ASSUME run[r].quiet PROVE Informed(x)'
    BY <1>2, <2>1, <2>3, <2>4, <2>6 DEF Informed, Sync!Listed, Sync!Present
  <2>7. x \in Sync!SyncRun /\ x.pc = "crashed" /\ x.quiet = run[r].quiet
        /\ run' = [run EXCEPT ![r] = x] /\ clean' \in BOOLEAN
        /\ DOMAIN catalogue' \subseteq Sync!Slugs
    BY <2>2, <2>3, <2>4 DEF Sync!TypeOK
  <2> QED
    BY <1>1, <2>5, <2>6, <2>7, RunChanges DEF Sync!Ended
<1> QED
  BY <1>0, <1>3, <1>4

LEMMA VisitKeeps ==
  ASSUME CatalogueInv, NEW r \in Runs, Sync!Visit(r)
  PROVE  CatalogueInv'
<1> USE DEF CatalogueInv
<1>0. PICK s : s = run[r].s
  OBVIOUS
<1>1. /\ run[r] \in Sync!SyncRun /\ s \in Sync!Slugs /\ s \in Nat /\ Busy(r)
      /\ run[r].pc = "visit"
      /\ files' = files /\ catalogue' = catalogue /\ clean' \in BOOLEAN
      /\ DOMAIN catalogue' \subseteq Sync!Slugs
  BY <1>0 DEF Sync!Visit, Sync!TypeOK, Busy, Sync!Ended, Sync!Slugs
<1>2. RowsKept
  BY <1>1, RowsUnchanged
<1>3. ASSUME run[r].quiet
      PROVE  /\ run[r].dirs = Sync!Listed
             /\ run[r].strict /\ ~run[r].dry /\ ~run[r].skipped
                  => \A u \in Sync!Listed : u < s => Saved(u)
             /\ run[r].free => Sync!Uncontested /\ ~run[r].skipped
  BY <1>0, <1>1, <1>3 DEF Informed
<1>4. \A u \in Sync!Listed : u \in Sync!Slugs /\ u \in Nat /\ (u < s + 1 => u < s \/ u = s)
  BY <1>1 DEF Sync!Listed, Sync!Slugs
<1>5. Sync!Listed' = Sync!Listed /\ (\A u \in Sync!Slugs : Saved(u) => Saved(u)')
      /\ (Sync!Uncontested => Sync!Uncontested')
      /\ \A u : Sync!Wanted(u, Sync!Listed)' = Sync!Wanted(u, Sync!Listed)
  BY <1>1, <1>2 DEF RowsKept, Sync!Listed, Sync!Present, Sync!Wanted
<1>6. CASE s \notin run[r].dirs /\ Sync!Continue(r, s)
  <2> DEFINE x0 == [run[r] EXCEPT !.s = s + 1, !.pc = "visit", !.want = Sync!NoOrder]
  <2>1. run' = [run EXCEPT ![r] = x0]
    BY <1>1, <1>6 DEF Sync!Continue, Sync!TypeOK
  <2>2. x0 \in Sync!SyncRun
    <3>1. [run[r] EXCEPT !.s = s + 1] \in Sync!SyncRun
      BY <1>1 DEF Sync!SyncRun
    <3>2. [run[r] EXCEPT !.s = s + 1, !.pc = "visit"] \in Sync!SyncRun
      BY <3>1 DEF Sync!SyncRun
    <3> QED
      BY <3>2 DEF Sync!SyncRun, Sync!NoOrder
  <2>3. x0.pc = "visit" /\ x0.s = s + 1 /\ x0.quiet = run[r].quiet
        /\ x0.dirs = run[r].dirs /\ x0.free = run[r].free /\ x0.skipped = run[r].skipped
        /\ x0.strict = run[r].strict /\ x0.dry = run[r].dry
    BY <1>1 DEF Sync!SyncRun
  <2> HIDE DEF x0
  <2>4. PICK x : x = x0
    OBVIOUS
  <2>5. ASSUME run[r].quiet PROVE Informed(x)'
    BY <1>3, <1>4, <1>5, <1>6, <2>3, <2>4, <2>5 DEF Informed
  <2>6. run' = [run EXCEPT ![r] = x] /\ x \in Sync!SyncRun
        /\ x.quiet = run[r].quiet /\ x.pc = "visit"
    BY <2>1, <2>2, <2>3, <2>4
  <2> QED
    BY <1>1, <1>2, <2>5, <2>6, RunChanges
<1>7. CASE /\ s \in run[r].dirs /\ files[s].kind \in {"absent", "bare"}
           /\ run' = [run EXCEPT ![r].s = s + 1, ![r].skipped = TRUE]
  <2> DEFINE x0 == [run[r] EXCEPT !.s = s + 1, !.skipped = TRUE]
  <2>1. run' = [run EXCEPT ![r] = x0]
    BY <1>1, <1>7 DEF Sync!TypeOK
  <2>2. x0 \in Sync!SyncRun
    <3>1. [run[r] EXCEPT !.s = s + 1] \in Sync!SyncRun
      BY <1>1 DEF Sync!SyncRun
    <3> QED
      BY <3>1 DEF Sync!SyncRun
  <2>3. x0.pc = "visit" /\ x0.quiet = run[r].quiet
        /\ x0.dirs = run[r].dirs /\ x0.free = run[r].free /\ x0.skipped
    BY <1>1 DEF Sync!SyncRun
  <2> HIDE DEF x0
  <2>4. PICK x : x = x0
    OBVIOUS
  <2>5. ASSUME run[r].quiet PROVE Informed(x)'
    <3>1. ~Sync!Uncontested
      BY <1>1, <1>3, <1>7, <2>5 DEF Sync!Uncontested, Sync!Listed, Sync!Present
    <3> QED
      BY <1>3, <1>5, <2>3, <2>4, <2>5, <3>1 DEF Informed
  <2>6. run' = [run EXCEPT ![r] = x] /\ x \in Sync!SyncRun
        /\ x.quiet = run[r].quiet /\ x.pc = "visit"
    BY <2>1, <2>2, <2>3, <2>4
  <2> QED
    BY <1>1, <1>2, <2>5, <2>6, RunChanges
<1>8. CASE /\ s \in run[r].dirs /\ files[s].kind = "broken"
           /\ run' = [run EXCEPT ![r].pc = "failed"]
  <2> DEFINE x0 == [run[r] EXCEPT !.pc = "failed"]
  <2>1. run' = [run EXCEPT ![r] = x0]
    BY <1>1, <1>8 DEF Sync!TypeOK
  <2>2. x0 \in Sync!SyncRun /\ x0.pc = "failed" /\ x0.quiet = run[r].quiet
        /\ x0.dirs = run[r].dirs /\ x0.free = run[r].free
    BY <1>1 DEF Sync!SyncRun
  <2> HIDE DEF x0
  <2>4. PICK x : x = x0
    OBVIOUS
  <2>5. ASSUME run[r].quiet PROVE Informed(x)'
    <3>1. ~Sync!Uncontested
      BY <1>1, <1>8 DEF Sync!Uncontested
    <3> QED
      BY <1>3, <1>5, <2>2, <2>4, <2>5, <3>1 DEF Informed
  <2>6. run' = [run EXCEPT ![r] = x] /\ x \in Sync!SyncRun
        /\ x.quiet = run[r].quiet /\ x.pc = "failed"
    BY <2>1, <2>2, <2>4
  <2> QED
    BY <1>1, <1>2, <2>5, <2>6, RunChanges
<1>9. CASE s \in run[r].dirs /\ files[s].kind = "ok" /\ run[r].dry /\ Sync!Continue(r, s)
  <2> DEFINE x0 == [run[r] EXCEPT !.s = s + 1, !.pc = "visit", !.want = Sync!NoOrder]
  <2>1. run' = [run EXCEPT ![r] = x0]
    BY <1>1, <1>9 DEF Sync!Continue, Sync!TypeOK
  <2>2. x0 \in Sync!SyncRun
    <3>1. [run[r] EXCEPT !.s = s + 1] \in Sync!SyncRun
      BY <1>1 DEF Sync!SyncRun
    <3>2. [run[r] EXCEPT !.s = s + 1, !.pc = "visit"] \in Sync!SyncRun
      BY <3>1 DEF Sync!SyncRun
    <3> QED
      BY <3>2 DEF Sync!SyncRun, Sync!NoOrder
  <2>3. x0.pc = "visit" /\ x0.quiet = run[r].quiet /\ x0.dry
        /\ x0.dirs = run[r].dirs /\ x0.free = run[r].free /\ x0.skipped = run[r].skipped
    BY <1>1, <1>9 DEF Sync!SyncRun
  <2> HIDE DEF x0
  <2>4. PICK x : x = x0
    OBVIOUS
  <2>5. ASSUME run[r].quiet PROVE Informed(x)'
    BY <1>3, <1>5, <2>3, <2>4, <2>5 DEF Informed
  <2>6. run' = [run EXCEPT ![r] = x] /\ x \in Sync!SyncRun
        /\ x.quiet = run[r].quiet /\ x.pc = "visit"
    BY <2>1, <2>2, <2>3, <2>4
  <2> QED
    BY <1>1, <1>2, <2>5, <2>6, RunChanges
<1>10. CASE /\ s \in run[r].dirs /\ files[s].kind = "ok"
            /\ run' = [run EXCEPT ![r].pc = "save",
                                  ![r].want = Sync!Wanted(s, run[r].dirs)]
  <2> DEFINE x0 == [run[r] EXCEPT !.pc = "save", !.want = Sync!Wanted(s, run[r].dirs)]
  <2>1. run' = [run EXCEPT ![r] = x0]
    BY <1>1, <1>10 DEF Sync!TypeOK
  <2>2. x0 \in Sync!SyncRun
    <3>1. [run[r] EXCEPT !.pc = "save"] \in Sync!SyncRun
      BY <1>1 DEF Sync!SyncRun
    <3>2. Sync!Wanted(s, run[r].dirs) \in Nat
      BY <1>1, WantedOrders DEF Sync!TypeOK, Sync!SyncRun
    <3> QED
      BY <3>1, <3>2 DEF Sync!SyncRun
  <2>3. x0.pc = "save" /\ x0.s = s /\ x0.quiet = run[r].quiet
        /\ x0.dirs = run[r].dirs /\ x0.free = run[r].free /\ x0.skipped = run[r].skipped
        /\ x0.strict = run[r].strict /\ x0.dry = run[r].dry
        /\ x0.want = Sync!Wanted(s, run[r].dirs)
    BY <1>0, <1>1 DEF Sync!SyncRun
  <2> HIDE DEF x0
  <2>4. PICK x : x = x0
    OBVIOUS
  <2>5. ASSUME run[r].quiet PROVE Informed(x)'
    BY <1>3, <1>4, <1>5, <1>10, <2>3, <2>4, <2>5 DEF Informed
  <2>6. run' = [run EXCEPT ![r] = x] /\ x \in Sync!SyncRun
        /\ x.quiet = run[r].quiet /\ x.pc = "save" /\ x.s \in Sync!Slugs
    BY <1>1, <2>1, <2>2, <2>3, <2>4
  <2> QED
    BY <1>1, <1>2, <2>5, <2>6, RunChanges
<1> QED
  BY <1>0, <1>6, <1>7, <1>8, <1>9, <1>10 DEF Sync!Visit

LEMMA SaveKeeps ==
  ASSUME CatalogueInv, NEW r \in Runs, Sync!Save(r) \/ Sync!Create(r)
  PROVE  CatalogueInv'
<1> USE DEF CatalogueInv
<1>1. CASE Sync!Put(r, run[r].s)
  BY <1>1, PutKeeps DEF Sync!Save, Sync!Create
<1>2. CASE Sync!Save(r) /\ run' = [run EXCEPT ![r].pc = "create"] /\ catalogue' = catalogue
  <2> DEFINE x0 == [run[r] EXCEPT !.pc = "create"]
  <2>0. /\ run[r] \in Sync!SyncRun /\ run[r].s \in Sync!Slugs /\ Busy(r)
        /\ run[r].pc = "save"
        /\ files' = files /\ catalogue' = catalogue /\ clean' \in BOOLEAN
        /\ DOMAIN catalogue' \subseteq Sync!Slugs
    BY <1>2 DEF Sync!Save, Sync!TypeOK, Busy, Sync!Ended
  <2>1. run' = [run EXCEPT ![r] = x0]
    BY <1>2, <2>0 DEF Sync!TypeOK
  <2>2. x0 \in Sync!SyncRun /\ x0.pc = "create" /\ x0.s = run[r].s /\ x0.quiet = run[r].quiet
        /\ x0.dirs = run[r].dirs /\ x0.free = run[r].free /\ x0.skipped = run[r].skipped
        /\ x0.strict = run[r].strict /\ x0.dry = run[r].dry /\ x0.want = run[r].want
    BY <2>0 DEF Sync!SyncRun
  <2> HIDE DEF x0
  <2>4. PICK x : x = x0
    OBVIOUS
  <2>5. RowsKept
    BY <2>0, RowsUnchanged
  <2>6. ASSUME run[r].quiet PROVE Informed(x)'
    <3>1. Informed(x)
      BY <2>0, <2>2, <2>4, <2>6 DEF Informed
    <3> QED
      BY <2>0, <2>5, <3>1, InformedKept
  <2>7. x \in Sync!SyncRun /\ x.pc = "create" /\ x.quiet = run[r].quiet /\ x.s \in Sync!Slugs
        /\ run' = [run EXCEPT ![r] = x]
    BY <2>0, <2>1, <2>2, <2>4
  <2> QED
    BY <2>0, <2>5, <2>6, <2>7, RunChanges
<1> QED
  BY <1>1, <1>2 DEF Sync!Save, Sync!Create

LEMMA FinishKeeps ==
  ASSUME CatalogueInv, NEW r \in Runs, Sync!Finish(r)
  PROVE  CatalogueInv'
<1> USE DEF CatalogueInv
<1> DEFINE failed == run[r].strict /\ run[r].skipped
           x0 == [run[r] EXCEPT !.pc = IF failed THEN "failed" ELSE "done"]
<1>0. /\ run[r] \in Sync!SyncRun /\ Busy(r) /\ run[r].pc = "visit" /\ run[r].s > Dirs
      /\ files' = files /\ catalogue' = catalogue /\ clean' \in BOOLEAN
      /\ DOMAIN catalogue' \subseteq Sync!Slugs
  BY DEF Sync!Finish, Sync!TypeOK, Busy, Sync!Ended, Sync!SyncRun
<1>1. run' = [run EXCEPT ![r] = x0]
  BY <1>0 DEF Sync!Finish, Sync!TypeOK
<1>2. x0 \in Sync!SyncRun /\ x0.pc = (IF failed THEN "failed" ELSE "done")
      /\ x0.s = run[r].s /\ x0.quiet = run[r].quiet
      /\ x0.dirs = run[r].dirs /\ x0.free = run[r].free /\ x0.skipped = run[r].skipped
      /\ x0.strict = run[r].strict /\ x0.dry = run[r].dry
  BY <1>0 DEF Sync!SyncRun
<1> HIDE DEF x0
<1>4. PICK x : x = x0
  OBVIOUS
<1>5. RowsKept
  BY <1>0, RowsUnchanged
<1>6. ASSUME run[r].quiet PROVE Informed(x)'
  <2>1. Informed(x)
    BY <1>0, <1>2, <1>4, <1>6 DEF Informed
  <2> QED
    BY <1>0, <1>5, <2>1, InformedKept
<1>7. x \in Sync!SyncRun /\ x.pc \in {"failed", "done"} /\ x.quiet = run[r].quiet
      /\ run' = [run EXCEPT ![r] = x]
  BY <1>0, <1>1, <1>2, <1>4
<1> QED
  BY <1>0, <1>5, <1>6, <1>7, RunChanges DEF Sync!Ended

LEMMA ForgetKeeps ==
  ASSUME CatalogueInv, NEW r \in Runs, Sync!Forget(r)
  PROVE  CatalogueInv'
<1> USE DEF CatalogueInv
<1>1. /\ files' = files /\ catalogue' = catalogue /\ clean' = clean
      /\ run' \in [Runs -> Sync!SyncRun] /\ run'[r] = Sync!NotRun
      /\ \A q \in Runs \ {r} : run'[q] = run[q]
  BY DEF Sync!Forget, Sync!TypeOK, Sync!NotRun, Sync!SyncRun, Sync!NoOrder
<1>2. Sync!NotRun.pc = "idle" /\ Sync!NotRun.quiet = FALSE
  BY DEF Sync!NotRun
<1>3. Sync!TypeOK'
  BY <1>1, <1>2 DEF Sync!TypeOK, Sync!Limits
<1>4. QuietTogether'
  BY <1>1, <1>2 DEF QuietTogether, Busy, Sync!Ended
<1>5. ASSUME NEW q \in Runs PROVE Informed(run[q])'
  <2>1. CASE q = r
    BY <1>1, <1>2, <2>1 DEF Informed
  <2>2. CASE q # r
    <3>1. PICK y : y = run[q]
      OBVIOUS
    <3>2. Informed(y)'
      BY <1>1, <3>1, RowsUnchanged, InformedKept
    <3> QED
      BY <1>1, <2>2, <3>1, <3>2 DEF Informed
  <2> QED
    BY <2>1, <2>2
<1> QED
  BY <1>3, <1>4, <1>5

\* Whatever authors and administrators do disturbs every run.
LEMMA DisturbKeeps ==
  ASSUME CatalogueInv, Sync!Disturb, files' \in [Sync!Slugs -> Sync!Directories],
         DOMAIN catalogue' \subseteq Sync!Slugs
  PROVE  CatalogueInv'
<1> USE DEF CatalogueInv
<1>1. \A r \in Runs : /\ run'[r] \in Sync!SyncRun /\ run'[r].quiet = FALSE
                      /\ run'[r].pc = run[r].pc /\ run'[r].s = run[r].s
  BY DEF Sync!Disturb, Sync!TypeOK, Sync!SyncRun
<1>2. run' \in [Runs -> Sync!SyncRun] /\ clean' \in BOOLEAN
  BY <1>1 DEF Sync!Disturb
<1>3. Sync!TypeOK'
  BY <1>1, <1>2 DEF Sync!TypeOK, Sync!Limits
<1>4. QuietTogether' /\ \A r \in Runs : Informed(run[r])'
  BY <1>1 DEF QuietTogether, Informed
<1> QED
  BY <1>3, <1>4

\* It holds of the rows and directories before any run.
LEMMA CatalogueStart ==
  Sync!Limits /\ Sync!Init => CatalogueInv
<1> SUFFICES ASSUME Sync!Limits, Sync!Init PROVE CatalogueInv
  OBVIOUS
<1>1. Sync!NotRun \in Sync!SyncRun /\ Sync!NotRun.pc = "idle" /\ Sync!NotRun.quiet = FALSE
  BY DEF Sync!NotRun, Sync!SyncRun, Sync!NoOrder
<1>2. run = [r \in Runs |-> Sync!NotRun] /\ clean = FALSE
      /\ files \in [Sync!Slugs -> Sync!Directories] /\ DOMAIN catalogue \subseteq Sync!Slugs
  BY DEF Sync!Init
<1>3. Sync!TypeOK
  BY <1>1, <1>2 DEF Sync!TypeOK
<1> QED
  BY <1>1, <1>2, <1>3 DEF CatalogueInv, QuietTogether, Informed

\* Every step of a run, an author or an administrator keeps it.
LEMMA CatalogueStep ==
  CatalogueInv /\ [Sync!Next]_(Sync!vars) => CatalogueInv'
<1> SUFFICES ASSUME CatalogueInv, [Sync!Next]_(Sync!vars) PROVE CatalogueInv'
  OBVIOUS
<1>1. ASSUME NEW s \in Sync!Slugs, NEW d \in Sync!Directories, Sync!ChangeFiles(s, d)
      PROVE  CatalogueInv'
  <2>1. files' \in [Sync!Slugs -> Sync!Directories] /\ DOMAIN catalogue' \subseteq Sync!Slugs
    BY <1>1 DEF Sync!ChangeFiles, CatalogueInv, Sync!TypeOK
  <2> QED
    BY <1>1, <2>1, DisturbKeeps DEF Sync!ChangeFiles
<1>2. ASSUME NEW s \in Sync!Slugs, NEW order \in Sync!Orders, Sync!EditTask(s, order)
      PROVE  CatalogueInv'
  <2>1. files' \in [Sync!Slugs -> Sync!Directories] /\ DOMAIN catalogue' \subseteq Sync!Slugs
    BY <1>2 DEF Sync!EditTask, CatalogueInv, Sync!TypeOK
  <2> QED
    BY <1>2, <2>1, DisturbKeeps DEF Sync!EditTask
<1>3. CASE UNCHANGED Sync!vars
  <2>1. ASSUME NEW q \in Runs PROVE Informed(run[q])'
    <3>1. PICK y : y = run[q]
      OBVIOUS
    <3>2. files' = files /\ catalogue' = catalogue /\ run' = run
      BY <1>3 DEF Sync!vars
    <3>3. Informed(y)'
      BY <3>1, <3>2, RowsUnchanged, InformedKept DEF CatalogueInv
    <3> QED
      BY <3>1, <3>2, <3>3 DEF Informed
  <2> QED
    BY <1>3, <2>1 DEF Sync!vars, CatalogueInv, Sync!TypeOK, Sync!Limits, QuietTogether, Busy
<1> QED
  BY <1>1, <1>2, <1>3, StartKeeps, VisitKeeps, SaveKeeps, FinishKeeps,
     ForgetKeeps DEF Sync!Next

\* And it is what the catalogue promises.
LEMMA CatalogueSound ==
  CatalogueInv => Sync!SyncedCatalogue /\ Sync!UncontestedSucceeds
<1> SUFFICES ASSUME CatalogueInv PROVE Sync!SyncedCatalogue /\ Sync!UncontestedSucceeds
  OBVIOUS
<1>1. Sync!SyncedCatalogue
  <2> SUFFICES ASSUME NEW r \in Runs, run[r].pc = "done", run[r].quiet,
                      run[r].strict, ~run[r].dry,
                      NEW s \in Sync!Slugs, Sync!Present(s)
               PROVE  Saved(s)
    BY DEF Sync!SyncedCatalogue, Saved, Sync!Present
  <2>1. run[r].s > Dirs /\ ~run[r].skipped /\ s \in Sync!Listed
        /\ \A u \in Sync!Listed : u < run[r].s => Saved(u)
    BY DEF CatalogueInv, Informed, Sync!Listed
  <2>2. s < run[r].s
    BY <2>1 DEF CatalogueInv, Sync!TypeOK, Sync!SyncRun, Sync!Slugs, Sync!Limits
  <2> QED
    BY <2>1, <2>2
<1>2. Sync!UncontestedSucceeds
  BY DEF Sync!UncontestedSucceeds, CatalogueInv, Informed
<1> QED
  BY <1>1, <1>2

\* A successful undisturbed strict run leaves every directory with its row and
\* every row with what task.json says, and one over uncontested directories is
\* never refused: sync_training_tasks, for any number of runs and directories.
THEOREM SyncComplete ==
  ASSUME Sync!Limits PROVE Sync!Spec => [](Sync!SyncedCatalogue /\ Sync!UncontestedSucceeds)
<1> QED
  BY CatalogueStart, CatalogueStep, CatalogueSound, PTL DEF Sync!Spec
-----------------------------------------------------------------------------
(* The awards: any metrics, evaluating processes and operations of staff.  *)

\* m leads T by f; of equals the smaller leads.
Leads(f, T, m) == \A n \in T : f[n] < f[m] \/ (f[n] = f[m] /\ m <= n)

LEMMA LeaderExists ==
  ASSUME NEW D \in SUBSET Nat, NEW f \in [D -> Nat], NEW T \in SUBSET D,
         IsFiniteSet(T), T # {}
  PROVE  \E m \in T : Leads(f, T, m)
<1> DEFINE Bad == {U \in SUBSET T : U # {} /\ ~ \E m \in U : Leads(f, U, m)}
<1>1. SUFFICES ASSUME T \in Bad PROVE FALSE
  OBVIOUS
<1>2. Bad \subseteq FiniteSubsetsOf(T)
  BY FS_Subset DEF FiniteSubsetsOf
<1>3. PICK U \in Bad : \A V \in Bad : ~ (<<V, U>> \in StrictSubsetOrdering(T))
  BY <1>1, <1>2, FS_StrictSubsetOrderingWellFounded, WFMin
<1>4. PICK x \in U : TRUE
  OBVIOUS
<1>5. U \ {x} \notin Bad
  BY <1>3, <1>4 DEF StrictSubsetOrdering
<1>6. U \ {x} # {}
  BY <1>4 DEF Leads
<1>7. PICK m \in U \ {x} : Leads(f, U \ {x}, m)
  BY <1>5, <1>6
<1>8. f[x] \in Nat /\ f[m] \in Nat /\ x \in Nat /\ m \in Nat
      /\ \A n \in U : f[n] \in Nat /\ n \in Nat
  BY <1>4, <1>7
<1>9. Leads(f, U, m) \/ Leads(f, U, x)
  BY <1>7, <1>8 DEF Leads
<1> QED
  BY <1>4, <1>7, <1>9

LEMMA BestIsMetric ==
  ASSUME Awards!Limits, percent \in [Metrics -> Nat], finished \subseteq Metrics
  PROVE  Awards!Best \in Metrics \cup {Awards!NoMetric}
<1>1. CASE Awards!Qualifying = {}
  BY <1>1 DEF Awards!Best
<1>2. CASE Awards!Qualifying # {}
  <2>1. Awards!Qualifying \subseteq Metrics /\ Metrics \in SUBSET Nat
    BY DEF Awards!Qualifying, Awards!Limits
  <2>2. IsFiniteSet(Awards!Qualifying)
    <3>1. Awards!IsFiniteSet(Metrics) = IsFiniteSet(Metrics)
      BY DEF IsFiniteSet, Awards!IsFiniteSet
    <3> QED
      BY <2>1, <3>1, FS_Subset DEF Awards!Limits
  <2>3. \E m \in Awards!Qualifying : Leads(percent, Awards!Qualifying, m)
    BY <1>2, <2>1, <2>2, LeaderExists
  <2>4. \E m \in Awards!Qualifying : \A n \in Awards!Qualifying :
          \/ percent[n] < percent[m]
          \/ percent[n] = percent[m] /\ m <= n
    BY <2>3 DEF Leads
  <2>5. Awards!Best \in Awards!Qualifying
    BY <1>2, <2>4 DEF Awards!Best
  <2> QED
    BY <2>1, <2>5
<1> QED
  BY <1>1, <1>2

-----------------------------------------------------------------------------
(* The award, its journal and its receipts.                                *)

Named == Metrics \cup {Awards!NoMetric}

Keys == [kind : {"dispute", "drift", "source", "reconcile", "manual", "revoke"},
         n : Nat, metric : Named, value : Nat]

Entry == [action : {"grant", "upgrade", "revoke", "evidence_disputed"},
          from : 0..3, to : 0..3, metric : Named, value : Nat, key : Keys]

\* Where the tier was before the entry i of a journal.
Before(j, i) == IF i = 1 THEN 0 ELSE j[i - 1].to

\* The entry n is the last that granted.
ProofAt(j, n) ==
  n \in 1..Len(j) /\ Awards!IsProof(j[n]) /\ \A i \in 1..Len(j) : Awards!IsProof(j[i]) => i <= n

Explained(a, j, r) ==
  /\ a \in Awards!UserAchievement /\ a.revision = Len(j)
  /\ j \in Seq(Entry)
  /\ \A i \in 1..Len(j) :
       /\ Awards!AchievementEvent(j[i]) /\ j[i].key \in r
       /\ j[i].from = Before(j, i)
       /\ Awards!IsProof(j[i]) => j[i].to > j[i].from
  /\ a.rank = Before(j, Len(j) + 1)
  /\ a.rank > 0 => \E n \in 1..Len(j) : ProofAt(j, n)
  /\ \A i \in 1..Len(j) : j[i].action = "revoke" => a.auto_grant_blocked
  /\ \A i, k \in 1..Len(j) :
       i < k /\ j[i].action = "revoke" /\ Awards!IsProof(j[k]) => j[k].metric = Awards!NoMetric
  /\ \A k \in r : k.kind = "dispute" => a.evidence_disputed

LEMMA LastProofIs ==
  ASSUME NEW j \in Seq(Entry), NEW n, ProofAt(j, n)
  PROVE  Awards!LastProof(j) = j[n]
<1> DEFINE S == {i \in DOMAIN j : Awards!IsProof(j[i])}
<1>1. n \in S /\ \A i \in S : i \in Nat /\ n >= i
  BY DEF ProofAt
<1>2. \A x \in S : (\A i \in S : x >= i) => x = n
  BY <1>1
<1>3. Awards!Max(S) = n
  BY <1>1, <1>2 DEF Awards!Max
<1> QED
  BY <1>3 DEF Awards!LastProof

\* One entry more.
LEMMA Appended ==
  ASSUME NEW a, NEW j, NEW r, Explained(a, j, r), NEW e \in Entry, NEW b,
         b \in Awards!UserAchievement, b.revision = a.revision + 1, b.rank = e.to,
         e.from = a.rank, Awards!AchievementEvent(e),
         Awards!IsProof(e) => e.to > e.from,
         b.rank > 0 => Awards!IsProof(e) \/ a.rank > 0,
         b.auto_grant_blocked = (a.auto_grant_blocked \/ e.action = "revoke"),
         Awards!IsProof(e) /\ a.auto_grant_blocked => e.metric = Awards!NoMetric,
         a.evidence_disputed \/ e.key.kind = "dispute" => b.evidence_disputed
  PROVE  Explained(b, Append(j, e), r \cup {e.key})
<1> DEFINE k == Append(j, e)
           n == Len(j)
<1>1. j \in Seq(Entry) /\ n \in Nat
  BY DEF Explained
<1>2. k \in Seq(Entry) /\ Len(k) = n + 1 /\ k[n + 1] = e
      /\ \A i \in 1..n : k[i] = j[i]
  BY <1>1
<1>3. b.revision = Len(k)
  BY <1>2 DEF Explained
<1>4. ASSUME NEW i \in 1..(n + 1)
      PROVE  /\ Awards!AchievementEvent(k[i]) /\ k[i].key \in r \cup {e.key}
             /\ k[i].from = Before(k, i)
             /\ Awards!IsProof(k[i]) => k[i].to > k[i].from
             /\ k[i].action = "revoke" => b.auto_grant_blocked
  <2>1. CASE i \in 1..n
    <3>1. k[i] = j[i] /\ Before(k, i) = Before(j, i)
      BY <1>1, <1>2, <2>1 DEF Before
    <3>2. /\ Awards!AchievementEvent(j[i]) /\ j[i].key \in r
          /\ j[i].from = Before(j, i)
          /\ Awards!IsProof(j[i]) => j[i].to > j[i].from
      BY <2>1 DEF Explained
    <3>3. j[i].action = "revoke" => b.auto_grant_blocked
      BY <2>1 DEF Explained
    <3> QED
      BY <3>1, <3>2, <3>3
  <2>2. CASE i = n + 1
    <3>1. Before(k, i) = Before(j, n + 1)
      BY <1>1, <1>2, <2>2 DEF Before
    <3>2. e.from = Before(j, n + 1)
      BY DEF Explained
    <3>3. e.action = "revoke" => b.auto_grant_blocked
      OBVIOUS
    <3> QED
      BY <1>2, <2>2, <3>1, <3>2, <3>3
  <2> QED
    BY <1>1, <2>1, <2>2
<1>5. b.rank = Before(k, Len(k) + 1)
  BY <1>1, <1>2 DEF Before
<1>6. ASSUME b.rank > 0 PROVE \E m \in 1..(n + 1) : ProofAt(k, m)
  <2>1. CASE Awards!IsProof(e)
    <3>1. ProofAt(k, n + 1)
      BY <1>1, <1>2, <2>1 DEF ProofAt
    <3> QED
      BY <1>1, <3>1
  <2>2. CASE ~Awards!IsProof(e)
    <3>1. PICK m \in 1..n : ProofAt(j, m)
      BY <1>6, <2>2 DEF Explained
    <3>2. ProofAt(k, m)
      BY <1>1, <1>2, <2>2, <3>1 DEF ProofAt
    <3> QED
      BY <1>1, <3>2
  <2> QED
    BY <2>1, <2>2
<1>7. ASSUME NEW i \in 1..(n + 1), NEW m \in 1..(n + 1), i < m,
             k[i].action = "revoke", Awards!IsProof(k[m])
      PROVE  k[m].metric = Awards!NoMetric
  <2>1. i \in 1..n /\ k[i] = j[i] /\ j[i].action = "revoke"
    BY <1>1, <1>2, <1>7
  <2>2. CASE m \in 1..n
    BY <1>2, <1>7, <2>1, <2>2 DEF Explained
  <2>3. CASE m = n + 1
    <3>1. a.auto_grant_blocked
      BY <2>1 DEF Explained
    <3> QED
      BY <1>2, <1>7, <2>3, <3>1
  <2> QED
    BY <1>1, <2>2, <2>3
<1>8. ASSUME NEW x \in r \cup {e.key}, x.kind = "dispute"
      PROVE  b.evidence_disputed
  BY <1>8 DEF Explained
<1> HIDE DEF k, n
<1>9. k \in Seq(Entry) /\ Len(k) = n + 1
  BY <1>2
<1>10. Explained(b, k, r \cup {e.key})
  BY <1>3, <1>4, <1>5, <1>6, <1>7, <1>8, <1>9 DEF Explained
<1> QED
  BY <1>10 DEF k

LEMMA ReceiptOnly ==
  ASSUME NEW a, NEW j, NEW r, Explained(a, j, r), NEW key, key.kind # "dispute"
  PROVE  Explained(a, j, r \cup {key})
<1> QED
  BY DEF Explained

LEMMA Revised ==
  ASSUME NEW c \in Awards!UserAchievement, NEW n \in Nat
  PROVE  [c EXCEPT !.revision = n + 1] \in Awards!UserAchievement
<1> QED
  BY DEF Awards!UserAchievement

\* b, k and q are what grant makes of a, j and r.
GrantMakes(b, k, q, a, j, r, rank, m, v, key) ==
  <<b, k, q>> = Awards!Grant(a, j, r, rank, m, v, key)

\* What grant does, whoever asks.
LEMMA GrantExplained ==
  ASSUME NEW a, NEW j, NEW r, Explained(a, j, r), Awards!Limits,
         NEW rank \in 0..3, NEW m \in Named, NEW v \in Nat,
         NEW key \in Keys, key.kind # "dispute",
         NEW b, NEW k, NEW q, GrantMakes(b, k, q, a, j, r, rank, m, v, key)
  PROVE  /\ Explained(b, k, q)
         /\ b.evidence_disputed = a.evidence_disputed
         /\ \/ b = a /\ k = j /\ r \subseteq q
            \/ \E e \in Entry : /\ k = Append(j, e) /\ Awards!IsProof(e)
                                /\ e.metric = m /\ e.value = v /\ e.key = key
                                /\ key \notin r
<1>1. a \in Awards!UserAchievement /\ a.rank \in 0..3 /\ a.revision \in Nat
  BY DEF Explained, Awards!UserAchievement
<1>2. CASE b = a /\ k = j /\ (q = r \/ q = r \cup {key})
  <2>1. Explained(a, j, r \cup {key})
    BY ReceiptOnly
  <2>2. Explained(b, k, q)
    BY <1>2, <2>1
  <2> QED
    BY <1>2, <2>2
<1>3. CASE /\ key \notin r /\ ~(m # Awards!NoMetric /\ a.auto_grant_blocked) /\ ~(rank <= a.rank)
           /\ b = [a EXCEPT !.rank = rank, !.revision = @ + 1]
           /\ k = Append(j, [action |-> IF a.rank > 0 THEN "upgrade" ELSE "grant",
                    from |-> a.rank, to |-> rank, metric |-> m, value |-> v,
                    key |-> key])
           /\ q = r \cup {key}
  <2> DEFINE e == [action |-> IF a.rank > 0 THEN "upgrade" ELSE "grant",
                    from |-> a.rank, to |-> rank, metric |-> m, value |-> v,
                    key |-> key]
  <2>1. e \in Entry
    BY <1>1 DEF Entry
  <2>2. Awards!IsProof(e) /\ e.metric = m /\ e.value = v /\ e.key = key /\ e.to = rank
        /\ e.from = a.rank /\ e.to > e.from /\ e.action # "revoke"
        /\ Awards!AchievementEvent(e)
    BY <1>1, <1>3 DEF Awards!IsProof, Awards!AchievementEvent
  <2>3. b \in Awards!UserAchievement
    <3>1. [a EXCEPT !.rank = rank] \in Awards!UserAchievement
      BY <1>1 DEF Awards!UserAchievement
    <3>2. b = [[a EXCEPT !.rank = rank] EXCEPT !.revision = a.revision + 1]
      BY <1>1, <1>3 DEF Awards!UserAchievement
    <3> QED
      BY <1>1, <3>1, <3>2, Revised
  <2>4. b.rank = rank /\ b.revision = a.revision + 1
        /\ b.evidence_disputed = a.evidence_disputed
    BY <1>1, <1>3 DEF Awards!UserAchievement
  <2>5. b.auto_grant_blocked = a.auto_grant_blocked
    BY <1>1, <1>3 DEF Awards!UserAchievement
  <2>6. k = Append(j, e) /\ q = r \cup {e.key}
    BY <1>3
  <2> HIDE DEF e
  <2>7. b.auto_grant_blocked = (a.auto_grant_blocked \/ e.action = "revoke")
    BY <1>1, <2>2, <2>5 DEF Awards!UserAchievement
  <2>8. Awards!IsProof(e) /\ a.auto_grant_blocked => e.metric = Awards!NoMetric
    BY <1>3, <2>2
  <2>9. a.evidence_disputed \/ e.key.kind = "dispute" => b.evidence_disputed
    BY <2>2, <2>4
  <2>10. Explained(b, k, q)
    BY <2>1, <2>2, <2>3, <2>4, <2>6, <2>7, <2>8, <2>9, Appended
  <2> QED
    BY <1>3, <2>1, <2>2, <2>4, <2>6, <2>10
<1> QED
  BY <1>2, <1>3 DEF Awards!Grant, GrantMakes

\* The award after flag_disputed.
DisputedAward(a) == [a EXCEPT !.evidence_disputed = TRUE, !.revision = @ + 1]

LEMMA DisputeExplained ==
  ASSUME NEW a, NEW j, NEW r, Explained(a, j, r), a.rank > 0,
         NEW m \in Named, NEW key \in Keys,
         NEW b, b = DisputedAward(a),
         NEW e, e = [action |-> "evidence_disputed", from |-> a.rank, to |-> a.rank,
                     metric |-> m, value |-> 0, key |-> key]
  PROVE  Explained(b, Append(j, e), r \cup {key}) /\ b.evidence_disputed
         /\ b.rank = a.rank /\ e \in Entry /\ ~Awards!IsProof(e)
<1>1. a \in Awards!UserAchievement /\ a.rank \in 0..3 /\ a.revision \in Nat
  BY DEF Explained, Awards!UserAchievement
<1>2. e \in Entry
  BY <1>1 DEF Entry
<1>3. ~Awards!IsProof(e) /\ e.key = key /\ e.to = a.rank /\ e.from = a.rank
      /\ e.action # "revoke" /\ Awards!AchievementEvent(e)
  BY DEF Awards!IsProof, Awards!AchievementEvent
<1>4. b \in Awards!UserAchievement
  <2>1. PICK c : c = [a EXCEPT !.evidence_disputed = TRUE]
    OBVIOUS
  <2>2. c \in Awards!UserAchievement /\ c.revision = a.revision
    BY <1>1, <2>1 DEF Awards!UserAchievement
  <2>3. b = [c EXCEPT !.revision = a.revision + 1]
    BY <1>1, <2>1 DEF Awards!UserAchievement, DisputedAward
  <2> QED
    BY <1>1, <2>2, <2>3, Revised
<1>5. b.rank = a.rank /\ b.revision = a.revision + 1 /\ b.evidence_disputed
  BY <1>1 DEF Awards!UserAchievement, DisputedAward
<1>6. b.auto_grant_blocked = a.auto_grant_blocked
  BY <1>1 DEF Awards!UserAchievement, DisputedAward
<1>7. b.auto_grant_blocked = (a.auto_grant_blocked \/ e.action = "revoke")
  BY <1>1, <1>3, <1>6 DEF Awards!UserAchievement
<1>8. Awards!IsProof(e) => e.to > e.from
  BY <1>3
<1>9. b.rank > 0 => Awards!IsProof(e) \/ a.rank > 0
  BY <1>5
<1>10. Awards!IsProof(e) /\ a.auto_grant_blocked => e.metric = Awards!NoMetric
  BY <1>3
<1>11. a.evidence_disputed \/ e.key.kind = "dispute" => b.evidence_disputed
  BY <1>5
<1>12. b.rank = e.to /\ e.from = a.rank /\ b.revision = a.revision + 1
  BY <1>3, <1>5
<1>13. Explained(b, Append(j, e), r \cup {e.key})
  BY ONLY Explained(a, j, r), <1>2, <1>3, <1>4, <1>7, <1>8, <1>9, <1>10, <1>11, <1>12, Appended
<1> QED
  BY <1>2, <1>3, <1>5, <1>13

LEMMA RevokeExplained ==
  ASSUME NEW op \in Nat, Explained(award, journal, receipts), award.rank > 0,
         NEW key, key = Awards!Key("revoke", op, Awards!NoMetric, 0),
         NEW e, e = [action |-> "revoke", from |-> award.rank, to |-> 0,
                     metric |-> Awards!NoMetric, value |-> 0, key |-> key]
  PROVE  Explained(Awards!Revoked, Append(journal, e), receipts \cup {key})
         /\ Awards!Revoked.rank = 0
         /\ e \in Entry /\ e.metric = Awards!NoMetric /\ e.key = key
<1>1. award \in Awards!UserAchievement /\ award.rank \in 0..3 /\ award.revision \in Nat
  BY DEF Explained, Awards!UserAchievement
<1>2. key \in Keys /\ key.kind = "revoke"
  BY DEF Keys, Awards!Key, Named, Awards!NoMetric
<1>3. e \in Entry
  BY <1>1, <1>2 DEF Entry, Named
<1>4. ~Awards!IsProof(e) /\ e.key = key /\ e.to = 0 /\ e.from = award.rank
      /\ e.action = "revoke" /\ Awards!AchievementEvent(e) /\ e.metric = Awards!NoMetric
  BY DEF Awards!IsProof, Awards!AchievementEvent
<1>5. Awards!Revoked \in Awards!UserAchievement
  <2>1. PICK c : c = [award EXCEPT !.rank = 0]
    OBVIOUS
  <2>2. c \in Awards!UserAchievement /\ c.revision = award.revision
    BY <1>1, <2>1 DEF Awards!UserAchievement
  <2>3. PICK d : d = [c EXCEPT !.auto_grant_blocked = TRUE]
    OBVIOUS
  <2>4. d \in Awards!UserAchievement /\ d.revision = award.revision
    BY <2>2, <2>3 DEF Awards!UserAchievement
  <2>5. Awards!Revoked = [d EXCEPT !.revision = award.revision + 1]
    BY <1>1, <2>1, <2>3 DEF Awards!Revoked, Awards!UserAchievement
  <2> QED
    BY <1>1, <2>4, <2>5, Revised
<1>6. PICK b : b = Awards!Revoked
  OBVIOUS
<1>7. b.rank = 0 /\ b.revision = award.revision + 1 /\ b.auto_grant_blocked
  BY <1>1, <1>6 DEF Awards!UserAchievement, Awards!Revoked
<1>8. b.evidence_disputed = award.evidence_disputed
  BY <1>1, <1>6 DEF Awards!UserAchievement, Awards!Revoked
<1>9. b.auto_grant_blocked = (award.auto_grant_blocked \/ e.action = "revoke")
  BY <1>4, <1>5, <1>6, <1>7 DEF Awards!UserAchievement
<1> QED
  BY <1>2, <1>3, <1>4, <1>5, <1>6, <1>7, <1>8, <1>9, Appended

-----------------------------------------------------------------------------
(* The inductive invariant.                                                *)

Work == [stage : {"idle", "user", "journey"}, event : Nat, metric : Named,
         value : Nat]

\* A writer has the journey row; so has an evaluation that read the metrics,
\* and they are still as it read them.
JourneyHeld ==
  /\ writing # <<>> => journey_lock = Awards!Writer
  /\ \A p \in Procs :
       job[p].stage = "journey" =>
         /\ journey_lock = p
         /\ job[p].metric # Awards!NoMetric => percent[job[p].metric] = job[p].value

AwardTypes ==
  /\ Awards!Limits
  /\ percent \in [Metrics -> Percents \cup {0}] /\ finished \subseteq Metrics
  /\ source \in Seq(Awards!AchievementSourceEvent)
  /\ writing # <<>> => writing \in Metrics \X Percents
  /\ job \in [Procs -> Work]
  /\ \A p \in Procs : job[p].event <= Len(source)
  /\ user_lock \in Procs \cup {Awards!Nobody}
  /\ journey_lock \in Procs \cup {Awards!Nobody, Awards!Writer}

AwardsInv ==
  /\ AwardTypes
  /\ JourneyHeld
  /\ Explained(award, journal, receipts)
  /\ Awards!NoStaleAward

LEMMA LastProofNamed ==
  ASSUME Explained(award, journal, receipts), award.rank > 0
  PROVE  Awards!LastProof(journal) \in Entry
<1>1. PICK n \in 1..Len(journal) : ProofAt(journal, n)
  BY DEF Explained
<1>2. journal \in Seq(Entry)
  BY DEF Explained
<1> QED
  BY <1>1, <1>2, LastProofIs

\* A proof that was just written is the last.
LEMMA NewProofLast ==
  ASSUME NEW j \in Seq(Entry), NEW e \in Entry, Awards!IsProof(e)
  PROVE  Awards!LastProof(Append(j, e)) = e
<1>1. Append(j, e) \in Seq(Entry) /\ ProofAt(Append(j, e), Len(j) + 1)
      /\ Append(j, e)[Len(j) + 1] = e
  BY DEF ProofAt
<1> QED
  BY <1>1, LastProofIs

\* What an evaluation leaves of the award.
LEMMA FinishExplained ==
  ASSUME AwardsInv, NEW p \in Procs, Awards!Finish(p)
  PROVE  /\ Explained(award, journal, receipts)'
         /\ Awards!NoStaleAward' /\ Awards!GrantIsFresh /\ Awards!OperationIsNew
         /\ source' \in Seq(Awards!AchievementSourceEvent) /\ Len(source') = Len(source)
<1> USE DEF AwardsInv
<1>1. PICK e, m, v, about, flag :
        /\ e = job[p].event /\ m = job[p].metric /\ v = job[p].value
        /\ about = (IF e > 0 THEN source[e].metric
                    ELSE IF award.rank > 0 THEN Awards!LastProof(journal).metric
                    ELSE Awards!NoMetric)
        /\ flag = (IF e > 0 THEN Awards!Key("dispute", e, about, 0)
                   ELSE Awards!Key("drift", 0, about,
                          IF about = Awards!NoMetric THEN 0 ELSE percent[about]))
  OBVIOUS
<1>2. e \in 0..Len(source) /\ m \in Named /\ v \in Nat
      /\ (m # Awards!NoMetric => percent[m] = v)
  <2>1. job[p] \in Work /\ job[p].event <= Len(source) /\ Len(source) \in Nat
    BY DEF AwardTypes
  <2>2. e \in Nat /\ m \in Named /\ v \in Nat /\ e <= Len(source)
    BY <1>1, <2>1 DEF Work
  <2>3. m # Awards!NoMetric => percent[m] = v
    BY <1>1 DEF Awards!Finish, JourneyHeld
  <2> QED
    BY <2>1, <2>2, <2>3
<1>3. about \in Named
  <2>1. CASE e > 0
    <3>1. source[e] \in Awards!AchievementSourceEvent
      BY <1>2, <2>1 DEF AwardTypes
    <3> QED
      BY <1>1, <2>1, <3>1 DEF Awards!AchievementSourceEvent, Named
  <2>2. CASE ~(e > 0) /\ award.rank > 0
    BY <1>1, <2>2, LastProofNamed DEF Entry
  <2>3. CASE ~(e > 0) /\ ~(award.rank > 0)
    BY <1>1, <2>3 DEF Named
  <2> QED
    BY <2>1, <2>2, <2>3
<1>4. flag \in Keys /\ (e > 0 => flag.kind = "dispute")
  <2>1. about # Awards!NoMetric => percent[about] \in Nat
    <3>1. SUFFICES ASSUME about \in Metrics PROVE percent[about] \in Nat
      BY <1>3 DEF Named
    <3>2. percent[about] \in Percents \cup {0}
      BY <3>1 DEF AwardTypes
    <3>3. \A x \in Percents \cup {0} : x \in Nat
      BY DEF AwardTypes, Awards!Limits
    <3> QED
      BY <3>2, <3>3
  <2>2. CASE e > 0
    BY <1>1, <1>2, <1>3, <2>2 DEF Keys, Awards!Key
  <2>3. CASE ~(e > 0)
    BY <1>1, <1>3, <2>1, <2>3 DEF Keys, Awards!Key
  <2> QED
    BY <2>2, <2>3
<1>5. PICK held, noted, told :
        /\ held = (IF Awards!Disputes(about, flag)
                   THEN [award EXCEPT !.evidence_disputed = TRUE, !.revision = @ + 1]
                   ELSE award)
        /\ noted = (IF Awards!Disputes(about, flag)
                    THEN Append(journal, [action |-> "evidence_disputed",
                           from |-> award.rank, to |-> award.rank,
                           metric |-> about, value |-> 0, key |-> flag])
                    ELSE journal)
        /\ told = (IF Awards!Disputes(about, flag) THEN receipts \cup {flag} ELSE receipts)
  OBVIOUS
<1>6. PICK key : key = Awards!Key(IF e > 0 THEN "source" ELSE "reconcile", e, m, v)
  OBVIOUS
<1>7. PICK outcome :
        outcome = (IF m = Awards!NoMetric THEN <<held, noted, told>>
                   ELSE Awards!Grant(held, noted, told, Awards!Tier(v), m, v, key))
  OBVIOUS
<1>8. award' = outcome[1]
  BY <1>1, <1>5, <1>6, <1>7 DEF Awards!Finish
<1>9. journal' = outcome[2]
  BY <1>1, <1>5, <1>6, <1>7 DEF Awards!Finish
<1>10. receipts' = outcome[3]
  BY <1>1, <1>5, <1>6, <1>7 DEF Awards!Finish
<1>11. source' = (IF e = 0 THEN source
                    ELSE IF about \in finished
                       THEN [source EXCEPT ![e].status = "processed"]
                       ELSE [source EXCEPT ![e].status = "pending",
                                           ![e].waits = TRUE])
  BY <1>1, <1>5, <1>6 DEF Awards!Finish
<1>12. percent' = percent /\ source \in Seq(Awards!AchievementSourceEvent)
       /\ Explained(award, journal, receipts)
  BY DEF Awards!Finish, AwardTypes
<1>13. /\ source' \in Seq(Awards!AchievementSourceEvent) /\ Len(source') = Len(source)
       /\ \A i \in 1..Len(source) :
            /\ source'[i].metric = source[i].metric
            /\ i # e => source'[i] = source[i]
  <2>1. CASE e = 0
    BY <1>11, <1>12, <2>1
  <2>2. CASE e # 0
    <3>1. e \in 1..Len(source) /\ source[e] \in Awards!AchievementSourceEvent
      BY <1>2, <1>12, <2>2
    <3>2. CASE about \in finished
      <4>1. PICK x : x = [source[e] EXCEPT !.status = "processed"]
        OBVIOUS
      <4>2. source' = [source EXCEPT ![e] = x]
        BY <1>11, <1>12, <2>2, <3>1, <3>2, <4>1
      <4>3. x \in Awards!AchievementSourceEvent /\ x.metric = source[e].metric
        BY <3>1, <4>1 DEF Awards!AchievementSourceEvent
      <4> QED
        BY <1>12, <3>1, <4>2, <4>3
    <3>3. CASE about \notin finished
      <4>1. PICK x : x = [source[e] EXCEPT !.status = "pending", !.waits = TRUE]
        OBVIOUS
      <4>2. source' = [source EXCEPT ![e] = x]
        BY <1>11, <1>12, <2>2, <3>1, <3>3, <4>1
      <4>3. x.metric = source[e].metric
        BY <3>1, <4>1 DEF Awards!AchievementSourceEvent
      <4>4. x \in Awards!AchievementSourceEvent
        <5>1. PICK y : y = [source[e] EXCEPT !.status = "pending"]
          OBVIOUS
        <5>2. y \in Awards!AchievementSourceEvent
          BY <3>1, <5>1 DEF Awards!AchievementSourceEvent
        <5>3. x = [y EXCEPT !.waits = TRUE]
          BY <3>1, <4>1, <5>1 DEF Awards!AchievementSourceEvent
        <5> QED
          BY <5>2, <5>3 DEF Awards!AchievementSourceEvent
      <4> QED
        BY <1>12, <3>1, <4>2, <4>3, <4>4
    <3> QED
      BY <3>2, <3>3
  <2> QED
    BY <2>1, <2>2
\* The dispute.
<1>14. /\ Explained(held, noted, told) /\ receipts \subseteq told
       /\ \/ held.evidence_disputed
          \/ ~Awards!Disputes(about, flag) /\ held = award /\ noted = journal
       /\ \/ noted = journal
          \/ \E d \in Entry : /\ noted = Append(journal, d) /\ ~Awards!IsProof(d)
                              /\ d.key = flag /\ flag \notin receipts
  <2>1. CASE ~Awards!Disputes(about, flag)
    BY <1>5, <1>12, <2>1
  <2>2. CASE Awards!Disputes(about, flag)
    <3>1. award.rank > 0 /\ flag \notin receipts
      BY <2>2 DEF Awards!Disputes, Awards!MetricProblem
    <3>2. PICK d : d = [action |-> "evidence_disputed",
                           from |-> award.rank, to |-> award.rank,
                           metric |-> about, value |-> 0, key |-> flag]
      OBVIOUS
    <3>3. held = DisputedAward(award)
          /\ noted = Append(journal, d) /\ told = receipts \cup {flag}
      BY <1>5, <2>2, <3>2 DEF DisputedAward
    <3>4. Explained(held, Append(journal, d), receipts \cup {flag})
          /\ held.evidence_disputed /\ d \in Entry /\ ~Awards!IsProof(d)
      BY ONLY <1>3, <1>4, <1>12, <3>1, <3>2, <3>3, DisputeExplained
    <3>5. d.key = flag
      BY <3>2
    <3> QED
      BY <3>1, <3>3, <3>4, <3>5
  <2> QED
    BY <2>1, <2>2
\* The grant.
<1>15. PICK b, k, q : b = award' /\ k = journal' /\ q = receipts'
  OBVIOUS
<1>16. /\ Explained(b, k, q)
       /\ b.evidence_disputed = held.evidence_disputed
       /\ \/ b = held /\ k = noted
          \/ \E g \in Entry : /\ k = Append(noted, g) /\ Awards!IsProof(g)
                              /\ g.metric = m /\ g.value = v /\ m # Awards!NoMetric
                              /\ g.key \notin told
  <2>1. CASE m = Awards!NoMetric
    BY <1>7, <1>8, <1>9, <1>10, <1>14, <1>15, <2>1
  <2>2. CASE m # Awards!NoMetric
    <3>1. outcome = Awards!Grant(held, noted, told, Awards!Tier(v), m, v, key)
      BY <1>7, <2>2
    <3>2. outcome = <<outcome[1], outcome[2], outcome[3]>>
      BY <3>1 DEF Awards!Grant
    <3>3. GrantMakes(b, k, q, held, noted, told, Awards!Tier(v), m, v, key)
      BY <1>8, <1>9, <1>10, <1>15, <3>1, <3>2 DEF GrantMakes
    <3>4. Awards!Tier(v) \in 0..3
      BY DEF Awards!Tier
    <3>5. key \in Keys /\ key.kind # "dispute"
      BY <1>2, <1>6 DEF Keys, Awards!Key
    <3>6. Awards!Limits
      BY DEF AwardTypes
    <3>7. /\ Explained(b, k, q)
          /\ b.evidence_disputed = held.evidence_disputed
          /\ \/ b = held /\ k = noted /\ told \subseteq q
             \/ \E g \in Entry : /\ k = Append(noted, g) /\ Awards!IsProof(g)
                                 /\ g.metric = m /\ g.value = v /\ g.key = key
                                 /\ key \notin told
      <4>1. Explained(held, noted, told)
        BY <1>14
      <4> QED
        BY ONLY <4>1, <1>2, <3>3, <3>4, <3>5, <3>6, GrantExplained
    <3> QED
      BY <2>2, <3>7
  <2> QED
    BY <2>1, <2>2
<1>17. journal \in Seq(Entry) /\ noted \in Seq(Entry) /\ k \in Seq(Entry)
  BY <1>12, <1>14, <1>16 DEF Explained
<1>18. Explained(award, journal, receipts)'
  <2>1. Explained(award', journal', receipts')
    BY <1>15, <1>16
  <2> QED
    BY <2>1 DEF Explained, Awards!UserAchievement, Entry, Keys, Named, Awards!IsProof, Before,
                ProofAt, Awards!AchievementEvent
<1>19. Awards!NoStaleAward'
  <2> SUFFICES ASSUME Awards!MetricProblem', ~b.evidence_disputed
               PROVE  \E i \in DOMAIN source' :
                        /\ source'[i].status # "processed"
                        /\ source'[i].metric = Awards!LastProof(k).metric
    BY <1>15 DEF Awards!NoStaleAward, Awards!LastProof
  <2>1. held = award /\ noted = journal /\ ~Awards!Disputes(about, flag)
        /\ ~award.evidence_disputed
    BY <1>14, <1>16
  <2>2. b.rank > 0 /\ Awards!LastProof(k).metric # Awards!NoMetric
        /\ percent[Awards!LastProof(k).metric] # Awards!LastProof(k).value
    BY <1>12, <1>15 DEF Awards!MetricProblem, Awards!LastProof
  <2>3. k = journal /\ b = award
    <3>1. ASSUME NEW g \in Entry, k = Append(noted, g), Awards!IsProof(g),
                 g.metric = m, g.value = v, m # Awards!NoMetric
          PROVE  FALSE
      <4>1. Awards!LastProof(k) = g
        BY <1>17, <3>1, NewProofLast
      <4> QED
        BY <1>2, <2>2, <3>1, <4>1
    <3> QED
      BY <1>16, <2>1, <3>1
  <2>4. Awards!MetricProblem
    BY <2>2, <2>3 DEF Awards!MetricProblem
  <2>5. PICK i \in DOMAIN source : /\ source[i].status # "processed"
                                   /\ source[i].metric = Awards!LastProof(journal).metric
    BY <2>1, <2>4 DEF Awards!NoStaleAward
  <2>6. i # e
    <3>1. SUFFICES ASSUME i = e PROVE FALSE
      OBVIOUS
    <3>2. e > 0 /\ about = Awards!LastProof(journal).metric /\ flag.kind = "dispute"
      BY <1>1, <1>2, <1>4, <1>12, <2>5, <3>1
    <3>3. flag \in receipts
      BY <2>1, <2>4, <3>2 DEF Awards!Disputes
    <3> QED
      BY <1>12, <2>1, <3>2, <3>3 DEF Explained
  <2>7. i \in 1..Len(source) /\ i \in DOMAIN source' /\ source'[i] = source[i]
    BY <1>12, <1>13, <2>5, <2>6
  <2> QED
    BY <2>3, <2>5, <2>7
<1>20. ASSUME NEW i \in DOMAIN journal' \ DOMAIN journal
       PROVE  /\ journal'[i].key \notin receipts
              /\ Awards!IsProof(journal'[i]) /\ journal'[i].metric # Awards!NoMetric
                   => percent[journal'[i].metric] = journal'[i].value
  <2>1. i \in DOMAIN k /\ i \notin DOMAIN journal /\ journal' = k
    BY <1>15
  <2>2. CASE i \in DOMAIN noted
    <3>1. PICK d \in Entry : /\ noted = Append(journal, d) /\ ~Awards!IsProof(d)
                             /\ d.key = flag /\ flag \notin receipts
      BY <1>14, <2>1, <2>2
    <3>2. noted[i] = d
      BY <1>17, <2>1, <2>2, <3>1
    <3>3. k[i] = noted[i]
      <4>1. CASE k = noted
        BY <4>1
      <4>2. ASSUME NEW g \in Entry, k = Append(noted, g) PROVE k[i] = noted[i]
        BY <1>17, <2>2, <4>2
      <4> QED
        BY <1>16, <4>1, <4>2
    <3> QED
      BY <2>1, <3>1, <3>2, <3>3
  <2>3. CASE i \notin DOMAIN noted
    <3>1. PICK g \in Entry : /\ k = Append(noted, g) /\ Awards!IsProof(g)
                             /\ g.metric = m /\ g.value = v /\ m # Awards!NoMetric
                             /\ g.key \notin told
      BY <1>16, <2>1, <2>3
    <3>2. k[i] = g
      BY <1>17, <2>1, <2>3, <3>1
    <3> QED
      BY <1>2, <1>14, <2>1, <3>1, <3>2
  <2> QED
    BY <2>2, <2>3
<1> QED
  BY <1>13, <1>18, <1>19, <1>20 DEF Awards!GrantIsFresh, Awards!OperationIsNew

LEMMA GrantsUntouched ==
  ASSUME Explained(award, journal, receipts), UNCHANGED Awards!grantVars
  PROVE  Explained(award, journal, receipts)' /\ Awards!GrantIsFresh /\ Awards!OperationIsNew
<1>1. award' = award /\ journal' = journal /\ receipts' = receipts
  BY DEF Awards!grantVars
<1>2. PICK a, j, r : a = award' /\ j = journal' /\ r = receipts'
  OBVIOUS
<1>3. Explained(a, j, r)
  BY <1>1, <1>2
<1>4. Explained(award', journal', receipts')
  BY <1>2, <1>3
<1>5. Explained(award, journal, receipts)'
  BY <1>4 DEF Explained, Awards!UserAchievement, Entry, Keys, Named, Awards!IsProof, Before,
              ProofAt, Awards!AchievementEvent
<1>6. DOMAIN journal' \ DOMAIN journal = {}
  BY <1>1
<1> QED
  BY <1>5, <1>6 DEF Awards!GrantIsFresh, Awards!OperationIsNew

\* Sources that are not processed stay so.
SourcesStay ==
  \A i \in DOMAIN source :
    /\ i \in DOMAIN source' /\ source'[i].metric = source[i].metric
    /\ source[i].status # "processed" => source'[i].status # "processed"

LEMMA StaleKept ==
  ASSUME Awards!NoStaleAward, UNCHANGED Awards!grantVars, percent' = percent, SourcesStay
  PROVE  Awards!NoStaleAward'
<1>1. award' = award /\ Awards!LastProof(journal)' = Awards!LastProof(journal)
      /\ (Awards!MetricProblem' => Awards!MetricProblem)
  BY DEF Awards!grantVars, Awards!MetricProblem, Awards!LastProof
<1> QED
  BY <1>1 DEF Awards!NoStaleAward, SourcesStay

\* A process goes on, and nothing else changes but the locks and sources.
LEMMA JobStep ==
  ASSUME AwardsInv, NEW p \in Procs, NEW x \in Work, x.event <= Len(source),
         job' = [job EXCEPT ![p] = x], percent' = percent, finished' = finished,
         writing' = writing, source' \in Seq(Awards!AchievementSourceEvent),
         Len(source') = Len(source),
         user_lock' \in Procs \cup {Awards!Nobody},
         \/ journey_lock' = journey_lock /\ x.stage # "journey"
         \/ journey_lock = p /\ journey_lock' = Awards!Nobody /\ x.stage # "journey"
         \/ /\ journey_lock = Awards!Nobody /\ journey_lock' = p
            /\ x.metric # Awards!NoMetric => percent[x.metric] = x.value
  PROVE  AwardTypes' /\ JourneyHeld'
<1> USE DEF AwardsInv
<1>1. job' \in [Procs -> Work] /\ job'[p] = x
      /\ \A q \in Procs \ {p} : job'[q] = job[q]
  BY DEF AwardTypes
<1>2. journey_lock' \in Procs \cup {Awards!Nobody, Awards!Writer}
  BY DEF AwardTypes
<1>3. AwardTypes'
  BY <1>1, <1>2 DEF AwardTypes, Awards!Limits, Awards!AchievementSourceEvent, Work, Named
<1>4. Awards!Nobody \notin Procs /\ Awards!Writer \notin Procs /\ Awards!Writer # Awards!Nobody
  BY DEF AwardTypes, Awards!Limits, Awards!Nobody, Awards!Writer
<1>5. JourneyHeld'
  BY <1>1, <1>4 DEF JourneyHeld
<1> QED
  BY <1>3, <1>5

LEMMA LockJourneyKeeps ==
  ASSUME AwardsInv, NEW m \in Metrics, NEW v \in Percents, Awards!LockJourney(m, v)
  PROVE  AwardsInv' /\ Awards!GrantIsFresh /\ Awards!OperationIsNew
<1> USE DEF AwardsInv
<1>1. /\ writing' = <<m, v>> /\ journey_lock = Awards!Nobody /\ journey_lock' = Awards!Writer
      /\ percent' = percent /\ finished' = finished /\ source' = source
      /\ UNCHANGED Awards!grantVars /\ job' = job /\ user_lock' = user_lock
  BY DEF Awards!LockJourney
<1>2. Awards!Nobody \notin Procs
  BY DEF AwardTypes, Awards!Limits
<1>3. AwardTypes'
  BY <1>1 DEF AwardTypes, Awards!Limits, Awards!AchievementSourceEvent, Work, Named
<1>4. JourneyHeld'
  BY <1>1, <1>2 DEF JourneyHeld
<1>5. SourcesStay
  BY <1>1 DEF SourcesStay
<1> QED
  BY <1>1, <1>3, <1>4, <1>5, GrantsUntouched, StaleKept

LEMMA PublishKeeps ==
  ASSUME AwardsInv, Awards!Publish
  PROVE  AwardsInv' /\ Awards!GrantIsFresh /\ Awards!OperationIsNew
<1> USE DEF AwardsInv
<1>1. PICK m, v : m = writing[1] /\ v = writing[2]
  OBVIOUS
<1>2. m \in Metrics /\ v \in Percents
  BY <1>1 DEF Awards!Publish, AwardTypes
<1>3. PICK e : e = [metric |-> m, status |-> "pending", waits |-> percent[m] = 0]
  OBVIOUS
<1>4. /\ writing # <<>> /\ writing' = <<>> /\ journey_lock' = Awards!Nobody
      /\ source' = Append(source, e)
      /\ percent' = [percent EXCEPT ![m] = v]
      /\ finished' = finished
      /\ UNCHANGED Awards!grantVars /\ job' = job /\ user_lock' = user_lock
  BY <1>1, <1>3 DEF Awards!Publish
<1>5. e \in Awards!AchievementSourceEvent /\ e.metric = m /\ e.status = "pending"
  BY <1>2, <1>3 DEF Awards!AchievementSourceEvent
<1>6. source \in Seq(Awards!AchievementSourceEvent)
  BY DEF AwardTypes
<1>7. /\ source' \in Seq(Awards!AchievementSourceEvent) /\ Len(source') = Len(source) + 1
      /\ source'[Len(source) + 1] = e /\ Len(source) \in Nat
      /\ \A i \in 1..Len(source) : source'[i] = source[i]
  BY <1>4, <1>5, <1>6
<1>8. journey_lock = Awards!Writer /\ Awards!Writer \notin Procs
  BY <1>4 DEF JourneyHeld, AwardTypes, Awards!Limits
<1>9. \A p \in Procs : job[p].stage # "journey"
  BY <1>8 DEF JourneyHeld
<1>10. percent' \in [Metrics -> Percents \cup {0}]
  BY <1>2, <1>4 DEF AwardTypes
<1>11. \A p \in Procs : job[p].event \in Nat
  BY DEF AwardTypes, Work
<1>12. AwardTypes'
  <2>1. \A p \in Procs : job'[p].event <= Len(source')
    BY <1>4, <1>7, <1>11 DEF AwardTypes
  <2> QED
    BY <1>4, <1>7, <1>10, <2>1 DEF AwardTypes, Awards!Limits
<1>13. JourneyHeld'
  BY <1>4, <1>9 DEF JourneyHeld
<1>14. Awards!NoStaleAward'
  <2>1. award' = award /\ journal' = journal /\ Awards!LastProof(journal)' = Awards!LastProof(journal)
    BY <1>4 DEF Awards!grantVars, Awards!LastProof
  <2> SUFFICES ASSUME Awards!MetricProblem', ~award.evidence_disputed
               PROVE  \E i \in DOMAIN source' :
                        /\ source'[i].status # "processed"
                        /\ source'[i].metric = Awards!LastProof(journal).metric
    BY <2>1 DEF Awards!NoStaleAward
  <2>2. award.rank > 0 /\ Awards!LastProof(journal).metric # Awards!NoMetric
        /\ percent'[Awards!LastProof(journal).metric] # Awards!LastProof(journal).value
    BY <2>1 DEF Awards!MetricProblem
  <2>3. Awards!LastProof(journal).metric \in Metrics
    BY <2>2, LastProofNamed DEF Entry, Named
  <2>4. CASE Awards!LastProof(journal).metric = m
    <3>1. Len(source) + 1 \in DOMAIN source'
      BY <1>7
    <3> QED
      BY <1>5, <1>7, <2>4, <3>1
  <2>5. CASE Awards!LastProof(journal).metric # m
    <3>1. Awards!MetricProblem
      BY <1>4, <2>2, <2>3, <2>5 DEF Awards!MetricProblem, AwardTypes
    <3>2. PICK i \in DOMAIN source : /\ source[i].status # "processed"
                                     /\ source[i].metric = Awards!LastProof(journal).metric
      BY <3>1 DEF Awards!NoStaleAward
    <3>3. i \in DOMAIN source' /\ source'[i] = source[i]
      BY <1>6, <1>7, <3>2
    <3> QED
      BY <3>2, <3>3
  <2> QED
    BY <2>4, <2>5
<1> QED
  BY <1>4, <1>12, <1>13, <1>14, GrantsUntouched

LEMMA WeekEndsKeeps ==
  ASSUME AwardsInv, NEW m \in Metrics, Awards!WeekEnds(m)
  PROVE  AwardsInv' /\ Awards!GrantIsFresh /\ Awards!OperationIsNew
<1> USE DEF AwardsInv
<1>1. /\ finished' = finished \cup {m} /\ percent' = percent /\ source' = source
      /\ writing' = writing /\ journey_lock' = journey_lock
      /\ UNCHANGED Awards!grantVars /\ job' = job /\ user_lock' = user_lock
  BY DEF Awards!WeekEnds
<1>2. AwardTypes'
  BY <1>1 DEF AwardTypes, Awards!Limits, Awards!AchievementSourceEvent, Work, Named
<1>3. JourneyHeld' /\ SourcesStay
  BY <1>1 DEF JourneyHeld, SourcesStay
<1> QED
  BY <1>1, <1>2, <1>3, GrantsUntouched, StaleKept

LEMMA LockUserKeeps ==
  ASSUME AwardsInv, NEW p \in Procs, NEW e \in 0..Len(source), Awards!LockUser(p, e)
  PROVE  AwardsInv' /\ Awards!GrantIsFresh /\ Awards!OperationIsNew
<1> USE DEF AwardsInv
<1>1. PICK x : x = [Awards!Idle EXCEPT !.stage = "user", !.event = e]
  OBVIOUS
<1>2. x \in Work /\ x.event = e /\ x.stage = "user" /\ x.event <= Len(source)
  <2>1. e \in Nat /\ e <= Len(source)
    BY DEF AwardTypes
  <2>2. Awards!Idle \in Work
    BY DEF Work, Awards!Idle, Named
  <2>3. [Awards!Idle EXCEPT !.stage = "user"] \in Work
    BY <2>2 DEF Work
  <2>4. x \in Work
    BY <1>1, <2>1, <2>3 DEF Work
  <2> QED
    BY <1>1, <2>1, <2>2, <2>4 DEF Work
<1>3. /\ job' = [job EXCEPT ![p] = x] /\ percent' = percent /\ finished' = finished
      /\ writing' = writing /\ source' = source /\ user_lock' = p
      /\ journey_lock' = journey_lock /\ UNCHANGED Awards!grantVars
  BY <1>1 DEF Awards!LockUser, Awards!metricVars
<1>4. source \in Seq(Awards!AchievementSourceEvent)
  BY DEF AwardTypes
<1>5. AwardTypes' /\ JourneyHeld'
  BY <1>2, <1>3, <1>4, JobStep
<1>6. SourcesStay
  BY <1>3 DEF SourcesStay
<1> QED
  BY <1>3, <1>5, <1>6, GrantsUntouched, StaleKept

LEMMA EvaluateKeeps ==
  ASSUME AwardsInv, NEW p \in Procs, Awards!Evaluate(p)
  PROVE  AwardsInv' /\ Awards!GrantIsFresh /\ Awards!OperationIsNew
<1> USE DEF AwardsInv
<1>1. PICK b, w : b = Awards!Best /\ w = (IF b = Awards!NoMetric THEN 0 ELSE percent[b])
  OBVIOUS
<1>2. PICK x : x = [job[p] EXCEPT !.stage = "journey", !.metric = b, !.value = w]
  OBVIOUS
<1>3. percent \in [Metrics -> Nat]
  <2>1. \A y \in Percents \cup {0} : y \in Nat
    BY DEF AwardTypes, Awards!Limits
  <2> QED
    BY <2>1 DEF AwardTypes
<1>4. b \in Named
  BY <1>1, <1>3, BestIsMetric DEF AwardTypes, Named
<1>5. w \in Nat /\ (b # Awards!NoMetric => percent[b] = w)
  BY <1>1, <1>3, <1>4 DEF Named
<1>6. job[p] \in Work /\ job[p].event <= Len(source)
  BY DEF AwardTypes
<1>7. x \in Work
  <2>1. [job[p] EXCEPT !.stage = "journey"] \in Work
    BY <1>6 DEF Work
  <2>2. [job[p] EXCEPT !.stage = "journey", !.metric = b] \in Work
    BY <1>4, <2>1 DEF Work
  <2> QED
    BY <1>2, <1>5, <2>2 DEF Work
<1>8. x.stage = "journey" /\ x.event = job[p].event /\ x.metric = b /\ x.value = w
  BY <1>2, <1>6 DEF Work
<1>9. /\ job' = [job EXCEPT ![p] = x] /\ percent' = percent /\ finished' = finished
      /\ writing' = writing /\ source' = source /\ user_lock' = user_lock
      /\ journey_lock = Awards!Nobody /\ journey_lock' = p /\ UNCHANGED Awards!grantVars
  BY <1>1, <1>2 DEF Awards!Evaluate, Awards!metricVars, AwardTypes
<1>10. source \in Seq(Awards!AchievementSourceEvent) /\ user_lock \in Procs \cup {Awards!Nobody}
  BY DEF AwardTypes
<1>11. AwardTypes' /\ JourneyHeld'
  BY <1>5, <1>6, <1>7, <1>8, <1>9, <1>10, JobStep
<1>12. SourcesStay
  BY <1>9 DEF SourcesStay
<1> QED
  BY <1>9, <1>11, <1>12, GrantsUntouched, StaleKept

LEMMA EvaluationKeeps ==
  ASSUME AwardsInv, NEW p \in Procs, Awards!Finish(p)
  PROVE  AwardsInv' /\ Awards!GrantIsFresh /\ Awards!OperationIsNew
<1> USE DEF AwardsInv
<1>1. PICK x : x = Awards!Idle
  OBVIOUS
<1>2. x \in Work /\ x.event = 0 /\ x.stage = "idle"
  BY <1>1 DEF Work, Awards!Idle, Named
<1>3. /\ job' = [job EXCEPT ![p] = x] /\ percent' = percent /\ finished' = finished
      /\ writing' = writing /\ job[p].stage = "journey"
      /\ user_lock' = IF user_lock = p THEN Awards!Nobody ELSE user_lock
      /\ journey_lock' = IF journey_lock = p THEN Awards!Nobody ELSE journey_lock
  BY <1>1 DEF Awards!Finish, Awards!Release
<1>4. source \in Seq(Awards!AchievementSourceEvent) /\ Len(source) \in Nat
      /\ x.event <= Len(source)
  BY <1>2 DEF AwardTypes
<1>44. user_lock' \in Procs \cup {Awards!Nobody}
  BY <1>3 DEF AwardTypes
<1>5. journey_lock = p /\ journey_lock' = Awards!Nobody
  BY <1>3 DEF JourneyHeld
<1>6. /\ source' \in Seq(Awards!AchievementSourceEvent) /\ Len(source') = Len(source)
      /\ Explained(award, journal, receipts)' /\ Awards!NoStaleAward'
      /\ Awards!GrantIsFresh /\ Awards!OperationIsNew
  BY FinishExplained
<1>7. AwardTypes' /\ JourneyHeld'
  BY <1>2, <1>3, <1>4, <1>44, <1>5, <1>6, JobStep
<1> QED
  BY <1>6, <1>7

LEMMA FailureKeeps ==
  ASSUME AwardsInv, NEW p \in Procs, Awards!Fail(p)
  PROVE  AwardsInv' /\ Awards!GrantIsFresh /\ Awards!OperationIsNew
<1> USE DEF AwardsInv
<1>1. PICK x : x = Awards!Idle
  OBVIOUS
<1>2. x \in Work /\ x.event = 0 /\ x.stage = "idle"
  BY <1>1 DEF Work, Awards!Idle, Named
<1>3. /\ job' = [job EXCEPT ![p] = x] /\ percent' = percent /\ finished' = finished
      /\ writing' = writing /\ UNCHANGED Awards!grantVars
      /\ user_lock' = IF user_lock = p THEN Awards!Nobody ELSE user_lock
      /\ journey_lock' = IF journey_lock = p THEN Awards!Nobody ELSE journey_lock
  BY <1>1 DEF Awards!Fail, Awards!Release
<1>4. source \in Seq(Awards!AchievementSourceEvent) /\ Len(source) \in Nat
      /\ x.event <= Len(source)
  BY <1>2 DEF AwardTypes
<1>44. user_lock' \in Procs \cup {Awards!Nobody}
  BY <1>3 DEF AwardTypes
<1>5. /\ source' \in Seq(Awards!AchievementSourceEvent) /\ Len(source') = Len(source)
      /\ SourcesStay
  <2>1. CASE source' = source
    BY <1>4, <2>1 DEF SourcesStay
  <2>2. CASE /\ job[p].event > 0
             /\ source' = [source EXCEPT ![job[p].event].status = "error"]
    <3>1. PICK e : e = job[p].event
      OBVIOUS
    <3>2. e \in 1..Len(source)
      BY <2>2, <3>1 DEF AwardTypes, Work
    <3>3. PICK y : y = [source[e] EXCEPT !.status = "error"]
      OBVIOUS
    <3>4. source[e] \in Awards!AchievementSourceEvent
      BY <1>4, <3>2
    <3>5. source' = [source EXCEPT ![e] = y]
      BY <1>4, <2>2, <3>1, <3>2, <3>3
    <3>6. y \in Awards!AchievementSourceEvent /\ y.metric = source[e].metric /\ y.status = "error"
      BY <3>3, <3>4 DEF Awards!AchievementSourceEvent
    <3> QED
      BY <1>4, <3>2, <3>5, <3>6 DEF SourcesStay
  <2> QED
    BY <2>1, <2>2 DEF Awards!Fail
<1>6. AwardTypes' /\ JourneyHeld'
  BY <1>2, <1>3, <1>4, <1>44, <1>5, JobStep
<1> QED
  BY <1>3, <1>5, <1>6, GrantsUntouched, StaleKept

\* Staff leave the metrics, their sources and the evaluations alone.
LEMMA StaffLeaves ==
  ASSUME AwardsInv,
         UNCHANGED <<Awards!metricVars, job, user_lock, journey_lock>>
  PROVE  AwardTypes' /\ JourneyHeld' /\ percent' = percent /\ source' = source
<1> QED
  BY DEF AwardsInv, Awards!metricVars, AwardTypes, JourneyHeld, Awards!Limits,
         Awards!AchievementSourceEvent, Work, Named

LEMMA ManualGrantKeeps ==
  ASSUME AwardsInv, NEW op \in 1..MaxManual, NEW rank \in 1..3, Awards!ManualGrant(op, rank)
  PROVE  AwardsInv' /\ Awards!GrantIsFresh /\ Awards!OperationIsNew
<1> USE DEF AwardsInv
<1>1. PICK key : key = Awards!Key("manual", op, Awards!NoMetric, 0)
  OBVIOUS
<1>2. op \in Nat /\ Awards!Limits
  BY DEF AwardTypes, Awards!Limits
<1>3. key \in Keys /\ key.kind # "dispute"
  BY <1>1, <1>2 DEF Keys, Awards!Key, Named
<1>4. PICK b, k, q : b = award' /\ k = journal' /\ q = receipts'
  OBVIOUS
<1>5. PICK outcome : outcome = Awards!Grant(award, journal, receipts, rank, Awards!NoMetric, 0, key)
  OBVIOUS
<1>6. award' = outcome[1] /\ journal' = outcome[2] /\ receipts' = outcome[3]
  BY <1>1, <1>5 DEF Awards!ManualGrant
<1>7. outcome = <<outcome[1], outcome[2], outcome[3]>>
  BY <1>5 DEF Awards!Grant
<1>8. GrantMakes(b, k, q, award, journal, receipts, rank, Awards!NoMetric, 0, key)
  BY <1>4, <1>5, <1>6, <1>7 DEF GrantMakes
<1>9. Awards!NoMetric \in Named /\ rank \in 0..3 /\ 0 \in Nat
  BY DEF Named
<1>10. /\ Explained(b, k, q)
       /\ b.evidence_disputed = award.evidence_disputed
       /\ \/ b = award /\ k = journal /\ receipts \subseteq q
          \/ \E e \in Entry : /\ k = Append(journal, e) /\ Awards!IsProof(e)
                              /\ e.metric = Awards!NoMetric /\ e.value = 0 /\ e.key = key
                              /\ key \notin receipts
  BY ONLY Explained(award, journal, receipts), <1>2, <1>3, <1>8, <1>9, GrantExplained
<1>11. Explained(award, journal, receipts)'
  <2>1. Explained(award', journal', receipts')
    BY <1>4, <1>10
  <2> QED
    BY <2>1 DEF Explained, Awards!UserAchievement, Entry, Keys, Named, Awards!IsProof, Before,
                ProofAt, Awards!AchievementEvent
<1>12. AwardTypes' /\ JourneyHeld' /\ percent' = percent /\ source' = source
  BY StaffLeaves DEF Awards!ManualGrant
<1>13. journal \in Seq(Entry)
  BY DEF Explained
<1>14. CASE b = award /\ k = journal
  <2>1. award' = award /\ journal' = journal
    BY <1>4, <1>14
  <2>2. Awards!NoStaleAward'
    BY <1>12, <2>1 DEF Awards!NoStaleAward, Awards!MetricProblem, Awards!LastProof
  <2>3. Awards!GrantIsFresh /\ Awards!OperationIsNew
    BY <2>1 DEF Awards!GrantIsFresh, Awards!OperationIsNew
  <2> QED
    BY <1>11, <1>12, <2>2, <2>3
<1>15. ASSUME NEW e \in Entry, k = Append(journal, e), Awards!IsProof(e),
              e.metric = Awards!NoMetric, e.key = key, key \notin receipts
       PROVE  AwardsInv' /\ Awards!GrantIsFresh /\ Awards!OperationIsNew
  <2>1. Awards!LastProof(k) = e
    BY <1>13, <1>15, NewProofLast
  <2>2. Awards!LastProof(journal)' = Awards!LastProof(k)
    BY <1>4 DEF Awards!LastProof
  <2>3. Awards!NoStaleAward'
    BY <1>15, <2>1, <2>2 DEF Awards!NoStaleAward, Awards!MetricProblem
  <2>4. ASSUME NEW i \in DOMAIN journal' \ DOMAIN journal PROVE journal'[i] = e
    BY <1>4, <1>13, <1>15, <2>4
  <2>5. Awards!GrantIsFresh /\ Awards!OperationIsNew
    BY <1>15, <2>4 DEF Awards!GrantIsFresh, Awards!OperationIsNew
  <2> QED
    BY <1>11, <1>12, <2>3, <2>5
<1> QED
  BY <1>10, <1>14, <1>15

LEMMA ManualRevokeKeeps ==
  ASSUME AwardsInv, NEW op \in 1..MaxManual, Awards!ManualRevoke(op)
  PROVE  AwardsInv' /\ Awards!GrantIsFresh /\ Awards!OperationIsNew
<1> USE DEF AwardsInv
<1>1. PICK key : key = Awards!Key("revoke", op, Awards!NoMetric, 0)
  OBVIOUS
<1>2. op \in Nat /\ key.kind = "revoke"
  BY <1>1 DEF AwardTypes, Awards!Limits, Awards!Key
<1>3. AwardTypes' /\ JourneyHeld' /\ percent' = percent /\ source' = source
  BY StaffLeaves DEF Awards!ManualRevoke
<1>4. CASE UNCHANGED Awards!grantVars
  <2>1. SourcesStay
    BY <1>3 DEF SourcesStay
  <2> QED
    BY <1>3, <1>4, <2>1, GrantsUntouched, StaleKept
<1>5. CASE /\ award' = award /\ journal' = journal
           /\ receipts' = receipts \cup {key}
  <2>1. PICK a, j, r : a = award' /\ j = journal' /\ r = receipts'
    OBVIOUS
  <2>2. Explained(a, j, r)
    BY <1>2, <1>5, <2>1, ReceiptOnly
  <2>3. Explained(award', journal', receipts')
    BY <2>1, <2>2
  <2>4. Explained(award, journal, receipts)'
    BY <2>3 DEF Explained, Awards!UserAchievement, Entry, Keys, Named, Awards!IsProof, Before,
                ProofAt, Awards!AchievementEvent
  <2>5. Awards!NoStaleAward'
    BY <1>3, <1>5 DEF Awards!NoStaleAward, Awards!MetricProblem, Awards!LastProof
  <2>6. Awards!GrantIsFresh /\ Awards!OperationIsNew
    BY <1>5 DEF Awards!GrantIsFresh, Awards!OperationIsNew
  <2> QED
    BY <1>3, <2>4, <2>5, <2>6
<1>6. CASE /\ key \notin receipts /\ award.rank # 0 /\ award' = Awards!Revoked
           /\ receipts' = receipts \cup {key}
           /\ journal' = Append(journal,
                [action |-> "revoke", from |-> award.rank, to |-> 0,
                 metric |-> Awards!NoMetric, value |-> 0, key |-> key])
  <2>1. award.rank > 0
    BY <1>6 DEF Explained, Awards!UserAchievement
  <2>2. PICK e : e = [action |-> "revoke", from |-> award.rank, to |-> 0,
                      metric |-> Awards!NoMetric, value |-> 0, key |-> key]
    OBVIOUS
  <2>3. /\ Explained(Awards!Revoked, Append(journal, e), receipts \cup {key})
        /\ Awards!Revoked.rank = 0 /\ e \in Entry /\ e.metric = Awards!NoMetric /\ e.key = key
    BY <1>1, <1>2, <2>1, <2>2, RevokeExplained
  <2>4. award' = Awards!Revoked /\ journal' = Append(journal, e)
    BY <1>6, <2>2
  <2>5. Explained(award', journal', receipts')
    BY <1>6, <2>3, <2>4
  <2>6. Explained(award, journal, receipts)'
    BY <2>5 DEF Explained, Awards!UserAchievement, Entry, Keys, Named, Awards!IsProof, Before,
                ProofAt, Awards!AchievementEvent
  <2>7. Awards!NoStaleAward'
    BY <2>3, <2>4 DEF Awards!NoStaleAward, Awards!MetricProblem
  <2>8. journal \in Seq(Entry)
    BY DEF Explained
  <2>9. ASSUME NEW i \in DOMAIN journal' \ DOMAIN journal PROVE journal'[i] = e
    BY <2>3, <2>4, <2>8, <2>9
  <2>10. Awards!GrantIsFresh /\ Awards!OperationIsNew
    BY <1>6, <2>3, <2>9 DEF Awards!GrantIsFresh, Awards!OperationIsNew
  <2> QED
    BY <1>3, <2>6, <2>7, <2>10
<1> QED
  BY <1>1, <1>4, <1>5, <1>6 DEF Awards!ManualRevoke, Awards!grantVars

LEMMA AwardsStep ==
  AwardsInv /\ [Awards!Next]_(Awards!vars) => AwardsInv' /\ Awards!GrantIsFresh /\ Awards!OperationIsNew
<1> SUFFICES ASSUME AwardsInv, [Awards!Next]_(Awards!vars)
             PROVE  AwardsInv' /\ Awards!GrantIsFresh /\ Awards!OperationIsNew
  OBVIOUS
<1>1. CASE UNCHANGED Awards!vars
  <2>1. UNCHANGED <<Awards!metricVars, job, user_lock, journey_lock>> /\ UNCHANGED Awards!grantVars
    BY <1>1 DEF Awards!vars
  <2>2. AwardTypes' /\ JourneyHeld' /\ percent' = percent /\ source' = source
    BY <2>1, StaffLeaves
  <2>3. SourcesStay
    BY <2>2 DEF SourcesStay
  <2> QED
    BY <2>1, <2>2, <2>3, GrantsUntouched, StaleKept DEF AwardsInv
<1> QED
  BY <1>1, LockJourneyKeeps, PublishKeeps, WeekEndsKeeps, LockUserKeeps,
     EvaluateKeeps, EvaluationKeeps, FailureKeeps, ManualGrantKeeps, ManualRevokeKeeps
  DEF Awards!Next

LEMMA AwardsInit == Awards!Limits /\ Awards!Init => AwardsInv
<1> SUFFICES ASSUME Awards!Limits, Awards!Init PROVE AwardsInv
  OBVIOUS
<1>1. Awards!Idle \in Work /\ Awards!Idle.stage = "idle" /\ Awards!Idle.event = 0
  BY DEF Awards!Idle, Work, Named
<1>2. source = <<>> /\ journal = <<>> /\ receipts = {} /\ writing = <<>>
      /\ job = [p \in Procs |-> Awards!Idle]
  BY DEF Awards!Init
<1>3. AwardTypes
  BY <1>1, <1>2 DEF Awards!Init, AwardTypes
<1>4. JourneyHeld
  BY <1>1, <1>2 DEF JourneyHeld
<1>5. award \in Awards!UserAchievement /\ award.revision = 0 /\ award.rank = 0
  BY DEF Awards!Init, Awards!UserAchievement
<1>6. Explained(award, journal, receipts)
  BY <1>2, <1>5 DEF Explained, Before
<1>7. Awards!NoStaleAward
  BY <1>5 DEF Awards!NoStaleAward, Awards!MetricProblem
<1> QED
  BY <1>3, <1>4, <1>6, <1>7 DEF AwardsInv


\* What the journal, the receipts and the sources say.
LEMMA AwardsSound ==
  AwardsInv => Awards!RecordsTrue
<1> SUFFICES ASSUME AwardsInv
             PROVE  Awards!TypeOK /\ Awards!JournalExplains /\ Awards!NoAutomaticRegrant
  BY DEF AwardsInv, Awards!RecordsTrue
<1>1. Explained(award, journal, receipts) /\ journal \in Seq(Entry)
  BY DEF AwardsInv, Explained
<1>2. Awards!NoAutomaticRegrant
  BY <1>1 DEF Awards!NoAutomaticRegrant, Explained
<1>3. \A i \in DOMAIN journal :
        /\ journal[i].from = IF i = 1 THEN 0 ELSE journal[i - 1].to
        /\ Awards!IsProof(journal[i]) => journal[i].to > journal[i].from
  BY <1>1 DEF Explained, Before
<1>4. award.rank = IF journal = <<>> THEN 0 ELSE Awards!Last(journal).to
  <2>1. award.rank = Before(journal, Len(journal) + 1) /\ Len(journal) \in Nat
    BY <1>1 DEF Explained
  <2>2. CASE journal = <<>>
    BY <2>1, <2>2 DEF Before
  <2>3. CASE journal # <<>>
    <3>1. Len(journal) # 0
      BY <1>1, <2>3
    <3> QED
      BY <2>1, <2>3, <3>1 DEF Before, Awards!Last
  <2> QED
    BY <2>2, <2>3
<1>5. Awards!Range(source) \subseteq Awards!AchievementSourceEvent
  BY DEF AwardsInv, AwardTypes, Awards!Range
<1>6. Awards!AchievementOperation
  BY <1>1 DEF Explained, Awards!AchievementOperation, Awards!Range
<1>7. /\ award \in Awards!UserAchievement /\ award.revision = Len(journal)
      /\ \A i \in DOMAIN journal : Awards!AchievementEvent(journal[i])
  BY <1>1 DEF Explained
<1>8. Awards!TypeOK
  BY <1>5, <1>6, <1>7 DEF Awards!TypeOK, AwardsInv, AwardTypes
<1> QED
  BY <1>2, <1>3, <1>4, <1>8 DEF Awards!JournalExplains

\* An award is what its append-only journal makes of it, nothing automatic
\* grants again what staff revoked, and a superseded metric cannot hide behind
\* an award: grant, revoke and flag_disputed, for any metrics and processes.
THEOREM AwardsTrue ==
  ASSUME Awards!Limits PROVE Awards!Spec => []Awards!RecordsTrue
<1> QED
  BY AwardsInit, AwardsStep, AwardsSound, PTL DEF Awards!Spec

\* An automatic grant rests on the metric as it is when the grant commits, and
\* an operation writes the journal at most once, whatever is retried.
THEOREM GrantsFresh == ASSUME Awards!Limits PROVE Awards!Spec => Awards!GrantsJustified
<1> QED
  BY AwardsInit, AwardsStep, PTL DEF Awards!Spec, Awards!GrantsJustified

-----------------------------------------------------------------------------
(* Their notifications: any tabs and events.                               *)

\* What a tab is at.
Tab == [stage : {"idle", "picked", "claimed", "shown"}, event : Events \cup {0}]

\* Only a row whose lease never ran out is bound to the tab that claimed it,
\* and an unread one is leased as long as it is.
HeldByOne ==
  \A e \in Events \ expired :
    /\ shown[e] \subseteq {claim_token[e]}
    /\ delivery[e] = "unread" /\ claim_token[e] # Notices!NoTab => e \in leased
    /\ delivery[e] = "none" => claim_token[e] = Notices!NoTab
    /\ \A t \in Tabs :
         tab[t].event = e /\ tab[t].stage \in {"claimed", "shown"}
           => claim_token[e] = t

\* What a tab works on.
Working ==
  \A t \in Tabs :
    /\ tab[t].stage # "idle" => tab[t].event \in Events
    /\ tab[t].stage = "shown" => t \in shown[tab[t].event]

GrantedRows == \A e \in Events : delivery[e] # "none" => e \in granted

NoticesInv == Notices!TypeOK /\ HeldByOne /\ Working /\ GrantedRows /\ Notices!ReadWasShown

LEMMA GrantEventKeeps ==
  ASSUME NoticesInv, NEW e \in Events, NEW enqueued \in BOOLEAN,
         Notices!GrantEvent(e, enqueued)
  PROVE  NoticesInv'
<1> USE DEF NoticesInv
<1>1. delivery[e] = "none" /\ e \notin leased
  BY DEF Notices!GrantEvent, GrantedRows, Notices!TypeOK
<1>2. PICK d : d = (IF enqueued THEN "unread" ELSE "none")
  OBVIOUS
<1>3. /\ granted' = granted \cup {e} /\ delivery' = [delivery EXCEPT ![e] = d]
      /\ d \in {"unread", "none"}
      /\ UNCHANGED <<revoked, claim_token, leased, tab, shown, expired>>
  BY <1>2 DEF Notices!GrantEvent
<1>4. Notices!TypeOK'
  BY <1>1, <1>3 DEF Notices!TypeOK, Notices!AchievementNotification
<1>5. HeldByOne'
  BY <1>1, <1>3 DEF HeldByOne, Notices!TypeOK, Notices!AchievementNotification
<1>6. Working' /\ GrantedRows' /\ Notices!ReadWasShown'
  BY <1>1, <1>3 DEF Working, GrantedRows, Notices!ReadWasShown, Notices!TypeOK, Notices!AchievementNotification
<1> QED
  BY <1>4, <1>5, <1>6

LEMMA RevokeKeeps ==
  ASSUME NoticesInv, NEW e \in Events, Notices!RevokeAward(e)
  PROVE  NoticesInv'
<1> QED
  BY DEF NoticesInv, Notices!RevokeAward, Notices!TypeOK, Notices!AchievementNotification, HeldByOne,
         Working, GrantedRows, Notices!ReadWasShown

LEMMA RepairKeeps ==
  ASSUME NoticesInv, Notices!RepairDelivery
  PROVE  NoticesInv'
<1> USE DEF NoticesInv
<1>1. /\ \A e \in Events : delivery'[e] = IF e \in Notices!Missing THEN "unread" ELSE delivery[e]
      /\ delivery' \in Notices!AchievementNotification
      /\ UNCHANGED <<granted, revoked, claim_token, leased, tab, shown, expired>>
  BY DEF Notices!RepairDelivery, Notices!TypeOK, Notices!AchievementNotification
<1>2. Notices!Missing \subseteq granted /\ \A e \in Notices!Missing : delivery[e] = "none"
  BY DEF Notices!Missing
<1>3. Notices!TypeOK'
  BY <1>1, <1>2 DEF Notices!TypeOK
<1>4. HeldByOne'
  BY <1>1, <1>2 DEF HeldByOne
<1>5. Working' /\ GrantedRows' /\ Notices!ReadWasShown'
  BY <1>1, <1>2 DEF Working, GrantedRows, Notices!ReadWasShown
<1> QED
  BY <1>3, <1>4, <1>5

LEMMA LeaseEndsKeeps ==
  ASSUME NoticesInv, NEW e \in Events, Notices!LeaseEnds(e)
  PROVE  NoticesInv'
<1> QED
  BY DEF NoticesInv, Notices!LeaseEnds, Notices!TypeOK, HeldByOne, Working, GrantedRows, Notices!ReadWasShown

\* A tab picks, shows or is closed.
LEMMA TabMoves ==
  ASSUME NoticesInv, NEW t \in Tabs, NEW x \in Tab,
         tab' = [tab EXCEPT ![t] = x],
         x.stage # "idle" => x.event \in Events,
         x.stage \in {"claimed", "shown"} =>
           tab[t].stage \in {"claimed", "shown"} /\ tab[t].event = x.event,
         UNCHANGED <<granted, delivery, revoked, claim_token, leased, expired>>,
         \/ shown' = shown /\ x.stage # "shown"
         \/ x.stage = "shown" /\ shown' = [shown EXCEPT ![x.event] = @ \cup {t}]
  PROVE  NoticesInv'
<1> USE DEF NoticesInv
<1>1. tab' \in [Tabs -> Tab] /\ tab'[t] = x /\ \A q \in Tabs \ {t} : tab'[q] = tab[q]
  BY DEF Notices!TypeOK, Tab
<1>2. /\ shown' \in [Events -> SUBSET Tabs]
      /\ \A e \in Events : /\ shown[e] \subseteq shown'[e]
                           /\ shown'[e] \subseteq shown[e] \cup {t}
                           /\ shown'[e] # shown[e] => x.stage = "shown" /\ x.event = e
      /\ x.stage = "shown" => t \in shown'[x.event]
  BY DEF Notices!TypeOK, Tab
<1>3. Notices!TypeOK'
  BY <1>1, <1>2 DEF Notices!TypeOK, Tab
<1>4. HeldByOne'
  <2> SUFFICES ASSUME NEW e \in Events \ expired
               PROVE  /\ shown'[e] \subseteq {claim_token[e]}
                      /\ \A q \in Tabs :
                           tab'[q].event = e /\ tab'[q].stage \in {"claimed", "shown"}
                             => claim_token[e] = q
    BY DEF HeldByOne
  <2>1. x.event = e /\ x.stage \in {"claimed", "shown"} => claim_token[e] = t
    BY DEF HeldByOne
  <2>2. shown'[e] \subseteq {claim_token[e]}
    BY <1>2, <2>1 DEF HeldByOne
  <2> QED
    BY <1>1, <2>1, <2>2 DEF HeldByOne
<1>5. Working'
  BY <1>1, <1>2 DEF Working
<1>6. GrantedRows' /\ Notices!ReadWasShown'
  BY <1>2 DEF GrantedRows, Notices!ReadWasShown
<1> QED
  BY <1>3, <1>4, <1>5, <1>6

\* A claim is granted; its answer reaches the tab or not.
LEMMA ClaimGranted ==
  ASSUME NoticesInv, NEW t \in Tabs, NEW x \in Tab, NEW e \in Events,
         tab[t].stage = "picked", tab[t].event = e, Notices!Claimable(t, e),
         tab' = [tab EXCEPT ![t] = x],
         x.stage \in {"idle", "claimed"}, x.stage = "claimed" => x.event = e,
         claim_token' = [claim_token EXCEPT ![e] = t], leased' = leased \cup {e},
         UNCHANGED <<granted, delivery, revoked, shown, expired>>
  PROVE  NoticesInv'
<1> USE DEF NoticesInv
<1>1. tab' \in [Tabs -> Tab] /\ tab'[t] = x /\ \A q \in Tabs \ {t} : tab'[q] = tab[q]
  BY DEF Notices!TypeOK, Tab
<1>2. claim_token' \in [Events -> Tabs \cup {Notices!NoTab}] /\ claim_token'[e] = t
      /\ \A i \in Events \ {e} : claim_token'[i] = claim_token[i]
  BY DEF Notices!TypeOK
<1>3. delivery[e] = "unread" /\ (claim_token[e] = t \/ e \notin leased)
  BY DEF Notices!Claimable
<1>4. Notices!TypeOK'
  BY <1>1, <1>2, <1>3 DEF Notices!TypeOK, Tab
<1>5. e \notin expired => claim_token[e] = t \/ claim_token[e] = Notices!NoTab
  BY <1>3 DEF HeldByOne
<1>6. e \notin expired => shown[e] \subseteq {t} /\ \A q \in Tabs :
         tab[q].event = e /\ tab[q].stage \in {"claimed", "shown"} => q = t
  <2>1. shown[e] \subseteq Tabs /\ Notices!NoTab \notin Tabs
    BY DEF Notices!TypeOK
  <2> QED
    BY <1>5, <2>1 DEF HeldByOne
<1>7. HeldByOne'
  <2> SUFFICES ASSUME NEW i \in Events \ expired
               PROVE  /\ shown[i] \subseteq {claim_token'[i]}
                      /\ delivery[i] = "unread" /\ claim_token'[i] # Notices!NoTab => i \in leased'
                      /\ delivery[i] = "none" => claim_token'[i] = Notices!NoTab
                      /\ \A q \in Tabs :
                           tab'[q].event = i /\ tab'[q].stage \in {"claimed", "shown"}
                             => claim_token'[i] = q
    BY DEF HeldByOne
  <2>1. CASE i = e
    <3>1. \A q \in Tabs :
             tab'[q].event = e /\ tab'[q].stage \in {"claimed", "shown"} => q = t
      BY <1>1, <1>6, <2>1
    <3> QED
      BY <1>2, <1>3, <1>6, <2>1, <3>1
  <2>2. CASE i # e
    <3>1. \A q \in Tabs :
            tab'[q].event = i /\ tab'[q].stage \in {"claimed", "shown"}
              => tab[q].event = i /\ tab[q].stage \in {"claimed", "shown"}
      BY <1>1, <2>2
    <3> QED
      BY <1>2, <2>2, <3>1 DEF HeldByOne
  <2> QED
    BY <2>1, <2>2
<1>8. Working'
  BY <1>1 DEF Working
<1>9. GrantedRows' /\ Notices!ReadWasShown'
  BY <1>2, <1>3 DEF GrantedRows, Notices!ReadWasShown
<1> QED
  BY <1>4, <1>7, <1>8, <1>9

LEMMA AcknowledgeKeeps ==
  ASSUME NoticesInv, NEW t \in Tabs, Notices!Acknowledge(t)
  PROVE  NoticesInv'
<1> USE DEF NoticesInv
<1>1. PICK e : e = tab[t].event
  OBVIOUS
<1>2. PICK x : x = Notices!Closed
  OBVIOUS
<1>3. x \in Tab /\ x.stage = "idle"
  BY <1>2 DEF Tab, Notices!Closed
<1>4. /\ tab' = [tab EXCEPT ![t] = x] /\ tab[t].stage = "shown"
      /\ UNCHANGED <<granted, revoked, claim_token, shown, expired>>
  BY <1>2 DEF Notices!Acknowledge
<1>5. e \in Events /\ t \in shown[e]
  BY <1>1, <1>4 DEF Working
<1>6. CASE ~Notices!Accepts(t, e)
  <2>1. delivery' = delivery /\ leased' = leased
    BY <1>1, <1>6 DEF Notices!Acknowledge
  <2> QED
    BY <1>3, <1>4, <2>1, TabMoves
<1>7. CASE Notices!Accepts(t, e)
  <2>1. delivery' = [delivery EXCEPT ![e] = "read"] /\ leased' = leased \ {e}
    BY <1>1, <1>7 DEF Notices!Acknowledge
  <2>2. /\ delivery' \in Notices!AchievementNotification /\ delivery'[e] = "read"
        /\ \A i \in Events \ {e} : delivery'[i] = delivery[i]
    BY <1>5, <2>1 DEF Notices!TypeOK, Notices!AchievementNotification
  <2>3. delivery[e] = "unread" /\ claim_token[e] = t
    BY <1>7 DEF Notices!Accepts
  <2>4. tab' \in [Tabs -> Tab] /\ tab'[t] = x /\ \A q \in Tabs \ {t} : tab'[q] = tab[q]
    BY <1>3, <1>4 DEF Notices!TypeOK, Tab
  <2>5. Notices!TypeOK'
    BY <1>4, <2>1, <2>2, <2>4 DEF Notices!TypeOK, Tab
  <2>6. HeldByOne'
    BY <1>3, <1>4, <2>1, <2>2, <2>4 DEF HeldByOne
  <2>7. Working'
    BY <1>3, <1>4, <2>4 DEF Working
  <2>8. GrantedRows'
    BY <1>4, <2>2, <2>3 DEF GrantedRows
  <2>9. Notices!ReadWasShown'
    BY <1>4, <1>5, <2>2, <2>3 DEF Notices!ReadWasShown
  <2> QED
    BY <2>5, <2>6, <2>7, <2>8, <2>9
<1> QED
  BY <1>6, <1>7

LEMMA TabKeeps ==
  ASSUME NoticesInv, NEW t \in Tabs,
         (\E e \in Events : Notices!Poll(t, e)) \/ Notices!Claim(t) \/ Notices!Show(t) \/ Notices!LoseAnswer(t)
  PROVE  NoticesInv'
<1> USE DEF NoticesInv
<1>0. tab \in [Tabs -> Tab] /\ Notices!Closed \in Tab /\ Notices!Closed.stage = "idle"
  BY DEF Notices!TypeOK, Tab, Notices!Closed
<1>1. ASSUME NEW e \in Events, Notices!Poll(t, e) PROVE NoticesInv'
  <2>1. PICK x : x = [stage |-> "picked", event |-> e]
    OBVIOUS
  <2>2. x \in Tab /\ x.stage = "picked" /\ x.event = e /\ tab' = [tab EXCEPT ![t] = x]
    BY <1>1, <2>1 DEF Notices!Poll, Tab
  <2>3. UNCHANGED <<granted, delivery, revoked, claim_token, leased, shown, expired>>
    BY <1>1 DEF Notices!Poll
  <2> QED
    BY <2>2, <2>3, TabMoves
<1>2. ASSUME Notices!Claim(t) PROVE NoticesInv'
  <2>1. PICK e : e = tab[t].event
    OBVIOUS
  <2>2. e \in Events /\ tab[t].stage = "picked"
        /\ UNCHANGED <<granted, delivery, revoked, shown, expired>>
    BY <1>2, <2>1 DEF Notices!Claim, Working
  <2>3. CASE Notices!Claimable(t, e)
    <3>1. PICK x : x = [tab[t] EXCEPT !.stage = "claimed"]
      OBVIOUS
    <3>2. x \in Tab /\ x.stage = "claimed" /\ x.event = e
      BY <1>0, <2>1, <3>1 DEF Tab
    <3>3. tab' = [tab EXCEPT ![t] = x] /\ claim_token' = [claim_token EXCEPT ![e] = t]
          /\ leased' = leased \cup {e}
      BY <1>0, <1>2, <2>1, <2>3, <3>1 DEF Notices!Claim
    <3> QED
      BY <2>1, <2>2, <2>3, <3>2, <3>3, ClaimGranted
  <2>4. CASE ~Notices!Claimable(t, e)
    <3>1. PICK x : x = Notices!Closed
      OBVIOUS
    <3>2. tab' = [tab EXCEPT ![t] = x] /\ UNCHANGED <<claim_token, leased>>
      BY <1>2, <2>1, <2>4, <3>1 DEF Notices!Claim
    <3> QED
      BY <1>0, <2>2, <3>1, <3>2, TabMoves
  <2> QED
    BY <2>3, <2>4
<1>3. ASSUME Notices!Show(t) PROVE NoticesInv'
  <2>1. PICK e : e = tab[t].event
    OBVIOUS
  <2>2. PICK x : x = [tab[t] EXCEPT !.stage = "shown"]
    OBVIOUS
  <2>3. x \in Tab /\ x.stage = "shown" /\ x.event = e /\ tab' = [tab EXCEPT ![t] = x]
    BY <1>0, <1>3, <2>1, <2>2 DEF Notices!Show, Tab
  <2>4. tab[t].stage = "claimed" /\ e \in Events
        /\ shown' = [shown EXCEPT ![e] = @ \cup {t}]
        /\ UNCHANGED <<granted, delivery, revoked, claim_token, leased, expired>>
    BY <1>3, <2>1 DEF Notices!Show, Working
  <2> QED
    BY <2>1, <2>3, <2>4, TabMoves
<1>4. ASSUME Notices!LoseAnswer(t) PROVE NoticesInv'
  <2>1. PICK e : e = tab[t].event
    OBVIOUS
  <2>2. PICK x : x = Notices!Closed
    OBVIOUS
  <2>3. tab' = [tab EXCEPT ![t] = x] /\ tab[t].stage # "idle" /\ e \in Events
        /\ UNCHANGED <<granted, delivery, revoked, shown, expired>>
    BY <1>4, <2>1, <2>2 DEF Notices!LoseAnswer, Working
  <2>4. CASE UNCHANGED <<claim_token, leased>>
    BY <1>0, <2>2, <2>3, <2>4, TabMoves
  <2>5. CASE /\ tab[t].stage = "picked" /\ Notices!Claimable(t, e)
             /\ claim_token' = [claim_token EXCEPT ![e] = t]
             /\ leased' = leased \cup {e}
    BY <1>0, <2>1, <2>2, <2>3, <2>5, ClaimGranted
  <2> QED
    BY <1>4, <2>1, <2>4, <2>5 DEF Notices!LoseAnswer
<1> QED
  BY <1>1, <1>2, <1>3, <1>4

\* It holds before the first notification.
LEMMA NoticesStart ==
  Notices!NoTab \notin Tabs /\ Notices!Init => NoticesInv
BY DEF Notices!Init, NoticesInv, Notices!TypeOK, Notices!AchievementNotification, Notices!Closed, HeldByOne,
       Working, GrantedRows, Notices!ReadWasShown

\* Grants, tabs, leases and the worker keep it.
LEMMA NoticesStep ==
  NoticesInv /\ [Notices!Next]_(Notices!vars) => NoticesInv'
<1> SUFFICES ASSUME NoticesInv, [Notices!Next]_(Notices!vars) PROVE NoticesInv'
  OBVIOUS
<1>1. CASE UNCHANGED Notices!vars
  BY <1>1 DEF Notices!vars, NoticesInv, Notices!TypeOK, Notices!AchievementNotification, HeldByOne,
       Working, GrantedRows, Notices!ReadWasShown
<1> QED
  BY <1>1, GrantEventKeeps, RevokeKeeps, LeaseEndsKeeps, RepairKeeps, TabKeeps,
     AcknowledgeKeeps DEF Notices!Next, Notices!TabStep

\* Two tabs that showed one notification did so after a lease ran out.
LEMMA NoticesSound ==
  NoticesInv => Notices!RecordsTrue
<1>0. \A S : Notices!Cardinality(S) = Cardinality(S)
  BY DEF Cardinality, Notices!Cardinality
<1> SUFFICES ASSUME NoticesInv, NEW e \in Events, Cardinality(shown[e]) > 1
             PROVE  e \in expired
  BY <1>0 DEF Notices!RecordsTrue, NoticesInv, Notices!ShownTwiceAfterExpiry
<1>1. SUFFICES ASSUME e \notin expired PROVE FALSE
  OBVIOUS
<1>2. shown[e] \subseteq {claim_token[e]}
  BY <1>1 DEF NoticesInv, HeldByOne
<1>3. IsFiniteSet({claim_token[e]}) /\ Cardinality({claim_token[e]}) = 1
  BY FS_Singleton
<1>4. Cardinality(shown[e]) \in Nat /\ Cardinality(shown[e]) <= 1
  BY <1>2, <1>3, FS_Subset, FS_CardinalityType
<1> QED
  BY <1>4

\* Two tabs show one notification only after the first one's lease ran out, and
\* a read one was shown by the tab it names: claim and acknowledge, for any tabs
\* and any events.
THEOREM NoticesTrue ==
  ASSUME Notices!NoTab \notin Tabs
  PROVE  Notices!Spec => []Notices!RecordsTrue
<1> QED
  BY NoticesStart, NoticesStep, NoticesSound, PTL DEF Notices!Spec

-----------------------------------------------------------------------------
(* The models as they are checked together.                                *)

\* What holds of the model that a behaviour of the suite is one of.
AwardsPart == part \in {"grants", "sources"} => AwardsInv
NoticesPart == part = "notices" => NoticesInv
CataloguePart == part \in {"runs", "edits"} => CatalogueInv

LEMMA AwardsPartMoves ==
  ASSUME part \in {"grants", "sources"}, [SuiteNext]_suiteVars
  PROVE  [Awards!Next]_(Awards!vars)
BY DEF SuiteNext, suiteVars, grantVars, AwardsNext, Awards!vars, Awards!metricVars,
       Awards!grantVars

LEMMA AwardsPartKept == ASSUME Awards!Limits PROVE SuiteSpec => []AwardsPart
<1>1. SuiteInit => AwardsPart
  BY AwardsInit DEF SuiteInit, AwardsPart
<1>2. AwardsPart /\ [SuiteNext]_suiteVars => AwardsPart'
  <2> SUFFICES ASSUME AwardsPart, [SuiteNext]_suiteVars, part' \in {"grants", "sources"}
               PROVE  AwardsInv'
    BY DEF AwardsPart
  <2>1. part \in {"grants", "sources"} /\ AwardsInv
    BY DEF SuiteNext, suiteVars, AwardsPart
  <2> QED
    BY <2>1, AwardsPartMoves, AwardsStep
<1> QED
  BY <1>1, <1>2, PTL DEF SuiteSpec

LEMMA NoticesPartKept ==
  ASSUME Notices!NoTab \notin Tabs PROVE SuiteSpec => []NoticesPart
<1>1. SuiteInit => NoticesPart
  BY NoticesStart DEF SuiteInit, NoticesPart
<1>2. NoticesPart /\ [SuiteNext]_suiteVars => NoticesPart'
  <2> SUFFICES ASSUME NoticesPart, [SuiteNext]_suiteVars, part' = "notices"
               PROVE  NoticesInv'
    BY DEF NoticesPart
  <2>1. part = "notices" /\ NoticesInv
    BY DEF SuiteNext, suiteVars, NoticesPart
  <2>2. [Notices!Next]_(Notices!vars)
    BY <2>1 DEF SuiteNext, suiteVars, noticeVars, Notices!vars
  <2> QED
    BY <2>1, <2>2, NoticesStep
<1> QED
  BY <1>1, <1>2, PTL DEF SuiteSpec

\* The rows are what their history makes of them: the awards with their
\* journal, the notifications with the tabs that showed them.
THEOREM SuiteRecordsTrue ==
  ASSUME Awards!Limits, Notices!NoTab \notin Tabs PROVE SuiteSpec => []RecordsTrue
<1>1. AwardsPart /\ NoticesPart => RecordsTrue
  BY AwardsSound, NoticesSound DEF AwardsPart, NoticesPart, RecordsTrue
<1> QED
  BY <1>1, AwardsPartKept, NoticesPartKept, PTL

\* Automatic grants are fresh, and no operation writes the journal twice.
THEOREM SuiteGrantsJustified == ASSUME Awards!Limits PROVE SuiteSpec => GrantsJustified
<1>1. AwardsPart /\ [SuiteNext]_suiteVars
      => [(part \in {"grants", "sources"})
            => Awards!GrantIsFresh /\ Awards!OperationIsNew]_suiteVars
  BY AwardsPartMoves, AwardsStep DEF AwardsPart
<1> QED
  BY <1>1, AwardsPartKept, PTL DEF SuiteSpec, GrantsJustified

\* Strict runs of sync_tasks leave the catalogue as the directories are, and
\* what nothing contests succeeds, runs side by side and authors at work.
THEOREM SuiteCatalogueSynced == ASSUME Sync!Limits PROVE SuiteSpec => []SyncedCatalogue
<1>1. SuiteInit => CataloguePart
  BY CatalogueStart DEF SuiteInit, CataloguePart
<1>2. CataloguePart /\ [SuiteNext]_suiteVars => CataloguePart'
  <2> SUFFICES ASSUME CataloguePart, [SuiteNext]_suiteVars, part' \in {"runs", "edits"}
               PROVE  CatalogueInv'
    BY DEF CataloguePart
  <2>1. part \in {"runs", "edits"} /\ CatalogueInv
    BY DEF SuiteNext, suiteVars, CataloguePart
  <2>2. [Sync!Next]_(Sync!vars)
    BY <2>1 DEF SuiteNext, suiteVars, syncVars, SyncNext, Sync!vars
  <2> QED
    BY <2>1, <2>2, CatalogueStep
<1>3. CataloguePart => SyncedCatalogue
  BY CatalogueSound DEF CataloguePart, SyncedCatalogue, CatalogueInv
<1> QED
  BY <1>1, <1>2, <1>3, PTL DEF SuiteSpec
=============================================================================
