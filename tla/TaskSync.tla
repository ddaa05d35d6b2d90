------------------------------- MODULE TaskSync -------------------------------
(***************************************************************************)
(* sync_training_tasks: the task directories of one queue are copied into  *)
(* Task rows, from the command line or from the admin page, with or        *)
(* without --dry-run and --strict, while authors change the directories    *)
(* and an administrator edits the rows.  Two runs may overlap.             *)
(*                                                                         *)
(* The command has no transaction of its own: each update_or_create        *)
(* commits, and whatever stops a run leaves the rows saved before.  A      *)
(* directory is its place in the sorted listing; of the metadata only the  *)
(* order is kept, which stands for them all.                               *)
(***************************************************************************)
EXTENDS Naturals, FiniteSets

CONSTANTS
  Runs,
  Dirs,        \* number of directories that may exist
  MaxOrder,    \* bound on the order of a task
  MaxChanges   \* bound on the changes by authors and administrators

Slugs == 1..Dirs
Orders == 1..MaxOrder
NoOrder == 0   \* task.json does not set it

\* absent: no directory; bare: no Dockerfile, check.sh or queue; broken: the
\* metadata are rejected.
Directories ==
  [kind : {"ok"}, order : Orders \union {NoOrder}]
    \union [kind : {"absent", "bare", "broken"}, order : {NoOrder}]

VARIABLES
  files,    \* training_tasks/<queue>/<slug>
  tasks,    \* Task rows of the queue by slug: their order
  run,      \* the runs of the command, with what they count and return
  clean,    \* a strict dry run has just found nothing to report
  changes

vars == <<files, tasks, run, clean, changes>>

NotRun == [pc |-> "idle", dry |-> FALSE, strict |-> FALSE, s |-> 0,
           dirs |-> {}, want |-> NoOrder, skipped |-> FALSE, quiet |-> FALSE, free |-> FALSE,
           promised |-> FALSE]

Unique(t) == \A s, u \in DOMAIN t : t[s] = t[u] => s = u

Init ==
  /\ files \in [Slugs -> Directories]
  /\ \E known \in SUBSET Slugs :
       /\ tasks \in [known -> Orders]
       /\ Unique(tasks)
  /\ run = [r \in Runs |-> NotRun]
  /\ clean = FALSE
  /\ changes = 0

----------------------------------------------------------------------------
(* What a run makes of a directory.                                        *)

Present(s) == files[s].kind # "absent"
Listed == {s \in Slugs : Present(s)}

\* dirs is the listing, taken once at the start of the run.
default_order(s, dirs) == Cardinality({u \in dirs : u <= s})

WantedMutant(s, dirs) == default_order(s, dirs)
Wanted(s, dirs) == IF files[s].order = NoOrder THEN default_order(s, dirs)
                   ELSE files[s].order

\* The row may be saved as far as the unique order of the queue goes.
Fits(s, order) == \A u \in DOMAIN tasks : tasks[u] = order => u = s

----------------------------------------------------------------------------

\* No row and no other directory claims an order that is wanted here.
Uncontested ==
  /\ \A s \in Slugs : files[s].kind \in {"ok", "absent"}
  /\ \A s \in Slugs : Present(s) =>
       \A u \in Slugs \ {s} :
         /\ Present(u) => Wanted(u, Listed) # Wanted(s, Listed)
         /\ u \in DOMAIN tasks => tasks[u] # Wanted(s, Listed)

Ended == {"idle", "done", "failed", "crashed"}

\* quiet: neither a change nor a run with values from before a change comes
\* between.
Start(r, dry, strict) ==
  /\ run[r].pc = "idle"
  /\ run' = [run EXCEPT ![r] =
       [NotRun EXCEPT !.pc = "visit", !.dry = dry, !.strict = strict, !.s = 1,
                      !.dirs = Listed,
                      !.quiet = \A q \in Runs : run[q].pc \notin Ended
                                                 => run[q].quiet,
                      !.free = Uncontested, !.promised = clean]]
  /\ UNCHANGED <<files, tasks, clean, changes>>

Continue(r, s) ==
  run' = [run EXCEPT ![r].s = s + 1, ![r].pc = "visit",
                     ![r].want = NoOrder]

\* A directory is skipped and counted, stops the run, is only reported, or is
\* handed to update_or_create.
Visit(r) ==
  LET s == run[r].s
  IN /\ run[r].pc = "visit" /\ s \in Slugs
     /\ \/ /\ s \notin run[r].dirs
           /\ Continue(r, s)
        \/ /\ s \in run[r].dirs
           /\ files[s].kind \in {"absent", "bare"}
           /\ run' = [run EXCEPT ![r].s = s + 1, ![r].skipped = TRUE]
        \/ /\ s \in run[r].dirs
           /\ files[s].kind = "broken"
           /\ run' = [run EXCEPT ![r].pc = "failed"]
        \/ /\ s \in run[r].dirs
           /\ files[s].kind = "ok"
           /\ IF run[r].dry THEN Continue(r, s)
              ELSE run' = [run EXCEPT ![r].pc = "save",
                                      ![r].want = Wanted(s, run[r].dirs)]
     /\ UNCHANGED <<files, tasks, clean, changes>>

Put(r, s) ==
  IF Fits(s, run[r].want)
  THEN /\ tasks' = [u \in DOMAIN tasks \cup {s} |->
                       IF u = s THEN run[r].want ELSE tasks[u]]
       /\ Continue(r, s)
  ELSE /\ run' = [run EXCEPT ![r].pc = "crashed"]
       /\ UNCHANGED tasks

\* update_or_create: an existing row is locked and saved; a missing one is
\* created later, and IntegrityError looks for the row of a concurrent run
\* before it is raised.
Save(r) ==
  LET s == run[r].s
  IN /\ run[r].pc = "save"
     /\ IF s \in DOMAIN tasks
        THEN Put(r, s)
        ELSE run' = [run EXCEPT ![r].pc = "create"] /\ UNCHANGED tasks
     /\ UNCHANGED <<files, clean, changes>>

CreateMutant(r) ==
  LET s == run[r].s
  IN /\ run[r].pc = "create"
     /\ IF s \in DOMAIN tasks
        THEN run' = [run EXCEPT ![r].pc = "crashed"] /\ UNCHANGED tasks
        ELSE Put(r, s)
     /\ UNCHANGED <<files, clean, changes>>
Create(r) ==
  LET s == run[r].s
  IN /\ run[r].pc = "create"
     /\ Put(r, s)
     /\ UNCHANGED <<files, clean, changes>>

Finish(r) ==
  /\ run[r].pc = "visit" /\ run[r].s > Dirs
  /\ LET failed == run[r].strict /\ run[r].skipped
     IN /\ run' = [run EXCEPT ![r].pc = IF failed THEN "failed" ELSE "done"]
        /\ clean' = (clean \/ (~failed /\ run[r].dry /\ run[r].strict
                               /\ run[r].quiet))
  /\ UNCHANGED <<files, tasks, changes>>

Forget(r) ==
  /\ run[r].pc \in Ended \ {"idle"}
  /\ run' = [run EXCEPT ![r] = NotRun]
  /\ UNCHANGED <<files, tasks, clean, changes>>

----------------------------------------------------------------------------
(* The others.                                                             *)

Disturb ==
  /\ changes < MaxChanges
  /\ changes' = changes + 1
  /\ clean' = FALSE
  /\ run' = [r \in Runs |-> [run[r] EXCEPT !.quiet = FALSE]]

ChangeFiles(s, d) ==
  /\ Disturb
  /\ files' = [files EXCEPT ![s] = d]
  /\ UNCHANGED tasks

\* The admin forms check the unique order themselves.
EditTask(s, order) ==
  /\ Disturb
  /\ s \in DOMAIN tasks
  /\ tasks' = [tasks EXCEPT ![s] = order]
  /\ Unique(tasks')
  /\ UNCHANGED files

Next ==
  \/ \E r \in Runs :
       \/ \E dry, strict \in BOOLEAN : Start(r, dry, strict)
       \/ Visit(r) \/ Save(r) \/ Create(r) \/ Finish(r) \/ Forget(r)
  \/ \E s \in Slugs, d \in Directories : ChangeFiles(s, d)
  \/ \E s \in Slugs, order \in Orders : EditTask(s, order)

Spec == Init /\ [][Next]_vars

----------------------------------------------------------------------------

Limits == {Dirs, MaxOrder, MaxChanges} \subseteq Nat
SyncRun ==
  [pc : {"idle", "visit", "save", "create", "done", "failed", "crashed"},
   dry : BOOLEAN, strict : BOOLEAN, s : Nat, dirs : SUBSET Slugs, want : Nat,
   skipped : BOOLEAN, quiet : BOOLEAN, free : BOOLEAN, promised : BOOLEAN]

\* A row is one of a directory, and a run that saves is at a directory.
TypeOK ==
  /\ Limits
  /\ files \in [Slugs -> Directories]
  /\ DOMAIN tasks \subseteq Slugs
  /\ run \in [Runs -> SyncRun]
  /\ \A r \in Runs : run[r].pc \in {"save", "create"} => run[r].s \in Slugs
  /\ clean \in BOOLEAN

\* A strict run that reports success, undisturbed by authors and
\* administrators, leaves every directory with its row and every row with
\* the metadata of its task.json, another run at the same time or not; what
\* the administrator had changed in the row is overwritten.
SyncedCatalogue ==
  \A r \in Runs :
    run[r].pc = "done" /\ run[r].quiet /\ run[r].strict /\ ~run[r].dry
      => \A s \in Slugs : files[s].kind # "absent" =>
           /\ s \in DOMAIN tasks
           /\ files[s].order # NoOrder => tasks[s] = files[s].order

\* An undisturbed run over complete directories whose orders nobody else
\* claims succeeds, also when another run creates the same rows.
UncontestedSucceeds ==
  \A r \in Runs :
    run[r].quiet /\ run[r].free => run[r].pc \notin {"failed", "crashed"}

\* What a strict dry run has found in order is applied without an error when
\* nothing has changed since.
DryRunPredicts ==
  \A r \in Runs :
    run[r].quiet /\ run[r].promised => run[r].pc \notin {"failed", "crashed"}
=============================================================================
