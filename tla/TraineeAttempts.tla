--------------------------- MODULE TraineeAttempts ---------------------------
(***************************************************************************)
(* The attempts of one trainee in one queue of tasks: how the dashboard    *)
(* finds, repairs or creates the current attempt of a task, how a finished *)
(* task is run again, which tasks are available, what the dashboard shows  *)
(* and when the mentors hear that everything is done.                      *)
(*                                                                         *)
(* Requests run under READ COMMITTED.  The dashboard commits statement by  *)
(* statement; rerun_task is one transaction whose reads precede the row    *)
(* lock of get_next_attempt_number.  A task is its order in the queue and  *)
(* needs no manual review; environments and checks are those of            *)
(* AttemptLifecycle, of which only the phase of an attempt is kept.        *)
(***************************************************************************)
EXTENDS Naturals, FiniteSets, FiniteSetsExt

CONSTANTS
  Requests,
  Queue,       \* number of tasks in the queue
  MaxNumber,   \* bound on attempt_number
  MaxDeletes,  \* bound on the deletions by an administrator
  MaxLost,     \* bound on the callbacks lost with their worker
  MaxToggles   \* bound on the tasks switched on or off

Tasks == 1..Queue
Numbers == 1..MaxNumber
\* new, started, being checked, check failed, check broke, check passed: the
\* technical evidence of an attempt exists from "passed" on.
Phases == {"new", "in_progress", "running", "failed", "error", "passed"}

VARIABLES
  rows,       \* TaskAttempt rows of each task by attempt_number
  req,        \* the requests under way
  locks,      \* holder of the row lock taken by get_next_attempt_number
  active,     \* Task.is_active
  callbacks,  \* notify_user_completed_all_tasks: tasks still to be read
  told,       \* messages to the mentors that everything is done
  past        \* deletions, lost callbacks and switched tasks so far

vars == <<rows, req, locks, active, callbacks, told, past>>

Idle == [pc |-> "idle", t |-> 0, n |-> 0]
At(pc, t, n) == [pc |-> pc, t |-> t, n |-> n]
NoRows == [n \in {} |-> 0]
New == [current |-> TRUE, phase |-> "new"]
\* The attempts of a task with a new one numbered n.
WithNew(attempts, n) ==
  [m \in DOMAIN attempts \cup {n} |-> IF m = n THEN New ELSE attempts[m]]

Init ==
  /\ rows = [t \in Tasks |-> NoRows]
  /\ req = [r \in Requests |-> Idle]
  /\ locks = {}
  /\ active = Tasks
  /\ callbacks = {}
  /\ told = "nothing"
  /\ past = [deletes |-> 0, lost |-> 0, toggles |-> 0]

----------------------------------------------------------------------------
(* What the requests read.                                                 *)

Passed(a) == a.phase = "passed"
Current(t) == {n \in DOMAIN rows[t] : rows[t][n].current}
Latest(t) == Max(DOMAIN rows[t])

DoneMutant(t) == \E n \in Current(t) : Passed(rows[t][n])
Done(t) == 1 \in DOMAIN rows[t] /\ Passed(rows[t][1])
Available(t) == t > 1 => Done(t - 1)

can_rerun(a) == a.current /\ Passed(a)

----------------------------------------------------------------------------
(* get_current_attempt, statement by statement.                            *)

OpenDashboard(r, t) ==
  /\ req[r].pc = "idle"
  /\ t \in active
  /\ IF Current(t) # {}
     THEN UNCHANGED req
     ELSE req' = [req EXCEPT ![r] = At("latest", t, 0)]
  /\ UNCHANGED <<rows, locks, active, callbacks, told, past>>

ReadLatest(r) ==
  /\ req[r].pc = "latest"
  /\ LET t == req[r].t
     IN req' = [req EXCEPT ![r] = IF DOMAIN rows[t] = {}
                                  THEN At("create", t, 1)
                                  ELSE At("repair", t, Latest(t))]
  /\ UNCHANGED <<rows, locks, active, callbacks, told, past>>

\* A repaired row that is gone, or a second current one, is an error page.
Repair(r) ==
  /\ req[r].pc = "repair"
  /\ LET t == req[r].t
         n == req[r].n
         saved == n \in DOMAIN rows[t] /\ Current(t) \subseteq {n}
     IN rows' = IF saved THEN [rows EXCEPT ![t][n].current = TRUE] ELSE rows
  /\ req' = [req EXCEPT ![r] = Idle]
  /\ UNCHANGED <<locks, active, callbacks, told, past>>

\* The IntegrityError of a lost race is answered by reading the current
\* attempt again; it changes nothing.
Create(r) ==
  /\ req[r].pc = "create"
  /\ LET t == req[r].t
     IN rows' = IF 1 \in DOMAIN rows[t] \/ Current(t) # {}
                THEN rows ELSE [rows EXCEPT ![t] = WithNew(@, 1)]
  /\ req' = [req EXCEPT ![r] = Idle]
  /\ UNCHANGED <<locks, active, callbacks, told, past>>

----------------------------------------------------------------------------
(* rerun_task: the tests, the lock and the number, then one commit.        *)

Rerun(r, t, n) ==
  /\ req[r].pc = "idle"
  /\ n \in DOMAIN rows[t]
  /\ can_rerun(rows[t][n])
  /\ Available(t)
  /\ req' = [req EXCEPT ![r] = At("number", t, 0)]
  /\ UNCHANGED <<rows, locks, active, callbacks, told, past>>

AfterMutant(seen) == IF seen = {} THEN 0 ELSE Max(seen) + 1
After(seen) == IF seen = {} THEN 1 ELSE Max(seen) + 1

\* SELECT ... FOR UPDATE ... LIMIT 1: a statement that finds the newest row
\* locked waits for that row and returns it even when a newer one has been
\* committed meanwhile; a row deleted meanwhile gives way to the next.
NextNumber(r) ==
  /\ req[r].pc \in {"number", "wait"}
  /\ LET t == req[r].t
         seen == IF req[r].pc = "number" THEN DOMAIN rows[t]
                 ELSE {m \in DOMAIN rows[t] : m <= req[r].n}
         n == Max(seen)
     IN \/ /\ seen = {}
           /\ req' = [req EXCEPT ![r] = At("replace", t, After(seen))]
           /\ UNCHANGED locks
        \/ /\ seen # {}
           /\ <<t, n>> \in {l[2] : l \in locks}
           /\ req[r].pc = "number"
           /\ req' = [req EXCEPT ![r] = At("wait", t, n)]
           /\ UNCHANGED locks
        \/ /\ seen # {}
           /\ <<t, n>> \notin {l[2] : l \in locks}
           /\ locks' = locks \union {<<r, <<t, n>> >>}
           /\ req' = [req EXCEPT ![r] = At("replace", t, After(seen))]
  /\ UNCHANGED <<rows, active, callbacks, told, past>>

Unset(t) == [n \in DOMAIN rows[t] |-> [rows[t][n] EXCEPT !.current = FALSE]]

\* The attempts of t after the transaction: a number taken meanwhile rolls
\* the whole request back.
ReplacedMutant(t, n) ==
  IF n \in DOMAIN rows[t] THEN Unset(t) ELSE WithNew(Unset(t), n)
Replaced(t, n) ==
  IF n \in DOMAIN rows[t] THEN rows[t] ELSE WithNew(Unset(t), n)

Replace(r) ==
  /\ req[r].pc = "replace"
  /\ req[r].n <= MaxNumber
  /\ rows' = [rows EXCEPT ![req[r].t] = Replaced(req[r].t, req[r].n)]
  /\ locks' = {l \in locks : l[1] # r}
  /\ req' = [req EXCEPT ![r] = Idle]
  /\ UNCHANGED <<active, callbacks, told, past>>

\* The request dies: PostgreSQL rolls its transaction back.
Abort(r) ==
  /\ req[r].pc # "idle"
  /\ req' = [req EXCEPT ![r] = Idle]
  /\ locks' = {l \in locks : l[1] # r}
  /\ UNCHANGED <<rows, active, callbacks, told, past>>

----------------------------------------------------------------------------
(* The life of an attempt, as far as the queue sees it.                    *)

\* Writes to a row wait for the transaction that holds its lock.
Unlocked(t, n) == <<t, n>> \notin {l[2] : l \in locks}

SetPhase(t, n, phase) == rows' = [rows EXCEPT ![t][n].phase = phase]

StartWork(t, n) ==
  /\ n \in Current(t) /\ Available(t) /\ Unlocked(t, n)
  /\ rows[t][n].phase = "new"
  /\ SetPhase(t, n, "in_progress")
  /\ UNCHANGED <<req, locks, active, callbacks, told, past>>

StartCheck(t, n) ==
  /\ n \in Current(t) /\ Available(t) /\ Unlocked(t, n)
  /\ rows[t][n].phase \in {"in_progress", "failed", "error"}
  /\ SetPhase(t, n, "running")
  /\ UNCHANGED <<req, locks, active, callbacks, told, past>>

FailCheck(t, n) ==
  /\ n \in DOMAIN rows[t] /\ Unlocked(t, n)
  /\ rows[t][n].phase = "running"
  /\ \E phase \in {"failed", "error"} : SetPhase(t, n, phase)
  /\ UNCHANGED <<req, locks, active, callbacks, told, past>>

\* The result is committed first; the callback runs after the commit.
PassCheck(t, n) ==
  /\ n \in DOMAIN rows[t] /\ Unlocked(t, n)
  /\ rows[t][n].phase = "running"
  /\ SetPhase(t, n, "passed")
  /\ callbacks' = callbacks \union {[t |-> t, n |-> n, left |-> {0}]}
  /\ UNCHANGED <<req, locks, active, told, past>>

----------------------------------------------------------------------------
(* notify_user_completed_all_tasks and send_telegram.                      *)

\* The first query fixes the list of tasks ({0} stands for it before).
NotifyStart(c) ==
  /\ c.left = {0}
  /\ callbacks' = (callbacks \ {c})
       \union (IF c.n = 1 /\ Done(c.t) /\ active # {}
               THEN {[c EXCEPT !.left = active]} ELSE {})
  /\ UNCHANGED <<rows, req, locks, active, told, past>>

NotifyRead(c) ==
  /\ c.left \notin {{0}, {}}
  /\ LET t == Min(c.left)
     IN callbacks' = (callbacks \ {c})
          \union (IF Done(t) THEN {[c EXCEPT !.left = @ \ {t}]} ELSE {})
  /\ UNCHANGED <<rows, req, locks, active, told, past>>

\* A failed delivery is logged and swallowed.
NotifySend(c) ==
  /\ c.left = {}
  /\ callbacks' = callbacks \ {c}
  /\ \E result \in {"failed", "sent"} :
       told' = IF told = "sent" THEN told ELSE result
  /\ UNCHANGED <<rows, req, locks, active, past>>

LoseCallback(c) ==
  /\ past.lost < MaxLost
  /\ callbacks' = callbacks \ {c}
  /\ past' = [past EXCEPT !.lost = @ + 1]
  /\ UNCHANGED <<rows, req, locks, active, told>>

----------------------------------------------------------------------------
(* The administrator.                                                      *)

Delete(t, n) ==
  /\ past.deletes < MaxDeletes
  /\ n \in DOMAIN rows[t] /\ Unlocked(t, n)
  /\ rows' = [rows EXCEPT ![t] = [m \in DOMAIN @ \ {n} |-> @[m]]]
  /\ past' = [past EXCEPT !.deletes = @ + 1]
  /\ UNCHANGED <<req, locks, active, callbacks, told>>

\* One task at least stays on.
Toggle(t) ==
  /\ past.toggles < MaxToggles
  /\ active' = IF t \in active THEN active \ {t} ELSE active \union {t}
  /\ active' # {}
  /\ past' = [past EXCEPT !.toggles = @ + 1]
  /\ UNCHANGED <<rows, req, locks, callbacks, told>>

Next ==
  \/ \E r \in Requests :
       \/ \E t \in Tasks : OpenDashboard(r, t)
       \/ \E t \in Tasks, n \in Numbers : Rerun(r, t, n)
       \/ ReadLatest(r) \/ Repair(r) \/ Create(r)
       \/ NextNumber(r) \/ Replace(r) \/ Abort(r)
  \/ \E t \in Tasks, n \in Numbers :
       \/ StartWork(t, n) \/ StartCheck(t, n)
       \/ FailCheck(t, n) \/ PassCheck(t, n) \/ Delete(t, n)
  \/ \E c \in callbacks :
       NotifyStart(c) \/ NotifyRead(c) \/ NotifySend(c) \/ LoseCallback(c)
  \/ \E t \in Tasks : Toggle(t)

Spec == Init /\ [][Next]_vars

----------------------------------------------------------------------------
(* What the dashboard shows of a task.                                     *)

\* enrich_attempts_display_state: history is that of the credit attempt.
WasCompletedMutant(t) == \E n \in Current(t) : Passed(rows[t][n])
WasCompleted(t) == \E n \in DOMAIN rows[t] : n = 1 /\ Passed(rows[t][n])

LearningStatus(t, n) ==
  IF ~Available(t) THEN "locked"
  ELSE IF WasCompleted(t) THEN "completed"
  ELSE [new |-> "new", in_progress |-> "working", running |-> "working",
        failed |-> "again", error |-> "again",
        passed |-> "new"][rows[t][n].phase]

TechnicalStatus(t, n) ==
  IF WasCompleted(t) THEN "passed"
  ELSE [new |-> "unchecked", in_progress |-> "unchecked",
        running |-> "checking", failed |-> "failed", error |-> "error",
        passed |-> "unproved"][rows[t][n].phase]

Shown(t) == {<<LearningStatus(t, n), TechnicalStatus(t, n)>> : n \in Current(t)}

----------------------------------------------------------------------------

\* The rows, the requests under way and the callbacks have their types.
TaskAttempt == [current : BOOLEAN, phase : Phases]
Limits ==
  /\ Queue \in Nat \ {0} /\ MaxNumber \in Nat \ {0}
  /\ {MaxDeletes, MaxLost, MaxToggles} \subseteq Nat
TypeOK ==
  /\ Limits
  /\ \A t \in Tasks :
       /\ DOMAIN rows[t] \subseteq Numbers
       /\ \A n \in DOMAIN rows[t] : rows[t][n] \in TaskAttempt
  /\ req \in [Requests -> [pc : {"idle", "latest", "repair", "create",
                                 "number", "wait", "replace"},
                           t : 0..Queue, n : 0..(MaxNumber + 1)]]
  /\ locks \subseteq Requests \X (Tasks \X Numbers)
  /\ active \subseteq Tasks
  /\ \A c \in callbacks : c.t \in Tasks /\ c.n \in Numbers
  /\ told \in {"nothing", "failed", "sent"}

Removed(t) == DOMAIN rows[t] \ DOMAIN rows'[t]

\* A task that has a current attempt always has exactly one, whatever the
\* repairs, reruns, collisions of numbers and rollbacks that overlap; only
\* the deletion of that very attempt may leave it without (views.py
\* rerun_task, attempts.py get_current_attempt, the constraints of
\* TaskAttempt).
CurrentStays ==
  \A t \in Tasks :
    Current(t) # {} /\ Current(t) \cap Removed(t) = {}
      => Cardinality(Current(t)') = 1

\* Running a task again never takes an available task away: availability
\* rests on the credit attempt, which only a deletion removes (models.py
\* is_available).
AvailabilityStays ==
  \A t \in Tasks :
    (\A s \in Tasks : 1 \notin Removed(s))
      => (Available(t) => Available(t)')

\* What the dashboard shows as completed and passed stays so while training
\* attempts come and go, are checked and fail (attempt_display.py).
DisplayStays ==
  \A t \in Tasks :
    /\ <<"completed", "passed">> \in Shown(t)
    /\ \A s \in Tasks : Removed(s) = {}
    => Shown(t)' = {<<"completed", "passed">>}

AttemptsStay == CurrentStays /\ AvailabilityStays /\ DisplayStays

\* The three of every step.
AttemptsKept == [][AttemptsStay]_vars

\* Once every credit attempt has passed and no callback is left, the mentors
\* have been written to, in whatever order the last results were committed
\* and the callbacks read them; a worker that died with its callback and a
\* deleted attempt excepted (notifications.py).
AllDoneAnnounced ==
  /\ \A t \in Tasks : 1 \in DOMAIN rows[t] /\ rows[t][1].phase = "passed"
  /\ callbacks = {} /\ past.lost = 0 /\ past.deletes = 0
  => told # "nothing"

\* The rows are well formed and the end is announced.
ResultsCounted == TypeOK /\ AllDoneAnnounced

\* Only the newest attempt of a task is unfinished: rerun_task answers a
\* request that does not come from the current, finished attempt without
\* creating another one.
RerunAfterFinish ==
  \A t \in Tasks : \A n \in DOMAIN rows[t] :
    n < Latest(t) => Passed(rows[t][n])
=============================================================================
