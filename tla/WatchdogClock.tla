---------------------------- MODULE WatchdogClock ----------------------------
(***************************************************************************)
(* detect_stuck_attempts with a clock.  Maintenance models what the        *)
(* watchdog does to one attempt at any time; here it is cron that starts   *)
(* it, it selects rows by their age, and every mark may be followed by a   *)
(* slow notification before the next row is handled.  The operations of    *)
(* the attempts are the transactions that write the four time stamps the   *)
(* two queries and the bounds read.                                        *)
(***************************************************************************)
EXTENDS Integers

CONSTANTS Attempts,   \* the attempts of the database
          Threshold,  \* --minutes
          Period,     \* cron starts a run at the latest this long after the last
          RunTime,    \* and a run is over after this long, before the next
          MaxTime     \* the bound of the clock

ASSUME ClockAssumption ==
  /\ Threshold \in Nat
  /\ Period \in Nat
  /\ RunTime \in Nat
  /\ RunTime <= Period
  /\ MaxTime \in Nat

VARIABLES now, row, dog

vars == <<now, row, dog>>

Times == 0..MaxTime

EnvBusy == {"starting", "restarting"}

\* A row: the two states, environment_started_at, environment_finished_at,
\* check_started_at and whether technical_passed_at is set.  A time stamp that
\* is NULL is 0; no query reads it then, since the state tells.
Rows ==
  [env : {"idle", "ready", "error"} \cup EnvBusy, envAt : Times, envEnd : Times,
   check : {"idle", "running", "passed", "failed", "error"}, checkAt : Times,
   passed : BOOLEAN]

NewRow == [env |-> "idle", envAt |-> 0, envEnd |-> 0,
           check |-> "idle", checkAt |-> 0, passed |-> FALSE]

\* The command: which loop it is in, when it began, the rows of that loop that
\* it has still to handle, and those whose copy has a running check.
Init ==
  /\ now = 0
  /\ row = [a \in Attempts |-> NewRow]
  /\ dog = [pc |-> "idle", begun |-> 0, todo |-> {}, running |-> {}]

-----------------------------------------------------------------------------
(* The attempts.  Guards a view reads without a lock are left out, so a    *)
(* check may be requested while the environment is restarting.             *)

\* try_mark_environment_starting.
StartEnvironment(a) ==
  /\ ~row[a].passed
  /\ row[a].env \notin EnvBusy
  /\ row' = [row EXCEPT ![a].env = "starting", ![a].envAt = now,
                        ![a].envEnd = 0]
  /\ UNCHANGED <<now, dog>>

\* try_mark_environment_restarting.
RestartEnvironment(a) ==
  /\ ~row[a].passed
  /\ row[a].env \notin EnvBusy
  /\ row' = [row EXCEPT ![a].env = "restarting", ![a].envAt = now,
                        ![a].envEnd = 0, ![a].check = "idle",
                        ![a].checkAt = 0]
  /\ UNCHANGED <<now, dog>>

\* The commit of run_environment_start, or of run_environment_restart, which
\* resets the check once more.
EnvironmentReady(a) ==
  /\ row[a].env \in EnvBusy
  /\ row' = [row EXCEPT ![a].env = "ready", ![a].envEnd = now,
       ![a].check = IF row[a].env = "restarting" THEN "idle" ELSE @,
       ![a].checkAt = IF row[a].env = "restarting" THEN 0 ELSE @]
  /\ UNCHANGED <<now, dog>>

\* Mutant: the status of the attempt is written into the environment's.
EnvironmentFailsMixed(a) ==
  /\ row[a].env \in EnvBusy
  /\ row' = [row EXCEPT ![a].env = "failed", ![a].envEnd = now]
  /\ UNCHANGED <<now, dog>>

\* mark_environment_error of a worker or a failed dispatch.
EnvironmentFails(a) ==
  /\ row[a].env \in EnvBusy
  /\ row' = [row EXCEPT ![a].env = "error", ![a].envEnd = now]
  /\ UNCHANGED <<now, dog>>

\* try_mark_attempt_check_running.
RequestCheck(a) ==
  /\ ~row[a].passed
  /\ row[a].check # "running"
  /\ row' = [row EXCEPT ![a].check = "running", ![a].checkAt = now]
  /\ UNCHANGED <<now, dog>>

\* The commit of run_attempt_check, or the marking of its error.
CheckEnds(a, result) ==
  /\ row[a].check = "running"
  /\ row' = [row EXCEPT ![a].check = result,
                        ![a].passed = @ \/ result = "passed"]
  /\ UNCHANGED <<now, dog>>

-----------------------------------------------------------------------------
(* The command.                                                            *)

Deadline == dog.begun - Threshold

\* Mutants of the queries: a restarting environment is not looked for; a check
\* is looked for only where no environment was ever started.
StuckStartingOnly(a, deadline) ==
  /\ row[a].env = "starting"
  /\ row[a].envAt < deadline
  /\ ~row[a].passed
StuckCheckIdleOnly(a) ==
  /\ row[a].check = "running"
  /\ row[a].checkAt < Deadline
  /\ ~row[a].passed
  /\ row[a].env = "idle"

\* The query over environments, and the one over checks.
StuckEnvironment(a, deadline) ==
  /\ row[a].env \in EnvBusy
  /\ row[a].envAt < deadline
  /\ ~row[a].passed

StuckCheck(a) ==
  /\ row[a].check = "running"
  /\ row[a].checkAt < Deadline
  /\ ~row[a].passed
  /\ row[a].env \notin EnvBusy \cup {"error"}

\* handle: the deadline is fixed, and the first loop evaluates its query.
DogBegins ==
  /\ dog.pc = "idle"
  /\ dog.begun < now
  /\ LET stuck == {a \in Attempts : StuckEnvironment(a, now - Threshold)}
     IN  dog' = [pc |-> "env", begun |-> now, todo |-> stuck,
                 running |-> {a \in stuck : row[a].check = "running"}]
  /\ UNCHANGED <<now, row>>

\* One turn of mark_stuck_environment_attempts.  Under the lock only the state
\* is looked at again; the check is written off by the copy.
DogMarkEnvironment(a) ==
  /\ dog.pc = "env"
  /\ a \in dog.todo
  /\ \/ /\ ~row[a].passed
        /\ row[a].env \in EnvBusy
        /\ row' = [row EXCEPT ![a].env = "error", ![a].envEnd = dog.begun,
             ![a].check = IF a \in dog.running THEN "error" ELSE @]
     \/ /\ row[a].passed \/ row[a].env \notin EnvBusy
        /\ UNCHANGED row
  /\ dog' = [dog EXCEPT !.todo = @ \ {a}]
  /\ UNCHANGED now

\* The second query is evaluated when the first loop is over.
DogTurnsToChecks ==
  /\ dog.pc = "env"
  /\ dog.todo = {}
  /\ dog' = [dog EXCEPT !.pc = "check", !.running = {},
                        !.todo = {a \in Attempts : StuckCheck(a)}]
  /\ UNCHANGED <<now, row>>

\* One turn of mark_stuck_check_attempts.
DogMarkCheck(a) ==
  /\ dog.pc = "check"
  /\ a \in dog.todo
  /\ \/ /\ ~row[a].passed
        /\ row[a].check = "running"
        /\ row' = [row EXCEPT ![a].check = "error"]
     \/ /\ row[a].passed \/ row[a].check # "running"
        /\ UNCHANGED row
  /\ dog' = [dog EXCEPT !.todo = @ \ {a}]
  /\ UNCHANGED now

DogEnds ==
  /\ dog.pc = "check"
  /\ dog.todo = {}
  /\ dog' = [dog EXCEPT !.pc = "idle"]
  /\ UNCHANGED <<now, row>>

\* Time passes.  Cron does not miss a period, and no run exceeds RunTime: a
\* notification gives up after five seconds.
Tick ==
  /\ now < MaxTime
  /\ now - dog.begun < IF dog.pc = "idle" THEN Period ELSE RunTime
  /\ now' = now + 1
  /\ UNCHANGED <<row, dog>>

AttemptStep(a) ==
  \/ StartEnvironment(a)
  \/ RestartEnvironment(a)
  \/ EnvironmentReady(a)
  \/ EnvironmentFails(a)
  \/ RequestCheck(a)
  \/ \E result \in {"passed", "failed", "error"} : CheckEnds(a, result)

DogStep ==
  \/ DogBegins
  \/ \E a \in Attempts : DogMarkEnvironment(a) \/ DogMarkCheck(a)
  \/ DogTurnsToChecks
  \/ DogEnds

Next == Tick \/ DogStep \/ \E a \in Attempts : AttemptStep(a)

Spec == Init /\ [][Next]_vars

-----------------------------------------------------------------------------
(* Properties.                                                             *)

\* Every variable has its type.
TypeOK ==
  /\ now \in Times
  /\ row \in [Attempts -> Rows]
  /\ dog \in [pc : {"idle", "env", "check"}, begun : Times,
              todo : SUBSET Attempts, running : SUBSET Attempts]

\* No environment stays in starting or restarting for longer than the
\* threshold, one period of cron and one run, whatever became of its worker:
\* both queries, the second look under the lock and the time stamps of the
\* requests must agree for that.
BusyEnvironmentBounded ==
  \A a \in Attempts :
    row[a].env \in EnvBusy /\ ~row[a].passed
      => now - row[a].envAt <= Threshold + Period + RunTime

\* A check on an environment that is neither busy nor failed is written off as
\* soon, counted from the later of its request and the end of the operation
\* which hid it from the query.
RunningCheckBounded ==
  \A a \in Attempts :
    /\ row[a].check = "running"
    /\ ~row[a].passed
    /\ row[a].env \notin EnvBusy \cup {"error"}
    => \/ now - row[a].checkAt <= Threshold + Period + RunTime
       \/ now - row[a].envEnd <= Period + RunTime

\* The command's help: "How old a background state should be to be considered
\* stuck."  So what a run marks has been in that state since before its
\* deadline.  The lock is taken after the query, and the age not tested again.
OnlyOldIsMarked ==
  [][\A a \in Attempts :
       dog.pc = "env" /\ row[a].env \in EnvBusy /\ a \in dog.todo \ dog'.todo
         => row[a].envAt < Deadline \/ row[a].passed]_vars
=============================================================================
