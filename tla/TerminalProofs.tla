--------------------------- MODULE TerminalProofs ---------------------------
(***************************************************************************)
(* What runs beside the handlers of an attempt, for every choice of the    *)
(* constants: the bounds of the watchdog, for any number of attempts and   *)
(* any threshold, period and length of a run; the shells of a terminal     *)
(* broker, for any number of connections, slots, restarts and faults; the  *)
(* HTTP observations; and the environments of broker mode.                 *)
(***************************************************************************)
EXTENDS MCTerminal, FiniteSetTheorems, TLAPS

-----------------------------------------------------------------------------
(* The watchdog against the clock.                                         *)

USE ClockAssumption

\* Everything keeps its type.
LEMMA TypeInit == Init => TypeOK
BY DEF Init, TypeOK, Rows, NewRow, Times, EnvBusy

\* The rows the requests and the commit of an environment write are rows.
LEMMA RowUpdates ==
  ASSUME NEW r \in Rows, NEW t \in Times, 0 \in Times
  PROVE  /\ [r EXCEPT !.env = "starting", !.envAt = t, !.envEnd = 0] \in Rows
         /\ [r EXCEPT !.env = "restarting", !.envAt = t, !.envEnd = 0,
                      !.check = "idle", !.checkAt = 0] \in Rows
         /\ [r EXCEPT !.env = "ready", !.envEnd = t,
               !.check = IF r.env = "restarting" THEN "idle" ELSE @,
               !.checkAt = IF r.env = "restarting" THEN 0 ELSE @] \in Rows
BY DEF Rows, EnvBusy

LEMMA TypeStep == TypeOK /\ [Next]_vars => TypeOK'
<1> SUFFICES ASSUME TypeOK, [Next]_vars PROVE TypeOK'
  OBVIOUS
<1> USE DEF TypeOK, Times
<1>1. CASE Tick
  BY <1>1 DEF Tick
<1>2. CASE DogStep
  <2>1. CASE DogBegins
    BY <2>1 DEF DogBegins
  <2>2. ASSUME NEW a \in Attempts, DogMarkEnvironment(a) PROVE TypeOK'
    <3>1. row[a] \in Rows
      OBVIOUS
    <3> DEFINE r == [row[a] EXCEPT !.env = "error", !.envEnd = dog.begun,
                       !.check = IF a \in dog.running THEN "error" ELSE @]
    <3>2. r \in Rows
      BY <3>1 DEF Rows
    <3>3. row' \in [Attempts -> Rows]
      BY <2>2, <3>2 DEF DogMarkEnvironment
    <3> QED
      BY <2>2, <3>3 DEF DogMarkEnvironment
  <2>3. ASSUME NEW a \in Attempts, DogMarkCheck(a) PROVE TypeOK'
    <3>1. row[a] \in Rows
      OBVIOUS
    <3>2. [row[a] EXCEPT !.check = "error"] \in Rows
      BY <3>1 DEF Rows
    <3>3. row' \in [Attempts -> Rows]
      BY <2>3, <3>2 DEF DogMarkCheck
    <3> QED
      BY <2>3, <3>3 DEF DogMarkCheck
  <2>4. CASE DogTurnsToChecks
    BY <2>4 DEF DogTurnsToChecks
  <2>5. CASE DogEnds
    BY <2>5 DEF DogEnds
  <2> QED
    BY <1>2, <2>1, <2>2, <2>3, <2>4, <2>5 DEF DogStep
<1>3. ASSUME NEW a \in Attempts, AttemptStep(a) PROVE TypeOK'
  <2>0. now \in Times /\ 0 \in Times
    OBVIOUS
  <2>1. row[a] \in Rows
    OBVIOUS
  <2>2. CASE StartEnvironment(a)
    <3>1. [row[a] EXCEPT !.env = "starting", !.envAt = now, !.envEnd = 0]
            \in Rows
      BY <2>1, <2>0, RowUpdates
    <3> QED
      BY <2>2, <3>1 DEF StartEnvironment
  <2>3. CASE RestartEnvironment(a)
    <3>1. [row[a] EXCEPT !.env = "restarting", !.envAt = now, !.envEnd = 0,
                         !.check = "idle", !.checkAt = 0] \in Rows
      BY <2>1, <2>0, RowUpdates
    <3> QED
      BY <2>3, <3>1 DEF RestartEnvironment
  <2>4. CASE EnvironmentReady(a)
    <3>1. [row[a] EXCEPT !.env = "ready", !.envEnd = now,
             !.check = IF row[a].env = "restarting" THEN "idle" ELSE @,
             !.checkAt = IF row[a].env = "restarting" THEN 0 ELSE @] \in Rows
      BY <2>1, <2>0, RowUpdates
    <3> QED
      BY <2>4, <3>1 DEF EnvironmentReady
  <2>5. CASE EnvironmentFails(a)
    BY <2>1, <2>5 DEF EnvironmentFails, Rows, EnvBusy
  <2>6. CASE RequestCheck(a)
    BY <2>1, <2>6 DEF RequestCheck, Rows, EnvBusy
  <2>7. ASSUME NEW result \in {"passed", "failed", "error"},
               CheckEnds(a, result)
        PROVE  TypeOK'
    BY <2>1, <2>7 DEF CheckEnds, Rows, EnvBusy
  <2> QED
    BY <1>3, <2>2, <2>3, <2>4, <2>5, <2>6, <2>7 DEF AttemptStep
<1>4. CASE UNCHANGED vars
  BY <1>4 DEF vars
<1> QED
  BY <1>1, <1>2, <1>3, <1>4 DEF Next

\* Every variable of the clocked watchdog keeps its type.
THEOREM ClockTypes == Spec => []TypeOK
BY TypeInit, TypeStep, PTL DEF Spec

-----------------------------------------------------------------------------
(* The inductive invariant: what a run that is over, or a loop that is     *)
(* over, has left behind.                                                  *)

\* Cron is punctual and a run is short.
Punctual ==
  /\ dog.begun <= now
  /\ now <= dog.begun + (IF dog.pc = "idle" THEN Period ELSE RunTime)

Busy(a) == row[a].env \in EnvBusy /\ ~row[a].passed

\* A busy environment the last finished first loop did not mark was young when
\* that loop began; in the loop, an old one is still to be handled.
EnvironmentsSeen ==
  \A a \in Attempts :
    Busy(a) =>
      \/ dog.begun <= row[a].envAt + Threshold
      \/ /\ dog.pc = "env"
         /\ a \in dog.todo
         /\ dog.begun <= row[a].envAt + Threshold + Period

Visible(a) ==
  /\ row[a].check = "running"
  /\ ~row[a].passed
  /\ row[a].env \notin EnvBusy \cup {"error"}

\* The same of the checks the second query can see: the check was young, or an
\* operation on the environment ended after the run began; otherwise it was so
\* at the run before, and it has not yet been looked for or not yet handled.
ChecksSeen ==
  \A a \in Attempts :
    Visible(a) =>
      \/ dog.begun <= row[a].checkAt + Threshold
      \/ dog.begun <= row[a].envEnd
      \/ /\ dog.pc = "env" \/ (dog.pc = "check" /\ a \in dog.todo)
         /\ \/ dog.begun <= row[a].checkAt + Threshold + Period
            \/ dog.begun <= row[a].envEnd + Period

ClockInv == TypeOK /\ Punctual /\ EnvironmentsSeen /\ ChecksSeen

LEMMA ClockInit == Init => ClockInv
<1> SUFFICES ASSUME Init PROVE ClockInv
  OBVIOUS
<1>1. TypeOK
  BY TypeInit
<1>2. Punctual
  BY DEF Init, Punctual
<1>3. EnvironmentsSeen /\ ChecksSeen
  BY DEF Init, EnvironmentsSeen, ChecksSeen, Busy, Visible, NewRow, EnvBusy
<1> QED
  BY <1>1, <1>2, <1>3 DEF ClockInv

\* Types of the parts that the arithmetic is about.
LEMMA PartsTyped ==
  ASSUME TypeOK
  PROVE  /\ now \in Int
         /\ dog.begun \in Int
         /\ \A a \in Attempts : /\ row[a].envAt \in Int
                                /\ row[a].envEnd \in Int
                                /\ row[a].checkAt \in Int
BY DEF TypeOK, Rows, Times

LEMMA ClockStep == ClockInv /\ [Next]_vars => ClockInv'
<1> SUFFICES ASSUME ClockInv, [Next]_vars PROVE ClockInv'
  OBVIOUS
<1>0. TypeOK /\ TypeOK'
  BY TypeStep DEF ClockInv
<1>t. /\ now \in Int
      /\ dog.begun \in Int
      /\ \A a \in Attempts : /\ row[a].envAt \in Int
                             /\ row[a].envEnd \in Int
                             /\ row[a].checkAt \in Int
  BY <1>0, PartsTyped
<1>r. row \in [Attempts -> Rows]
  BY <1>0 DEF TypeOK
<1>d. /\ dog.pc \in {"idle", "env", "check"}
      /\ dog \in [pc : {"idle", "env", "check"}, begun : Times,
                  todo : SUBSET Attempts, running : SUBSET Attempts]
  BY <1>0 DEF TypeOK
<1>i. Punctual /\ EnvironmentsSeen /\ ChecksSeen
  BY DEF ClockInv
<1>1. CASE Tick
  <2>1. now' = now + 1 /\ row' = row /\ dog' = dog
    BY <1>1 DEF Tick
  <2>2. Punctual'
    BY <1>1, <1>t, <1>i, <2>1 DEF Tick, Punctual
  <2>3. EnvironmentsSeen' /\ ChecksSeen'
    BY <1>i, <2>1 DEF EnvironmentsSeen, ChecksSeen, Busy, Visible
  <2> QED
    BY <1>0, <2>2, <2>3 DEF ClockInv
<1>2. CASE DogBegins
  <2>1. /\ dog.pc = "idle"
        /\ dog'.pc = "env"
        /\ dog'.begun = now
        /\ dog'.todo = {a \in Attempts : StuckEnvironment(a, now - Threshold)}
        /\ now' = now
        /\ row' = row
    BY <1>2 DEF DogBegins
  <2>2. now <= dog.begun + Period
    BY <1>i, <2>1 DEF Punctual
  <2>3. Punctual'
    BY <1>t, <2>1 DEF Punctual
  <2>4. EnvironmentsSeen'
    <3> SUFFICES ASSUME NEW a \in Attempts, Busy(a)'
                 PROVE \/ dog'.begun <= row'[a].envAt + Threshold
                       \/ /\ dog'.pc = "env"
                          /\ a \in dog'.todo
                          /\ dog'.begun <= row'[a].envAt + Threshold + Period
      BY DEF EnvironmentsSeen
    <3>1. Busy(a)
      BY <2>1 DEF Busy
    <3>2. dog.begun <= row[a].envAt + Threshold
      BY <1>i, <2>1, <3>1 DEF EnvironmentsSeen
    <3>3. now <= row[a].envAt + Threshold + Period
      BY <1>t, <2>2, <3>2
    <3>4. CASE row[a].envAt < now - Threshold
      BY <2>1, <3>1, <3>3, <3>4 DEF Busy, StuckEnvironment
    <3>5. CASE ~(row[a].envAt < now - Threshold)
      BY <1>t, <2>1, <3>5
    <3> QED
      BY <3>4, <3>5
  <2>5. ChecksSeen'
    <3> SUFFICES ASSUME NEW a \in Attempts, Visible(a)'
                 PROVE \/ dog'.begun <= row'[a].checkAt + Threshold + Period
                       \/ dog'.begun <= row'[a].envEnd + Period
      BY <2>1 DEF ChecksSeen
    <3>1. Visible(a)
      BY <2>1 DEF Visible
    <3>2. \/ dog.begun <= row[a].checkAt + Threshold
          \/ dog.begun <= row[a].envEnd
      BY <1>i, <2>1, <3>1 DEF ChecksSeen
    <3> QED
      BY <1>t, <2>1, <2>2, <3>2
  <2> QED
    BY <1>0, <2>3, <2>4, <2>5 DEF ClockInv
<1>3. ASSUME NEW a \in Attempts, DogMarkEnvironment(a) PROVE ClockInv'
  <2>1. /\ dog.pc = "env"
        /\ dog'.pc = "env"
        /\ dog'.begun = dog.begun
        /\ dog'.todo = dog.todo \ {a}
        /\ now' = now
    BY <1>3, <1>d DEF DogMarkEnvironment
  <2>2. \A b \in Attempts \ {a} : row'[b] = row[b]
    BY <1>3, <1>r DEF DogMarkEnvironment
  <2>3. ~Busy(a)'
    <3>1. CASE ~row[a].passed /\ row[a].env \in EnvBusy
      BY <1>3, <1>r, <3>1 DEF DogMarkEnvironment, Busy, EnvBusy, Rows
    <3>2. CASE row[a].passed \/ row[a].env \notin EnvBusy
      BY <1>3, <3>2 DEF DogMarkEnvironment, Busy
    <3> QED
      BY <3>1, <3>2
  <2>4. Visible(a)' => row'[a] = row[a]
    <3>1. CASE ~row[a].passed /\ row[a].env \in EnvBusy
      <4>1. row'[a].env = "error"
        BY <1>3, <1>r, <3>1 DEF DogMarkEnvironment, EnvBusy, Rows
      <4> QED
        BY <4>1 DEF Visible
    <3>2. CASE row[a].passed \/ row[a].env \notin EnvBusy
      BY <1>3, <3>2 DEF DogMarkEnvironment
    <3> QED
      BY <3>1, <3>2
  <2>5. Punctual'
    BY <1>i, <2>1 DEF Punctual
  <2>6. EnvironmentsSeen'
    BY <1>i, <2>1, <2>2, <2>3 DEF EnvironmentsSeen, Busy
  <2>7. ChecksSeen'
    BY <1>i, <2>1, <2>2, <2>4 DEF ChecksSeen, Visible
  <2> QED
    BY <1>0, <2>5, <2>6, <2>7 DEF ClockInv
<1>4. CASE DogTurnsToChecks
  <2>1. /\ dog.pc = "env"
        /\ dog.todo = {}
        /\ dog'.pc = "check"
        /\ dog'.begun = dog.begun
        /\ dog'.todo = {a \in Attempts : StuckCheck(a)}
        /\ now' = now
        /\ row' = row
    BY <1>4, <1>d DEF DogTurnsToChecks
  <2>2. Punctual'
    BY <1>i, <2>1 DEF Punctual
  <2>3. EnvironmentsSeen'
    BY <1>i, <2>1 DEF EnvironmentsSeen, Busy
  <2>4. ChecksSeen'
    <3> SUFFICES ASSUME NEW a \in Attempts, Visible(a)'
                 PROVE \/ dog.begun <= row[a].checkAt + Threshold
                       \/ /\ a \in dog'.todo
                          /\ \/ dog.begun <= row[a].checkAt + Threshold + Period
                             \/ dog.begun <= row[a].envEnd + Period
      BY <2>1 DEF ChecksSeen
    <3>1. Visible(a)
      BY <2>1 DEF Visible
    <3>2. \/ dog.begun <= row[a].checkAt + Threshold + Period
          \/ dog.begun <= row[a].envEnd + Period
      BY <1>i, <1>t, <3>1 DEF ChecksSeen
    <3>3. CASE row[a].checkAt < dog.begun - Threshold
      BY <2>1, <3>1, <3>2, <3>3 DEF StuckCheck, Deadline, Visible
    <3>4. CASE ~(row[a].checkAt < dog.begun - Threshold)
      BY <1>t, <3>4
    <3> QED
      BY <3>3, <3>4
  <2> QED
    BY <1>0, <2>2, <2>3, <2>4 DEF ClockInv
<1>5. ASSUME NEW a \in Attempts, DogMarkCheck(a) PROVE ClockInv'
  <2>1. /\ dog.pc = "check"
        /\ dog'.pc = "check"
        /\ dog'.begun = dog.begun
        /\ dog'.todo = dog.todo \ {a}
        /\ now' = now
    BY <1>5, <1>d DEF DogMarkCheck
  <2>2. \A b \in Attempts \ {a} : row'[b] = row[b]
    BY <1>5, <1>r DEF DogMarkCheck
  <2>3. ~Visible(a)'
    <3>1. CASE ~row[a].passed /\ row[a].check = "running"
      BY <1>5, <1>r, <3>1 DEF DogMarkCheck, Visible, Rows
    <3>2. CASE row[a].passed \/ row[a].check # "running"
      BY <1>5, <3>2 DEF DogMarkCheck, Visible
    <3> QED
      BY <3>1, <3>2
  <2>4. /\ row'[a].env = row[a].env
        /\ row'[a].envAt = row[a].envAt
        /\ row'[a].passed = row[a].passed
    BY <1>5, <1>r DEF DogMarkCheck, Rows
  <2>5. Punctual'
    BY <1>i, <2>1 DEF Punctual
  <2>6. EnvironmentsSeen'
    BY <1>i, <2>1, <2>2, <2>4 DEF EnvironmentsSeen, Busy
  <2>7. ChecksSeen'
    BY <1>i, <2>1, <2>2, <2>3 DEF ChecksSeen, Visible
  <2> QED
    BY <1>0, <2>5, <2>6, <2>7 DEF ClockInv
<1>6. CASE DogEnds
  <2>1. /\ dog.pc = "check"
        /\ dog.todo = {}
        /\ dog'.pc = "idle"
        /\ dog'.begun = dog.begun
        /\ now' = now
        /\ row' = row
    BY <1>6, <1>d DEF DogEnds
  <2>2. EnvironmentsSeen' /\ ChecksSeen'
    BY <1>i, <2>1 DEF EnvironmentsSeen, ChecksSeen, Busy, Visible
  <2>3. Punctual'
    BY <1>i, <1>t, <1>6, <2>1 DEF Punctual
  <2> QED
    BY <1>0, <2>2, <2>3 DEF ClockInv
<1>7. ASSUME NEW a \in Attempts, AttemptStep(a) PROVE ClockInv'
  <2>0. now' = now /\ dog' = dog
    BY <1>7 DEF AttemptStep, StartEnvironment, RestartEnvironment,
         EnvironmentReady, EnvironmentFails, RequestCheck, CheckEnds
  <2>a. \A b \in Attempts \ {a} : row'[b] = row[b]
    BY <1>7, <1>r DEF AttemptStep, StartEnvironment, RestartEnvironment,
         EnvironmentReady, EnvironmentFails, RequestCheck, CheckEnds
  <2>t. row[a] \in Rows
    BY <1>r
  <2>b. dog.begun <= now
    BY <1>i DEF Punctual
  <2>1. Busy(a)' => \/ row'[a].envAt = now
                    \/ Busy(a) /\ row'[a].envAt = row[a].envAt
    <3>1. CASE StartEnvironment(a)
      BY <3>1, <1>r, <2>t DEF StartEnvironment, Rows
    <3>2. CASE RestartEnvironment(a)
      BY <3>2, <1>r, <2>t DEF RestartEnvironment, Rows
    <3>3. CASE EnvironmentReady(a)
      <4>1. row'[a].env = "ready"
        BY <3>3, <1>r, <2>t DEF EnvironmentReady, Rows
      <4> QED
        BY <4>1 DEF Busy, EnvBusy
    <3>4. CASE EnvironmentFails(a)
      <4>1. row'[a].env = "error"
        BY <3>4, <1>r, <2>t DEF EnvironmentFails, Rows
      <4> QED
        BY <4>1 DEF Busy, EnvBusy
    <3>5. CASE RequestCheck(a)
      BY <3>5, <1>r, <2>t DEF RequestCheck, Busy, Rows
    <3>6. ASSUME NEW result \in {"passed", "failed", "error"},
                 CheckEnds(a, result), Busy(a)'
          PROVE  Busy(a) /\ row'[a].envAt = row[a].envAt
      BY <3>6, <1>r, <2>t DEF CheckEnds, Busy, Rows
    <3> QED
      BY <1>7, <3>1, <3>2, <3>3, <3>4, <3>5, <3>6 DEF AttemptStep
  <2>2. Visible(a)' => \/ row'[a].checkAt = now
                       \/ row'[a].envEnd = now
                       \/ /\ Visible(a)
                          /\ row'[a].checkAt = row[a].checkAt
                          /\ row'[a].envEnd = row[a].envEnd
    <3>1. CASE StartEnvironment(a)
      <4>1. row'[a].env = "starting"
        BY <3>1, <1>r, <2>t DEF StartEnvironment, Rows
      <4> QED
        BY <4>1 DEF Visible, EnvBusy
    <3>2. CASE RestartEnvironment(a)
      <4>1. row'[a].env = "restarting"
        BY <3>2, <1>r, <2>t DEF RestartEnvironment, Rows
      <4> QED
        BY <4>1 DEF Visible, EnvBusy
    <3>3. CASE EnvironmentReady(a)
      BY <3>3, <1>r, <2>t DEF EnvironmentReady, Rows
    <3>4. CASE EnvironmentFails(a)
      BY <3>4, <1>r, <2>t DEF EnvironmentFails, Rows
    <3>5. CASE RequestCheck(a)
      BY <3>5, <1>r, <2>t DEF RequestCheck, Rows
    <3>6. ASSUME NEW result \in {"passed", "failed", "error"},
                 CheckEnds(a, result)
          PROVE  ~Visible(a)'
      <4>1. row'[a].check = result
        BY <3>6, <1>r, <2>t DEF CheckEnds, Rows
      <4> QED
        BY <4>1 DEF Visible
    <3> QED
      BY <1>7, <3>1, <3>2, <3>3, <3>4, <3>5, <3>6 DEF AttemptStep
  <2>3. Punctual'
    BY <1>i, <2>0 DEF Punctual
  <2>4. EnvironmentsSeen'
    <3> SUFFICES ASSUME NEW b \in Attempts, Busy(b)'
                 PROVE \/ dog.begun <= row'[b].envAt + Threshold
                       \/ /\ dog.pc = "env"
                          /\ b \in dog.todo
                          /\ dog.begun <= row'[b].envAt + Threshold + Period
      BY <2>0 DEF EnvironmentsSeen
    <3>1. CASE row'[b].envAt = now
      BY <1>t, <2>b, <3>1
    <3>2. CASE Busy(b) /\ row'[b].envAt = row[b].envAt
      BY <1>i, <3>2 DEF EnvironmentsSeen
    <3>3. CASE b # a
      BY <2>a, <3>2, <3>3 DEF Busy
    <3> QED
      BY <2>1, <3>1, <3>2, <3>3
  <2>5. ChecksSeen'
    <3> SUFFICES ASSUME NEW b \in Attempts, Visible(b)'
                 PROVE \/ dog.begun <= row'[b].checkAt + Threshold
                       \/ dog.begun <= row'[b].envEnd
                       \/ /\ \/ dog.pc = "env"
                             \/ dog.pc = "check" /\ b \in dog.todo
                          /\ \/ dog.begun <= row'[b].checkAt + Threshold + Period
                             \/ dog.begun <= row'[b].envEnd + Period
      BY <2>0 DEF ChecksSeen
    <3>1. CASE row'[b].checkAt = now
      BY <1>t, <2>b, <3>1
    <3>2. CASE row'[b].envEnd = now
      BY <1>t, <2>b, <3>2
    <3>3. CASE /\ Visible(b)
               /\ row'[b].checkAt = row[b].checkAt
               /\ row'[b].envEnd = row[b].envEnd
      BY <1>i, <3>3 DEF ChecksSeen
    <3>4. CASE b # a
      BY <2>a, <3>3, <3>4 DEF Visible
    <3> QED
      BY <2>2, <3>1, <3>2, <3>3, <3>4
  <2> QED
    BY <1>0, <2>3, <2>4, <2>5 DEF ClockInv
<1>8. CASE UNCHANGED vars
  <2>1. Punctual' /\ EnvironmentsSeen' /\ ChecksSeen'
    BY <1>8, <1>i DEF vars, Punctual, EnvironmentsSeen, ChecksSeen, Busy,
         Visible
  <2> QED
    BY <1>0, <2>1 DEF ClockInv
<1> QED
  BY <1>1, <1>2, <1>3, <1>4, <1>5, <1>6, <1>7, <1>8 DEF Next, DogStep

\* The bounds follow from the invariant: a run begins at most one period after
\* the last and takes at most RunTime.
LEMMA BoundsFollow ==
  ClockInv => BusyEnvironmentBounded /\ RunningCheckBounded
<1> SUFFICES ASSUME ClockInv
             PROVE  BusyEnvironmentBounded /\ RunningCheckBounded
  OBVIOUS
<1>t. /\ now \in Int
      /\ dog.begun \in Int
      /\ \A a \in Attempts : /\ row[a].envAt \in Int
                             /\ row[a].envEnd \in Int
                             /\ row[a].checkAt \in Int
  BY PartsTyped DEF ClockInv
<1>1. now <= dog.begun + Period
  BY <1>t DEF ClockInv, Punctual
<1>2. dog.pc # "idle" => now <= dog.begun + RunTime
  BY DEF ClockInv, Punctual
<1>3. BusyEnvironmentBounded
  <2> SUFFICES ASSUME NEW a \in Attempts, Busy(a)
               PROVE  now - row[a].envAt <= Threshold + Period + RunTime
    BY DEF BusyEnvironmentBounded, Busy
  <2>1. CASE dog.begun <= row[a].envAt + Threshold
    BY <1>t, <1>1, <2>1
  <2>2. CASE /\ dog.pc = "env"
             /\ dog.begun <= row[a].envAt + Threshold + Period
    BY <1>t, <1>2, <2>2
  <2> QED
    BY <2>1, <2>2 DEF ClockInv, EnvironmentsSeen
<1>4. RunningCheckBounded
  <2> SUFFICES ASSUME NEW a \in Attempts, Visible(a)
               PROVE  \/ now - row[a].checkAt <= Threshold + Period + RunTime
                      \/ now - row[a].envEnd <= Period + RunTime
    BY DEF RunningCheckBounded, Visible
  <2>1. CASE \/ dog.begun <= row[a].checkAt + Threshold
             \/ dog.begun <= row[a].envEnd
    BY <1>t, <1>1, <2>1
  <2>2. CASE /\ dog.pc # "idle"
             /\ \/ dog.begun <= row[a].checkAt + Threshold + Period
                \/ dog.begun <= row[a].envEnd + Period
    BY <1>t, <1>2, <2>2
  <2> QED
    BY <2>1, <2>2 DEF ClockInv, ChecksSeen
<1> QED
  BY <1>3, <1>4

\* However many attempts there are, none stays in starting or restarting longer
\* than the threshold, a period of cron and a run of the command together.
THEOREM EnvironmentsBounded == Spec => []BusyEnvironmentBounded
BY ClockInit, ClockStep, BoundsFollow, PTL DEF Spec

\* And no check that the second query can see runs longer, counted from its
\* request or the end of the operation that hid it.
THEOREM ChecksBounded == Spec => []RunningCheckBounded
BY ClockInit, ClockStep, BoundsFollow, PTL DEF Spec

-----------------------------------------------------------------------------
(* The sessions of the terminal broker.                                    *)

Shells == {s \in Sessions : exec[s] = "shell"}
\* The threads that passed the broker's own look at its failure.
Admitted == {s \in Sessions : pc[s] \in Broker!Live \ {"auth"}}

\* The bootstrap is not a shell before the acknowledgement, and its process is
\* in the journal when that is sent.
JournalAhead ==
  \A s \in Sessions :
     /\ pc[s] \in {"save", "start", "identity", "ack"} => exec[s] # "shell"
     /\ pc[s] = "ack" => journal[s] = "process"
\* Only a broker that serves or stops has threads: recovery is alone.
ThreadsServed == Broker!Threads # {} => broker.phase \in {"serving", "stopping"}
\* A shell whose thread left keeps the place of its slot: no thread is admitted
\* any more.
SlotsKept ==
  /\ IsFiniteSet(Broker!Threads) /\ Cardinality(Broker!Threads) <= MaxSessions
  /\ IsFiniteSet(Shells \cup Admitted) /\ Cardinality(Shells \cup Admitted) <= MaxSessions

SessionInv ==
  /\ Broker!TypeOK /\ JournalAhead /\ ThreadsServed
  /\ Broker!ShellsJournalled /\ Broker!NoOrphanShell /\ SlotsKept


\* The cardinality of the instance is the library's.
LEMMA SameCardinality == \A S : Broker!Cardinality(S) = Cardinality(S)
BY DEF Broker!Cardinality, Cardinality

\* Everything but the slots, which are counted below.
SessionBooks ==
  /\ Broker!TypeOK /\ JournalAhead /\ ThreadsServed
  /\ Broker!ShellsJournalled /\ Broker!NoOrphanShell

LEMMA SessionBooksInit == ASSUME Broker!Limits PROVE Broker!Init => SessionBooks
BY DEF SessionBooks, JournalAhead, ThreadsServed, Broker!Init, Broker!TypeOK, Broker!Limits,
       Broker!ShellsJournalled, Broker!NoOrphanShell, Broker!Threads, Broker!Live

LEMMA SessionBooksKept ==
  ASSUME SessionBooks, Broker!Next
  PROVE  SessionBooks'
<1> USE DEF SessionBooks, JournalAhead, ThreadsServed, Broker!TypeOK, Broker!Limits,
            Broker!ShellsJournalled, Broker!NoOrphanShell, Broker!Threads, Broker!Live,
            Broker!Step, Broker!Mark
<1>1. CASE \E s \in Sessions : Broker!Connect(s) \/ Broker!Authenticate(s)
  BY <1>1 DEF Broker!Connect, Broker!Authenticate
<1>2. CASE \E s \in Sessions : Broker!ExecCreate(s) \/ Broker!SaveExec(s) \/ Broker!ExecStart(s)
  BY <1>2 DEF Broker!ExecCreate, Broker!SaveExec, Broker!ExecStart
<1>3. CASE \E s \in Sessions : Broker!SaveProcess(s) \/ Broker!Acknowledge(s)
  BY <1>3 DEF Broker!SaveProcess, Broker!Acknowledge
<1>4. CASE \E s \in Sessions : Broker!SessionBroken(s) \/ Broker!SessionFails(s)
  BY <1>4 DEF Broker!SessionBroken, Broker!SessionFails
<1>5. CASE \E s \in Sessions : Broker!RelayEnds(s) \/ Broker!ClientLeaves(s)
  BY <1>5 DEF Broker!RelayEnds, Broker!ClientLeaves
<1>6. CASE \E s \in Sessions : Broker!CleanupConfirmed(s) \/ Broker!RecoverOne(s)
  BY <1>6 DEF Broker!CleanupConfirmed, Broker!RecoverOne, Broker!After
<1>7. ASSUME NEW s \in Sessions, Broker!CleanupUnconfirmed(s) PROVE SessionBooks'
  <2>1. /\ broker' = [broker EXCEPT !.failed = TRUE] /\ pc' = [pc EXCEPT ![s] = "end"]
        /\ brokerFaults' \in 0..MaxBrokerFaults /\ UNCHANGED <<exec, journal, running, allowed>>
    BY <1>7 DEF Broker!CleanupUnconfirmed
  <2>2. broker'.failed /\ broker'.phase = broker.phase
    BY <2>1
  <2>3. Broker!TypeOK'
    BY <2>1
  <2>4. QED
    BY <1>7, <2>1, <2>2, <2>3 DEF Broker!CleanupUnconfirmed
<1>8. CASE \E s \in Sessions : Broker!BootstrapTimesOut(s) \/ Broker!ShellExits(s) \/ Broker!LateStart(s)
  BY <1>8 DEF Broker!BootstrapTimesOut, Broker!ShellExits, Broker!LateStart
<1>9. CASE Broker!Serve \/ Broker!RecoveryFails
  BY <1>9 DEF Broker!Serve, Broker!RecoveryFails, Broker!Recovered
<1>10. CASE Broker!Stop \/ Broker!Sigterm \/ Broker!Exit
  BY <1>10 DEF Broker!Stop, Broker!Sigterm, Broker!Exit
<1>11. CASE Broker!Crash \/ Broker!Restart
  <2>1. CASE Broker!Crash
    BY <2>1 DEF Broker!Crash
  <2>2. CASE Broker!Restart
    BY <2>2 DEF Broker!Restart
  <2>3. QED
    BY <1>11, <2>1, <2>2
<1>12. CASE Broker!ContainerStops \/ Broker!Revoke
  BY <1>12 DEF Broker!ContainerStops, Broker!Revoke
<1>13. QED
  BY <1>1, <1>2, <1>3, <1>4, <1>5, <1>6, <1>7, <1>8, <1>9, <1>10, <1>11, <1>12
     DEF Broker!Next, Broker!SessionStep, Broker!BrokerStep

\* A step that admits no thread and makes no shell leaves the slots as they are.
LEMMA SlotsShrink ==
  ASSUME SlotsKept, MaxSessions \in Nat,
         Broker!Threads' \subseteq Broker!Threads,
         (Shells \cup Admitted)' \subseteq Shells \cup Admitted
  PROVE  SlotsKept'
<1>1. /\ IsFiniteSet(Broker!Threads') /\ Cardinality(Broker!Threads') <= Cardinality(Broker!Threads)
      /\ IsFiniteSet((Shells \cup Admitted)')
      /\ Cardinality((Shells \cup Admitted)') <= Cardinality(Shells \cup Admitted)
  BY FS_Subset, FS_CardinalityType DEF SlotsKept
<1>2. QED
  BY <1>1, FS_CardinalityType DEF SlotsKept

LEMMA SlotsKeptStep ==
  ASSUME SessionBooks, SlotsKept, Broker!Next
  PROVE  SlotsKept'
<1>1. MaxSessions \in Nat
  BY DEF SessionBooks, Broker!TypeOK, Broker!Limits
<1>2. ASSUME NEW s \in Sessions, Broker!Connect(s) PROVE SlotsKept'
  <2>1. Broker!Threads' = Broker!Threads \cup {s} /\ s \notin Broker!Threads
    BY <1>2 DEF Broker!Connect, Broker!Step, Broker!Threads, Broker!Live, SessionBooks, Broker!TypeOK
  <2>2. (Shells \cup Admitted)' = Shells \cup Admitted
    BY <1>2 DEF Broker!Connect, Broker!Step, Shells, Admitted, Broker!Live, SessionBooks, Broker!TypeOK
  <2>3. /\ IsFiniteSet(Broker!Threads') 
        /\ Cardinality(Broker!Threads') = Cardinality(Broker!Threads) + 1
    BY <2>1, FS_AddElement DEF SlotsKept
  <2>4. Cardinality(Broker!Threads) < MaxSessions /\ Cardinality(Broker!Threads) \in Nat
    BY <1>2, FS_CardinalityType, SameCardinality DEF Broker!Connect, SlotsKept
  <2>5. Cardinality(Broker!Threads') <= MaxSessions
    BY <1>1, <2>3, <2>4
  <2>6. QED
    BY <2>2, <2>3, <2>5 DEF SlotsKept
<1>3. ASSUME NEW s \in Sessions, Broker!Authenticate(s) PROVE SlotsKept'
  <2>1. Broker!Threads' \subseteq Broker!Threads
    BY <1>3 DEF Broker!Authenticate, Broker!Step, Broker!Threads, Broker!Live, SessionBooks, Broker!TypeOK
  <2>2. CASE Broker!Admissible
    <3>1. s \in Broker!Threads
      BY <1>3 DEF Broker!Authenticate, Broker!Threads, Broker!Live
    <3>2. broker.phase = "serving" /\ ~broker.failed
      BY <2>2, <3>1 DEF Broker!Admissible, SessionBooks, ThreadsServed
    <3>3. (Shells \cup Admitted)' \subseteq Broker!Threads
      BY <1>3, <3>1, <3>2 DEF Broker!Authenticate, Broker!Step, Broker!Threads, Broker!Live, Shells,
         Admitted, SessionBooks, Broker!TypeOK, Broker!NoOrphanShell
    <3>4. IsFiniteSet((Shells \cup Admitted)') /\
          Cardinality((Shells \cup Admitted)') <= Cardinality(Broker!Threads)
      BY <3>3, FS_Subset DEF SlotsKept
    <3>5. IsFiniteSet(Broker!Threads') /\ Cardinality(Broker!Threads') <= Cardinality(Broker!Threads)
      BY <2>1, FS_Subset DEF SlotsKept
    <3>6. QED
      BY <1>1, <3>4, <3>5, FS_CardinalityType DEF SlotsKept
  <2>3. CASE ~Broker!Admissible
    <3>1. (Shells \cup Admitted)' \subseteq Shells \cup Admitted
      BY <1>3, <2>3 DEF Broker!Authenticate, Broker!Step, Broker!Live, Shells, Admitted, SessionBooks,
         Broker!TypeOK
    <3>2. QED
      BY <1>1, <2>1, <3>1, SlotsShrink
  <2>4. QED
    BY <2>2, <2>3
<1>4. CASE ~\E s \in Sessions : Broker!Connect(s) \/ Broker!Authenticate(s)
  <2>1. Broker!Threads' \subseteq Broker!Threads /\ (Shells \cup Admitted)' \subseteq Shells \cup Admitted
    <3> USE DEF SessionBooks, Broker!TypeOK, Broker!Threads, Broker!Live, Shells, Admitted, Broker!Step,
                Broker!Mark
    <3>1. ASSUME NEW s \in Sessions,
                 \/ Broker!ExecCreate(s) \/ Broker!SaveExec(s) \/ Broker!ExecStart(s) \/ Broker!SaveProcess(s)
                 \/ Broker!Acknowledge(s)
          PROVE  Broker!Threads' \subseteq Broker!Threads /\ (Shells \cup Admitted)' \subseteq Shells \cup Admitted
      BY <3>1 DEF Broker!ExecCreate, Broker!SaveExec, Broker!ExecStart, Broker!SaveProcess, Broker!Acknowledge
    <3>2. ASSUME NEW s \in Sessions,
                 \/ Broker!SessionBroken(s) \/ Broker!SessionFails(s) \/ Broker!RelayEnds(s)
                 \/ Broker!ClientLeaves(s)
          PROVE  Broker!Threads' \subseteq Broker!Threads /\ (Shells \cup Admitted)' \subseteq Shells \cup Admitted
      BY <3>2 DEF Broker!SessionBroken, Broker!SessionFails, Broker!RelayEnds, Broker!ClientLeaves
    <3>3. ASSUME NEW s \in Sessions,
                 \/ Broker!CleanupConfirmed(s) \/ Broker!CleanupUnconfirmed(s) \/ Broker!RecoverOne(s)
          PROVE  Broker!Threads' \subseteq Broker!Threads /\ (Shells \cup Admitted)' \subseteq Shells \cup Admitted
      BY <3>3 DEF Broker!CleanupConfirmed, Broker!CleanupUnconfirmed, Broker!RecoverOne, Broker!After
    <3>4. ASSUME NEW s \in Sessions,
                 Broker!BootstrapTimesOut(s) \/ Broker!ShellExits(s) \/ Broker!LateStart(s)
          PROVE  Broker!Threads' \subseteq Broker!Threads /\ (Shells \cup Admitted)' \subseteq Shells \cup Admitted
      BY <3>4 DEF Broker!BootstrapTimesOut, Broker!ShellExits, Broker!LateStart
    <3>5. CASE \/ Broker!Serve \/ Broker!RecoveryFails \/ Broker!Stop \/ Broker!Sigterm \/ Broker!Exit
               \/ Broker!Restart \/ Broker!Revoke
      BY <3>5 DEF Broker!Serve, Broker!RecoveryFails, Broker!Stop, Broker!Sigterm, Broker!Exit,
                  Broker!Restart, Broker!Revoke
    <3>6. CASE Broker!Crash \/ Broker!ContainerStops
      BY <3>6 DEF Broker!Crash, Broker!ContainerStops
    <3>7. QED
      BY <1>4, <3>1, <3>2, <3>3, <3>4, <3>5, <3>6
         DEF Broker!Next, Broker!SessionStep, Broker!BrokerStep
  <2>2. QED
    BY <1>1, <2>1, SlotsShrink
<1>5. QED
  BY <1>2, <1>3, <1>4

LEMMA SessionInductive == SessionInv /\ [Broker!Next]_Broker!vars => SessionInv'
<1> SUFFICES ASSUME SessionInv, [Broker!Next]_Broker!vars PROVE SessionInv'
  OBVIOUS
<1>1. SessionBooks /\ SlotsKept
  BY DEF SessionInv, SessionBooks
<1>2. CASE Broker!Next
  BY <1>1, <1>2, SessionBooksKept, SlotsKeptStep DEF SessionInv, SessionBooks
<1>3. CASE UNCHANGED Broker!vars
  BY <1>1, <1>3
     DEF SessionInv, SessionBooks, JournalAhead, ThreadsServed, SlotsKept, Shells, Admitted, Broker!vars,
         Broker!TypeOK, Broker!Limits, Broker!ShellsJournalled, Broker!NoOrphanShell, Broker!Threads
<1>4. QED
  BY <1>2, <1>3

LEMMA SessionInitially == ASSUME Broker!Limits PROVE Broker!Init => SessionInv
<1> SUFFICES ASSUME Broker!Init PROVE SessionInv
  OBVIOUS
<1>1. SessionBooks
  BY SessionBooksInit
<1>2. Broker!Threads = {} /\ Shells \cup Admitted = {}
  BY DEF Broker!Init, Broker!Threads, Broker!Live, Shells, Admitted
<1>3. SlotsKept
  BY <1>2, FS_EmptySet DEF SlotsKept, Broker!Limits
<1>4. QED
  BY <1>1, <1>3 DEF SessionInv, SessionBooks

\* The slots bound the shells.
LEMMA SessionShells == ASSUME SessionInv PROVE Broker!ShellsKept
<1>1. IsFiniteSet(Shells) /\ Cardinality(Shells) <= Cardinality(Shells \cup Admitted)
  BY FS_Subset DEF SessionInv, SlotsKept
<1>2. Cardinality(Shells) <= MaxSessions
  BY <1>1, FS_CardinalityType DEF SessionInv, SlotsKept, Broker!TypeOK, Broker!Limits
<1>3. QED
  BY <1>2, SameCardinality DEF SessionInv, Broker!ShellsKept, Broker!ShellsBounded, Shells

\* No user code without a durable identity, no shell of a dead broker beside a
\* new one, and never more shells than slots (terminal/broker_v2.py), for any
\* number of connections, restarts and faults.
THEOREM ShellsAccounted == ASSUME Broker!Limits PROVE Broker!Spec => []Broker!ShellsKept
<1>1. Broker!Init => SessionInv
  BY SessionInitially
<1>2. SessionInv /\ [Broker!Next]_Broker!vars => SessionInv'
  BY SessionInductive
<1>3. SessionInv => Broker!ShellsKept
  BY SessionShells
<1>4. QED
  BY <1>1, <1>2, <1>3, PTL DEF Broker!Spec

\* In the instance that is model-checked with them, and for every choice of its
\* constants, the sessions are the ones of the broker.
THEOREM ShellsOfSuite == ASSUME Broker!Limits PROVE SuiteSpec => []ShellsKept
<1> DEFINE PartInv == part = "sessions" => SessionInv
<1>1. SuiteInit => PartInv
  BY SessionInitially DEF SuiteInit
<1>2. PartInv /\ [SuiteNext]_suiteVars => PartInv'
  <2> SUFFICES ASSUME PartInv, [SuiteNext]_suiteVars, part' = "sessions"
               PROVE  SessionInv'
    OBVIOUS
  <2>1. part = "sessions" /\ SessionInv
    BY DEF SuiteNext, suiteVars
  <2>2. [Broker!Next]_Broker!vars
    BY <2>1 DEF SuiteNext, suiteVars, sessionVars, Broker!vars
  <2> QED
    BY <2>1, <2>2, SessionInductive
<1>3. PartInv => ShellsKept
  BY SessionShells DEF ShellsKept
<1> QED
  BY <1>1, <1>2, <1>3, PTL DEF SuiteSpec

-----------------------------------------------------------------------------
(* The HTTP observations.                                                  *)

Boxes == [gen : Nat, boot : Nat]
Identities == Nat \X Boxes \X Nat
Answers == {"unknown", "matched", "mismatch"}
Reasons == {"queued", "none", "stale", "refused", "runtime_changed", "timeout",
            "stale_execution", "cleanup_unknown", "artifact_unavailable",
            "dispatch_unavailable"}
HttpPcs == {"idle", "pin", "claim", "create", "start", "probe", "verify",
            "fence", "cleanup", "again", "commit"}
RunRows ==
  [status : {"none", "queued", "running", "finished"}, http : Answers,
   reason : Reasons, identity : {<<>>} \cup Identities, pinned : BOOLEAN]
WorkerRows ==
  [pc : HttpPcs, run : {0} \cup Http!Runs, answer : Answers, bound : BOOLEAN,
   probed : Boxes, created : {"no", "yes", "lost"}, why : Reasons]

HttpTypes ==
  /\ attempt \in [open : BOOLEAN, gen : Nat, ready : BOOLEAN, pinned : Boxes,
                  anchor : Nat]
  /\ box \in Boxes
  /\ runs \in [Http!Runs -> RunRows]
  /\ workers \in [Workers -> WorkerRows]

\* One start of a container is not after another.
NotAfter(b, c) == b.gen < c.gen \/ (b.gen = c.gen /\ b.boot <= c.boot)

\* An environment that is being created is newer than the container.
BoxBehind ==
  /\ box.gen <= attempt.gen
  /\ ~attempt.ready => box.gen < attempt.gen

Wanted(w) == runs[workers[w].run].identity[2]
Left(r) == r \in verifiers \cup late

\* A run has a verdict only at its end and with nothing left.
RunKept(r) ==
  /\ runs[r].http # "unknown" => runs[r].status = "finished" /\ ~Left(r)
  /\ runs[r].status # "none" => runs[r].identity \in Identities
  /\ runs[r].status \in {"none", "queued"} => ~Left(r)

\* What a worker knows of its run.
WorkerRun(w) ==
  /\ workers[w].run \in Http!Runs
  /\ runs[workers[w].run].status \in {"running", "finished"}
  /\ runs[workers[w].run].http = "unknown"

\* What it made, and what it may leave behind.
WorkerMade(w) ==
  /\ workers[w].pc \in {"pin", "claim", "create"} => workers[w].created = "no"
  /\ workers[w].pc \in {"start", "probe", "verify", "fence"}
       => workers[w].created = "yes"
  /\ workers[w].created = "no" => ~Left(workers[w].run)
  /\ workers[w].created = "yes" => workers[w].run \notin late
  /\ workers[w].created = "lost" => workers[w].answer = "unknown"
  /\ workers[w].pc \in {"again", "commit"} /\ workers[w].answer # "unknown"
       => ~Left(workers[w].run)

\* Whose answer it has: the target was the pinned one before the probe, so an
\* inspection that finds it again after the probe shows the same start.
WorkerSaw(w) ==
  /\ workers[w].pc \in {"pin", "claim", "create", "start", "probe"}
       => workers[w].answer = "unknown"
  /\ workers[w].pc \in {"start", "probe", "verify"} => NotAfter(Wanted(w), box)
  /\ workers[w].pc = "verify" => /\ NotAfter(Wanted(w), workers[w].probed)
                                 /\ NotAfter(workers[w].probed, box)
  /\ workers[w].pc # "verify" /\ workers[w].answer # "unknown"
       => workers[w].probed = Wanted(w)

WorkerKept(w) ==
  workers[w].pc # "idle" => WorkerRun(w) /\ WorkerMade(w) /\ WorkerSaw(w)

\* A run has one worker.
OneWorker ==
  \A v, w \in Workers :
    workers[v].pc # "idle" /\ workers[w].pc # "idle"
      /\ workers[v].run = workers[w].run => v = w

HttpInv ==
  /\ HttpTypes
  /\ BoxBehind
  /\ \A r \in Http!Runs : RunKept(r)
  /\ \A w \in Workers : WorkerKept(w)
  /\ OneWorker

LEMMA HttpStarts == Http!Init => HttpInv
<1> SUFFICES ASSUME Http!Init PROVE HttpInv
  OBVIOUS
<1>1. HttpTypes
  BY DEF Http!Init, HttpTypes, Boxes, RunRows, WorkerRows, Http!NoRun, Http!Idle, Http!NoBox,
         Answers, Reasons, HttpPcs
<1>2. BoxBehind
  BY DEF Http!Init, BoxBehind
<1>3. \A r \in Http!Runs : RunKept(r)
  BY DEF Http!Init, RunKept, Http!NoRun, Left
<1>4. \A w \in Workers : workers[w].pc = "idle"
  BY DEF Http!Init, Http!Idle
<1> QED
  BY <1>1, <1>2, <1>3, <1>4 DEF HttpInv, WorkerKept, OneWorker

\* A start that is not after one is not after what follows it.
LEMMA NotAfterTrans ==
  ASSUME NEW a \in Boxes, NEW b \in Boxes, NEW c \in Boxes,
         NotAfter(a, b), NotAfter(b, c)
  PROVE  NotAfter(a, c)
BY DEF NotAfter, Boxes

LEMMA NotAfterBoth ==
  ASSUME NEW a \in Boxes, NEW b \in Boxes, NotAfter(a, b), NotAfter(b, a)
  PROVE  a = b
BY DEF NotAfter, Boxes

LEMMA WantedTyped ==
  ASSUME HttpInv, NEW w \in Workers, workers[w].pc # "idle"
  PROVE  Wanted(w) \in Boxes
<1>1. workers[w].run \in Http!Runs /\ runs[workers[w].run].status # "none"
  BY DEF HttpInv, WorkerKept, WorkerRun
<1>2. runs[workers[w].run].identity \in Identities
  BY <1>1 DEF HttpInv, RunKept
<1> QED
  BY <1>2 DEF Identities, Wanted

\* Where only the environment moves, and the container not back, everything
\* else stays.
LEMMA Surroundings ==
  ASSUME HttpInv, HttpTypes', BoxBehind', NotAfter(box, box'),
         UNCHANGED <<runs, workers, verifiers, late>>
  PROVE  HttpInv'
<1>1. \A r \in Http!Runs : RunKept(r)'
  BY DEF HttpInv, RunKept, Left
<1>2. ASSUME NEW w \in Workers PROVE WorkerKept(w)'
  <2> SUFFICES ASSUME workers[w].pc # "idle"
               PROVE  WorkerRun(w)' /\ WorkerMade(w)' /\ WorkerSaw(w)'
    BY DEF WorkerKept
  <2>1. WorkerRun(w) /\ WorkerMade(w) /\ WorkerSaw(w)
    BY DEF HttpInv, WorkerKept
  <2>2. Wanted(w) \in Boxes /\ Wanted(w)' = Wanted(w)
    BY WantedTyped DEF Wanted
  <2>3. box \in Boxes /\ box' \in Boxes /\ workers[w].probed \in Boxes
    BY DEF HttpInv, HttpTypes, WorkerRows
  <2>4. ASSUME NEW b \in Boxes, NotAfter(b, box) PROVE NotAfter(b, box')
    BY <2>3, <2>4, NotAfterTrans
  <2>5. (NotAfter(Wanted(w), box) => NotAfter(Wanted(w), box'))
        /\ (NotAfter(workers[w].probed, box) => NotAfter(workers[w].probed, box'))
    BY <2>2, <2>3, <2>4
  <2>6. WorkerSaw(w)'
    BY <2>1, <2>2, <2>5 DEF WorkerSaw
  <2> QED
    BY <2>1, <2>6 DEF WorkerRun, WorkerMade, Left
<1>3. OneWorker'
  BY DEF HttpInv, OneWorker
<1> QED
  BY <1>1, <1>2, <1>3 DEF HttpInv

\* Where one worker moves on, what is to be shown is about it and its run.
LEMMA WorkerMoves ==
  ASSUME HttpInv, NEW w \in Workers, workers[w].pc # "idle", HttpTypes',
         NEW q \in Http!Runs, q = workers[w].run, UNCHANGED <<attempt, box>>,
         \A v \in Workers : v # w => workers'[v] = workers[v],
         \A r \in Http!Runs : r # q =>
           /\ runs'[r] = runs[r]
           /\ (r \in verifiers') = (r \in verifiers)
           /\ (r \in late') = (r \in late),
         workers'[w].pc = "idle" \/ workers'[w].run = q,
         RunKept(q)', WorkerKept(w)'
  PROVE  HttpInv'
<1>1. BoxBehind'
  BY DEF HttpInv, BoxBehind
<1>2. ASSUME NEW r \in Http!Runs, r # q PROVE RunKept(r)'
  BY <1>2 DEF HttpInv, RunKept, Left
<1>3. ASSUME NEW v \in Workers, v # w PROVE WorkerKept(v)'
  <2> SUFFICES ASSUME workers[v].pc # "idle"
               PROVE  WorkerRun(v)' /\ WorkerMade(v)' /\ WorkerSaw(v)'
    BY <1>3 DEF WorkerKept
  <2>1. WorkerRun(v) /\ WorkerMade(v) /\ WorkerSaw(v) /\ workers'[v] = workers[v]
    BY <1>3 DEF HttpInv, WorkerKept
  <2>2. workers[v].run \in Http!Runs /\ workers[v].run # q
    BY <1>3, <2>1 DEF HttpInv, OneWorker, WorkerRun
  <2>3. runs'[workers[v].run] = runs[workers[v].run]
    BY <2>2
  <2>4. Left(workers[v].run)' = Left(workers[v].run)
    BY <2>1, <2>2 DEF Left
  <2>5. (workers[v].run \in late') = (workers[v].run \in late)
    BY <2>2
  <2>6. WorkerRun(v)'
    BY <2>1, <2>3 DEF WorkerRun
  <2>7. WorkerMade(v)'
    BY <2>1, <2>4, <2>5 DEF WorkerMade, Left
  <2>8. WorkerSaw(v)'
    BY <2>1, <2>3 DEF WorkerSaw, Wanted
  <2> QED
    BY <2>6, <2>7, <2>8
<1>4. OneWorker'
  BY DEF HttpInv, OneWorker
<1> QED
  BY <1>1, <1>2, <1>3, <1>4 DEF HttpInv

\* The environment of the attempt and its container move.
LEMMA EnvironmentMoves ==
  ASSUME HttpInv,
         \/ Http!RequestReset \/ Http!FinishReset \/ Http!Reboot \/ Http!EndAttempt \/ Http!MoveAnchor
  PROVE  HttpInv'
<1> USE DEF Http!rest2, Http!rest3
<1>0. HttpTypes /\ BoxBehind
  BY DEF HttpInv
<1>1. NotAfter(box, box) /\ box \in Boxes /\ attempt.gen \in Nat
  BY <1>0 DEF HttpTypes, NotAfter, Boxes
<1>2. CASE Http!RequestReset
  <2>1. attempt'.gen = attempt.gen + 1 /\ box' = box /\ attempt'.ready = FALSE
    BY <1>0, <1>2 DEF Http!RequestReset, HttpTypes
  <2>4. attempt.gen + 1 \in Nat
    BY <1>1
  <2>5. PICK g \in Nat : g = attempt.gen + 1
    BY <2>4
  <2>6. attempt' = [attempt EXCEPT !.gen = g, !.ready = FALSE]
    BY <1>2, <2>5 DEF Http!RequestReset
  <2>2. HttpTypes'
    BY <1>0, <1>2, <2>6 DEF Http!RequestReset, HttpTypes
  <2>3. BoxBehind' /\ NotAfter(box, box')
    BY <1>0, <1>1, <2>1 DEF BoxBehind, Boxes
  <2> QED
    BY <1>2, <2>2, <2>3, Surroundings DEF Http!RequestReset
<1>3. CASE Http!FinishReset
  <2>1. [gen |-> attempt.gen, boot |-> 0] \in Boxes
    BY <1>1 DEF Boxes
  <2>2. HttpTypes'
    BY <1>0, <1>3, <2>1 DEF Http!FinishReset, HttpTypes
  <2>4. BoxBehind'
    BY <1>0, <1>1, <1>3 DEF Http!FinishReset, HttpTypes, BoxBehind
  <2>3. NotAfter(box, box')
    BY <1>0, <1>1, <1>3 DEF Http!FinishReset, BoxBehind, NotAfter
  <2> QED
    BY <1>3, <2>2, <2>3, <2>4, Surroundings DEF Http!FinishReset
<1>4. CASE Http!Reboot
  <2>1. HttpTypes' /\ BoxBehind' /\ NotAfter(box, box')
    BY <1>0, <1>1, <1>4 DEF Http!Reboot, HttpTypes, BoxBehind, Boxes, NotAfter
  <2> QED
    BY <1>4, <2>1, Surroundings DEF Http!Reboot
<1>5. CASE Http!EndAttempt
  <2>1. HttpTypes' /\ BoxBehind' /\ NotAfter(box, box')
    BY <1>0, <1>1, <1>5 DEF Http!EndAttempt, HttpTypes, BoxBehind
  <2> QED
    BY <1>5, <2>1, Surroundings DEF Http!EndAttempt
<1>6. CASE Http!MoveAnchor
  <2>1. HttpTypes' /\ BoxBehind' /\ NotAfter(box, box')
    BY <1>0, <1>1, <1>6 DEF Http!MoveAnchor, HttpTypes, BoxBehind
  <2> QED
    BY <1>6, <2>1, Surroundings DEF Http!MoveAnchor
<1> QED
  BY <1>2, <1>3, <1>4, <1>5, <1>6

\* A run with a worker is not one that is new or waits, so its request and its
\* first delivery meet no worker of it.
LEMMA NoWorkerYet ==
  ASSUME HttpInv, NEW r \in Http!Runs, runs[r].status \in {"none", "queued"},
         NEW w \in Workers, workers[w].pc # "idle"
  PROVE  workers[w].run # r
BY DEF HttpInv, WorkerKept, WorkerRun

\* A run is ended unless it already is, and only the worker of a run, or its
\* failed dispatch, ends it.
LEMMA EndedRuns ==
  ASSUME HttpTypes, NEW r \in Http!Runs, NEW http \in Answers, NEW why \in Reasons,
         runs' = Http!Finished(r, http, why)
  PROVE  /\ runs' \in [Http!Runs -> RunRows]
         /\ \A q \in Http!Runs : q # r => runs'[q] = runs[q]
         /\ \/ runs' = runs
            \/ /\ r \in Http!Active
               /\ runs'[r].status = "finished" /\ runs'[r].http = http
               /\ runs'[r].identity = runs[r].identity
<1> PICK y : y = [runs[r] EXCEPT !.status = "finished", !.http = http,
                                 !.reason = why]
  OBVIOUS
<1>1. runs \in [Http!Runs -> RunRows]
  BY DEF HttpTypes
<1>2. /\ y \in RunRows /\ y.status = "finished" /\ y.http = http
      /\ y.identity = runs[r].identity
  BY <1>1 DEF RunRows
<1>3. runs' = runs \/ (r \in Http!Active /\ runs' = [runs EXCEPT ![r] = y])
  BY <1>1 DEF Http!Finished
<1> QED
  BY <1>1, <1>2, <1>3

LEMMA WorkerFacts ==
  ASSUME HttpInv, NEW w \in Workers, workers[w].pc # "idle"
  PROVE  /\ HttpTypes /\ workers[w] \in WorkerRows /\ Wanted(w) \in Boxes
         /\ workers[w].run \in Http!Runs /\ RunKept(workers[w].run)
         /\ WorkerRun(w) /\ WorkerMade(w) /\ WorkerSaw(w)
BY WantedTyped DEF HttpInv, HttpTypes, WorkerKept, WorkerRun

\* Between its delivery and its commit a worker only changes what it knows
\* and what it made.
LEMMA WorkerGoes ==
  ASSUME HttpInv, NEW w \in Workers, workers[w].pc # "idle",
         NEW x \in WorkerRows, workers' = [workers EXCEPT ![w] = x],
         x.run = workers[w].run, UNCHANGED <<attempt, box, runs>>,
         \A r \in Http!Runs : r # workers[w].run =>
           /\ (r \in verifiers') = (r \in verifiers)
           /\ (r \in late') = (r \in late),
         WorkerMade(w)', WorkerSaw(w)'
  PROVE  HttpInv'
<1> DEFINE q == workers[w].run
<1>1. HttpTypes /\ q \in Http!Runs /\ RunKept(q) /\ WorkerRun(w)
  BY WorkerFacts
<1>2. HttpTypes'
  BY <1>1 DEF HttpTypes
<1>3. workers'[w] = x /\ \A v \in Workers : v # w => workers'[v] = workers[v]
  BY <1>1 DEF HttpTypes
<1>4. WorkerRun(w)'
  BY <1>1, <1>3 DEF WorkerRun
<1>5. PICK r \in Http!Runs : r = workers[w].run
  BY <1>1
<1>6. RunKept(r)'
  BY <1>1, <1>5 DEF RunKept, WorkerRun
<1>7. WorkerKept(w)'
  BY <1>4 DEF WorkerKept
<1> QED
  BY <1>2, <1>3, <1>5, <1>6, <1>7, WorkerMoves

\* What a refusal leaves is told by what the worker made.
LEMMA Refusals ==
  ASSUME HttpInv, NEW w \in Workers, workers[w].pc # "idle",
         NEW why \in Reasons, Http!Refuse(w, why),
         UNCHANGED <<attempt, box, runs, verifiers, late>>
  PROVE  HttpInv'
<1> DEFINE x == [workers[w] EXCEPT !.pc = "cleanup", !.answer = "unknown",
                                   !.bound = FALSE, !.why = why]
<1>1. HttpTypes /\ workers[w] \in WorkerRows /\ WorkerMade(w)
  BY WorkerFacts
<1>2. x \in WorkerRows /\ x.run = workers[w].run
  BY <1>1 DEF WorkerRows, HttpPcs, Answers
<1>3. workers' = [workers EXCEPT ![w] = x]
  BY <1>1 DEF Http!Refuse, HttpTypes
<1>4. workers'[w] = x
  BY <1>1, <1>3 DEF HttpTypes
<1>5. WorkerMade(w)' /\ WorkerSaw(w)'
  BY <1>1, <1>2, <1>4 DEF WorkerMade, WorkerSaw, Left, WorkerRows
<1> QED
  BY <1>2, <1>3, <1>5, WorkerGoes

\* A step that only moves a worker on.
LEMMA GoingOn ==
  ASSUME HttpInv, NEW w \in Workers, NEW at \in HttpPcs, Http!Goes(w, at)
  PROVE  \E x \in WorkerRows :
           /\ workers' = [workers EXCEPT ![w] = x] /\ workers'[w] = x
           /\ x.pc = at /\ x.run = workers[w].run
           /\ x.answer = workers[w].answer /\ x.bound = workers[w].bound
           /\ x.probed = workers[w].probed /\ x.created = workers[w].created
<1> DEFINE x == [workers[w] EXCEPT !.pc = at]
<1>1. workers \in [Workers -> WorkerRows] /\ workers[w] \in WorkerRows
  BY DEF HttpInv, HttpTypes
<1>2. /\ x \in WorkerRows /\ x.pc = at /\ x.run = workers[w].run
      /\ x.answer = workers[w].answer /\ x.bound = workers[w].bound
      /\ x.probed = workers[w].probed /\ x.created = workers[w].created
  BY <1>1 DEF WorkerRows
<1>3. workers' = [workers EXCEPT ![w] = x]
  BY <1>1 DEF Http!Goes
<1>4. workers'[w] = x
  BY <1>1, <1>3
<1> HIDE DEF x
<1> QED
  BY <1>2, <1>3, <1>4

LEMMA ClaimMoves ==
  ASSUME HttpInv, NEW w \in Workers, Http!Claim(w) PROVE HttpInv'
<1>1. workers[w].pc = "claim"
  BY DEF Http!Claim
<1>2. WorkerMade(w) /\ WorkerSaw(w) /\ workers[w] \in WorkerRows
  BY <1>1, WorkerFacts
<1>3. UNCHANGED <<attempt, box, runs, verifiers, late>>
  BY DEF Http!Claim, Http!rest1, Http!rest3
<1>4. CASE Http!Refuse(w, "refused")
  BY <1>1, <1>3, <1>4, Refusals DEF Reasons
<1>5. CASE Http!Goes(w, "create")
  <2>1. "create" \in HttpPcs
    BY DEF HttpPcs
  <2>2. PICK x \in WorkerRows :
           /\ workers' = [workers EXCEPT ![w] = x] /\ workers'[w] = x
           /\ x.pc = "create" /\ x.run = workers[w].run
           /\ x.answer = workers[w].answer /\ x.created = workers[w].created
    BY <1>5, <2>1, GoingOn
  <2>3. WorkerMade(w)' /\ WorkerSaw(w)'
    BY <1>1, <1>2, <1>3, <2>2 DEF WorkerMade, WorkerSaw, Left
  <2> QED
    BY <1>1, <1>3, <2>2, <2>3, WorkerGoes
<1> QED
  BY <1>4, <1>5 DEF Http!Claim

\* The container is made where the target was found, so its start is not
\* after the container's from here on.
LEMMA CreateMoves ==
  ASSUME HttpInv, NEW w \in Workers, Http!Create(w) PROVE HttpInv'
<1> DEFINE r == workers[w].run
<1>1. workers[w].pc = "create"
  BY DEF Http!Create
<1>2. /\ HttpTypes /\ workers[w] \in WorkerRows /\ Wanted(w) \in Boxes
      /\ r \in Http!Runs /\ WorkerMade(w) /\ WorkerSaw(w)
  BY <1>1, WorkerFacts
<1>3. UNCHANGED <<attempt, box, runs>>
  BY DEF Http!Create, Http!rest1, Http!rest3
<1>4. CASE Http!Refuse(w, "runtime_changed") /\ UNCHANGED <<verifiers, late>>
  BY <1>1, <1>3, <1>4, Refusals DEF Reasons
<1>5. ASSUME NEW x \in WorkerRows, workers' = [workers EXCEPT ![w] = x],
             Http!Target(r), x.run = r, x.answer = workers[w].answer,
             \/ x.created = "yes" /\ x.pc = "start" /\ UNCHANGED late
             \/ x.created = "lost" /\ x.pc = "cleanup",
             \A q \in Http!Runs : q # r => /\ (q \in verifiers') = (q \in verifiers)
                                           /\ (q \in late') = (q \in late)
      PROVE  HttpInv'
  <2>1. workers'[w] = x
    BY <1>2, <1>5 DEF HttpTypes
  <2>2. NotAfter(Wanted(w), box)
    BY <1>2, <1>5 DEF Http!Target, Wanted, NotAfter, Boxes
  <2>3. NotAfter(Wanted(w), box)'
    BY <1>3, <1>5, <2>1, <2>2 DEF Wanted
  <2>4. workers[w].answer = "unknown" /\ workers[w].created = "no" /\ r \notin late
    BY <1>1, <1>2 DEF WorkerMade, WorkerSaw, Left
  <2>5. WorkerSaw(w)'
    BY <1>5, <2>1, <2>3, <2>4 DEF WorkerSaw
  <2>6. WorkerMade(w)'
    BY <1>5, <2>1, <2>4 DEF WorkerMade
  <2> QED
    BY <1>1, <1>3, <1>5, <2>5, <2>6, WorkerGoes
<1>6. ASSUME Http!Target(r), verifiers' = verifiers \cup {r}, UNCHANGED late,
             workers' = [workers EXCEPT ![w].created = "yes",
                           ![w].why = "none", ![w].pc = "start"]
      PROVE  HttpInv'
  <2>1. PICK x : x = [workers[w] EXCEPT !.created = "yes", !.why = "none",
                                        !.pc = "start"]
    OBVIOUS
  <2>2. /\ x \in WorkerRows /\ x.run = r /\ x.answer = workers[w].answer
        /\ x.created = "yes" /\ x.pc = "start"
    BY <1>2, <2>1 DEF WorkerRows, HttpPcs, Reasons
  <2>3. workers' = [workers EXCEPT ![w] = x]
    BY <1>2, <1>6, <2>1 DEF HttpTypes
  <2>4. \A q \in Http!Runs : q # r => /\ (q \in verifiers') = (q \in verifiers)
                                      /\ (q \in late') = (q \in late)
    BY <1>6
  <2> QED
    BY <1>5, <1>6, <2>2, <2>3, <2>4
<1>7. ASSUME Http!Target(r),
             \/ verifiers' = verifiers \cup {r} /\ UNCHANGED late
             \/ late' = late \cup {r} /\ UNCHANGED verifiers,
             workers' = [workers EXCEPT ![w].created = "lost",
                           ![w].why = "timeout", ![w].pc = "cleanup"]
      PROVE  HttpInv'
  <2>1. PICK x : x = [workers[w] EXCEPT !.created = "lost", !.why = "timeout",
                                        !.pc = "cleanup"]
    OBVIOUS
  <2>2. /\ x \in WorkerRows /\ x.run = r /\ x.answer = workers[w].answer
        /\ x.created = "lost" /\ x.pc = "cleanup"
    BY <1>2, <2>1 DEF WorkerRows, HttpPcs, Reasons
  <2>3. workers' = [workers EXCEPT ![w] = x]
    BY <1>2, <1>7, <2>1 DEF HttpTypes
  <2>4. \A q \in Http!Runs : q # r => /\ (q \in verifiers') = (q \in verifiers)
                                      /\ (q \in late') = (q \in late)
    BY <1>7
  <2> QED
    BY <1>5, <1>7, <2>2, <2>3, <2>4
<1> QED
  BY <1>4, <1>6, <1>7 DEF Http!Create

LEMMA StartMoves ==
  ASSUME HttpInv, NEW w \in Workers, Http!Start(w) PROVE HttpInv'
<1>1. workers[w].pc = "start"
  BY DEF Http!Start
<1>2. WorkerMade(w) /\ WorkerSaw(w) /\ workers[w] \in WorkerRows
  BY <1>1, WorkerFacts
<1>3. UNCHANGED <<attempt, box, runs, verifiers, late>>
  BY DEF Http!Start, Http!rest1, Http!rest2, Http!rest3
<1>4. CASE Http!Refuse(w, "stale_execution")
  BY <1>1, <1>3, <1>4, Refusals DEF Reasons
<1>5. CASE Http!Goes(w, "probe")
  <2>1. "probe" \in HttpPcs
    BY DEF HttpPcs
  <2>2. PICK x \in WorkerRows :
           /\ workers' = [workers EXCEPT ![w] = x] /\ workers'[w] = x
           /\ x.pc = "probe" /\ x.run = workers[w].run
           /\ x.answer = workers[w].answer /\ x.created = workers[w].created
    BY <1>5, <2>1, GoingOn
  <2>3. Wanted(w)' = Wanted(w)
    BY <1>3, <2>2 DEF Wanted
  <2>4. NotAfter(Wanted(w), box)'
    BY <1>1, <1>2, <1>3, <2>3 DEF WorkerSaw, NotAfter
  <2>5. WorkerMade(w)' /\ WorkerSaw(w)'
    BY <1>1, <1>2, <1>3, <2>2, <2>4 DEF WorkerMade, WorkerSaw, Left
  <2> QED
    BY <1>1, <1>3, <2>2, <2>5, WorkerGoes
<1> QED
  BY <1>4, <1>5 DEF Http!Start

\* What answers is no earlier start than the pinned one.
LEMMA ProbeMoves ==
  ASSUME HttpInv, NEW w \in Workers, Http!Probe(w) PROVE HttpInv'
<1>1. workers[w].pc = "probe"
  BY DEF Http!Probe
<1>2. /\ HttpTypes /\ WorkerMade(w) /\ WorkerSaw(w) /\ workers[w] \in WorkerRows
      /\ Wanted(w) \in Boxes
  BY <1>1, WorkerFacts
<1>3. UNCHANGED <<attempt, box, runs, verifiers, late>>
  BY DEF Http!Probe, Http!rest1, Http!rest2, Http!rest3
<1>4. CASE Http!Refuse(w, "timeout")
  BY <1>1, <1>3, <1>4, Refusals DEF Reasons
<1>5. ASSUME NEW answer \in Answers,
             workers' = [workers EXCEPT ![w].pc = "verify",
                           ![w].answer = answer, ![w].probed = box]
      PROVE  HttpInv'
  <2>1. PICK x : x = [workers[w] EXCEPT !.pc = "verify", !.answer = answer,
                                        !.probed = box]
    OBVIOUS
  <2>2. /\ x \in WorkerRows /\ x.pc = "verify" /\ x.run = workers[w].run
        /\ x.probed = box /\ x.created = workers[w].created
    BY <1>2, <2>1 DEF WorkerRows, HttpPcs, HttpTypes
  <2>3. workers' = [workers EXCEPT ![w] = x]
    BY <1>2, <1>5, <2>1 DEF HttpTypes
  <2>4. workers'[w] = x
    BY <1>2, <2>3 DEF HttpTypes
  <2>5. Wanted(w)' = Wanted(w)
    BY <1>3, <2>2, <2>4 DEF Wanted
  <2>6. NotAfter(Wanted(w), box) /\ NotAfter(box, box)
    BY <1>1, <1>2 DEF WorkerSaw, NotAfter, HttpTypes, Boxes
  <2>7. NotAfter(Wanted(w), box)' /\ NotAfter(Wanted(w), workers[w].probed)'
        /\ NotAfter(workers[w].probed, box)'
    BY <1>3, <2>2, <2>4, <2>5, <2>6 DEF NotAfter
  <2>8. WorkerMade(w)' /\ WorkerSaw(w)'
    BY <1>1, <1>2, <1>3, <2>2, <2>4, <2>7 DEF WorkerMade, WorkerSaw, Left
  <2> QED
    BY <1>1, <1>3, <2>2, <2>3, <2>8, WorkerGoes
<1> QED
  BY <1>4, <1>5 DEF Http!Probe, Answers

\* The container is inspected again after the answer: it is the pinned one, so
\* it was when it answered.
LEMMA InspectMoves ==
  ASSUME HttpInv, NEW w \in Workers, Http!Inspect(w) PROVE HttpInv'
<1>1. workers[w].pc = "verify"
  BY DEF Http!Inspect
<1>2. /\ HttpTypes /\ WorkerMade(w) /\ WorkerSaw(w) /\ workers[w] \in WorkerRows
      /\ Wanted(w) \in Boxes
  BY <1>1, WorkerFacts
<1>3. UNCHANGED <<attempt, box, runs, verifiers, late>>
  BY DEF Http!Inspect, Http!rest1, Http!rest2, Http!rest3
<1>4. CASE Http!Refuse(w, "runtime_changed")
  BY <1>1, <1>3, <1>4, Refusals DEF Reasons
<1>5. CASE Http!Goes(w, "fence") /\ Http!Target(workers[w].run)
  <2>1. "fence" \in HttpPcs
    BY DEF HttpPcs
  <2>2. PICK x \in WorkerRows :
           /\ workers' = [workers EXCEPT ![w] = x] /\ workers'[w] = x
           /\ x.pc = "fence" /\ x.run = workers[w].run
           /\ x.answer = workers[w].answer /\ x.created = workers[w].created
           /\ x.probed = workers[w].probed
    BY <1>5, <2>1, GoingOn
  <2>3. Wanted(w)' = Wanted(w)
    BY <1>3, <2>2 DEF Wanted
  <2>4. box = Wanted(w) /\ workers[w].probed \in Boxes
    BY <1>2, <1>5 DEF Http!Target, Wanted, WorkerRows
  <2>5. NotAfter(Wanted(w), workers[w].probed) /\ NotAfter(workers[w].probed, box)
    BY <1>1, <1>2 DEF WorkerSaw
  <2>6. workers[w].probed = Wanted(w)
    BY <1>2, <2>4, <2>5, NotAfterBoth
  <2>7. WorkerMade(w)' /\ WorkerSaw(w)'
    BY <1>1, <1>2, <1>3, <2>2, <2>3, <2>6 DEF WorkerMade, WorkerSaw, Left
  <2> QED
    BY <1>1, <1>3, <2>2, <2>7, WorkerGoes
<1> QED
  BY <1>4, <1>5 DEF Http!Inspect

LEMMA FenceMoves ==
  ASSUME HttpInv, NEW w \in Workers, Http!Fence(w) PROVE HttpInv'
<1>1. workers[w].pc = "fence"
  BY DEF Http!Fence
<1>2. HttpTypes /\ WorkerMade(w) /\ WorkerSaw(w) /\ workers[w] \in WorkerRows
  BY <1>1, WorkerFacts
<1>3. UNCHANGED <<attempt, box, runs, verifiers, late>>
  BY DEF Http!Fence, Http!rest1, Http!rest2, Http!rest3
<1>4. CASE Http!Refuse(w, "stale_execution")
  BY <1>1, <1>3, <1>4, Refusals DEF Reasons
<1>5. CASE workers' = [workers EXCEPT ![w].pc = "cleanup", ![w].bound = TRUE]
  <2>1. PICK bound \in BOOLEAN : bound = TRUE
    OBVIOUS
  <2>2. PICK x : x = [workers[w] EXCEPT !.pc = "cleanup", !.bound = bound]
    OBVIOUS
  <2>3. /\ x \in WorkerRows /\ x.pc = "cleanup" /\ x.run = workers[w].run
        /\ x.answer = workers[w].answer /\ x.created = workers[w].created
        /\ x.probed = workers[w].probed
    BY <1>2, <2>2 DEF WorkerRows, HttpPcs
  <2>4. workers' = [workers EXCEPT ![w] = x]
    BY <1>2, <1>5, <2>1, <2>2 DEF HttpTypes
  <2>5. workers'[w] = x
    BY <1>2, <2>4 DEF HttpTypes
  <2>6. Wanted(w)' = Wanted(w)
    BY <1>3, <2>3, <2>5 DEF Wanted
  <2>7. WorkerMade(w)' /\ WorkerSaw(w)'
    BY <1>1, <1>2, <1>3, <2>3, <2>5, <2>6 DEF WorkerMade, WorkerSaw, Left
  <2> QED
    BY <1>1, <1>3, <2>3, <2>4, <2>7, WorkerGoes
<1> QED
  BY <1>4, <1>5 DEF Http!Fence

\* Only a container that was made for certain and is gone lets an answer
\* through.
LEMMA CleanupMoves ==
  ASSUME HttpInv, NEW w \in Workers, Http!Cleanup(w) PROVE HttpInv'
<1> DEFINE r == workers[w].run
           next == IF workers[w].bound THEN "again" ELSE "commit"
<1>1. workers[w].pc = "cleanup"
  BY DEF Http!Cleanup
<1>2. /\ HttpTypes /\ WorkerMade(w) /\ WorkerSaw(w) /\ workers[w] \in WorkerRows
      /\ r \in Http!Runs
  BY <1>1, WorkerFacts
<1>3. UNCHANGED <<attempt, box, runs, late>>
  BY DEF Http!Cleanup, Http!rest1, Http!rest3
<1>4. \A q \in Http!Runs : q # r => /\ (q \in verifiers') = (q \in verifiers)
                                    /\ (q \in late') = (q \in late)
  BY <1>3 DEF Http!Cleanup
<1>5. ASSUME Http!CleanupUnknown(w), UNCHANGED verifiers PROVE HttpInv'
  <2>1. PICK x : x = [workers[w] EXCEPT !.pc = "commit", !.answer = "unknown",
                                        !.bound = FALSE, !.why = "cleanup_unknown"]
    OBVIOUS
  <2>2. /\ x \in WorkerRows /\ x.pc = "commit" /\ x.run = workers[w].run
        /\ x.answer = "unknown" /\ x.created = workers[w].created
    BY <1>2, <2>1 DEF WorkerRows, HttpPcs, Answers, Reasons
  <2>3. workers' = [workers EXCEPT ![w] = x]
    BY <1>2, <1>5, <2>1 DEF HttpTypes, Http!CleanupUnknown
  <2>4. workers'[w] = x
    BY <1>2, <2>3 DEF HttpTypes
  <2>5. WorkerMade(w)' /\ WorkerSaw(w)'
    BY <1>2, <1>3, <1>5, <2>2, <2>4 DEF WorkerMade, WorkerSaw, Left
  <2> QED
    BY <1>1, <1>3, <1>4, <2>2, <2>3, <2>5, WorkerGoes
<1>6. ASSUME Http!Goes(w, next),
             \/ workers[w].created = "no" /\ UNCHANGED verifiers
             \/ workers[w].created # "no" /\ verifiers' = verifiers \ {r}
             \/ /\ workers[w].created = "yes" /\ r \notin verifiers
                /\ UNCHANGED verifiers
      PROVE  HttpInv'
  <2>1. next \in HttpPcs /\ next \in {"again", "commit"}
    BY DEF HttpPcs
  <2>2. PICK x \in WorkerRows :
           /\ workers' = [workers EXCEPT ![w] = x] /\ workers'[w] = x
           /\ x.pc = next /\ x.run = workers[w].run
           /\ x.answer = workers[w].answer /\ x.created = workers[w].created
           /\ x.probed = workers[w].probed
    BY <1>6, <2>1, GoingOn
  <2>3. Wanted(w)' = Wanted(w)
    BY <1>3, <2>2 DEF Wanted
  <2>4. WorkerSaw(w)'
    BY <1>1, <1>2, <2>1, <2>2, <2>3 DEF WorkerSaw
  <2>5. workers[w].created \in {"no", "yes", "lost"}
    BY <1>2 DEF WorkerRows
  <2>6. workers[w].answer # "unknown" => r \notin verifiers' /\ r \notin late
    BY <1>2, <1>6, <2>5 DEF WorkerMade, Left
  <2>7. /\ workers[w].created = "no" => r \notin verifiers' /\ r \notin late
        /\ workers[w].created = "yes" => r \notin late
        /\ workers[w].created = "lost" => workers[w].answer = "unknown"
    BY <1>2, <1>6 DEF WorkerMade, Left
  <2>8. WorkerMade(w)'
    BY <1>3, <2>1, <2>2, <2>6, <2>7 DEF WorkerMade, Left
  <2> QED
    BY <1>1, <1>3, <1>4, <2>2, <2>4, <2>8, WorkerGoes
<1> QED
  BY <1>5, <1>6 DEF Http!Cleanup

LEMMA AgainMoves ==
  ASSUME HttpInv, NEW w \in Workers, Http!Again(w) PROVE HttpInv'
<1>1. workers[w].pc = "again"
  BY DEF Http!Again
<1>2. HttpTypes /\ WorkerMade(w) /\ WorkerSaw(w) /\ workers[w] \in WorkerRows
  BY <1>1, WorkerFacts
<1>3. UNCHANGED <<attempt, box, runs, verifiers, late>>
  BY DEF Http!Again, Http!rest1, Http!rest2, Http!rest3
<1>4. CASE Http!Goes(w, "commit")
  <2>1. "commit" \in HttpPcs
    BY DEF HttpPcs
  <2>2. PICK x \in WorkerRows :
           /\ workers' = [workers EXCEPT ![w] = x] /\ workers'[w] = x
           /\ x.pc = "commit" /\ x.run = workers[w].run
           /\ x.answer = workers[w].answer /\ x.created = workers[w].created
           /\ x.probed = workers[w].probed
    BY <1>4, <2>1, GoingOn
  <2>3. Wanted(w)' = Wanted(w)
    BY <1>3, <2>2 DEF Wanted
  <2>4. WorkerMade(w)' /\ WorkerSaw(w)'
    BY <1>1, <1>2, <1>3, <2>2, <2>3 DEF WorkerMade, WorkerSaw, Left
  <2> QED
    BY <1>1, <1>3, <2>2, <2>4, WorkerGoes
<1>5. ASSUME NEW why \in Reasons,
             workers' = [workers EXCEPT ![w].pc = "commit",
               ![w].answer = "unknown", ![w].bound = FALSE, ![w].why = why]
      PROVE  HttpInv'
  <2>1. PICK x : x = [workers[w] EXCEPT !.pc = "commit", !.answer = "unknown",
                                        !.bound = FALSE, !.why = why]
    OBVIOUS
  <2>2. /\ x \in WorkerRows /\ x.pc = "commit" /\ x.run = workers[w].run
        /\ x.answer = "unknown" /\ x.created = workers[w].created
    BY <1>2, <2>1 DEF WorkerRows, HttpPcs, Answers
  <2>3. workers' = [workers EXCEPT ![w] = x]
    BY <1>2, <1>5, <2>1 DEF HttpTypes
  <2>4. workers'[w] = x
    BY <1>2, <2>3 DEF HttpTypes
  <2>5. WorkerMade(w)' /\ WorkerSaw(w)'
    BY <1>2, <1>3, <2>2, <2>4 DEF WorkerMade, WorkerSaw, Left
  <2> QED
    BY <1>1, <1>3, <2>2, <2>3, <2>5, WorkerGoes
<1>6. "stale_execution" \in Reasons /\ "artifact_unavailable" \in Reasons
  BY DEF Reasons
<1> QED
  BY <1>4, <1>5, <1>6 DEF Http!Again

LEMMA IdleTyped == Http!Idle \in WorkerRows /\ Http!Idle.pc = "idle"
BY DEF Http!Idle, WorkerRows, HttpPcs, Answers, Reasons, Http!NoBox, Boxes

\* A worker that is done leaves its run as it was or ended, and with a verdict
\* only when nothing of it is left.
LEMMA WorkerEnds ==
  ASSUME HttpInv, NEW w \in Workers, workers[w].pc # "idle",
         NEW http \in Answers, NEW why \in Reasons, Http!End(w, http, why),
         http = "unknown" \/ ~Left(workers[w].run),
         UNCHANGED <<attempt, box, verifiers, late>>
  PROVE  HttpInv'
<1>1. HttpTypes /\ workers[w].run \in Http!Runs
  BY WorkerFacts
<1>2. PICK r \in Http!Runs : r = workers[w].run
  BY <1>1
<1>3. RunKept(r) /\ WorkerRun(w)
  BY <1>2, WorkerFacts
<1>4. runs' = Http!Finished(r, http, why) /\ workers' = [workers EXCEPT ![w] = Http!Idle]
  BY <1>2 DEF Http!End
<1>10. /\ runs' \in [Http!Runs -> RunRows]
       /\ \A q \in Http!Runs : q # r => runs'[q] = runs[q]
       /\ \/ runs' = runs
          \/ /\ runs'[r].status = "finished" /\ runs'[r].http = http
             /\ runs'[r].identity = runs[r].identity
  BY <1>1, <1>4, EndedRuns
<1>5. HttpTypes'
  BY <1>1, <1>4, <1>10, IdleTyped DEF HttpTypes
<1>6. workers'[w].pc = "idle" /\ \A v \in Workers : v # w => workers'[v] = workers[v]
  BY <1>1, <1>4, IdleTyped DEF HttpTypes
<1>7. \A q \in Http!Runs : q # r => runs'[q] = runs[q]
  BY <1>10
<1>8. RunKept(r)'
  <2>1. CASE runs' = runs
    BY <1>3, <2>1 DEF RunKept, Left
  <2>2. CASE /\ runs'[r].status = "finished" /\ runs'[r].http = http
             /\ runs'[r].identity = runs[r].identity
    BY <1>2, <1>3, <2>2 DEF RunKept, Left, WorkerRun
  <2> QED
    BY <1>10, <2>1, <2>2
<1>9. WorkerKept(w)'
  BY <1>6 DEF WorkerKept
<1> QED
  BY <1>2, <1>5, <1>6, <1>7, <1>8, <1>9, WorkerMoves

LEMMA PinMoves ==
  ASSUME HttpInv, NEW w \in Workers, Http!Pin(w) PROVE HttpInv'
<1>1. workers[w].pc = "pin"
  BY DEF Http!Pin
<1>2. /\ HttpTypes /\ workers[w].run \in Http!Runs /\ WorkerRun(w) /\ WorkerMade(w)
      /\ WorkerSaw(w)
  BY <1>1, WorkerFacts
<1>3. UNCHANGED <<attempt, box, verifiers, late>>
  BY DEF Http!Pin, Http!rest1, Http!rest2, Http!rest3
<1>4. CASE Http!End(w, "unknown", "stale")
  <2>1. "unknown" \in Answers /\ "stale" \in Reasons
    BY DEF Answers, Reasons
  <2> QED
    BY <1>1, <1>3, <1>4, <2>1, WorkerEnds
<1>5. CASE /\ runs' = [runs EXCEPT ![workers[w].run].pinned = TRUE]
           /\ Http!Goes(w, "claim")
  <2>1. PICK r \in Http!Runs : r = workers[w].run
    BY <1>2
  <2>2. PICK pinned \in BOOLEAN : pinned = TRUE
    OBVIOUS
  <2>3. PICK y : y = [runs[r] EXCEPT !.pinned = pinned]
    OBVIOUS
  <2>4. runs[r] \in RunRows /\ RunKept(r)
    BY <1>1, <1>2, <2>1, WorkerFacts DEF HttpTypes
  <2>5. /\ y \in RunRows /\ y.status = runs[r].status /\ y.http = runs[r].http
        /\ y.identity = runs[r].identity
    BY <2>3, <2>4 DEF RunRows
  <2>6. runs' = [runs EXCEPT ![r] = y]
    BY <1>2, <1>5, <2>1, <2>2, <2>3 DEF HttpTypes
  <2>7. /\ runs' \in [Http!Runs -> RunRows] /\ runs'[r] = y
        /\ \A q \in Http!Runs : q # r => runs'[q] = runs[q]
    BY <1>2, <2>5, <2>6 DEF HttpTypes
  <2>8. "claim" \in HttpPcs
    BY DEF HttpPcs
  <2>9. PICK x \in WorkerRows :
           /\ workers' = [workers EXCEPT ![w] = x] /\ workers'[w] = x
           /\ x.pc = "claim" /\ x.run = workers[w].run
           /\ x.answer = workers[w].answer /\ x.created = workers[w].created
    BY <1>5, <2>8, GoingOn
  <2>10. HttpTypes' /\ \A v \in Workers : v # w => workers'[v] = workers[v]
    BY <1>2, <1>3, <2>7, <2>9 DEF HttpTypes
  <2>11. RunKept(r)'
    BY <1>3, <2>4, <2>5, <2>7 DEF RunKept, Left
  <2>12. WorkerRun(w)'
    BY <1>2, <2>1, <2>5, <2>7, <2>9 DEF WorkerRun
  <2>13. WorkerMade(w)' /\ WorkerSaw(w)'
    BY <1>1, <1>2, <1>3, <2>9 DEF WorkerMade, WorkerSaw, Left
  <2>14. WorkerKept(w)'
    BY <2>12, <2>13 DEF WorkerKept
  <2> QED
    BY <1>1, <1>3, <2>1, <2>7, <2>9, <2>10, <2>11, <2>14, WorkerMoves
<1> QED
  BY <1>4, <1>5 DEF Http!Pin

\* An answer that is committed is one whose worker has cleaned up.
LEMMA CommitMoves ==
  ASSUME HttpInv, NEW w \in Workers, Http!Commit(w) PROVE HttpInv'
<1>1. workers[w].pc = "commit"
  BY DEF Http!Commit
<1>2. workers[w] \in WorkerRows /\ WorkerMade(w)
  BY <1>1, WorkerFacts
<1>3. UNCHANGED <<attempt, box, verifiers, late>>
  BY DEF Http!Commit, Http!rest1, Http!rest2, Http!rest3
<1>4. workers[w].answer \in Answers /\ workers[w].why \in Reasons
  BY <1>2 DEF WorkerRows
<1>5. "unknown" \in Answers /\ "stale" \in Reasons
  BY DEF Answers, Reasons
<1>6. CASE Http!End(w, workers[w].answer, workers[w].why)
  BY <1>1, <1>2, <1>3, <1>4, <1>6, WorkerEnds DEF WorkerMade
<1>7. CASE Http!End(w, "unknown", "stale")
  BY <1>1, <1>3, <1>5, <1>7, WorkerEnds
<1> QED
  BY <1>6, <1>7 DEF Http!Commit

LEMMA CrashMoves ==
  ASSUME HttpInv, NEW w \in Workers, Http!Crash(w) PROVE HttpInv'
<1>1. workers[w].pc # "idle"
  BY DEF Http!Crash
<1>2. UNCHANGED <<attempt, box, runs, verifiers, late>>
  BY DEF Http!Crash, Http!rest2, Http!rest3
<1>3. PICK r \in Http!Runs : r = workers[w].run
  BY <1>1, WorkerFacts
<1>4. HttpTypes /\ RunKept(r)
  BY <1>1, <1>3, WorkerFacts
<1>5. workers' = [workers EXCEPT ![w] = Http!Idle]
  BY DEF Http!Crash
<1>6. /\ HttpTypes' /\ workers'[w].pc = "idle"
      /\ \A v \in Workers : v # w => workers'[v] = workers[v]
  BY <1>2, <1>4, <1>5, IdleTyped DEF HttpTypes
<1>7. RunKept(r)' /\ WorkerKept(w)'
  BY <1>2, <1>4, <1>6 DEF RunKept, Left, WorkerKept
<1> QED
  BY <1>1, <1>2, <1>3, <1>6, <1>7, WorkerMoves

\* A run that changes while nobody works on it.
LEMMA RunMoves ==
  ASSUME HttpInv, NEW r \in Http!Runs, UNCHANGED <<attempt, box, workers, verifiers, late>>,
         runs' \in [Http!Runs -> RunRows],
         \A q \in Http!Runs : q # r => runs'[q] = runs[q],
         RunKept(r)',
         \/ runs[r].status \in {"none", "queued"}
         \/ /\ runs'[r].status \in {"running", "finished"}
            /\ runs'[r].http = "unknown"
            /\ runs'[r].identity = runs[r].identity
  PROVE  HttpInv'
<1>1. HttpTypes' /\ BoxBehind' /\ OneWorker'
  BY DEF HttpInv, HttpTypes, BoxBehind, OneWorker
<1>2. \A q \in Http!Runs : q # r => RunKept(q)'
  BY DEF HttpInv, RunKept, Left
<1>3. ASSUME NEW v \in Workers PROVE WorkerKept(v)'
  <2> SUFFICES ASSUME workers[v].pc # "idle"
               PROVE  WorkerRun(v)' /\ WorkerMade(v)' /\ WorkerSaw(v)'
    BY DEF WorkerKept
  <2>1. WorkerRun(v) /\ WorkerMade(v) /\ WorkerSaw(v) /\ workers[v].run \in Http!Runs
    BY WorkerFacts
  <2>2. runs'[workers[v].run] = runs[workers[v].run]
        \/ (/\ workers[v].run = r
            /\ runs'[r].status \in {"running", "finished"}
            /\ runs'[r].http = "unknown"
            /\ runs'[r].identity = runs[r].identity)
    BY <2>1, NoWorkerYet
  <2>3. WorkerRun(v)' /\ Wanted(v)' = Wanted(v)
    BY <2>1, <2>2 DEF WorkerRun, Wanted
  <2>4. WorkerMade(v)' /\ WorkerSaw(v)'
    BY <2>1, <2>3 DEF WorkerMade, WorkerSaw, Left
  <2> QED
    BY <2>3, <2>4
<1> QED
  BY <1>1, <1>2, <1>3 DEF HttpInv

LEMMA RequestMoves ==
  ASSUME HttpInv, NEW r \in Http!Runs, Http!request_observation(r) PROVE HttpInv'
<1>1. UNCHANGED <<attempt, box, workers, verifiers, late>>
  BY DEF Http!request_observation, Http!rest1, Http!rest2
<1>2. HttpTypes /\ RunKept(r) /\ runs[r].status = "none"
  BY DEF HttpInv, Http!request_observation
<1>3. PICK y : y = [Http!NoRun EXCEPT !.status = "queued", !.identity = Http!Identity]
  OBVIOUS
<1>4. Http!Identity \in Identities
  BY <1>2 DEF HttpTypes, Http!Identity, Identities
<1>5. /\ y.status = "queued" /\ y.http = "unknown" /\ y.identity = Http!Identity
      /\ y \in RunRows
  BY <1>3, <1>4 DEF Http!NoRun, RunRows, Answers, Reasons
<1>6. runs' = [runs EXCEPT ![r] = y]
  BY <1>3 DEF Http!request_observation
<1>7. /\ runs' \in [Http!Runs -> RunRows] /\ runs'[r] = y
      /\ \A q \in Http!Runs : q # r => runs'[q] = runs[q]
  BY <1>2, <1>5, <1>6 DEF HttpTypes
<1>8. RunKept(r)'
  BY <1>1, <1>2, <1>4, <1>5, <1>7 DEF RunKept, Left
<1> QED
  BY <1>1, <1>2, <1>7, <1>8, RunMoves

LEMMA RaisedMoves ==
  ASSUME HttpInv, NEW r \in Http!Runs, Http!DispatchRaised(r) PROVE HttpInv'
<1>1. UNCHANGED <<attempt, box, workers, verifiers, late>>
  BY DEF Http!DispatchRaised, Http!rest1, Http!rest2
<1>2. HttpTypes /\ RunKept(r)
  BY DEF HttpInv
<1>3. "unknown" \in Answers /\ "dispatch_unavailable" \in Reasons
  BY DEF Answers, Reasons
<1>4. runs' = Http!Finished(r, "unknown", "dispatch_unavailable")
  BY DEF Http!DispatchRaised, Http!DispatchFailed
<1>5. /\ runs' \in [Http!Runs -> RunRows]
      /\ \A q \in Http!Runs : q # r => runs'[q] = runs[q]
      /\ \/ runs' = runs
         \/ /\ r \in Http!Active
            /\ runs'[r].status = "finished" /\ runs'[r].http = "unknown"
            /\ runs'[r].identity = runs[r].identity
  BY <1>2, <1>3, <1>4, EndedRuns
<1>6. CASE runs' = runs
  <2>1. HttpTypes' /\ BoxBehind' /\ NotAfter(box, box')
    BY <1>1, <1>2, <1>6 DEF HttpInv, HttpTypes, BoxBehind, NotAfter, Boxes
  <2> QED
    BY <1>1, <1>6, <2>1, Surroundings
<1>7. CASE /\ r \in Http!Active
           /\ runs'[r].status = "finished" /\ runs'[r].http = "unknown"
           /\ runs'[r].identity = runs[r].identity
  <2>1. RunKept(r)'
    BY <1>1, <1>2, <1>7 DEF RunKept, Left, Http!Active
  <2> QED
    BY <1>1, <1>5, <1>7, <2>1, RunMoves
<1> QED
  BY <1>5, <1>6, <1>7

\* Of the messages of a run only the first finds it waiting.
LEMMA DeliverMoves ==
  ASSUME HttpInv, NEW w \in Workers, NEW r \in Http!Runs, Http!Deliver(w, r) PROVE HttpInv'
<1>1. workers[w].pc = "idle" /\ UNCHANGED <<attempt, box, verifiers, late>>
  BY DEF Http!Deliver, Http!rest1, Http!rest2
<1>2. HttpTypes /\ BoxBehind /\ RunKept(r)
  BY DEF HttpInv
<1>3. CASE UNCHANGED <<runs, workers>>
  <2>1. HttpTypes' /\ BoxBehind' /\ NotAfter(box, box')
    BY <1>1, <1>2, <1>3 DEF HttpTypes, BoxBehind, NotAfter, Boxes
  <2> QED
    BY <1>1, <1>3, <2>1, Surroundings
<1>4. CASE /\ runs[r].status = "queued"
           /\ runs' = [runs EXCEPT ![r].status = "running"]
           /\ workers' = [workers EXCEPT ![w] = [Http!Idle EXCEPT !.pc = "pin", !.run = r]]
  <2>1. PICK y : y = [runs[r] EXCEPT !.status = "running"]
    OBVIOUS
  <2>2. /\ y \in RunRows /\ y.status = "running" /\ y.http = runs[r].http
        /\ y.identity = runs[r].identity
    BY <1>2, <2>1 DEF HttpTypes, RunRows
  <2>3. runs' = [runs EXCEPT ![r] = y]
    BY <1>2, <1>4, <2>1 DEF HttpTypes
  <2>4. /\ runs' \in [Http!Runs -> RunRows] /\ runs'[r] = y
        /\ \A q \in Http!Runs : q # r => runs'[q] = runs[q]
    BY <1>2, <2>2, <2>3 DEF HttpTypes
  <2>5. PICK x : x = [Http!Idle EXCEPT !.pc = "pin", !.run = r]
    OBVIOUS
  <2>6. /\ x \in WorkerRows /\ x.pc = "pin" /\ x.run = r /\ x.answer = "unknown"
        /\ x.created = "no"
    BY <2>5, IdleTyped DEF Http!Idle, WorkerRows, HttpPcs
  <2>7. workers' = [workers EXCEPT ![w] = x]
    BY <1>4, <2>5
  <2>8. /\ workers' \in [Workers -> WorkerRows] /\ workers'[w] = x
        /\ \A v \in Workers : v # w => workers'[v] = workers[v]
    BY <1>2, <2>6, <2>7 DEF HttpTypes
  <2>9. HttpTypes' /\ BoxBehind'
    BY <1>1, <1>2, <2>4, <2>8 DEF HttpTypes, BoxBehind
  <2>10. runs[r].http = "unknown" /\ r \notin verifiers /\ r \notin late
         /\ runs[r].identity \in Identities
    BY <1>2, <1>4 DEF RunKept, Left
  <2>11. ASSUME NEW q \in Http!Runs PROVE RunKept(q)'
    <3>1. CASE q = r
      BY <1>1, <2>2, <2>4, <2>10, <3>1 DEF RunKept, Left
    <3>2. CASE q # r
      <4>1. RunKept(q) /\ runs'[q] = runs[q]
        BY <2>4, <3>2 DEF HttpInv
      <4> QED
        BY <1>1, <4>1 DEF RunKept, Left
    <3> QED
      BY <3>1, <3>2
  <2>12. WorkerKept(w)'
    BY <1>1, <2>2, <2>4, <2>6, <2>8, <2>10
       DEF WorkerKept, WorkerRun, WorkerMade, WorkerSaw, Left
  <2>13. ASSUME NEW v \in Workers, v # w PROVE WorkerKept(v)'
    <3> SUFFICES ASSUME workers[v].pc # "idle"
                 PROVE  WorkerRun(v)' /\ WorkerMade(v)' /\ WorkerSaw(v)'
      BY <2>8, <2>13 DEF WorkerKept
    <3>1. /\ WorkerRun(v) /\ WorkerMade(v) /\ WorkerSaw(v)
          /\ workers[v].run \in Http!Runs /\ workers'[v] = workers[v]
      BY <2>8, <2>13, WorkerFacts
    <3>2. workers[v].run # r
      BY <1>4, NoWorkerYet
    <3>3. runs'[workers[v].run] = runs[workers[v].run]
      BY <2>4, <3>1, <3>2
    <3>4. WorkerRun(v)' /\ Wanted(v)' = Wanted(v)
      BY <3>1, <3>3 DEF WorkerRun, Wanted
    <3> QED
      BY <1>1, <3>1, <3>4 DEF WorkerMade, WorkerSaw, Left
  <2>14. OneWorker'
    <3>1. \A v \in Workers : workers[v].pc # "idle" => workers[v].run # r
      BY <1>4, NoWorkerYet
    <3> QED
      BY <2>6, <2>8, <3>1 DEF HttpInv, OneWorker
  <2> QED
    BY <2>9, <2>11, <2>12, <2>13, <2>14 DEF HttpInv
<1> QED
  BY <1>3, <1>4 DEF Http!Deliver

\* A create request that Docker carries out late is of a run whose worker gave
\* up without an answer.
LEMMA LateMoves ==
  ASSUME HttpInv, NEW r \in Http!Runs, Http!LateCreate(r) PROVE HttpInv'
<1>1. /\ UNCHANGED <<attempt, box, runs, workers>>
      /\ r \in late /\ late' = late \ {r} /\ verifiers' = verifiers \cup {r}
  BY DEF Http!LateCreate, Http!rest1, Http!rest3
<1>2. HttpTypes' /\ BoxBehind' /\ OneWorker'
  BY <1>1 DEF HttpInv, HttpTypes, BoxBehind, OneWorker
<1>3. \A q \in Http!Runs : RunKept(q)'
  BY <1>1 DEF HttpInv, RunKept, Left
<1>4. ASSUME NEW v \in Workers PROVE WorkerKept(v)'
  <2> SUFFICES ASSUME workers[v].pc # "idle"
               PROVE  WorkerRun(v)' /\ WorkerMade(v)' /\ WorkerSaw(v)'
    BY <1>1 DEF WorkerKept
  <2>1. WorkerRun(v) /\ WorkerMade(v) /\ WorkerSaw(v)
    BY WorkerFacts
  <2>2. WorkerRun(v)' /\ WorkerMade(v)'
    BY <1>1, <2>1 DEF WorkerRun, WorkerMade, Left
  <2>3. WorkerSaw(v)'
    BY <1>1, <2>1 DEF WorkerSaw, Wanted, NotAfter
  <2> QED
    BY <2>2, <2>3
<1> QED
  BY <1>2, <1>3, <1>4 DEF HttpInv

LEMMA HttpUnmoved ==
  ASSUME HttpInv, UNCHANGED <<attempt, box, runs, workers, verifiers, late>>
  PROVE  HttpInv'
<1>1. HttpTypes' /\ BoxBehind' /\ NotAfter(box, box')
  BY DEF HttpInv, HttpTypes, BoxBehind, NotAfter, Boxes
<1> QED
  BY <1>1, Surroundings

LEMMA HttpInductive == HttpInv /\ [Http!Next]_(Http!vars) => HttpInv'
<1> SUFFICES ASSUME HttpInv, [Http!Next]_(Http!vars) PROVE HttpInv'
  OBVIOUS
<1>1. CASE Http!RequestReset \/ Http!FinishReset \/ Http!Reboot \/ Http!EndAttempt \/ Http!MoveAnchor
  BY <1>1, EnvironmentMoves
<1>2. ASSUME NEW r \in Http!Runs,
             Http!request_observation(r) \/ Http!DispatchRaised(r) \/ Http!LateCreate(r)
      PROVE  HttpInv'
  BY <1>2, RequestMoves, RaisedMoves, LateMoves
<1>3. ASSUME NEW r \in Http!Runs, Http!Dispatch(r) PROVE HttpInv'
  BY <1>3, HttpUnmoved DEF Http!Dispatch, Http!rest1, Http!rest2
<1>4. ASSUME NEW w \in Workers, Http!Step(w) PROVE HttpInv'
  BY <1>4, DeliverMoves, PinMoves, ClaimMoves, CreateMoves, StartMoves, ProbeMoves,
     InspectMoves, FenceMoves, CleanupMoves, AgainMoves, CommitMoves DEF Http!Step
<1>5. ASSUME NEW w \in Workers, Http!Crash(w) PROVE HttpInv'
  BY <1>5, CrashMoves
<1>6. CASE UNCHANGED Http!vars
  BY <1>6, HttpUnmoved DEF Http!vars
<1> QED
  BY <1>1, <1>2, <1>3, <1>4, <1>5, <1>6 DEF Http!Next

\* A step writes to a run that is not finished, and a verdict only from the
\* worker that commits.
LEMMA RunsWritten ==
  ASSUME HttpInv, [Http!Next]_(Http!vars), NEW r \in Http!Runs, runs'[r] # runs[r]
  PROVE  /\ runs[r].status # "finished"
         /\ \/ runs'[r].http = "unknown"
            \/ \E w \in Workers : /\ Http!Commit(w) /\ Http!Current(workers[w].run)
                                  /\ workers[w].run = r
                                  /\ workers[w].answer # "unknown"
<1>1. HttpTypes /\ RunKept(r) /\ runs[r] \in RunRows
  BY DEF HttpInv, HttpTypes
<1>2. runs[r].status # "finished" => runs[r].http = "unknown"
  BY <1>1 DEF RunKept
<1>3. "unknown" \in Answers /\ "stale" \in Reasons
      /\ "dispatch_unavailable" \in Reasons
  BY DEF Answers, Reasons
<1>4. ASSUME NEW q \in Http!Runs, NEW http \in Answers, NEW why \in Reasons,
             runs' = Http!Finished(q, http, why)
      PROVE  q = r /\ runs[r].status # "finished" /\ runs'[r].http = http
  BY <1>1, <1>4, EndedRuns DEF Http!Active
<1>5. ASSUME NEW q \in Http!Runs, Http!request_observation(q)
      PROVE  runs[r].status # "finished" /\ runs'[r].http = "unknown"
  <2>1. runs[q].status = "none" /\ q = r
    BY <1>1, <1>5 DEF Http!request_observation, HttpTypes
  <2>2. runs'[r] = [Http!NoRun EXCEPT !.status = "queued", !.identity = Http!Identity]
    BY <1>1, <1>5, <2>1 DEF Http!request_observation, HttpTypes
  <2> QED
    BY <2>1, <2>2 DEF Http!NoRun
<1>6. ASSUME NEW q \in Http!Runs, Http!DispatchRaised(q)
      PROVE  runs[r].status # "finished" /\ runs'[r].http = "unknown"
  BY <1>3, <1>4, <1>6 DEF Http!DispatchRaised, Http!DispatchFailed
<1>7. ASSUME NEW w \in Workers, NEW q \in Http!Runs, Http!Deliver(w, q)
      PROVE  runs[r].status # "finished" /\ runs'[r].http = "unknown"
  <2>1. runs[q].status = "queued" /\ q = r
    BY <1>1, <1>7 DEF Http!Deliver, HttpTypes
  <2>2. runs'[r] = [runs[r] EXCEPT !.status = "running"]
    BY <1>1, <1>7, <2>1 DEF Http!Deliver, HttpTypes
  <2> QED
    BY <1>1, <1>2, <2>1, <2>2 DEF RunRows
<1>8. ASSUME NEW w \in Workers, Http!Pin(w)
      PROVE  runs[r].status # "finished" /\ runs'[r].http = "unknown"
  <2>1. workers[w].run \in Http!Runs
    BY <1>8, WorkerFacts DEF Http!Pin
  <2>2. CASE Http!End(w, "unknown", "stale")
    BY <1>3, <1>4, <2>1, <2>2 DEF Http!End
  <2>3. CASE /\ Http!Current(workers[w].run)
             /\ runs' = [runs EXCEPT ![workers[w].run].pinned = TRUE]
    <3>1. workers[w].run = r /\ runs[r].status = "running"
      BY <1>1, <2>1, <2>3 DEF Http!Current, HttpTypes
    <3>2. runs'[r] = [runs[r] EXCEPT !.pinned = TRUE]
      BY <1>1, <2>3, <3>1 DEF HttpTypes
    <3> QED
      BY <1>1, <1>2, <3>1, <3>2 DEF RunRows
  <2> QED
    BY <1>8, <2>2, <2>3 DEF Http!Pin
<1>9. ASSUME NEW w \in Workers, Http!Commit(w)
      PROVE  /\ runs[r].status # "finished"
             /\ \/ runs'[r].http = "unknown"
                \/ /\ Http!Current(workers[w].run) /\ workers[w].run = r
                   /\ workers[w].answer # "unknown"
  <2>1. workers[w].run \in Http!Runs /\ workers[w] \in WorkerRows
    BY <1>9, WorkerFacts DEF Http!Commit
  <2>2. workers[w].answer \in Answers /\ workers[w].why \in Reasons
    BY <2>1 DEF WorkerRows
  <2>3. CASE Http!End(w, "unknown", "stale")
    BY <1>3, <1>4, <2>1, <2>3 DEF Http!End
  <2>4. CASE Http!Current(workers[w].run) /\ Http!End(w, workers[w].answer, workers[w].why)
    <3>1. workers[w].run = r /\ runs[r].status # "finished"
          /\ runs'[r].http = workers[w].answer
      BY <1>4, <2>1, <2>2, <2>4 DEF Http!End
    <3> QED
      BY <2>4, <3>1
  <2> QED
    BY <1>9, <2>3, <2>4 DEF Http!Commit
<1>10. runs' # runs
  OBVIOUS
<1> USE DEF Http!rest1, Http!rest2, Http!rest3
<1>11. CASE Http!RequestReset \/ Http!FinishReset \/ Http!Reboot \/ Http!EndAttempt \/ Http!MoveAnchor
  BY <1>10, <1>11
     DEF Http!RequestReset, Http!FinishReset, Http!Reboot, Http!EndAttempt, Http!MoveAnchor
<1>12. ASSUME NEW q \in Http!Runs, Http!Dispatch(q) \/ Http!LateCreate(q) PROVE FALSE
  BY <1>10, <1>12 DEF Http!Dispatch, Http!LateCreate
<1>13. ASSUME NEW w \in Workers,
              \/ Http!Claim(w) \/ Http!Create(w) \/ Http!Start(w) \/ Http!Probe(w) \/ Http!Inspect(w)
              \/ Http!Fence(w) \/ Http!Cleanup(w) \/ Http!Again(w) \/ Http!Crash(w)
       PROVE  FALSE
  BY <1>10, <1>13 DEF Http!Claim, Http!Create, Http!Start, Http!Probe, Http!Inspect, Http!Fence, Http!Cleanup,
     Http!Again, Http!Crash
<1> QED
  BY <1>5, <1>6, <1>7, <1>8, <1>9, <1>10, <1>11, <1>12, <1>13 DEF Http!Next, Http!Step, Http!vars

\* What a worker commits is the answer of the container that the run, and the
\* attempt at this moment, name.
LEMMA VerdictStep == HttpInv /\ [Http!Next]_(Http!vars) => Http!VerdictIsTrue
<1> SUFFICES ASSUME HttpInv, [Http!Next]_(Http!vars), NEW r \in Http!Runs,
                    runs[r].status # "finished", runs'[r].http # "unknown"
             PROVE  /\ attempt.open /\ attempt.ready
                    /\ <<attempt.gen, attempt.pinned, attempt.anchor>>
                         = runs[r].identity
                    /\ \E w \in Workers : /\ workers[w].run = r
                                          /\ workers[w].probed = attempt.pinned
  BY DEF Http!VerdictIsTrue
<1>1. runs'[r] # runs[r]
  BY DEF HttpInv, RunKept
<1>2. PICK w \in Workers : /\ Http!Commit(w) /\ Http!Current(workers[w].run)
                           /\ workers[w].run = r /\ workers[w].answer # "unknown"
  BY <1>1, RunsWritten
<1>3. workers[w].pc = "commit" /\ WorkerSaw(w)
  BY <1>2, WorkerFacts DEF Http!Commit
<1>4. /\ attempt.open /\ attempt.ready
      /\ <<attempt.gen, attempt.pinned, attempt.anchor>> = runs[r].identity
  BY <1>2 DEF Http!Current, Http!Context, Http!Identity
<1>5. workers[w].probed = attempt.pinned
  BY <1>2, <1>3, <1>4 DEF WorkerSaw, Wanted
<1> QED
  BY <1>2, <1>4, <1>5

LEMMA FinishedStep == HttpInv /\ [Http!Next]_(Http!vars) => Http!FinishedStays
BY RunsWritten DEF Http!FinishedStays

LEMMA CleanVerdicts == HttpInv => Http!VerdictCleans
BY DEF HttpInv, RunKept, Left, Http!VerdictCleans

\* A verdict is of the target its run was requested for, while that is the
\* environment of the current attempt, and a finished run says the same for
\* ever, for any numbers of runs, workers, resets, restarts of the target,
\* faults and crashes.
THEOREM SuiteVerdictsStand == SuiteSpec => VerdictsStand
<1> DEFINE PartInv == part = "http" => HttpInv
<1>1. SuiteInit => PartInv
  BY HttpStarts DEF SuiteInit
<1>2. ASSUME PartInv, [SuiteNext]_suiteVars, part = "http"
      PROVE  HttpInv /\ [Http!Next]_(Http!vars)
  BY <1>2 DEF SuiteNext, suiteVars, httpVars, Http!vars
<1>3. PartInv /\ [SuiteNext]_suiteVars => PartInv'
  <2> SUFFICES ASSUME PartInv, [SuiteNext]_suiteVars, part' = "http"
               PROVE  HttpInv'
    OBVIOUS
  <2>1. part = "http"
    BY DEF SuiteNext, suiteVars
  <2> QED
    BY <1>2, <2>1, HttpInductive
<1>4. PartInv /\ [SuiteNext]_suiteVars
        => (part = "http" => Http!VerdictIsTrue /\ Http!FinishedStays)
  BY <1>2, VerdictStep, FinishedStep
<1> QED
  BY <1>1, <1>3, <1>4, PTL DEF SuiteSpec, VerdictsStand

-----------------------------------------------------------------------------
(* The environments of broker mode.                                        *)

RunPcs == {"destroy", "advance", "clear", "find", "create", "pin", "record",
           "broker", "terminal", "publish"}
HeldPcs == {"advance", "clear", "find", "pin", "record", "publish", "c_done"}
Going == {"teardown", "create", "terminal"}

RetiredGen(g) == \E s \in env.op.retired : s.gen = g
OldGen(g) == \E s \in env.op.old : s.gen = g
Known(g) == g = env.gen \/ OldGen(g) \/ RetiredGen(g)
Exists(g) == task[g].id # 0 \/ pair[g] # {}
Running(w) == lock = w /\ worker[w].pc \in RunPcs
CleanedAway == env.cleanup \/ env.op.stage = "done"

\* The types, column by column.
OpRows ==
  [id : Ops \cup {Lite!NoOp},
   stage : {"none", "teardown", "create", "terminal", "ready", "done"},
   old : SUBSET Lite!EnvSpecs, gen : Lite!Gens, target : 0..MaxIds,
   retired : SUBSET Lite!EnvSpecs]
EnvRows ==
  [working : BOOLEAN, cleanup : BOOLEAN, env : {"idle", "starting", "ready"},
   gen : Lite!Gens, cid : 0..MaxIds, restarts : Nat, op : OpRows]
LitePcs == {"idle", "advance", "clear", "pin", "record", "publish", "c_done"}
             \cup Lite!DockerSteps
LiteRows == [pc : LitePcs, op : Ops \cup {Lite!NoOp}, gen : Lite!Gens, specs : SUBSET Lite!EnvSpecs]
Tasks == [id : 0..MaxIds, up : BOOLEAN]
Outcomes == {"none", "requested", "started", "success", "not_started", "unknown"}

Budgets == [faults : 0..MaxLiteFaults, lost : 0..MaxLost, cleanups : 0..MaxCleanups]

LiteTypes ==
  /\ env \in EnvRows
  /\ ledger \in [Ops -> Outcomes]
  /\ task \in [Lite!Gens -> Tasks]
  /\ pair \in [Lite!Gens -> SUBSET Lite!Both]
  /\ ids \in 0..MaxIds
  /\ lock \in Workers \cup {Lite!Nobody}
  /\ worker \in [Workers -> LiteRows]
  /\ budget \in Budgets

\* Operations that have, or had, a generation are never more than generations.
Given == {o \in Ops : ledger[o] \notin {"none", "requested"}}

\* The row before its first operation, and from it on.
RowBooks ==
  /\ env.op.stage = "none" => /\ env.gen = 0 /\ env.op.gen = 0
                              /\ env.op.old = {} /\ env.op.retired = {}
                              /\ env.op.id = Lite!NoOp /\ ~env.cleanup
  /\ env.op.stage # "none" => /\ env.gen = env.op.gen /\ env.gen # 0
                              /\ env.op.id \in Ops
  /\ env.env = "ready" => env.op.stage \in {"none", "ready"}
  /\ env.op.stage = "terminal" => env.op.target # 0
  /\ env.op.stage = "ready" => env.cid # 0

\* The outcome of an operation and its stage.
LedgerBooks ==
  /\ \A o \in Ops : ledger[o] = "started" => env.op.id = o /\ env.op.stage \in Going
  /\ env.op.stage = "ready" => ledger[env.op.id] = "success"
  /\ env.op.stage = "done" => ~Lite!Pending(env.op.id)
  /\ env.op.stage # "none" => env.op.id \in Given
  /\ env.op.gen <= Cardinality(Given)
  /\ Lite!RestartsMatchLedger

\* What is replaced is of older generations and retired before it is
\* forgotten; a generation that is retired while it is the current one is being
\* cleaned up, and nobody works on it.
Generations ==
  /\ \A s \in env.op.old : s.gen < env.op.gen
  /\ \A s \in env.op.retired : s.gen # 0 /\ s.gen <= env.op.gen
  /\ RetiredGen(env.op.gen) => CleanedAway /\ \A w \in Workers : ~Running(w)
  /\ env.op.stage \notin {"none", "teardown"}
       => \A s \in env.op.old : s.gen = 0 \/ RetiredGen(s.gen)
  /\ env.op.stage = "done" => RetiredGen(env.op.gen)

\* What exists under the names of generations.
Everything ==
  /\ \A g \in Lite!Gens : g # 0 /\ Exists(g) => Known(g)
  /\ Exists(0) => \/ /\ env.op.stage = "none" /\ env.cid # 0
                     /\ task[0].id \in {0, env.cid}
                  \/ /\ env.op.stage = "teardown"
                     /\ \E s \in env.op.old : /\ s.gen = 0 /\ s.id # 0
                                              /\ task[0].id \in {0, s.id}

\* A worker that is late works for a generation that is known, and destroys
\* none that anybody builds.
WorkerBooks(w) ==
  /\ worker[w].pc \in HeldPcs => lock = w
  /\ worker[w].pc \in RunPcs => worker[w].gen # 0 /\ Known(worker[w].gen)
  /\ worker[w].pc \notin RunPcs => worker[w].op = Lite!NoOp
  /\ \A s \in worker[w].specs : worker[w].pc # "idle"
       /\ s.gen <= env.op.gen
       /\ (s.gen = env.op.gen => CleanedAway /\ \A v \in Workers : ~Running(v))

\* The one that holds the lock.
HolderRuns(w) ==
  /\ worker[w].op = env.op.id /\ worker[w].gen = env.op.gen
  /\ ledger[worker[w].op] = "started"
  /\ worker[w].pc \in {"destroy", "advance"} => env.op.stage = "teardown"
  /\ worker[w].pc = "destroy" => worker[w].specs = env.op.old
  /\ worker[w].pc = "advance" => ~Exists(0)
  /\ worker[w].pc \in {"clear", "find", "create", "pin"}
       => env.op.stage \in {"create", "terminal"}
  /\ worker[w].pc = "pin" => task[env.op.gen].id # 0
  /\ worker[w].pc \in {"record", "broker", "terminal", "publish"}
       => env.op.stage = "terminal"
  /\ worker[w].pc \in {"broker", "terminal", "publish"} => env.cid = env.op.target
HolderCleans(w) ==
  /\ RetiredGen(env.op.gen)
  /\ \A s \in env.op.old : s.gen = 0 \/ RetiredGen(s.gen)
  /\ worker[w].pc = "c_destroy" => env.op.old \subseteq worker[w].specs
  /\ worker[w].pc = "c_done" => ~Exists(0)
HolderBooks(w) ==
  lock = w => /\ worker[w].pc \in RunPcs => HolderRuns(w)
              /\ worker[w].pc \in {"c_destroy", "c_done"} => HolderCleans(w)

LiteInv ==
  /\ LiteTypes /\ RowBooks /\ LedgerBooks /\ Generations /\ Everything
  /\ \A w \in Workers : WorkerBooks(w) /\ HolderBooks(w)

\* Where no session is lost nobody works without the lock, and what the holder
\* has made is still there.
HolderMade(w) ==
  /\ worker[w].pc # "idle" => lock = w
  /\ worker[w].pc = "pin" => task[env.op.gen].up
  /\ worker[w].pc \in {"record", "broker", "terminal", "publish"}
       => task[env.op.gen] = [id |-> env.op.target, up |-> TRUE]
  /\ worker[w].pc = "terminal" => pair[env.op.gen] = {"broker"}
  /\ worker[w].pc = "publish" => pair[env.op.gen] = Lite!Both
LiveEnvironment ==
  env.env = "ready" /\ ~env.cleanup /\ env.gen # 0 =>
    /\ task[env.gen] = [id |-> env.cid, up |-> TRUE]
    /\ pair[env.gen] = Lite!Both
SoundInv ==
  /\ budget.lost = 0 /\ LiveEnvironment
  /\ \A w \in Workers : HolderMade(w)

LEMMA LiteTypesAre == Lite!TypeOK <=> LiteTypes
BY DEF Lite!TypeOK, LiteTypes, Budgets, EnvRows, OpRows, Outcomes, Tasks, LiteRows, LitePcs

\* What each step that writes the row leaves in its columns.
LEMMA RowTouched ==
  ASSUME LiteTypes
  PROVE  /\ \A b \in BOOLEAN :
              LET r == [env EXCEPT !.working = b]
              IN /\ r \in EnvRows /\ r.op = env.op /\ r.gen = env.gen
                 /\ r.cid = env.cid /\ r.cleanup = env.cleanup
                 /\ r.env = env.env /\ r.restarts = env.restarts
         /\ \A b \in BOOLEAN :
              LET r == [env EXCEPT !.cleanup = b]
              IN /\ r \in EnvRows /\ r.op = env.op /\ r.gen = env.gen
                 /\ r.cid = env.cid /\ r.cleanup = b
                 /\ r.env = env.env /\ r.restarts = env.restarts
         /\ LET r == [env EXCEPT !.env = "starting"]
            IN /\ r \in EnvRows /\ r.op = env.op /\ r.gen = env.gen
               /\ r.cid = env.cid /\ r.cleanup = env.cleanup
               /\ r.env = "starting" /\ r.restarts = env.restarts
         /\ \A c \in 0..MaxIds :
              LET r == [env EXCEPT !.cid = c]
              IN /\ r \in EnvRows /\ r.op = env.op /\ r.gen = env.gen
                 /\ r.cid = c /\ r.cleanup = env.cleanup
                 /\ r.env = env.env /\ r.restarts = env.restarts
BY DEF LiteTypes, EnvRows

LEMMA RetireTyped ==
  ASSUME NEW retired \in SUBSET Lite!EnvSpecs, NEW specs \in SUBSET Lite!EnvSpecs
  PROVE  /\ Lite!Retire(retired, specs) \in SUBSET Lite!EnvSpecs
         /\ retired \subseteq Lite!Retire(retired, specs)
         /\ \A s \in Lite!Retire(retired, specs) : s \in retired \/ (s \in specs /\ s.gen # 0)
         /\ \A s \in specs : s.gen # 0 => \E r \in Lite!Retire(retired, specs) : r.gen = s.gen
BY DEF Lite!Retire

LEMMA NoSpecs == LiteTypes /\ 0 \in Lite!Gens => Lite!Snapshot \in SUBSET Lite!EnvSpecs
BY DEF LiteTypes, EnvRows, Lite!EnvSpecs, Lite!Snapshot

LEMMA AdvanceRow ==
  ASSUME LiteTypes, NEW w \in Workers, Lite!RunAdvance(w)
  PROVE  /\ env' \in EnvRows
         /\ env'.op.stage = "create" /\ env'.op.id = env.op.id
         /\ env'.op.retired = Lite!Retire(env.op.retired, env.op.old)
         /\ env'.op.old = env.op.old /\ env'.op.gen = env.op.gen
         /\ env'.op.target = env.op.target
         /\ env'.gen = env.gen /\ env'.cid = env.cid /\ env'.env = env.env
         /\ env'.cleanup = env.cleanup /\ env'.restarts = env.restarts
<1>1. PICK new \in SUBSET Lite!EnvSpecs : new = Lite!Retire(env.op.retired, env.op.old)
  BY RetireTyped DEF LiteTypes, EnvRows, OpRows
<1>2. PICK op : op = [env.op EXCEPT !.stage = "create", !.retired = new]
  OBVIOUS
<1>3. /\ op \in OpRows /\ op.stage = "create" /\ op.id = env.op.id
      /\ op.retired = new /\ op.old = env.op.old /\ op.gen = env.op.gen
      /\ op.target = env.op.target
  BY <1>2 DEF LiteTypes, EnvRows, OpRows
<1>4. env' = [env EXCEPT !.op = op]
  BY <1>1, <1>2 DEF Lite!RunAdvance, LiteTypes, EnvRows
<1> QED
  BY <1>1, <1>3, <1>4 DEF LiteTypes, EnvRows

LEMMA PinRow ==
  ASSUME LiteTypes, NEW w \in Workers, Lite!RunPin(w)
  PROVE  /\ env' \in EnvRows
         /\ env'.op.stage = "terminal" /\ env'.op.id = env.op.id
         /\ env'.op.target = task[worker[w].gen].id
         /\ env'.op.retired = env.op.retired
         /\ env'.op.old = env.op.old /\ env'.op.gen = env.op.gen
         /\ env'.gen = env.gen /\ env'.cid = env.cid /\ env'.env = env.env
         /\ env'.cleanup = env.cleanup /\ env'.restarts = env.restarts
<1>1. PICK id \in 0..MaxIds : id = task[worker[w].gen].id
  BY DEF LiteTypes, LiteRows, Tasks
<1>2. PICK op : op = [env.op EXCEPT !.stage = "terminal", !.target = id]
  OBVIOUS
<1>3. /\ op \in OpRows /\ op.stage = "terminal" /\ op.id = env.op.id
      /\ op.target = id /\ op.retired = env.op.retired
      /\ op.old = env.op.old /\ op.gen = env.op.gen
  BY <1>2 DEF LiteTypes, EnvRows, OpRows
<1>4. env' = [env EXCEPT !.op = op]
  BY <1>1, <1>2 DEF Lite!RunPin, LiteTypes, EnvRows
<1> QED
  BY <1>1, <1>3, <1>4 DEF LiteTypes, EnvRows

LEMMA PublishRow ==
  ASSUME LiteTypes, NEW w \in Workers, Lite!RunPublish(w)
  PROVE  /\ env' \in EnvRows
         /\ env'.op.stage = "ready" /\ env'.op.id = env.op.id
         /\ env'.op.target = env.op.target
         /\ env'.op.retired = env.op.retired
         /\ env'.op.old = env.op.old /\ env'.op.gen = env.op.gen
         /\ env'.gen = env.gen /\ env'.cid = env.cid /\ env'.env = "ready"
         /\ env'.cleanup = env.cleanup
         /\ env'.restarts = env.restarts + IF worker[w].op \in Resets THEN 1 ELSE 0
<1>1. env.restarts \in Nat
  BY DEF LiteTypes, EnvRows
<1>2. PICK n \in Nat : n = env.restarts + IF worker[w].op \in Resets THEN 1 ELSE 0
  BY <1>1
<1>3. PICK op : op = [env.op EXCEPT !.stage = "ready"]
  OBVIOUS
<1>4. /\ op \in OpRows /\ op.stage = "ready" /\ op.id = env.op.id
      /\ op.target = env.op.target /\ op.retired = env.op.retired
      /\ op.old = env.op.old /\ op.gen = env.op.gen
  BY <1>3 DEF LiteTypes, EnvRows, OpRows
<1>5. env' = [env EXCEPT !.op = op, !.env = "ready", !.restarts = n]
  BY <1>2, <1>3 DEF Lite!RunPublish, LiteTypes, EnvRows
<1> QED
  BY <1>2, <1>4, <1>5 DEF LiteTypes, EnvRows

LEMMA DoneRow ==
  ASSUME LiteTypes, NEW w \in Workers, Lite!CleanupDone(w), 0 \in 0..MaxIds
  PROVE  /\ env' \in EnvRows
         /\ env'.op.stage = "done" /\ env'.op.id = env.op.id
         /\ env'.op.target = env.op.target
         /\ env'.op.retired = env.op.retired
         /\ env'.op.old = env.op.old /\ env'.op.gen = env.op.gen
         /\ env'.gen = env.gen /\ env'.cid = 0 /\ env'.env = "idle"
         /\ env'.cleanup = env.cleanup /\ env'.restarts = env.restarts
<1>1. PICK op : op = [env.op EXCEPT !.stage = "done"]
  OBVIOUS
<1>2. /\ op \in OpRows /\ op.stage = "done" /\ op.id = env.op.id
      /\ op.target = env.op.target /\ op.retired = env.op.retired
      /\ op.old = env.op.old /\ op.gen = env.op.gen
  BY <1>1 DEF LiteTypes, EnvRows, OpRows
<1>3. env' = [env EXCEPT !.op = op, !.env = "idle", !.cid = 0]
  BY <1>1 DEF Lite!CleanupDone, LiteTypes, EnvRows
<1> QED
  BY <1>2, <1>3 DEF LiteTypes, EnvRows

\* What a cleanup saves as retired, and destroys.
Replacement == IF env.op.gen = 0 THEN {} ELSE {[gen |-> env.op.gen, id |-> env.op.target]}
ByName == IF env.op.stage \in {"none", "done"} THEN {} ELSE {[gen |-> env.op.gen, id |-> 0]}
NewRetired == Lite!Retire(Lite!Retire(env.op.retired, Lite!CleanupSpecs), Replacement)

LEMMA CleanupRow ==
  ASSUME LiteTypes, NEW w \in Workers, Lite!CleanupStart(w), 0 \in 0..MaxIds,
         Lite!Snapshot \in SUBSET Lite!EnvSpecs
  PROVE  /\ Lite!CleanupSpecs \in SUBSET Lite!EnvSpecs /\ Replacement \in SUBSET Lite!EnvSpecs
         /\ ByName \in SUBSET Lite!EnvSpecs
         /\ env' \in EnvRows
         /\ env'.op.stage = env.op.stage /\ env'.op.id = env.op.id
         /\ env'.op.target = env.op.target
         /\ env'.op.retired = NewRetired
         /\ env'.op.old = env.op.old /\ env'.op.gen = env.op.gen
         /\ env'.gen = env.gen /\ env'.cid = env.cid /\ env'.env = env.env
         /\ env'.cleanup = env.cleanup /\ env'.restarts = env.restarts
<1>0. env \in EnvRows /\ env.op \in OpRows
  BY DEF LiteTypes, EnvRows
<1>1. Lite!CleanupSpecs \in SUBSET Lite!EnvSpecs
  BY <1>0 DEF OpRows, Lite!CleanupSpecs
<1>2. Replacement \in SUBSET Lite!EnvSpecs /\ ByName \in SUBSET Lite!EnvSpecs
  BY <1>0 DEF OpRows, Replacement, ByName, Lite!EnvSpecs
<1>3. Lite!Retire(env.op.retired, Lite!CleanupSpecs) \in SUBSET Lite!EnvSpecs
  BY <1>0, <1>1, RetireTyped DEF OpRows
<1>4. PICK new \in SUBSET Lite!EnvSpecs : new = NewRetired
  BY <1>2, <1>3, RetireTyped DEF NewRetired
<1>5. PICK op : op = [env.op EXCEPT !.retired = new]
  OBVIOUS
<1>6. /\ op \in OpRows /\ op.stage = env.op.stage /\ op.id = env.op.id
      /\ op.target = env.op.target /\ op.retired = new
      /\ op.old = env.op.old /\ op.gen = env.op.gen
  BY <1>0, <1>5 DEF OpRows
<1>7. env' = [env EXCEPT !.op.retired = new]
  BY <1>4 DEF Lite!CleanupStart, NewRetired, Replacement
<1>8. env' = [env EXCEPT !.op = op]
  BY <1>0, <1>5, <1>7 DEF EnvRows
<1> QED
  BY <1>0, <1>1, <1>2, <1>4, <1>6, <1>8 DEF EnvRows

LEMMA LiteNewRow ==
  ASSUME LiteTypes, NEW o \in Ops, 0 \in 0..MaxIds, env.op.gen + 1 \in Lite!Gens,
         Lite!Snapshot \in SUBSET Lite!EnvSpecs, env' = Lite!NewOperation(o)
  PROVE  /\ env' \in EnvRows
         /\ env'.op.stage = "teardown" /\ env'.op.id = o
         /\ env'.op.old = Lite!Snapshot /\ env'.op.gen = env.op.gen + 1
         /\ env'.op.retired = env.op.retired
         /\ env'.gen = env.op.gen + 1 /\ env'.cid = env.cid
         /\ env'.env = "starting" /\ ~env'.cleanup /\ env'.restarts = env.restarts
<1>0. env \in EnvRows /\ env.op \in OpRows
  BY DEF LiteTypes, EnvRows
<1>1. PICK g \in Lite!Gens : g = env.op.gen + 1
  OBVIOUS
<1>2. PICK op : op = [id |-> o, stage |-> "teardown", old |-> Lite!Snapshot, gen |-> g,
                      target |-> 0, retired |-> env.op.retired]
  OBVIOUS
<1>3. /\ op \in OpRows /\ op.stage = "teardown" /\ op.id = o /\ op.old = Lite!Snapshot
      /\ op.gen = g /\ op.retired = env.op.retired
  BY <1>0, <1>2 DEF OpRows
<1>4. PICK no \in BOOLEAN : no = FALSE
  OBVIOUS
<1>5. env' = [env EXCEPT !.op = op, !.gen = g, !.env = "starting", !.cleanup = no]
  BY <1>1, <1>2, <1>4 DEF Lite!NewOperation
<1> QED
  BY <1>0, <1>1, <1>3, <1>4, <1>5 DEF EnvRows

LEMMA LiteCounts ==
  /\ Lite!Gens = 0..Cardinality(Ops)
  /\ Lite!RestartsMatchLedger
       <=> env.restarts = Cardinality({o \in Resets : ledger[o] = "success"})
  /\ Lite!RestartsMatchLedger'
       <=> env'.restarts = Cardinality({o \in Resets : ledger'[o] = "success"})
<1>1. \A S : Lite!Cardinality(S) = Cardinality(S)
  BY DEF Lite!Cardinality, Cardinality
<1> QED
  BY <1>1 DEF Lite!Gens, Lite!RestartsMatchLedger

LEMMA GensAre ==
  LiteNames => /\ Cardinality(Ops) \in Nat /\ Lite!Gens \subseteq Nat /\ 0 \in Lite!Gens
               /\ 0 \in 0..MaxIds /\ 1 \in 0..MaxIds
<1> SUFFICES ASSUME LiteNames
             PROVE  /\ Cardinality(Ops) \in Nat /\ Lite!Gens \subseteq Nat /\ 0 \in Lite!Gens
                    /\ 0 \in 0..MaxIds /\ 1 \in 0..MaxIds
  OBVIOUS
<1>1. Cardinality(Ops) \in Nat
  BY FS_CardinalityType DEF LiteNames
<1> QED
  BY <1>1, LiteCounts DEF LiteNames

\* What a worker that goes on, and one that is done, is afterwards.
LEMMA WorkerGone ==
  ASSUME LiteTypes, NEW w \in Workers, 0 \in Lite!Gens
  PROVE  /\ \A p \in LitePcs :
              Lite!Goto(w, p) =>
                /\ worker' \in [Workers -> LiteRows]
                /\ worker'[w].pc = p /\ worker'[w].op = worker[w].op
                /\ worker'[w].gen = worker[w].gen
                /\ worker'[w].specs = worker[w].specs
                /\ \A v \in Workers : v # w => worker'[v] = worker[v]
         /\ Lite!Release(w) =>
              /\ worker' \in [Workers -> LiteRows] /\ worker'[w] = Lite!Idle
              /\ \A v \in Workers : v # w => worker'[v] = worker[v]
<1>1. worker \in [Workers -> LiteRows] /\ worker[w] \in LiteRows
  BY DEF LiteTypes
<1>2. Lite!Idle \in LiteRows
  BY DEF Lite!Idle, LiteRows, LitePcs
<1>3. ASSUME NEW p \in LitePcs, Lite!Goto(w, p)
      PROVE  /\ worker' \in [Workers -> LiteRows]
             /\ worker'[w].pc = p /\ worker'[w].op = worker[w].op
             /\ worker'[w].gen = worker[w].gen
             /\ worker'[w].specs = worker[w].specs
             /\ \A v \in Workers : v # w => worker'[v] = worker[v]
  <2>1. PICK x : x = [worker[w] EXCEPT !.pc = p]
    OBVIOUS
  <2>2. /\ x \in LiteRows /\ x.pc = p /\ x.op = worker[w].op
        /\ x.gen = worker[w].gen /\ x.specs = worker[w].specs
    BY <1>1, <2>1 DEF LiteRows
  <2>3. worker' = [worker EXCEPT ![w] = x]
    BY <1>1, <1>3, <2>1 DEF Lite!Goto
  <2> QED
    BY <1>1, <2>2, <2>3
<1>4. Lite!Release(w) => /\ worker' \in [Workers -> LiteRows] /\ worker'[w] = Lite!Idle
                         /\ \A v \in Workers : v # w => worker'[v] = worker[v]
  BY <1>1, <1>2 DEF Lite!Release
<1> QED
  BY <1>3, <1>4

\* Most steps leave the operation of the row alone, hide no cleanup, start
\* nobody, and make nothing of a generation that is not known.
QuietStep ==
  /\ env'.op = env.op /\ env'.gen = env.gen /\ env'.cid = env.cid
  /\ env.op.stage = "none" => ~env'.cleanup
  /\ env'.env = "ready" => env.env = "ready"
  /\ CleanedAway => CleanedAway'
  /\ \A v \in Workers : Running(v)' => Running(v)
  /\ \A v \in Workers :
       Running(v) /\ worker'[v] = worker[v] =>
         /\ ledger'[worker[v].op] = ledger[worker[v].op]
         /\ task[env.op.gen].id # 0 => task'[env.op.gen].id # 0
  /\ \A g \in Lite!Gens : g # 0 /\ Exists(g)' => Known(g)
  /\ Exists(0)' => Exists(0) /\ task'[0].id \in {0, task[0].id}

LEMMA QuietWorld ==
  ASSUME LiteInv, QuietStep PROVE RowBooks' /\ Generations' /\ Everything'
<1>1. env'.op = env.op /\ env'.gen = env.gen /\ env'.cid = env.cid
  BY DEF QuietStep
<1>2. RowBooks'
  BY <1>1 DEF LiteInv, QuietStep, RowBooks
<1>3. \A g : RetiredGen(g)' = RetiredGen(g)
  BY <1>1 DEF RetiredGen
<1>4. Generations'
  <2>1. Generations
    BY DEF LiteInv
  <2>2. (\A s \in env.op.old : s.gen < env.op.gen)'
        /\ (\A s \in env.op.retired : s.gen # 0 /\ s.gen <= env.op.gen)'
    BY <1>1, <2>1 DEF Generations
  <2>3. RetiredGen(env.op.gen)' = RetiredGen(env.op.gen)
    BY <1>1 DEF RetiredGen
  <2>4. RetiredGen(env.op.gen)
          => CleanedAway' /\ \A w \in Workers : ~Running(w)'
    BY <2>1 DEF Generations, QuietStep
  <2>5. (env.op.stage \notin {"none", "teardown"}
           => \A s \in env.op.old : s.gen = 0 \/ RetiredGen(s.gen))'
    BY <1>1, <2>1 DEF Generations, RetiredGen
  <2>6. (env.op.stage = "done" => RetiredGen(env.op.gen))'
    BY <1>1, <2>1, <2>3 DEF Generations
  <2> QED
    BY <2>2, <2>3, <2>4, <2>5, <2>6 DEF Generations
<1>5. Everything'
  <2>1. \A g \in Lite!Gens : g # 0 /\ Exists(g)' => Known(g)'
    BY <1>1 DEF QuietStep, Known, OldGen, RetiredGen
  <2>2. Exists(0)' => \/ /\ env.op.stage = "none" /\ env.cid # 0
                         /\ task'[0].id \in {0, env.cid}
                      \/ /\ env.op.stage = "teardown"
                         /\ \E s \in env.op.old : /\ s.gen = 0 /\ s.id # 0
                                                  /\ task'[0].id \in {0, s.id}
    BY DEF LiteInv, Everything, QuietStep
  <2> QED
    BY <1>1, <2>1, <2>2 DEF Everything
<1> QED
  BY <1>2, <1>4, <1>5

\* A worker that takes no part in a quiet step.
LEMMA QuietOthers ==
  ASSUME LiteInv, QuietStep, NEW v \in Workers, worker'[v] = worker[v],
         (lock' = v) = (lock = v)
  PROVE  WorkerBooks(v)' /\ HolderBooks(v)'
<1>1. env'.op = env.op /\ env'.gen = env.gen /\ env'.cid = env.cid
  BY DEF QuietStep
<1>2. WorkerBooks(v) /\ HolderBooks(v)
  BY DEF LiteInv
<1>3. Known(worker[v].gen) => Known(worker[v].gen)'
  BY <1>1 DEF Known, OldGen, RetiredGen
<1>4. WorkerBooks(v)'
  <2>1. worker'[v].pc \in HeldPcs => lock' = v
    BY <1>2 DEF WorkerBooks
  <2>2. worker'[v].pc \in RunPcs => worker'[v].gen # 0 /\ Known(worker[v].gen)'
    BY <1>2, <1>3 DEF WorkerBooks
  <2>3. worker'[v].pc \notin RunPcs => worker'[v].op = Lite!NoOp
    BY <1>2 DEF WorkerBooks
  <2>4. ASSUME NEW s \in worker[v].specs
        PROVE  /\ worker'[v].pc # "idle" /\ s.gen <= env'.op.gen
               /\ s.gen = env'.op.gen
                    => CleanedAway' /\ \A u \in Workers : ~Running(u)'
    BY <1>1, <1>2 DEF WorkerBooks, QuietStep
  <2> QED
    BY <2>1, <2>2, <2>3, <2>4 DEF WorkerBooks
<1>5. HolderBooks(v)'
  <2> SUFFICES ASSUME lock = v
               PROVE  /\ worker[v].pc \in RunPcs => HolderRuns(v)'
                      /\ worker[v].pc \in {"c_destroy", "c_done"} => HolderCleans(v)'
    BY DEF HolderBooks
  <2>1. Exists(0)' => Exists(0)
    BY DEF QuietStep
  <2>2. ASSUME worker[v].pc \in RunPcs PROVE HolderRuns(v)'
    <3>1. HolderRuns(v) /\ Running(v)
      BY <1>2, <2>2 DEF HolderBooks, Running
    <3>2. /\ ledger'[worker[v].op] = ledger[worker[v].op]
          /\ task[env.op.gen].id # 0 => task'[env.op.gen].id # 0
      BY <3>1 DEF QuietStep
    <3> QED
      BY <1>1, <2>1, <3>1, <3>2 DEF HolderRuns
  <2>3. ASSUME worker[v].pc \in {"c_destroy", "c_done"} PROVE HolderCleans(v)'
    <3>1. HolderCleans(v)
      BY <1>2, <2>3 DEF HolderBooks
    <3> QED
      BY <1>1, <2>1, <3>1 DEF HolderCleans, RetiredGen
  <2> QED
    BY <2>2, <2>3
<1> QED
  BY <1>4, <1>5

LEMMA SameBooks ==
  ASSUME LiteInv, env'.op = env.op, env'.restarts = env.restarts, ledger' = ledger
  PROVE  LedgerBooks'
BY DEF LiteInv, LedgerBooks, Lite!RestartsMatchLedger, Lite!Pending, Given

\* A request is entered, or closed without a result.
LEMMA OtherBooks ==
  ASSUME LiteNames, LiteInv, LiteTypes', env'.op = env.op,
         env'.restarts = env.restarts, NEW o \in Ops, NEW x \in {"requested", "not_started"},
         ledger' = [ledger EXCEPT ![o] = x],
         ledger[o] \in {"none", "requested", "started"},
         x = "requested" => ledger[o] = "none"
  PROVE  LedgerBooks'
<1>1. LiteTypes /\ LedgerBooks
  BY DEF LiteInv
<1>2. ledger'[o] = x /\ \A p \in Ops : p # o => ledger'[p] = ledger[p]
  BY <1>1 DEF LiteTypes
<1>3. Given \subseteq Given' /\ Given' \subseteq Ops
  BY <1>2 DEF Given
<1>4. {p \in Resets : ledger[p] = "success"}' = {p \in Resets : ledger[p] = "success"}
  BY <1>2 DEF LiteNames
<1>5. Lite!RestartsMatchLedger'
  BY <1>1, <1>4 DEF LedgerBooks, Lite!RestartsMatchLedger
<1>6. IsFiniteSet(Given') /\ IsFiniteSet(Given)
  BY <1>3, FS_Subset DEF LiteNames
<1>7. Cardinality(Given) <= Cardinality(Given') /\ Cardinality(Given) \in Nat
      /\ Cardinality(Given') \in Nat
  BY <1>3, <1>6, FS_Subset, FS_CardinalityType
<1>8. env.op.gen \in Nat
  BY <1>1, GensAre DEF LiteTypes, EnvRows, OpRows
<1>9. (env.op.gen <= Cardinality(Given))'
  BY <1>1, <1>7, <1>8 DEF LedgerBooks
<1>10. env.op.stage # "none" => env.op.id \in Ops
  BY DEF LiteInv, RowBooks
<1>11. /\ env.op.stage = "ready" => ledger'[env.op.id] = "success"
       /\ env.op.stage = "done" => ~Lite!Pending(env.op.id)'
       /\ env.op.stage # "none" => env.op.id \in Given'
  BY <1>1, <1>2, <1>3, <1>10 DEF LedgerBooks, Lite!Pending, Given
<1>12. \A p \in Ops : ledger'[p] = "started" => ledger[p] = "started"
  BY <1>2
<1> QED
  BY <1>1, <1>5, <1>9, <1>11, <1>12 DEF LedgerBooks, Lite!Pending

LEMMA QuietAlone ==
  ASSUME LiteInv, LiteTypes', LedgerBooks', QuietStep, UNCHANGED <<worker, lock>>
  PROVE  LiteInv'
<1>1. \A v \in Workers : WorkerBooks(v)' /\ HolderBooks(v)'
  BY QuietOthers
<1> QED
  BY <1>1, QuietWorld DEF LiteInv

LEMMA QuietWorker ==
  ASSUME LiteInv, LiteTypes', LedgerBooks', QuietStep, NEW w \in Workers,
         \A v \in Workers : v # w => worker'[v] = worker[v] /\ (lock' = v) = (lock = v),
         WorkerBooks(w)', HolderBooks(w)'
  PROVE  LiteInv'
<1>1. \A v \in Workers : v # w => WorkerBooks(v)' /\ HolderBooks(v)'
  BY QuietOthers
<1>2. \A v \in Workers : v = w => WorkerBooks(v)' /\ HolderBooks(v)'
  OBVIOUS
<1> QED
  BY <1>1, <1>2, QuietWorld DEF LiteInv

LEMMA LiteRequestMoves ==
  ASSUME LiteNames, LiteInv, NEW o \in Ops, Lite!RequestOperation(o) PROVE LiteInv'
<1>1. UNCHANGED <<task, pair, ids, lock, worker, budget>>
  BY DEF Lite!RequestOperation
<1>2. LiteTypes /\ ledger[o] = "none"
  BY DEF LiteInv, Lite!RequestOperation
<1>3. /\ env' \in EnvRows /\ env'.op = env.op /\ env'.gen = env.gen
      /\ env'.cid = env.cid /\ env'.cleanup = env.cleanup
      /\ env'.restarts = env.restarts /\ env'.env \in {env.env, "starting"}
  BY <1>2, RowTouched DEF Lite!RequestOperation, LiteTypes
<1>4. PICK x \in {"requested", "not_started"} : ledger' = [ledger EXCEPT ![o] = x]
  BY DEF Lite!RequestOperation
<1>5. LiteTypes'
  BY <1>1, <1>2, <1>3, <1>4 DEF LiteTypes, Outcomes
<1>6. LedgerBooks'
  BY <1>2, <1>3, <1>4, <1>5, OtherBooks
<1>7. \A v \in Workers : Running(v) => ledger[worker[v].op] = "started"
  BY DEF LiteInv, HolderBooks, HolderRuns, Running
<1>8. \A v \in Workers : Running(v) => worker[v].op # o
  BY <1>2, <1>7
<1>9. \A v \in Workers : Running(v) => ledger'[worker[v].op] = ledger[worker[v].op]
  <2>1. \A v \in Workers : Running(v) => worker[v].op \in Ops
    BY DEF LiteInv, HolderBooks, HolderRuns, Running, RowBooks, LiteTypes, WorkerBooks
  <2> QED
    BY <1>2, <1>4, <1>8, <2>1 DEF LiteTypes
<1>10. QuietStep
  BY <1>1, <1>3, <1>9 DEF QuietStep, LiteInv, RowBooks, CleanedAway, Running, Exists,
     Everything
<1> QED
  BY <1>1, <1>5, <1>6, <1>10, QuietAlone

LEMMA Spent ==
  ASSUME LiteNames, LiteTypes
  PROVE  /\ budget.faults > 0 =>
              LET b == [budget EXCEPT !.faults = @ - 1]
              IN b \in Budgets /\ b.lost = budget.lost
         /\ budget.lost > 0 => [budget EXCEPT !.lost = @ - 1] \in Budgets
         /\ budget.cleanups > 0 =>
              LET b == [budget EXCEPT !.cleanups = @ - 1]
              IN b \in Budgets /\ b.lost = budget.lost
<1>1. /\ budget.faults \in 0..MaxLiteFaults /\ budget.lost \in 0..MaxLost
      /\ budget.cleanups \in 0..MaxCleanups /\ budget \in Budgets
  BY DEF LiteTypes, Budgets
<1>2. /\ budget.faults > 0 => budget.faults - 1 \in 0..MaxLiteFaults
      /\ budget.lost > 0 => budget.lost - 1 \in 0..MaxLost
      /\ budget.cleanups > 0 => budget.cleanups - 1 \in 0..MaxCleanups
  BY <1>1 DEF LiteNames
<1>3. /\ \A n \in 0..MaxLiteFaults : LET b == [budget EXCEPT !.faults = n]
                                 IN b \in Budgets /\ b.lost = budget.lost
      /\ \A n \in 0..MaxLost : [budget EXCEPT !.lost = n] \in Budgets
      /\ \A n \in 0..MaxCleanups : LET b == [budget EXCEPT !.cleanups = n]
                                   IN b \in Budgets /\ b.lost = budget.lost
  BY <1>1 DEF Budgets
<1> QED
  BY <1>2, <1>3

LEMMA ChangeMoves == LiteInv /\ Lite!ChangeStatus => LiteInv'
<1> SUFFICES ASSUME LiteInv, Lite!ChangeStatus PROVE LiteInv'
  OBVIOUS
<1>1. UNCHANGED <<ledger, task, pair, ids, lock, worker, budget>> /\ LiteTypes
  BY DEF Lite!ChangeStatus, LiteInv
<1>2. PICK b \in BOOLEAN : b = ~env.working
  BY DEF LiteInv
<1>3. /\ env' \in EnvRows /\ env'.op = env.op /\ env'.gen = env.gen
      /\ env'.cid = env.cid /\ env'.cleanup = env.cleanup
      /\ env'.restarts = env.restarts /\ env'.env = env.env
  BY <1>1, <1>2, RowTouched DEF Lite!ChangeStatus
<1>4. LiteTypes'
  BY <1>1, <1>3 DEF LiteTypes
<1>5. LedgerBooks'
  BY <1>1, <1>3, SameBooks
<1>6. QuietStep
  BY <1>1, <1>3 DEF QuietStep, LiteInv, RowBooks, CleanedAway, Running, Exists,
     Everything
<1> QED
  BY <1>1, <1>4, <1>5, <1>6, QuietAlone

LEMMA CleanupRequested ==
  ASSUME LiteNames, LiteInv, Lite!RequestCleanup PROVE LiteInv'
<1>1. UNCHANGED <<ledger, task, pair, ids, lock, worker>> /\ LiteTypes /\ env.gen # 0
  BY DEF Lite!RequestCleanup, LiteInv
<1>2. PICK b \in BOOLEAN : b = TRUE
  OBVIOUS
<1>3. /\ env' \in EnvRows /\ env'.op = env.op /\ env'.gen = env.gen
      /\ env'.cid = env.cid /\ env'.cleanup = b
      /\ env'.restarts = env.restarts /\ env'.env = env.env
  BY <1>1, <1>2, RowTouched DEF Lite!RequestCleanup
<1>4. budget' \in Budgets
  BY <1>1, Spent DEF Lite!RequestCleanup
<1>5. LiteTypes'
  BY <1>1, <1>3, <1>4 DEF LiteTypes
<1>6. LedgerBooks'
  BY <1>1, <1>3, SameBooks
<1>7. QuietStep
  BY <1>1, <1>2, <1>3 DEF QuietStep, LiteInv, RowBooks, CleanedAway, Running, Exists,
     Everything
<1> QED
  BY <1>1, <1>5, <1>6, <1>7, QuietAlone

LEMMA RefusedMoves ==
  ASSUME LiteNames, LiteInv, NEW o \in Ops, Lite!RunRefused(o) PROVE LiteInv'
<1>1. /\ UNCHANGED <<task, pair, ids, lock, worker, budget>>
      /\ LiteTypes /\ Lite!Pending(o) /\ lock = Lite!Nobody
  BY DEF Lite!RunRefused, LiteInv
<1>2. PICK b \in BOOLEAN : b = (env.cleanup /\ env.op.stage # "done")
  OBVIOUS
<1>3. /\ env' \in EnvRows /\ env'.op = env.op /\ env'.gen = env.gen
      /\ env'.cid = env.cid /\ env'.cleanup = b
      /\ env'.restarts = env.restarts /\ env'.env = env.env
  BY <1>1, <1>2, RowTouched DEF Lite!RunRefused
<1>4. ledger' = [ledger EXCEPT ![o] = "not_started"]
  BY DEF Lite!RunRefused
<1>5. LiteTypes'
  BY <1>1, <1>3, <1>4 DEF LiteTypes, Outcomes
<1>6. LedgerBooks'
  BY <1>1, <1>3, <1>4, <1>5, OtherBooks DEF Lite!Pending
<1>7. \A v \in Workers : ~Running(v)
  BY <1>1 DEF Running, LiteNames
<1>8. CleanedAway => CleanedAway'
  BY <1>2, <1>3 DEF CleanedAway
<1>9. env.op.stage = "none" => ~env'.cleanup
  BY <1>2, <1>3 DEF LiteInv, RowBooks
<1>10. QuietStep
  BY <1>1, <1>3, <1>7, <1>8, <1>9 DEF QuietStep, LiteInv, Running, Exists, Everything
<1> QED
  BY <1>1, <1>5, <1>6, <1>10, QuietAlone

\* A worker that stops, whatever for, is on no book.
LEMMA QuietEnds ==
  ASSUME LiteNames, LiteInv, NEW w \in Workers, Lite!Release(w),
         env' \in EnvRows, env'.op = env.op, env'.gen = env.gen, env'.cid = env.cid,
         env'.cleanup = env.cleanup, env'.restarts = env.restarts,
         env'.env \in {env.env, "starting"}, ledger' = ledger,
         task' \in [Lite!Gens -> Tasks], pair' \in [Lite!Gens -> SUBSET Lite!Both],
         ids' \in 0..MaxIds,
         budget' \in Budgets,
         \A v \in Workers : v # w /\ Running(v) /\ task[env.op.gen].id # 0
                              => task'[env.op.gen].id # 0,
         \A g \in Lite!Gens : g # 0 /\ Exists(g)' => Known(g),
         Exists(0)' => Exists(0) /\ task'[0].id \in {0, task[0].id}
  PROVE  LiteInv'
<1>1. LiteTypes
  BY DEF LiteInv
<1>2. /\ worker' \in [Workers -> LiteRows] /\ worker'[w] = Lite!Idle
      /\ \A v \in Workers : v # w => worker'[v] = worker[v]
  BY <1>1, WorkerGone, GensAre
<1>3. /\ lock' \in Workers \cup {Lite!Nobody} /\ lock' # w
      /\ \A v \in Workers : v # w => (lock' = v) = (lock = v)
  BY <1>1 DEF Lite!Release, LiteTypes, LiteNames
<1>4. LiteTypes'
  BY <1>1, <1>2, <1>3 DEF LiteTypes
<1>5. LedgerBooks'
  BY SameBooks
<1>6. \A v \in Workers : Running(v)' => Running(v)
  BY <1>2, <1>3 DEF Running
<1>7. ASSUME NEW v \in Workers, Running(v), worker'[v] = worker[v] PROVE v # w
  BY <1>2, <1>7 DEF Running, Lite!Idle, RunPcs
<1>8. QuietStep
  BY <1>6, <1>7 DEF QuietStep, LiteInv, RowBooks, CleanedAway
<1>9. WorkerBooks(w)' /\ HolderBooks(w)'
  BY <1>2, <1>3 DEF WorkerBooks, HolderBooks, Lite!Idle, HeldPcs, RunPcs
<1> QED
  BY <1>2, <1>3, <1>4, <1>5, <1>8, <1>9, QuietWorker

\* Destroying only removes, nothing anybody builds, and what it was to remove
\* under the name of no generation.
LEMMA Destroyed ==
  ASSUME LiteNames, LiteTypes, NEW w \in Workers
  PROVE  LET specs == worker[w].specs
         IN /\ Lite!DestroyTasks(specs) \in [Lite!Gens -> Tasks]
            /\ Lite!DestroyPairs(specs) \in [Lite!Gens -> SUBSET Lite!Both]
            /\ \A g \in Lite!Gens :
                 /\ Lite!DestroyTasks(specs)[g] \in {task[g], Lite!Absent}
                 /\ Lite!DestroyPairs(specs)[g] \in {pair[g], {}}
                 /\ (\A s \in specs : s.gen # g) =>
                      Lite!DestroyTasks(specs)[g] = task[g] /\ Lite!DestroyPairs(specs)[g] = pair[g]
                 /\ \A s \in specs : s.gen = g /\ s.id # 0 =>
                      /\ Lite!DestroyPairs(specs)[g] = {}
                      /\ task[g].id \in {0, s.id} => Lite!DestroyTasks(specs)[g].id = 0
<1> DEFINE specs == worker[w].specs
<1>1. Lite!Absent \in Tasks /\ Lite!Absent.id = 0
  <2>1. PICK no \in BOOLEAN : no = FALSE
    OBVIOUS
  <2> QED
    BY <2>1, GensAre DEF Lite!Absent, Tasks
<1>2. task \in [Lite!Gens -> Tasks] /\ pair \in [Lite!Gens -> SUBSET Lite!Both]
  BY DEF LiteTypes
<1>3. Lite!DestroyTasks(specs) \in [Lite!Gens -> Tasks] /\ Lite!DestroyPairs(specs) \in [Lite!Gens -> SUBSET Lite!Both]
  BY <1>1, <1>2 DEF Lite!DestroyTasks, Lite!DestroyPairs
<1>4. ASSUME NEW g \in Lite!Gens
      PROVE  /\ Lite!DestroyTasks(specs)[g] =
                  IF \E s \in specs : s.gen = g /\ Lite!Hits(s) THEN Lite!Absent ELSE task[g]
             /\ Lite!DestroyPairs(specs)[g] =
                  IF \E s \in specs : s.gen = g /\ (s.id # 0 \/ Lite!Hits(s)) THEN {} ELSE pair[g]
  BY DEF Lite!DestroyTasks, Lite!DestroyPairs
<1>5. ASSUME NEW g \in Lite!Gens, NEW s \in specs, s.gen = g, s.id # 0,
             task[g].id \in {0, s.id}
      PROVE  Lite!DestroyTasks(specs)[g].id = 0
  BY <1>1, <1>4, <1>5 DEF Lite!Hits
<1> QED
  BY <1>3, <1>4, <1>5

\* What a destroying worker does to what others rely on.
LEMMA DestroyQuiet ==
  ASSUME LiteNames, LiteInv, NEW w \in Workers,
         task' = Lite!DestroyTasks(worker[w].specs) \/ task' = task,
         pair' = Lite!DestroyPairs(worker[w].specs) \/ pair' = pair
  PROVE  /\ task' \in [Lite!Gens -> Tasks] /\ pair' \in [Lite!Gens -> SUBSET Lite!Both]
         /\ \A v \in Workers : Running(v) /\ task[env.op.gen].id # 0
                                 => task'[env.op.gen].id # 0
         /\ \A g \in Lite!Gens : g # 0 /\ Exists(g)' => Known(g)
         /\ Exists(0)' => Exists(0) /\ task'[0].id \in {0, task[0].id}
<1>1. LiteTypes /\ Everything /\ WorkerBooks(w) /\ env.op.gen \in Lite!Gens /\ 0 \in Lite!Gens
  BY GensAre DEF LiteInv, LiteTypes, EnvRows, OpRows
<1>2. task' \in [Lite!Gens -> Tasks] /\ pair' \in [Lite!Gens -> SUBSET Lite!Both]
  BY <1>1, Destroyed DEF LiteTypes
<1>3. \A g \in Lite!Gens : task'[g] \in {task[g], Lite!Absent} /\ pair'[g] \in {pair[g], {}}
  BY <1>1, Destroyed
<1>4. \A g \in Lite!Gens : Exists(g)' => Exists(g) /\ task'[g].id \in {0, task[g].id}
  BY <1>3 DEF Exists, Lite!Absent
<1>5. ASSUME NEW v \in Workers, Running(v), task[env.op.gen].id # 0
      PROVE  task'[env.op.gen].id # 0
  <2>1. \A s \in worker[w].specs : s.gen # env.op.gen
    BY <1>1, <1>5 DEF WorkerBooks
  <2> QED
    BY <1>1, <1>5, <2>1, Destroyed
<1> QED
  BY <1>1, <1>2, <1>4, <1>5 DEF Everything

\* A worker that goes on without touching the row.
LEMMA QuietGoes ==
  ASSUME LiteNames, LiteInv, NEW w \in Workers, NEW p \in LitePcs, p # "idle",
         p # worker[w].pc, Lite!Goto(w, p), UNCHANGED <<env, ledger, lock, budget>>,
         task' \in [Lite!Gens -> Tasks], pair' \in [Lite!Gens -> SUBSET Lite!Both],
         ids' \in 0..MaxIds,
         p \in HeldPcs => lock = w,
         p \in RunPcs <=> worker[w].pc \in RunPcs,
         \A v \in Workers : v # w /\ Running(v) /\ task[env.op.gen].id # 0
                              => task'[env.op.gen].id # 0,
         \A g \in Lite!Gens : g # 0 /\ Exists(g)' => Known(g),
         Exists(0)' => Exists(0) /\ task'[0].id \in {0, task[0].id},
         HolderBooks(w)'
  PROVE  LiteInv'
<1>1. LiteTypes /\ WorkerBooks(w)
  BY DEF LiteInv
<1>2. /\ worker' \in [Workers -> LiteRows]
      /\ worker'[w].pc = p /\ worker'[w].op = worker[w].op
      /\ worker'[w].gen = worker[w].gen /\ worker'[w].specs = worker[w].specs
      /\ \A v \in Workers : v # w => worker'[v] = worker[v]
  BY <1>1, WorkerGone, GensAre
<1>3. LiteTypes'
  BY <1>1, <1>2 DEF LiteTypes
<1>4. LedgerBooks'
  BY SameBooks
<1>5. \A v \in Workers : Running(v)' <=> Running(v)
  BY <1>2 DEF Running
<1>6. ASSUME NEW v \in Workers, worker'[v] = worker[v] PROVE v # w
  BY <1>2, <1>6
<1>7. QuietStep
  BY <1>5, <1>6 DEF QuietStep, LiteInv, RowBooks, CleanedAway
<1>8. Known(worker[w].gen)' = Known(worker[w].gen)
  BY <1>2 DEF Known, OldGen, RetiredGen
<1>9. WorkerBooks(w)'
  BY <1>1, <1>2, <1>5, <1>8 DEF WorkerBooks, CleanedAway, Known, OldGen, RetiredGen
<1> QED
  BY <1>2, <1>3, <1>4, <1>7, <1>9, QuietWorker

LEMMA LiteFacts ==
  ASSUME LiteNames, LiteInv, NEW w \in Workers
  PROVE  /\ LiteTypes /\ WorkerBooks(w) /\ HolderBooks(w) /\ Everything
         /\ env \in EnvRows /\ env.op \in OpRows /\ env.op.gen \in Lite!Gens
         /\ worker[w] \in LiteRows /\ worker[w].gen \in Lite!Gens
         /\ 0 \in Lite!Gens /\ 0 \in 0..MaxIds
         /\ task \in [Lite!Gens -> Tasks] /\ pair \in [Lite!Gens -> SUBSET Lite!Both]
         /\ ids \in 0..MaxIds /\ budget \in Budgets
         /\ \A g \in Lite!Gens : g # 0 /\ Exists(g) => Known(g)
BY GensAre DEF LiteInv, LiteTypes, EnvRows, OpRows, LiteRows, Everything

LEMMA ReapEnds ==
  ASSUME LiteNames, LiteInv, NEW w \in Workers, Lite!ReapDestroy(w) PROVE LiteInv'
<1>1. /\ Lite!Release(w) /\ UNCHANGED <<env, ledger, ids, budget>>
      /\ task' = Lite!DestroyTasks(worker[w].specs) /\ pair' = Lite!DestroyPairs(worker[w].specs)
  BY DEF Lite!ReapDestroy
<1>2. env \in EnvRows /\ ids \in 0..MaxIds /\ budget \in Budgets
  BY LiteFacts
<1> QED
  BY <1>1, <1>2, DestroyQuiet, QuietEnds

\* The old environment, or the one that is cleaned up, is gone before the next
\* stage, of a holder of the lock.
LEMMA DestroyMoves ==
  ASSUME LiteNames, LiteInv, NEW w \in Workers, Lite!RunDestroy(w) \/ Lite!CleanupDestroy(w)
  PROVE  LiteInv'
<1>1. /\ LiteTypes /\ WorkerBooks(w) /\ HolderBooks(w) /\ Everything
      /\ env \in EnvRows /\ ids \in 0..MaxIds /\ budget \in Budgets /\ 0 \in Lite!Gens
      /\ task \in [Lite!Gens -> Tasks]
  BY LiteFacts
<1>2. /\ task' = Lite!DestroyTasks(worker[w].specs) /\ pair' = Lite!DestroyPairs(worker[w].specs)
      /\ UNCHANGED <<env, ledger, ids, budget>>
  BY DEF Lite!RunDestroy, Lite!CleanupDestroy, Lite!Destroy
<1>3. /\ task' \in [Lite!Gens -> Tasks] /\ pair' \in [Lite!Gens -> SUBSET Lite!Both]
      /\ \A v \in Workers : Running(v) /\ task[env.op.gen].id # 0
                              => task'[env.op.gen].id # 0
      /\ \A g \in Lite!Gens : g # 0 /\ Exists(g)' => Known(g)
      /\ Exists(0)' => Exists(0) /\ task'[0].id \in {0, task[0].id}
  BY <1>2, DestroyQuiet
<1>4. CASE Lite!Release(w)
  BY <1>1, <1>2, <1>3, <1>4, QuietEnds
<1>5. ASSUME lock = w, env.op.stage \in {"teardown"} => env.op.old \subseteq worker[w].specs,
             env.op.stage # "none"
      PROVE  ~Exists(0)'
  <2> SUFFICES ASSUME Exists(0) PROVE ~Exists(0)'
    BY <1>3
  <2>1. PICK s \in env.op.old : s.gen = 0 /\ s.id # 0 /\ task[0].id \in {0, s.id}
    BY <1>1, <1>5 DEF Everything
  <2>2. s \in worker[w].specs
    BY <1>1, <1>5, <2>1 DEF Everything
  <2> QED
    BY <1>1, <1>2, <2>1, <2>2, Destroyed DEF Exists
<1>6. CASE worker[w].pc = "destroy" /\ lock = w /\ Lite!Goto(w, "advance") /\ UNCHANGED lock
  <2>1. HolderRuns(w)
    BY <1>1, <1>6 DEF HolderBooks, RunPcs
  <2>2. ~Exists(0)'
    BY <1>5, <1>6, <2>1 DEF HolderRuns
  <2>3. "advance" \in LitePcs
    BY DEF LitePcs
  <2>4. worker'[w].pc = "advance" /\ worker'[w].op = worker[w].op
        /\ worker'[w].gen = worker[w].gen
    BY <1>1, <1>6, <2>3, WorkerGone
  <2>5. HolderBooks(w)'
    BY <1>2, <1>6, <2>1, <2>2, <2>4 DEF HolderBooks, HolderRuns
  <2>6. "advance" \in RunPcs /\ worker[w].pc \in RunPcs
    BY <1>6 DEF RunPcs
  <2> QED
    BY <1>1, <1>2, <1>3, <1>6, <2>3, <2>5, <2>6, QuietGoes
<1>7. CASE worker[w].pc = "c_destroy" /\ lock = w /\ Lite!Goto(w, "c_done") /\ UNCHANGED lock
  <2>1. HolderCleans(w)
    BY <1>1, <1>7 DEF HolderBooks, RunPcs
  <2>2. env.op.stage # "none"
    BY <2>1 DEF HolderCleans, RetiredGen, LiteInv, RowBooks
  <2>3. ~Exists(0)'
    BY <1>5, <1>7, <2>1, <2>2 DEF HolderCleans
  <2>4. "c_done" \in LitePcs
    BY DEF LitePcs
  <2>5. worker'[w].pc = "c_done" /\ worker'[w].op = worker[w].op
        /\ worker'[w].gen = worker[w].gen
    BY <1>1, <1>7, <2>4, WorkerGone
  <2>6. HolderBooks(w)'
    BY <1>2, <1>7, <2>1, <2>3, <2>5 DEF HolderBooks, HolderCleans, RunPcs, RetiredGen
  <2>7. "c_done" \notin RunPcs /\ worker[w].pc \notin RunPcs
    BY <1>7 DEF RunPcs
  <2> QED
    BY <1>1, <1>2, <1>3, <1>7, <2>4, <2>6, <2>7, QuietGoes
<1> QED
  BY <1>4, <1>6, <1>7 DEF Lite!RunDestroy, Lite!CleanupDestroy, Lite!Destroy, Lite!Fence

\* Making is done under the name of the worker's own generation.
LEMMA MadeQuiet ==
  ASSUME LiteNames, LiteInv, NEW w \in Workers,
         \/ UNCHANGED <<task, pair>>
         \/ /\ worker[w].pc \in RunPcs
            /\ \/ task' = task
               \/ \E x \in Tasks : x.id # 0 /\ task' = [task EXCEPT ![worker[w].gen] = x]
            /\ \/ pair' = pair
               \/ \E p \in SUBSET Lite!Both : pair' = [pair EXCEPT ![worker[w].gen] = p]
  PROVE  /\ task' \in [Lite!Gens -> Tasks] /\ pair' \in [Lite!Gens -> SUBSET Lite!Both]
         /\ \A v \in Workers : Running(v) /\ task[env.op.gen].id # 0
                                 => task'[env.op.gen].id # 0
         /\ \A g \in Lite!Gens : g # 0 /\ Exists(g)' => Known(g)
         /\ Exists(0)' => Exists(0) /\ task'[0].id \in {0, task[0].id}
<1>1. /\ task \in [Lite!Gens -> Tasks] /\ pair \in [Lite!Gens -> SUBSET Lite!Both] /\ 0 \in Lite!Gens
      /\ env.op.gen \in Lite!Gens /\ worker[w].gen \in Lite!Gens /\ WorkerBooks(w)
      /\ \A g \in Lite!Gens : g # 0 /\ Exists(g) => Known(g)
  BY LiteFacts
<1>2. CASE UNCHANGED <<task, pair>>
  BY <1>1, <1>2 DEF Exists
<1>3. CASE worker[w].pc \in RunPcs /\ ~UNCHANGED <<task, pair>>
  <2>1. worker[w].gen # 0 /\ Known(worker[w].gen)
    BY <1>1, <1>3 DEF WorkerBooks
  <2>2. /\ task' \in [Lite!Gens -> Tasks] /\ pair' \in [Lite!Gens -> SUBSET Lite!Both]
        /\ \A g \in Lite!Gens : g # worker[w].gen => task'[g] = task[g] /\ pair'[g] = pair[g]
        /\ task[worker[w].gen].id # 0 => task'[worker[w].gen].id # 0
    BY <1>1, <1>3
  <2> QED
    BY <1>1, <2>1, <2>2 DEF Exists
<1> QED
  BY <1>2, <1>3

LEMMA StepNames ==
  /\ RunPcs \subseteq LitePcs
  /\ \A p \in {"destroy", "create", "broker", "terminal"} :
       p \in RunPcs /\ p \notin HeldPcs
BY DEF RunPcs, LitePcs, HeldPcs, Lite!DockerSteps

LEMMA RevokedMoves ==
  ASSUME LiteNames, LiteInv, NEW w \in Workers, Lite!RunRevoked(w) PROVE LiteInv'
<1>1. /\ Lite!Release(w) /\ UNCHANGED <<ledger, task, pair, ids, budget>>
      /\ env' = [env EXCEPT !.env = "starting"]
  BY DEF Lite!RunRevoked
<1>2. LiteTypes /\ ids \in 0..MaxIds /\ budget \in Budgets
  BY LiteFacts
<1>3. /\ env' \in EnvRows /\ env'.op = env.op /\ env'.gen = env.gen
      /\ env'.cid = env.cid /\ env'.cleanup = env.cleanup
      /\ env'.restarts = env.restarts /\ env'.env = "starting"
  BY <1>1, <1>2, RowTouched
<1> QED
  BY <1>1, <1>2, <1>3, MadeQuiet, QuietEnds

LEMMA FailureMoves ==
  ASSUME LiteNames, LiteInv, NEW w \in Workers, Lite!DockerFails(w) PROVE LiteInv'
<1>1. /\ Lite!Release(w) /\ UNCHANGED <<ledger, task, ids>>
      /\ env' \in {[env EXCEPT !.env = "starting"], env}
      /\ budget.faults > 0 /\ budget' = [budget EXCEPT !.faults = @ - 1]
  BY DEF Lite!DockerFails
<1>2. LiteTypes /\ ids \in 0..MaxIds /\ budget \in Budgets /\ env \in EnvRows
      /\ pair \in [Lite!Gens -> SUBSET Lite!Both] /\ worker[w].gen \in Lite!Gens
  BY LiteFacts
<1>3. /\ env' \in EnvRows /\ env'.op = env.op /\ env'.gen = env.gen
      /\ env'.cid = env.cid /\ env'.cleanup = env.cleanup
      /\ env'.restarts = env.restarts /\ env'.env \in {env.env, "starting"}
  BY <1>1, <1>2, RowTouched
<1>4. budget' \in Budgets
  BY <1>1, <1>2, Spent
<1>5. \/ pair' = Lite!DestroyPairs(worker[w].specs) \/ pair' = pair
      \/ /\ worker[w].pc \in {"broker", "terminal"}
         /\ \E p \in SUBSET Lite!Both : pair' = [pair EXCEPT ![worker[w].gen] = p]
  <2>1. CASE worker[w].pc = "broker"
    BY <2>1 DEF Lite!DockerFails, Lite!Both
  <2>2. CASE worker[w].pc = "terminal"
    <3>1. pair' = [pair EXCEPT ![worker[w].gen] = @ \ {"broker"}]
      BY <2>2 DEF Lite!DockerFails
    <3>2. pair[worker[w].gen] \ {"broker"} \in SUBSET Lite!Both
      BY <1>2
    <3> QED
      BY <2>2, <3>1, <3>2
  <2>3. CASE worker[w].pc \in {"destroy", "c_destroy", "r_destroy"}
    BY <2>3 DEF Lite!DockerFails
  <2>4. CASE worker[w].pc \notin {"destroy", "c_destroy", "r_destroy", "broker", "terminal"}
    BY <2>4 DEF Lite!DockerFails
  <2> QED
    BY <2>1, <2>2, <2>3, <2>4
<1>6. CASE pair' = Lite!DestroyPairs(worker[w].specs) \/ pair' = pair
  BY <1>1, <1>2, <1>3, <1>4, <1>6, DestroyQuiet, QuietEnds
<1>7. CASE /\ worker[w].pc \in {"broker", "terminal"}
           /\ \E p \in SUBSET Lite!Both : pair' = [pair EXCEPT ![worker[w].gen] = p]
  <2>1. worker[w].pc \in RunPcs
    BY <1>7 DEF RunPcs
  <2> QED
    BY <1>1, <1>2, <1>3, <1>4, <1>7, <2>1, MadeQuiet, QuietEnds
<1> QED
  BY <1>5, <1>6, <1>7

LEMMA NextId ==
  ASSUME LiteNames, NEW n \in 0..MaxIds, n < MaxIds, NEW b \in BOOLEAN
  PROVE  /\ n + 1 \in 0..MaxIds /\ n + 1 # 0
         /\ [id |-> n + 1, up |-> b] \in Tasks /\ [id |-> n + 1, up |-> b].id # 0
<1>1. n + 1 \in 0..MaxIds /\ n + 1 # 0
  BY DEF LiteNames
<1> QED
  BY <1>1 DEF Tasks

LEMMA LiteCrash ==
  ASSUME LiteNames, LiteInv, NEW w \in Workers, Lite!Crash(w) PROVE LiteInv'
<1>1. /\ Lite!Release(w) /\ UNCHANGED <<env, ledger, pair>>
      /\ budget.faults > 0 /\ budget' = [budget EXCEPT !.faults = @ - 1]
  BY DEF Lite!Crash
<1>2. LiteTypes /\ ids \in 0..MaxIds /\ budget \in Budgets /\ env \in EnvRows
  BY LiteFacts
<1>3. budget' \in Budgets
  BY <1>1, <1>2, Spent
<1>4. CASE UNCHANGED <<task, ids>>
  BY <1>1, <1>2, <1>3, <1>4, MadeQuiet, QuietEnds
<1>5. CASE /\ worker[w].pc = "create" /\ ids < MaxIds
           /\ task' = [task EXCEPT ![worker[w].gen] = [id |-> ids + 1, up |-> FALSE]]
           /\ ids' = ids + 1
  <2>1. PICK b \in BOOLEAN : b = FALSE
    OBVIOUS
  <2>2. PICK x \in Tasks : x = [id |-> ids + 1, up |-> b] /\ x.id # 0
    BY <1>2, <1>5, NextId
  <2>3. task' = [task EXCEPT ![worker[w].gen] = x]
    BY <1>5, <2>1, <2>2
  <2>4. ids' \in 0..MaxIds
    BY <1>2, <1>5, NextId
  <2>5. worker[w].pc \in RunPcs
    BY <1>5 DEF RunPcs
  <2> QED
    BY <1>1, <1>2, <1>3, <2>2, <2>3, <2>4, <2>5, MadeQuiet, QuietEnds
<1> QED
  BY <1>4, <1>5 DEF Lite!Crash

LEMMA ConflictMoves ==
  ASSUME LiteNames, LiteInv, NEW w \in Workers, Lite!LateConflict(w) PROVE LiteInv'
<1>1. Lite!Release(w) /\ UNCHANGED <<env, ledger, task, ids, budget>>
  BY DEF Lite!LateConflict
<1>2. LiteTypes /\ ids \in 0..MaxIds /\ budget \in Budgets /\ env \in EnvRows
      /\ pair \in [Lite!Gens -> SUBSET Lite!Both] /\ worker[w].gen \in Lite!Gens
  BY LiteFacts
<1>3. CASE UNCHANGED pair
  BY <1>1, <1>2, <1>3, MadeQuiet, QuietEnds
<1>4. CASE /\ worker[w].pc = "terminal"
           /\ pair' = [pair EXCEPT ![worker[w].gen] = @ \ {"broker"}]
  <2>1. PICK p \in SUBSET Lite!Both : p = pair[worker[w].gen] \ {"broker"}
    BY <1>2
  <2>2. worker[w].pc \in RunPcs
    BY <1>4 DEF RunPcs
  <2>3. pair' = [pair EXCEPT ![worker[w].gen] = p]
    BY <1>4, <2>1
  <2> QED
    BY <1>1, <1>2, <2>2, <2>3, MadeQuiet, QuietEnds
<1> QED
  BY <1>3, <1>4 DEF Lite!LateConflict

\* A session that is replaced: its worker is late from there on.
LEMMA SessionLost ==
  ASSUME LiteNames, LiteInv, NEW w \in Workers, Lite!LoseSession(w) PROVE LiteInv'
<1>1. /\ UNCHANGED <<env, ledger, task, pair, ids, worker>> /\ lock = w /\ lock' = Lite!Nobody
      /\ worker[w].pc \in Lite!DockerSteps \ {"find"}
      /\ budget.lost > 0 /\ budget' = [budget EXCEPT !.lost = @ - 1]
  BY DEF Lite!LoseSession, Lite!Fence
<1>2. LiteTypes /\ WorkerBooks(w)
  BY LiteFacts
<1>3. LiteTypes'
  BY <1>1, <1>2, Spent DEF LiteTypes
<1>4. LedgerBooks'
  BY <1>1, SameBooks
<1>5. \A v \in Workers : ~Running(v)'
  BY <1>1 DEF Running, LiteNames
<1>6. QuietStep
  BY <1>1, <1>5 DEF QuietStep, LiteInv, RowBooks, CleanedAway, Exists, Everything
<1>7. worker[w].pc \notin HeldPcs
  BY <1>1 DEF HeldPcs, Lite!DockerSteps
<1>8. WorkerBooks(w)' /\ HolderBooks(w)'
  BY <1>1, <1>2, <1>5, <1>7
     DEF WorkerBooks, HolderBooks, LiteNames, CleanedAway, Known, OldGen, RetiredGen
<1>9. \A v \in Workers : v # w => (lock' = v) = (lock = v)
  BY <1>1 DEF LiteNames
<1> QED
  BY <1>1, <1>3, <1>4, <1>6, <1>8, <1>9, QuietWorker

LEMMA ReapBegins ==
  ASSUME LiteNames, LiteInv, NEW w \in Workers, Lite!ReapStart(w) PROVE LiteInv'
<1>1. /\ UNCHANGED <<env, ledger, task, pair, ids, budget>>
      /\ lock = Lite!Nobody /\ lock' = w /\ worker[w].pc = "idle"
  BY DEF Lite!ReapStart
<1>2. LiteTypes /\ env.op \in OpRows /\ 0 \in Lite!Gens
  BY LiteFacts
<1>3. PICK x : x = [pc |-> "r_destroy", op |-> Lite!NoOp, gen |-> 0, specs |-> env.op.retired]
  OBVIOUS
<1>4. /\ x \in LiteRows /\ x.pc = "r_destroy" /\ x.op = Lite!NoOp
      /\ x.specs = env.op.retired
  BY <1>2, <1>3 DEF LiteRows, LitePcs, Lite!DockerSteps, OpRows
<1>5. /\ worker' \in [Workers -> LiteRows] /\ worker'[w] = x
      /\ \A v \in Workers : v # w => worker'[v] = worker[v]
  BY <1>2, <1>3, <1>4 DEF Lite!ReapStart, LiteTypes
<1>6. LiteTypes'
  BY <1>1, <1>2, <1>5 DEF LiteTypes
<1>7. LedgerBooks'
  BY <1>1, SameBooks
<1>8. \A v \in Workers : ~Running(v) /\ ~Running(v)'
  BY <1>1, <1>4, <1>5 DEF Running, LiteNames, RunPcs
<1>9. QuietStep
  BY <1>1, <1>8 DEF QuietStep, LiteInv, RowBooks, CleanedAway, Exists, Everything
<1>10. \A s \in env.op.retired :
         /\ s.gen <= env.op.gen
         /\ s.gen = env.op.gen => CleanedAway
  BY DEF LiteInv, Generations, RetiredGen
<1>11. \A s \in env.op.retired :
         /\ s.gen <= env'.op.gen
         /\ s.gen = env'.op.gen => CleanedAway'
  BY <1>1, <1>10 DEF CleanedAway
<1>12. WorkerBooks(w)' /\ HolderBooks(w)'
  BY <1>4, <1>5, <1>8, <1>11 DEF WorkerBooks, HolderBooks, HeldPcs, RunPcs
<1>13. \A v \in Workers : v # w => (lock' = v) = (lock = v)
  BY <1>1 DEF LiteNames
<1> QED
  BY <1>5, <1>6, <1>7, <1>9, <1>12, <1>13, QuietWorker

\* The holder of the lock that works at a stage.
LEMMA HolderIs ==
  ASSUME LiteNames, LiteInv, NEW w \in Workers, lock = w
  PROVE  /\ worker[w].pc \in RunPcs => HolderRuns(w) /\ Running(w)
         /\ worker[w].pc \in {"c_destroy", "c_done"} => HolderCleans(w)
BY DEF LiteInv, HolderBooks, Running

LEMMA FindMoves ==
  ASSUME LiteNames, LiteInv, NEW w \in Workers, Lite!RunFind(w) PROVE LiteInv'
<1>1. /\ UNCHANGED <<env, ledger, pair, ids, lock, budget>>
      /\ lock = w /\ worker[w].pc = "find"
  BY DEF Lite!RunFind, Lite!Fence
<1>2. /\ LiteTypes /\ worker[w].gen \in Lite!Gens /\ ids \in 0..MaxIds
      /\ task \in [Lite!Gens -> Tasks] /\ 0 \in Lite!Gens
  BY LiteFacts
<1>3. HolderRuns(w) /\ worker[w].pc \in RunPcs
  BY <1>1, HolderIs DEF RunPcs
<1>4. \A p \in {"create", "pin"} :
        /\ p \in LitePcs /\ p # "idle" /\ p # worker[w].pc /\ p \in RunPcs
  BY <1>1 DEF LitePcs, Lite!DockerSteps, RunPcs
<1>5. ASSUME NEW p \in {"create", "pin"}, Lite!Goto(w, p),
             p = "pin" => task'[env.op.gen].id # 0,
             Exists(0)' => Exists(0)
      PROVE  HolderBooks(w)'
  <2>1. /\ worker'[w].pc = p /\ worker'[w].op = worker[w].op
        /\ worker'[w].gen = worker[w].gen /\ worker'[w].specs = worker[w].specs
    BY <1>2, <1>4, <1>5, WorkerGone
  <2>2. HolderRuns(w)'
    BY <1>1, <1>3, <1>5, <2>1 DEF HolderRuns
  <2> QED
    BY <2>1, <2>2 DEF HolderBooks
<1>6. CASE task[worker[w].gen].id = 0
  <2>1. Lite!Goto(w, "create") /\ UNCHANGED task
    BY <1>6 DEF Lite!RunFind
  <2>2. HolderBooks(w)'
    BY <1>1, <1>5, <2>1 DEF Exists
  <2> QED
    BY <1>1, <1>2, <1>3, <1>4, <2>1, <2>2, MadeQuiet, QuietGoes
<1>7. CASE task[worker[w].gen].id # 0
  <2>1. Lite!Goto(w, "pin") /\ task' = [task EXCEPT ![worker[w].gen].up = TRUE]
    BY <1>7 DEF Lite!RunFind
  <2>2. PICK b \in BOOLEAN : b = TRUE
    OBVIOUS
  <2>3. PICK x : x = [task[worker[w].gen] EXCEPT !.up = b]
    OBVIOUS
  <2>4. x \in Tasks /\ x.id = task[worker[w].gen].id
    BY <1>2, <2>3 DEF Tasks
  <2>5. task' = [task EXCEPT ![worker[w].gen] = x]
    BY <1>2, <2>1, <2>2, <2>3
  <2>6. task'[env.op.gen].id # 0
    BY <1>2, <1>3, <1>7, <2>4, <2>5 DEF HolderRuns
  <2>7. Exists(0)' => Exists(0)
    BY <1>1, <1>2, <1>7, <2>4, <2>5 DEF Exists
  <2>8. HolderBooks(w)'
    BY <1>5, <2>1, <2>6, <2>7
  <2> QED
    BY <1>1, <1>2, <1>3, <1>4, <1>7, <2>1, <2>4, <2>5, <2>8, MadeQuiet, QuietGoes
<1> QED
  BY <1>6, <1>7

LEMMA LiteCreateMoves ==
  ASSUME LiteNames, LiteInv, NEW w \in Workers, Lite!RunCreate(w) PROVE LiteInv'
<1>1. /\ UNCHANGED <<env, ledger, pair, budget>> /\ worker[w].pc = "create"
      /\ ids < MaxIds /\ task[worker[w].gen].id = 0 /\ ids' = ids + 1
      /\ task' = [task EXCEPT ![worker[w].gen] = [id |-> ids + 1, up |-> TRUE]]
  BY DEF Lite!RunCreate
<1>2. /\ LiteTypes /\ worker[w].gen \in Lite!Gens /\ ids \in 0..MaxIds
      /\ task \in [Lite!Gens -> Tasks] /\ 0 \in Lite!Gens /\ env \in EnvRows /\ budget \in Budgets
  BY LiteFacts
<1>3. worker[w].pc \in RunPcs
  BY <1>1 DEF RunPcs
<1>4. PICK b \in BOOLEAN : b = TRUE
  OBVIOUS
<1>5. PICK x \in Tasks : x = [id |-> ids + 1, up |-> b] /\ x.id # 0
  BY <1>1, <1>2, NextId
<1>6. task' = [task EXCEPT ![worker[w].gen] = x] /\ ids' \in 0..MaxIds
  BY <1>1, <1>2, <1>4, <1>5, NextId
<1>7. CASE Lite!Release(w)
  BY <1>1, <1>2, <1>3, <1>5, <1>6, <1>7, MadeQuiet, QuietEnds
<1>8. CASE lock = w /\ Lite!Goto(w, "pin") /\ UNCHANGED lock
  <2>1. HolderRuns(w)
    BY <1>3, <1>8, HolderIs
  <2>2. "pin" \in LitePcs /\ "pin" \in RunPcs
    BY DEF LitePcs, RunPcs
  <2>3. /\ worker'[w].pc = "pin" /\ worker'[w].op = worker[w].op
        /\ worker'[w].gen = worker[w].gen /\ worker'[w].specs = worker[w].specs
    BY <1>2, <1>8, <2>2, WorkerGone
  <2>4. task'[env.op.gen].id # 0
    BY <1>2, <1>5, <1>6, <2>1 DEF HolderRuns
  <2>5. HolderRuns(w)'
    BY <1>1, <2>1, <2>3, <2>4 DEF HolderRuns
  <2>6. HolderBooks(w)'
    BY <2>3, <2>5 DEF HolderBooks
  <2> QED
    BY <1>1, <1>2, <1>3, <1>5, <1>6, <1>8, <2>2, <2>6, MadeQuiet, QuietGoes
<1> QED
  BY <1>7, <1>8 DEF Lite!RunCreate, Lite!Fence

LEMMA BrokerMoves ==
  ASSUME LiteNames, LiteInv, NEW w \in Workers, Lite!RunBroker(w) \/ Lite!RunTerminal(w)
  PROVE  LiteInv'
<1>1. /\ UNCHANGED <<env, ledger, task, ids, budget>>
      /\ worker[w].pc \in {"broker", "terminal"}
  BY DEF Lite!RunBroker, Lite!RunTerminal
<1>2. /\ LiteTypes /\ worker[w].gen \in Lite!Gens /\ ids \in 0..MaxIds
      /\ pair \in [Lite!Gens -> SUBSET Lite!Both] /\ 0 \in Lite!Gens /\ env \in EnvRows /\ budget \in Budgets
      /\ WorkerBooks(w)
  BY LiteFacts
<1>3. worker[w].pc \in RunPcs /\ worker[w].gen # 0
  BY <1>1, <1>2 DEF RunPcs, WorkerBooks
<1>4. PICK p \in SUBSET Lite!Both : pair' = [pair EXCEPT ![worker[w].gen] = p]
  <2>1. pair[worker[w].gen] \cup {"terminal"} \in SUBSET Lite!Both /\ {"broker"} \in SUBSET Lite!Both
    BY <1>2 DEF Lite!Both
  <2> QED
    BY <2>1 DEF Lite!RunBroker, Lite!RunTerminal
<1>5. CASE Lite!Release(w)
  BY <1>1, <1>2, <1>3, <1>4, <1>5, MadeQuiet, QuietEnds
<1>6. ASSUME NEW q \in {"terminal", "publish"}, Lite!Goto(w, q), UNCHANGED lock,
             q # worker[w].pc, q = "publish" => lock = w
      PROVE  LiteInv'
  <2>1. q \in LitePcs /\ q \in RunPcs /\ q # "idle" /\ (q \in HeldPcs => q = "publish")
    BY DEF LitePcs, RunPcs, Lite!DockerSteps, HeldPcs
  <2>2. /\ worker'[w].pc = q /\ worker'[w].op = worker[w].op
        /\ worker'[w].gen = worker[w].gen /\ worker'[w].specs = worker[w].specs
    BY <1>2, <1>6, <2>1, WorkerGone
  <2>3. Exists(0)' => Exists(0)
    BY <1>1, <1>2, <1>3, <1>4 DEF Exists
  <2>4. HolderBooks(w)'
    <3> SUFFICES ASSUME lock' = w PROVE HolderRuns(w)'
      BY <2>1, <2>2 DEF HolderBooks
    <3>1. HolderRuns(w)
      BY <1>3, <1>6, HolderIs
    <3> QED
      BY <1>1, <1>6, <2>2, <2>3, <3>1 DEF HolderRuns
  <2>5. q \in HeldPcs => lock = w
    BY <1>6, <2>1
  <2> QED
    BY <1>1, <1>2, <1>3, <1>4, <1>6, <2>1, <2>4, <2>5, MadeQuiet, QuietGoes
<1>7. Lite!RunBroker(w) => Lite!Goto(w, "terminal") /\ UNCHANGED lock /\ worker[w].pc = "broker"
  BY DEF Lite!RunBroker
<1>8. Lite!RunTerminal(w) =>
        \/ Lite!Release(w)
        \/ Lite!Goto(w, "publish") /\ UNCHANGED lock /\ lock = w /\ worker[w].pc = "terminal"
  BY DEF Lite!RunTerminal, Lite!Fence
<1> QED
  BY <1>5, <1>6, <1>7, <1>8

LEMMA Numbers ==
  ASSUME LiteNames, LiteTypes
  PROVE  /\ env.op.gen \in Nat /\ env.gen \in Nat /\ env.op.gen \in Lite!Gens /\ env.gen \in Lite!Gens
         /\ \A v \in Workers : worker[v].gen \in Lite!Gens
              /\ \A s \in worker[v].specs : s.gen \in Nat /\ s.gen \in Lite!Gens
         /\ \A s \in env.op.old \cup env.op.retired : s.gen \in Nat /\ s.gen \in Lite!Gens
<1>1. env \in EnvRows /\ env.op \in OpRows /\ Lite!Gens \subseteq Nat
      /\ worker \in [Workers -> LiteRows]
  BY GensAre DEF LiteTypes, EnvRows
<1>2. \A s \in Lite!EnvSpecs : s.gen \in Lite!Gens
  BY DEF Lite!EnvSpecs
<1>3. env.op.old \subseteq Lite!EnvSpecs /\ env.op.retired \subseteq Lite!EnvSpecs
      /\ env.op.gen \in Lite!Gens /\ env.gen \in Lite!Gens
  BY <1>1 DEF EnvRows, OpRows
<1>4. \A v \in Workers : worker[v].gen \in Lite!Gens /\ worker[v].specs \subseteq Lite!EnvSpecs
  BY <1>1 DEF LiteRows
<1> QED
  BY <1>1, <1>2, <1>3, <1>4

\* A worker that takes no part in a step that changes the operation of the row.
LEMMA Kept ==
  ASSUME LiteNames, LiteInv, NEW w \in Workers, LiteTypes', RowBooks', LedgerBooks',
         Generations', Everything', WorkerBooks(w)', HolderBooks(w)',
         lock \in {w, Lite!Nobody}, lock' \in {w, Lite!Nobody},
         \A v \in Workers : v # w => worker'[v] = worker[v],
         \A g \in Lite!Gens : g # 0 /\ Known(g) => Known(g)',
         env.op.gen <= env'.op.gen,
         \A v \in Workers : v # w =>
           \A s \in worker[v].specs :
             s.gen = env'.op.gen => CleanedAway' /\ \A u \in Workers : ~Running(u)'
  PROVE  LiteInv'
<1>1. ASSUME NEW v \in Workers, v # w PROVE WorkerBooks(v)' /\ HolderBooks(v)'
  <2>1. WorkerBooks(v) /\ worker'[v] = worker[v] /\ lock # v /\ lock' # v
    BY <1>1 DEF LiteInv, LiteNames
  <2>2. HolderBooks(v)'
    BY <2>1 DEF HolderBooks
  <2>3. worker[v].gen \in Lite!Gens /\ env.op.gen \in Nat
        /\ \A s \in worker[v].specs : s.gen \in Nat
    BY Numbers DEF LiteInv
  <2>4. env'.op.gen \in Nat
    BY GensAre DEF LiteTypes, EnvRows, OpRows
  <2>5. worker'[v].pc \in RunPcs => worker'[v].gen # 0 /\ Known(worker[v].gen)'
    BY <2>1, <2>3 DEF WorkerBooks
  <2>6. ASSUME NEW s \in worker[v].specs
        PROVE  /\ worker'[v].pc # "idle" /\ s.gen <= env'.op.gen
               /\ s.gen = env'.op.gen
                    => CleanedAway' /\ \A u \in Workers : ~Running(u)'
    <3>1. worker'[v].pc # "idle" /\ s.gen <= env.op.gen
      BY <2>1 DEF WorkerBooks
    <3>2. s.gen <= env'.op.gen
      BY <2>3, <2>4, <3>1
    <3> QED
      BY <1>1, <3>1, <3>2
  <2>7. WorkerBooks(v)'
    BY <2>1, <2>5, <2>6 DEF WorkerBooks
  <2> QED
    BY <2>2, <2>7
<1>2. \A v \in Workers : v = w => WorkerBooks(v)' /\ HolderBooks(v)'
  OBVIOUS
<1> QED
  BY <1>1, <1>2 DEF LiteInv

\* No operation loses its generation, and no reset its success.
LEMMA GivenGrows ==
  ASSUME LiteNames, LiteInv, LiteTypes', Given \subseteq Given',
         \A p \in Resets : (ledger'[p] = "success") = (ledger[p] = "success"),
         env'.op.gen = env.op.gen, env'.restarts = env.restarts
  PROVE  (env.op.gen <= Cardinality(Given))' /\ Lite!RestartsMatchLedger'
<1>1. LiteTypes /\ LedgerBooks
  BY DEF LiteInv
<1>2. Given' \subseteq Ops
  BY DEF Given
<1>3. {p \in Resets : ledger[p] = "success"}' = {p \in Resets : ledger[p] = "success"}
  OBVIOUS
<1>4. Lite!RestartsMatchLedger'
  BY <1>1, <1>3 DEF LedgerBooks, Lite!RestartsMatchLedger
<1>5. IsFiniteSet(Given') /\ IsFiniteSet(Given)
  BY <1>2, FS_Subset DEF LiteNames
<1>6. Cardinality(Given) <= Cardinality(Given') /\ Cardinality(Given) \in Nat
      /\ Cardinality(Given') \in Nat
  BY <1>5, FS_Subset, FS_CardinalityType
<1>7. env.op.gen \in Nat
  BY <1>1, Numbers
<1> QED
  BY <1>1, <1>4, <1>6, <1>7 DEF LedgerBooks

\* Nobody cleans the environment up that a checkpoint is made of.
LEMMA NotCleaned ==
  ASSUME LiteInv, ~CleanedAway
  PROVE  /\ ~RetiredGen(env.op.gen)
         /\ \A v \in Workers : \A s \in worker[v].specs : s.gen # env.op.gen
BY DEF LiteInv, Generations, WorkerBooks

LEMMA AdvanceMoves ==
  ASSUME LiteNames, LiteInv, NEW w \in Workers, Lite!RunAdvance(w) PROVE LiteInv'
<1>1. /\ UNCHANGED <<ledger, task, pair, ids, lock, budget>>
      /\ lock = w /\ worker[w].pc = "advance" /\ Lite!Goto(w, "clear") /\ ~env.cleanup
  BY DEF Lite!RunAdvance, Lite!Fence, Lite!Checkpointed
<1>2. LiteTypes /\ 0 \in Lite!Gens /\ WorkerBooks(w)
  BY LiteFacts
<1>3. HolderRuns(w) /\ worker[w].pc \in RunPcs
  BY <1>1, HolderIs DEF RunPcs
<1>4. env.op.stage = "teardown" /\ ~Exists(0)
  BY <1>1, <1>3 DEF HolderRuns
<1>5. /\ env' \in EnvRows
      /\ env'.op.stage = "create" /\ env'.op.id = env.op.id
      /\ env'.op.retired = Lite!Retire(env.op.retired, env.op.old)
      /\ env'.op.old = env.op.old /\ env'.op.gen = env.op.gen
      /\ env'.op.target = env.op.target
      /\ env'.gen = env.gen /\ env'.cid = env.cid /\ env'.env = env.env
      /\ env'.cleanup = env.cleanup /\ env'.restarts = env.restarts
  BY <1>2, AdvanceRow
<1>6. "clear" \in LitePcs /\ "clear" \in RunPcs /\ "clear" # "idle"
  BY DEF LitePcs, RunPcs
<1>7. /\ worker' \in [Workers -> LiteRows]
      /\ worker'[w].pc = "clear" /\ worker'[w].op = worker[w].op
      /\ worker'[w].gen = worker[w].gen /\ worker'[w].specs = worker[w].specs
      /\ \A v \in Workers : v # w => worker'[v] = worker[v]
  BY <1>1, <1>2, <1>6, WorkerGone
<1>8. LiteTypes'
  BY <1>1, <1>2, <1>5, <1>7 DEF LiteTypes
<1>9. RowBooks'
  BY <1>4, <1>5 DEF LiteInv, RowBooks
<1>10. LedgerBooks'
  <2>1. (env.op.gen <= Cardinality(Given))' /\ Lite!RestartsMatchLedger'
    BY <1>1, <1>5, <1>8, GivenGrows DEF Given
  <2> QED
    BY <1>1, <1>4, <1>5, <2>1 DEF LiteInv, LedgerBooks, Going, Given
<1>11. /\ env.op.old \in SUBSET Lite!EnvSpecs /\ env.op.retired \in SUBSET Lite!EnvSpecs
       /\ env.op.old \subseteq env'.op.old
  BY <1>2, <1>5 DEF LiteTypes, EnvRows, OpRows
<1>12. /\ env.op.retired \subseteq env'.op.retired
       /\ \A s \in env'.op.retired : s \in env.op.retired \/ (s \in env.op.old /\ s.gen # 0)
       /\ \A s \in env.op.old : s.gen # 0 => \E r \in env'.op.retired : r.gen = s.gen
  BY <1>5, <1>11, RetireTyped
<1>13. ~CleanedAway
  BY <1>1, <1>4 DEF CleanedAway
<1>14. Generations'
  <2>1. Generations /\ env.op.gen \in Nat
        /\ \A s \in env.op.old \cup env.op.retired : s.gen \in Nat
    BY <1>2, Numbers DEF LiteInv
  <2>2. ~RetiredGen(env.op.gen)
    BY <1>13, NotCleaned
  <2>3. \A s \in env.op.old : s.gen < env.op.gen
    BY <2>1 DEF Generations
  <2>4. \A s \in env.op.retired : s.gen # 0 /\ s.gen <= env.op.gen /\ s.gen # env.op.gen
    BY <2>1, <2>2 DEF Generations, RetiredGen
  <2>5. \A s \in env'.op.retired : s.gen # 0 /\ s.gen <= env.op.gen /\ s.gen # env.op.gen
    BY <1>12, <2>1, <2>3, <2>4
  <2> QED
    BY <1>5, <1>12, <2>3, <2>5 DEF Generations, RetiredGen
<1>15. \A g \in Lite!Gens : Known(g) => Known(g)'
  BY <1>5, <1>12 DEF Known, OldGen, RetiredGen
<1>16. Everything'
  BY <1>1, <1>4, <1>15 DEF LiteInv, Everything, Exists
<1>17. \A v \in Workers : \A s \in worker[v].specs : s.gen # env'.op.gen
  BY <1>5, <1>13, NotCleaned
<1>18. env.op.gen \in Nat /\ worker[w].gen \in Lite!Gens
  BY <1>2, Numbers
<1>19. WorkerBooks(w)'
  BY <1>1, <1>2, <1>3, <1>5, <1>6, <1>7, <1>15, <1>17, <1>18 DEF WorkerBooks, Known
<1>20. HolderBooks(w)'
  BY <1>1, <1>3, <1>5, <1>6, <1>7 DEF HolderBooks, HolderRuns
<1> QED
  BY <1>1, <1>5, <1>7, <1>8, <1>9, <1>10, <1>14, <1>15, <1>16, <1>17, <1>18, <1>19,
     <1>20, Kept

\* A step of the holder that leaves the operation of the row as it is, while it
\* creates or completes the environment.
LEMMA ColumnMoves ==
  ASSUME LiteNames, LiteInv, NEW w \in Workers, NEW p \in {"find", "publish", "broker"},
         lock = w, worker[w].pc \in {"clear", "record"}, Lite!Goto(w, p),
         UNCHANGED <<ledger, task, pair, ids, lock, budget>>,
         NEW c \in 0..MaxIds, env' = [env EXCEPT !.cid = c],
         worker[w].pc = "clear" => p = "find",
         worker[w].pc = "record" => p # "find" /\ c = env.op.target
  PROVE  LiteInv'
<1>2. LiteTypes /\ 0 \in Lite!Gens /\ WorkerBooks(w)
  BY LiteFacts
<1>3. HolderRuns(w) /\ worker[w].pc \in RunPcs
  BY HolderIs DEF RunPcs
<1>4. env.op.stage \in {"create", "terminal"}
  BY <1>3 DEF HolderRuns
<1>5. /\ env' \in EnvRows /\ env'.op = env.op /\ env'.gen = env.gen
      /\ env'.cid = c /\ env'.cleanup = env.cleanup
      /\ env'.env = env.env /\ env'.restarts = env.restarts
  BY <1>2, RowTouched
<1>6. p \in LitePcs /\ p \in RunPcs /\ p # "idle" /\ p # "advance"
  BY DEF LitePcs, RunPcs, Lite!DockerSteps
<1>7. /\ worker' \in [Workers -> LiteRows]
      /\ worker'[w].pc = p /\ worker'[w].op = worker[w].op
      /\ worker'[w].gen = worker[w].gen /\ worker'[w].specs = worker[w].specs
      /\ \A v \in Workers : v # w => worker'[v] = worker[v]
  BY <1>2, <1>6, WorkerGone
<1>8. LiteTypes'
  BY <1>2, <1>5, <1>7 DEF LiteTypes
<1>9. RowBooks'
  BY <1>4, <1>5 DEF LiteInv, RowBooks
<1>10. LedgerBooks'
  BY <1>5, SameBooks
<1>11. \A u \in Workers : Running(u)' => Running(u)
  BY <1>3, <1>7 DEF Running
<1>12. CleanedAway' = CleanedAway /\ \A g : RetiredGen(g)' = RetiredGen(g)
  BY <1>5 DEF CleanedAway, RetiredGen
<1>13. Generations'
  BY <1>5, <1>11, <1>12 DEF LiteInv, Generations, CleanedAway, RetiredGen
<1>14. \A g \in Lite!Gens : Known(g) => Known(g)'
  BY <1>5 DEF Known, OldGen, RetiredGen
<1>15. Everything'
  BY <1>4, <1>14 DEF LiteInv, Everything, Exists
<1>16. \A v \in Workers : \A s \in worker[v].specs :
         s.gen <= env'.op.gen
         /\ (s.gen = env'.op.gen => CleanedAway' /\ \A u \in Workers : ~Running(u)')
  BY <1>5, <1>11, <1>12 DEF LiteInv, WorkerBooks
<1>17. env.op.gen \in Nat /\ worker[w].gen \in Lite!Gens
  BY <1>2, Numbers
<1>18. WorkerBooks(w)'
  BY <1>2, <1>3, <1>6, <1>7, <1>14, <1>16, <1>17 DEF WorkerBooks
<1>19. HolderBooks(w)'
  <2>1. HolderRuns(w)'
    BY <1>3, <1>5, <1>7 DEF HolderRuns, Exists
  <2> QED
    BY <1>6, <1>7, <2>1 DEF HolderBooks
<1> QED
  BY <1>5, <1>7, <1>8, <1>9, <1>10, <1>13, <1>14, <1>15, <1>16, <1>17, <1>18, <1>19, Kept

LEMMA ClearMoves ==
  ASSUME LiteNames, LiteInv, NEW w \in Workers, Lite!RunClear(w) PROVE LiteInv'
<1>1. WorkerBooks(w) /\ 0 \in 0..MaxIds
  BY LiteFacts
<1>2. lock = w /\ worker[w].pc = "clear"
  BY <1>1 DEF Lite!RunClear, WorkerBooks, HeldPcs
<1>3. /\ Lite!Goto(w, "find") /\ env' = [env EXCEPT !.cid = 0]
      /\ UNCHANGED <<ledger, task, pair, ids, lock, budget>>
  BY DEF Lite!RunClear
<1> QED
  BY <1>1, <1>2, <1>3, ColumnMoves

LEMMA RecordMoves ==
  ASSUME LiteNames, LiteInv, NEW w \in Workers, Lite!RunRecord(w) PROVE LiteInv'
<1>1. lock = w /\ worker[w].pc = "record"
  BY DEF Lite!RunRecord, Lite!Fence
<1>2. PICK p \in {"publish", "broker"} : Lite!Goto(w, p)
  BY DEF Lite!RunRecord
<1>3. /\ env' = [env EXCEPT !.cid = env.op.target]
      /\ UNCHANGED <<ledger, task, pair, ids, lock, budget>>
  BY DEF Lite!RunRecord
<1>4. env.op.target \in 0..MaxIds
  BY LiteFacts DEF OpRows
<1> QED
  BY <1>1, <1>2, <1>3, <1>4, ColumnMoves

LEMMA LitePinMoves ==
  ASSUME LiteNames, LiteInv, NEW w \in Workers, Lite!RunPin(w) PROVE LiteInv'
<1>1. /\ UNCHANGED <<ledger, task, pair, ids, lock, budget>>
      /\ lock = w /\ worker[w].pc = "pin" /\ Lite!Goto(w, "record") /\ ~env.cleanup
  BY DEF Lite!RunPin, Lite!Fence, Lite!Checkpointed
<1>2. LiteTypes /\ 0 \in Lite!Gens /\ WorkerBooks(w)
  BY LiteFacts
<1>3. HolderRuns(w) /\ worker[w].pc \in RunPcs
  BY <1>1, HolderIs DEF RunPcs
<1>4. env.op.stage \in {"create", "terminal"} /\ task[env.op.gen].id # 0
      /\ worker[w].gen = env.op.gen
  BY <1>1, <1>3 DEF HolderRuns
<1>5. /\ env' \in EnvRows
      /\ env'.op.stage = "terminal" /\ env'.op.id = env.op.id
      /\ env'.op.target = task[worker[w].gen].id
      /\ env'.op.retired = env.op.retired
      /\ env'.op.old = env.op.old /\ env'.op.gen = env.op.gen
      /\ env'.gen = env.gen /\ env'.cid = env.cid /\ env'.env = env.env
      /\ env'.cleanup = env.cleanup /\ env'.restarts = env.restarts
  BY <1>2, PinRow
<1>6. "record" \in LitePcs /\ "record" \in RunPcs
  BY DEF LitePcs, RunPcs
<1>7. /\ worker' \in [Workers -> LiteRows]
      /\ worker'[w].pc = "record" /\ worker'[w].op = worker[w].op
      /\ worker'[w].gen = worker[w].gen /\ worker'[w].specs = worker[w].specs
      /\ \A v \in Workers : v # w => worker'[v] = worker[v]
  BY <1>1, <1>2, <1>6, WorkerGone
<1>8. LiteTypes'
  BY <1>1, <1>2, <1>5, <1>7 DEF LiteTypes
<1>9. RowBooks'
  BY <1>4, <1>5 DEF LiteInv, RowBooks
<1>10. LedgerBooks'
  <2>1. (env.op.gen <= Cardinality(Given))' /\ Lite!RestartsMatchLedger'
    BY <1>1, <1>5, <1>8, GivenGrows DEF Given
  <2> QED
    BY <1>1, <1>4, <1>5, <2>1 DEF LiteInv, LedgerBooks, Going, Given
<1>11. ~CleanedAway
  BY <1>1, <1>4 DEF CleanedAway
<1>12. \A g : RetiredGen(g)' = RetiredGen(g)
  BY <1>5 DEF RetiredGen
<1>13. Generations'
  <2>1. ~RetiredGen(env.op.gen) /\ Generations
    BY <1>11, NotCleaned DEF LiteInv
  <2> QED
    BY <1>4, <1>5, <2>1 DEF Generations, RetiredGen
<1>14. \A g \in Lite!Gens : Known(g) => Known(g)'
  BY <1>5 DEF Known, OldGen, RetiredGen
<1>15. Everything'
  BY <1>1, <1>4, <1>14 DEF LiteInv, Everything, Exists
<1>16. \A v \in Workers : \A s \in worker[v].specs : s.gen # env'.op.gen
  BY <1>5, <1>11, NotCleaned
<1>17. env.op.gen \in Nat /\ worker[w].gen \in Lite!Gens
  BY <1>2, Numbers
<1>18. WorkerBooks(w)'
  BY <1>1, <1>2, <1>3, <1>5, <1>6, <1>7, <1>14, <1>16, <1>17 DEF WorkerBooks
<1>19. HolderBooks(w)'
  BY <1>1, <1>3, <1>5, <1>6, <1>7 DEF HolderBooks, HolderRuns
<1> QED
  BY <1>1, <1>5, <1>7, <1>8, <1>9, <1>10, <1>13, <1>14, <1>15, <1>16, <1>17, <1>18,
     <1>19, Kept

\* A worker that is done with the lock has no books.
LEMMA IdleBooks ==
  ASSUME LiteNames, NEW w \in Workers, worker'[w] = Lite!Idle
  PROVE  WorkerBooks(w)' /\ HolderBooks(w)'
BY DEF WorkerBooks, HolderBooks, Lite!Idle, HeldPcs, RunPcs

\* The success of a reset is counted, once.
LEMMA Counted ==
  ASSUME LiteNames, LiteInv, NEW o \in Ops, ledger[o] = "started",
         ledger' = [ledger EXCEPT ![o] = "success"],
         env'.restarts = env.restarts + IF o \in Resets THEN 1 ELSE 0
  PROVE  Lite!RestartsMatchLedger'
<1> DEFINE won == {p \in Resets : ledger[p] = "success"}
<1>1. LiteTypes /\ env.restarts = Cardinality(won)
  BY LiteCounts DEF LiteInv, LedgerBooks
<1>2. IsFiniteSet(Resets) /\ IsFiniteSet(won)
  BY FS_Subset DEF LiteNames
<1>3. ledger'[o] = "success" /\ \A p \in Ops : p # o => ledger'[p] = ledger[p]
  BY <1>1 DEF LiteTypes
<1>4. {p \in Resets : ledger'[p] = "success"} = IF o \in Resets THEN won \cup {o} ELSE won
  BY <1>3 DEF LiteNames
<1>5. o \notin won
  OBVIOUS
<1>6. Cardinality(won \cup {o}) = Cardinality(won) + 1 /\ Cardinality(won) \in Nat
  BY <1>2, <1>5, FS_AddElement, FS_CardinalityType
<1> HIDE DEF won
<1>7. env'.restarts = Cardinality({p \in Resets : ledger'[p] = "success"})
  <2>1. CASE o \in Resets
    <3>1. {p \in Resets : ledger'[p] = "success"} = won \cup {o}
      BY <1>4, <2>1
    <3>2. env'.restarts = Cardinality(won) + 1
      BY <1>1, <2>1
    <3> QED
      BY <1>6, <3>1, <3>2
  <2>2. CASE o \notin Resets
    <3>1. {p \in Resets : ledger'[p] = "success"} = won
      BY <1>4, <2>2
    <3>2. env'.restarts = Cardinality(won)
      BY <1>1, <1>6, <2>2
    <3> QED
      BY <3>1, <3>2
  <2> QED
    BY <2>1, <2>2
<1> QED
  BY <1>7, LiteCounts

LEMMA PublishMoves ==
  ASSUME LiteNames, LiteInv, NEW w \in Workers, Lite!RunPublish(w) PROVE LiteInv'
<1>1. /\ UNCHANGED <<task, pair, ids, budget>> /\ Lite!Release(w) /\ lock = w
      /\ worker[w].pc = "publish" /\ ~env.cleanup
      /\ ledger' = [ledger EXCEPT ![worker[w].op] = "success"]
  BY DEF Lite!RunPublish, Lite!Fence, Lite!Checkpointed
<1>2. LiteTypes /\ 0 \in Lite!Gens /\ LedgerBooks /\ RowBooks
  BY LiteFacts DEF LiteInv
<1>3. HolderRuns(w)
  BY <1>1, HolderIs DEF RunPcs
<1>4. /\ env.op.stage = "terminal" /\ worker[w].op = env.op.id
      /\ ledger[env.op.id] = "started" /\ env.cid = env.op.target
      /\ env.op.target # 0
  BY <1>1, <1>2, <1>3 DEF HolderRuns, RowBooks
<1>5. /\ env' \in EnvRows
      /\ env'.op.stage = "ready" /\ env'.op.id = env.op.id
      /\ env'.op.target = env.op.target
      /\ env'.op.retired = env.op.retired
      /\ env'.op.old = env.op.old /\ env'.op.gen = env.op.gen
      /\ env'.gen = env.gen /\ env'.cid = env.cid /\ env'.env = "ready"
      /\ env'.cleanup = env.cleanup
      /\ env'.restarts = env.restarts + IF worker[w].op \in Resets THEN 1 ELSE 0
  BY <1>2, PublishRow
<1>6. env.op.id \in Ops
  BY <1>2, <1>4 DEF RowBooks
<1>7. /\ worker' \in [Workers -> LiteRows] /\ worker'[w] = Lite!Idle /\ lock' = Lite!Nobody
      /\ \A v \in Workers : v # w => worker'[v] = worker[v]
  BY <1>1, <1>2, WorkerGone DEF Lite!Release
<1>8. /\ ledger' \in [Ops -> Outcomes] /\ ledger'[env.op.id] = "success"
      /\ \A p \in Ops : p # env.op.id => ledger'[p] = ledger[p]
  BY <1>1, <1>2, <1>4, <1>6 DEF LiteTypes, Outcomes
<1>9. LiteTypes'
  BY <1>1, <1>2, <1>5, <1>7, <1>8 DEF LiteTypes
<1>10. RowBooks'
  BY <1>2, <1>4, <1>5, <1>6 DEF RowBooks
<1>11. LedgerBooks'
  <2>1. Lite!RestartsMatchLedger'
    BY <1>1, <1>4, <1>5, <1>6, Counted
  <2>2. Given' = Given
    BY <1>4, <1>8 DEF Given
  <2>3. \A p \in Ops : ledger'[p] # "started"
    BY <1>2, <1>8 DEF LedgerBooks
  <2> QED
    BY <1>2, <1>4, <1>5, <1>8, <2>1, <2>2, <2>3 DEF LedgerBooks
<1>12. ~CleanedAway
  BY <1>1, <1>4 DEF CleanedAway
<1>13. Generations'
  <2>1. ~RetiredGen(env.op.gen) /\ Generations
    BY <1>12, NotCleaned DEF LiteInv
  <2> QED
    BY <1>4, <1>5, <2>1 DEF Generations, RetiredGen
<1>14. \A g \in Lite!Gens : Known(g) => Known(g)'
  BY <1>5 DEF Known, OldGen, RetiredGen
<1>15. Everything'
  BY <1>1, <1>4, <1>14 DEF LiteInv, Everything, Exists
<1>16. \A v \in Workers : \A s \in worker[v].specs : s.gen # env'.op.gen
  BY <1>5, <1>12, NotCleaned
<1>17. env.op.gen \in Nat
  BY <1>2, Numbers
<1>18. WorkerBooks(w)' /\ HolderBooks(w)'
  BY <1>7, IdleBooks
<1> QED
  BY <1>1, <1>5, <1>7, <1>9, <1>10, <1>11, <1>13, <1>14, <1>15, <1>16, <1>17, <1>18, Kept

LEMMA CleanupEnds ==
  ASSUME LiteNames, LiteInv, NEW w \in Workers, Lite!CleanupDone(w) PROVE LiteInv'
<1>1. /\ UNCHANGED <<task, pair, ids, budget>> /\ Lite!Release(w) /\ lock = w
      /\ worker[w].pc = "c_done"
      /\ ledger' = [o \in Ops |-> IF Lite!Pending(o) THEN "unknown" ELSE ledger[o]]
  BY DEF Lite!CleanupDone, Lite!Fence
<1>2. LiteTypes /\ 0 \in Lite!Gens /\ 0 \in 0..MaxIds /\ LedgerBooks /\ RowBooks /\ Generations
  BY LiteFacts DEF LiteInv
<1>3. HolderCleans(w) /\ ~Exists(0) /\ RetiredGen(env.op.gen)
  BY <1>1, HolderIs DEF HolderCleans
<1>4. env.op.stage # "none" /\ env.op.id \in Ops
  BY <1>2, <1>3 DEF RowBooks, RetiredGen
<1>5. /\ env' \in EnvRows
      /\ env'.op.stage = "done" /\ env'.op.id = env.op.id
      /\ env'.op.target = env.op.target
      /\ env'.op.retired = env.op.retired
      /\ env'.op.old = env.op.old /\ env'.op.gen = env.op.gen
      /\ env'.gen = env.gen /\ env'.cid = 0 /\ env'.env = "idle"
      /\ env'.cleanup = env.cleanup /\ env'.restarts = env.restarts
  BY <1>2, DoneRow
<1>6. /\ worker' \in [Workers -> LiteRows] /\ worker'[w] = Lite!Idle /\ lock' = Lite!Nobody
      /\ \A v \in Workers : v # w => worker'[v] = worker[v]
  BY <1>1, <1>2, WorkerGone DEF Lite!Release
<1>7. ledger' \in [Ops -> Outcomes]
      /\ \A p \in Ops : ledger'[p] = IF Lite!Pending(p) THEN "unknown" ELSE ledger[p]
  BY <1>1, <1>2 DEF LiteTypes, Outcomes
<1>8. LiteTypes'
  BY <1>1, <1>2, <1>5, <1>6, <1>7 DEF LiteTypes
<1>9. RowBooks'
  BY <1>2, <1>4, <1>5 DEF RowBooks
<1>10. LedgerBooks'
  <2>1. \A p \in Ops : /\ p \in Given => p \in Given'
                       /\ (ledger'[p] = "success") = (ledger[p] = "success")
                       /\ ledger'[p] \notin {"requested", "started"}
    BY <1>7 DEF Given, Lite!Pending
  <2>2. (env.op.gen <= Cardinality(Given))' /\ Lite!RestartsMatchLedger'
    <3>1. Given \subseteq Given'
      BY <2>1 DEF Given
    <3> QED
      BY <1>5, <1>8, <2>1, <3>1, GivenGrows DEF LiteNames
  <2>3. env'.op.id \in Given'
    BY <1>2, <1>4, <1>5, <2>1 DEF LedgerBooks
  <2> QED
    BY <1>4, <1>5, <2>1, <2>2, <2>3 DEF LedgerBooks, Lite!Pending
<1>11. \A u \in Workers : ~Running(u)'
  BY <1>6 DEF Running, LiteNames
<1>12. Generations'
  <2>1. \A s \in env.op.old : s.gen = 0 \/ RetiredGen(s.gen)
    BY <1>3 DEF HolderCleans
  <2>2. RetiredGen(env.op.gen)' /\ CleanedAway'
    BY <1>3, <1>5 DEF RetiredGen, CleanedAway
  <2> QED
    BY <1>2, <1>5, <1>11, <2>1, <2>2 DEF Generations, RetiredGen
<1>13. \A g \in Lite!Gens : Known(g) => Known(g)'
  BY <1>5 DEF Known, OldGen, RetiredGen
<1>14. Everything'
  BY <1>1, <1>3, <1>13 DEF LiteInv, Everything, Exists
<1>15. env.op.gen \in Nat
  BY <1>2, Numbers
<1>16. WorkerBooks(w)' /\ HolderBooks(w)'
  BY <1>6, IdleBooks
<1>17. CleanedAway'
  BY <1>5 DEF CleanedAway
<1> QED
  BY <1>1, <1>5, <1>6, <1>8, <1>9, <1>10, <1>11, <1>12, <1>13, <1>14, <1>15, <1>16,
     <1>17, Kept

LEMMA CleanupBegins ==
  ASSUME LiteNames, LiteInv, NEW w \in Workers, Lite!CleanupStart(w) PROVE LiteInv'
<1>1. /\ UNCHANGED <<ledger, task, pair, ids, budget>>
      /\ lock = Lite!Nobody /\ lock' = w /\ env.cleanup
  BY DEF Lite!CleanupStart
<1>2. /\ LiteTypes /\ 0 \in Lite!Gens /\ 0 \in 0..MaxIds /\ LedgerBooks /\ RowBooks /\ Generations
      /\ env.op \in OpRows /\ env.op.gen \in Lite!Gens
  BY LiteFacts DEF LiteInv
<1>3. Lite!Snapshot \in SUBSET Lite!EnvSpecs
  BY <1>2, NoSpecs
<1>4. /\ Lite!CleanupSpecs \in SUBSET Lite!EnvSpecs /\ Replacement \in SUBSET Lite!EnvSpecs
      /\ ByName \in SUBSET Lite!EnvSpecs
      /\ env' \in EnvRows
      /\ env'.op.stage = env.op.stage /\ env'.op.id = env.op.id
      /\ env'.op.target = env.op.target
      /\ env'.op.retired = NewRetired
      /\ env'.op.old = env.op.old /\ env'.op.gen = env.op.gen
      /\ env'.gen = env.gen /\ env'.cid = env.cid /\ env'.env = env.env
      /\ env'.cleanup = env.cleanup /\ env'.restarts = env.restarts
  BY <1>2, <1>3, CleanupRow
<1>5. env.op.stage # "none" /\ env.op.gen # 0 /\ env.gen = env.op.gen
  BY <1>1, <1>2 DEF RowBooks
<1>6. PICK x : x = [pc |-> "c_destroy", op |-> Lite!NoOp, gen |-> env.op.gen,
                    specs |-> Lite!CleanupSpecs \cup ByName]
  OBVIOUS
<1>7. /\ x \in LiteRows /\ x.pc = "c_destroy" /\ x.op = Lite!NoOp
      /\ x.specs = Lite!CleanupSpecs \cup ByName
  BY <1>2, <1>4, <1>6 DEF LiteRows, LitePcs, Lite!DockerSteps
<1>8. worker' = [worker EXCEPT ![w] = x]
  BY <1>6 DEF Lite!CleanupStart, ByName
<1>9. /\ worker' \in [Workers -> LiteRows] /\ worker'[w] = x
      /\ \A v \in Workers : v # w => worker'[v] = worker[v]
  BY <1>2, <1>7, <1>8 DEF LiteTypes
<1>10. LiteTypes'
  BY <1>1, <1>2, <1>4, <1>9 DEF LiteTypes
<1>11. RowBooks'
  BY <1>2, <1>4, <1>5 DEF RowBooks
<1>12. LedgerBooks'
  <2>1. (env.op.gen <= Cardinality(Given))' /\ Lite!RestartsMatchLedger'
    BY <1>1, <1>4, <1>10, GivenGrows DEF Given
  <2> QED
    BY <1>1, <1>2, <1>4, <2>1 DEF LedgerBooks, Given, Lite!Pending
<1>13. \A u \in Workers : ~Running(u)'
  BY <1>1, <1>7, <1>9 DEF Running, RunPcs
<1>14. CleanedAway' /\ env'.op.gen = env.op.gen
  BY <1>1, <1>4 DEF CleanedAway
<1>15. env.op.old \subseteq Lite!CleanupSpecs
       /\ \A s \in Lite!CleanupSpecs \cup ByName \cup Replacement : s \in env.op.old \/ s.gen = env.op.gen
  BY <1>5 DEF Lite!CleanupSpecs, Lite!Snapshot, ByName, Replacement
<1>16. env.op.gen \in Nat /\ \A s \in env.op.old \cup env.op.retired : s.gen \in Nat
  BY <1>2, Numbers
<1>17. \A s \in Lite!CleanupSpecs \cup ByName \cup Replacement : s.gen <= env.op.gen
  BY <1>2, <1>15, <1>16 DEF Generations
<1>18. /\ env.op.retired \subseteq NewRetired
       /\ \A s \in NewRetired : \/ s \in env.op.retired
                                \/ s \in Lite!CleanupSpecs \cup Replacement /\ s.gen # 0
       /\ \A s \in Lite!CleanupSpecs \cup Replacement :
            s.gen # 0 => \E r \in NewRetired : r.gen = s.gen
  <2>1. PICK old \in SUBSET Lite!EnvSpecs : old = env.op.retired
    BY <1>2 DEF OpRows
  <2>2. PICK mid : mid = Lite!Retire(old, Lite!CleanupSpecs)
    OBVIOUS
  <2>3. /\ mid \in SUBSET Lite!EnvSpecs /\ old \subseteq mid
        /\ \A s \in mid : s \in old \/ (s \in Lite!CleanupSpecs /\ s.gen # 0)
        /\ \A s \in Lite!CleanupSpecs : s.gen # 0 => \E r \in mid : r.gen = s.gen
    BY <1>4, <2>2, RetireTyped
  <2>4. NewRetired = Lite!Retire(mid, Replacement)
    BY <2>1, <2>2 DEF NewRetired
  <2>5. /\ mid \subseteq NewRetired
        /\ \A s \in NewRetired : s \in mid \/ (s \in Replacement /\ s.gen # 0)
        /\ \A s \in Replacement : s.gen # 0 => \E r \in NewRetired : r.gen = s.gen
    BY <1>4, <2>3, <2>4, RetireTyped
  <2> QED
    BY <2>1, <2>3, <2>5
<1>19. RetiredGen(env.op.gen)'
  <2>1. \E s \in Replacement : s.gen = env.op.gen
    BY <1>5 DEF Replacement
  <2>2. \E r \in NewRetired : r.gen = env.op.gen
    BY <1>5, <1>18, <2>1
  <2> QED
    BY <1>4, <2>2 DEF RetiredGen
<1>20. \A s \in env.op.old : s.gen = 0 \/ RetiredGen(s.gen)'
  BY <1>4, <1>15, <1>18 DEF RetiredGen
<1>21. Generations'
  <2>1. \A s \in env'.op.retired : s.gen # 0 /\ s.gen <= env.op.gen
    BY <1>2, <1>4, <1>17, <1>18 DEF Generations
  <2>2. \A s \in env.op.old : s.gen < env.op.gen
    BY <1>2 DEF Generations
  <2>3. \A g : RetiredGen(g)' <=> \E s \in env'.op.retired : s.gen = g
    BY DEF RetiredGen
  <2>4. \A s \in env'.op.old : s.gen = 0 \/ \E r \in env'.op.retired : r.gen = s.gen
    BY <1>4, <1>20, <2>3
  <2>5. \E r \in env'.op.retired : r.gen = env'.op.gen
    BY <1>14, <1>19, <2>3
  <2> QED
    BY <1>4, <1>13, <1>14, <2>1, <2>2, <2>4, <2>5 DEF Generations, RetiredGen
<1>22. \A g \in Lite!Gens : Known(g) => Known(g)'
  BY <1>4, <1>18 DEF Known, OldGen, RetiredGen
<1>23. Everything'
  BY <1>1, <1>4, <1>22 DEF LiteInv, Everything, Exists
<1>24. WorkerBooks(w)'
  <2>1. worker'[w].pc = "c_destroy" /\ worker'[w].op = Lite!NoOp
        /\ worker'[w].specs = Lite!CleanupSpecs \cup ByName
    BY <1>7, <1>9
  <2>2. \A s \in worker'[w].specs : s.gen <= env'.op.gen
    BY <1>14, <1>17, <2>1
  <2> QED
    BY <1>13, <1>14, <2>1, <2>2 DEF WorkerBooks, HeldPcs, RunPcs
<1>25. HolderBooks(w)'
  <2>1. worker'[w].pc = "c_destroy" /\ worker'[w].specs = Lite!CleanupSpecs \cup ByName
    BY <1>7, <1>9
  <2>2. \A s \in env'.op.old : s.gen = 0 \/ \E r \in env'.op.retired : r.gen = s.gen
    BY <1>4, <1>20 DEF RetiredGen
  <2>3. \E r \in env'.op.retired : r.gen = env'.op.gen
    BY <1>14, <1>19 DEF RetiredGen
  <2>4. HolderCleans(w)'
    BY <1>4, <1>15, <2>1, <2>2, <2>3 DEF HolderCleans, RetiredGen
  <2> QED
    BY <2>1, <2>4 DEF HolderBooks, RunPcs
<1> QED
  BY <1>1, <1>9, <1>10, <1>11, <1>12, <1>13, <1>14, <1>16, <1>21, <1>22, <1>23, <1>24,
     <1>25, Kept

\* An operation is taken up: its outcome is that of no other one.
LEMMA TakenUp ==
  ASSUME LiteNames, LiteInv, NEW o \in Ops, Lite!Pending(o),
         ledger' = [ledger EXCEPT ![o] = "started"]
  PROVE  /\ ledger' \in [Ops -> Outcomes] /\ ledger'[o] = "started"
         /\ \A p \in Ops : p # o => ledger'[p] = ledger[p]
         /\ Given' = Given \cup {o}
         /\ {p \in Resets : ledger'[p] = "success"} = {p \in Resets : ledger[p] = "success"}
<1>1. LiteTypes
  BY DEF LiteInv
<1>2. /\ ledger' \in [Ops -> Outcomes] /\ ledger'[o] = "started"
      /\ \A p \in Ops : p # o => ledger'[p] = ledger[p]
  BY <1>1 DEF LiteTypes, Outcomes
<1> QED
  BY <1>2 DEF Given, Lite!Pending, LiteNames

LEMMA StartWorker ==
  ASSUME LiteNames, LiteInv, NEW w \in Workers, NEW o \in Ops, Lite!RunStart(w, o),
         env'.op.gen \in Lite!Gens, env'.op.old \in SUBSET Lite!EnvSpecs
  PROVE  /\ worker' \in [Workers -> LiteRows]
         /\ worker'[w].pc = (IF env'.op.stage = "teardown" THEN "destroy" ELSE "find")
         /\ worker'[w].op = o /\ worker'[w].gen = env'.op.gen
         /\ worker'[w].specs = env'.op.old
         /\ \A v \in Workers : v # w => worker'[v] = worker[v]
<1>1. worker \in [Workers -> LiteRows]
  BY DEF LiteInv, LiteTypes
<1>2. PICK p : p = IF env'.op.stage = "teardown" THEN "destroy" ELSE "find"
  OBVIOUS
<1>3. PICK x : x = [pc |-> p, op |-> o, gen |-> env'.op.gen, specs |-> env'.op.old]
  OBVIOUS
<1>4. p \in LitePcs
  BY <1>2 DEF LitePcs, Lite!DockerSteps
<1>5. x \in LiteRows /\ x.pc = p /\ x.op = o /\ x.gen = env'.op.gen
      /\ x.specs = env'.op.old
  BY <1>3, <1>4 DEF LiteRows
<1>6. worker' = [worker EXCEPT ![w] = x]
  BY <1>2, <1>3 DEF Lite!RunStart
<1> QED
  BY <1>1, <1>2, <1>5, <1>6

\* The stage of an earlier delivery is resumed.
LEMMA ResumeMoves ==
  ASSUME LiteNames, LiteInv, NEW w \in Workers, NEW o \in Ops, Lite!RunStart(w, o),
         env.op.id = o
  PROVE  LiteInv'
<1>1. /\ UNCHANGED <<task, pair, ids, budget>> /\ lock = Lite!Nobody /\ lock' = w
      /\ Lite!Pending(o) /\ ~Lite!Revoked(env) /\ ledger' = [ledger EXCEPT ![o] = "started"]
      /\ env' = [env EXCEPT !.cleanup = FALSE]
  BY DEF Lite!RunStart
<1>2. /\ LiteTypes /\ LedgerBooks /\ RowBooks /\ Generations /\ env.op \in OpRows
  BY LiteFacts DEF LiteInv
<1>3. PICK b \in BOOLEAN : b = FALSE
  OBVIOUS
<1>4. /\ env' \in EnvRows /\ env'.op = env.op /\ env'.gen = env.gen
      /\ env'.cid = env.cid /\ env'.cleanup = FALSE
      /\ env'.restarts = env.restarts /\ env'.env = env.env
  BY <1>1, <1>2, <1>3, RowTouched
<1>5. env.op.stage \in Going
  <2>1. env.op.stage \in {"none", "teardown", "create", "terminal", "ready", "done"}
    BY <1>2 DEF OpRows
  <2>2. env.op.stage # "none"
    BY <1>2 DEF RowBooks, LiteNames
  <2> QED
    BY <1>1, <1>2, <2>1, <2>2 DEF LedgerBooks, Lite!Pending, Going
<1>6. ~CleanedAway /\ ~env.cleanup
  BY <1>1, <1>5 DEF CleanedAway, Lite!Revoked, Going
<1>7. /\ ledger' \in [Ops -> Outcomes] /\ ledger'[o] = "started"
      /\ \A p \in Ops : p # o => ledger'[p] = ledger[p]
      /\ Given' = Given \cup {o}
      /\ {p \in Resets : ledger'[p] = "success"} = {p \in Resets : ledger[p] = "success"}
  BY <1>1, TakenUp
<1>8. env.op.gen \in Lite!Gens /\ env.op.old \in SUBSET Lite!EnvSpecs
  BY <1>2 DEF OpRows
<1>9. /\ worker' \in [Workers -> LiteRows]
      /\ worker'[w].pc = (IF env.op.stage = "teardown" THEN "destroy" ELSE "find")
      /\ worker'[w].op = o /\ worker'[w].gen = env.op.gen
      /\ worker'[w].specs = env.op.old
      /\ \A v \in Workers : v # w => worker'[v] = worker[v]
  BY <1>4, <1>8, StartWorker
<1>10. LiteTypes'
  BY <1>1, <1>2, <1>4, <1>7, <1>9 DEF LiteTypes
<1>11. RowBooks'
  BY <1>2, <1>4, <1>5 DEF RowBooks, Going
<1>12. LedgerBooks'
  <2>1. (env.op.gen <= Cardinality(Given))' /\ Lite!RestartsMatchLedger'
    BY <1>4, <1>7, <1>10, GivenGrows
  <2> QED
    BY <1>2, <1>4, <1>5, <1>7, <2>1 DEF LedgerBooks, Lite!Pending, Going
<1>13. ~RetiredGen(env.op.gen)
       /\ \A v \in Workers : \A s \in worker[v].specs : s.gen # env.op.gen
  BY <1>6, NotCleaned
<1>14. Generations'
  BY <1>2, <1>4, <1>5, <1>13 DEF Generations, RetiredGen, Going
<1>15. \A g \in Lite!Gens : Known(g) => Known(g)'
  BY <1>4 DEF Known, OldGen, RetiredGen
<1>16. Everything'
  BY <1>1, <1>4, <1>15 DEF LiteInv, Everything, Exists
<1>17. env.op.gen \in Nat /\ \A s \in env.op.old : s.gen \in Nat
  BY <1>2, Numbers
<1>18. env.op.gen # 0 /\ env.gen = env.op.gen
  BY <1>2, <1>5 DEF RowBooks, Going
<1>19. WorkerBooks(w)'
  <2>1. worker'[w].gen = env'.gen /\ worker'[w].gen # 0
    BY <1>4, <1>9, <1>18
  <2>2. \A s \in env.op.old : s.gen <= env.op.gen /\ s.gen # env.op.gen
    BY <1>2, <1>17 DEF Generations
  <2>3. worker'[w].pc \in RunPcs \ {"idle"}
    BY <1>9 DEF RunPcs
  <2> QED
    BY <1>1, <1>4, <1>9, <2>1, <2>2, <2>3 DEF WorkerBooks, Known
<1>20. HolderBooks(w)'
  <2>1. HolderRuns(w)'
    BY <1>4, <1>5, <1>7, <1>9 DEF HolderRuns, Going
  <2>2. worker'[w].pc \notin {"c_destroy", "c_done"}
    BY <1>9
  <2> QED
    BY <2>1, <2>2 DEF HolderBooks
<1> QED
  BY <1>1, <1>4, <1>9, <1>10, <1>11, <1>12, <1>13, <1>14, <1>15, <1>16, <1>17,
     <1>19, <1>20, Kept

\* A new operation: its generation is one more, and the environment it replaces
\* is the one it tears down.
LEMMA FreshMoves ==
  ASSUME LiteNames, LiteInv, NEW w \in Workers, NEW o \in Ops, Lite!RunStart(w, o),
         env.op.id # o
  PROVE  LiteInv'
<1>1. /\ UNCHANGED <<task, pair, ids, budget>> /\ lock = Lite!Nobody /\ lock' = w
      /\ Lite!Pending(o) /\ ledger' = [ledger EXCEPT ![o] = "started"]
      /\ env' = Lite!NewOperation(o) /\ env.op.stage \in {"none", "ready", "done"}
  BY DEF Lite!RunStart
<1>2. /\ LiteTypes /\ LedgerBooks /\ RowBooks /\ Generations /\ env.op \in OpRows
      /\ 0 \in Lite!Gens /\ 0 \in 0..MaxIds /\ Everything
  BY LiteFacts DEF LiteInv
<1>3. Lite!Snapshot \in SUBSET Lite!EnvSpecs
  BY <1>2, NoSpecs
<1>4. ledger[o] = "requested"
  BY <1>1, <1>2 DEF LedgerBooks, Lite!Pending
<1>5. /\ ledger' \in [Ops -> Outcomes] /\ ledger'[o] = "started"
      /\ \A p \in Ops : p # o => ledger'[p] = ledger[p]
      /\ Given' = Given \cup {o}
      /\ {p \in Resets : ledger'[p] = "success"} = {p \in Resets : ledger[p] = "success"}
  BY <1>1, TakenUp
<1>6. env.op.gen \in Nat /\ env.gen \in Nat
      /\ \A s \in env.op.old \cup env.op.retired : s.gen \in Nat
  BY <1>2, Numbers
<1>7. env.op.gen + 1 \in Lite!Gens /\ env.op.gen + 1 <= Cardinality(Given')
  <2>1. IsFiniteSet(Ops) /\ Given \subseteq Ops /\ o \notin Given
    BY <1>4 DEF LiteNames, Given
  <2>2. IsFiniteSet(Given) /\ Cardinality(Given) \in Nat /\ Cardinality(Ops) \in Nat
    BY <2>1, FS_Subset, FS_CardinalityType
  <2>3. Cardinality(Given \cup {o}) = Cardinality(Given) + 1
    BY <2>1, <2>2, FS_AddElement
  <2>4. Cardinality(Given \cup {o}) <= Cardinality(Ops)
    BY <2>1, FS_Subset
  <2>5. env.op.gen <= Cardinality(Given)
    BY <1>2 DEF LedgerBooks
  <2> QED
    BY <1>5, <1>6, <2>2, <2>3, <2>4, <2>5, LiteCounts
<1>8. /\ env' \in EnvRows
      /\ env'.op.stage = "teardown" /\ env'.op.id = o
      /\ env'.op.old = Lite!Snapshot /\ env'.op.gen = env.op.gen + 1
      /\ env'.op.retired = env.op.retired
      /\ env'.gen = env.op.gen + 1 /\ env'.cid = env.cid
      /\ env'.env = "starting" /\ ~env'.cleanup /\ env'.restarts = env.restarts
  BY <1>1, <1>2, <1>3, <1>7, LiteNewRow
<1>9. /\ worker' \in [Workers -> LiteRows]
      /\ worker'[w].pc = "destroy"
      /\ worker'[w].op = o /\ worker'[w].gen = env.op.gen + 1
      /\ worker'[w].specs = Lite!Snapshot
      /\ \A v \in Workers : v # w => worker'[v] = worker[v]
  BY <1>3, <1>7, <1>8, StartWorker
<1>10. LiteTypes'
  BY <1>1, <1>2, <1>5, <1>8, <1>9 DEF LiteTypes
<1>11. RowBooks'
  BY <1>2, <1>6, <1>8 DEF RowBooks
<1>12. LedgerBooks'
  <2>1. \A p \in Ops : ledger'[p] = "started" => p = o
    BY <1>1, <1>2, <1>5 DEF LedgerBooks, Going
  <2>2. Lite!RestartsMatchLedger'
    BY <1>2, <1>5, <1>8 DEF LedgerBooks, Lite!RestartsMatchLedger
  <2> QED
    BY <1>5, <1>7, <1>8, <2>1, <2>2 DEF LedgerBooks, Going
<1>13. env.gen <= env.op.gen
  BY <1>2, <1>6 DEF RowBooks
<1>14. \A s \in Lite!Snapshot : s.gen = env.gen /\ s.id = env.cid /\ s.id # 0
  BY DEF Lite!Snapshot
<1>15. Generations'
  <2>1. \A s \in Lite!Snapshot : s.gen < env.op.gen + 1
    BY <1>6, <1>13, <1>14
  <2>2. \A s \in env.op.retired : s.gen # 0 /\ s.gen <= env.op.gen + 1
                                  /\ s.gen # env.op.gen + 1
    BY <1>2, <1>6 DEF Generations
  <2> QED
    BY <1>8, <2>1, <2>2 DEF Generations, RetiredGen
<1>16. ASSUME NEW g \in Lite!Gens, g # 0, Known(g) PROVE Known(g)'
  <2>1. RetiredGen(g) => RetiredGen(g)'
    BY <1>8 DEF RetiredGen
  <2>2. OldGen(g) => RetiredGen(g)
    BY <1>1, <1>2, <1>16 DEF Generations, OldGen, RowBooks
  <2>3. CASE g = env.gen /\ env.op.stage = "ready"
    <3>1. env.cid # 0
      BY <1>2, <2>3 DEF RowBooks
    <3>2. \E s \in Lite!Snapshot : s.gen = g
      BY <2>3, <3>1 DEF Lite!Snapshot
    <3> QED
      BY <1>8, <3>2 DEF Known, OldGen
  <2>4. CASE g = env.gen /\ env.op.stage = "done"
    BY <1>2, <2>1, <2>4 DEF RowBooks, Generations, Known
  <2>5. CASE g = env.gen /\ env.op.stage = "none"
    BY <1>2, <1>16, <2>5 DEF RowBooks
  <2> QED
    BY <1>1, <1>16, <2>1, <2>2, <2>3, <2>4, <2>5 DEF Known
<1>17. Everything'
  <2>1. Exists(0) => /\ env.op.stage = "none" /\ env.cid # 0
                     /\ task[0].id \in {0, env.cid}
    BY <1>1, <1>2 DEF Everything
  <2>2. Exists(0) => \E s \in Lite!Snapshot : /\ s.gen = 0 /\ s.id # 0
                                              /\ task[0].id \in {0, s.id}
    BY <1>2, <2>1 DEF Lite!Snapshot, RowBooks
  <2>3. \A g \in Lite!Gens : g # 0 /\ Exists(g) => Known(g)'
    BY <1>2, <1>16 DEF Everything
  <2> QED
    BY <1>1, <1>8, <2>2, <2>3 DEF Everything, Exists
<1>18. \A v \in Workers : \A s \in worker[v].specs : s.gen # env'.op.gen
  <2>1. \A v \in Workers : \A s \in worker[v].specs : s.gen <= env.op.gen /\ s.gen \in Nat
    BY <1>2, Numbers DEF LiteInv, WorkerBooks
  <2> QED
    BY <1>6, <1>8, <2>1
<1>19. WorkerBooks(w)'
  <2>1. worker'[w].gen = env'.gen /\ worker'[w].gen # 0
    BY <1>6, <1>8, <1>9
  <2>2. \A s \in Lite!Snapshot : s.gen <= env.op.gen + 1 /\ s.gen # env.op.gen + 1
    BY <1>6, <1>13, <1>14
  <2>3. worker'[w].pc \in RunPcs \ (HeldPcs \cup {"idle"})
    BY <1>9 DEF RunPcs, HeldPcs
  <2> QED
    BY <1>8, <1>9, <2>1, <2>2, <2>3 DEF WorkerBooks, Known
<1>20. HolderBooks(w)'
  <2>1. HolderRuns(w)'
    BY <1>5, <1>8, <1>9 DEF HolderRuns
  <2> QED
    BY <1>9, <2>1 DEF HolderBooks
<1>21. env.op.gen <= env'.op.gen
  BY <1>6, <1>8
<1> QED
  BY <1>1, <1>9, <1>10, <1>11, <1>12, <1>15, <1>16, <1>17, <1>18, <1>19, <1>20, <1>21,
     Kept

\* An attempt without an environment, or with one of before the broker.
LEMMA LiteStarts == LiteNames /\ Lite!Init => LiteInv
<1> SUFFICES ASSUME LiteNames, Lite!Init PROVE LiteInv
  OBVIOUS
<1>0. 0 \in Lite!Gens /\ 0 \in 0..MaxIds /\ 1 \in 0..MaxIds
  BY GensAre
<1>1. PICK c \in {0, 1} :
        env = [working |-> TRUE, cleanup |-> FALSE, env |-> IF c = 0 THEN "idle" ELSE "ready",
               gen |-> 0, cid |-> c, op |-> Lite!Blank, restarts |-> 0]
  BY DEF Lite!Init
<1>2. /\ env.cleanup = FALSE /\ env.gen = 0 /\ env.cid = c /\ env.op = Lite!Blank
      /\ env.restarts = 0
  BY <1>1
<1>3. /\ env.op.id = Lite!NoOp /\ env.op.stage = "none" /\ env.op.old = {} /\ env.op.gen = 0
      /\ env.op.retired = {} /\ env.op \in OpRows
  BY <1>0, <1>2 DEF Lite!Blank, OpRows
<1>4. PICK yes, no \in BOOLEAN : yes = TRUE /\ no = FALSE
  OBVIOUS
<1>5. env \in EnvRows
  BY <1>0, <1>1, <1>3, <1>4 DEF EnvRows
<1>6. /\ ledger = [o \in Ops |-> "none"] /\ ledger \in [Ops -> Outcomes]
      /\ lock = Lite!Nobody /\ worker = [w \in Workers |-> Lite!Idle] /\ ids = c
  BY <1>2 DEF Lite!Init, Outcomes
<1>7. \A g \in Lite!Gens : /\ task[g] \in {[id |-> 1, up |-> yes], Lite!Absent}
                           /\ pair[g] \in {{"terminal"}, {}}
                           /\ task[g] # Lite!Absent \/ pair[g] # {} => g = 0 /\ c = 1
  BY <1>2, <1>4 DEF Lite!Init
<1>8. [id |-> 1, up |-> yes] \in Tasks /\ Lite!Absent \in Tasks /\ Lite!Absent.id = 0
      /\ [id |-> 1, up |-> yes].id = 1
  BY <1>0, <1>4 DEF Tasks, Lite!Absent
<1>9. task \in [Lite!Gens -> Tasks] /\ pair \in [Lite!Gens -> SUBSET Lite!Both]
  <2>1. \A g \in Lite!Gens : task[g] \in Tasks /\ pair[g] \in SUBSET Lite!Both
    BY <1>7, <1>8 DEF Lite!Both
  <2> QED
    BY <2>1 DEF Lite!Init
<1>10. Lite!Idle \in LiteRows
  BY <1>0 DEF Lite!Idle, LiteRows, LitePcs
<1>11. budget \in Budgets
  BY DEF Lite!Init, Budgets, LiteNames
<1>12. LiteTypes
  BY <1>0, <1>5, <1>6, <1>9, <1>10, <1>11 DEF LiteTypes
<1>13. RowBooks
  BY <1>2, <1>3 DEF RowBooks
<1>14. LedgerBooks
  <2>1. {o \in Resets : ledger[o] = "success"} = {} /\ Given = {}
    BY <1>6 DEF LiteNames, Given
  <2>2. Cardinality(Given) = 0
    BY <2>1, FS_EmptySet
  <2>3. Lite!RestartsMatchLedger
    <3>1. Cardinality({o \in Resets : ledger[o] = "success"}) = 0
      BY <2>1, FS_EmptySet
    <3> QED
      BY <1>2, <3>1, LiteCounts
  <2> QED
    BY <1>3, <1>6, <2>2, <2>3 DEF LedgerBooks
<1>15. Generations
  BY <1>3 DEF Generations, RetiredGen
<1>16. Everything
  BY <1>0, <1>2, <1>3, <1>7, <1>8 DEF Everything, Exists
<1>17. \A w \in Workers : WorkerBooks(w) /\ HolderBooks(w)
  BY <1>6 DEF WorkerBooks, HolderBooks, Lite!Idle, HeldPcs, RunPcs, LiteNames
<1> QED
  BY <1>12, <1>13, <1>14, <1>15, <1>16, <1>17 DEF LiteInv

LEMMA LiteInductive ==
  ASSUME LiteNames, LiteInv, Lite!Next PROVE LiteInv'
<1>1. ASSUME NEW o \in Ops, Lite!RequestOperation(o) PROVE LiteInv'
  BY <1>1, LiteRequestMoves
<1>2. ASSUME NEW o \in Ops, Lite!RunRefused(o) PROVE LiteInv'
  BY <1>2, RefusedMoves
<1>3. CASE Lite!ChangeStatus
  BY <1>3, ChangeMoves
<1>4. CASE Lite!RequestCleanup
  BY <1>4, CleanupRequested
<1>5. ASSUME NEW w \in Workers, NEW o \in Ops, Lite!RunStart(w, o) PROVE LiteInv'
  BY <1>5, ResumeMoves, FreshMoves
<1>6. ASSUME NEW w \in Workers, Lite!RunStep(w) PROVE LiteInv'
  BY <1>6, DestroyMoves, RevokedMoves, AdvanceMoves, ClearMoves, FindMoves, LiteCreateMoves,
     LitePinMoves, RecordMoves, BrokerMoves, PublishMoves DEF Lite!RunStep
<1>7. ASSUME NEW w \in Workers, Lite!CleanupStart(w) \/ Lite!ReapStart(w) \/ Lite!WorkerStep(w)
      PROVE  LiteInv'
  BY <1>6, <1>7, CleanupBegins, ReapBegins, DestroyMoves, CleanupEnds, ReapEnds,
     ConflictMoves DEF Lite!WorkerStep
<1>8. ASSUME NEW w \in Workers, Lite!DockerFails(w) \/ Lite!Crash(w) \/ Lite!LoseSession(w)
      PROVE  LiteInv'
  BY <1>8, FailureMoves, LiteCrash, SessionLost
<1> QED
  BY <1>1, <1>2, <1>3, <1>4, <1>5, <1>7, <1>8 DEF Lite!Next

\* What the invariant is for.
LEMMA LiteIsSafe ==
  ASSUME LiteNames, LiteInv
  PROVE  Lite!TypeOK /\ Lite!RestartsMatchLedger /\ Lite!KnownGeneration /\ Lite!RetiredInactive
<1>1. Lite!TypeOK /\ Lite!RestartsMatchLedger
  BY LiteTypesAre DEF LiteInv, LedgerBooks
<1>2. Lite!KnownGeneration
  BY DEF LiteInv, Lite!KnownGeneration, Everything, Exists, Known, OldGen, RetiredGen, RowBooks
<1>3. Lite!RetiredInactive
  BY DEF LiteInv, Lite!RetiredInactive, Lite!ActiveRetired, Generations, RetiredGen, RowBooks,
     CleanedAway
<1> QED
  BY <1>1, <1>2, <1>3

-----------------------------------------------------------------------------
(* Where no session is lost.                                               *)

\* Who works at the environment keeps it from being shown as ready, and who
\* cleans it up has it hidden.
LEMMA NotShown ==
  ASSUME LiteInv
  PROVE  /\ env.op.stage \in Going => env.env # "ready"
         /\ \A w \in Workers : Running(w) => env.op.stage \in Going /\ worker[w].gen = env.op.gen
         /\ env.env = "ready" /\ ~env.cleanup /\ env.gen # 0 =>
              /\ env.op.stage = "ready" /\ env.gen = env.op.gen /\ ~RetiredGen(env.op.gen)
              /\ \A w \in Workers : \A s \in worker[w].specs : s.gen # env.gen
<1>1. env.op.stage \in Going => env.env # "ready"
  BY DEF LiteInv, RowBooks, Going
<1>2. ASSUME NEW w \in Workers, Running(w)
      PROVE  env.op.stage \in Going /\ worker[w].gen = env.op.gen
  <2>1. HolderRuns(w)
    BY <1>2 DEF LiteInv, HolderBooks, Running
  <2>2. env.op.stage # "none"
    BY <1>2, <2>1 DEF LiteInv, RowBooks, HolderRuns, WorkerBooks, Running
  <2>3. env.op.id \in Ops
    BY <2>2 DEF LiteInv, RowBooks
  <2> QED
    BY <2>1, <2>3 DEF HolderRuns, LiteInv, LedgerBooks
<1>3. env.env = "ready" /\ ~env.cleanup /\ env.gen # 0 =>
        env.op.stage = "ready" /\ env.gen = env.op.gen /\ ~CleanedAway
  BY DEF LiteInv, RowBooks, CleanedAway
<1> QED
  BY <1>1, <1>2, <1>3, NotCleaned

\* What is shown as ready was, and nothing was done to it.
LiveStep ==
  env'.env = "ready" /\ ~env'.cleanup /\ env'.gen # 0 =>
    /\ env.env = "ready" /\ ~env.cleanup /\ env'.gen = env.gen /\ env'.cid = env.cid
    /\ task'[env.gen] = task[env.gen] /\ pair'[env.gen] = pair[env.gen]

LEMMA LiveKept == LiveEnvironment /\ LiveStep => LiveEnvironment'
BY DEF LiveEnvironment, LiveStep

\* The workers that take no part are idle.
LEMMA OnlyHolder ==
  ASSUME LiteNames, SoundInv, NEW w \in Workers, lock \in {w, Lite!Nobody},
         \A v \in Workers : v # w => worker'[v] = worker[v], HolderMade(w)'
  PROVE  \A v \in Workers : HolderMade(v)'
<1>1. ASSUME NEW v \in Workers, v # w PROVE HolderMade(v)'
  <2>1. worker'[v] = worker[v] /\ worker[v].pc = "idle"
    BY <1>1 DEF SoundInv, HolderMade, LiteNames
  <2> QED
    BY <2>1 DEF HolderMade
<1>2. \A v \in Workers : v = w => HolderMade(v)'
  OBVIOUS
<1> QED
  BY <1>1, <1>2

\* The web process, and a refusal, touch nothing that was made.
LEMMA SoundRequests ==
  ASSUME LiteNames, LiteInv, SoundInv, LiteInv',
         \/ \E o \in Ops : Lite!RequestOperation(o) \/ Lite!RunRefused(o)
         \/ Lite!ChangeStatus \/ Lite!RequestCleanup
  PROVE  SoundInv'
<1>1. UNCHANGED <<task, pair, ids, lock, worker>> /\ LiteTypes
  BY DEF Lite!RequestOperation, Lite!RunRefused, Lite!ChangeStatus, Lite!RequestCleanup, LiteInv
<1>2. /\ env'.op = env.op /\ env'.gen = env.gen /\ env'.cid = env.cid
      /\ env'.env \in {env.env, "starting"}
      /\ env'.cleanup = env.cleanup \/ env'.cleanup \/ env.op.stage = "done"
  <2>1. ASSUME NEW o \in Ops, Lite!RequestOperation(o)
        PROVE  /\ env'.op = env.op /\ env'.gen = env.gen /\ env'.cid = env.cid
               /\ env'.env \in {env.env, "starting"} /\ env'.cleanup = env.cleanup
    BY <1>1, <2>1, RowTouched DEF Lite!RequestOperation
  <2>2. ASSUME NEW o \in Ops, Lite!RunRefused(o)
        PROVE  /\ env'.op = env.op /\ env'.gen = env.gen /\ env'.cid = env.cid
               /\ env'.env = env.env
               /\ env'.cleanup = env.cleanup \/ env.op.stage = "done"
    <3>1. PICK b \in BOOLEAN : b = (env.cleanup /\ env.op.stage # "done")
      OBVIOUS
    <3>2. env' = [env EXCEPT !.cleanup = b]
      BY <2>2, <3>1 DEF Lite!RunRefused
    <3>3. env.cleanup \in BOOLEAN
      BY <1>1 DEF LiteTypes, EnvRows
    <3>4. env'.cleanup = b /\ env'.op = env.op /\ env'.gen = env.gen
          /\ env'.cid = env.cid /\ env'.env = env.env
      BY <1>1, <3>2, RowTouched
    <3> QED
      BY <3>1, <3>3, <3>4
  <2>3. CASE Lite!ChangeStatus
    <3>1. PICK b \in BOOLEAN : b = ~env.working
      OBVIOUS
    <3> QED
      BY <1>1, <2>3, <3>1, RowTouched DEF Lite!ChangeStatus
  <2>4. CASE Lite!RequestCleanup
    <3>1. PICK b \in BOOLEAN : b = TRUE
      OBVIOUS
    <3> QED
      BY <1>1, <2>4, <3>1, RowTouched DEF Lite!RequestCleanup
  <2> QED
    BY <2>1, <2>2, <2>3, <2>4
<1>3. budget'.lost = budget.lost
  BY <1>1, Spent DEF Lite!RequestOperation, Lite!RunRefused, Lite!ChangeStatus, Lite!RequestCleanup
<1>4. env.op.stage = "done" => env.env # "ready" \/ env.gen = 0
  BY DEF LiteInv, RowBooks
<1>5. LiveStep
  BY <1>1, <1>2, <1>4 DEF LiveStep
<1>6. \A w \in Workers : HolderMade(w)'
  BY <1>1, <1>2 DEF SoundInv, HolderMade
<1> QED
  BY <1>3, <1>5, <1>6, LiveKept DEF SoundInv

\* A worker begins, or ends: there is nothing it has made.
LEMMA SoundBegins ==
  ASSUME LiteNames, LiteInv, SoundInv, LiteInv', NEW w \in Workers,
         (\E o \in Ops : Lite!RunStart(w, o)) \/ Lite!CleanupStart(w) \/ Lite!ReapStart(w)
  PROVE  SoundInv'
<1>1. UNCHANGED <<task, pair, ids, budget>> /\ lock = Lite!Nobody /\ lock' = w
  BY DEF Lite!RunStart, Lite!CleanupStart, Lite!ReapStart
<1>2. \A v \in Workers : v # w => worker'[v] = worker[v]
  BY DEF Lite!RunStart, Lite!CleanupStart, Lite!ReapStart, LiteInv, LiteTypes
<1>3. worker \in [Workers -> LiteRows]
  BY DEF LiteInv, LiteTypes
<1>4. worker'[w].pc \in {"destroy", "find", "c_destroy", "r_destroy"}
  BY <1>3 DEF Lite!RunStart, Lite!CleanupStart, Lite!ReapStart
<1>5. HolderMade(w)'
  BY <1>1, <1>4 DEF HolderMade
<1>6. LiveEnvironment'
  <2>1. ASSUME NEW o \in Ops, Lite!RunStart(w, o) PROVE LiveEnvironment'
    <3>1. ledger'[o] = "started"
      BY <2>1 DEF Lite!RunStart, LiteInv, LiteTypes
    <3>2. env'.env # "ready"
      BY <3>1 DEF LiteInv, LedgerBooks, RowBooks, Going
    <3> QED
      BY <3>2 DEF LiveEnvironment
  <2>2. CASE Lite!CleanupStart(w)
    <3>1. env'.cleanup = env.cleanup /\ env.cleanup
      BY <2>2, GensAre, NoSpecs, CleanupRow DEF LiteInv, Lite!CleanupStart
    <3> QED
      BY <3>1 DEF LiveEnvironment
  <2>3. CASE Lite!ReapStart(w)
    BY <2>3 DEF Lite!ReapStart, LiveEnvironment, SoundInv
  <2> QED
    BY <2>1, <2>2, <2>3
<1> QED
  BY <1>1, <1>2, <1>5, <1>6, OnlyHolder DEF SoundInv

LEMMA SoundEnds ==
  ASSUME LiteNames, LiteInv, SoundInv, LiteInv', NEW w \in Workers, Lite!Release(w),
         lock = w, budget'.lost = 0, LiveEnvironment'
  PROVE  SoundInv'
<1>1. worker'[w] = Lite!Idle /\ \A v \in Workers : v # w => worker'[v] = worker[v]
  BY GensAre, WorkerGone DEF LiteInv
<1>2. HolderMade(w)'
  BY <1>1 DEF HolderMade, Lite!Idle
<1> QED
  BY <1>1, <1>2, OnlyHolder DEF SoundInv

\* Who is busy holds the lock.
LEMMA BusyHolds ==
  ASSUME SoundInv, NEW w \in Workers, worker[w].pc # "idle"
  PROVE  lock = w /\ budget.lost = 0 /\ HolderMade(w)
BY DEF SoundInv, HolderMade

\* A worker that stops, having destroyed or half made something.
LEMMA SoundStops ==
  ASSUME LiteNames, LiteInv, SoundInv, LiteInv', NEW w \in Workers,
         worker[w].pc # "idle", Lite!Release(w), budget'.lost = budget.lost,
         env'.op = env.op, env'.gen = env.gen, env'.cid = env.cid,
         env'.cleanup = env.cleanup, env'.env \in {env.env, "starting"},
         worker[w].pc \notin RunPcs =>
           /\ task' = Lite!DestroyTasks(worker[w].specs) \/ task' = task
           /\ pair' = Lite!DestroyPairs(worker[w].specs) \/ pair' = pair
  PROVE  SoundInv'
<1>1. lock = w /\ budget.lost = 0
  BY BusyHolds
<1>2. CASE worker[w].pc \in RunPcs
  <2>1. env.op.stage \in Going
    BY <1>1, <1>2, NotShown DEF Running
  <2>2. env'.env # "ready"
    BY <2>1, NotShown
  <2>3. LiveEnvironment'
    BY <2>2 DEF LiveEnvironment
  <2> QED
    BY <1>1, <2>3, SoundEnds
<1>3. CASE worker[w].pc \notin RunPcs
  <2>1. LiveStep
    <3> SUFFICES ASSUME env.env = "ready", ~env.cleanup, env.gen # 0
                 PROVE  task'[env.gen] = task[env.gen] /\ pair'[env.gen] = pair[env.gen]
      BY DEF LiveStep
    <3>1. \A s \in worker[w].specs : s.gen # env.gen
      BY NotShown
    <3>2. LiteTypes /\ env.gen \in Lite!Gens
      BY Numbers DEF LiteInv
    <3> QED
      BY <1>3, <3>1, <3>2, Destroyed
  <2>2. LiveEnvironment'
    BY <2>1, LiveKept DEF SoundInv
  <2> QED
    BY <1>1, <2>2, SoundEnds
<1> QED
  BY <1>2, <1>3

LEMMA SoundFaults ==
  ASSUME LiteNames, LiteInv, SoundInv, LiteInv', NEW w \in Workers,
         Lite!DockerFails(w) \/ Lite!Crash(w) \/ Lite!LoseSession(w) \/ Lite!LateConflict(w) \/ Lite!ReapDestroy(w)
         \/ Lite!RunRevoked(w)
  PROVE  SoundInv'
<1>1. LiteTypes
  BY DEF LiteInv
<1>2. ~Lite!LoseSession(w)
  BY BusyHolds DEF Lite!LoseSession, Lite!DockerSteps, SoundInv
<1>3. ~Lite!LateConflict(w)
  BY BusyHolds DEF Lite!LateConflict, Lite!Fence
<1>4. worker[w].pc # "idle"
  BY <1>2, <1>3 DEF Lite!DockerFails, Lite!Crash, Lite!ReapDestroy, Lite!RunRevoked, Lite!DockerSteps
<1>5. Lite!Release(w) /\ budget'.lost = budget.lost
  BY <1>1, <1>2, <1>3, Spent DEF Lite!DockerFails, Lite!Crash, Lite!ReapDestroy, Lite!RunRevoked
<1>6. env' \in {env, [env EXCEPT !.env = "starting"]}
  BY <1>2, <1>3 DEF Lite!DockerFails, Lite!Crash, Lite!ReapDestroy, Lite!RunRevoked
<1>7. /\ env'.op = env.op /\ env'.gen = env.gen /\ env'.cid = env.cid
      /\ env'.cleanup = env.cleanup /\ env'.env \in {env.env, "starting"}
  BY <1>1, <1>6, RowTouched
<1>8. worker[w].pc \notin RunPcs =>
        /\ task' = Lite!DestroyTasks(worker[w].specs) \/ task' = task
        /\ pair' = Lite!DestroyPairs(worker[w].specs) \/ pair' = pair
  <2> SUFFICES ASSUME worker[w].pc \notin RunPcs
               PROVE  /\ task' = Lite!DestroyTasks(worker[w].specs) \/ task' = task
                      /\ pair' = Lite!DestroyPairs(worker[w].specs) \/ pair' = pair
    OBVIOUS
  <2>1. CASE Lite!DockerFails(w)
    BY <2>1 DEF Lite!DockerFails, RunPcs
  <2>2. CASE Lite!Crash(w)
    BY <2>2 DEF Lite!Crash, RunPcs
  <2>3. CASE Lite!ReapDestroy(w) \/ Lite!RunRevoked(w)
    BY <2>3 DEF Lite!ReapDestroy, Lite!RunRevoked
  <2> QED
    BY <1>2, <1>3, <2>1, <2>2, <2>3
<1> QED
  BY <1>4, <1>5, <1>7, <1>8, SoundStops

\* A worker that goes on has made what its next step takes for made.
LEMMA SoundGoes ==
  ASSUME LiteNames, LiteInv, SoundInv, LiteInv', NEW w \in Workers, NEW p \in LitePcs,
         Lite!Goto(w, p), lock = w, lock' = w, budget'.lost = budget.lost, HolderMade(w)',
         p \in RunPcs \/ (worker[w].pc = "c_destroy" /\ env' = env)
  PROVE  SoundInv'
<1>1. worker'[w].pc = p /\ \A v \in Workers : v # w => worker'[v] = worker[v]
  BY GensAre, WorkerGone DEF LiteInv
<1>2. CASE p \in RunPcs
  <2>1. HolderBooks(w)' /\ WorkerBooks(w)'
    BY DEF LiteInv
  <2>2. HolderRuns(w)' /\ worker'[w].gen # 0
    BY <1>1, <1>2, <2>1 DEF HolderBooks, WorkerBooks
  <2>3. env'.op.stage # "none"
    BY <2>2 DEF LiteInv, RowBooks, HolderRuns
  <2>4. env'.op.stage \in Going /\ env'.env # "ready"
    BY <2>2, <2>3 DEF HolderRuns, LiteInv, LedgerBooks, RowBooks, Going
  <2>5. LiveEnvironment'
    BY <2>4 DEF LiveEnvironment
  <2> QED
    BY <1>1, <2>5, OnlyHolder DEF SoundInv
<1>3. CASE worker[w].pc = "c_destroy" /\ env' = env
  <2>1. HolderCleans(w)
    BY <1>3, HolderIs
  <2>2. ~(env.env = "ready" /\ ~env.cleanup /\ env.gen # 0)
    BY <2>1, NotShown DEF HolderCleans
  <2>3. LiveEnvironment'
    BY <1>3, <2>2 DEF LiveEnvironment
  <2> QED
    BY <1>1, <2>3, OnlyHolder DEF SoundInv
<1> QED
  BY <1>2, <1>3

LEMMA SoundRun ==
  ASSUME LiteNames, LiteInv, SoundInv, LiteInv', NEW w \in Workers,
         Lite!RunDestroy(w) \/ Lite!RunAdvance(w) \/ Lite!RunClear(w) \/ Lite!RunFind(w) \/ Lite!RunCreate(w)
         \/ Lite!RunPin(w) \/ Lite!RunRecord(w) \/ Lite!RunBroker(w) \/ Lite!RunTerminal(w) \/ Lite!CleanupDestroy(w)
  PROVE  SoundInv'
<1>1. worker[w].pc # "idle"
  BY DEF Lite!RunDestroy, Lite!RunAdvance, Lite!RunClear, Lite!RunFind, Lite!RunCreate, Lite!RunPin, Lite!RunRecord,
     Lite!RunBroker, Lite!RunTerminal, Lite!CleanupDestroy
<1>2. lock = w /\ HolderMade(w)
  BY <1>1, BusyHolds
<1>3. /\ LiteTypes /\ 0 \in Lite!Gens /\ env.op.gen \in Lite!Gens
      /\ task \in [Lite!Gens -> Tasks] /\ pair \in [Lite!Gens -> SUBSET Lite!Both]
  BY LiteFacts
<1>4. worker[w].pc \in RunPcs => worker[w].gen = env.op.gen
  BY <1>2, NotShown DEF Running
<1>5. ASSUME NEW p \in LitePcs, Lite!Goto(w, p)
      PROVE  worker'[w].pc = p
  BY <1>3, <1>5, WorkerGone
<1>6. {"advance", "clear", "find", "create", "pin", "record", "broker", "terminal",
       "publish"} \subseteq RunPcs \cap LitePcs /\ "c_done" \in LitePcs
  BY DEF RunPcs, LitePcs, Lite!DockerSteps
<1>7. CASE Lite!RunDestroy(w) \/ Lite!CleanupDestroy(w)
  <2>1. /\ UNCHANGED <<env, budget, lock>>
        /\ \/ Lite!Goto(w, "advance")
           \/ Lite!Goto(w, "c_done") /\ worker[w].pc = "c_destroy"
    BY <1>2, <1>7 DEF Lite!RunDestroy, Lite!CleanupDestroy, Lite!Destroy, Lite!Fence
  <2>2. HolderMade(w)'
    BY <1>2, <1>5, <1>6, <2>1 DEF HolderMade
  <2> QED
    BY <1>2, <1>6, <2>1, <2>2, SoundGoes
<1>8. CASE Lite!RunAdvance(w) \/ Lite!RunClear(w)
  <2>1. UNCHANGED <<budget, lock>> /\ \E p \in {"clear", "find"} : Lite!Goto(w, p)
    BY <1>8 DEF Lite!RunAdvance, Lite!RunClear
  <2>2. HolderMade(w)'
    BY <1>2, <1>5, <1>6, <2>1 DEF HolderMade
  <2> QED
    BY <1>2, <1>6, <2>1, <2>2, SoundGoes
<1>9. CASE Lite!RunFind(w)
  <2>1. UNCHANGED <<env, budget, lock>> /\ worker[w].gen = env.op.gen
    BY <1>4, <1>9 DEF Lite!RunFind, RunPcs
  <2>2. \/ Lite!Goto(w, "create")
        \/ Lite!Goto(w, "pin") /\ task'[env.op.gen].up
    BY <1>3, <1>9, <2>1 DEF Lite!RunFind, Tasks
  <2>3. HolderMade(w)'
    BY <1>2, <1>5, <1>6, <2>1, <2>2 DEF HolderMade
  <2> QED
    BY <1>2, <1>6, <2>1, <2>2, <2>3, SoundGoes
<1>10. CASE Lite!RunCreate(w)
  <2>1. UNCHANGED <<env, budget, lock>> /\ worker[w].gen = env.op.gen /\ Lite!Goto(w, "pin")
    BY <1>2, <1>4, <1>10 DEF Lite!RunCreate, RunPcs, Lite!Fence
  <2>2. task'[env.op.gen].up
    BY <1>3, <1>10, <2>1 DEF Lite!RunCreate
  <2>3. HolderMade(w)'
    BY <1>2, <1>5, <1>6, <2>1, <2>2 DEF HolderMade
  <2> QED
    BY <1>2, <1>6, <2>1, <2>3, SoundGoes
<1>11. CASE Lite!RunPin(w)
  <2>1. /\ UNCHANGED <<task, pair, budget, lock>> /\ worker[w].gen = env.op.gen
        /\ Lite!Goto(w, "record") /\ worker[w].pc = "pin"
    BY <1>2, <1>4, <1>11 DEF Lite!RunPin, RunPcs
  <2>2. env'.op.target = task[env.op.gen].id /\ env'.op.gen = env.op.gen
    BY <1>3, <1>11, <2>1, PinRow
  <2>3. task[env.op.gen] = [id |-> task[env.op.gen].id, up |-> task[env.op.gen].up]
    BY <1>3 DEF Tasks
  <2>4. task[env.op.gen].up = TRUE
    <3>1. task[env.op.gen].up /\ task[env.op.gen].up \in BOOLEAN
      BY <1>2, <1>3, <2>1 DEF HolderMade, Tasks
    <3> QED
      BY <3>1
  <2>5. task'[env'.op.gen] = [id |-> env'.op.target, up |-> TRUE]
    BY <2>1, <2>2, <2>3, <2>4, Zenon
  <2>6. HolderMade(w)'
    BY <1>2, <1>5, <1>6, <2>1, <2>5 DEF HolderMade
  <2> QED
    BY <1>2, <1>6, <2>1, <2>6, SoundGoes
<1>12. CASE Lite!RunRecord(w)
  <2>1. /\ UNCHANGED <<task, pair, budget, lock>> /\ worker[w].gen = env.op.gen
        /\ worker[w].pc = "record" /\ env' = [env EXCEPT !.cid = env.op.target]
        /\ \/ Lite!Goto(w, "publish") /\ pair[env.op.gen] = Lite!Both
           \/ Lite!Goto(w, "broker")
    BY <1>2, <1>4, <1>12 DEF Lite!RunRecord, RunPcs, Lite!PairComplete
  <2>2. env'.op = env.op
    BY <1>3, <2>1 DEF LiteTypes, EnvRows
  <2>3. HolderMade(w)'
    BY <1>2, <1>5, <1>6, <2>1, <2>2 DEF HolderMade
  <2> QED
    BY <1>2, <1>6, <2>1, <2>3, SoundGoes
<1>13. CASE Lite!RunBroker(w)
  <2>1. /\ UNCHANGED <<env, task, budget, lock>> /\ worker[w].gen = env.op.gen
        /\ worker[w].pc = "broker" /\ Lite!Goto(w, "terminal")
        /\ pair'[env.op.gen] = {"broker"}
    BY <1>2, <1>3, <1>4, <1>13 DEF Lite!RunBroker, RunPcs
  <2>2. HolderMade(w)'
    BY <1>2, <1>5, <1>6, <2>1 DEF HolderMade
  <2> QED
    BY <1>2, <1>6, <2>1, <2>2, SoundGoes
<1>14. CASE Lite!RunTerminal(w)
  <2>1. /\ UNCHANGED <<env, task, budget, lock>> /\ worker[w].gen = env.op.gen
        /\ worker[w].pc = "terminal" /\ Lite!Goto(w, "publish")
        /\ pair'[env.op.gen] = pair[env.op.gen] \cup {"terminal"}
    BY <1>2, <1>3, <1>4, <1>14 DEF Lite!RunTerminal, RunPcs, Lite!Fence
  <2>2. pair'[env.op.gen] = Lite!Both
    BY <1>2, <2>1 DEF HolderMade, Lite!Both
  <2>3. HolderMade(w)'
    BY <1>2, <1>5, <1>6, <2>1, <2>2 DEF HolderMade
  <2> QED
    BY <1>2, <1>6, <2>1, <2>3, SoundGoes
<1> QED
  BY <1>7, <1>8, <1>9, <1>10, <1>11, <1>12, <1>13, <1>14

\* The publication shows what was made; a cleanup that is done shows nothing.
LEMMA SoundResults ==
  ASSUME LiteNames, LiteInv, SoundInv, LiteInv', NEW w \in Workers,
         Lite!RunPublish(w) \/ Lite!CleanupDone(w)
  PROVE  SoundInv'
<1>1. /\ UNCHANGED <<task, pair, budget>> /\ Lite!Release(w)
      /\ worker[w].pc \in {"publish", "c_done"}
  BY DEF Lite!RunPublish, Lite!CleanupDone
<1>2. lock = w /\ HolderMade(w) /\ budget.lost = 0 /\ LiteTypes /\ RowBooks
  BY <1>1, BusyHolds DEF LiteInv
<1>3. CASE Lite!RunPublish(w)
  <2>1. worker[w].pc = "publish"
    BY <1>3 DEF Lite!RunPublish
  <2>2. /\ env'.op.target = env.op.target /\ env'.op.gen = env.op.gen
        /\ env'.gen = env.gen /\ env'.cid = env.cid
    BY <1>2, <1>3, PublishRow
  <2>3. env.gen = env.op.gen /\ env.cid = env.op.target
    <3>1. HolderRuns(w)
      BY <1>2, <2>1, HolderIs DEF RunPcs
    <3> QED
      BY <1>2, <2>1, <3>1 DEF HolderRuns, RowBooks
  <2>4. LiveEnvironment'
    BY <1>1, <1>2, <2>1, <2>2, <2>3 DEF LiveEnvironment, HolderMade
  <2> QED
    BY <1>1, <1>2, <2>4, SoundEnds
<1>4. CASE Lite!CleanupDone(w)
  <2>1. env'.env = "idle"
    BY <1>2, <1>4, DoneRow, GensAre
  <2>2. LiveEnvironment'
    BY <2>1 DEF LiveEnvironment
  <2> QED
    BY <1>1, <1>2, <2>2, SoundEnds
<1> QED
  BY <1>3, <1>4

LEMMA SoundInductive ==
  ASSUME LiteNames, LiteInv, SoundInv, LiteInv', Lite!Next PROVE SoundInv'
<1>1. ASSUME NEW w \in Workers, Lite!WorkerStep(w) PROVE SoundInv'
  BY <1>1, SoundRun, SoundFaults, SoundResults DEF Lite!WorkerStep, Lite!RunStep
<1>2. ASSUME NEW w \in Workers, Lite!DockerFails(w) \/ Lite!Crash(w) \/ Lite!LoseSession(w)
      PROVE  SoundInv'
  BY <1>2, SoundFaults
<1>3. ASSUME NEW w \in Workers, NEW o \in Ops, Lite!RunStart(w, o) PROVE SoundInv'
  BY <1>3, SoundBegins
<1>4. ASSUME NEW w \in Workers, Lite!CleanupStart(w) \/ Lite!ReapStart(w) PROVE SoundInv'
  BY <1>4, SoundBegins
<1> QED
  BY <1>1, <1>2, <1>3, <1>4, SoundRequests DEF Lite!Next

LEMMA SoundStarts ==
  ASSUME LiteNames, Lite!Init, budget.lost = 0 PROVE SoundInv
<1>1. env.gen = 0 /\ \A w \in Workers : worker[w].pc = "idle"
  BY DEF Lite!Init, Lite!Idle
<1> QED
  BY <1>1 DEF SoundInv, LiveEnvironment, HolderMade

\* What the trainee is shown as ready is there.
LEMMA SoundIsLive == LiteInv /\ SoundInv => Lite!ReadyIsLive
<1> SUFFICES ASSUME LiteInv, SoundInv, env.env = "ready", ~env.cleanup, env.gen # 0
             PROVE  /\ task[env.gen] = [id |-> env.cid, up |-> TRUE]
                    /\ pair[env.gen] = Lite!Both
                    /\ ledger[env.op.id] = "success"
  BY DEF Lite!ReadyIsLive
<1>1. env.op.stage = "ready"
  BY NotShown
<1> QED
  BY <1>1 DEF SoundInv, LiveEnvironment, LiteInv, LedgerBooks

LEMMA LiteStutters ==
  ASSUME UNCHANGED Lite!vars
  PROVE  /\ LiteInv => LiteInv'
         /\ SoundInv => SoundInv'
<1>1. UNCHANGED <<env, ledger, task, pair, ids, lock, worker, budget>>
  BY DEF Lite!vars
<1>2. LiteInv => LiteInv'
  BY <1>1 DEF LiteInv, LiteTypes, RowBooks, LedgerBooks, Generations, Everything,
     WorkerBooks, HolderBooks, HolderRuns, HolderCleans, Known, OldGen, RetiredGen,
     Exists, Running, CleanedAway, Given, Lite!Pending, Lite!RestartsMatchLedger
<1>3. SoundInv => SoundInv'
  BY <1>1 DEF SoundInv, LiveEnvironment, HolderMade
<1> QED
  BY <1>2, <1>3

\* Nothing is left behind, for any numbers of operations, resets, workers,
\* containers, faults, lost sessions and cleanups: what exists is of a
\* generation the row names, a retired one is not active again, the resets that
\* succeeded are counted once, and, where no session is lost, what is shown as
\* ready runs with its terminal and its broker.  A run of the observations with
\* a verdict leaves no verifier container.
THEOREM SuiteNothingLeft == SuiteSpec => []NothingLeftBehind
<1> DEFINE PartInv == /\ part \in {"lite", "lost"} => LiteInv
                      /\ part = "lite" => SoundInv
                      /\ part = "http" => HttpInv
<1>0. LiteNames
  BY LiteAssumption
<1>1. SuiteInit => PartInv
  BY <1>0, LiteStarts, SoundStarts, HttpStarts DEF SuiteInit
<1>2. ASSUME PartInv, [SuiteNext]_suiteVars
      PROVE  /\ part' = part
             /\ part \in {"lite", "lost"} => LiteInv /\ [Lite!Next]_(Lite!vars)
             /\ part = "http" => HttpInv /\ [Http!Next]_(Http!vars)
  BY <1>2 DEF SuiteNext, suiteVars, liteVars, Lite!vars, httpVars, Http!vars
<1>3. LiteInv /\ UNCHANGED Lite!vars => LiteInv'
  BY LiteStutters
<1>4. SoundInv /\ UNCHANGED Lite!vars => SoundInv'
  BY LiteStutters
<1>5. PartInv /\ [SuiteNext]_suiteVars => PartInv'
  <2> SUFFICES ASSUME PartInv, [SuiteNext]_suiteVars PROVE PartInv'
    OBVIOUS
  <2>1. part' \in {"lite", "lost"} => LiteInv'
    BY <1>0, <1>2, <1>3, LiteInductive
  <2>2. part' = "lite" => SoundInv'
    BY <1>0, <1>2, <1>4, <2>1, SoundInductive
  <2>3. part' = "http" => HttpInv'
    BY <1>2, HttpInductive
  <2> QED
    BY <2>1, <2>2, <2>3
<1>6. PartInv => NothingLeftBehind
  BY <1>0, LiteIsSafe, SoundIsLive, CleanVerdicts DEF NothingLeftBehind
<1> QED
  BY <1>1, <1>5, <1>6, PTL DEF SuiteSpec
=============================================================================
