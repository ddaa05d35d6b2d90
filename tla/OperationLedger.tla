-------------------------- MODULE OperationLedger --------------------------
(***************************************************************************)
(* What the evidence ledger promises about the environment operations of   *)
(* one attempt, without the processes that write it                        *)
(* (sandbox/services/ledger.py, SandboxEnvironmentEvent): an operation is  *)
(* requested once, admitted only while no other one is open, closed once,  *)
(* and the success of a reset is recorded together with restart_count.     *)
(***************************************************************************)
EXTENDS Naturals, FiniteSets

CONSTANT Ops     \* operation ids

VARIABLES
  ops,           \* the events of each operation, folded
  restarts       \* TaskAttempt.restart_count

ledgerVars == <<ops, restarts>>

Op == [kind: {"none", "start", "reset", "cleanup"}, started: BOOLEAN,
       outcome: {"open", "success", "not_started", "unknown"}]

Unrequested == [kind |-> "none", started |-> FALSE, outcome |-> "open"]

Open(o) == ops[o].kind # "none" /\ ops[o].outcome = "open"
Admitted(o) == Open(o) /\ ops[o].started

Init == ops = [o \in Ops |-> Unrequested] /\ restarts = 0

\* request_environment; the loser of the conditional UPDATE is closed at once.
Request(o, kind, outcome) ==
  /\ ops[o].kind = "none"
  /\ ops' = [ops EXCEPT ![o] = [kind |-> kind, started |-> FALSE, outcome |-> outcome]]
  /\ UNCHANGED restarts

\* begin_environment: every other operation of the attempt is finished.
Alone(o) == \A p \in Ops \ {o} : ~Open(p)

\* begin_environment admits ...
Admit(o) ==
  /\ Open(o)
  /\ ~ops[o].started
  /\ Alone(o)
  /\ ops' = [ops EXCEPT ![o].started = TRUE]
  /\ UNCHANGED restarts

\* ... or refuses, when another operation is not finished.
Refuse(o) ==
  /\ Open(o)
  /\ ~ops[o].started
  /\ ~Alone(o)
  /\ ops' = [ops EXCEPT ![o].outcome = "not_started"]
  /\ UNCHANGED restarts

\* interrupt, or the failure of one operation: closed without a result.
CloseAll(S) == [o \in Ops |-> IF o \in S THEN [ops[o] EXCEPT !.outcome = "unknown"] ELSE ops[o]]
Close(S) ==
  /\ \A o \in S : Open(o)
  /\ ops' = CloseAll(S)
  /\ UNCHANGED restarts

\* The cleanup command: all that is open is interrupted, and the cleanup is an
\* operation that is requested and started in the same transaction.
CleanupEvents(o) ==
  [CloseAll({p \in Ops : Open(p)})
     EXCEPT ![o] = [kind |-> "cleanup", started |-> TRUE, outcome |-> "open"]]
Cleanup(o) ==
  /\ ops[o].kind = "none"
  /\ ops' = CleanupEvents(o)
  /\ UNCHANGED restarts

\* environment_live, for an operation its worker was admitted to.
MaySucceed(o) == Admitted(o)

\* The finished event of a success and the counter, in one transaction.
Succeed(o) ==
  /\ MaySucceed(o)
  /\ ops' = [ops EXCEPT ![o].outcome = "success"]
  /\ restarts' = IF ops[o].kind = "reset" THEN restarts + 1 ELSE restarts

Next ==
  \/ \E o \in Ops : \/ \E kind \in {"start", "reset"}, outcome \in {"open", "not_started"} :
                         Request(o, kind, outcome)
                    \/ Admit(o)
                    \/ Refuse(o)
                    \/ Cleanup(o)
                    \/ Succeed(o)
  \/ \E S \in SUBSET Ops : Close(S)

Spec == Init /\ [][Next]_ledgerVars

-----------------------------------------------------------------------------
\* At most one admitted operation is open (begin_environment under the row lock
\* of the attempt, and the interruption that precedes a cleanup).
AtMostOneAdmitted == \A o, p \in Ops : Admitted(o) /\ Admitted(p) => o = p

SuccessfulResets == {o \in Ops : ops[o].kind = "reset" /\ ops[o].outcome = "success"}

\* restart_count is the number of resets that succeeded (the finished event and
\* the counter are written in one transaction, and only once per operation).
RestartsCounted == restarts = Cardinality(SuccessfulResets)

=============================================================================
