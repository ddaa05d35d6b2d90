---------------------------- MODULE TrustedProofs ----------------------------
(***************************************************************************)
(* What the runtimes of the trusted checker promise for any number of      *)
(* targets, runs, callers, deaths and lost answers: shadow runs, the       *)
(* broker of the proof of concept, and the live runtime.                   *)
(***************************************************************************)
EXTENDS MCTrusted, FiniteSetTheorems, TLAPS

-----------------------------------------------------------------------------
(* Shadow runs: the inductive invariant.                                   *)

Results == {"none", "unknown", "passed", "failed"}
ShadowRun ==
  [lifecycle : {"none", "reserved", "issuing", "issued", "running", "terminal"},
   payload : SUBSET Payloads, epoch : Nat, dispatched : BOOLEAN,
   started : BOOLEAN, observed : BOOLEAN, same : BOOLEAN, result : Results,
   cleanup : {"not_required", "pending", "quarantined", "confirmed"},
   unresolved : BOOLEAN]
Coordinator ==
  [pc : {"idle", "expire", "claim", "dispatch", "issue", "start", "starting",
         "observe", "finish", "reconcile"},
   key : SUBSET Keys, result : Results, same : BOOLEAN, confirmed : BOOLEAN]

ShadowTypes ==
  /\ control \in [enabled : BOOLEAN, epoch : Nat]
  /\ run \in [Keys -> ShadowRun]
  /\ alias \in [Requests -> SUBSET (Keys \X Payloads)]
  /\ proc \in [Procs -> Coordinator]
  /\ backend \in [issued : SUBSET Keys, started : SUBSET Keys, cleaned : SUBSET Keys]
  /\ calls \in [issue : [Keys -> Nat], start : [Keys -> Nat]]
  /\ lost \in SUBSET Keys

\* A coordinator that works holds the key of its run.
Works(p, pc, k) == Shadow!At(p, pc) /\ proc[p].key = {k}
KeyHeld == \A p \in Procs : ~Shadow!At(p, "idle") => \E k \in Keys : proc[p].key = {k}

\* What the books of a run say.  Its calls: none twice, none before its intent.
\* Its stages: it is started when it runs and not before, and its intents are
\* unresolved while they are open.  Whatever of it may exist is unresolved, and
\* a known verdict rests on an observation of the enrolled target.
CallsBooked(k) ==
  /\ calls.issue[k] <= 1 /\ calls.start[k] <= 1
  /\ ~run[k].dispatched => calls.issue[k] = 0
  /\ ~run[k].started => calls.start[k] = 0
  /\ k \in backend.started => calls.start[k] # 0
  /\ k \in lost => calls.issue[k] # 0
StageOrdered(k) ==
  /\ run[k].lifecycle \in {"none", "reserved", "issuing", "issued"} => ~run[k].started
  /\ run[k].lifecycle \in {"none", "reserved"} => ~run[k].dispatched
  /\ run[k].lifecycle = "running" => run[k].started
  /\ run[k].lifecycle \in {"issuing", "running"} => run[k].unresolved
  /\ k \in lost => run[k].lifecycle \in {"issuing", "terminal"} /\ ~run[k].started
  /\ k \in (backend.started \ backend.cleaned) \cup lost => run[k].unresolved
  /\ run[k].result \in {"passed", "failed"} => run[k].same
Booked(k) == CallsBooked(k) /\ StageOrdered(k)

\* Whoever wrote an intent is the only one to make its call, and has not yet.
IssueOwned(p, k) ==
  Works(p, "issue", k) =>
    /\ run[k].dispatched /\ calls.issue[k] = 0
    /\ \A q \in Procs : Works(q, "issue", k) => q = p
StartOwned(p, k) ==
  Works(p, "starting", k) =>
    /\ run[k].started /\ calls.start[k] = 0
    /\ \A q \in Procs : Works(q, "starting", k) => q = p
IntentsOwned == \A p \in Procs, k \in Keys : IssueOwned(p, k) /\ StartOwned(p, k)

\* The verdict a coordinator is about to write is of the enrolled target.
VerdictSame(p) == Shadow!At(p, "finish") /\ proc[p].result \in {"passed", "failed"} => proc[p].same

\* One run at a time has anything of it left.
Busy(k) == run[k].lifecycle \notin {"none", "terminal"} \/ run[k].unresolved
OneBusy == \A j, k \in Keys : Busy(j) /\ Busy(k) => j = k

ShadowInv ==
  /\ ShadowTypes /\ KeyHeld /\ IntentsOwned /\ OneBusy /\ Shadow!RequestBinding
  /\ \A k \in Keys : Booked(k)
  /\ \A p \in Procs : VerdictSame(p)

LEMMA KeyKnown ==
  ASSUME ShadowTypes, KeyHeld, NEW p \in Procs, ~Shadow!At(p, "idle")
  PROVE  Shadow!Key(p) \in Keys /\ proc[p].key = {Shadow!Key(p)}
<1>1. PICK k \in Keys : proc[p].key = {k}
  BY DEF KeyHeld
<1>2. Shadow!Key(p) = k
  BY <1>1 DEF Shadow!Key
<1>3. QED
  BY <1>1, <1>2

-----------------------------------------------------------------------------
(* A step works at one run and moves at most one coordinator.              *)

\* The calls of a run and what came of them are as they were.
SameCalls(j) ==
  /\ calls'.issue[j] = calls.issue[j] /\ calls'.start[j] = calls.start[j]
  /\ j \in backend'.started <=> j \in backend.started
  /\ j \in backend.cleaned => j \in backend'.cleaned
  /\ j \in lost' <=> j \in lost
\* A call is made by the owner of its intent, who goes on.
Makes(p, pc, k) == p \in Procs /\ Works(p, pc, k) /\ ~Shadow!At(p, pc)'
CallsMade(p, k) ==
  /\ calls'.issue[k] = calls.issue[k] \/ Makes(p, "issue", k)
  /\ calls'.start[k] = calls.start[k] \/ Makes(p, "starting", k)
\* Where a coordinator goes on: with the key of its run, into a call only
\* with an intent that it wrote itself.
MovesOn(p, k) ==
  /\ ~Shadow!At(p, "idle")' => proc'[p].key = {k}
  /\ Shadow!At(p, "issue")' => ~run[k].dispatched /\ run'[k].dispatched /\ calls'.issue[k] = 0
  /\ Shadow!At(p, "starting")' => ~run[k].started /\ run'[k].started /\ calls'.start[k] = 0
  /\ VerdictSame(p)'
\* The rest of the system stays as it is.
OnlyAt(p, k) ==
  /\ \A j \in Keys : j # k => run'[j] = run[j] /\ SameCalls(j)
  /\ \A q \in Procs : proc'[q] = proc[q] \/ (q = p /\ MovesOn(p, k))
  /\ run[k].dispatched => run'[k].dispatched
  /\ run[k].started => run'[k].started
  /\ CallsMade(p, k)

LEMMA StepAtOne ==
  ASSUME ShadowInv, ShadowTypes', NEW p, NEW k \in Keys, OnlyAt(p, k), Booked(k)',
         OneBusy', Shadow!RequestBinding'
  PROVE  ShadowInv'
<1>1. KeyHeld'
  BY DEF ShadowInv, KeyHeld, OnlyAt, MovesOn, Shadow!At
<1>2. ASSUME NEW j \in Keys PROVE Booked(j)'
  <2>1. CASE j = k
    BY <2>1
  <2>2. CASE j # k
    <3>1. Booked(j) /\ run'[j] = run[j] /\ SameCalls(j)
      BY <2>2 DEF ShadowInv, OnlyAt
    <3>2. QED
      BY <3>1 DEF Booked, CallsBooked, StageOrdered, SameCalls
  <2>3. QED
    BY <2>1, <2>2
<1>3. ASSUME NEW q \in Procs PROVE VerdictSame(q)'
  BY DEF ShadowInv, OnlyAt, MovesOn, VerdictSame, Shadow!At
<1>4. ASSUME NEW q \in Procs, NEW j \in Keys PROVE IssueOwned(q, j)'
  <2> SUFFICES ASSUME Works(q, "issue", j)'
               PROVE  /\ run'[j].dispatched /\ calls'.issue[j] = 0
                      /\ \A r \in Procs : Works(r, "issue", j)' => r = q
    BY DEF IssueOwned
  <2>1. \A r \in Procs : Works(r, "issue", j) => run[j].dispatched /\ calls.issue[j] = 0
                           /\ \A u \in Procs : Works(u, "issue", j) => u = r
    BY DEF ShadowInv, IntentsOwned, IssueOwned
  <2>2. \A r \in Procs : Works(r, "issue", j)' =>
            \/ Works(r, "issue", j) /\ proc'[r] = proc[r]
            \/ r = p /\ j = k /\ ~run[j].dispatched /\ run'[j].dispatched /\ calls'.issue[j] = 0
    BY DEF OnlyAt, MovesOn, Works, Shadow!At
  <2>3. run[j].dispatched => run'[j].dispatched
    BY DEF OnlyAt
  <2>4. calls'.issue[j] = calls.issue[j] \/ (j = k /\ Makes(p, "issue", j))
    BY DEF OnlyAt, SameCalls, CallsMade
  <2>5. QED
    BY <2>1, <2>2, <2>3, <2>4 DEF Makes, Works
<1>5. ASSUME NEW q \in Procs, NEW j \in Keys PROVE StartOwned(q, j)'
  <2> SUFFICES ASSUME Works(q, "starting", j)'
               PROVE  /\ run'[j].started /\ calls'.start[j] = 0
                      /\ \A r \in Procs : Works(r, "starting", j)' => r = q
    BY DEF StartOwned
  <2>1. \A r \in Procs : Works(r, "starting", j) => run[j].started /\ calls.start[j] = 0
                           /\ \A u \in Procs : Works(u, "starting", j) => u = r
    BY DEF ShadowInv, IntentsOwned, StartOwned
  <2>2. \A r \in Procs : Works(r, "starting", j)' =>
            \/ Works(r, "starting", j) /\ proc'[r] = proc[r]
            \/ r = p /\ j = k /\ ~run[j].started /\ run'[j].started /\ calls'.start[j] = 0
    BY DEF OnlyAt, MovesOn, Works, Shadow!At
  <2>3. run[j].started => run'[j].started
    BY DEF OnlyAt
  <2>4. calls'.start[j] = calls.start[j] \/ (j = k /\ Makes(p, "starting", j))
    BY DEF OnlyAt, SameCalls, CallsMade
  <2>5. QED
    BY <2>1, <2>2, <2>3, <2>4 DEF Makes, Works
<1>6. QED
  BY <1>1, <1>2, <1>3, <1>4, <1>5 DEF ShadowInv, IntentsOwned
\* What a row may become without a call.
Follows(k, r) ==
  /\ r \in ShadowRun
  /\ r.payload = run[k].payload
  /\ run[k].dispatched => r.dispatched
  /\ run[k].started => r.started
  /\ r.lifecycle \in {"none", "reserved", "issuing", "issued"} => ~r.started
  /\ r.lifecycle \in {"none", "reserved"} => ~r.dispatched
  /\ r.lifecycle = "running" => r.started
  /\ r.lifecycle \in {"issuing", "running"} => r.unresolved
  /\ k \in lost => r.lifecycle \in {"issuing", "terminal"} /\ ~r.started
  /\ k \in (backend.started \ backend.cleaned) \cup lost => r.unresolved
  /\ r.result \in {"passed", "failed"} => r.same
  /\ r.lifecycle \notin {"none", "terminal"} \/ r.unresolved => Busy(k)

LEMMA RowFollows == ASSUME ShadowInv, NEW k \in Keys PROVE Follows(k, run[k])
<1>1. run[k] \in ShadowRun /\ Booked(k)
  BY DEF ShadowInv, ShadowTypes
<1>2. QED
  BY <1>1 DEF Follows, Booked, StageOrdered, Busy

LEMMA BusyKept ==
  ASSUME ShadowInv, NEW k \in Keys, NEW r \in ShadowRun, run' = [run EXCEPT ![k] = r],
         r.lifecycle \notin {"none", "terminal"} \/ r.unresolved => Busy(k)
  PROVE  OneBusy'
<1>1. \A j \in Keys : run'[j] = IF j = k THEN r ELSE run[j]
  BY DEF ShadowInv, ShadowTypes
<1>2. \A j \in Keys : Busy(j)' => Busy(j)
  BY <1>1 DEF Busy
<1>3. QED
  BY <1>2 DEF ShadowInv, OneBusy

LEMMA BindingKept ==
  ASSUME ShadowInv, NEW k \in Keys, NEW r \in ShadowRun, run' = [run EXCEPT ![k] = r],
         r.payload = run[k].payload, UNCHANGED alias
  PROVE  Shadow!RequestBinding'
<1>1. \A j \in Keys : run'[j].payload = run[j].payload
  BY DEF ShadowInv, ShadowTypes
<1>2. QED
  BY <1>1 DEF ShadowInv, Shadow!RequestBinding

\* A step without a call.
LEMMA StepWithoutCall ==
  ASSUME ShadowInv, NEW p, NEW k \in Keys, NEW r, Follows(k, r),
         run' = [run EXCEPT ![k] = r], UNCHANGED <<control, alias, backend, calls, lost>>,
         proc' \in [Procs -> Coordinator],
         \A q \in Procs : proc'[q] = proc[q] \/ (q = p /\ MovesOn(p, k))
  PROVE  ShadowInv'
<1>1. r \in ShadowRun /\ run \in [Keys -> ShadowRun]
  BY DEF Follows, ShadowInv, ShadowTypes
<1>2. run' \in [Keys -> ShadowRun] /\ run'[k] = r /\ \A j \in Keys : j # k => run'[j] = run[j]
  BY <1>1
<1>3. ShadowTypes'
  BY <1>2 DEF ShadowInv, ShadowTypes
<1>4. \A j \in Keys : SameCalls(j)
  BY DEF SameCalls
<1>5. OnlyAt(p, k)
  BY <1>2, <1>4 DEF OnlyAt, CallsMade, Follows
<1>6. Booked(k)'
  <2>1. CallsBooked(k)
    BY DEF ShadowInv, Booked
  <2>2. CallsBooked(k)'
    BY <1>2, <2>1 DEF CallsBooked, Follows
  <2>3. StageOrdered(k)'
    BY <1>2 DEF StageOrdered, Follows
  <2>4. QED
    BY <2>2, <2>3 DEF Booked
<1>7. OneBusy'
  BY <1>1, BusyKept DEF Follows
<1>8. Shadow!RequestBinding'
  BY <1>1, BindingKept DEF Follows
<1>9. QED
  BY <1>3, <1>5, <1>6, <1>7, <1>8, StepAtOne

\* A run that ends keeps its books.
LEMMA TerminalRow ==
  ASSUME ShadowInv, NEW k \in Keys, NEW v \in {"unknown", "passed", "failed"}
  PROVE  /\ Shadow!Terminal(k, v) \in ShadowRun
         /\ Shadow!Terminal(k, v).lifecycle = "terminal"
         /\ Shadow!Terminal(k, v).payload = run[k].payload
         /\ Shadow!Terminal(k, v).dispatched = run[k].dispatched
         /\ Shadow!Terminal(k, v).started = run[k].started
         /\ Shadow!Terminal(k, v).unresolved = run[k].unresolved
         /\ Shadow!Terminal(k, v).same = run[k].same
         /\ Shadow!Terminal(k, v).result = IF Shadow!IsTerminal(k) THEN run[k].result ELSE v
<1>1. run[k] \in ShadowRun
  BY DEF ShadowInv, ShadowTypes
<1>2. CASE Shadow!IsTerminal(k)
  BY <1>1, <1>2 DEF Shadow!Terminal, Shadow!IsTerminal
<1>3. CASE ~Shadow!IsTerminal(k)
  <2>1. Shadow!Terminal(k, v) = [run[k] EXCEPT !.lifecycle = "terminal", !.result = v]
    BY <1>3 DEF Shadow!Terminal
  <2>2. QED
    BY <1>1, <1>3, <2>1 DEF ShadowRun, Results
<1>4. QED
  BY <1>2, <1>3

LEMMA UnknownFollows == ASSUME ShadowInv, NEW k \in Keys PROVE Follows(k, Shadow!Terminal(k, "unknown"))
<1>1. Follows(k, run[k])
  BY RowFollows
<1>2. QED
  BY <1>1, TerminalRow DEF Follows

\* Whoever returns holds nothing.
LEMMA Returned ==
  ASSUME ShadowInv, NEW p \in Procs, NEW k \in Keys, Shadow!Return(p)
  PROVE  /\ proc' \in [Procs -> Coordinator]
         /\ \A q \in Procs : proc'[q] = proc[q] \/ (q = p /\ MovesOn(p, k))
         /\ ~Shadow!At(p, "issue")' /\ ~Shadow!At(p, "starting")'
<1>1. Shadow!Idle \in Coordinator /\ proc \in [Procs -> Coordinator]
  BY DEF Shadow!Idle, Coordinator, Results, ShadowInv, ShadowTypes
<1>2. proc' = [proc EXCEPT ![p] = Shadow!Idle]
  BY DEF Shadow!Return
<1>3. proc'[p] = Shadow!Idle /\ \A q \in Procs : q # p => proc'[q] = proc[q]
  BY <1>1, <1>2
<1>4. ~Shadow!At(p, "issue")' /\ ~Shadow!At(p, "starting")' /\ MovesOn(p, k)
  BY <1>3 DEF MovesOn, Shadow!At, Shadow!Idle, VerdictSame
<1>5. QED
  BY <1>1, <1>2, <1>3, <1>4

\* Whoever goes on to a step that is not a call and not the verdict keeps its
\* key.
LEMMA WentOn ==
  ASSUME ShadowInv, NEW p \in Procs, NEW k \in Keys, proc[p].key = {k},
         NEW pc \in {"expire", "claim", "dispatch", "issue", "start", "starting", "observe", "reconcile"},
         Shadow!Go(p, pc),
         pc = "issue" => ~run[k].dispatched /\ run'[k].dispatched /\ calls'.issue[k] = 0,
         pc = "starting" => ~run[k].started /\ run'[k].started /\ calls'.start[k] = 0
  PROVE  /\ proc' \in [Procs -> Coordinator]
         /\ \A q \in Procs : proc'[q] = proc[q] \/ (q = p /\ MovesOn(p, k))
         /\ proc'[p].pc = pc
<1>1. proc \in [Procs -> Coordinator] /\ proc' = [proc EXCEPT ![p].pc = pc]
  BY DEF Shadow!Go, ShadowInv, ShadowTypes
<1>2. proc' \in [Procs -> Coordinator] /\ proc'[p].pc = pc /\ proc'[p].key = {k}
  BY <1>1 DEF Coordinator
<1>3. \A q \in Procs : q # p => proc'[q] = proc[q]
  BY <1>1
<1>4. MovesOn(p, k)
  BY <1>2 DEF MovesOn, Shadow!At, VerdictSame
<1>5. QED
  BY <1>2, <1>3, <1>4

-----------------------------------------------------------------------------
(* The steps of the shadow.                                                *)

\* expire closes a run whose gate is closed and leaves the others.
LEMMA Expired ==
  ASSUME ShadowInv, NEW k \in Keys, Shadow!expire(k)
  PROVE  \E r : Follows(k, r) /\ run' = [run EXCEPT ![k] = r]
<1>1. CASE Shadow!Gate(k)
  <2>1. run' = [run EXCEPT ![k] = run[k]]
    BY <1>1 DEF Shadow!expire, ShadowInv, ShadowTypes
  <2>2. QED
    BY <2>1, RowFollows
<1>2. CASE ~Shadow!Gate(k)
  <2>1. run' = [run EXCEPT ![k] = Shadow!Terminal(k, "unknown")]
    BY <1>2 DEF Shadow!expire, Shadow!Write
  <2>2. QED
    BY <2>1, UnknownFollows
<1>3. QED
  BY <1>1, <1>2

LEMMA ExpireStep ==
  ASSUME ShadowInv, NEW p \in Procs, Shadow!Expire(p)
  PROVE  ShadowInv'
<1>1. Shadow!Key(p) \in Keys
  BY KeyKnown DEF Shadow!Expire, ShadowInv, Shadow!At
<1>2. PICK r : Follows(Shadow!Key(p), r) /\ run' = [run EXCEPT ![Shadow!Key(p)] = r]
  BY <1>1, Expired DEF Shadow!Expire
<1>3. Shadow!Return(p) /\ UNCHANGED <<control, alias, backend, calls, lost>>
  BY DEF Shadow!Expire, Shadow!outside
<1>4. QED
  BY <1>1, <1>2, <1>3, Returned, StepWithoutCall

LEMMA ClaimStep ==
  ASSUME ShadowInv, NEW p \in Procs, Shadow!claim_issue(p)
  PROVE  ShadowInv'
<1> DEFINE k == Shadow!Key(p)
           r == [run[k] EXCEPT !.lifecycle = "issuing", !.cleanup = "quarantined", !.unresolved = TRUE]
<1>1. k \in Keys /\ proc[p].key = {k}
  BY KeyKnown DEF Shadow!claim_issue, ShadowInv, Shadow!At
<1>2. UNCHANGED <<control, alias, backend, calls, lost>>
  BY DEF Shadow!claim_issue, Shadow!outside
<1>3. CASE Shadow!Gate(k) /\ run[k].lifecycle = "reserved"
  <2>1. run' = [run EXCEPT ![k] = r] /\ Shadow!Go(p, "dispatch")
    BY <1>3 DEF Shadow!claim_issue, Shadow!Write
  <2>2. run[k] \in ShadowRun /\ Follows(k, run[k])
    BY <1>1, RowFollows DEF Follows
  <2>3. Follows(k, r)
    BY <1>3, <2>2 DEF Follows, ShadowRun, Busy
  <2> HIDE DEF r, k
  <2>4. QED
    BY <1>1, <1>2, <2>1, <2>3, WentOn, StepWithoutCall
<1>4. CASE ~(Shadow!Gate(k) /\ run[k].lifecycle = "reserved")
  <2>1. Shadow!expire(k) /\ Shadow!Return(p)
    BY <1>4 DEF Shadow!claim_issue
  <2>2. PICK x : Follows(k, x) /\ run' = [run EXCEPT ![k] = x]
    BY <1>1, <2>1, Expired
  <2> HIDE DEF k
  <2>3. QED
    BY <1>1, <1>2, <2>1, <2>2, Returned, StepWithoutCall
<1>5. QED
  BY <1>3, <1>4

LEMMA DispatchIntentStep ==
  ASSUME ShadowInv, NEW p \in Procs, Shadow!DispatchIntent(p)
  PROVE  ShadowInv'
<1> DEFINE k == Shadow!Key(p)
           r == [run[k] EXCEPT !.dispatched = TRUE]
<1>1. k \in Keys /\ proc[p].key = {k}
  BY KeyKnown DEF Shadow!DispatchIntent, ShadowInv, Shadow!At
<1>2. UNCHANGED <<control, alias, backend, calls, lost>>
  BY DEF Shadow!DispatchIntent, Shadow!outside
<1>3. run[k] \in ShadowRun /\ Follows(k, run[k])
  BY <1>1, RowFollows DEF Follows
<1>4. CASE Shadow!MayDispatch(k)
  <2>1. run' = [run EXCEPT ![k] = r] /\ Shadow!Go(p, "issue")
    BY <1>4 DEF Shadow!DispatchIntent, Shadow!Write
  <2>2. Follows(k, r) /\ r.dispatched
    BY <1>3, <1>4 DEF Follows, ShadowRun, Busy, Shadow!MayDispatch
  <2>3. run'[k] = r /\ ~run[k].dispatched
    BY <1>1, <1>4, <2>1 DEF ShadowInv, ShadowTypes, Shadow!MayDispatch
  <2>4. calls'.issue[k] = 0
    BY <1>1, <1>2, <2>3 DEF ShadowInv, Booked, CallsBooked
  <2> HIDE DEF r, k
  <2>5. QED
    BY <1>1, <1>2, <2>1, <2>2, <2>3, <2>4, WentOn, StepWithoutCall
<1>5. CASE ~Shadow!MayDispatch(k)
  <2>1. run' = [run EXCEPT ![k] = run[k]] /\ Shadow!Return(p)
    BY <1>5 DEF Shadow!DispatchIntent, ShadowInv, ShadowTypes
  <2> HIDE DEF k
  <2>2. QED
    BY <1>1, <1>2, <1>3, <2>1, Returned, StepWithoutCall
<1>6. QED
  BY <1>4, <1>5

LEMMA StartIntentStep ==
  ASSUME ShadowInv, NEW p \in Procs, Shadow!StartIntent(p)
  PROVE  ShadowInv'
<1> DEFINE k == Shadow!Key(p)
           r == [run[k] EXCEPT !.lifecycle = "running", !.started = TRUE,
                               !.cleanup = "pending", !.unresolved = TRUE]
<1>1. k \in Keys /\ proc[p].key = {k}
  BY KeyKnown DEF Shadow!StartIntent, ShadowInv, Shadow!At
<1>2. UNCHANGED <<control, alias, backend, calls, lost>>
  BY DEF Shadow!StartIntent, Shadow!outside
<1>3. CASE Shadow!Gate(k) /\ run[k].lifecycle = "issued"
  <2>1. run' = [run EXCEPT ![k] = r] /\ Shadow!Go(p, "starting")
    BY <1>3 DEF Shadow!StartIntent, Shadow!Write
  <2>2. run[k] \in ShadowRun /\ Follows(k, run[k])
    BY <1>1, RowFollows DEF Follows
  <2>3. Follows(k, r) /\ r.started
    BY <1>3, <2>2 DEF Follows, ShadowRun, Busy
  <2>4. run'[k] = r /\ ~run[k].started
    BY <1>1, <1>3, <2>1, <2>2 DEF ShadowInv, ShadowTypes, Follows
  <2>5. calls'.start[k] = 0
    BY <1>1, <1>2, <2>4 DEF ShadowInv, Booked, CallsBooked
  <2> HIDE DEF r, k
  <2>6. QED
    BY <1>1, <1>2, <2>1, <2>3, <2>4, <2>5, WentOn, StepWithoutCall
<1>4. CASE ~(Shadow!Gate(k) /\ run[k].lifecycle = "issued")
  <2>1. Shadow!expire(k) /\ Shadow!Return(p)
    BY <1>4 DEF Shadow!StartIntent
  <2>2. PICK x : Follows(k, x) /\ run' = [run EXCEPT ![k] = x]
    BY <1>1, <2>1, Expired
  <2> HIDE DEF k
  <2>3. QED
    BY <1>1, <1>2, <2>1, <2>2, Returned, StepWithoutCall
<1>5. QED
  BY <1>3, <1>4

\* The answer of the runtime is about the enrolled target, or unknown.
LEMMA ObserveStep ==
  ASSUME ShadowInv, NEW p \in Procs, Shadow!Observe(p)
  PROVE  ShadowInv'
<1> DEFINE k == Shadow!Key(p)
<1>1. k \in Keys /\ proc[p].key = {k}
  BY KeyKnown DEF Shadow!Observe, ShadowInv, Shadow!At
<1>2. UNCHANGED <<control, alias, backend, calls, lost, run>>
  BY DEF Shadow!Observe, Shadow!outside
<1>3. Follows(k, run[k]) /\ run' = [run EXCEPT ![k] = run[k]]
  BY <1>1, <1>2, RowFollows DEF ShadowInv, ShadowTypes
<1>4. PICK c \in Coordinator :
         /\ proc' = [proc EXCEPT ![p] = c] /\ c.pc = "finish" /\ c.key = {k}
         /\ c.result \in {"passed", "failed"} => c.same
  <2>1. proc[p] \in Coordinator
    BY DEF ShadowInv, ShadowTypes
  <2>2. CASE \E same, confirmed \in BOOLEAN, t \in Shadow!Transports :
               proc' = [proc EXCEPT ![p] = [pc |-> "finish", key |-> @.key,
                          result |-> Shadow!probe(same, t), same |-> same, confirmed |-> confirmed]]
    <3>1. PICK same \in BOOLEAN, confirmed \in BOOLEAN, t \in Shadow!Transports :
            proc' = [proc EXCEPT ![p] = [pc |-> "finish", key |-> proc[p].key,
                       result |-> Shadow!probe(same, t), same |-> same, confirmed |-> confirmed]]
      BY <2>2
    <3>2. Shadow!probe(same, t) \in {"passed", "failed", "unknown"} /\ (~same => Shadow!probe(same, t) = "unknown")
      BY DEF Shadow!probe, Shadow!evaluate_response
    <3> DEFINE c == [pc |-> "finish", key |-> proc[p].key, result |-> Shadow!probe(same, t),
                     same |-> same, confirmed |-> confirmed]
    <3>3. c \in Coordinator
      BY <2>1, <3>2 DEF Coordinator, Results
    <3>4. QED
      BY <1>1, <3>1, <3>2, <3>3
  <2>3. CASE proc' = [proc EXCEPT ![p].pc = "finish", ![p].result = "unknown"]
    <3>1. [proc[p] EXCEPT !.pc = "finish", !.result = "unknown"] \in Coordinator
      BY <2>1 DEF Coordinator, Results
    <3>2. proc' = [proc EXCEPT ![p] = [proc[p] EXCEPT !.pc = "finish", !.result = "unknown"]]
      BY <2>3 DEF ShadowInv, ShadowTypes
    <3>3. QED
      BY <1>1, <2>1, <3>1, <3>2 DEF Coordinator
  <2>4. QED
    BY <2>2, <2>3 DEF Shadow!Observe
<1>5. /\ proc' \in [Procs -> Coordinator] /\ proc'[p] = c
      /\ \A q \in Procs : q # p => proc'[q] = proc[q]
  BY <1>4 DEF ShadowInv, ShadowTypes
<1>6. MovesOn(p, k)
  BY <1>4, <1>5 DEF MovesOn, Shadow!At, VerdictSame
<1> HIDE DEF k
<1>7. QED
  BY <1>1, <1>2, <1>3, <1>5, <1>6, StepWithoutCall

LEMMA FinishStep ==
  ASSUME ShadowInv, NEW p \in Procs, Shadow!finish(p)
  PROVE  ShadowInv'
<1> DEFINE k == Shadow!Key(p)
           v == IF Shadow!Gate(k) THEN proc[p].result ELSE "unknown"
           r == [Shadow!Terminal(k, v) EXCEPT !.observed = TRUE, !.same = proc[p].same]
<1>1. k \in Keys /\ proc[p].key = {k}
  BY KeyKnown DEF Shadow!finish, ShadowInv, Shadow!At
<1>2. UNCHANGED <<control, alias, backend, calls, lost>>
  BY DEF Shadow!finish, Shadow!outside
<1>3. /\ proc' \in [Procs -> Coordinator]
      /\ \A q \in Procs : proc'[q] = proc[q] \/ (q = p /\ MovesOn(p, k))
  BY <1>1, Returned, WentOn DEF Shadow!finish
<1>4. CASE Shadow!IsTerminal(k)
  <2>1. Follows(k, run[k]) /\ run' = [run EXCEPT ![k] = run[k]]
    BY <1>1, <1>4, RowFollows DEF Shadow!finish, ShadowInv, ShadowTypes
  <2> HIDE DEF k
  <2>2. QED
    BY <1>1, <1>2, <1>3, <2>1, StepWithoutCall
<1>5. CASE ~Shadow!IsTerminal(k)
  <2>1. run' = [run EXCEPT ![k] = r]
    BY <1>5 DEF Shadow!finish, Shadow!Write
  <2>2. proc[p] \in Coordinator /\ VerdictSame(p) /\ Shadow!At(p, "finish") /\ run[k] \in ShadowRun
    BY <1>1 DEF Shadow!finish, ShadowInv, ShadowTypes
  <2>3. r = [run[k] EXCEPT !.lifecycle = "terminal", !.result = v, !.observed = TRUE, !.same = proc[p].same]
    BY <1>5, <2>2 DEF Shadow!Terminal, ShadowRun
  <2>4. v \in Results /\ (v \in {"passed", "failed"} => proc[p].same) /\ proc[p].same \in BOOLEAN
    BY <2>2 DEF VerdictSame, Coordinator, Results
  <2>5. Follows(k, run[k])
    BY <1>1, RowFollows
  <2> HIDE DEF v
  <2>6. Follows(k, r)
    BY <2>2, <2>3, <2>4, <2>5 DEF Follows, ShadowRun
  <2> HIDE DEF r, k
  <2>7. QED
    BY <1>1, <1>2, <1>3, <2>1, <2>6, StepWithoutCall
<1>6. QED
  BY <1>4, <1>5

\* The end of an execution is confirmed by its own receipt.
LEMMA CleanupFollows ==
  ASSUME ShadowInv, NEW k \in Keys, Shadow!confirm_cleanup(k)
  PROVE  \E r : Follows(k, r) /\ run' = [run EXCEPT ![k] = r]
<1>1. run[k] \in ShadowRun /\ Follows(k, run[k])
  BY RowFollows DEF Follows
<1>2. CASE Shadow!IsTerminal(k) /\ run[k].started /\ k \in backend.cleaned
  <2> DEFINE r == [run[k] EXCEPT !.cleanup = "confirmed", !.unresolved = FALSE]
  <2>1. run' = [run EXCEPT ![k] = r]
    BY <1>2 DEF Shadow!confirm_cleanup, Shadow!Write
  <2>2. Follows(k, r)
    BY <1>1, <1>2 DEF Follows, ShadowRun, Shadow!IsTerminal
  <2>3. QED
    BY <2>1, <2>2
<1>3. CASE ~(Shadow!IsTerminal(k) /\ run[k].started /\ k \in backend.cleaned)
  <2>1. run' = [run EXCEPT ![k] = run[k]]
    BY <1>3 DEF Shadow!confirm_cleanup, ShadowInv, ShadowTypes
  <2>2. QED
    BY <1>1, <2>1
<1>4. QED
  BY <1>2, <1>3

LEMMA ReconcileStep ==
  ASSUME ShadowInv, NEW p \in Procs, Shadow!Reconcile(p)
  PROVE  ShadowInv'
<1>1. Shadow!Key(p) \in Keys
  BY KeyKnown DEF Shadow!Reconcile, ShadowInv, Shadow!At
<1>2. PICK r : Follows(Shadow!Key(p), r) /\ run' = [run EXCEPT ![Shadow!Key(p)] = r]
  BY <1>1, CleanupFollows DEF Shadow!Reconcile
<1>3. Shadow!Return(p) /\ UNCHANGED <<control, alias, backend, calls, lost>>
  BY DEF Shadow!Reconcile, Shadow!outside
<1>4. QED
  BY <1>1, <1>2, <1>3, Returned, StepWithoutCall

\* The operator and the deadline.
LEMMA OperatorStep ==
  ASSUME ShadowInv, NEW k \in Keys, Shadow!OperatorExpire(k) \/ Shadow!OperatorReconcile(k) \/ Shadow!DeadlinePasses(k)
  PROVE  ShadowInv'
<1>1. UNCHANGED <<control, alias, backend, calls, lost, proc>>
  BY DEF Shadow!OperatorExpire, Shadow!OperatorReconcile, Shadow!DeadlinePasses, Shadow!outside
<1>2. \E r : Follows(k, r) /\ run' = [run EXCEPT ![k] = r]
  <2>1. CASE Shadow!OperatorExpire(k)
    BY <2>1, Expired DEF Shadow!OperatorExpire
  <2>2. CASE Shadow!OperatorReconcile(k)
    BY <2>2, CleanupFollows DEF Shadow!OperatorReconcile
  <2>3. CASE Shadow!DeadlinePasses(k)
    <3>1. run' = [run EXCEPT ![k] = run[k]]
      BY <2>3 DEF Shadow!DeadlinePasses, ShadowInv, ShadowTypes
    <3>2. QED
      BY <3>1, RowFollows
  <2>4. QED
    BY <2>1, <2>2, <2>3
<1>3. PICK r : Follows(k, r) /\ run' = [run EXCEPT ![k] = r]
  BY <1>2
<1>4. proc' \in [Procs -> Coordinator]
  BY <1>1 DEF ShadowInv, ShadowTypes
<1>5. ASSUME NEW q \in Procs PROVE proc'[q] = proc[q]
  BY <1>1
<1>6. \A q \in Procs : proc'[q] = proc[q] \/ (q = k /\ MovesOn(k, k))
  BY <1>5
<1>7. QED
  BY <1>1, <1>3, <1>4, <1>6, StepWithoutCall

\* A step with a call, by the coordinator that owns the intent.
LEMMA StepWithCall ==
  ASSUME ShadowInv, NEW p \in Procs, NEW k \in Keys, NEW r \in ShadowRun,
         run' = [run EXCEPT ![k] = r], UNCHANGED <<control, alias>>,
         proc' \in [Procs -> Coordinator],
         \A q \in Procs : proc'[q] = proc[q] \/ (q = p /\ MovesOn(p, k)),
         calls' \in [issue : [Keys -> Nat], start : [Keys -> Nat]],
         backend' \in [issued : SUBSET Keys, started : SUBSET Keys, cleaned : SUBSET Keys],
         lost' \in SUBSET Keys, CallsMade(p, k), \A j \in Keys : j # k => SameCalls(j),
         r.payload = run[k].payload, run[k].dispatched => r.dispatched, run[k].started => r.started,
         Busy(k), Booked(k)'
  PROVE  ShadowInv'
<1>1. run \in [Keys -> ShadowRun]
  BY DEF ShadowInv, ShadowTypes
<1>2. run' \in [Keys -> ShadowRun] /\ run'[k] = r /\ \A j \in Keys : j # k => run'[j] = run[j]
  BY <1>1
<1>3. ShadowTypes'
  BY <1>2 DEF ShadowInv, ShadowTypes
<1>4. OnlyAt(p, k)
  BY <1>2 DEF OnlyAt
<1>5. OneBusy' /\ Shadow!RequestBinding'
  BY BusyKept, BindingKept
<1>6. QED
  BY <1>3, <1>4, <1>5, StepAtOne

\* The run of a coordinator before its issue call.
LEMMA BeforeIssue ==
  ASSUME ShadowInv, NEW p \in Procs, NEW k \in Keys, Works(p, "issue", k),
         run[k].lifecycle = "issuing"
  PROVE  /\ run[k] \in ShadowRun /\ Booked(k) /\ Busy(k) /\ run[k].unresolved
         /\ run[k].dispatched /\ calls.issue[k] = 0 /\ k \notin lost
         /\ ~run[k].started /\ calls.start[k] = 0 /\ k \notin backend.started
<1>1. run[k] \in ShadowRun /\ Booked(k) /\ run[k].dispatched /\ calls.issue[k] = 0
  BY DEF ShadowInv, ShadowTypes, IntentsOwned, IssueOwned
<1>2. QED
  BY <1>1 DEF Booked, CallsBooked, StageOrdered, Busy

LEMMA DispatchStep ==
  ASSUME ShadowInv, NEW p \in Procs, Shadow!dispatch_issue(p)
  PROVE  ShadowInv'
<1>1. PICK k \in Keys : k = Shadow!Key(p) /\ proc[p].key = {k} /\ Works(p, "issue", k)
  BY KeyKnown DEF Shadow!dispatch_issue, ShadowInv, Shadow!At, Works
<1> DEFINE closed == [Shadow!Terminal(k, "unknown") EXCEPT !.cleanup = "not_required", !.unresolved = FALSE]
           issued == [run[k] EXCEPT !.cleanup = "not_required", !.unresolved = FALSE, !.lifecycle = "issued"]
<1>2. UNCHANGED <<control, alias>>
  BY DEF Shadow!dispatch_issue
<1>3. CASE run[k].lifecycle # "issuing"
  <2>1. /\ run' = [run EXCEPT ![k] = run[k]] /\ Shadow!Return(p)
        /\ UNCHANGED <<backend, calls, lost>>
    BY <1>1, <1>3 DEF Shadow!dispatch_issue, ShadowInv, ShadowTypes
  <2>2. QED
    BY <1>1, <1>2, <2>1, RowFollows, Returned, StepWithoutCall
<1>4. CASE run[k].lifecycle = "issuing" /\ ~Shadow!Gate(k)
  <2>1. run' = [run EXCEPT ![k] = closed] /\ Shadow!Return(p) /\ UNCHANGED <<backend, calls, lost>>
    BY <1>1, <1>4 DEF Shadow!dispatch_issue, Shadow!Closed, Shadow!Write
  <2>2. Follows(k, Shadow!Terminal(k, "unknown")) /\ Shadow!Terminal(k, "unknown").lifecycle = "terminal"
    BY TerminalRow, UnknownFollows
  <2>3. k \notin backend.started /\ k \notin lost
    BY <1>1, <1>4, BeforeIssue
  <2>4. Follows(k, closed)
    BY <2>2, <2>3 DEF Follows, ShadowRun
  <2> HIDE DEF closed
  <2>5. QED
    BY <1>1, <1>2, <2>1, <2>4, Returned, StepWithoutCall
<1>5. CASE run[k].lifecycle = "issuing" /\ Shadow!Gate(k) /\ (Shadow!IssueAnswered(p, k) \/ Shadow!IssueUnknown(p, k) \/ Shadow!IssueDeath(p, k))
  <2>1. /\ run[k] \in ShadowRun /\ Booked(k) /\ Busy(k) /\ run[k].unresolved
        /\ run[k].dispatched /\ calls.issue[k] = 0 /\ k \notin lost
        /\ ~run[k].started /\ calls.start[k] = 0 /\ k \notin backend.started
    BY <1>1, <1>5, BeforeIssue
  <2>2. /\ calls' = [calls EXCEPT !.issue[k] = @ + 1]
        /\ backend' = [backend EXCEPT !.issued = @ \cup {k}]
    BY <1>5 DEF Shadow!IssueAnswered, Shadow!IssueUnknown, Shadow!IssueDeath, Shadow!IssueCall
  <2>3. /\ calls' \in [issue : [Keys -> Nat], start : [Keys -> Nat]]
        /\ calls'.issue[k] = 1 /\ calls'.start = calls.start
        /\ \A j \in Keys : j # k => calls'.issue[j] = calls.issue[j]
    BY <1>1, <2>1, <2>2 DEF ShadowInv, ShadowTypes
  <2>4. /\ backend' \in [issued : SUBSET Keys, started : SUBSET Keys, cleaned : SUBSET Keys]
        /\ backend'.started = backend.started /\ backend'.cleaned = backend.cleaned
    BY <1>1, <2>2 DEF ShadowInv, ShadowTypes
  <2>5. lost' \in {lost, lost \cup {k}} /\ lost' \in SUBSET Keys
    BY <1>1, <1>5 DEF Shadow!IssueAnswered, Shadow!IssueUnknown, Shadow!IssueDeath, ShadowInv, ShadowTypes
  <2>6. \A j \in Keys : j # k => SameCalls(j)
    BY <2>3, <2>4, <2>5 DEF SameCalls
  <2>7. /\ Shadow!Terminal(k, "unknown") \in ShadowRun /\ Shadow!Terminal(k, "unknown").lifecycle = "terminal"
        /\ Shadow!Terminal(k, "unknown").payload = run[k].payload /\ Shadow!Terminal(k, "unknown").dispatched
        /\ ~Shadow!Terminal(k, "unknown").started /\ Shadow!Terminal(k, "unknown").unresolved
        /\ Shadow!Terminal(k, "unknown").same = run[k].same
        /\ Shadow!Terminal(k, "unknown").result \in {run[k].result, "unknown"}
    BY <1>1, <2>1, TerminalRow
  <2>8. \E r \in ShadowRun :
           /\ run' = [run EXCEPT ![k] = r]
           /\ r.payload = run[k].payload /\ r.dispatched /\ ~r.started
           /\ r.result \in {run[k].result, "unknown"} /\ r.same = run[k].same
           /\ r.lifecycle \in {"issued", "terminal", "issuing"}
           /\ r.lifecycle = "issuing" => r.unresolved
           /\ k \in lost' => r.lifecycle \in {"issuing", "terminal"} /\ r.unresolved
    <3>1. CASE Shadow!IssueAnswered(p, k)
      <4>1. lost' = lost /\ run' \in {[run EXCEPT ![k] = issued], [run EXCEPT ![k] = closed]}
        BY <3>1 DEF Shadow!IssueAnswered, Shadow!Closed, Shadow!Write
      <4>2. /\ issued \in ShadowRun /\ issued.lifecycle = "issued" /\ issued.payload = run[k].payload
            /\ issued.dispatched /\ ~issued.started /\ issued.result = run[k].result
            /\ issued.same = run[k].same
        BY <2>1 DEF ShadowRun
      <4>3. /\ closed \in ShadowRun /\ closed.lifecycle = "terminal" /\ closed.payload = run[k].payload
            /\ closed.dispatched /\ ~closed.started /\ closed.same = run[k].same
            /\ closed.result \in {run[k].result, "unknown"}
        BY <2>7 DEF ShadowRun
      <4> HIDE DEF issued, closed
      <4>4. QED
        BY <2>1, <4>1, <4>2, <4>3
    <3>2. CASE Shadow!IssueUnknown(p, k)
      <4>1. run' = [run EXCEPT ![k] = Shadow!Terminal(k, "unknown")]
        BY <3>2 DEF Shadow!IssueUnknown, Shadow!Write
      <4>2. QED
        BY <2>7, <4>1
    <3>3. CASE Shadow!IssueDeath(p, k)
      <4>1. run' = [run EXCEPT ![k] = run[k]]
        BY <3>3 DEF Shadow!IssueDeath, ShadowInv, ShadowTypes
      <4>2. QED
        BY <1>5, <2>1, <4>1
    <3>4. QED
      BY <1>5, <3>1, <3>2, <3>3
  <2>9. /\ proc' \in [Procs -> Coordinator]
        /\ \A q \in Procs : proc'[q] = proc[q] \/ (q = p /\ MovesOn(p, k))
        /\ ~Shadow!At(p, "issue")'
    <3>1. Shadow!Return(p) \/ Shadow!Go(p, "start")
      BY <1>5 DEF Shadow!IssueAnswered, Shadow!IssueUnknown, Shadow!IssueDeath
    <3>2. CASE Shadow!Return(p)
      BY <1>1, <3>2, Returned
    <3>3. CASE Shadow!Go(p, "start")
      BY <1>1, <3>3, WentOn DEF Shadow!At
    <3>4. QED
      BY <3>1, <3>2, <3>3
  <2>10. CallsMade(p, k)
    BY <1>1, <2>3, <2>9 DEF CallsMade, Makes
  <2>11. PICK r \in ShadowRun :
           /\ run' = [run EXCEPT ![k] = r]
           /\ r.payload = run[k].payload /\ r.dispatched /\ ~r.started
           /\ r.result \in {run[k].result, "unknown"} /\ r.same = run[k].same
           /\ r.lifecycle \in {"issued", "terminal", "issuing"}
           /\ r.lifecycle = "issuing" => r.unresolved
           /\ k \in lost' => r.lifecycle \in {"issuing", "terminal"} /\ r.unresolved
    BY <2>8
  <2>12. Booked(k)'
    <3>1. run'[k] = r
      BY <1>1, <2>11 DEF ShadowInv, ShadowTypes
    <3>2. CallsBooked(k)'
      BY <2>1, <2>3, <2>4, <2>5, <2>11, <3>1 DEF CallsBooked, Booked
    <3>3. StageOrdered(k)'
      BY <2>1, <2>4, <2>11, <3>1 DEF StageOrdered, Booked
    <3>4. QED
      BY <3>2, <3>3 DEF Booked
  <2>13. QED
    BY <1>1, <1>2, <2>1, <2>3, <2>4, <2>5, <2>6, <2>9, <2>10, <2>11, <2>12, StepWithCall
<1>6. QED
  BY <1>1, <1>3, <1>4, <1>5 DEF Shadow!dispatch_issue

\* The run of a coordinator before its start call.
LEMMA BeforeStart ==
  ASSUME ShadowInv, NEW p \in Procs, NEW k \in Keys, Works(p, "starting", k)
  PROVE  /\ run[k] \in ShadowRun /\ Booked(k) /\ run[k].started
         /\ calls.start[k] = 0 /\ k \notin backend.started /\ k \notin lost
<1>1. run[k] \in ShadowRun /\ Booked(k) /\ run[k].started /\ calls.start[k] = 0
  BY DEF ShadowInv, ShadowTypes, IntentsOwned, StartOwned
<1>2. QED
  BY <1>1 DEF Booked, CallsBooked, StageOrdered

LEMMA StartStep ==
  ASSUME ShadowInv, NEW p \in Procs, Shadow!start(p)
  PROVE  ShadowInv'
<1>1. PICK k \in Keys : k = Shadow!Key(p) /\ proc[p].key = {k} /\ Works(p, "starting", k)
  BY KeyKnown DEF Shadow!start, ShadowInv, Shadow!At, Works
<1> DEFINE closed == [Shadow!Terminal(k, "unknown") EXCEPT !.cleanup = "not_required", !.unresolved = FALSE]
           left == [Shadow!Terminal(k, "unknown") EXCEPT !.cleanup = "quarantined"]
<1>2. UNCHANGED <<control, alias, lost>>
  BY DEF Shadow!start
<1>3. /\ run[k] \in ShadowRun /\ Booked(k) /\ run[k].started
      /\ calls.start[k] = 0 /\ k \notin backend.started /\ k \notin lost
  BY <1>1, BeforeStart
<1>4. Follows(k, Shadow!Terminal(k, "unknown")) /\ Shadow!Terminal(k, "unknown").lifecycle = "terminal"
  BY TerminalRow, UnknownFollows
<1>5. CASE ~Shadow!MayStart(k) /\ Shadow!Closed(k) /\ Shadow!Return(p) /\ UNCHANGED <<backend, calls>>
  <2>1. run' = [run EXCEPT ![k] = closed]
    BY <1>5 DEF Shadow!Closed, Shadow!Write
  <2>2. Follows(k, closed)
    BY <1>3, <1>4 DEF Follows, ShadowRun
  <2> HIDE DEF closed
  <2>3. QED
    BY <1>1, <1>2, <1>5, <2>1, <2>2, Returned, StepWithoutCall
<1>6. CASE /\ Shadow!MayStart(k) /\ Shadow!StartCall(k)
           /\ Shadow!Return(p) \/ Shadow!Go(p, "observe")
           /\ UNCHANGED run \/ Shadow!Write(k, left)
  <2>1. run[k].lifecycle = "running" /\ run[k].unresolved /\ Busy(k)
    <3>1. ~Shadow!IsTerminal(k)
      BY <1>6 DEF Shadow!MayStart, Shadow!Gate
    <3>2. QED
      BY <1>3, <3>1 DEF Booked, StageOrdered, Busy, Shadow!IsTerminal, ShadowRun
  <2>2. /\ calls' = [calls EXCEPT !.start[k] = @ + 1]
        /\ backend' = [backend EXCEPT !.started = @ \cup {k}]
    BY <1>6 DEF Shadow!StartCall
  <2>3. /\ calls' \in [issue : [Keys -> Nat], start : [Keys -> Nat]]
        /\ calls'.start[k] = 1 /\ calls'.issue = calls.issue
        /\ \A j \in Keys : j # k => calls'.start[j] = calls.start[j]
    BY <1>3, <2>2 DEF ShadowInv, ShadowTypes
  <2>4. /\ backend' \in [issued : SUBSET Keys, started : SUBSET Keys, cleaned : SUBSET Keys]
        /\ backend'.started = backend.started \cup {k} /\ backend'.cleaned = backend.cleaned
    BY <2>2 DEF ShadowInv, ShadowTypes
  <2>5. lost' = lost /\ lost' \in SUBSET Keys
    BY <1>2 DEF ShadowInv, ShadowTypes
  <2>6. \A j \in Keys : j # k => SameCalls(j)
    BY <2>3, <2>4, <2>5 DEF SameCalls
  <2>7. PICK r \in ShadowRun :
           /\ run' = [run EXCEPT ![k] = r]
           /\ r.payload = run[k].payload /\ r.started /\ r.unresolved
           /\ run[k].dispatched => r.dispatched
           /\ r.result \in {run[k].result, "unknown"} /\ r.same = run[k].same
           /\ r.lifecycle \in {"running", "terminal"}
    <3>1. CASE UNCHANGED run
      <4>1. run' = [run EXCEPT ![k] = run[k]]
        BY <3>1 DEF ShadowInv, ShadowTypes
      <4>2. QED
        BY <1>3, <2>1, <4>1
    <3>2. CASE Shadow!Write(k, left)
      <4>1. /\ left \in ShadowRun /\ left.lifecycle = "terminal" /\ left.payload = run[k].payload
            /\ left.started /\ left.unresolved /\ left.dispatched = run[k].dispatched
            /\ left.same = run[k].same /\ left.result \in {run[k].result, "unknown"}
        BY <1>3, <2>1, TerminalRow DEF ShadowRun
      <4>2. run' = [run EXCEPT ![k] = left]
        BY <3>2 DEF Shadow!Write
      <4> HIDE DEF left
      <4>3. QED
        BY <4>1, <4>2
    <3>3. QED
      BY <1>6, <3>1, <3>2
  <2>8. /\ proc' \in [Procs -> Coordinator]
        /\ \A q \in Procs : proc'[q] = proc[q] \/ (q = p /\ MovesOn(p, k))
        /\ ~Shadow!At(p, "starting")'
    <3>1. CASE Shadow!Return(p)
      BY <3>1, Returned
    <3>2. CASE Shadow!Go(p, "observe")
      BY <1>1, <3>2, WentOn DEF Shadow!At
    <3>3. QED
      BY <1>6, <3>1, <3>2
  <2>9. CallsMade(p, k)
    BY <1>1, <2>3, <2>8 DEF CallsMade, Makes
  <2>10. Booked(k)'
    <3>1. run'[k] = r
      BY <2>7 DEF ShadowInv, ShadowTypes
    <3>2. CallsBooked(k)'
      BY <1>3, <2>3, <2>4, <2>5, <2>7, <3>1 DEF CallsBooked, Booked
    <3>3. StageOrdered(k)'
      BY <1>3, <2>4, <2>5, <2>7, <3>1 DEF StageOrdered, Booked
    <3>4. QED
      BY <3>2, <3>3 DEF Booked
  <2>11. QED
    BY <1>2, <2>1, <2>3, <2>4, <2>5, <2>6, <2>7, <2>8, <2>9, <2>10, StepWithCall
<1>7. QED
  BY <1>1, <1>5, <1>6 DEF Shadow!start

\* The requests: a run is reserved when nothing of another one is left.
LEMMA ReserveStep ==
  ASSUME ShadowInv, NEW p \in Procs, NEW q \in Requests, NEW k \in Keys, NEW f \in Payloads,
         Shadow!reserve(p, q, k, f)
  PROVE  ShadowInv'
<1>1. /\ Shadow!At(p, "idle") /\ UNCHANGED <<control, backend, calls, lost>>
      /\ \E pc \in {"expire", "claim"} : proc' = [proc EXCEPT ![p].pc = pc, ![p].key = {k}]
  BY DEF Shadow!reserve
<1>2. /\ proc' \in [Procs -> Coordinator]
      /\ proc'[p].pc \in {"expire", "claim"} /\ proc'[p].key = {k}
      /\ \A r \in Procs : r # p => proc'[r] = proc[r]
  <2>1. PICK pc \in {"expire", "claim"} : proc' = [proc EXCEPT ![p].pc = pc, ![p].key = {k}]
    BY <1>1
  <2>2. proc \in [Procs -> Coordinator]
    BY DEF ShadowInv, ShadowTypes
  <2>3. [proc[p] EXCEPT !.pc = pc, !.key = {k}] \in Coordinator
    BY <2>2 DEF Coordinator
  <2>4. proc' = [proc EXCEPT ![p] = [proc[p] EXCEPT !.pc = pc, !.key = {k}]]
    BY <2>1, <2>2
  <2>5. QED
    BY <2>2, <2>3, <2>4 DEF Coordinator
<1>3. MovesOn(p, k)
  BY <1>2 DEF MovesOn, Shadow!At, VerdictSame
<1>4. /\ run[k] \in ShadowRun /\ run \in [Keys -> ShadowRun] /\ Booked(k)
      /\ alias \in [Requests -> SUBSET (Keys \X Payloads)]
  BY DEF ShadowInv, ShadowTypes
<1>5. \A j \in Keys : SameCalls(j)
  BY <1>1 DEF SameCalls
<1>6. alias' \in [Requests -> SUBSET (Keys \X Payloads)]
  BY <1>4 DEF Shadow!reserve
<1>7. CASE UNCHANGED run /\ (UNCHANGED alias \/ (alias' = [alias EXCEPT ![q] = {<<k, f>>}] /\ Shadow!SamePayload(k, f)))
  <2>1. ShadowTypes'
    BY <1>1, <1>2, <1>6, <1>7 DEF ShadowInv, ShadowTypes
  <2>2. OnlyAt(p, k)
    BY <1>1, <1>2, <1>3, <1>5, <1>7 DEF OnlyAt, CallsMade
  <2>3. Booked(k)' /\ OneBusy'
    BY <1>1, <1>4, <1>7 DEF ShadowInv, Booked, CallsBooked, StageOrdered, OneBusy, Busy
  <2>4. Shadow!RequestBinding'
    BY <1>4, <1>7 DEF ShadowInv, Shadow!RequestBinding, Shadow!SamePayload
  <2>5. QED
    BY <2>1, <2>2, <2>3, <2>4, StepAtOne
<1>8. CASE /\ run[k] = Shadow!NoRun /\ Shadow!Circuit /\ Shadow!Active = {} /\ alias' = [alias EXCEPT ![q] = {<<k, f>>}]
           /\ Shadow!Write(k, [Shadow!NoRun EXCEPT !.lifecycle = "reserved", !.payload = {f}, !.epoch = control.epoch])
  <2> DEFINE r == [Shadow!NoRun EXCEPT !.lifecycle = "reserved", !.payload = {f}, !.epoch = control.epoch]
  <2>1. /\ r \in ShadowRun /\ r.lifecycle = "reserved" /\ r.payload = {f} /\ ~r.dispatched /\ ~r.started
        /\ r.result = "none" /\ ~r.unresolved
    BY DEF Shadow!NoRun, ShadowRun, Results, ShadowInv, ShadowTypes
  <2>2. run' = [run EXCEPT ![k] = r]
    BY <1>8 DEF Shadow!Write
  <2> HIDE DEF r
  <2>3. run' \in [Keys -> ShadowRun] /\ run'[k] = r /\ \A j \in Keys : j # k => run'[j] = run[j]
    BY <1>4, <2>1, <2>2
  <2>4. ShadowTypes'
    BY <1>1, <1>2, <1>6, <2>3 DEF ShadowInv, ShadowTypes
  <2>5. ~run[k].dispatched /\ ~run[k].started /\ ~run[k].unresolved /\ run[k].payload = {}
    BY <1>8 DEF Shadow!NoRun
  <2>6. OnlyAt(p, k)
    BY <1>1, <1>2, <1>3, <1>5, <2>3, <2>5 DEF OnlyAt, CallsMade
  <2>7. Booked(k)'
    <3>1. CallsBooked(k)'
      BY <1>1, <1>4, <2>1, <2>3, <2>5 DEF CallsBooked, Booked
    <3>2. StageOrdered(k)'
      BY <1>1, <1>4, <2>1, <2>3, <2>5 DEF StageOrdered, Booked
    <3>3. QED
      BY <3>1, <3>2 DEF Booked
  <2>8. OneBusy'
    <3>1. \A j \in Keys : ~Busy(j)
      BY <1>8 DEF Shadow!Circuit, Shadow!Active, Busy
    <3>2. \A j \in Keys : j # k => ~Busy(j)'
      BY <2>3, <3>1 DEF Busy
    <3>3. QED
      BY <3>2 DEF OneBusy
  <2>9. Shadow!RequestBinding'
    <3>1. \A u \in Requests, g \in Payloads : <<k, g>> \notin alias[u]
      BY <2>5 DEF ShadowInv, Shadow!RequestBinding
    <3>2. QED
      BY <1>4, <1>8, <2>1, <2>3, <3>1 DEF ShadowInv, Shadow!RequestBinding
  <2>10. QED
    BY <2>4, <2>6, <2>7, <2>8, <2>9, StepAtOne
<1>9. QED
  BY <1>7, <1>8 DEF Shadow!reserve

\* What changes no run: the kill switch, the executions that end, a death, and
\* the retry of a dispatch.
LEMMA QuietStep ==
  ASSUME ShadowInv,
         \/ \E enabled \in BOOLEAN : Shadow!set_enabled(enabled)
         \/ \E k \in Keys : Shadow!BackendCleans(k)
         \/ UNCHANGED Shadow!vars
  PROVE  ShadowInv'
<1>1. UNCHANGED <<run, alias, proc, calls, lost>>
  BY DEF Shadow!set_enabled, Shadow!BackendCleans, Shadow!outside, Shadow!vars
<1>2. ShadowTypes'
  BY <1>1 DEF ShadowInv, ShadowTypes, Shadow!set_enabled, Shadow!BackendCleans, Shadow!outside, Shadow!vars
<1>3. backend'.started = backend.started /\ backend.cleaned \subseteq backend'.cleaned
  BY DEF ShadowInv, ShadowTypes, Shadow!set_enabled, Shadow!BackendCleans, Shadow!outside, Shadow!vars
<1>4. \A k \in Keys : Booked(k)'
  BY <1>1, <1>3 DEF ShadowInv, Booked, CallsBooked, StageOrdered
<1>5. KeyHeld' /\ (\A p \in Procs : VerdictSame(p)') /\ OneBusy' /\ Shadow!RequestBinding'
  BY <1>1 DEF ShadowInv, KeyHeld, VerdictSame, Shadow!At, OneBusy, Busy, Shadow!RequestBinding
<1>6. IntentsOwned'
  BY <1>1 DEF ShadowInv, IntentsOwned, IssueOwned, StartOwned, Works, Shadow!At
<1>7. QED
  BY <1>2, <1>4, <1>5, <1>6 DEF ShadowInv

LEMMA DieOrRetry ==
  ASSUME ShadowInv, NEW p \in Procs, Shadow!Die(p) \/ \E k \in Keys : Shadow!Retry(p, k)
  PROVE  ShadowInv'
<1>1. CASE Shadow!Die(p)
  <2>1. PICK k \in Keys : proc[p].key = {k}
    BY <1>1 DEF Shadow!Die, ShadowInv, KeyHeld
  <2>2. Shadow!Return(p) /\ UNCHANGED <<control, run, alias, backend, calls, lost>>
    BY <1>1 DEF Shadow!Die
  <2>3. run' = [run EXCEPT ![k] = run[k]]
    BY <2>2 DEF ShadowInv, ShadowTypes
  <2>4. QED
    BY <2>2, <2>3, RowFollows, Returned, StepWithoutCall
<1>2. CASE \E k \in Keys : Shadow!Retry(p, k)
  <2>1. PICK k \in Keys : Shadow!Retry(p, k)
    BY <1>2
  <2>2. /\ proc' = [proc EXCEPT ![p].pc = "dispatch", ![p].key = {k}]
        /\ UNCHANGED <<control, run, alias, backend, calls, lost>>
    BY <2>1 DEF Shadow!Retry, Shadow!outside
  <2>3. /\ proc' \in [Procs -> Coordinator] /\ proc'[p].pc = "dispatch" /\ proc'[p].key = {k}
        /\ \A q \in Procs : q # p => proc'[q] = proc[q]
    <3>1. proc \in [Procs -> Coordinator]
      BY DEF ShadowInv, ShadowTypes
    <3>2. [proc[p] EXCEPT !.pc = "dispatch", !.key = {k}] \in Coordinator
      BY <3>1 DEF Coordinator
    <3>3. proc' = [proc EXCEPT ![p] = [proc[p] EXCEPT !.pc = "dispatch", !.key = {k}]]
      BY <2>2, <3>1
    <3>4. QED
      BY <3>1, <3>2, <3>3 DEF Coordinator
  <2>4. MovesOn(p, k)
    BY <2>3 DEF MovesOn, Shadow!At, VerdictSame
  <2>5. run' = [run EXCEPT ![k] = run[k]]
    BY <2>2 DEF ShadowInv, ShadowTypes
  <2>6. QED
    BY <2>2, <2>3, <2>4, <2>5, RowFollows, StepWithoutCall
<1>3. QED
  BY <1>1, <1>2

LEMMA ShadowInductive == ShadowInv /\ [Shadow!Next]_(Shadow!vars) => ShadowInv'
<1> SUFFICES ASSUME ShadowInv, [Shadow!Next]_(Shadow!vars) PROVE ShadowInv'
  OBVIOUS
<1>1. ASSUME NEW p \in Procs, Shadow!Submit(p) PROVE ShadowInv'
  <2>1. CASE \E q \in Requests, k \in Keys, f \in Payloads : Shadow!reserve(p, q, k, f)
    BY <2>1, ReserveStep
  <2>2. CASE Shadow!claim_issue(p) \/ Shadow!DispatchIntent(p) \/ Shadow!dispatch_issue(p)
    BY <2>2, ClaimStep, DispatchIntentStep, DispatchStep
  <2>3. CASE Shadow!StartIntent(p) \/ Shadow!start(p)
    BY <2>3, StartIntentStep, StartStep
  <2>4. CASE Shadow!Expire(p) \/ Shadow!Observe(p) \/ Shadow!finish(p) \/ Shadow!Reconcile(p)
    BY <2>4, ExpireStep, ObserveStep, FinishStep, ReconcileStep
  <2>5. QED
    BY <1>1, <2>1, <2>2, <2>3, <2>4 DEF Shadow!Submit
<1>2. QED
  BY <1>1, DieOrRetry, OperatorStep, QuietStep DEF Shadow!Next

LEMMA ShadowInit == Shadow!Init => ShadowInv
<1> SUFFICES ASSUME Shadow!Init PROVE ShadowInv
  OBVIOUS
<1>1. Shadow!NoRun \in ShadowRun /\ Shadow!Idle \in Coordinator
  BY DEF Shadow!NoRun, Shadow!Idle, ShadowRun, Coordinator, Results
<1>2. ShadowTypes
  BY <1>1 DEF Shadow!Init, ShadowTypes
<1>3. \A k \in Keys : run[k] = Shadow!NoRun /\ ~Busy(k)
  BY DEF Shadow!Init, Busy, Shadow!NoRun
<1>4. \A k \in Keys : Booked(k)
  BY <1>3 DEF Shadow!Init, Booked, CallsBooked, StageOrdered, Shadow!NoRun
<1>5. \A p \in Procs, pc \in {"issue", "starting", "finish"} : Shadow!At(p, "idle") /\ ~Shadow!At(p, pc)
  BY DEF Shadow!Init, Shadow!At, Shadow!Idle
<1>6. KeyHeld /\ IntentsOwned /\ \A p \in Procs : VerdictSame(p)
  BY <1>5 DEF KeyHeld, IntentsOwned, IssueOwned, StartOwned, Works, VerdictSame
<1>7. Shadow!RequestBinding
  BY DEF Shadow!Init, Shadow!RequestBinding
<1>8. QED
  BY <1>2, <1>3, <1>4, <1>6, <1>7 DEF ShadowInv, OneBusy

LEMMA ShadowPromises == ShadowInv => Shadow!ShadowKept
<1> SUFFICES ASSUME ShadowInv PROVE Shadow!ShadowKept
  OBVIOUS
<1>1. Shadow!AtMostOnce
  BY DEF ShadowInv, Booked, CallsBooked, Shadow!AtMostOnce
<1>2. Shadow!NothingForgotten
  BY DEF ShadowInv, Booked, StageOrdered, Shadow!NothingForgotten
<1>3. Shadow!OneExecution
  <2> DEFINE left == backend.started \ backend.cleaned
  <2>0. \A S : Shadow!Cardinality(S) = Cardinality(S)
    BY DEF Cardinality, Shadow!Cardinality
  <2>1. \A k \in left : k \in Keys /\ Busy(k)
    BY DEF ShadowInv, ShadowTypes, Booked, StageOrdered, Busy
  <2>2. CASE left = {}
    BY <2>0, <2>2, FS_EmptySet DEF Shadow!OneExecution
  <2>3. CASE left # {}
    <3>1. PICK k : k \in left
      BY <2>3
    <3>2. left = {k}
      BY <2>1, <3>1 DEF ShadowInv, OneBusy
    <3>3. Cardinality(left) = 1
      BY <3>2, FS_Singleton
    <3>4. Shadow!Cardinality(left) <= 1
      BY <2>0, <3>3
    <3>5. QED
      BY <3>4 DEF Shadow!OneExecution
  <2>4. QED
    BY <2>2, <2>3
<1>4. QED
  BY <1>1, <1>2, <1>3 DEF ShadowInv, Shadow!ShadowKept

LEMMA ShadowInvariant == Shadow!Spec => []ShadowInv
BY ShadowInit, ShadowInductive, PTL DEF Shadow!Spec

(* For any number of keys, requests and coordinators, whatever deaths,      *)
(* retries and lost answers: no execution is issued or started twice, no    *)
(* start and no lost issue is forgotten, there is one execution at a time,  *)
(* and a request gets the run of its own payload.                           *)
THEOREM ShadowSafe == Shadow!Spec => []Shadow!ShadowKept
BY ShadowInvariant, ShadowPromises, PTL

-----------------------------------------------------------------------------
(* What a kill, a deadline and a report stop.                              *)

\* A run in its terminal state keeps what its report compares; a verdict is
\* given and a start is made only while the gate is open.
Reported(j) ==
  /\ Shadow!IsTerminal(j) => /\ run'[j].result = run[j].result
                      /\ run'[j].started = run[j].started
                      /\ run'[j].observed = run[j].observed
  /\ run'[j].result \in {"passed", "failed"} \ {run[j].result} => Shadow!Open(j)
  /\ calls'.start[j] # calls.start[j] => Shadow!Open(j)

LEMMA RowReported ==
  ASSUME ShadowInv, NEW k \in Keys, NEW r, run' = [run EXCEPT ![k] = r],
         Shadow!IsTerminal(k) => /\ r.result = run[k].result /\ r.started = run[k].started
                          /\ r.observed = run[k].observed,
         r.result \in {"passed", "failed"} \ {run[k].result} => Shadow!Open(k),
         \A j \in Keys : calls'.start[j] # calls.start[j] => Shadow!Open(j)
  PROVE  \A j \in Keys : Reported(j)
<1>1. \A j \in Keys : run'[j] = IF j = k THEN r ELSE run[j]
  BY DEF ShadowInv, ShadowTypes
<1>2. QED
  BY <1>1 DEF Reported

\* A run that ends unknown, with whatever cleanup.
LEMMA EndedUnknown ==
  ASSUME ShadowInv, NEW k \in Keys, NEW c \in {"not_required", "quarantined"},
         \/ Shadow!Write(k, Shadow!Terminal(k, "unknown"))
         \/ Shadow!Closed(k)
         \/ Shadow!Write(k, [Shadow!Terminal(k, "unknown") EXCEPT !.cleanup = c]),
         \A j \in Keys : calls'.start[j] # calls.start[j] => Shadow!Open(j)
  PROVE  \A j \in Keys : Reported(j)
<1> DEFINE t == Shadow!Terminal(k, "unknown")
<1>1. /\ t \in ShadowRun /\ t.started = run[k].started
      /\ t.result = IF Shadow!IsTerminal(k) THEN run[k].result ELSE "unknown"
  BY TerminalRow
<1>2. Shadow!IsTerminal(k) => t = run[k]
  BY DEF Shadow!Terminal
<1>3. PICK r : /\ run' = [run EXCEPT ![k] = r]
               /\ r.result = t.result /\ r.started = t.started /\ r.observed = t.observed
  <2> DEFINE Kept(r) == /\ run' = [run EXCEPT ![k] = r]
                        /\ r.result = t.result /\ r.started = t.started /\ r.observed = t.observed
             closed == [t EXCEPT !.cleanup = "not_required", !.unresolved = FALSE]
             quarantined == [t EXCEPT !.cleanup = c]
  <2>1. CASE Shadow!Write(k, t)
    BY <2>1 DEF Shadow!Write
  <2>2. CASE Shadow!Closed(k)
    <3>1. Kept(closed)
      BY <1>1, <2>2 DEF Shadow!Write, Shadow!Closed, ShadowRun
    <3>2. QED
      BY <3>1
  <2>3. CASE Shadow!Write(k, quarantined)
    <3>1. Kept(quarantined)
      BY <1>1, <2>3 DEF Shadow!Write, ShadowRun
    <3>2. QED
      BY <3>1
  <2>4. QED
    BY <2>1, <2>2, <2>3
<1>4. QED
  <2>1. Shadow!IsTerminal(k) => /\ r.result = run[k].result /\ r.started = run[k].started
                         /\ r.observed = run[k].observed
    BY <1>2, <1>3
  <2>2. r.result \in {"passed", "failed"} \ {run[k].result} => Shadow!Open(k)
    BY <1>1, <1>3
  <2> HIDE DEF t
  <2>3. QED
    BY <1>3, <2>1, <2>2, RowReported

LEMMA StepReported ==
  ASSUME ShadowInv, Shadow!Next
  PROVE  \A j \in Keys : Reported(j)
<1>1. ASSUME UNCHANGED run, \A j \in Keys : calls'.start[j] # calls.start[j] => Shadow!Open(j)
      PROVE  \A j \in Keys : Reported(j)
  BY <1>1 DEF Reported
<1>2. ASSUME NEW k \in Keys, Shadow!expire(k), UNCHANGED calls
      PROVE  \A j \in Keys : Reported(j)
  BY <1>1, <1>2, EndedUnknown DEF Shadow!expire
<1>3. ASSUME NEW k \in Keys, Shadow!confirm_cleanup(k), UNCHANGED calls
      PROVE  \A j \in Keys : Reported(j)
  <2>1. CASE UNCHANGED run
    BY <1>1, <1>3, <2>1
  <2>2. CASE run' = [run EXCEPT ![k] = [run[k] EXCEPT !.cleanup = "confirmed", !.unresolved = FALSE]]
    <3>1. run[k] \in ShadowRun
      BY DEF ShadowInv, ShadowTypes
    <3> DEFINE r == [run[k] EXCEPT !.cleanup = "confirmed", !.unresolved = FALSE]
    <3>2. /\ run' = [run EXCEPT ![k] = r] /\ r.result = run[k].result
          /\ r.started = run[k].started /\ r.observed = run[k].observed
      BY <2>2, <3>1 DEF ShadowRun
    <3> HIDE DEF r
    <3>3. QED
      BY <1>3, <3>2, RowReported
  <2>3. QED
    BY <1>3, <2>1, <2>2 DEF Shadow!confirm_cleanup, Shadow!Write
<1>4. ASSUME NEW p \in Procs, Shadow!Submit(p) PROVE \A j \in Keys : Reported(j)
  <2>1. ASSUME NEW q \in Requests, NEW k \in Keys, NEW f \in Payloads, Shadow!reserve(p, q, k, f)
        PROVE  \A j \in Keys : Reported(j)
    <3>1. UNCHANGED calls
      BY <2>1 DEF Shadow!reserve
    <3>2. CASE UNCHANGED run
      BY <1>1, <3>1, <3>2
    <3>3. CASE ~UNCHANGED run
      <4>1. PICK r : /\ run[k] = Shadow!NoRun /\ run' = [run EXCEPT ![k] = r]
                     /\ r.result = "none"
        <5> DEFINE r == [Shadow!NoRun EXCEPT !.lifecycle = "reserved", !.payload = {f},
                                      !.epoch = control.epoch]
        <5>1. run[k] = Shadow!NoRun /\ run' = [run EXCEPT ![k] = r]
          BY <2>1, <3>3 DEF Shadow!reserve, Shadow!Write
        <5>2. r.result = "none"
          BY DEF Shadow!NoRun
        <5>3. QED
          BY <5>1, <5>2
      <4>2. ~Shadow!IsTerminal(k)
        BY <4>1 DEF Shadow!IsTerminal, Shadow!NoRun
      <4>3. QED
        BY <3>1, <4>1, <4>2, RowReported
    <3>4. QED
      BY <3>2, <3>3
  <2>2. CASE ~\E q \in Requests, k \in Keys, f \in Payloads : Shadow!reserve(p, q, k, f)
    <3> DEFINE k == Shadow!Key(p)
    <3>1. k \in Keys
      BY <1>4, <2>2, KeyKnown
         DEF Shadow!Submit, Shadow!Expire, Shadow!claim_issue, Shadow!DispatchIntent, Shadow!dispatch_issue, Shadow!StartIntent, Shadow!start,
             Shadow!Observe, Shadow!finish, Shadow!Reconcile, ShadowInv, Shadow!At
    <3>2. run[k] \in ShadowRun
      BY <3>1 DEF ShadowInv, ShadowTypes
    <3>3. CASE Shadow!Expire(p)
      BY <1>2, <3>1, <3>3 DEF Shadow!Expire
    <3>4. CASE Shadow!claim_issue(p)
      <4>1. UNCHANGED calls
        BY <3>4 DEF Shadow!claim_issue
      <4>2. CASE Shadow!Gate(k) /\ run[k].lifecycle = "reserved"
        <5> DEFINE r == [run[k] EXCEPT !.lifecycle = "issuing", !.cleanup = "quarantined",
                                !.unresolved = TRUE]
        <5>1. run' = [run EXCEPT ![k] = r] /\ r.result = run[k].result
          BY <3>2, <3>4, <4>2 DEF Shadow!claim_issue, Shadow!Write, ShadowRun
        <5> HIDE DEF r
        <5>2. QED
          BY <3>1, <4>1, <4>2, <5>1, RowReported DEF Shadow!Gate
      <4>3. CASE ~(Shadow!Gate(k) /\ run[k].lifecycle = "reserved")
        BY <1>2, <3>1, <3>4, <4>1, <4>3 DEF Shadow!claim_issue
      <4>4. QED
        BY <4>2, <4>3
    <3>5. CASE Shadow!DispatchIntent(p)
      <4>1. UNCHANGED calls
        BY <3>5 DEF Shadow!DispatchIntent
      <4>2. CASE Shadow!MayDispatch(k)
        <5>1. PICK r : run' = [run EXCEPT ![k] = r] /\ r.result = run[k].result
          BY <3>2, <3>5, <4>2 DEF Shadow!DispatchIntent, Shadow!Write, ShadowRun
        <5>2. QED
          BY <3>1, <4>1, <4>2, <5>1, RowReported DEF Shadow!MayDispatch, Shadow!IsTerminal
      <4>3. CASE ~Shadow!MayDispatch(k)
        BY <1>1, <3>5, <4>1, <4>3 DEF Shadow!DispatchIntent
      <4>4. QED
        BY <4>2, <4>3
    <3>6. CASE Shadow!dispatch_issue(p)
      <4>1. \A j \in Keys : calls'.start[j] = calls.start[j]
        BY <3>6 DEF Shadow!dispatch_issue, Shadow!IssueAnswered, Shadow!IssueUnknown, Shadow!IssueDeath, Shadow!IssueCall,
                    ShadowInv, ShadowTypes
      <4>2. CASE UNCHANGED run
        BY <1>1, <4>1, <4>2
      <4>3. CASE Shadow!Closed(k) \/ Shadow!Write(k, Shadow!Terminal(k, "unknown"))
        BY <3>1, <4>1, <4>3, EndedUnknown
      <4>4. CASE /\ ~Shadow!IsTerminal(k)
                 /\ Shadow!Write(k, [run[k] EXCEPT !.cleanup = "not_required",
                                !.unresolved = FALSE, !.lifecycle = "issued"])
        <5> DEFINE r == [run[k] EXCEPT !.cleanup = "not_required", !.unresolved = FALSE,
                                !.lifecycle = "issued"]
        <5>1. run' = [run EXCEPT ![k] = r] /\ r.result = run[k].result
          BY <3>2, <4>4 DEF Shadow!Write, ShadowRun
        <5> HIDE DEF r
        <5>2. QED
          BY <3>1, <4>1, <4>4, <5>1, RowReported
      <4>5. QED
        BY <3>6, <4>2, <4>3, <4>4
           DEF Shadow!dispatch_issue, Shadow!IssueAnswered, Shadow!IssueUnknown, Shadow!IssueDeath, Shadow!IsTerminal
    <3>7. CASE Shadow!StartIntent(p)
      <4>1. UNCHANGED calls
        BY <3>7 DEF Shadow!StartIntent
      <4>2. CASE Shadow!Gate(k) /\ run[k].lifecycle = "issued"
        <5> DEFINE r == [run[k] EXCEPT !.lifecycle = "running", !.started = TRUE,
                                !.cleanup = "pending", !.unresolved = TRUE]
        <5>1. run' = [run EXCEPT ![k] = r] /\ r.result = run[k].result
          BY <3>2, <3>7, <4>2 DEF Shadow!StartIntent, Shadow!Write, ShadowRun
        <5> HIDE DEF r
        <5>2. QED
          BY <3>1, <4>1, <4>2, <5>1, RowReported DEF Shadow!Gate
      <4>3. CASE ~(Shadow!Gate(k) /\ run[k].lifecycle = "issued")
        BY <1>2, <3>1, <3>7, <4>1, <4>3 DEF Shadow!StartIntent
      <4>4. QED
        BY <4>2, <4>3
    <3>8. CASE Shadow!start(p)
      <4>1. \A j \in Keys : calls'.start[j] # calls.start[j] => Shadow!Open(j)
        <5>1. CASE UNCHANGED calls
          BY <5>1
        <5>2. CASE Shadow!Gate(k) /\ Shadow!StartCall(k)
          BY <5>2 DEF Shadow!StartCall, Shadow!Gate, ShadowInv, ShadowTypes
        <5>3. QED
          BY <3>8, <5>1, <5>2 DEF Shadow!start, Shadow!MayStart
      <4>2. CASE UNCHANGED run
        BY <1>1, <4>1, <4>2
      <4>3. CASE Shadow!Closed(k) \/ Shadow!Write(k, [Shadow!Terminal(k, "unknown") EXCEPT !.cleanup = "quarantined"])
        BY <3>1, <4>1, <4>3, EndedUnknown
      <4>4. QED
        BY <3>8, <4>2, <4>3 DEF Shadow!start
    <3>9. CASE Shadow!Observe(p)
      BY <1>1, <3>9 DEF Shadow!Observe
    <3>10. CASE Shadow!finish(p)
      <4>1. UNCHANGED calls
        BY <3>10 DEF Shadow!finish
      <4>2. CASE Shadow!IsTerminal(k)
        BY <1>1, <3>10, <4>1, <4>2 DEF Shadow!finish
      <4>3. CASE ~Shadow!IsTerminal(k)
        <5> DEFINE v == IF Shadow!Gate(k) THEN proc[p].result ELSE "unknown"
        <5>1. run' = [run EXCEPT ![k] = [Shadow!Terminal(k, v) EXCEPT !.observed = TRUE, !.same = proc[p].same]]
          BY <3>10, <4>3 DEF Shadow!finish, Shadow!Write
        <5>2. Shadow!Terminal(k, v) = [run[k] EXCEPT !.lifecycle = "terminal", !.result = v]
          BY <4>3 DEF Shadow!Terminal
        <5> HIDE DEF v
        <5> DEFINE r == [Shadow!Terminal(k, v) EXCEPT !.observed = TRUE, !.same = proc[p].same]
        <5>3. run' = [run EXCEPT ![k] = r] /\ r.result = v
          BY <3>2, <5>1, <5>2 DEF ShadowRun
        <5> HIDE DEF r
        <5>4. v \in {"passed", "failed"} => Shadow!Open(k)
          BY DEF v, Shadow!Gate
        <5>5. QED
          BY <3>1, <4>1, <4>3, <5>3, <5>4, RowReported
      <4>4. QED
        BY <4>2, <4>3
    <3>11. CASE Shadow!Reconcile(p)
      BY <1>3, <3>1, <3>11 DEF Shadow!Reconcile
    <3>12. QED
      BY <1>4, <2>2, <3>3, <3>4, <3>5, <3>6, <3>7, <3>8, <3>9, <3>10, <3>11 DEF Shadow!Submit
  <2>3. QED
    BY <2>1, <2>2
<1>5. ASSUME NEW k \in Keys, Shadow!OperatorExpire(k) \/ Shadow!OperatorReconcile(k)
      PROVE  \A j \in Keys : Reported(j)
  BY <1>2, <1>3, <1>5 DEF Shadow!OperatorExpire, Shadow!OperatorReconcile
<1>6. ASSUME \/ \E enabled \in BOOLEAN : Shadow!set_enabled(enabled)
             \/ \E k \in Keys : Shadow!DeadlinePasses(k) \/ Shadow!BackendCleans(k)
             \/ \E p \in Procs : Shadow!Die(p) \/ \E k \in Keys : Shadow!Retry(p, k)
      PROVE  \A j \in Keys : Reported(j)
  <2>1. UNCHANGED <<run, calls>>
    BY <1>6 DEF Shadow!set_enabled, Shadow!DeadlinePasses, Shadow!BackendCleans, Shadow!Die, Shadow!Retry, Shadow!outside
  <2>2. QED
    BY <1>1, <2>1
<1>7. QED
  BY <1>4, <1>5, <1>6 DEF Shadow!Next

LEMMA ReportSteps ==
  ShadowInv /\ ShadowInv' /\ Shadow!Next => Shadow!KillComesFirst /\ Shadow!ReportStays
<1> SUFFICES ASSUME ShadowInv, ShadowInv', Shadow!Next PROVE Shadow!KillComesFirst /\ Shadow!ReportStays
  OBVIOUS
<1>1. \A j \in Keys : Reported(j)
  BY StepReported
<1>2. Shadow!KillComesFirst
  BY <1>1 DEF Reported, Shadow!KillComesFirst
<1>3. ASSUME NEW k \in Keys, NEW ordinary \in {"passed", "failed"}
      PROVE  /\ Shadow!IsTerminal(k) => /\ run'[k].result = run[k].result
                                 /\ Shadow!compare(k, ordinary)' = Shadow!compare(k, ordinary)
             /\ Shadow!compare(k, ordinary)' # "incomparable" => run'[k].same
  <2>1. Shadow!IsTerminal(k) => /\ run'[k].result = run[k].result
                         /\ Shadow!compare(k, ordinary)' = Shadow!compare(k, ordinary)
    BY <1>1 DEF Reported, Shadow!compare
  <2>2. run'[k].result \in {"passed", "failed"} => run'[k].same
    BY DEF ShadowInv, Booked, StageOrdered
  <2>3. run'[k].result \in {"none", "unknown", "passed", "failed"}
    BY DEF ShadowInv, ShadowTypes, ShadowRun, Results
  <2>4. QED
    BY <2>1, <2>2, <2>3 DEF Shadow!compare
<1>4. QED
  BY <1>2, <1>3 DEF Shadow!ReportStays

(* A kill or a deadline that comes first prevents the start and the verdict *)
(* of every run, wherever between its transactions it falls.                *)
THEOREM KillFirst == Shadow!Spec => Shadow!KillPrevents
BY ShadowInvariant, ReportSteps, PTL DEF Shadow!Spec, Shadow!KillPrevents

(* A reported verdict and its comparison with ordinary evidence never       *)
(* change and are of the enrolled target.                                   *)
THEOREM ReportFinal == Shadow!Spec => Shadow!ReportStable
BY ShadowInvariant, ReportSteps, PTL DEF Shadow!Spec, Shadow!ReportStable

-----------------------------------------------------------------------------
(* The proof-of-concept broker: its own program, with its own state.       *)

Outcomes == {"none", "unknown", "passed", "failed"}
BrokerRun ==
  [status : {"none", "issued", "running", "finished"}, target : SUBSET Targets,
   result : Outcomes, intent : BOOLEAN, owned : BOOLEAN, runner : BOOLEAN,
   started : BOOLEAN, cleaned : BOOLEAN, probed : Nat]
ThreadPoints ==
  {"none", "inspect", "begin", "create", "creating", "own", "register", "start", "probe",
   "after", "result", "cleanup"}
BrokerThread ==
  [pc : ThreadPoints,
   probed : Nat, outcome : Outcomes]
BoxStates == {"none", "created", "running", "exited", "removed"}
BrokerCaller ==
  [pc : {"none", "wait", "finish", "release", "cleanup"}, result : Outcomes,
   probed : Nat, nocreate : BOOLEAN, cancelled : BOOLEAN]

BrokerTypes ==
  /\ run \in [Runs -> BrokerRun]
  /\ lock \in [Targets -> SUBSET Runs]
  /\ thread \in [Runs -> BrokerThread]
  /\ caller \in [Runs -> BrokerCaller]
  /\ gen \in [Targets -> Nat]
  /\ box \in [Runs -> BoxStates]
  /\ inflight \in SUBSET Runs
  /\ starts \in [Runs -> Nat]

\* A run that was not admitted has left no trace; one that was has a target.
Untouched(r) ==
  /\ run[r].status # "none" => \E t \in Targets : run[r].target = {t}
  /\ run[r].status \in {"none", "issued"} =>
       /\ thread[r].pc = "none" /\ caller[r].pc = "none"
       /\ ~run[r].intent /\ ~run[r].started /\ ~caller[r].nocreate
  /\ run[r].status # "finished" => run[r].result = "none"

\* The thread that is on its way to the create call.
Before == {"inspect", "begin", "create", "creating"}

\* The container of a run: created once, after its intent; owned when its id is
\* known; not there any more when its cleanup was confirmed.
ContainerBooked(r) ==
  /\ box[r] # "none" \/ r \in inflight \/ thread[r].pc \in {"create", "creating", "own"}
       => run[r].intent
  /\ box[r] # "none" \/ r \in inflight => thread[r].pc \notin Before
  /\ r \in inflight => box[r] = "none"
  /\ thread[r].pc = "own" \/ run[r].owned => box[r] # "none"
  /\ run[r].cleaned => box[r] = "removed"
  /\ caller[r].pc = "release" => caller[r].nocreate
  /\ caller[r].nocreate => ~run[r].intent /\ thread[r].pc \in {"none", "cleanup"}

\* The target of a run that was issued.
On(r, t) == run[r].target = {t}

Leased(r) ==
  Poc!Exists(r) \/ r \in inflight \/ thread[r].pc \in Before
    => \A t \in Targets : On(r, t) => r \in lock[t]

\* A verdict on its way from the probe to the store.
VerdictBooked(r) ==
  /\ starts[r] # 0 \/ thread[r].pc \in {"probe", "after"} => run[r].started
  /\ thread[r].pc = "after" => \A t \in Targets : On(r, t) => thread[r].probed <= gen[t]
  /\ thread[r].pc = "result" /\ thread[r].outcome \in {"passed", "failed"}
       => thread[r].probed = 0 /\ run[r].started
  /\ caller[r].pc = "finish" /\ caller[r].result \in {"passed", "failed"}
       => caller[r].probed = 0 /\ run[r].started
  /\ run[r].result \in {"passed", "failed"} => run[r].probed = 0 /\ run[r].started

RunBooked(r) == Untouched(r) /\ ContainerBooked(r) /\ Leased(r) /\ VerdictBooked(r)
BrokerInv == BrokerTypes /\ \A r \in Runs : RunBooked(r)

\* The rest of the broker stays as it is.
OnlyRun(r) ==
  /\ UNCHANGED gen
  /\ \A q \in Runs : q # r =>
       /\ run'[q] = run[q] /\ thread'[q] = thread[q] /\ caller'[q] = caller[q]
       /\ box'[q] = box[q] /\ starts'[q] = starts[q]
       /\ q \in inflight' <=> q \in inflight
       /\ \A t \in Targets : q \in lock[t] => q \in lock'[t]

LEMMA TargetKnown ==
  ASSUME BrokerInv, NEW r \in Runs, run[r].status # "none"
  PROVE  Poc!TargetOf(r) \in Targets /\ On(r, Poc!TargetOf(r))
<1>1. PICK t \in Targets : run[r].target = {t}
  BY DEF BrokerInv, RunBooked, Untouched
<1>2. Poc!TargetOf(r) = t
  BY <1>1 DEF Poc!TargetOf
<1>3. QED
  BY <1>1, <1>2 DEF On

LEMMA StepOfRun ==
  ASSUME BrokerInv, BrokerTypes', NEW r, OnlyRun(r), r \in Runs => RunBooked(r)'
  PROVE  BrokerInv'
<1>1. ASSUME NEW q \in Runs, q # r PROVE RunBooked(q)'
  <2>1. RunBooked(q)
    BY DEF BrokerInv
  <2>2. /\ run'[q] = run[q] /\ thread'[q] = thread[q] /\ caller'[q] = caller[q]
        /\ box'[q] = box[q] /\ starts'[q] = starts[q] /\ gen' = gen
        /\ q \in inflight' <=> q \in inflight
        /\ \A t \in Targets : q \in lock[t] => q \in lock'[t]
    BY <1>1 DEF OnlyRun
  <2>3. Untouched(q)' /\ ContainerBooked(q)'
    BY <2>1, <2>2 DEF RunBooked, Untouched, ContainerBooked
  <2>4. Leased(q)'
    BY <2>1, <2>2 DEF RunBooked, Leased, Poc!Exists, On
  <2>5. VerdictBooked(q)'
    BY <2>1, <2>2 DEF RunBooked, VerdictBooked, On
  <2>6. QED
    BY <2>3, <2>4, <2>5 DEF RunBooked
<1>2. QED
  BY <1>1 DEF BrokerInv

\* A run changes in its row, its thread, its caller and its container.
LEMMA RunChanges ==
  ASSUME BrokerInv, NEW r \in Runs, UNCHANGED gen,
         NEW x \in BrokerRun, run' = [run EXCEPT ![r] = x],
         NEW h \in BrokerThread, thread' = [thread EXCEPT ![r] = h],
         NEW c \in BrokerCaller, caller' = [caller EXCEPT ![r] = c],
         NEW b \in BoxStates, box' = [box EXCEPT ![r] = b],
         NEW n \in Nat, starts' = [starts EXCEPT ![r] = n],
         inflight' \in SUBSET Runs, inflight' \ {r} = inflight \ {r},
         lock' \in [Targets -> SUBSET Runs],
         \A t \in Targets : lock[t] \ {r} \subseteq lock'[t],
         RunBooked(r)'
  PROVE  BrokerInv'
<1>1. BrokerTypes'
  BY DEF BrokerInv, BrokerTypes
<1>2. OnlyRun(r)
  BY DEF BrokerInv, BrokerTypes, OnlyRun
<1>3. QED
  BY <1>1, <1>2, StepOfRun

\* The parts of a run that a step leaves alone.
LEMMA BrokerParts ==
  ASSUME BrokerInv, NEW r \in Runs
  PROVE  /\ run[r] \in BrokerRun /\ run = [run EXCEPT ![r] = run[r]]
         /\ thread[r] \in BrokerThread /\ thread = [thread EXCEPT ![r] = thread[r]]
         /\ caller[r] \in BrokerCaller /\ caller = [caller EXCEPT ![r] = caller[r]]
         /\ box[r] \in BoxStates /\ box = [box EXCEPT ![r] = box[r]]
         /\ starts[r] \in Nat /\ starts = [starts EXCEPT ![r] = starts[r]]
         /\ inflight \in SUBSET Runs /\ lock \in [Targets -> SUBSET Runs] /\ RunBooked(r)
BY DEF BrokerInv, BrokerTypes

\* The thread goes on, or fails.
LEMMA ThreadGoes ==
  ASSUME BrokerInv, NEW r \in Runs, NEW pc \in ThreadPoints, Poc!ThreadTo(r, pc)
  PROVE  \E h \in BrokerThread : /\ thread' = [thread EXCEPT ![r] = h] /\ thread'[r] = h
                                 /\ h.pc = pc /\ h.probed = thread[r].probed
                                 /\ h.outcome = thread[r].outcome
<1> DEFINE h == [thread[r] EXCEPT !.pc = pc]
<1>1. thread[r] \in BrokerThread /\ thread \in [Runs -> BrokerThread]
  BY DEF BrokerInv, BrokerTypes
<1>2. /\ h \in BrokerThread /\ h.pc = pc /\ h.probed = thread[r].probed
      /\ h.outcome = thread[r].outcome
  BY <1>1 DEF BrokerThread
<1>3. thread' = [thread EXCEPT ![r] = h]
  BY <1>1 DEF Poc!ThreadTo
<1> HIDE DEF h
<1>4. thread'[r] = h
  BY <1>1, <1>3
<1>5. QED
  BY <1>2, <1>3, <1>4

LEMMA ThreadStops ==
  ASSUME BrokerInv, NEW r \in Runs, Poc!ThreadFails(r)
  PROVE  \E h \in BrokerThread : /\ thread' = [thread EXCEPT ![r] = h] /\ thread'[r] = h
                                 /\ h.pc = "result" /\ h.outcome = "unknown"
<1> DEFINE h == [Poc!NoThread EXCEPT !.pc = "result", !.outcome = "unknown"]
<1>1. h \in BrokerThread /\ h.pc = "result" /\ h.outcome = "unknown"
  BY DEF BrokerThread, ThreadPoints, Poc!NoThread, Outcomes
<1>2. thread' = [thread EXCEPT ![r] = h]
  BY DEF Poc!ThreadFails
<1> HIDE DEF h
<1>3. thread'[r] = h
  BY <1>2 DEF BrokerInv, BrokerTypes
<1>4. QED
  BY <1>1, <1>2, <1>3

\* A thread that fails, wherever it was, leaves its run booked.
LEMMA FailureKept ==
  ASSUME BrokerInv, NEW r \in Runs, Poc!ThreadFails(r), thread[r].pc \notin {"none", "cleanup"},
         UNCHANGED <<run, lock, caller, gen, box, starts>>,
         \/ UNCHANGED inflight
         \/ thread[r].pc = "creating" /\ inflight' = inflight \cup {r}
  PROVE  BrokerInv'
<1>1. PICK h \in BrokerThread : /\ thread' = [thread EXCEPT ![r] = h] /\ thread'[r] = h
                                /\ h.pc = "result" /\ h.outcome = "unknown"
  BY ThreadStops
<1>2. RunBooked(r)
  BY BrokerParts
<1>3. Untouched(r)' /\ ContainerBooked(r)'
  BY <1>1, <1>2 DEF RunBooked, Untouched, ContainerBooked, Before
<1>4. Leased(r)'
  BY <1>1, <1>2 DEF RunBooked, Leased, Poc!Exists, On, Before
<1>5. VerdictBooked(r)'
  BY <1>1, <1>2 DEF RunBooked, VerdictBooked, On
<1>6. RunBooked(r)'
  BY <1>3, <1>4, <1>5 DEF RunBooked
<1>7. inflight' \in SUBSET Runs /\ inflight' \ {r} = inflight \ {r}
  BY BrokerParts
<1>8. QED
  BY <1>1, <1>6, <1>7, BrokerParts, RunChanges

\* A thread that goes on without a change of its run.
LEMMA ThreadKept ==
  ASSUME BrokerInv, NEW r \in Runs, NEW pc \in ThreadPoints, Poc!ThreadTo(r, pc),
         UNCHANGED <<run, lock, caller, gen, box, starts, inflight>>,
         \/ thread[r].pc = "inspect" /\ pc = "begin"
         \/ thread[r].pc = "create" /\ pc = "creating"
         \/ thread[r].pc = "result" /\ pc = "cleanup"
         \/ /\ thread[r].pc = "after" /\ pc = "result"
            /\ \E t \in Targets : On(r, t) /\ gen[t] = 0
  PROVE  BrokerInv'
<1>1. PICK h \in BrokerThread : /\ thread' = [thread EXCEPT ![r] = h] /\ thread'[r] = h
                                /\ h.pc = pc /\ h.probed = thread[r].probed
                                /\ h.outcome = thread[r].outcome
  BY ThreadGoes
<1>2. RunBooked(r) /\ h.probed \in Nat
  BY BrokerParts DEF BrokerThread
<1>3. Untouched(r)' /\ ContainerBooked(r)'
  BY <1>1, <1>2 DEF RunBooked, Untouched, ContainerBooked, Before
<1>4. Leased(r)'
  BY <1>1, <1>2 DEF RunBooked, Leased, Poc!Exists, On, Before
<1>5. VerdictBooked(r)'
  BY <1>1, <1>2 DEF RunBooked, VerdictBooked, On
<1>6. RunBooked(r)'
  BY <1>3, <1>4, <1>5 DEF RunBooked
<1>7. QED
  BY <1>1, <1>6, BrokerParts, RunChanges

LEMMA InspectStep ==
  ASSUME BrokerInv, NEW r \in Runs,
         Poc!InspectTarget(r) \/ Poc!CheckCreate(r) \/ Poc!InspectAfter(r) \/ Poc!Unread(r)
  PROVE  BrokerInv'
<1>1. UNCHANGED <<run, lock, caller, gen, box, starts, inflight>>
  BY DEF Poc!InspectTarget, Poc!CheckCreate, Poc!InspectAfter, Poc!Unread, Poc!store, Poc!daemon
<1>2. CASE Poc!ThreadFails(r) /\ thread[r].pc \in {"inspect", "create", "after"}
  BY <1>1, <1>2, FailureKept
<1>3. CASE \/ Poc!ThreadAt(r, "inspect") /\ Poc!ThreadTo(r, "begin")
           \/ Poc!ThreadAt(r, "create") /\ Poc!ThreadTo(r, "creating")
           \/ Poc!ThreadAt(r, "result") /\ Poc!ThreadTo(r, "cleanup")
  BY <1>1, <1>3, ThreadKept DEF Poc!ThreadAt, ThreadPoints
<1>4. CASE Poc!ThreadAt(r, "after") /\ Poc!ThreadTo(r, "result") /\ gen[Poc!TargetOf(r)] = 0
  <2>1. run[r].status # "none"
    BY <1>4, BrokerParts DEF RunBooked, Untouched, Poc!ThreadAt
  <2>2. Poc!TargetOf(r) \in Targets /\ On(r, Poc!TargetOf(r))
    BY <2>1, TargetKnown
  <2>3. QED
    BY <1>1, <1>4, <2>2, ThreadKept DEF Poc!ThreadAt, ThreadPoints
<1>5. QED
  BY <1>2, <1>3, <1>4
     DEF Poc!InspectTarget, Poc!CheckCreate, Poc!InspectAfter, Poc!Unread, Poc!ThreadAt

LEMMA IntentStep ==
  ASSUME BrokerInv, NEW r \in Runs, Poc!create_intent(r)
  PROVE  BrokerInv'
<1>1. UNCHANGED <<lock, caller, gen, box, starts, inflight>> /\ thread[r].pc = "begin"
  BY DEF Poc!create_intent, Poc!daemon, Poc!ThreadAt
<1>2. CASE ~(Poc!check(r) /\ ~run[r].intent)
  BY <1>1, <1>2, FailureKept DEF Poc!create_intent
<1>3. CASE Poc!check(r) /\ ~run[r].intent
  <2> DEFINE x == [run[r] EXCEPT !.intent = TRUE]
  <2>1. run' = [run EXCEPT ![r] = x] /\ Poc!ThreadTo(r, "create")
    BY <1>3 DEF Poc!create_intent
  <2>2. PICK h \in BrokerThread : /\ thread' = [thread EXCEPT ![r] = h] /\ thread'[r] = h
                                  /\ h.pc = "create"
    BY <2>1, ThreadGoes DEF ThreadPoints
  <2>3. x \in BrokerRun /\ RunBooked(r)
    BY BrokerParts DEF BrokerRun
  <2>4. run'[r] = x
    BY <2>1 DEF BrokerInv, BrokerTypes
  <2>5. Untouched(r)' /\ ContainerBooked(r)'
    BY <1>1, <1>3, <2>2, <2>3, <2>4
       DEF RunBooked, Untouched, ContainerBooked, Before, BrokerRun, Poc!check
  <2>6. Leased(r)'
    BY <1>1, <2>2, <2>3, <2>4 DEF RunBooked, Leased, Poc!Exists, On, Before, BrokerRun
  <2>7. VerdictBooked(r)'
    BY <1>1, <2>2, <2>3, <2>4 DEF RunBooked, VerdictBooked, On, BrokerRun
  <2>8. RunBooked(r)'
    BY <2>5, <2>6, <2>7 DEF RunBooked
  <2> HIDE DEF x
  <2>9. QED
    BY <1>1, <2>1, <2>2, <2>3, <2>8, BrokerParts, RunChanges
<1>4. QED
  BY <1>2, <1>3

LEMMA PrepareStep ==
  ASSUME BrokerInv, NEW r \in Runs, Poc!Prepare(r)
  PROVE  BrokerInv'
<1>1. UNCHANGED <<run, lock, caller, gen, starts>> /\ thread[r].pc = "creating"
  BY DEF Poc!Prepare, Poc!store, Poc!ThreadAt
<1>2. CASE Poc!ThreadFails(r) /\ UNCHANGED box /\ inflight' = inflight \cup {r}
  BY <1>1, <1>2, FailureKept
<1>3. CASE box' = [box EXCEPT ![r] = "created"] /\ Poc!ThreadTo(r, "own") /\ UNCHANGED inflight
  <2>1. PICK h \in BrokerThread : /\ thread' = [thread EXCEPT ![r] = h] /\ thread'[r] = h
                                  /\ h.pc = "own"
    BY <1>3, ThreadGoes DEF ThreadPoints
  <2>2. RunBooked(r) /\ box'[r] = "created" /\ "created" \in BoxStates
    BY <1>3, BrokerParts DEF BrokerInv, BrokerTypes, BoxStates
  <2>3. Untouched(r)' /\ ContainerBooked(r)'
    BY <1>1, <1>3, <2>1, <2>2 DEF RunBooked, Untouched, ContainerBooked, Before
  <2>4. Leased(r)'
    BY <1>1, <1>3, <2>1, <2>2 DEF RunBooked, Leased, Poc!Exists, On, Before
  <2>5. VerdictBooked(r)'
    BY <1>1, <2>1, <2>2 DEF RunBooked, VerdictBooked, On
  <2>6. RunBooked(r)'
    BY <2>3, <2>4, <2>5 DEF RunBooked
  <2>7. QED
    BY <1>1, <1>3, <2>1, <2>2, <2>6, BrokerParts, RunChanges
<1>4. QED
  BY <1>2, <1>3 DEF Poc!Prepare

\* What own_runner, register_runner and start_once write of a run.
LEMMA RunnerWritten ==
  ASSUME BrokerInv, NEW r \in Runs, NEW x \in BrokerRun, run' = [run EXCEPT ![r] = x],
         x.status = run[r].status, x.target = run[r].target, x.result = run[r].result,
         x.intent = run[r].intent, x.cleaned = run[r].cleaned, x.probed = run[r].probed,
         run[r].started => x.started, x.owned => box[r] # "none",
         x.started => run[r].started \/ run[r].status = "running",
         NEW h \in BrokerThread, thread' = [thread EXCEPT ![r] = h], h.pc \in ThreadPoints,
         thread[r].pc \notin {"none", "cleanup"}, h.pc \notin Before \cup {"own", "after"},
         h.pc = "probe" => x.started, h.pc = "result" => h.outcome = "unknown",
         NEW b \in BoxStates, box' = [box EXCEPT ![r] = b],
         b # box[r] => box[r] = "created" /\ b = "running",
         NEW n \in Nat, starts' = [starts EXCEPT ![r] = n], n # starts[r] => x.started,
         UNCHANGED <<lock, caller, gen, inflight>>
  PROVE  BrokerInv'
<1>1. run'[r] = x /\ thread'[r] = h /\ box'[r] = b /\ starts'[r] = n
  BY DEF BrokerInv, BrokerTypes
<1>2. RunBooked(r)
  BY BrokerParts
<1>3. Untouched(r)'
  BY <1>1, <1>2 DEF RunBooked, Untouched
<1>4. ContainerBooked(r)'
  BY <1>1, <1>2 DEF RunBooked, ContainerBooked, Before
<1>5. Leased(r)'
  BY <1>1, <1>2 DEF RunBooked, Leased, Poc!Exists, On, Before
<1>6. VerdictBooked(r)'
  BY <1>1, <1>2 DEF RunBooked, VerdictBooked, On
<1>7. RunBooked(r)'
  BY <1>3, <1>4, <1>5, <1>6 DEF RunBooked
<1>8. QED
  BY <1>7, BrokerParts, RunChanges

LEMMA OwnStep ==
  ASSUME BrokerInv, NEW r \in Runs, Poc!own_runner(r)
  PROVE  BrokerInv'
<1> DEFINE x == [run[r] EXCEPT !.owned = TRUE]
<1>1. /\ UNCHANGED <<lock, caller, gen, inflight, box, starts>> /\ thread[r].pc = "own"
      /\ run' = [run EXCEPT ![r] = x]
  BY DEF Poc!own_runner, Poc!daemon, Poc!ThreadAt
<1>2. /\ x \in BrokerRun /\ x.status = run[r].status /\ x.target = run[r].target
      /\ x.result = run[r].result /\ x.intent = run[r].intent /\ x.cleaned = run[r].cleaned
      /\ x.probed = run[r].probed /\ x.started = run[r].started
  BY BrokerParts DEF BrokerRun
<1>3. box[r] # "none"
  BY <1>1, BrokerParts DEF RunBooked, ContainerBooked
<1>4. PICK h \in BrokerThread : /\ thread' = [thread EXCEPT ![r] = h] /\ h.pc \in {"register", "result"}
                                /\ h.pc = "result" => h.outcome = "unknown"
  <2>1. CASE Poc!ThreadTo(r, "register")
    BY <2>1, ThreadGoes DEF ThreadPoints
  <2>2. CASE Poc!ThreadFails(r)
    BY <2>2, ThreadStops
  <2>3. QED
    BY <2>1, <2>2 DEF Poc!own_runner
<1> HIDE DEF x
<1>5. QED
  BY <1>1, <1>2, <1>3, <1>4, BrokerParts, RunnerWritten DEF ThreadPoints, Before

LEMMA RegisterStep ==
  ASSUME BrokerInv, NEW r \in Runs, Poc!register_runner(r)
  PROVE  BrokerInv'
<1>1. UNCHANGED <<lock, caller, gen, inflight, box, starts>> /\ thread[r].pc = "register"
  BY DEF Poc!register_runner, Poc!daemon, Poc!ThreadAt
<1>2. CASE Poc!ThreadFails(r) /\ UNCHANGED run
  BY <1>1, <1>2, FailureKept
<1>3. CASE run' = [run EXCEPT ![r].runner = TRUE] /\ Poc!ThreadTo(r, "start")
  <2> DEFINE x == [run[r] EXCEPT !.runner = TRUE]
  <2>1. run' = [run EXCEPT ![r] = x]
    BY <1>3
  <2>2. /\ x \in BrokerRun /\ x.status = run[r].status /\ x.target = run[r].target
        /\ x.result = run[r].result /\ x.intent = run[r].intent /\ x.cleaned = run[r].cleaned
        /\ x.probed = run[r].probed /\ x.started = run[r].started /\ x.owned = run[r].owned
    BY BrokerParts DEF BrokerRun
  <2>3. run[r].owned => box[r] # "none"
    BY BrokerParts DEF RunBooked, ContainerBooked
  <2>4. PICK h \in BrokerThread : thread' = [thread EXCEPT ![r] = h] /\ h.pc = "start"
    BY <1>3, ThreadGoes DEF ThreadPoints
  <2> HIDE DEF x
  <2>5. QED
    BY <1>1, <2>1, <2>2, <2>3, <2>4, BrokerParts, RunnerWritten DEF ThreadPoints, Before
<1>4. QED
  BY <1>2, <1>3 DEF Poc!register_runner

LEMMA StartStepOfRunner ==
  ASSUME BrokerInv, NEW r \in Runs, Poc!start_once(r)
  PROVE  BrokerInv'
<1> DEFINE x == [run[r] EXCEPT !.started = run[r].started \/ Poc!StartReceipt(r)]
<1>1. /\ UNCHANGED <<lock, caller, gen, inflight>> /\ thread[r].pc = "start"
      /\ run' = [run EXCEPT ![r] = x]
  BY DEF Poc!start_once, Poc!ThreadAt
<1>2. /\ x \in BrokerRun /\ x.status = run[r].status /\ x.target = run[r].target
      /\ x.result = run[r].result /\ x.intent = run[r].intent /\ x.cleaned = run[r].cleaned
      /\ x.probed = run[r].probed /\ x.owned = run[r].owned
      /\ run[r].started => x.started
      /\ Poc!MayStart(r) => x.started
      /\ x.started => run[r].started \/ run[r].status = "running"
  BY BrokerParts DEF BrokerRun, Poc!StartReceipt, Poc!MayStart
<1>3. run[r].owned => box[r] # "none"
  BY BrokerParts DEF RunBooked, ContainerBooked
<1> HIDE DEF x
<1>4. PICK h \in BrokerThread :
         /\ thread' = [thread EXCEPT ![r] = h] /\ h.pc \in {"probe", "result"}
         /\ h.pc = "result" => h.outcome = "unknown"
         /\ h.pc = "probe" => Poc!MayStart(r)
  <2>1. CASE Poc!ThreadTo(r, "probe") /\ Poc!MayStart(r)
    BY <2>1, ThreadGoes DEF ThreadPoints
  <2>2. CASE Poc!ThreadFails(r)
    BY <2>2, ThreadStops
  <2>3. QED
    BY <2>1, <2>2 DEF Poc!start_once
<1>5. \E n \in Nat : starts' = [starts EXCEPT ![r] = n] /\ (n # starts[r] => Poc!MayStart(r))
  <2>1. CASE Poc!MayStart(r)
    BY <2>1, BrokerParts DEF Poc!start_once
  <2>2. CASE ~Poc!MayStart(r)
    BY <2>2, BrokerParts DEF Poc!start_once
  <2>3. QED
    BY <2>1, <2>2
<1>6. \E b \in BoxStates : /\ box' = [box EXCEPT ![r] = b]
                           /\ b # box[r] => box[r] = "created" /\ b = "running"
  BY BrokerParts DEF Poc!start_once, BoxStates
<1>7. QED
  BY <1>1, <1>2, <1>3, <1>4, <1>5, <1>6, BrokerParts, RunnerWritten DEF ThreadPoints, Before

LEMMA ProbeStep ==
  ASSUME BrokerInv, NEW r \in Runs, Poc!Probe(r)
  PROVE  BrokerInv'
<1>1. UNCHANGED <<run, lock, caller, gen, starts, inflight>> /\ thread[r].pc = "probe"
  BY DEF Poc!Probe, Poc!store, Poc!ThreadAt
<1>2. CASE Poc!ThreadFails(r) /\ UNCHANGED box
  BY <1>1, <1>2, FailureKept
<1>3. CASE ~(Poc!ThreadFails(r) /\ UNCHANGED box)
  <2>1. PICK o \in {"passed", "failed", "unknown"} :
           /\ box[r] = "running" /\ box' = [box EXCEPT ![r] = "exited"]
           /\ thread' = [thread EXCEPT ![r] =
                [pc |-> "after", probed |-> gen[Poc!TargetOf(r)], outcome |-> o]]
    BY <1>3 DEF Poc!Probe
  <2>2. RunBooked(r)
    BY BrokerParts
  <2>3. Poc!TargetOf(r) \in Targets /\ On(r, Poc!TargetOf(r))
    BY <1>1, <2>2, TargetKnown DEF RunBooked, Untouched
  <2> DEFINE h == [pc |-> "after", probed |-> gen[Poc!TargetOf(r)], outcome |-> o]
  <2>4. h \in BrokerThread /\ h.pc = "after" /\ h.probed = gen[Poc!TargetOf(r)] /\ gen[Poc!TargetOf(r)] \in Nat
    BY <2>3 DEF BrokerThread, ThreadPoints, Outcomes, BrokerInv, BrokerTypes
  <2>5. thread' = [thread EXCEPT ![r] = h]
    BY <2>1
  <2> HIDE DEF h
  <2>6. thread'[r] = h /\ box'[r] = "exited" /\ "exited" \in BoxStates
    BY <2>1, <2>5 DEF BrokerInv, BrokerTypes, BoxStates
  <2>7. Untouched(r)' /\ ContainerBooked(r)'
    BY <1>1, <2>1, <2>2, <2>4, <2>6 DEF RunBooked, Untouched, ContainerBooked, Before
  <2>8. Leased(r)'
    BY <1>1, <2>1, <2>2, <2>4, <2>6 DEF RunBooked, Leased, Poc!Exists, On, Before
  <2>9. \A t \in Targets : On(r, t) => t = Poc!TargetOf(r)
    BY <2>3 DEF On
  <2>10. VerdictBooked(r)'
    BY <1>1, <2>2, <2>4, <2>6, <2>9 DEF RunBooked, VerdictBooked, On
  <2>11. RunBooked(r)'
    BY <2>7, <2>8, <2>10 DEF RunBooked
  <2>12. QED
    BY <1>1, <2>1, <2>4, <2>5, <2>6, <2>11, BrokerParts, RunChanges
<1>4. QED
  BY <1>2, <1>3

\* The caller of execute goes on.
LEMMA CallerKept ==
  ASSUME BrokerInv, NEW r \in Runs, NEW c \in BrokerCaller, caller' = [caller EXCEPT ![r] = c],
         NEW h \in BrokerThread, thread' = [thread EXCEPT ![r] = h],
         \/ /\ h.pc = thread[r].pc /\ h.probed = thread[r].probed
            /\ h.outcome = thread[r].outcome
         \/ h.pc \in {"none", "cleanup"} /\ thread[r].pc # "none",
         c.nocreate => ~run[r].intent /\ h.pc \in {"none", "cleanup"},
         c.pc # "none" \/ c.nocreate => run[r].status \notin {"none", "issued"},
         c.pc = "release" => c.nocreate,
         c.pc = "finish" /\ c.result \in {"passed", "failed"} => c.probed = 0 /\ run[r].started,
         UNCHANGED <<run, lock, gen, box, starts, inflight>>
  PROVE  BrokerInv'
<1>1. caller'[r] = c /\ thread'[r] = h
  BY DEF BrokerInv, BrokerTypes
<1>2. RunBooked(r)
  BY BrokerParts
<1>3. Untouched(r)' /\ ContainerBooked(r)'
  BY <1>1, <1>2 DEF RunBooked, Untouched, ContainerBooked, Before
<1>4. Leased(r)'
  BY <1>1, <1>2 DEF RunBooked, Leased, Poc!Exists, On, Before
<1>5. VerdictBooked(r)'
  BY <1>1, <1>2 DEF RunBooked, VerdictBooked, On
<1>6. RunBooked(r)'
  BY <1>3, <1>4, <1>5 DEF RunBooked
<1>7. QED
  BY <1>6, BrokerParts, RunChanges

LEMMA ReceiveStep ==
  ASSUME BrokerInv, NEW r \in Runs, Poc!Receive(r)
  PROVE  BrokerInv'
<1> DEFINE c == [pc |-> "finish",
                 result |-> IF r \in late THEN "unknown" ELSE thread[r].outcome,
                 probed |-> thread[r].probed, nocreate |-> ~run[r].intent,
                 cancelled |-> r \in late]
<1>1. /\ UNCHANGED <<run, lock, gen, box, starts, inflight>> /\ thread[r].pc = "result"
      /\ caller[r].pc = "wait" /\ caller' = [caller EXCEPT ![r] = c]
  BY DEF Poc!Receive, Poc!Received, Poc!ThreadAt, Poc!store, Poc!daemon
<1>2. PICK h \in BrokerThread : thread' = [thread EXCEPT ![r] = h] /\ h.pc = "cleanup"
  BY ThreadGoes DEF Poc!Receive, ThreadPoints
<1>3. run[r] \in BrokerRun /\ thread[r] \in BrokerThread /\ RunBooked(r)
  BY BrokerParts
<1>4. c \in BrokerCaller /\ c.pc = "finish" /\ (c.nocreate => ~run[r].intent)
  <2>1. (~run[r].intent) \in BOOLEAN /\ (r \in late) \in BOOLEAN
    OBVIOUS
  <2>2. c.result \in Outcomes /\ c.probed \in Nat
    BY <1>3 DEF BrokerThread, Outcomes
  <2>3. c.pc = "finish" /\ c.nocreate = ~run[r].intent /\ c.cancelled = (r \in late)
    OBVIOUS
  <2>4. c \in BrokerCaller
    BY <2>1, <2>2 DEF BrokerCaller
  <2>5. QED
    BY <2>3, <2>4
<1>5. run[r].status \notin {"none", "issued"}
  BY <1>1, <1>3 DEF RunBooked, Untouched
<1>6. c.result \in {"passed", "failed"} => c.probed = 0 /\ run[r].started
  BY <1>1, <1>3 DEF RunBooked, VerdictBooked
<1> HIDE DEF c
<1>7. QED
  BY <1>1, <1>2, <1>4, <1>5, <1>6, CallerKept

LEMMA TimeoutStep ==
  ASSUME BrokerInv, NEW r \in Runs, Poc!Timeout(r)
  PROVE  BrokerInv'
<1> DEFINE c == [caller[r] EXCEPT !.pc = "finish", !.result = "unknown", !.cancelled = TRUE]
<1>1. /\ UNCHANGED <<run, lock, gen, box, starts, inflight, thread>>
      /\ caller[r].pc = "wait" /\ caller' = [caller EXCEPT ![r] = c]
  <2>1. caller \in [Runs -> BrokerCaller]
    BY DEF BrokerInv, BrokerTypes
  <2>2. caller' = [caller EXCEPT ![r].pc = "finish", ![r].result = "unknown",
                                 ![r].cancelled = TRUE]
    BY DEF Poc!Timeout
  <2>3. caller' = [caller EXCEPT ![r] = c]
    BY <2>1, <2>2
  <2>4. QED
    BY <2>3 DEF Poc!Timeout, Poc!store, Poc!daemon
<1>2. caller[r] \in BrokerCaller /\ RunBooked(r)
  BY BrokerParts
<1>3. c \in BrokerCaller /\ c.pc = "finish" /\ c.result = "unknown" /\ c.nocreate = caller[r].nocreate
  BY <1>2 DEF BrokerCaller, Outcomes
<1>4. /\ run[r].status \notin {"none", "issued"}
      /\ c.nocreate => ~run[r].intent /\ thread[r].pc \in {"none", "cleanup"}
  BY <1>1, <1>2, <1>3 DEF RunBooked, Untouched, ContainerBooked
<1> HIDE DEF c
<1>5. QED
  BY <1>1, <1>3, <1>4, BrokerParts, CallerKept

\* A run finishes: with a booked verdict, and only while it runs.
LEMMA FinishKept ==
  ASSUME BrokerInv, NEW r \in Runs, NEW v \in Outcomes, NEW n \in Nat,
         run' = Poc!Finished(r, v, n),
         v \in {"passed", "failed"} => n = 0 /\ run[r].started,
         NEW c \in BrokerCaller, caller' = [caller EXCEPT ![r] = c],
         c.nocreate = caller[r].nocreate, c.pc # "none" => caller[r].pc # "none",
         c.pc # "finish" \/ c = caller[r], c.pc = "release" => c.nocreate,
         UNCHANGED <<thread, lock, gen, box, starts, inflight>>
  PROVE  BrokerInv'
<1> DEFINE x == IF run[r].status # "running" THEN run[r]
                ELSE [run[r] EXCEPT !.status = "finished", !.result = v, !.probed = n]
<1>1. run' = [run EXCEPT ![r] = x]
  BY BrokerParts DEF Poc!Finished
<1>2. run[r] \in BrokerRun /\ RunBooked(r)
  BY BrokerParts
<1>3. /\ x \in BrokerRun /\ x.target = run[r].target /\ x.intent = run[r].intent
      /\ x.owned = run[r].owned /\ x.started = run[r].started /\ x.cleaned = run[r].cleaned
      /\ \/ x = run[r]
         \/ run[r].status = "running" /\ x.status = "finished" /\ x.result = v /\ x.probed = n
  BY <1>2 DEF BrokerRun
<1> HIDE DEF x
<1>4. run'[r] = x /\ caller'[r] = c
  BY <1>1 DEF BrokerInv, BrokerTypes
<1>5. Untouched(r)' /\ ContainerBooked(r)'
  BY <1>2, <1>3, <1>4 DEF RunBooked, Untouched, ContainerBooked, Before
<1>6. Leased(r)'
  BY <1>2, <1>3, <1>4 DEF RunBooked, Leased, Poc!Exists, On, Before
<1>7. VerdictBooked(r)'
  BY <1>2, <1>3, <1>4 DEF RunBooked, VerdictBooked, On
<1>8. RunBooked(r)'
  BY <1>5, <1>6, <1>7 DEF RunBooked
<1>9. QED
  BY <1>1, <1>3, <1>8, BrokerParts, RunChanges

LEMMA BrokerFinishStep ==
  ASSUME BrokerInv, NEW r \in Runs, Poc!Finish(r) \/ Poc!ExecuteAgain(r)
  PROVE  BrokerInv'
<1>1. CASE Poc!ExecuteAgain(r)
  <2>1. /\ run' = Poc!Finished(r, "unknown", 0)
        /\ UNCHANGED <<thread, caller, lock, gen, box, starts, inflight>>
    BY <1>1 DEF Poc!ExecuteAgain, Poc!daemon
  <2>2. caller[r].pc = "release" => caller[r].nocreate
    BY BrokerParts DEF RunBooked, ContainerBooked
  <2>3. QED
    BY <2>1, <2>2, BrokerParts, FinishKept DEF Outcomes
<1>2. CASE Poc!Finish(r)
  <2> DEFINE c == [caller[r] EXCEPT !.cancelled = TRUE,
                     !.pc = IF caller[r].nocreate THEN "release" ELSE "cleanup"]
  <2>1. /\ run' = Poc!Finished(r, caller[r].result, caller[r].probed)
        /\ caller[r].pc = "finish" /\ caller' = [caller EXCEPT ![r] = c]
        /\ UNCHANGED <<thread, lock, gen, box, starts, inflight>>
    BY <1>2 DEF Poc!Finish, Poc!daemon, BrokerInv, BrokerTypes
  <2>2. caller[r] \in BrokerCaller /\ RunBooked(r)
    BY BrokerParts
  <2>3. /\ c \in BrokerCaller /\ c.pc # "finish" /\ c.nocreate = caller[r].nocreate
        /\ c.pc = "release" => c.nocreate
    BY <2>2 DEF BrokerCaller
  <2>4. caller[r].result \in Outcomes /\ caller[r].probed \in Nat
    BY <2>2 DEF BrokerCaller
  <2>5. caller[r].result \in {"passed", "failed"} => caller[r].probed = 0 /\ run[r].started
    BY <2>1, <2>2 DEF RunBooked, VerdictBooked
  <2> HIDE DEF c
  <2>6. QED
    BY <2>1, <2>3, <2>4, <2>5, FinishKept
<1>3. QED
  BY <1>1, <1>2

\* The lease of a run that has no container and will have none is given back.
LEMMA LeaseReturned ==
  ASSUME BrokerInv, NEW r \in Runs
  PROVE  /\ Poc!Unlocked(r) \in [Targets -> SUBSET Runs]
         /\ \A t \in Targets : lock[t] \ {r} \subseteq Poc!Unlocked(r)[t]
BY DEF Poc!Unlocked, BrokerInv, BrokerTypes

LEMMA ReleaseStep ==
  ASSUME BrokerInv, NEW r \in Runs, Poc!release(r)
  PROVE  BrokerInv'
<1> DEFINE c == [caller[r] EXCEPT !.pc = "cleanup"]
<1>1. /\ caller[r].pc = "release" /\ caller' = [caller EXCEPT ![r] = c] /\ lock' = Poc!Unlocked(r)
      /\ UNCHANGED <<run, thread, gen, box, starts, inflight>>
  BY DEF Poc!release, Poc!daemon, BrokerInv, BrokerTypes
<1>2. caller[r] \in BrokerCaller /\ RunBooked(r)
  BY BrokerParts
<1>3. c \in BrokerCaller /\ c.pc = "cleanup" /\ c.nocreate = caller[r].nocreate
  BY <1>2 DEF BrokerCaller
<1> HIDE DEF c
<1>4. caller'[r] = c
  BY <1>1 DEF BrokerInv, BrokerTypes
<1>5. ~Poc!Exists(r) /\ r \notin inflight /\ thread[r].pc \notin Before
  BY <1>1, <1>2 DEF RunBooked, ContainerBooked, Before, Poc!Exists
<1>6. Untouched(r)' /\ ContainerBooked(r)'
  BY <1>1, <1>2, <1>3, <1>4 DEF RunBooked, Untouched, ContainerBooked, Before
<1>7. Leased(r)'
  BY <1>1, <1>5 DEF Leased, Poc!Exists
<1>8. VerdictBooked(r)'
  BY <1>1, <1>2, <1>3, <1>4 DEF RunBooked, VerdictBooked, On
<1>9. RunBooked(r)'
  BY <1>6, <1>7, <1>8 DEF RunBooked
<1>10. QED
  BY <1>1, <1>3, <1>9, LeaseReturned, BrokerParts, RunChanges

\* The removal of a finished run's container, by whoever calls it.
LEMMA CleanupStep ==
  ASSUME BrokerInv, NEW r \in Runs, Poc!Cleanup(r)
  PROVE  BrokerInv'
<1>1. /\ UNCHANGED <<gen, inflight, starts>> /\ Poc!confirm_cleanup(r)
      /\ RunBooked(r) /\ run[r] \in BrokerRun
  BY BrokerParts DEF Poc!Cleanup
<1>2. PICK h \in BrokerThread :
         /\ thread' = [thread EXCEPT ![r] = h] /\ thread'[r] = h
         /\ \/ h = thread[r]
            \/ thread[r].pc = "cleanup" /\ h.pc = "none"
  <2>1. CASE Poc!ThreadAt(r, "cleanup") /\ Poc!ThreadTo(r, "none")
    BY <2>1, ThreadGoes DEF ThreadPoints, Poc!ThreadAt
  <2>2. CASE UNCHANGED thread
    BY <2>2, BrokerParts
  <2>3. QED
    BY <2>1, <2>2 DEF Poc!Cleanup
<1>3. PICK c \in BrokerCaller :
         /\ caller' = [caller EXCEPT ![r] = c] /\ caller'[r] = c
         /\ \/ c = caller[r]
            \/ c.pc = "none" /\ c.nocreate = caller[r].nocreate
  <2>1. CASE caller' = [caller EXCEPT ![r].pc = "none"]
    <3> DEFINE c == [caller[r] EXCEPT !.pc = "none"]
    <3>1. c \in BrokerCaller /\ c.pc = "none" /\ c.nocreate = caller[r].nocreate
      BY BrokerParts DEF BrokerCaller
    <3>2. caller' = [caller EXCEPT ![r] = c]
      BY <2>1
    <3> HIDE DEF c
    <3>3. caller'[r] = c
      BY <3>2 DEF BrokerInv, BrokerTypes
    <3>4. QED
      BY <3>1, <3>2, <3>3
  <2>2. CASE UNCHANGED caller
    BY <2>2, BrokerParts
  <2>3. QED
    BY <2>1, <2>2 DEF Poc!Cleanup
<1>4. ASSUME UNCHANGED <<run, lock, box>> PROVE BrokerInv'
  <2>1. Untouched(r)' /\ ContainerBooked(r)'
    BY <1>1, <1>2, <1>3, <1>4 DEF RunBooked, Untouched, ContainerBooked, Before
  <2>2. Leased(r)'
    BY <1>1, <1>2, <1>4 DEF RunBooked, Leased, Poc!Exists, On, Before
  <2>3. VerdictBooked(r)'
    BY <1>1, <1>2, <1>3, <1>4 DEF RunBooked, VerdictBooked, On
  <2>4. RunBooked(r)'
    BY <2>1, <2>2, <2>3 DEF RunBooked
  <2>5. QED
    BY <1>1, <1>2, <1>3, <1>4, <2>4, BrokerParts, RunChanges
<1>5. ASSUME run[r].owned, run[r].cleaned \/ Poc!Exists(r),
             NEW b \in BoxStates, box' = [box EXCEPT ![r] = b], ~Poc!Exists(r)', b = "removed",
             \/ /\ run' = [run EXCEPT ![r].cleaned = TRUE] /\ lock' = Poc!Unlocked(r)
             \/ UNCHANGED <<run, lock>>
      PROVE  BrokerInv'
  <2>1. PICK x \in BrokerRun :
           /\ run' = [run EXCEPT ![r] = x] /\ run'[r] = x
           /\ x.status = run[r].status /\ x.target = run[r].target /\ x.result = run[r].result
           /\ x.intent = run[r].intent /\ x.owned = run[r].owned /\ x.started = run[r].started
           /\ x.probed = run[r].probed
    <3>1. CASE UNCHANGED run
      BY <3>1, BrokerParts
    <3>2. CASE run' = [run EXCEPT ![r].cleaned = TRUE]
      <4> DEFINE x == [run[r] EXCEPT !.cleaned = TRUE]
      <4>1. /\ x \in BrokerRun
            /\ x.status = run[r].status /\ x.target = run[r].target /\ x.result = run[r].result
            /\ x.intent = run[r].intent /\ x.owned = run[r].owned /\ x.started = run[r].started
            /\ x.probed = run[r].probed
        BY <1>1 DEF BrokerRun
      <4>2. run' = [run EXCEPT ![r] = x]
        BY <3>2
      <4> HIDE DEF x
      <4>3. run'[r] = x
        BY <4>2 DEF BrokerInv, BrokerTypes
      <4>4. QED
        BY <4>1, <4>2, <4>3
    <3>3. QED
      BY <1>5, <3>1, <3>2
  <2>2. box'[r] = b
    BY <1>5 DEF BrokerInv, BrokerTypes
  <2>3. box[r] # "none" /\ r \notin inflight /\ thread[r].pc \notin Before
    BY <1>1, <1>5 DEF RunBooked, ContainerBooked
  <2>4. Untouched(r)' /\ ContainerBooked(r)'
    BY <1>1, <1>2, <1>3, <1>5, <2>1, <2>2, <2>3 DEF RunBooked, Untouched, ContainerBooked, Before
  <2>5. Leased(r)'
    BY <1>1, <1>2, <1>5, <2>3 DEF Leased, Before
  <2>6. VerdictBooked(r)'
    BY <1>1, <1>2, <1>3, <2>1 DEF RunBooked, VerdictBooked, On
  <2>7. RunBooked(r)'
    BY <2>4, <2>5, <2>6 DEF RunBooked
  <2>8. lock' \in [Targets -> SUBSET Runs] /\ \A t \in Targets : lock[t] \ {r} \subseteq lock'[t]
    BY <1>5, LeaseReturned, BrokerParts
  <2>9. QED
    BY <1>1, <1>2, <1>3, <1>5, <2>1, <2>7, <2>8, BrokerParts, RunChanges
<1>6. CASE UNCHANGED <<Poc!store, box>>
  BY <1>4, <1>6 DEF Poc!store
<1>7. CASE ~UNCHANGED <<Poc!store, box>>
  <2>1. /\ run[r].owned /\ (run[r].cleaned \/ Poc!Exists(r))
        /\ box' = IF Poc!Exists(r) THEN [box EXCEPT ![r] = "removed"] ELSE box
        /\ \/ run' = [run EXCEPT ![r].cleaned = TRUE] /\ lock' = Poc!Unlocked(r)
           \/ UNCHANGED <<run, lock>>
    BY <1>1, <1>7 DEF Poc!confirm_cleanup, Poc!store
  <2>2. box' = [box EXCEPT ![r] = "removed"]
    <3>1. CASE Poc!Exists(r)
      BY <2>1, <3>1
    <3>2. CASE ~Poc!Exists(r)
      BY <1>1, <2>1, <3>2 DEF RunBooked, ContainerBooked, BrokerInv, BrokerTypes
    <3>3. QED
      BY <3>1, <3>2
  <2>3. box'[r] = "removed" /\ "removed" \in BoxStates
    BY <2>2 DEF BrokerInv, BrokerTypes, BoxStates
  <2>4. ~Poc!Exists(r)'
    BY <2>3 DEF Poc!Exists
  <2>5. QED
    BY <1>5, <2>1, <2>2, <2>3, <2>4
<1>8. QED
  BY <1>6, <1>7

\* A run is admitted: it gets the lease of its target, and a thread or nothing.
LEMMA AdmitStep ==
  ASSUME BrokerInv, NEW r \in Runs, Poc!admit(r)
  PROVE  BrokerInv'
<1> DEFINE x == [run[r] EXCEPT !.status = "running"]
           t == Poc!TargetOf(r)
<1>1. /\ UNCHANGED <<gen, box, inflight, starts>> /\ run' = [run EXCEPT ![r] = x]
      /\ run[r].status = "issued" /\ lock[t] = {} /\ lock' = [lock EXCEPT ![t] = {r}]
  BY DEF Poc!admit, Poc!daemon
<1>2. run[r] \in BrokerRun /\ caller[r] \in BrokerCaller /\ RunBooked(r)
  BY BrokerParts
<1>3. t \in Targets /\ On(r, t)
  BY <1>1, TargetKnown
<1>4. /\ x \in BrokerRun /\ x.status = "running" /\ x.target = run[r].target
      /\ x.result = run[r].result /\ x.intent = run[r].intent /\ x.owned = run[r].owned
      /\ x.started = run[r].started /\ x.cleaned = run[r].cleaned
  BY <1>2 DEF BrokerRun
<1> HIDE DEF x
<1>5. run'[r] = x
  BY <1>1 DEF BrokerInv, BrokerTypes
<1> HIDE DEF t
<1>6. /\ lock' \in [Targets -> SUBSET Runs] /\ r \in lock'[t]
      /\ \A u \in Targets : lock[u] \subseteq lock'[u]
  BY <1>1, <1>3 DEF BrokerInv, BrokerTypes
<1>7. PICK h \in BrokerThread, c \in BrokerCaller :
         /\ thread' = [thread EXCEPT ![r] = h] /\ thread'[r] = h
         /\ caller' = [caller EXCEPT ![r] = c] /\ caller'[r] = c
         /\ c.pc = "finish" => c.result = "unknown"
         /\ c.pc \in {"wait", "finish"} /\ h.pc \in {"none", "inspect"}
         /\ c.nocreate => h.pc = "none"
  <2>1. CASE Poc!ThreadTo(r, "inspect") /\ caller' = [caller EXCEPT ![r].pc = "wait"]
    <3> DEFINE c == [caller[r] EXCEPT !.pc = "wait"]
    <3>1. c \in BrokerCaller /\ c.pc = "wait" /\ ~c.nocreate
      BY <1>1, <1>2 DEF BrokerCaller, RunBooked, Untouched
    <3>2. caller' = [caller EXCEPT ![r] = c]
      BY <2>1
    <3> HIDE DEF c
    <3>3. caller'[r] = c
      BY <3>2 DEF BrokerInv, BrokerTypes
    <3>4. PICK h \in BrokerThread : /\ thread' = [thread EXCEPT ![r] = h] /\ thread'[r] = h
                                    /\ h.pc = "inspect"
      BY <2>1, ThreadGoes DEF ThreadPoints
    <3>5. QED
      BY <3>1, <3>2, <3>3, <3>4
  <2>2. CASE /\ UNCHANGED thread
             /\ caller' = [caller EXCEPT ![r].pc = "finish", ![r].result = "unknown",
                                         ![r].nocreate = TRUE]
    <3> DEFINE c == [caller[r] EXCEPT !.pc = "finish", !.result = "unknown", !.nocreate = TRUE]
    <3>1. c \in BrokerCaller /\ c.pc = "finish" /\ c.result = "unknown"
      BY <1>2 DEF BrokerCaller, Outcomes
    <3>2. caller \in [Runs -> BrokerCaller]
      BY DEF BrokerInv, BrokerTypes
    <3>3. caller' = [caller EXCEPT ![r] = c]
      BY <2>2, <3>2
    <3> HIDE DEF c
    <3>4. caller'[r] = c
      BY <3>2, <3>3
    <3>5. thread[r].pc = "none"
      BY <1>1, <1>2 DEF RunBooked, Untouched
    <3>6. QED
      BY <2>2, <3>1, <3>3, <3>4, <3>5, BrokerParts
  <2>3. QED
    BY <2>1, <2>2 DEF Poc!admit
<1>8. ~run[r].intent /\ thread[r].pc = "none"
  BY <1>1, <1>2 DEF RunBooked, Untouched
<1>9. Untouched(r)' /\ ContainerBooked(r)'
  BY <1>1, <1>2, <1>4, <1>5, <1>7, <1>8 DEF RunBooked, Untouched, ContainerBooked, Before
<1>10. Leased(r)'
  BY <1>3, <1>4, <1>5, <1>6 DEF Leased, On
<1>11. VerdictBooked(r)'
  BY <1>1, <1>2, <1>4, <1>5, <1>7 DEF RunBooked, VerdictBooked, Untouched
<1>12. RunBooked(r)'
  BY <1>9, <1>10, <1>11 DEF RunBooked
<1>13. QED
  BY <1>1, <1>4, <1>6, <1>7, <1>12, BrokerParts, RunChanges

LEMMA BrokerReconcileStep ==
  ASSUME BrokerInv, NEW r \in Runs, Poc!reconcile(r)
  PROVE  BrokerInv'
<1> DEFINE x == [run[r] EXCEPT !.owned = TRUE]
<1>1. /\ UNCHANGED <<lock, thread, caller, gen, box, inflight, starts>>
      /\ run' = [run EXCEPT ![r] = x]
  BY DEF Poc!reconcile, Poc!daemon
<1>2. run[r] \in BrokerRun /\ RunBooked(r) /\ box[r] = "created"
  BY BrokerParts DEF Poc!reconcile
<1>3. /\ x \in BrokerRun /\ x.status = run[r].status /\ x.target = run[r].target
      /\ x.result = run[r].result /\ x.intent = run[r].intent /\ x.cleaned = run[r].cleaned
      /\ x.probed = run[r].probed /\ x.started = run[r].started
  BY <1>2 DEF BrokerRun
<1> HIDE DEF x
<1>4. run'[r] = x
  BY <1>1 DEF BrokerInv, BrokerTypes
<1>5. Untouched(r)' /\ ContainerBooked(r)'
  BY <1>1, <1>2, <1>3, <1>4 DEF RunBooked, Untouched, ContainerBooked, Before
<1>6. Leased(r)'
  BY <1>1, <1>2, <1>3, <1>4 DEF RunBooked, Leased, Poc!Exists, On
<1>7. VerdictBooked(r)'
  BY <1>1, <1>2, <1>3, <1>4 DEF RunBooked, VerdictBooked, On
<1>8. RunBooked(r)'
  BY <1>5, <1>6, <1>7 DEF RunBooked
<1>9. /\ thread' = [thread EXCEPT ![r] = thread[r]] /\ caller' = [caller EXCEPT ![r] = caller[r]]
      /\ box' = [box EXCEPT ![r] = box[r]] /\ starts' = [starts EXCEPT ![r] = starts[r]]
  BY <1>1, BrokerParts
<1>10. QED
  BY <1>1, <1>3, <1>8, <1>9, BrokerParts, RunChanges

\* The caller and the thread of a run die; the create call of the thread may
\* still be on its way.
LEMMA DieStep ==
  ASSUME BrokerInv, NEW r \in Runs, Poc!Die(r)
  PROVE  BrokerInv'
<1>1. /\ UNCHANGED <<run, lock, gen, box, starts>>
      /\ thread' = [thread EXCEPT ![r] = Poc!NoThread] /\ caller' = [caller EXCEPT ![r] = Poc!NoCaller]
      /\ \/ UNCHANGED inflight
         \/ thread[r].pc = "creating" /\ inflight' = inflight \cup {r}
  BY DEF Poc!Die, Poc!store, Poc!ThreadAt
<1>2. /\ Poc!NoThread \in BrokerThread /\ Poc!NoThread.pc = "none"
      /\ Poc!NoCaller \in BrokerCaller /\ Poc!NoCaller.pc = "none" /\ ~Poc!NoCaller.nocreate
  BY DEF Poc!NoThread, Poc!NoCaller, BrokerThread, BrokerCaller, ThreadPoints, Outcomes
<1>3. thread'[r] = Poc!NoThread /\ caller'[r] = Poc!NoCaller
  BY <1>1 DEF BrokerInv, BrokerTypes
<1>4. RunBooked(r)
  BY BrokerParts
<1>5. Untouched(r)' /\ ContainerBooked(r)'
  BY <1>1, <1>2, <1>3, <1>4 DEF RunBooked, Untouched, ContainerBooked, Before
<1>6. Leased(r)'
  BY <1>1, <1>2, <1>3, <1>4 DEF RunBooked, Leased, Poc!Exists, On, Before
<1>7. VerdictBooked(r)'
  BY <1>1, <1>2, <1>3, <1>4 DEF RunBooked, VerdictBooked, On
<1>8. RunBooked(r)'
  BY <1>5, <1>6, <1>7 DEF RunBooked
<1>9. inflight' \in SUBSET Runs /\ inflight' \ {r} = inflight \ {r}
  BY <1>1, BrokerParts
<1>10. QED
  BY <1>1, <1>2, <1>8, <1>9, BrokerParts, RunChanges

LEMMA CreateLateStep ==
  ASSUME BrokerInv, NEW r \in Runs, Poc!CreateLate(r)
  PROVE  BrokerInv'
<1>1. /\ UNCHANGED <<run, lock, thread, caller, gen, starts>>
      /\ r \in inflight /\ inflight' = inflight \ {r} /\ box' = [box EXCEPT ![r] = "created"]
  BY DEF Poc!CreateLate, Poc!store
<1>2. box'[r] = "created" /\ "created" \in BoxStates
  BY <1>1 DEF BrokerInv, BrokerTypes, BoxStates
<1>3. RunBooked(r)
  BY BrokerParts
<1>4. Untouched(r)' /\ ContainerBooked(r)'
  BY <1>1, <1>2, <1>3 DEF RunBooked, Untouched, ContainerBooked
<1>5. Leased(r)'
  BY <1>1, <1>3 DEF RunBooked, Leased, On
<1>6. VerdictBooked(r)'
  BY <1>1, <1>3 DEF RunBooked, VerdictBooked, On
<1>7. RunBooked(r)'
  BY <1>4, <1>5, <1>6 DEF RunBooked
<1>8. inflight' \in SUBSET Runs /\ inflight' \ {r} = inflight \ {r}
  BY <1>1, BrokerParts
<1>9. QED
  BY <1>1, <1>2, <1>7, <1>8, BrokerParts, RunChanges

LEMMA IssueStep ==
  ASSUME BrokerInv, NEW r \in Runs, NEW t \in Targets, Poc!issue(r, t)
  PROVE  BrokerInv'
<1> DEFINE x == [run[r] EXCEPT !.status = "issued", !.target = {t}]
<1>1. /\ UNCHANGED <<lock, thread, caller, gen, box, inflight, starts>>
      /\ run[r].status = "none"
  BY DEF Poc!issue, Poc!daemon
<1>2. run[r] \in BrokerRun /\ RunBooked(r) /\ run \in [Runs -> BrokerRun]
  BY BrokerParts DEF BrokerInv, BrokerTypes
<1>3. run' = [run EXCEPT ![r] = x]
  BY <1>2 DEF Poc!issue
<1>4. /\ x \in BrokerRun /\ x.status = "issued" /\ x.target = {t}
      /\ x.result = run[r].result /\ x.intent = run[r].intent /\ x.cleaned = run[r].cleaned
      /\ x.owned = run[r].owned /\ x.probed = run[r].probed /\ x.started = run[r].started
  BY <1>2 DEF BrokerRun
<1> HIDE DEF x
<1>5. run'[r] = x
  BY <1>2, <1>3
<1>6. Untouched(r)' /\ ContainerBooked(r)'
  BY <1>1, <1>2, <1>4, <1>5 DEF RunBooked, Untouched, ContainerBooked
<1>7. Leased(r)'
  BY <1>1, <1>2 DEF RunBooked, Untouched, ContainerBooked, Leased, Poc!Exists, Before
<1>8. VerdictBooked(r)'
  BY <1>1, <1>2, <1>4, <1>5 DEF RunBooked, Untouched, VerdictBooked
<1>9. RunBooked(r)'
  BY <1>6, <1>7, <1>8 DEF RunBooked
<1>10. QED
  BY <1>1, <1>3, <1>4, <1>9, BrokerParts, RunChanges

\* What leaves every run as it is: a restart of a target and a deadline.
LEMMA OutsideStep ==
  ASSUME BrokerInv,
         \/ \E t \in Targets : Poc!RestartTarget(t)
         \/ \E r \in Runs : Poc!DeadlinePasses(r)
         \/ UNCHANGED Poc!vars
  PROVE  BrokerInv'
<1>1. UNCHANGED <<run, lock, thread, caller, box, inflight, starts>>
  BY DEF Poc!RestartTarget, Poc!DeadlinePasses, Poc!store, Poc!daemon, Poc!vars
<1>2. gen' \in [Targets -> Nat] /\ \A t \in Targets : gen'[t] >= gen[t]
  BY DEF BrokerInv, BrokerTypes, Poc!RestartTarget, Poc!DeadlinePasses, Poc!vars
<1>3. BrokerTypes'
  BY <1>1, <1>2 DEF BrokerInv, BrokerTypes
<1>4. ASSUME NEW r \in Runs PROVE RunBooked(r)'
  <2>1. RunBooked(r) /\ thread[r] \in BrokerThread
    BY BrokerParts
  <2>2. Untouched(r)' /\ ContainerBooked(r)'
    BY <1>1, <2>1 DEF RunBooked, Untouched, ContainerBooked
  <2>3. Leased(r)'
    BY <1>1, <2>1 DEF RunBooked, Leased, Poc!Exists, On
  <2>4. VerdictBooked(r)'
    <3>1. ASSUME thread[r].pc = "after", NEW t \in Targets, On(r, t)
          PROVE  thread[r].probed <= gen'[t]
      <4>1. thread[r].probed <= gen[t] /\ thread[r].probed \in Nat
        BY <2>1, <3>1 DEF RunBooked, VerdictBooked, BrokerThread
      <4>2. gen[t] \in Nat /\ gen'[t] \in Nat /\ gen'[t] >= gen[t]
        BY <1>2 DEF BrokerInv, BrokerTypes
      <4>3. QED
        BY <4>1, <4>2
    <3>2. QED
      BY <1>1, <2>1, <3>1 DEF RunBooked, VerdictBooked, On
  <2>5. QED
    BY <2>2, <2>3, <2>4 DEF RunBooked
<1>5. QED
  BY <1>3, <1>4 DEF BrokerInv

LEMMA BrokerInductive == BrokerInv /\ [Poc!Next]_(Poc!vars) => BrokerInv'
<1> SUFFICES ASSUME BrokerInv, [Poc!Next]_(Poc!vars) PROVE BrokerInv'
  OBVIOUS
<1>1. ASSUME NEW r \in Runs, Poc!Caller(r) PROVE BrokerInv'
  BY <1>1, AdmitStep, ReceiveStep, TimeoutStep, BrokerFinishStep, ReleaseStep DEF Poc!Caller
<1>2. ASSUME NEW r \in Runs, Poc!Thread(r) PROVE BrokerInv'
  BY <1>2, InspectStep, IntentStep, PrepareStep, OwnStep, RegisterStep, StartStepOfRunner,
     ProbeStep DEF Poc!Thread
<1>3. ASSUME NEW r \in Runs,
             \/ Poc!Cleanup(r) \/ Poc!ExecuteAgain(r) \/ Poc!reconcile(r) \/ Poc!Die(r) \/ Poc!CreateLate(r)
             \/ \E t \in Targets : Poc!issue(r, t)
      PROVE  BrokerInv'
  BY <1>3, CleanupStep, BrokerFinishStep, BrokerReconcileStep, DieStep, CreateLateStep, IssueStep
<1>4. QED
  BY <1>1, <1>2, <1>3, OutsideStep DEF Poc!Next

LEMMA BrokerInit == Poc!Init => BrokerInv
<1> SUFFICES ASSUME Poc!Init PROVE BrokerInv
  OBVIOUS
<1>1. Poc!Blank \in BrokerRun /\ Poc!NoThread \in BrokerThread /\ Poc!NoCaller \in BrokerCaller
  BY
     DEF Poc!Blank, Poc!NoThread, Poc!NoCaller, BrokerRun, BrokerThread, BrokerCaller,
         ThreadPoints, Outcomes
<1>2. BrokerTypes
  BY <1>1 DEF Poc!Init, BrokerTypes, BoxStates
<1>3. ASSUME NEW r \in Runs PROVE RunBooked(r)
  <2>1. /\ run[r] = Poc!Blank /\ thread[r] = Poc!NoThread /\ caller[r] = Poc!NoCaller
        /\ box[r] = "none" /\ r \notin inflight /\ starts[r] = 0
    BY DEF Poc!Init
  <2>2. Untouched(r) /\ ContainerBooked(r)
    BY <2>1 DEF Untouched, ContainerBooked, Poc!Blank, Poc!NoThread, Poc!NoCaller, Before
  <2>3. Leased(r) /\ VerdictBooked(r)
    BY <2>1 DEF Leased, Poc!Exists, VerdictBooked, Poc!Blank, Poc!NoThread, Poc!NoCaller, Before
  <2>4. QED
    BY <2>2, <2>3 DEF RunBooked
<1>4. QED
  BY <1>2, <1>3 DEF BrokerInv

LEMMA BrokerPromises == BrokerInv => Poc!LeaseHeld /\ Poc!VerdictOfEnrolled
<1> SUFFICES ASSUME BrokerInv PROVE Poc!LeaseHeld /\ Poc!VerdictOfEnrolled
  OBVIOUS
<1>1. ASSUME NEW r \in Runs, Poc!Exists(r) \/ r \in inflight \/ Poc!ThreadAt(r, "creating")
      PROVE  r \in lock[Poc!TargetOf(r)]
  <2>1. Leased(r) /\ run[r].intent
    BY <1>1, BrokerParts DEF RunBooked, ContainerBooked, Poc!Exists, Poc!ThreadAt
  <2>2. run[r].status # "none"
    BY <2>1, BrokerParts DEF RunBooked, Untouched
  <2>3. QED
    BY <1>1, <2>1, <2>2, TargetKnown DEF Leased, Poc!ThreadAt, Before
<1>2. Poc!VerdictOfEnrolled
  BY BrokerParts DEF RunBooked, VerdictBooked, Poc!VerdictOfEnrolled
<1>3. QED
  BY <1>1, <1>2 DEF Poc!LeaseHeld

\* What a step does to the starts and the results of a run.
LEMMA BrokerSteps ==
  BrokerInv /\ Poc!Next => Poc!StartWhileRunning /\ Poc!ResultStays
<1> SUFFICES ASSUME BrokerInv, Poc!Next PROVE Poc!StartWhileRunning /\ Poc!ResultStays
  OBVIOUS
<1>1. Poc!StartWhileRunning
  <2>1. ASSUME NEW r \in Runs, starts'[r] # starts[r]
        PROVE  run[r].status = "running" /\ starts[r] = 0
    <3>1. Poc!start_once(r)
      <4>1. CASE \E q \in Runs : Poc!start_once(q)
        BY <2>1, <4>1 DEF Poc!start_once, BrokerInv, BrokerTypes
      <4>2. CASE \A q \in Runs : ~Poc!start_once(q)
        BY <2>1, <4>2
           DEF Poc!Next, Poc!Caller, Poc!Thread, Poc!issue, Poc!admit, Poc!Receive, Poc!Timeout,
               Poc!Finish, Poc!release,
             Poc!ExecuteAgain, Poc!InspectTarget, Poc!create_intent, Poc!CheckCreate, Poc!Prepare, Poc!own_runner,
             Poc!register_runner, Poc!Probe, Poc!InspectAfter, Poc!Unread, Poc!Cleanup, Poc!reconcile,
             Poc!DeadlinePasses, Poc!Die, Poc!RestartTarget, Poc!CreateLate, Poc!daemon
      <4>3. QED
        BY <4>1, <4>2
    <3>2. Poc!MayStart(r)
      BY <2>1, <3>1 DEF Poc!start_once
    <3>3. QED
      BY <3>2, BrokerParts DEF Poc!MayStart, Poc!StartReceipt, RunBooked, VerdictBooked
  <2>2. QED
    BY <2>1 DEF Poc!StartWhileRunning
<1>2. Poc!ResultStays
  <2>1. ASSUME NEW q \in Runs, NEW v, NEW n, run' = Poc!Finished(q, v, n)
        PROVE  Poc!ResultStays
    <3>1. run[q].status = "running" => run[q].result = "none"
      BY BrokerParts DEF RunBooked, Untouched
    <3>2. \A r \in Runs : r # q => run'[r] = run[r]
      BY <2>1 DEF Poc!Finished, BrokerInv, BrokerTypes
    <3>3. run[q].status # "running" => run'[q] = run[q]
      BY <2>1 DEF Poc!Finished
    <3>4. QED
      BY <3>1, <3>2, <3>3 DEF Poc!ResultStays
  <2>2. ASSUME NEW q \in Runs, NEW x, run' = [run EXCEPT ![q] = x], x.result = run[q].result
        PROVE  Poc!ResultStays
    BY <2>2 DEF Poc!ResultStays, BrokerInv, BrokerTypes
  <2>3. ASSUME UNCHANGED run PROVE Poc!ResultStays
    BY <2>3 DEF Poc!ResultStays
  <2>4. ASSUME NEW q \in Runs, Poc!Caller(q) \/ Poc!ExecuteAgain(q) PROVE Poc!ResultStays
    <3>1. CASE Poc!admit(q)
      <4> DEFINE x == [run[q] EXCEPT !.status = "running"]
      <4>1. run' = [run EXCEPT ![q] = x] /\ x.result = run[q].result
        BY <3>1, BrokerParts DEF Poc!admit, BrokerRun
      <4> HIDE DEF x
      <4>2. QED
        BY <2>2, <4>1
    <3>2. CASE Poc!Receive(q) \/ Poc!Timeout(q) \/ Poc!release(q)
      BY <2>3, <3>2 DEF Poc!Receive, Poc!Timeout, Poc!release, Poc!store
    <3>3. CASE Poc!Finish(q) \/ Poc!ExecuteAgain(q)
      BY <2>1, <3>3 DEF Poc!Finish, Poc!ExecuteAgain
    <3>4. QED
      BY <2>4, <3>1, <3>2, <3>3 DEF Poc!Caller
  <2>5. ASSUME NEW q \in Runs, Poc!Thread(q) PROVE Poc!ResultStays
    <3>1. CASE Poc!create_intent(q)
      <4> DEFINE x == [run[q] EXCEPT !.intent = TRUE]
      <4>1. x.result = run[q].result
        BY BrokerParts DEF BrokerRun
      <4>2. UNCHANGED run \/ run' = [run EXCEPT ![q] = x]
        BY <3>1 DEF Poc!create_intent
      <4> HIDE DEF x
      <4>3. QED
        BY <2>2, <2>3, <4>1, <4>2
    <3>2. CASE Poc!own_runner(q)
      <4> DEFINE x == [run[q] EXCEPT !.owned = TRUE]
      <4>1. run' = [run EXCEPT ![q] = x] /\ x.result = run[q].result
        BY <3>2, BrokerParts DEF Poc!own_runner, BrokerRun
      <4> HIDE DEF x
      <4>2. QED
        BY <2>2, <4>1
    <3>3. CASE Poc!register_runner(q)
      <4> DEFINE x == [run[q] EXCEPT !.runner = TRUE]
      <4>1. x.result = run[q].result
        BY BrokerParts DEF BrokerRun
      <4>2. UNCHANGED run \/ run' = [run EXCEPT ![q] = x]
        BY <3>3 DEF Poc!register_runner
      <4> HIDE DEF x
      <4>3. QED
        BY <2>2, <2>3, <4>1, <4>2
    <3>4. CASE Poc!start_once(q)
      <4> DEFINE x == [run[q] EXCEPT !.started = run[q].started \/ Poc!StartReceipt(q)]
      <4>1. run' = [run EXCEPT ![q] = x] /\ x.result = run[q].result
        BY <3>4, BrokerParts DEF Poc!start_once, BrokerRun
      <4> HIDE DEF x
      <4>2. QED
        BY <2>2, <4>1
    <3>5. CASE Poc!InspectTarget(q) \/ Poc!CheckCreate(q) \/ Poc!Prepare(q) \/ Poc!Probe(q) \/ Poc!InspectAfter(q) \/ Poc!Unread(q)
      BY <2>3, <3>5
         DEF Poc!InspectTarget, Poc!CheckCreate, Poc!Prepare, Poc!Probe, Poc!InspectAfter,
             Poc!Unread, Poc!store
    <3>6. QED
      BY <2>5, <3>1, <3>2, <3>3, <3>4, <3>5 DEF Poc!Thread
  <2>6. ASSUME NEW q \in Runs, Poc!Cleanup(q) PROVE Poc!ResultStays
    <3> DEFINE x == [run[q] EXCEPT !.cleaned = TRUE]
    <3>1. x.result = run[q].result
      BY BrokerParts DEF BrokerRun
    <3>2. UNCHANGED run \/ run' = [run EXCEPT ![q] = x]
      BY <2>6 DEF Poc!Cleanup, Poc!confirm_cleanup, Poc!store
    <3> HIDE DEF x
    <3>3. QED
      BY <2>2, <2>3, <3>1, <3>2
  <2>7. ASSUME NEW q \in Runs, Poc!reconcile(q) PROVE Poc!ResultStays
    <3> DEFINE x == [run[q] EXCEPT !.owned = TRUE]
    <3>1. run' = [run EXCEPT ![q] = x] /\ x.result = run[q].result
      BY <2>7, BrokerParts DEF Poc!reconcile, BrokerRun
    <3> HIDE DEF x
    <3>2. QED
      BY <2>2, <3>1
  <2>8. ASSUME NEW q \in Runs, NEW t \in Targets, Poc!issue(q, t) PROVE Poc!ResultStays
    <3> DEFINE x == [run[q] EXCEPT !.status = "issued", !.target = {t}]
    <3>1. run \in [Runs -> BrokerRun] /\ x.result = run[q].result
      BY BrokerParts DEF BrokerRun, BrokerInv, BrokerTypes
    <3>2. run' = [run EXCEPT ![q] = x]
      BY <2>8, <3>1 DEF Poc!issue
    <3> HIDE DEF x
    <3>3. QED
      BY <2>2, <3>1, <3>2
  <2>9. ASSUME \/ \E q \in Runs : Poc!DeadlinePasses(q) \/ Poc!Die(q) \/ Poc!CreateLate(q)
               \/ \E t \in Targets : Poc!RestartTarget(t)
        PROVE  Poc!ResultStays
    BY <2>3, <2>9 DEF Poc!DeadlinePasses, Poc!Die, Poc!CreateLate, Poc!RestartTarget, Poc!store
  <2>10. QED
    BY <2>4, <2>5, <2>6, <2>7, <2>8, <2>9 DEF Poc!Next
<1>3. QED
  BY <1>1, <1>2

LEMMA BrokerInvariant == Poc!Spec => []BrokerInv
BY BrokerInit, BrokerInductive, PTL DEF Poc!Spec

(* For any number of runs, targets and faults: whatever exists of a runner, *)
(* or may still be created, holds the lease of its target, and a verdict is *)
(* of the target as it was enrolled, by a runner that was started.          *)
THEOREM BrokerSafe == Poc!Spec => [](Poc!LeaseHeld /\ Poc!VerdictOfEnrolled)
BY BrokerInvariant, BrokerPromises, PTL

(* A runner is started once and only while its run is open, and a recorded  *)
(* result is never replaced, although the thread outlives the call that     *)
(* finished its run.                                                        *)
THEOREM BrokerFinal == Poc!Spec => Poc!StartsWhileRunning /\ Poc!ResultFinal
BY BrokerInvariant, BrokerSteps, PTL DEF Poc!Spec, Poc!StartsWhileRunning, Poc!ResultFinal

-----------------------------------------------------------------------------
(* The live runtime: the inductive invariant.                              *)

\* A target is not a run.
Separate == Pair \cap Runs = {}

\* ------------------------------------------------------------------- types

Points ==
  {"idle", "create", "fence", "call", "respond", "start", "start_call",
   "unconfirmed", "quarantine", "abandon", "look", "enroll", "enroll2",
   "before_create", "before_start", "before_probe", "after_probe",
   "before_publish", "authorize", "live", "release", "probe",
   "record_probe", "finish", "wait", "finished", "publish", "confirm",
   "remove", "ack", "record_cleanup", "revoke"}
Looks == {"enroll", "before_create", "before_start", "live", "before_probe",
          "after_probe", "before_publish", "finished"}
\* Points whose processes have nothing to vouch for.
Plain == Points \ {"call", "start_call", "look", "probe", "record_probe",
                   "after_probe", "ack", "record_cleanup"}

Box == [status : {"none", "created", "running", "exited", "removed"}, gen : Nat]
LiveOutcomes == {"none", "passed", "failed", "unknown"}
Measure == [target : Nat, runner : Nat, outcome : LiveOutcomes]
Seen == [target : Box, runner : Box, probe : Measure]
Ons == {s \in SUBSET Live!Objects : \A x, y \in s : x = y}
Process == [pc : Points, on : Ons, phase : Looks \cup {"none"}, seen : Seen]
Calls == [create : Nat, start : Nat]
Phases ==
  {"absent", "intent_recorded", "create_requested", "exact_id_recorded",
   "identity_verified", "enrolled", "quarantined", "reserved",
   "checked_create", "runner_owned", "checked_start", "start_authorized",
   "start_requested", "start_invoked", "running", "probe_ready",
   "probe_recorded", "post_checked", "publish_checked", "terminal"}
Cleanups == {"not_required", "quarantined", "pending", "retained", "confirmed"}
Documents == {"create_dispatch", "owned", "start_dispatch", "enrollment",
              "probe_release", "finish_dispatch", "runner_finished",
              "remove_ack", "cleanup"}
Row == [phase : Phases, cleanup : Cleanups, epoch : Nat, result : LiveOutcomes,
        docs : SUBSET Documents, target : SUBSET Pair, base : Nat,
        probe : Measure]

LiveTypes ==
  /\ control \in [enabled : BOOLEAN, epoch : Nat, stopped : BOOLEAN]
  /\ obj \in [Live!Objects -> Row]
  /\ box \in [Live!Objects -> Box]
  /\ calls \in [Live!Objects -> Calls]
  /\ proc \in [Procs -> Process]
  /\ inflight \subseteq {"create", "start", "remove"} \X Live!Objects

\* --------------------------------------------------------------- invariant

Early == {"absent", "reserved", "checked_create", "create_requested",
          "runner_owned", "checked_start", "start_authorized"}
Started == {"start_invoked", "running", "probe_ready", "probe_recorded",
            "post_checked", "publish_checked"}
Recorded == {"probe_recorded", "post_checked", "publish_checked", "terminal",
             "quarantined"}
Released == Recorded \cup {"probe_ready"}

\* The books of an object: its cleanup is owed from the dispatch on and
\* confirmed only when the container is gone.
LiveBooked(o, row, b) ==
  /\ row.phase = "absent" => row = Live!Absent
  /\ row.phase = "create_requested" => row.cleanup = "quarantined"
  /\ "create_dispatch" \in row.docs => row.cleanup # "not_required"
  /\ row.cleanup = "confirmed" => b.status = "removed"
  /\ o \in Runs => row.cleanup # "retained"
  /\ row.result # "none" => row.phase = "terminal" /\ o \in Runs

\* One call of each kind: it is dispatched, then made, then lost or executed.
Counted(o, row, b, c, flight) ==
  /\ c.create <= 1 /\ c.start <= 1
  /\ c.create = 1 => "create_dispatch" \in row.docs
  /\ c.start = 1 => "start_dispatch" \in row.docs
  /\ <<"create", o>> \in flight => c.create = 1 /\ b.status = "none"
  /\ b.status # "none" => c.create = 1
  /\ b.status \in {"none", "created"} => b.gen = 0
  /\ row.base <= b.gen

\* The order of the documents.
Ordered(o, row, c) ==
  /\ o \in Runs =>
       /\ row.phase \in Early => "start_dispatch" \notin row.docs
       /\ row.phase \in Started => c.start = 1
       /\ "probe_release" \in row.docs => row.phase \in Released /\ c.start = 1
       /\ row.phase # "absent" => \E t \in Pair : row.target = {t}
  /\ o \in Pair =>
       /\ row.phase = "enrolled" => "enrollment" \in row.docs
       /\ "enrollment" \in row.docs => row.phase \in {"enrolled", "quarantined"}

Matches(row) ==
  /\ \A t \in row.target : row.probe.target = obj[t].base
  /\ row.probe.runner = row.base

\* A recorded probe lies between the baselines and the present, and at them
\* once the target was found unchanged after it.
Measured(row, b) ==
  /\ \A t \in row.target :
       "enrollment" \in obj[t].docs /\ row.probe.target <= box[t].gen
  /\ row.probe.runner <= b.gen
  /\ row.phase \in {"probe_recorded", "post_checked", "publish_checked"} =>
       /\ row.probe.outcome # "none"
       /\ \A t \in row.target : obj[t].base <= row.probe.target
       /\ row.base <= row.probe.runner
  /\ \/ row.phase \in {"post_checked", "publish_checked"}
     \/ row.result \in {"passed", "failed"}
     => Matches(row)
  /\ row.result \in {"passed", "failed"} => row.result = row.probe.outcome

Sound(o, row, b, c, flight) ==
  /\ LiveBooked(o, row, b) /\ Counted(o, row, b, c, flight) /\ Ordered(o, row, c)

\* What a process at a point vouches for.
Vouches(q) ==
  \A o \in q.on :
    /\ obj[o].phase # "absent"
    /\ q.pc = "call" => "create_dispatch" \in obj[o].docs /\ calls[o].create = 0
    /\ q.pc = "start_call" => "start_dispatch" \in obj[o].docs /\ calls[o].start = 0
    /\ q.pc \in {"ack", "record_cleanup"} => box[o].status = "removed"
    /\ q.pc = "look" => q.phase \in Looks
    /\ o \in Pair => q.seen.target.gen <= box[o].gen
    /\ o \in Runs =>
         /\ q.seen.runner.gen <= box[o].gen
         /\ q.pc \in {"probe", "record_probe"} => "probe_release" \in obj[o].docs
         /\ q.pc = "record_probe" =>
              /\ q.seen.probe.outcome # "none"
              /\ \A t \in obj[o].target : /\ obj[t].base <= q.seen.probe.target
                                          /\ q.seen.probe.target <= box[t].gen
              /\ obj[o].base <= q.seen.probe.runner
              /\ q.seen.probe.runner <= box[o].gen
         /\ q.pc = "after_probe" \/ (q.pc = "look" /\ q.phase = "after_probe") =>
              "probe_release" \in obj[o].docs /\ obj[o].phase \in Recorded
         /\ q.pc = "after_probe" =>
              /\ \A t \in obj[o].target : obj[o].probe.target <= q.seen.target.gen
              /\ obj[o].probe.runner <= q.seen.runner.gen

OneCaller ==
  \A p, q \in Procs :
    /\ proc[p].pc \in {"call", "start_call"}
    /\ proc[p].pc = proc[q].pc /\ proc[p].on = proc[q].on
    => p = q

\* An admitted object whose container may exist or still come.
Pending(o) ==
  /\ obj[o].phase # "absent" /\ box[o].status # "removed"
  /\ obj[o].result = "none" \/ "create_dispatch" \in obj[o].docs

OnePending ==
  /\ \A t, u \in Pair : Pending(t) /\ Pending(u) => t = u
  /\ \A r, q \in Runs : Pending(r) /\ Pending(q) => r = q

Rows == \A o \in Live!Objects : Sound(o, obj[o], box[o], calls[o], inflight)
Measures == \A r \in Runs : Measured(obj[r], box[r])
Processes == \A p \in Procs : Vouches(proc[p])

LiveInv ==
  LiveTypes /\ Rows /\ Measures /\ Processes /\ OneCaller /\ OnePending

\* ------------------------------------------------------ what a step may do

\* The row, the container and the calls of an admitted object change.
LiveFollows(o, row, b, c) ==
  /\ obj[o].phase # "absent" /\ row.phase # "absent"
  /\ obj[o].docs \subseteq row.docs
  /\ row.target = obj[o].target
  /\ row.base # obj[o].base => obj[o].phase \in {"exact_id_recorded", "start_invoked"}
  /\ row.probe # obj[o].probe => obj[o].phase = "probe_ready"
  /\ o \in Runs /\ obj[o].phase \in Recorded /\ calls[o].start = 1
       => row.phase \in Recorded
  /\ obj[o].result # "none" /\ "create_dispatch" \notin obj[o].docs
       => row.result # "none" /\ "create_dispatch" \notin row.docs
  /\ box[o].gen <= b.gen
  /\ box[o].status = "removed" => b.status = "removed"
  /\ calls[o].start = 1 => c.start = 1
  /\ o \in Runs => Measured(row, b)

\* Others see nothing of it, whatever they are at.
LEMMA Stable ==
  ASSUME Separate, LiveInv, NEW o \in Live!Objects,
         NEW row \in Row, NEW b \in Box, NEW c \in Calls,
         obj' = [obj EXCEPT ![o] = row], box' = [box EXCEPT ![o] = b],
         calls' = [calls EXCEPT ![o] = c],
         \A x \in Live!Objects \ {o} : <<"create", x>> \in inflight' => <<"create", x>> \in inflight,
         LiveFollows(o, row, b, c), Sound(o, row, b, c, inflight')
  PROVE  /\ Rows' /\ Measures' /\ OnePending'
         /\ \A q \in Process :
              /\ Vouches(q)
              /\ o \in q.on /\ q.pc = "call" => c.create = 0
              /\ o \in q.on /\ q.pc = "start_call" => c.start = 0
              => Vouches(q)'
  <1>0. /\ obj \in [Live!Objects -> Row] /\ box \in [Live!Objects -> Box] /\ calls \in [Live!Objects -> Calls]
        /\ Rows /\ Measures /\ OnePending
    BY DEF LiveInv, LiveTypes
  <1>1. /\ obj'[o] = row /\ box'[o] = b /\ calls'[o] = c
        /\ \A x \in Live!Objects \ {o} : obj'[x] = obj[x] /\ box'[x] = box[x] /\ calls'[x] = calls[x]
    BY <1>0
  <1>2. Pair \subseteq Live!Objects /\ Runs \subseteq Live!Objects  BY DEF Live!Objects
  <1>3. Rows'
    <2> SUFFICES ASSUME NEW x \in Live!Objects
                 PROVE  Sound(x, obj'[x], box'[x], calls'[x], inflight')
      BY DEF Rows
    <2>1. CASE x = o  BY <1>1, <2>1
    <2>2. CASE x # o
      <3>1. Sound(x, obj[x], box[x], calls[x], inflight)  BY <1>0 DEF Rows
      <3> QED  BY <1>1, <2>2, <3>1 DEF Sound, Counted
    <2> QED  BY <2>1, <2>2
  \* An enrolled target keeps its baseline, and no container goes back.
  <1>4. \A t \in Pair :
          /\ "enrollment" \in obj[t].docs => "enrollment" \in obj'[t].docs
                                             /\ obj'[t].base = obj[t].base
          /\ box[t].gen <= box'[t].gen
    <2> SUFFICES ASSUME NEW t \in Pair
                 PROVE  /\ "enrollment" \in obj[t].docs => "enrollment" \in obj'[t].docs
                                                           /\ obj'[t].base = obj[t].base
                        /\ box[t].gen <= box'[t].gen
      OBVIOUS
    <2>1. CASE t # o
      <3>1. box[t].gen \in Nat  BY <1>0, <1>2 DEF Box
      <3> QED  BY <1>1, <1>2, <2>1, <3>1
    <2>2. CASE t = o
      <3>1. "enrollment" \in obj[t].docs => obj[t].phase \in {"enrolled", "quarantined"}
        BY <1>0, <1>2 DEF Rows, Sound, Ordered
      <3> QED  BY <1>1, <2>2, <3>1 DEF LiveFollows
    <2> QED  BY <2>1, <2>2
  <1>5. Measures'
    <2> SUFFICES ASSUME NEW r \in Runs
                 PROVE  Measured(obj[r], box[r])'
      BY DEF Measures
    <2>0. PICK now, at : now = obj'[r] /\ at = box'[r]  OBVIOUS
    <2>1. Measured(now, at)
      <3>1. CASE r = o  BY <1>1, <2>0, <3>1 DEF LiveFollows
      <3>2. CASE r # o  BY <1>0, <1>1, <1>2, <2>0, <3>2 DEF Measures
      <3> QED  BY <3>1, <3>2
    <2>2. now \in Row
      BY <1>0, <1>1, <1>2, <2>0
    <2>3. now.target \subseteq Pair /\ now.probe.target \in Nat
      BY <2>2 DEF Row, Measure
    <2>4. ASSUME NEW t \in now.target
          PROVE  /\ "enrollment" \in obj'[t].docs /\ now.probe.target <= box'[t].gen
                 /\ obj'[t].base = obj[t].base
      <3>1. "enrollment" \in obj[t].docs /\ now.probe.target <= box[t].gen
        BY <2>1 DEF Measured
      <3>2. box[t].gen \in Nat /\ box'[t].gen \in Nat
        BY <1>0, <1>1, <1>2, <2>3 DEF Box
      <3> QED  BY <1>4, <2>3, <3>1, <3>2
    <2> QED  BY <2>0, <2>1, <2>4 DEF Measured, Matches
  <1>6. OnePending'
    <2>1. \A x \in Live!Objects : Pending(x)' => Pending(x)
      BY <1>1, <1>0 DEF Pending, LiveFollows
    <2> QED  BY <1>0, <1>2, <2>1 DEF OnePending
  <1>7. ASSUME NEW q \in Process, Vouches(q),
               o \in q.on /\ q.pc = "call" => c.create = 0,
               o \in q.on /\ q.pc = "start_call" => c.start = 0
        PROVE  Vouches(q)'
    <2> SUFFICES ASSUME NEW x \in q.on
                 PROVE  /\ obj'[x].phase # "absent"
                        /\ q.pc = "call" => "create_dispatch" \in obj'[x].docs /\ calls'[x].create = 0
                        /\ q.pc = "start_call" => "start_dispatch" \in obj'[x].docs
                                                  /\ calls'[x].start = 0
                        /\ q.pc \in {"ack", "record_cleanup"} => box'[x].status = "removed"
                        /\ q.pc = "look" => q.phase \in Looks
                        /\ x \in Pair => q.seen.target.gen <= box'[x].gen
                        /\ x \in Runs =>
                             /\ q.seen.runner.gen <= box'[x].gen
                             /\ q.pc \in {"probe", "record_probe"} => "probe_release" \in obj'[x].docs
                             /\ q.pc = "record_probe" =>
                                  /\ q.seen.probe.outcome # "none"
                                  /\ \A t \in obj'[x].target :
                                       /\ obj'[t].base <= q.seen.probe.target
                                       /\ q.seen.probe.target <= box'[t].gen
                                  /\ obj'[x].base <= q.seen.probe.runner
                                  /\ q.seen.probe.runner <= box'[x].gen
                             /\ q.pc = "after_probe" \/ (q.pc = "look" /\ q.phase = "after_probe") =>
                                  "probe_release" \in obj'[x].docs /\ obj'[x].phase \in Recorded
                             /\ q.pc = "after_probe" =>
                                  /\ \A t \in obj'[x].target : obj'[x].probe.target <= q.seen.target.gen
                                  /\ obj'[x].probe.runner <= q.seen.runner.gen
      BY DEF Vouches
    <2>0. x \in Live!Objects  BY DEF Process, Ons
    <2>1. /\ obj'[x].phase # "absent" /\ obj[x].docs \subseteq obj'[x].docs
          /\ obj'[x].target = obj[x].target /\ obj[x].target \subseteq Pair
          /\ box[x].gen <= box'[x].gen /\ box[x].gen \in Nat /\ box'[x].gen \in Nat
          /\ box[x].status = "removed" => box'[x].status = "removed"
      <3>1. obj[x] \in Row /\ box[x] \in Box  BY <1>0, <2>0
      <3>2. CASE x = o  BY <1>1, <3>1, <3>2 DEF LiveFollows, Row, Box
      <3>3. CASE x # o  BY <1>1, <1>7, <2>0, <3>1, <3>3 DEF Row, Box, Vouches
      <3> QED  BY <3>2, <3>3
    <2>2. /\ q.pc = "call" => "create_dispatch" \in obj'[x].docs /\ calls'[x].create = 0
          /\ q.pc = "start_call" => "start_dispatch" \in obj'[x].docs /\ calls'[x].start = 0
      <3>1. CASE x = o  BY <1>1, <1>7, <2>1, <3>1 DEF Vouches
      <3>2. CASE x # o  BY <1>1, <1>7, <2>0, <3>2 DEF Vouches
      <3> QED  BY <3>1, <3>2
    <2>3. /\ q.pc \in {"ack", "record_cleanup"} => box'[x].status = "removed"
          /\ q.pc = "look" => q.phase \in Looks
      BY <1>7, <2>1 DEF Vouches
    <2>a. q.seen.target.gen \in Nat /\ q.seen.runner.gen \in Nat
          /\ q.seen.probe.target \in Nat /\ q.seen.probe.runner \in Nat
      BY DEF Process, Seen, Box, Measure
    <2>4. /\ x \in Pair => q.seen.target.gen <= box'[x].gen
          /\ x \in Runs => q.seen.runner.gen <= box'[x].gen
      BY <1>7, <2>1, <2>a DEF Vouches
    <2>5. ASSUME x \in Runs
          PROVE  /\ q.pc \in {"probe", "record_probe"} => "probe_release" \in obj'[x].docs
                 /\ q.pc = "record_probe" =>
                      /\ q.seen.probe.outcome # "none"
                      /\ \A t \in obj'[x].target :
                           /\ obj'[t].base <= q.seen.probe.target
                           /\ q.seen.probe.target <= box'[t].gen
                      /\ obj'[x].base <= q.seen.probe.runner
                      /\ q.seen.probe.runner <= box'[x].gen
                 /\ q.pc = "after_probe" \/ (q.pc = "look" /\ q.phase = "after_probe") =>
                      "probe_release" \in obj'[x].docs /\ obj'[x].phase \in Recorded
                 /\ q.pc = "after_probe" =>
                      /\ \A t \in obj'[x].target : obj'[x].probe.target <= q.seen.target.gen
                      /\ obj'[x].probe.runner <= q.seen.runner.gen
      <3>1. "probe_release" \in obj[x].docs => obj[x].phase \in Released /\ calls[x].start = 1
        BY <1>0, <2>0, <2>5 DEF Rows, Sound, Ordered
      <3>2. "probe_release" \in obj[x].docs => obj'[x].base = obj[x].base
        BY <1>1, <2>0, <3>1 DEF LiveFollows, Released, Recorded
      <3>3. "probe_release" \in obj[x].docs /\ obj[x].phase \in Recorded
              => obj'[x].phase \in Recorded /\ obj'[x].probe = obj[x].probe
        BY <1>1, <2>0, <2>5, <3>1 DEF LiveFollows, Recorded
      <3>4. \A t \in obj[x].target :
              obj'[t].base = obj[t].base /\ box[t].gen <= box'[t].gen
        BY <1>0, <1>4, <2>1, <2>5 DEF Measures, Measured
      <3>5. \A t \in obj[x].target : box[t].gen \in Nat /\ box'[t].gen \in Nat
        BY <1>0, <1>1, <1>2, <2>1 DEF Box
      <3>6. q.pc \in {"probe", "record_probe"} => "probe_release" \in obj[x].docs
        BY <1>7, <2>5 DEF Vouches
      <3>7. q.pc = "record_probe" =>
              /\ q.seen.probe.outcome # "none"
              /\ \A t \in obj[x].target : /\ obj[t].base <= q.seen.probe.target
                                          /\ q.seen.probe.target <= box[t].gen
              /\ obj[x].base <= q.seen.probe.runner
              /\ q.seen.probe.runner <= box[x].gen
        BY <1>7, <2>5 DEF Vouches
      <3>8. q.pc = "record_probe" =>
              /\ \A t \in obj'[x].target : /\ obj'[t].base <= q.seen.probe.target
                                           /\ q.seen.probe.target <= box'[t].gen
              /\ obj'[x].base <= q.seen.probe.runner
              /\ q.seen.probe.runner <= box'[x].gen
        BY <2>1, <2>a, <3>2, <3>4, <3>5, <3>6, <3>7
      <3>9. q.pc = "after_probe" \/ (q.pc = "look" /\ q.phase = "after_probe") =>
              "probe_release" \in obj[x].docs /\ obj[x].phase \in Recorded
        BY <1>7, <2>5 DEF Vouches
      <3>10. q.pc = "after_probe" =>
              /\ \A t \in obj[x].target : obj[x].probe.target <= q.seen.target.gen
              /\ obj[x].probe.runner <= q.seen.runner.gen
        BY <1>7, <2>5 DEF Vouches
      <3> QED  BY <2>1, <3>3, <3>6, <3>7, <3>8, <3>9, <3>10
    <2> QED  BY <2>1, <2>2, <2>3, <2>4, <2>5
  <1> QED  BY <1>3, <1>5, <1>6, <1>7

\* What is known of one object.
LEMMA OneObject ==
  ASSUME LiveInv, NEW o \in Live!Objects
  PROVE  /\ obj[o] \in Row /\ box[o] \in Box /\ calls[o] \in Calls
         /\ LiveBooked(o, obj[o], box[o])
         /\ Counted(o, obj[o], box[o], calls[o], inflight)
         /\ Ordered(o, obj[o], calls[o])
         /\ o \in Runs => Measured(obj[o], box[o])
  BY DEF LiveInv, LiveTypes, Rows, Sound, Measures

LEMMA OneProcess ==
  ASSUME LiveInv, NEW p \in Procs
  PROVE  proc[p] \in Process /\ Vouches(proc[p])
  BY DEF LiveInv, LiveTypes, Processes

Working(o) == \E p \in Procs : o \in proc[p].on

Callers(p, o, q, c) ==
  /\ c.create # calls[o].create => proc[p].pc = "call" /\ proc[p].on = {o}
  /\ c.start # calls[o].start => proc[p].pc = "start_call" /\ proc[p].on = {o}
  /\ q.pc \in {"call", "start_call"} =>
       \A r \in Procs \ {p} : ~(proc[r].pc = q.pc /\ proc[r].on = q.on)

LEMMA Moves ==
  ASSUME Separate, LiveInv, NEW p \in Procs, NEW o \in Live!Objects,
         NEW row \in Row, NEW b \in Box, NEW c \in Calls, NEW q \in Process,
         obj' = [obj EXCEPT ![o] = row], box' = [box EXCEPT ![o] = b],
         calls' = [calls EXCEPT ![o] = c], proc' = [proc EXCEPT ![p] = q],
         control' \in [enabled : BOOLEAN, epoch : Nat, stopped : BOOLEAN],
         inflight' \subseteq {"create", "start", "remove"} \X Live!Objects,
         \A x \in Live!Objects \ {o} : <<"create", x>> \in inflight' => <<"create", x>> \in inflight,
         LiveFollows(o, row, b, c), Sound(o, row, b, c, inflight'),
         Callers(p, o, q, c), Vouches(q)'
  PROVE  LiveInv'
  <1>0. /\ obj \in [Live!Objects -> Row] /\ box \in [Live!Objects -> Box]
        /\ calls \in [Live!Objects -> Calls] /\ proc \in [Procs -> Process]
    BY DEF LiveInv, LiveTypes
  <1>1. LiveTypes'
    BY <1>0 DEF LiveTypes
  <1>2. /\ Rows' /\ Measures' /\ OnePending'
        /\ \A x \in Process :
             /\ Vouches(x)
             /\ o \in x.on /\ x.pc = "call" => c.create = 0
             /\ o \in x.on /\ x.pc = "start_call" => c.start = 0
             => Vouches(x)'
    BY Stable
  <1>3. \A r \in Procs : proc'[r] = IF r = p THEN q ELSE proc[r]
    BY <1>0
  <1>4. Processes'
    <2> SUFFICES ASSUME NEW r \in Procs PROVE Vouches(proc[r])'
      BY DEF Processes
    <2>1. CASE r = p
      BY <1>3, <2>1 DEF Vouches
    <2>2. CASE r # p
      <3>1. proc[r] \in Process /\ Vouches(proc[r]) /\ proc'[r] = proc[r]
        BY <1>3, <2>2, OneProcess
      <3>2. o \in proc[r].on => proc[r].on = {o}
        BY <3>1 DEF Process, Ons
      <3>3. o \in proc[r].on /\ proc[r].pc = "call" => c.create = 0
        <4>1. CASE c.create = calls[o].create
          BY <3>1, <4>1 DEF Vouches
        <4>2. CASE c.create # calls[o].create
          BY <2>2, <3>2, <4>2 DEF Callers, LiveInv, OneCaller
        <4> QED
          BY <4>1, <4>2
      <3>4. o \in proc[r].on /\ proc[r].pc = "start_call" => c.start = 0
        <4>1. CASE c.start = calls[o].start
          BY <3>1, <4>1 DEF Vouches
        <4>2. CASE c.start # calls[o].start
          BY <2>2, <3>2, <4>2 DEF Callers, LiveInv, OneCaller
        <4> QED
          BY <4>1, <4>2
      <3>5. PICK x : x = proc[r]
        OBVIOUS
      <3>6. Vouches(x)'
        BY <1>2, <3>1, <3>3, <3>4, <3>5
      <3> QED
        BY <3>1, <3>5, <3>6 DEF Vouches
    <2> QED
      BY <2>1, <2>2
  <1>5. OneCaller'
    BY <1>3 DEF LiveInv, OneCaller, Callers
  <1> QED
    BY <1>1, <1>2, <1>4, <1>5 DEF LiveInv

\* The next row of an object whose container and calls stay as they are.
Kept(o, row) ==
  /\ row \in Row
  /\ LiveFollows(o, row, box[o], calls[o])
  /\ Sound(o, row, box[o], calls[o], inflight)

Special == {"probe_recorded", "post_checked", "publish_checked"}

LEMMA Writes ==
  ASSUME LiveInv, NEW o \in Live!Objects, obj[o].phase # "absent",
         NEW row \in Row, row.phase # "absent", obj[o].docs \subseteq row.docs,
         row.target = obj[o].target, row.base = obj[o].base, row.probe = obj[o].probe,
         row.result = obj[o].result,
         row.phase \in Special => row.phase = obj[o].phase,
         o \in Runs /\ obj[o].phase \in Recorded /\ calls[o].start = 1
           => row.phase \in Recorded,
         obj[o].result # "none" /\ "create_dispatch" \in row.docs
           => "create_dispatch" \in obj[o].docs,
         LiveBooked(o, row, box[o]), Ordered(o, row, calls[o])
  PROVE  Kept(o, row)
  <1>1. /\ obj[o] \in Row /\ box[o] \in Box /\ calls[o] \in Calls
        /\ Counted(o, obj[o], box[o], calls[o], inflight)
        /\ o \in Runs => Measured(obj[o], box[o])
    BY OneObject
  <1>2. Sound(o, row, box[o], calls[o], inflight)
    BY <1>1 DEF Sound, Counted
  <1>3. o \in Runs => Measured(row, box[o])
    BY <1>1 DEF Measured, Matches, Special
  <1>4. box[o].gen <= box[o].gen
    BY <1>1 DEF Box
  <1> QED
    BY <1>2, <1>3, <1>4 DEF Kept, LiveFollows

LEMMA SameKept ==
  ASSUME LiveInv, NEW o \in Live!Objects, obj[o].phase # "absent"
  PROVE  Kept(o, obj[o])
  BY OneObject, Writes

\* A process that stands at a point.
Standing(pc, o) == [Live!Idle EXCEPT !.pc = pc, !.on = {o}]
Looking(o, phase) == [Live!Idle EXCEPT !.pc = "look", !.on = {o}, !.phase = phase]

LEMMA Stands ==
  ASSUME NEW o \in Live!Objects, NEW pc \in Points
  PROVE  /\ Standing(pc, o) \in Process
         /\ Standing(pc, o).pc = pc /\ Standing(pc, o).on = {o}
         /\ Standing(pc, o).seen = Live!Nothing
  BY DEF Standing, Live!Idle, Process, Ons, Seen, Box, Measure, Live!Nothing, Live!NoBox, Live!NoProbe, LiveOutcomes

LEMMA Arrives ==
  ASSUME NEW p \in Procs, NEW o \in Live!Objects, NEW pc \in Points, Live!Goto(p, o, pc)
  PROVE  /\ proc' = [proc EXCEPT ![p] = Standing(pc, o)]
         /\ Standing(pc, o) \in Process
         /\ Standing(pc, o).pc = pc /\ Standing(pc, o).on = {o}
  <1>1. proc' = [proc EXCEPT ![p] = Standing(pc, o)]
    BY DEF Live!Goto, Standing
  <1> QED
    BY <1>1, Stands

LEMMA LooksAt ==
  ASSUME NEW o \in Live!Objects, NEW phase \in Looks
  PROVE  /\ Looking(o, phase) \in Process
         /\ Looking(o, phase).pc = "look" /\ Looking(o, phase).on = {o}
         /\ Looking(o, phase).phase = phase /\ Looking(o, phase).seen = Live!Nothing
  BY DEF Looking, Live!Idle, Process, Ons, Seen, Box, Measure, Live!Nothing, Live!NoBox, Live!NoProbe, LiveOutcomes,
         Points

LEMMA IdleVouches ==
  /\ Live!Idle \in Process /\ Live!Idle.pc = "idle" /\ Live!Idle.on = {}
  /\ Vouches(Live!Idle)'
  BY DEF Live!Idle, Process, Ons, Seen, Box, Measure, Live!Nothing, Live!NoBox, Live!NoProbe, LiveOutcomes, Points,
         Vouches

\* At a plain point only the object has to be there.
Grounded(o, pc) ==
  /\ obj[o].phase # "absent" /\ box[o] \in Box
  /\ \/ pc \in Plain
     \/ pc = "call" /\ "create_dispatch" \in obj[o].docs /\ calls[o].create = 0
     \/ pc = "start_call" /\ "start_dispatch" \in obj[o].docs /\ calls[o].start = 0
     \/ pc \in {"ack", "record_cleanup"} /\ box[o].status = "removed"
     \/ pc = "probe" /\ "probe_release" \in obj[o].docs

LEMMA PointVouches ==
  ASSUME NEW o \in Live!Objects, NEW pc \in Points, Grounded(o, pc)'
  PROVE  Vouches(Standing(pc, o))'
  <1> DEFINE q == Standing(pc, o)
  <1>1. q.pc = pc /\ q.on = {o} /\ q.seen = Live!Nothing
    BY Stands
  <1>2. q.seen.target.gen = 0 /\ q.seen.runner.gen = 0
    BY <1>1 DEF Live!Nothing, Live!NoBox
  <1>3. 0 <= box'[o].gen
    BY DEF Box, Grounded
  <1>4. PICK x : x = q
    OBVIOUS
  <1> HIDE DEF q
  <1>5. Vouches(x)'
    BY <1>1, <1>2, <1>3, <1>4 DEF Vouches, Plain, Grounded
  <1>6. QED
    BY <1>4, <1>5 DEF q, Vouches, Standing, Live!Idle

LEMMA LookVouches ==
  ASSUME NEW o \in Live!Objects, NEW phase \in Looks,
         obj'[o].phase # "absent", box'[o] \in Box,
         phase = "after_probe" /\ o \in Runs =>
           "probe_release" \in obj'[o].docs /\ obj'[o].phase \in Recorded
  PROVE  Vouches(Looking(o, phase))'
  <1> DEFINE q == Looking(o, phase)
  <1>1. q.pc = "look" /\ q.phase = phase /\ q.on = {o} /\ q.seen = Live!Nothing
    BY LooksAt
  <1>2. q.seen.target.gen = 0 /\ q.seen.runner.gen = 0
    BY <1>1 DEF Live!Nothing, Live!NoBox
  <1>3. 0 <= box'[o].gen
    BY DEF Box
  <1>4. PICK x : x = q
    OBVIOUS
  <1> HIDE DEF q
  <1>5. Vouches(x)'
    BY <1>1, <1>2, <1>3, <1>4 DEF Vouches, Looks
  <1>6. QED
    BY <1>4, <1>5 DEF q, Vouches, Looking, Live!Idle

\* A transaction at one object, and what its process does next.
RowWritten(o, row) ==
  Kept(o, row) /\ obj' = [obj EXCEPT ![o] = row] /\ UNCHANGED <<control, Live!docker>>

LEMMA RowStep ==
  ASSUME Separate, LiveInv, NEW p \in Procs, NEW o \in Live!Objects, NEW row, NEW q \in Process,
         RowWritten(o, row), proc' = [proc EXCEPT ![p] = q], Vouches(q)',
         q.pc \in {"call", "start_call"} =>
           \A r \in Procs \ {p} : ~(proc[r].pc = q.pc /\ proc[r].on = q.on)
  PROVE  LiveInv'
  <1>1. /\ box' = [box EXCEPT ![o] = box[o]] /\ calls' = [calls EXCEPT ![o] = calls[o]]
        /\ box[o] \in Box /\ calls[o] \in Calls /\ inflight' = inflight
        /\ control' \in [enabled : BOOLEAN, epoch : Nat, stopped : BOOLEAN]
        /\ inflight \subseteq {"create", "start", "remove"} \X Live!Objects
    BY DEF RowWritten, Live!docker, LiveInv, LiveTypes
  <1>2. Callers(p, o, q, calls[o])
    BY DEF Callers
  <1>3. /\ row \in Row /\ LiveFollows(o, row, box[o], calls[o])
        /\ Sound(o, row, box[o], calls[o], inflight)
        /\ obj' = [obj EXCEPT ![o] = row]
    BY DEF RowWritten, Kept
  <1> QED
    BY <1>1, <1>2, <1>3, Moves

LEMMA WrittenRow ==
  ASSUME LiveInv, NEW o \in Live!Objects, NEW row, RowWritten(o, row)
  PROVE  /\ obj'[o] = row /\ box'[o] = box[o] /\ calls'[o] = calls[o]
         /\ row.phase # "absent" /\ obj[o].docs \subseteq row.docs
         /\ box'[o] \in Box
  BY OneObject DEF RowWritten, Kept, LiveFollows, Live!docker, LiveInv, LiveTypes

LEMMA RowGoes ==
  ASSUME Separate, LiveInv, NEW p \in Procs, NEW o \in Live!Objects, NEW row, NEW pc \in Plain,
         RowWritten(o, row), Live!Goto(p, o, pc)
  PROVE  LiveInv'
  <1>1. proc' = [proc EXCEPT ![p] = Standing(pc, o)]
    BY DEF Live!Goto, Standing
  <1>2. Standing(pc, o) \in Process /\ Standing(pc, o).pc = pc
    BY Stands DEF Plain
  <1>a. pc \in Points
    BY DEF Plain
  <1>b. obj'[o].phase # "absent" /\ box'[o] \in Box
    BY WrittenRow
  <1>3. Vouches(Standing(pc, o))'
    BY <1>a, <1>b, PointVouches DEF Grounded
  <1>4. pc \notin {"call", "start_call"}
    BY DEF Plain
  <1> QED
    BY <1>1, <1>2, <1>3, <1>4, RowStep

LEMMA RowLooks ==
  ASSUME Separate, LiveInv, NEW p \in Procs, NEW o \in Live!Objects, NEW row, NEW phase \in Looks,
         RowWritten(o, row), Live!Look(p, o, phase),
         phase = "after_probe" /\ o \in Runs =>
           "probe_release" \in row.docs /\ row.phase \in Recorded
  PROVE  LiveInv'
  <1>1. proc' = [proc EXCEPT ![p] = Looking(o, phase)]
    BY DEF Live!Look, Looking
  <1>2. Looking(o, phase) \in Process /\ Looking(o, phase).pc = "look"
    BY LooksAt
  <1>3. Vouches(Looking(o, phase))'
    BY WrittenRow, LookVouches
  <1> QED
    BY <1>1, <1>2, <1>3, RowStep

LEMMA RowDone ==
  ASSUME Separate, LiveInv, NEW p \in Procs, NEW o \in Live!Objects, NEW row,
         RowWritten(o, row), Live!Done(p)
  PROVE  LiveInv'
  BY IdleVouches, RowStep DEF Live!Done

LEMMA Unwritten ==
  ASSUME LiveInv, NEW o \in Live!Objects, obj[o].phase # "absent",
         UNCHANGED <<obj, control, Live!docker>>
  PROVE  RowWritten(o, obj[o])
  BY SameKept DEF RowWritten, LiveInv, LiveTypes

\* A process at a point is there for an admitted object.
LEMMA AtObject ==
  ASSUME LiveInv, NEW p \in Procs, NEW o \in Live!Objects, NEW pc, Live!At(p, o, pc)
  PROVE  obj[o].phase # "absent"
  BY OneProcess DEF Live!At, Vouches

LEMMA Failed ==
  ASSUME Separate, LiveInv, NEW p \in Procs, NEW o \in Live!Objects, NEW row,
         RowWritten(o, row), Live!Fail(p, o)
  PROVE  LiveInv'
  <1>1. PICK pc \in Plain : Live!Goto(p, o, pc)
    BY DEF Live!Fail, Plain, Points
  <1> QED
    BY <1>1, RowGoes

\* A transaction that was denied.
LEMMA Denied ==
  ASSUME Separate, LiveInv, NEW p \in Procs, NEW o \in Live!Objects, NEW pc, Live!At(p, o, pc),
         UNCHANGED obj, Live!Fail(p, o), Live!Quiet, UNCHANGED Live!docker
  PROVE  LiveInv'
  <1>1. RowWritten(o, obj[o])
    BY AtObject, Unwritten DEF Live!Quiet
  <1> QED
    BY <1>1, Failed

LEMMA QuarantineKept ==
  ASSUME LiveInv, NEW o \in Live!Objects, obj[o].phase # "absent", Live!quarantine(o),
         UNCHANGED <<control, Live!docker>>
  PROVE  \E row : RowWritten(o, row)
  <1>1. CASE obj[o].result # "none"
    BY <1>1, SameKept DEF RowWritten, Live!quarantine, Live!Put
  <1>2. CASE obj[o].result = "none"
    <2> DEFINE row == [obj[o] EXCEPT !.phase = "quarantined", !.cleanup = "quarantined"]
    <2>1. /\ obj[o] \in Row /\ LiveBooked(o, obj[o], box[o]) /\ Ordered(o, obj[o], calls[o])
      BY OneObject
    <2>2. row \in Row /\ row.phase = "quarantined" /\ row.cleanup = "quarantined"
          /\ row.docs = obj[o].docs /\ row.target = obj[o].target /\ row.base = obj[o].base
          /\ row.probe = obj[o].probe /\ row.result = obj[o].result
      BY <2>1 DEF Row, Phases, Cleanups
    <2> HIDE DEF row
    <2>3. LiveBooked(o, row, box[o]) /\ Ordered(o, row, calls[o])
      BY <1>2, <2>1, <2>2 DEF LiveBooked, Ordered, Early, Started, Released, Recorded
    <2>4. Kept(o, row)
      BY <1>2, <2>2, <2>3, Writes DEF Special, Recorded
    <2>5. obj' = [obj EXCEPT ![o] = row]
      BY <1>2 DEF row, Live!quarantine, Live!Put
    <2> QED
      BY <2>4, <2>5 DEF RowWritten
  <1> QED
    BY <1>1, <1>2

\* What is known of an object nobody asked for yet.
LEMMA Unknown ==
  ASSUME LiveInv, NEW o \in Live!Objects, obj[o].phase = "absent"
  PROVE  /\ obj[o].docs = {} /\ calls[o].create = 0 /\ calls[o].start = 0
         /\ box[o].status = "none" /\ box[o].gen = 0 /\ <<"create", o>> \notin inflight
         /\ \A p \in Procs : o \notin proc[p].on
         /\ \A r \in Runs : o \in Pair => o \notin obj[r].target
  <1>1. /\ obj[o] = Live!Absent /\ box[o] \in Box /\ calls[o] \in Calls
        /\ Counted(o, obj[o], box[o], calls[o], inflight)
    BY OneObject DEF LiveBooked
  <1>2. obj[o].docs = {}
    BY <1>1 DEF Live!Absent
  <1>3. /\ calls[o].create = 0 /\ calls[o].start = 0
        /\ box[o].status = "none" /\ box[o].gen = 0 /\ <<"create", o>> \notin inflight
    BY <1>1, <1>2 DEF Counted, Calls, Box
  <1>4. \A p \in Procs : o \notin proc[p].on
    BY OneProcess DEF Vouches
  <1>5. ASSUME NEW r \in Runs, o \in obj[r].target PROVE FALSE
    BY <1>2, <1>5, OneObject DEF Measured, Live!Objects
  <1> QED
    BY <1>2, <1>3, <1>4, <1>5

\* A row that was just made.
Fresh(o, row) ==
  /\ row \in Row /\ row.cleanup = "not_required" /\ row.result = "none" /\ row.docs = {}
  /\ row.base = 0 /\ row.probe = Live!NoProbe
  /\ o \in Pair => row.phase = "intent_recorded"
  /\ o \in Runs =>
       /\ row.phase = "reserved"
       /\ \E t \in Pair : row.target = {t} /\ "enrollment" \in obj[t].docs

Alone(o) ==
  /\ o \in Pair => \A t \in Pair : ~Pending(t)
  /\ o \in Runs => \A r \in Runs : ~Pending(r)

LEMMA Admits ==
  ASSUME Separate, LiveInv, NEW p \in Procs, NEW o \in Live!Objects, obj[o].phase = "absent",
         NEW row, Fresh(o, row), Alone(o), obj' = [obj EXCEPT ![o] = row],
         UNCHANGED <<control, Live!docker>>, NEW q \in Process,
         proc' = [proc EXCEPT ![p] = q], Vouches(q)', q.pc \notin {"call", "start_call"}
  PROVE  LiveInv'
  <1>0. /\ obj \in [Live!Objects -> Row] /\ box \in [Live!Objects -> Box]
        /\ calls \in [Live!Objects -> Calls] /\ proc \in [Procs -> Process]
        /\ box' = box /\ calls' = calls /\ inflight' = inflight /\ control' = control
        /\ Pair \subseteq Live!Objects /\ Runs \subseteq Live!Objects
    BY DEF LiveInv, LiveTypes, Live!docker, Live!Objects
  <1>1. LiveTypes'
    BY <1>0 DEF LiveInv, LiveTypes, Fresh
  <1>2. /\ obj'[o] = row
        /\ \A x \in Live!Objects \ {o} : obj'[x] = obj[x]
        /\ \A r \in Procs : proc'[r] = IF r = p THEN q ELSE proc[r]
    BY <1>0
  <1>3. /\ calls[o].create = 0 /\ calls[o].start = 0
        /\ box[o].status = "none" /\ box[o].gen = 0 /\ <<"create", o>> \notin inflight
        /\ \A r \in Procs : o \notin proc[r].on
        /\ \A r \in Runs : o \in Pair => o \notin obj[r].target
    BY Unknown
  <1>4. Rows'
    <2>1. Sound(o, row, box[o], calls[o], inflight)
      <3>1. LiveBooked(o, row, box[o])
        BY DEF LiveBooked, Fresh, Live!Objects
      <3>2. Counted(o, row, box[o], calls[o], inflight)
        BY <1>3 DEF Counted, Fresh
      <3>3. Ordered(o, row, calls[o])
        BY DEF Ordered, Fresh, Early, Started, Live!Objects
      <3> QED
        BY <3>1, <3>2, <3>3 DEF Sound
    <2> SUFFICES ASSUME NEW x \in Live!Objects
                 PROVE  Sound(x, obj'[x], box[x], calls[x], inflight)
      BY <1>0 DEF Rows
    <2> QED
      BY <1>2, <2>1 DEF LiveInv, Rows
  <1>5. Measures'
    <2> SUFFICES ASSUME NEW r \in Runs PROVE Measured(obj[r], box[r])'
      BY DEF Measures
    <2>1. PICK now, at : now = obj'[r] /\ at = box'[r]
      OBVIOUS
    <2>2. Measured(now, at)
      <3>1. CASE r = o
        <4>1. now = row /\ at = box[o]
          BY <1>0, <1>2, <2>1, <3>1
        <4>2. PICK t \in Pair : row.target = {t} /\ "enrollment" \in obj[t].docs
          BY <3>1 DEF Fresh
        <4>3. box[t].gen \in Nat /\ box[o].gen = 0
          BY <1>0, <1>3 DEF Box
        <4>4. row.probe.target = 0 /\ row.probe.runner = 0 /\ row.phase = "reserved"
              /\ row.result = "none"
          BY <3>1 DEF Fresh, Live!NoProbe
        <4> QED
          BY <4>1, <4>2, <4>3, <4>4 DEF Measured
      <3>2. CASE r # o
        BY <1>0, <1>2, <2>1, <3>2, OneObject
      <3> QED
        BY <3>1, <3>2
    <2>3. \A t \in now.target : t \in Pair /\ t # o
      <3>1. CASE r = o
        BY <1>2, <2>1, <3>1 DEF Fresh, Separate
      <3>2. CASE r # o
        <4>1. now = obj[r] /\ obj[r] \in Row
          BY <1>0, <1>2, <2>1, <3>2
        <4> QED
          BY <1>3, <4>1 DEF Row
      <3> QED
        BY <3>1, <3>2
    <2>4. \A t \in now.target : obj'[t] = obj[t]
      BY <1>0, <1>2, <2>3
    <2> QED
      BY <1>0, <2>1, <2>2, <2>4 DEF Measured, Matches
  <1>6. Processes'
    <2> SUFFICES ASSUME NEW r \in Procs PROVE Vouches(proc[r])'
      BY DEF Processes
    <2>1. CASE r = p
      BY <1>2, <2>1 DEF Vouches
    <2>2. CASE r # p
      <3>1. proc[r] \in Process /\ Vouches(proc[r]) /\ proc'[r] = proc[r]
        BY <1>2, <2>2, OneProcess
      <3>2. \A x \in proc[r].on : x \in Live!Objects /\ x # o /\ obj'[x] = obj[x]
        BY <1>2, <1>3, <3>1 DEF Process, Ons
      <3>3. \A x \in proc[r].on : x \in Runs => \A t \in obj[x].target : obj'[t] = obj[t]
        BY <1>0, <1>2, <1>3 DEF Row
      <3>4. PICK x : x = proc[r]
        OBVIOUS
      <3>5. Vouches(x)'
        BY <1>0, <3>1, <3>2, <3>3, <3>4 DEF Vouches
      <3> QED
        BY <3>1, <3>4, <3>5 DEF Vouches
    <2> QED
      BY <2>1, <2>2
  <1>7. OneCaller'
    BY <1>2 DEF LiveInv, OneCaller
  <1>8. OnePending'
    <2>1. \A x \in Live!Objects \ {o} : Pending(x)' => Pending(x)
      BY <1>0, <1>2 DEF Pending
    <2> QED
      BY <1>0, <2>1 DEF LiveInv, OnePending, Alone
  <1> QED
    BY <1>1, <1>4, <1>5, <1>6, <1>7, <1>8 DEF LiveInv

\* The world moves, and no process does.
LEMMA Stays ==
  ASSUME Separate, LiveInv, NEW o \in Live!Objects, NEW row \in Row, NEW b \in Box,
         obj' = [obj EXCEPT ![o] = row], box' = [box EXCEPT ![o] = b],
         UNCHANGED <<calls, proc>>,
         control' \in [enabled : BOOLEAN, epoch : Nat, stopped : BOOLEAN],
         inflight' \subseteq {"create", "start", "remove"} \X Live!Objects,
         \A x \in Live!Objects \ {o} : <<"create", x>> \in inflight' => <<"create", x>> \in inflight,
         LiveFollows(o, row, b, calls[o]), Sound(o, row, b, calls[o], inflight')
  PROVE  LiveInv'
  <1>0. /\ obj \in [Live!Objects -> Row] /\ box \in [Live!Objects -> Box]
        /\ calls \in [Live!Objects -> Calls] /\ proc \in [Procs -> Process]
    BY DEF LiveInv, LiveTypes
  <1>1. LiveTypes'
    BY <1>0 DEF LiveTypes
  <1>2. calls' = [calls EXCEPT ![o] = calls[o]] /\ calls[o] \in Calls
    BY <1>0
  <1>3. /\ Rows' /\ Measures' /\ OnePending'
        /\ \A x \in Process :
             /\ Vouches(x)
             /\ o \in x.on /\ x.pc = "call" => calls[o].create = 0
             /\ o \in x.on /\ x.pc = "start_call" => calls[o].start = 0
             => Vouches(x)'
    BY <1>2, Stable
  <1>4. Processes'
    <2> SUFFICES ASSUME NEW r \in Procs PROVE Vouches(proc[r])'
      BY DEF Processes
    <2>1. proc[r] \in Process /\ Vouches(proc[r]) /\ proc'[r] = proc[r]
      BY OneProcess
    <2>2. PICK x : x = proc[r]
      OBVIOUS
    <2>3. /\ o \in x.on /\ x.pc = "call" => calls[o].create = 0
          /\ o \in x.on /\ x.pc = "start_call" => calls[o].start = 0
      BY <2>1, <2>2 DEF Vouches
    <2>4. Vouches(x)'
      BY <1>3, <2>1, <2>2, <2>3
    <2> QED
      BY <2>1, <2>2, <2>4 DEF Vouches
  <1>5. OneCaller'
    BY DEF LiveInv, OneCaller
  <1> QED
    BY <1>1, <1>3, <1>4, <1>5 DEF LiveInv

LEMMA RowOnly ==
  ASSUME Separate, LiveInv, NEW o \in Live!Objects, NEW row, RowWritten(o, row), UNCHANGED proc
  PROVE  LiveInv'
  <1>1. /\ box' = [box EXCEPT ![o] = box[o]] /\ UNCHANGED <<calls, proc>>
        /\ box[o] \in Box /\ inflight' = inflight
        /\ control' \in [enabled : BOOLEAN, epoch : Nat, stopped : BOOLEAN]
        /\ inflight \subseteq {"create", "start", "remove"} \X Live!Objects
    BY DEF RowWritten, Live!docker, LiveInv, LiveTypes
  <1>2. /\ row \in Row /\ LiveFollows(o, row, box[o], calls[o])
        /\ Sound(o, row, box[o], calls[o], inflight)
        /\ obj' = [obj EXCEPT ![o] = row]
    BY DEF RowWritten, Kept
  <1> QED
    BY <1>1, <1>2, Stays

\* The end of a run.
LEMMA TerminalKept ==
  ASSUME Separate, LiveInv, NEW r \in Runs, obj[r].phase # "absent",
         NEW outcome \in LiveOutcomes \ {"none"},
         outcome \in {"passed", "failed"} => Matches(obj[r]) /\ outcome = obj[r].probe.outcome
  PROVE  Kept(r, Live!Terminal(obj[r], outcome))
  <1>0. r \in Live!Objects
    BY DEF Live!Objects
  <1>1. CASE obj[r].result # "none"
    BY <1>0, <1>1, SameKept DEF Live!Terminal
  <1>2. CASE obj[r].result = "none"
    <2> DEFINE row == Live!Terminal(obj[r], outcome)
    <2>1. /\ obj[r] \in Row /\ box[r] \in Box /\ calls[r] \in Calls
          /\ LiveBooked(r, obj[r], box[r]) /\ Counted(r, obj[r], box[r], calls[r], inflight)
          /\ Ordered(r, obj[r], calls[r]) /\ Measured(obj[r], box[r])
      BY <1>0, OneObject
    <2>2. /\ row \in Row /\ row.phase = "terminal" /\ row.result = outcome
          /\ row.cleanup \in {"pending", "quarantined", "not_required"}
          /\ "create_dispatch" \in row.docs => row.cleanup # "not_required"
          /\ row.docs = obj[r].docs /\ row.target = obj[r].target
          /\ row.base = obj[r].base /\ row.probe = obj[r].probe
      BY <1>2, <2>1 DEF Live!Terminal, Row, Phases, Cleanups
    <2> HIDE DEF row
    <2>3. LiveBooked(r, row, box[r])
      BY <2>1, <2>2 DEF LiveBooked
    <2>4. Counted(r, row, box[r], calls[r], inflight)
      BY <2>1, <2>2 DEF Counted
    <2>5. Ordered(r, row, calls[r])
      BY <2>1, <2>2 DEF Ordered, Early, Started, Released, Recorded, Separate
    <2>6. Measured(row, box[r])
      BY <2>1, <2>2 DEF Measured, Matches
    <2>7. LiveFollows(r, row, box[r], calls[r])
      BY <1>2, <2>1, <2>2, <2>6 DEF LiveFollows, Recorded, Box
    <2>8. Kept(r, row)
      BY <2>2, <2>3, <2>4, <2>5, <2>7 DEF Kept, Sound
    <2> QED
      BY <2>8 DEF row
  <1> QED
    BY <1>1, <1>2

LEMMA UnknownKept ==
  ASSUME Separate, LiveInv, NEW r \in Runs, obj[r].phase # "absent", Live!unknown(r),
         UNCHANGED <<control, Live!docker>>
  PROVE  RowWritten(r, Live!Terminal(obj[r], "unknown"))
  BY TerminalKept DEF Live!unknown, Live!Put, RowWritten, LiveOutcomes

LEMMA ExpireKept ==
  ASSUME Separate, LiveInv, NEW r \in Runs, obj[r].phase # "absent", Live!expire_run(r),
         UNCHANGED <<control, Live!docker>>
  PROVE  \E row : RowWritten(r, row)
  <1>1. r \in Live!Objects
    BY DEF Live!Objects
  <1>2. CASE obj' = [obj EXCEPT ![r] = obj[r]]
    BY <1>1, <1>2, SameKept DEF RowWritten
  <1>3. CASE Live!unknown(r)
    BY <1>3, UnknownKept
  <1> QED
    BY <1>2, <1>3 DEF Live!expire_run, Live!Put

\* ------------------------------------------------- requests and admissions

LEMMA ProvisionNewStep ==
  ASSUME Separate, LiveInv, NEW p \in Procs, NEW t \in Pair, Live!ProvisionNew(p, t)
  PROVE  LiveInv'
  <1>0. t \in Live!Objects /\ t \notin Runs /\ UNCHANGED <<control, Live!docker>>
    BY DEF Live!Objects, Separate, Live!ProvisionNew, Live!Quiet
  <1>1. CASE Live!MayProvision(t) /\ Live!provision(t)
    <2> DEFINE row == [Live!Absent EXCEPT !.phase = "intent_recorded", !.epoch = control.epoch]
    <2>1. Fresh(t, row)
      BY <1>0 DEF Fresh, Live!Absent, Row, Phases, Cleanups, LiveOutcomes, Measure, Live!NoProbe, LiveInv,
                  LiveTypes
    <2>2. obj' = [obj EXCEPT ![t] = row] /\ obj[t].phase = "absent"
      BY <1>1 DEF Live!provision, Live!Put, Live!MayProvision
    <2>3. Alone(t)
      <3>1. ASSUME NEW u \in Pair, Pending(u) PROVE FALSE
        <4>1. u \in Live!Objects
          BY DEF Live!Objects
        <4> QED
          BY <1>1, <3>1, <4>1, OneObject DEF Live!MayProvision, Pending, LiveBooked
      <3> QED
        BY <1>0, <3>1 DEF Alone
    <2>4. row.phase # "absent"
      BY DEF Live!Absent
    <2> HIDE DEF row
    <2>5. obj'[t] = row /\ box'[t] \in Box
      BY <1>0, <2>2 DEF Live!docker, LiveInv, LiveTypes
    <2>6. Vouches(Standing("create", t))'
      BY <1>0, <2>4, <2>5, PointVouches DEF Grounded, Plain, Points
    <2>7. /\ proc' = [proc EXCEPT ![p] = Standing("create", t)]
          /\ Standing("create", t) \in Process /\ Standing("create", t).pc = "create"
      BY <1>0, Arrives DEF Live!ProvisionNew, Points
    <2> QED
      BY <1>0, <2>1, <2>2, <2>3, <2>6, <2>7, Admits
  <1>2. CASE obj[t].phase = "intent_recorded" /\ UNCHANGED obj
    <2>1. RowWritten(t, obj[t])
      BY <1>0, <1>2, Unwritten
    <2> QED
      BY <1>0, <2>1, RowGoes DEF Live!ProvisionNew, Plain, Points
  <1> QED
    BY <1>1, <1>2 DEF Live!ProvisionNew

LEMMA SubmitStep ==
  ASSUME Separate, LiveInv, NEW p \in Procs, NEW r \in Runs, NEW t \in Pair,
         Live!Submit(p, r, t)
  PROVE  LiveInv'
  <1>0. r \in Live!Objects /\ t \in Live!Objects /\ r \notin Pair /\ UNCHANGED <<control, Live!docker>>
    BY DEF Live!Objects, Separate, Live!Submit, Live!Quiet
  <1>1. CASE Live!MayReserve(r, t) /\ Live!reserve_run(r, t) /\ Live!Look(p, r, "before_create")
    <2> DEFINE row == [Live!Absent EXCEPT !.phase = "reserved", !.epoch = control.epoch,
                                     !.target = {t}]
    <2>1. Fresh(r, row)
      <3>1. "enrollment" \in obj[t].docs
        BY <1>0, <1>1, OneObject DEF Live!MayReserve, Live!ValidEnrollment, Ordered
      <3>2. row \in Row
        BY DEF Live!Absent, Row, Phases, Cleanups, LiveOutcomes, Measure, Live!NoProbe, LiveInv, LiveTypes
      <3> QED
        BY <1>0, <3>1, <3>2 DEF Fresh, Live!Absent
    <2>2. obj' = [obj EXCEPT ![r] = row] /\ obj[r].phase = "absent"
      BY <1>1 DEF Live!reserve_run, Live!Put, Live!MayReserve
    <2>3. Alone(r)
      <3>1. ASSUME NEW q \in Runs, Pending(q) PROVE FALSE
        <4>1. q \in Live!Objects /\ obj[q].phase # "absent"
          BY <3>1 DEF Live!Objects, Pending
        <4>2. obj[q].result # "none"
          BY <1>1, <4>1 DEF Live!MayReserve
        <4>3. obj[q].cleanup \notin {"pending", "quarantined"}
          BY <1>1, <4>1, <4>2 DEF Live!MayReserve, Live!CircuitClosed, Live!Unresolved
        <4>4. obj[q] \in Row /\ LiveBooked(q, obj[q], box[q])
          BY <4>1, OneObject
        <4>5. obj[q].cleanup \in {"not_required", "confirmed"}
          BY <4>3, <4>4 DEF LiveBooked, Row, Cleanups
        <4> QED
          BY <3>1, <4>2, <4>4, <4>5 DEF Pending, LiveBooked
      <3> QED
        BY <1>0, <3>1 DEF Alone
    <2>4. row.phase # "absent"
      BY DEF Live!Absent
    <2> HIDE DEF row
    <2>5. obj'[r] = row /\ box'[r] \in Box
      BY <1>0, <2>2 DEF Live!docker, LiveInv, LiveTypes
    <2>6. Vouches(Looking(r, "before_create"))'
      BY <1>0, <2>4, <2>5, LookVouches DEF Looks
    <2>7. /\ proc' = [proc EXCEPT ![p] = Looking(r, "before_create")]
          /\ Looking(r, "before_create") \in Process
          /\ Looking(r, "before_create").pc = "look"
      BY <1>0, <1>1, LooksAt DEF Live!Look, Looking, Looks
    <2> QED
      BY <1>0, <2>1, <2>2, <2>3, <2>6, <2>7, Admits
  <1>2. CASE obj[r].target = {t} /\ obj[r].phase = "reserved" /\ UNCHANGED obj
             /\ Live!Look(p, r, "before_create")
    <2>1. RowWritten(r, obj[r])
      BY <1>0, <1>2, Unwritten
    <2> QED
      BY <1>0, <1>2, <2>1, RowLooks DEF Looks
  <1>3. CASE obj[r].target = {t} /\ Live!expire_run(r) /\ UNCHANGED proc
    <2>1. obj[r].phase # "absent"
      BY <1>0, <1>3, OneObject DEF LiveBooked, Live!Absent
    <2>2. PICK row : RowWritten(r, row)
      BY <1>0, <1>3, <2>1, ExpireKept
    <2> QED
      BY <1>0, <1>3, <2>2, RowOnly
  <1> QED
    BY <1>1, <1>2, <1>3 DEF Live!Submit

\* -------------------------------------------------------- adapter.create

LEMMA BeginCreateStep ==
  ASSUME Separate, LiveInv, NEW p \in Procs, NEW o \in Live!Objects, Live!BeginCreate(p, o)
  PROVE  LiveInv'
  <1>0. Live!At(p, o, "create") /\ Live!Quiet /\ UNCHANGED Live!docker
    BY DEF Live!BeginCreate, Live!Transaction
  <1>1. CASE Live!MayBeginCreate(o) /\ Live!begin_create(o) /\ Live!Goto(p, o, "fence")
    <2> DEFINE row == [obj[o] EXCEPT !.phase = "create_requested", !.cleanup = "quarantined"]
    <2>1. /\ obj[o] \in Row /\ LiveBooked(o, obj[o], box[o]) /\ Ordered(o, obj[o], calls[o])
      BY OneObject
    <2>2. obj[o].phase \in {"intent_recorded", "checked_create"}
          /\ (o \in Runs => obj[o].phase = "checked_create")
      BY <1>1 DEF Live!MayBeginCreate, Separate
    <2>3. row \in Row /\ row.phase = "create_requested" /\ row.cleanup = "quarantined"
          /\ row.docs = obj[o].docs /\ row.target = obj[o].target /\ row.base = obj[o].base
          /\ row.probe = obj[o].probe /\ row.result = obj[o].result
      BY <2>1 DEF Row, Phases, Cleanups
    <2>4. obj' = [obj EXCEPT ![o] = row]
      BY <1>1 DEF Live!begin_create, Live!Put
    <2> HIDE DEF row
    <2>5. LiveBooked(o, row, box[o])
      BY <2>1, <2>2, <2>3 DEF LiveBooked
    <2>6. Ordered(o, row, calls[o])
      BY <2>1, <2>2, <2>3 DEF Ordered, Early, Started, Released, Recorded
    <2>7. Kept(o, row)
      BY <2>1, <2>2, <2>3, <2>5, <2>6, Writes DEF Special, Recorded
    <2> QED
      BY <1>0, <1>1, <2>4, <2>7, RowGoes DEF RowWritten, Live!Quiet, Plain, Points
  <1> QED
    BY <1>0, <1>1, Denied DEF Live!BeginCreate, Live!Transaction

LEMMA DispatchCreateStep ==
  ASSUME Separate, LiveInv, NEW p \in Procs, NEW o \in Live!Objects, Live!DispatchCreate(p, o)
  PROVE  LiveInv'
  <1>0. obj[o].phase # "absent" /\ UNCHANGED <<control, Live!docker>>
    BY AtObject DEF Live!DispatchCreate, Live!Quiet
  <1>1. CASE Live!MayDispatchCreate(o) /\ Live!create_dispatch(o) /\ Live!Goto(p, o, "call")
    <2> DEFINE row == [obj[o] EXCEPT !.docs = @ \cup {"create_dispatch"}]
    <2>1. /\ obj[o] \in Row /\ LiveBooked(o, obj[o], box[o]) /\ Ordered(o, obj[o], calls[o])
          /\ Counted(o, obj[o], box[o], calls[o], inflight) /\ calls[o] \in Calls
      BY OneObject
    <2>2. obj[o].phase = "create_requested" /\ "create_dispatch" \notin obj[o].docs
      BY <1>1 DEF Live!MayDispatchCreate
    <2>3. row \in Row /\ row.phase = obj[o].phase /\ row.cleanup = obj[o].cleanup
          /\ row.docs = obj[o].docs \cup {"create_dispatch"}
          /\ row.target = obj[o].target /\ row.base = obj[o].base
          /\ row.probe = obj[o].probe /\ row.result = obj[o].result
      BY <2>1 DEF Row, Documents
    <2>4. obj' = [obj EXCEPT ![o] = row]
      BY <1>1 DEF Live!create_dispatch, Live!Put
    <2> HIDE DEF row
    <2>5. LiveBooked(o, row, box[o])
      BY <2>1, <2>2, <2>3 DEF LiveBooked
    <2>6. Ordered(o, row, calls[o])
      BY <2>1, <2>2, <2>3 DEF Ordered, Early, Started, Released, Recorded
    <2>7. Kept(o, row)
      BY <2>1, <2>2, <2>3, <2>5, <2>6, Writes DEF Special, Recorded, LiveBooked
    <2>8. RowWritten(o, row)
      BY <1>0, <2>4, <2>7 DEF RowWritten
    <2>9. calls[o].create = 0
      BY <2>1, <2>2 DEF Counted, Calls
    <2>10. Vouches(Standing("call", o))'
      BY <2>3, <2>8, <2>9, WrittenRow, PointVouches DEF Grounded, Points
    <2>11. /\ proc' = [proc EXCEPT ![p] = Standing("call", o)]
           /\ Standing("call", o) \in Process /\ Standing("call", o).pc = "call"
           /\ Standing("call", o).on = {o}
      BY <1>1, Arrives DEF Points
    <2>12. \A r \in Procs \ {p} : ~(proc[r].pc = "call" /\ proc[r].on = {o})
      BY <2>2, OneProcess DEF Vouches
    <2> QED
      BY <2>8, <2>10, <2>11, <2>12, RowStep
  <1>2. CASE UNCHANGED obj /\ Live!Goto(p, o, "unconfirmed")
    <2>1. RowWritten(o, obj[o])
      BY <1>0, <1>2, Unwritten
    <2> QED
      BY <1>2, <2>1, RowGoes DEF Plain, Points
  <1> QED
    BY <1>1, <1>2 DEF Live!DispatchCreate

LEMMA UnconfirmedStep ==
  ASSUME Separate, LiveInv, NEW p \in Procs, NEW o \in Live!Objects,
         Live!Unconfirmed(p, o) \/ Live!Quarantine(p, o)
  PROVE  LiveInv'
  <1>1. obj[o].phase # "absent" /\ Live!quarantine(o) /\ UNCHANGED <<control, Live!docker>>
    BY AtObject DEF Live!Unconfirmed, Live!Quarantine, Live!Quiet
  <1>2. PICK row : RowWritten(o, row)
    BY <1>1, QuarantineKept
  <1> QED
    BY <1>2, Failed, RowDone DEF Live!Unconfirmed, Live!Quarantine

\* Only the container and the calls of an object change.
LEMMA WorldFollows ==
  ASSUME LiveInv, NEW o \in Live!Objects, obj[o].phase # "absent", NEW b \in Box, NEW c \in Calls,
         NEW flight, box[o].gen <= b.gen, box[o].status = "removed" => b.status = "removed",
         c.start # calls[o].start => calls[o].start = 0,
         o \in Runs /\ obj[o].phase \in Started => c.start = calls[o].start,
         o \in Runs /\ "probe_release" \in obj[o].docs => c.start = calls[o].start,
         Counted(o, obj[o], b, c, flight), obj[o].cleanup = "confirmed" => b.status = "removed"
  PROVE  LiveFollows(o, obj[o], b, c) /\ Sound(o, obj[o], b, c, flight)
  <1>1. /\ obj[o] \in Row /\ box[o] \in Box /\ calls[o] \in Calls
        /\ LiveBooked(o, obj[o], box[o]) /\ Ordered(o, obj[o], calls[o])
        /\ o \in Runs => Measured(obj[o], box[o])
    BY OneObject
  <1>2. LiveBooked(o, obj[o], b)
    BY <1>1 DEF LiveBooked
  <1>3. Ordered(o, obj[o], c)
    BY <1>1 DEF Ordered
  <1>4. o \in Runs => Measured(obj[o], b)
    BY <1>1 DEF Measured, Row, Measure, Box
  <1>5. calls[o].start = 1 => c.start = 1
    OBVIOUS
  <1> QED
    BY <1>1, <1>2, <1>3, <1>4, <1>5 DEF LiveFollows, Sound

LEMMA CallCreateStep ==
  ASSUME Separate, LiveInv, NEW p \in Procs, NEW o \in Live!Objects, Live!CallCreate(p, o)
  PROVE  LiveInv'
  <1>0. /\ obj[o].phase # "absent" /\ Live!At(p, o, "call") /\ UNCHANGED <<control, obj>>
        /\ "create_dispatch" \in obj[o].docs /\ calls[o].create = 0
    BY AtObject, OneProcess DEF Live!CallCreate, Live!authority, Live!At, Vouches
  <1>1. /\ obj[o] \in Row /\ box[o] \in Box /\ calls[o] \in Calls
        /\ LiveBooked(o, obj[o], box[o])
        /\ Counted(o, obj[o], box[o], calls[o], inflight)
    BY OneObject
  <1> DEFINE c == [calls[o] EXCEPT !.create = @ + 1]
  <1>2. c \in Calls /\ c.create = 1 /\ c.start = calls[o].start
    BY <1>0, <1>1 DEF Calls
  <1>3. calls' = [calls EXCEPT ![o] = c]
    BY DEF Live!CallCreate
  <1> HIDE DEF c
  <1>4. box[o].status = "none" /\ box[o].gen = 0
    BY <1>0, <1>1 DEF Counted
  <1>5. obj[o].cleanup # "confirmed"
    BY <1>1, <1>4 DEF LiveBooked
  <1>6. PICK b \in Box, pc \in {"respond", "unconfirmed"} :
          /\ box' = [box EXCEPT ![o] = b] /\ Live!Goto(p, o, pc)
          /\ b.gen = 0
          /\ \/ b.status = "created" /\ inflight' = inflight
             \/ /\ b.status = "none"
                /\ inflight' = inflight \cup {<<"create", o>>} \/ inflight' = inflight
    <2>1. CASE box' = [box EXCEPT ![o].status = "created"] /\ Live!Goto(p, o, "respond")
               /\ inflight' = inflight
      <3> DEFINE b == [box[o] EXCEPT !.status = "created"]
      <3>1. b \in Box /\ b.gen = 0 /\ b.status = "created"
        BY <1>1, <1>4 DEF Box
      <3>2. box' = [box EXCEPT ![o] = b]
        BY <2>1
      <3> HIDE DEF b
      <3> QED
        BY <2>1, <3>1, <3>2
    <2>2. CASE /\ inflight' = inflight \cup {<<"create", o>>} \/ inflight' = inflight
               /\ Live!Goto(p, o, "unconfirmed") /\ UNCHANGED box
      <3>1. box' = [box EXCEPT ![o] = box[o]]
        BY <2>2 DEF LiveInv, LiveTypes
      <3> QED
        BY <1>1, <1>4, <2>2, <3>1
    <2> QED
      BY <2>1, <2>2 DEF Live!CallCreate
  <1>7. Counted(o, obj[o], b, c, inflight')
    BY <1>0, <1>1, <1>2, <1>4, <1>6 DEF Counted, Calls, Box
  <1>8. box[o].gen <= b.gen
    BY <1>4, <1>6
  <1>9. LiveFollows(o, obj[o], b, c) /\ Sound(o, obj[o], b, c, inflight')
    BY <1>0, <1>2, <1>4, <1>5, <1>7, <1>8, WorldFollows
  <1>10. obj' = [obj EXCEPT ![o] = obj[o]] /\ obj'[o] = obj[o] /\ box'[o] \in Box
    BY <1>0, <1>6 DEF LiveInv, LiveTypes
  <1>11. /\ proc' = [proc EXCEPT ![p] = Standing(pc, o)]
         /\ Standing(pc, o) \in Process /\ Standing(pc, o).pc = pc
    BY <1>6, Arrives DEF Points
  <1>12. Vouches(Standing(pc, o))'
    BY <1>0, <1>10, PointVouches DEF Grounded, Plain, Points
  <1>13. Callers(p, o, Standing(pc, o), c)
    BY <1>0, <1>2, <1>11 DEF Callers, Live!At
  <1>14. /\ control' \in [enabled : BOOLEAN, epoch : Nat, stopped : BOOLEAN]
         /\ inflight' \subseteq {"create", "start", "remove"} \X Live!Objects
         /\ \A x \in Live!Objects \ {o} : <<"create", x>> \in inflight' => <<"create", x>> \in inflight
    BY <1>0, <1>6 DEF LiveInv, LiveTypes
  <1> QED
    BY <1>1, <1>2, <1>3, <1>6, <1>9, <1>10, <1>11, <1>12, <1>13, <1>14, Moves

LEMMA ResponseKept ==
  ASSUME Separate, LiveInv, NEW o \in Live!Objects, Live!MayRecordResponse(o),
         Live!record_create_response(o), UNCHANGED <<control, Live!docker>>
  PROVE  \E row : RowWritten(o, row)
  <1>1. /\ obj[o] \in Row /\ box[o] \in Box /\ calls[o] \in Calls
        /\ LiveBooked(o, obj[o], box[o]) /\ Ordered(o, obj[o], calls[o])
    BY OneObject
  <1>2. "create_dispatch" \in obj[o].docs /\ obj[o].phase # "absent"
    BY <1>1 DEF Live!MayRecordResponse, LiveBooked, Live!Absent
  <1>3. PICK phase, cleanup :
          /\ obj' = [obj EXCEPT ![o] = [obj[o] EXCEPT !.docs = @ \cup {"owned"},
                                                      !.phase = phase, !.cleanup = cleanup]]
          /\ \/ obj[o].result # "none" /\ phase = obj[o].phase /\ cleanup = "pending"
             \/ obj[o].result = "none" /\ phase = "quarantined" /\ cleanup = "pending"
             \/ /\ obj[o].result = "none" /\ obj[o].phase = "create_requested"
                /\ o \in Pair /\ phase = "exact_id_recorded" /\ cleanup = "retained"
             \/ /\ obj[o].result = "none" /\ obj[o].phase = "create_requested"
                /\ o \in Runs /\ phase = "runner_owned" /\ cleanup = "pending"
    <2> DEFINE owned == [obj[o] EXCEPT !.docs = @ \cup {"owned"}]
               row(ph, cl) == [obj[o] EXCEPT !.docs = @ \cup {"owned"}, !.phase = ph, !.cleanup = cl]
    <2>1. \A ph, cl : [owned EXCEPT !.phase = ph, !.cleanup = cl] = row(ph, cl)
      BY <1>1 DEF Row
    <2>2. [owned EXCEPT !.cleanup = "pending"] = row(obj[o].phase, "pending")
      BY <1>1 DEF Row
    <2>3. CASE obj[o].result # "none"
      <3>1. obj' = [obj EXCEPT ![o] = row(obj[o].phase, "pending")]
        BY <2>2, <2>3 DEF Live!record_create_response, Live!Put
      <3> QED
        BY <2>3, <3>1
    <2>4. CASE obj[o].result = "none" /\ ~(/\ obj[o].phase = "create_requested"
                                           /\ Live!Current(o) /\ Live!EnrollmentValid(o))
      <3>1. obj' = [obj EXCEPT ![o] = row("quarantined", "pending")]
        BY <2>1, <2>4 DEF Live!record_create_response, Live!Put
      <3> QED
        BY <2>4, <3>1
    <2>5. CASE /\ obj[o].result = "none" /\ obj[o].phase = "create_requested"
               /\ Live!Current(o) /\ Live!EnrollmentValid(o)
      <3>1. CASE o \in Pair
        <4>1. obj' = [obj EXCEPT ![o] = row("exact_id_recorded", "retained")]
          BY <2>1, <2>5, <3>1 DEF Live!record_create_response, Live!Put
        <4> QED
          BY <2>5, <3>1, <4>1
      <3>2. CASE o \notin Pair
        <4>1. obj' = [obj EXCEPT ![o] = row("runner_owned", "pending")]
          BY <2>1, <2>5, <3>2 DEF Live!record_create_response, Live!Put
        <4> QED
          BY <2>5, <3>2, <4>1 DEF Live!Objects
      <3> QED
        BY <3>1, <3>2
    <2> QED
      BY <2>3, <2>4, <2>5
  <1> DEFINE row == [obj[o] EXCEPT !.docs = @ \cup {"owned"}, !.phase = phase, !.cleanup = cleanup]
  <1>4. /\ row \in Row /\ row.phase = phase /\ row.cleanup = cleanup
        /\ row.docs = obj[o].docs \cup {"owned"} /\ row.target = obj[o].target
        /\ row.base = obj[o].base /\ row.probe = obj[o].probe /\ row.result = obj[o].result
    BY <1>1, <1>3 DEF Row, Phases, Cleanups, Documents
  <1>5. obj' = [obj EXCEPT ![o] = row]
    BY <1>3
  <1> HIDE DEF row
  <1>6. LiveBooked(o, row, box[o])
    BY <1>1, <1>2, <1>3, <1>4 DEF LiveBooked, Separate
  <1>7. Ordered(o, row, calls[o])
    BY <1>1, <1>2, <1>3, <1>4 DEF Ordered, Early, Started, Released, Recorded, Separate
  <1>8. Kept(o, row)
    BY <1>1, <1>2, <1>3, <1>4, <1>6, <1>7, Writes DEF Special, Recorded, Separate
  <1> QED
    BY <1>5, <1>8 DEF RowWritten

LEMMA RecordResponseStep ==
  ASSUME Separate, LiveInv, NEW p \in Procs, NEW o \in Live!Objects, Live!RecordResponse(p, o)
  PROVE  LiveInv'
  <1>0. Live!At(p, o, "respond") /\ Live!Quiet /\ UNCHANGED Live!docker
    BY DEF Live!RecordResponse, Live!Transaction
  <1>1. CASE /\ Live!MayRecordResponse(o) /\ Live!record_create_response(o)
             /\ IF o \in Pair THEN Live!Goto(p, o, "start") ELSE Live!Look(p, o, "before_start")
    <2>1. PICK row : RowWritten(o, row)
      BY <1>0, <1>1, ResponseKept DEF Live!Quiet
    <2> QED
      BY <1>1, <2>1, RowGoes, RowLooks DEF Plain, Points, Looks
  <1> QED
    BY <1>0, <1>1, Denied DEF Live!RecordResponse, Live!Transaction

\* ----------------------------------------------------------- start a target

\* A row that moves on while its run has not ended.
LEMMA Advances ==
  ASSUME LiveInv, NEW o \in Live!Objects, NEW row \in Row, obj' = [obj EXCEPT ![o] = row],
         UNCHANGED <<control, Live!docker>>, obj[o].result = "none",
         obj[o].phase # "absent", row.phase \notin {"absent", "create_requested"},
         row.cleanup = obj[o].cleanup, row.result = obj[o].result,
         row.target = obj[o].target, obj[o].docs \subseteq row.docs,
         "create_dispatch" \in row.docs => "create_dispatch" \in obj[o].docs,
         row.base # obj[o].base => obj[o].phase \in {"exact_id_recorded", "start_invoked"},
         row.base <= box[o].gen,
         row.probe # obj[o].probe => obj[o].phase = "probe_ready",
         o \in Runs /\ obj[o].phase \in Recorded /\ calls[o].start = 1 => row.phase \in Recorded,
         Ordered(o, row, calls[o]), o \in Runs => Measured(row, box[o])
  PROVE  RowWritten(o, row)
  <1>1. /\ obj[o] \in Row /\ box[o] \in Box /\ calls[o] \in Calls
        /\ LiveBooked(o, obj[o], box[o])
        /\ Counted(o, obj[o], box[o], calls[o], inflight)
    BY OneObject
  <1>2. LiveBooked(o, row, box[o]) /\ Counted(o, row, box[o], calls[o], inflight)
    BY <1>1 DEF LiveBooked, Counted
  <1>3. box[o].gen <= box[o].gen
    BY <1>1 DEF Box
  <1> QED
    BY <1>2, <1>3 DEF RowWritten, Kept, LiveFollows, Sound

\* The run's measurements are as good as before.
LEMMA MeasuredStill ==
  ASSUME LiveInv, NEW r \in Runs, NEW row, row.target = obj[r].target, row.base = obj[r].base,
         row.probe = obj[r].probe, row.result = obj[r].result,
         row.phase \in Special => \/ row.phase = obj[r].phase
                                  \/ row.phase = "publish_checked" /\ obj[r].phase = "post_checked"
  PROVE  Measured(row, box[r])
  <1>1. Measured(obj[r], box[r])
    BY DEF LiveInv, Measures
  <1> QED
    BY <1>1 DEF Measured, Matches, Special

LEMMA DispatchTargetStartStep ==
  ASSUME Separate, LiveInv, NEW p \in Procs, NEW t \in Pair, Live!DispatchTargetStart(p, t)
  PROVE  LiveInv'
  <1>0. /\ t \in Live!Objects /\ t \notin Runs /\ Live!At(p, t, "start") /\ Live!Quiet /\ UNCHANGED Live!docker
    BY DEF Live!DispatchTargetStart, Live!Transaction, Live!Objects, Separate
  <1>1. CASE Live!MayDispatchTargetStart(t) /\ Live!target_start_dispatch(t) /\ Live!Goto(p, t, "start_call")
    <2> DEFINE row == [obj[t] EXCEPT !.docs = @ \cup {"start_dispatch"}]
    <2>1. /\ obj[t] \in Row /\ LiveBooked(t, obj[t], box[t]) /\ Ordered(t, obj[t], calls[t])
          /\ Counted(t, obj[t], box[t], calls[t], inflight) /\ calls[t] \in Calls
      BY <1>0, OneObject
    <2>2. obj[t].phase = "exact_id_recorded" /\ "start_dispatch" \notin obj[t].docs
      BY <1>1 DEF Live!MayDispatchTargetStart
    <2>3. row \in Row /\ row.phase = obj[t].phase /\ row.cleanup = obj[t].cleanup
          /\ row.docs = obj[t].docs \cup {"start_dispatch"}
          /\ row.target = obj[t].target /\ row.base = obj[t].base
          /\ row.probe = obj[t].probe /\ row.result = obj[t].result
      BY <2>1 DEF Row, Documents
    <2>4. obj' = [obj EXCEPT ![t] = row]
      BY <1>1 DEF Live!target_start_dispatch, Live!Put
    <2> HIDE DEF row
    <2>5. Ordered(t, row, calls[t])
      BY <1>0, <2>1, <2>2, <2>3 DEF Ordered
    <2>6. obj[t].result = "none" /\ row.base <= box[t].gen /\ calls[t].start = 0
      BY <2>1, <2>2, <2>3 DEF LiveBooked, Counted, Calls
    <2>7. RowWritten(t, row)
      BY <1>0, <2>2, <2>3, <2>4, <2>5, <2>6, Advances DEF Live!Quiet
    <2>8. Vouches(Standing("start_call", t))'
      BY <1>0, <2>3, <2>6, <2>7, WrittenRow, PointVouches DEF Grounded, Points
    <2>9. /\ proc' = [proc EXCEPT ![p] = Standing("start_call", t)]
          /\ Standing("start_call", t) \in Process
          /\ Standing("start_call", t).pc = "start_call" /\ Standing("start_call", t).on = {t}
      BY <1>0, <1>1, Arrives DEF Points
    <2>10. \A r \in Procs \ {p} : ~(proc[r].pc = "start_call" /\ proc[r].on = {t})
      BY <2>2, OneProcess DEF Vouches
    <2> QED
      BY <1>0, <2>7, <2>8, <2>9, <2>10, RowStep
  <1> QED
    BY <1>0, <1>1, Denied DEF Live!DispatchTargetStart, Live!Transaction

\* The start call itself; a run's row may say so at once.
LEMMA Starts ==
  ASSUME Separate, LiveInv, NEW p \in Procs, NEW o \in Live!Objects, Live!At(p, o, "start_call"),
         Live!CallStart(o), UNCHANGED control, NEW row, obj' = [obj EXCEPT ![o] = row],
         \/ row = obj[o]
         \/ /\ o \in Runs /\ obj[o].result = "none"
            /\ row = [obj[o] EXCEPT !.phase = "start_invoked"],
         \/ \E pc \in Plain : Live!Goto(p, o, pc)
         \/ \E phase \in Looks \ {"after_probe"} : Live!Look(p, o, phase)
  PROVE  LiveInv'
  <1>0. /\ obj[o].phase # "absent" /\ "start_dispatch" \in obj[o].docs /\ calls[o].start = 0
    BY AtObject, OneProcess DEF Live!At, Vouches
  <1>1. /\ obj[o] \in Row /\ box[o] \in Box /\ calls[o] \in Calls
        /\ LiveBooked(o, obj[o], box[o]) /\ Ordered(o, obj[o], calls[o])
        /\ Counted(o, obj[o], box[o], calls[o], inflight)
        /\ o \in Runs => Measured(obj[o], box[o])
    BY OneObject
  <1> DEFINE c == [calls[o] EXCEPT !.start = @ + 1]
  <1>2. c \in Calls /\ c.start = 1 /\ c.create = calls[o].create
    BY <1>0, <1>1 DEF Calls
  <1>3. calls' = [calls EXCEPT ![o] = c]
    BY DEF Live!CallStart
  <1> HIDE DEF c
  <1>4. PICK b \in Box :
          /\ box' = [box EXCEPT ![o] = b]
          /\ \/ box[o].status = "created" /\ b.status = "running" /\ b.gen = 1
                /\ inflight' = inflight
             \/ b = box[o] /\ inflight' = inflight \cup {<<"start", o>>}
    <2>1. CASE box[o].status = "created" /\ inflight' = inflight
               /\ box' = [box EXCEPT ![o] = [status |-> "running", gen |-> 1]]
      <3>1. PICK b : b = [status |-> "running", gen |-> 1]
        OBVIOUS
      <3>2. b \in Box /\ b.status = "running" /\ b.gen = 1
        BY <3>1 DEF Box
      <3> QED
        BY <2>1, <3>1, <3>2
    <2>2. CASE inflight' = inflight \cup {<<"start", o>>} /\ UNCHANGED box
      <3>1. box' = [box EXCEPT ![o] = box[o]]
        BY <2>2 DEF LiveInv, LiveTypes
      <3> QED
        BY <1>1, <2>2, <3>1
    <2> QED
      BY <2>1, <2>2 DEF Live!CallStart
  <1>5. /\ row \in Row /\ row.phase # "absent" /\ row.docs = obj[o].docs
        /\ row.cleanup = obj[o].cleanup /\ row.target = obj[o].target
        /\ row.base = obj[o].base /\ row.probe = obj[o].probe /\ row.result = obj[o].result
        /\ row.phase = obj[o].phase
           \/ (o \in Runs /\ row.phase = "start_invoked" /\ obj[o].result = "none")
    BY <1>0, <1>1 DEF Row, Phases
  <1>6. box[o].gen <= b.gen /\ (box[o].status = "created" => box[o].gen = 0)
    BY <1>1, <1>4 DEF Counted, Box
  <1>7. LiveBooked(o, row, b)
    BY <1>0, <1>1, <1>4, <1>5 DEF LiveBooked
  <1>8. Counted(o, row, b, c, inflight')
    BY <1>0, <1>1, <1>2, <1>4, <1>5, <1>6 DEF Counted, Calls, Box, Row
  <1>9. Ordered(o, row, c)
    BY <1>0, <1>1, <1>2, <1>5 DEF Ordered, Early, Started, Separate
  <1>10. o \in Runs => Measured(row, b)
    BY <1>1, <1>4, <1>5, <1>6 DEF Measured, Matches, Row, Measure, Box
  <1>11. LiveFollows(o, row, b, c)
    BY <1>0, <1>1, <1>2, <1>4, <1>5, <1>6, <1>10 DEF LiveFollows
  <1>12. obj'[o].phase # "absent" /\ box'[o] \in Box
    BY <1>4, <1>5 DEF LiveInv, LiveTypes
  <1>13. PICK q \in Process : /\ proc' = [proc EXCEPT ![p] = q]
                              /\ q.pc \notin {"call", "start_call"} /\ Vouches(q)'
    <2>1. ASSUME NEW pc \in Plain, Live!Goto(p, o, pc)
          PROVE  \E q \in Process : /\ proc' = [proc EXCEPT ![p] = q]
                                    /\ q.pc \notin {"call", "start_call"} /\ Vouches(q)'
      <3>1. Vouches(Standing(pc, o))'
        BY <1>12, PointVouches DEF Grounded, Plain
      <3> QED
        BY <2>1, <3>1, Arrives DEF Plain
    <2>2. ASSUME NEW phase \in Looks \ {"after_probe"}, Live!Look(p, o, phase)
          PROVE  \E q \in Process : /\ proc' = [proc EXCEPT ![p] = q]
                                    /\ q.pc \notin {"call", "start_call"} /\ Vouches(q)'
      <3>1. Vouches(Looking(o, phase))'
        BY <1>12, LookVouches
      <3>2. proc' = [proc EXCEPT ![p] = Looking(o, phase)]
        BY <2>2 DEF Live!Look, Looking
      <3> QED
        BY <3>1, <3>2, LooksAt
    <2> QED
      BY <2>1, <2>2
  <1>14. Callers(p, o, q, c)
    BY <1>2, <1>13 DEF Callers, Live!At
  <1>15. /\ control' \in [enabled : BOOLEAN, epoch : Nat, stopped : BOOLEAN]
         /\ inflight' \subseteq {"create", "start", "remove"} \X Live!Objects
         /\ \A x \in Live!Objects \ {o} : <<"create", x>> \in inflight' => <<"create", x>> \in inflight
    BY <1>4 DEF LiveInv, LiveTypes
  <1>16. Sound(o, row, b, c, inflight')
    BY <1>7, <1>8, <1>9 DEF Sound
  <1> QED
    BY <1>2, <1>3, <1>4, <1>5, <1>11, <1>13, <1>14, <1>15, <1>16, Moves

LEMMA StartTargetStep ==
  ASSUME Separate, LiveInv, NEW p \in Procs, NEW t \in Pair, Live!StartTarget(p, t)
  PROVE  LiveInv'
  <1>0. /\ t \in Live!Objects /\ Live!At(p, t, "start_call") /\ UNCHANGED <<control, obj>>
        /\ obj' = [obj EXCEPT ![t] = obj[t]]
    BY DEF Live!StartTarget, Live!authority, Live!Objects, LiveInv, LiveTypes
  <1>1. Live!Fail(p, t) => \E pc \in Plain : Live!Goto(p, t, pc)
    BY DEF Live!Fail, Plain, Points
  <1>2. Live!CallStart(t) /\ (Live!Fail(p, t) \/ Live!Look(p, t, "enroll"))
    BY DEF Live!StartTarget
  <1> QED
    BY <1>0, <1>1, <1>2, Starts DEF Looks

LEMMA VerifyStep ==
  ASSUME Separate, LiveInv, NEW p \in Procs, NEW t \in Pair, Live!Verify(p, t)
  PROVE  LiveInv'
  <1>0. /\ t \in Live!Objects /\ t \notin Runs /\ Live!At(p, t, "enroll") /\ Live!Quiet /\ UNCHANGED Live!docker
    BY DEF Live!Verify, Live!Transaction, Live!Objects, Separate
  <1>1. CASE /\ Live!MayVerifyProvision(t, proc[p].seen) /\ Live!verify_provision(t, proc[p].seen)
             /\ Live!Goto(p, t, "enroll2")
    <2> DEFINE row == [obj[t] EXCEPT !.phase = "identity_verified",
                                     !.base = proc[p].seen.target.gen]
    <2>1. /\ obj[t] \in Row /\ LiveBooked(t, obj[t], box[t]) /\ Ordered(t, obj[t], calls[t])
          /\ Counted(t, obj[t], box[t], calls[t], inflight) /\ calls[t] \in Calls
      BY <1>0, OneObject
    <2>2. obj[t].phase = "exact_id_recorded" /\ obj[t].result = "none"
      BY <1>1, <2>1 DEF Live!MayVerifyProvision, LiveBooked
    <2>3. proc[p].seen.target.gen \in Nat /\ proc[p].seen.target.gen <= box[t].gen
      BY <1>0, OneProcess DEF Process, Seen, Box, Vouches, Live!At
    <2>4. row \in Row /\ row.phase = "identity_verified" /\ row.cleanup = obj[t].cleanup
          /\ row.docs = obj[t].docs /\ row.target = obj[t].target
          /\ row.base = proc[p].seen.target.gen
          /\ row.probe = obj[t].probe /\ row.result = obj[t].result
      BY <2>1, <2>3 DEF Row, Phases
    <2>5. obj' = [obj EXCEPT ![t] = row]
      BY <1>1 DEF Live!verify_provision, Live!Put
    <2> HIDE DEF row
    <2>6. Ordered(t, row, calls[t])
      BY <1>0, <2>1, <2>2, <2>4 DEF Ordered
    <2>7. RowWritten(t, row)
      BY <1>0, <2>2, <2>3, <2>4, <2>5, <2>6, Advances DEF Live!Quiet
    <2> QED
      BY <1>0, <1>1, <2>7, RowGoes DEF Plain, Points
  <1> QED
    BY <1>0, <1>1, Denied DEF Live!Verify, Live!Transaction

LEMMA EnrollStep ==
  ASSUME Separate, LiveInv, NEW p \in Procs, NEW t \in Pair, Live!Enroll(p, t)
  PROVE  LiveInv'
  <1>0. /\ t \in Live!Objects /\ t \notin Runs /\ Live!At(p, t, "enroll2") /\ Live!Quiet /\ UNCHANGED Live!docker
    BY DEF Live!Enroll, Live!Transaction, Live!Objects, Separate
  <1>1. CASE Live!MayEnroll(t) /\ Live!enroll(t) /\ Live!Done(p)
    <2> DEFINE row == [obj[t] EXCEPT !.phase = "enrolled", !.docs = @ \cup {"enrollment"}]
    <2>1. /\ obj[t] \in Row /\ LiveBooked(t, obj[t], box[t]) /\ Ordered(t, obj[t], calls[t])
          /\ Counted(t, obj[t], box[t], calls[t], inflight)
      BY <1>0, OneObject
    <2>2. obj[t].phase = "identity_verified" /\ obj[t].result = "none"
          /\ obj[t].base <= box[t].gen
      BY <1>1, <2>1 DEF Live!MayEnroll, LiveBooked, Counted
    <2>3. row \in Row /\ row.phase = "enrolled" /\ row.cleanup = obj[t].cleanup
          /\ row.docs = obj[t].docs \cup {"enrollment"} /\ row.target = obj[t].target
          /\ row.base = obj[t].base /\ row.probe = obj[t].probe /\ row.result = obj[t].result
      BY <2>1 DEF Row, Phases, Documents
    <2>4. obj' = [obj EXCEPT ![t] = row]
      BY <1>1 DEF Live!enroll, Live!Put
    <2> HIDE DEF row
    <2>5. Ordered(t, row, calls[t])
      BY <1>0, <2>1, <2>3 DEF Ordered
    <2>6. RowWritten(t, row)
      BY <1>0, <2>2, <2>3, <2>4, <2>5, Advances DEF Live!Quiet
    <2> QED
      BY <1>0, <1>1, <2>6, RowDone
  <1> QED
    BY <1>0, <1>1, Denied DEF Live!Enroll, Live!Transaction

\* -------------------------------------------------- observations and phases

LEMMA LiveObserveStep ==
  ASSUME Separate, LiveInv, NEW p \in Procs, NEW o \in Live!Objects, Live!Observe(p, o)
  PROVE  LiveInv'
  <1>0. /\ Live!At(p, o, "look") /\ obj[o].phase # "absent" /\ UNCHANGED <<control, obj, Live!docker>>
        /\ proc[p] \in Process /\ Vouches(proc[p])
    BY AtObject, OneProcess DEF Live!Observe, Live!authority
  <1>1. RowWritten(o, obj[o])
    BY <1>0, Unwritten
  <1>2. CASE Live!Fail(p, o)
    BY <1>1, <1>2, Failed
  <1>3. CASE ~Live!Fail(p, o)
    <2> DEFINE seen == [Live!Nothing EXCEPT
                         !.target = IF o \in Pair THEN box[o]
                                    ELSE box[CHOOSE t \in obj[o].target : TRUE],
                         !.runner = IF o \in Pair THEN Live!NoBox ELSE box[o]]
    <2>0. proc' = [proc EXCEPT ![p].pc = proc[p].phase, ![p].seen = seen]
      BY <1>3 DEF Live!Observe
    <2> HIDE DEF seen
    <2>1. PICK q : /\ q = [proc[p] EXCEPT !.pc = proc[p].phase, !.seen = seen]
                   /\ proc' = [proc EXCEPT ![p] = q]
      BY <2>0 DEF LiveInv, LiveTypes
    <2> USE DEF seen
    <2>2. /\ obj[o] \in Row /\ box[o] \in Box /\ Ordered(o, obj[o], calls[o])
          /\ o \in Runs => Measured(obj[o], box[o])
      BY OneObject
    <2>3. PICK x \in Live!Objects : /\ o \in Pair => x = o
                                    /\ o \in Runs => obj[o].target = {x}
                                    /\ seen.target = box[x]
      <3>1. CASE o \in Pair
        <4>1. seen.target = box[o]
          BY <3>1 DEF Live!Nothing
        <4> QED
          BY <3>1, <4>1 DEF Separate
      <3>2. CASE o \in Runs
        <4>1. PICK t \in Pair : obj[o].target = {t}
          BY <1>0, <2>2, <3>2 DEF Ordered
        <4>2. (CHOOSE u \in obj[o].target : TRUE) = t
          BY <4>1
        <4>3. seen.target = box[t]
          BY <3>2, <4>2 DEF Live!Nothing, Separate
        <4> QED
          BY <3>2, <4>1, <4>3 DEF Separate, Live!Objects
      <3> QED
        BY <3>1, <3>2 DEF Live!Objects
    <2>4. seen.runner = IF o \in Pair THEN Live!NoBox ELSE box[o]
      BY DEF Live!Nothing
    <2>5. box[x] \in Box /\ Live!NoBox \in Box
      BY OneObject DEF Live!NoBox, Box
    <2>6. seen \in Seen
      <3>1. Live!Nothing \in Seen
        BY DEF Live!Nothing, Live!NoBox, Live!NoProbe, Seen, Box, Measure, LiveOutcomes
      <3> QED
        BY <2>2, <2>3, <2>4, <2>5, <3>1 DEF Seen
    <2> HIDE DEF seen
    <2>7. proc[p].phase \in Looks
      BY <1>0 DEF Vouches, Live!At
    <2>8. q \in Process /\ q.pc = proc[p].phase /\ q.on = {o} /\ q.seen = seen
      BY <1>0, <2>1, <2>6, <2>7 DEF Process, Live!At, Points, Looks
    <2>9. Vouches(q)'
      <3>1. obj' = obj /\ box' = box /\ calls' = calls
        BY <1>0 DEF Live!docker
      <3>2. q.pc = "after_probe" /\ o \in Runs =>
              "probe_release" \in obj[o].docs /\ obj[o].phase \in Recorded
        BY <1>0, <2>8 DEF Vouches, Live!At
      <3>4. q.pc \in Looks /\ q.on = {o} /\ q.seen.target = box[x]
            /\ (o \in Runs => q.seen.runner = box[o])
        BY <2>3, <2>4, <2>7, <2>8 DEF Separate
      <3>5. box[o].gen <= box[o].gen
        BY <2>2 DEF Box
      <3>6. o \in Runs => obj[o].probe.target <= box[x].gen /\ obj[o].probe.runner <= box[o].gen
        BY <2>2, <2>3 DEF Measured
      <3> QED
        BY <1>0, <2>3, <3>1, <3>2, <3>4, <3>5, <3>6 DEF Vouches, Looks
    <2>10. q.pc \notin {"call", "start_call"}
      BY <2>7, <2>8 DEF Looks
    <2> QED
      BY <1>1, <2>1, <2>8, <2>9, <2>10, RowStep
  <1> QED
    BY <1>2, <1>3

\* A check moves the run to its next phase; after the probe it compares.
LEMMA CheckKept ==
  ASSUME Separate, LiveInv, NEW p \in Procs, NEW r \in Runs, NEW phase \in DOMAIN Live!ExpectedPhase,
         Live!At(p, r, phase), Live!MayCheckTarget(r, phase, proc[p].seen), Live!check_target(r, phase),
         UNCHANGED <<control, Live!docker>>
  PROVE  \E row : RowWritten(r, row)
  <1> DEFINE row == [obj[r] EXCEPT !.phase = Live!NextPhase[phase]]
  <1>0. r \in Live!Objects /\ phase \in {"before_create", "before_start", "before_probe",
                                    "after_probe", "before_publish"}
    BY DEF Live!Objects, Live!ExpectedPhase
  <1>1. /\ obj[r] \in Row /\ box[r] \in Box /\ Ordered(r, obj[r], calls[r])
        /\ Counted(r, obj[r], box[r], calls[r], inflight) /\ Measured(obj[r], box[r])
    BY <1>0, OneObject
  <1>2. \/ phase = "before_create" /\ obj[r].phase = "reserved" /\ Live!NextPhase[phase] = "checked_create"
        \/ phase = "before_start" /\ obj[r].phase = "runner_owned" /\ Live!NextPhase[phase] = "checked_start"
        \/ phase = "before_probe" /\ obj[r].phase = "running" /\ Live!NextPhase[phase] = "probe_ready"
        \/ phase = "after_probe" /\ obj[r].phase = "probe_recorded" /\ Live!NextPhase[phase] = "post_checked"
        \/ /\ phase = "before_publish" /\ obj[r].phase = "post_checked"
           /\ Live!NextPhase[phase] = "publish_checked"
    BY <1>0 DEF Live!MayCheckTarget, Live!ExpectedPhase, Live!NextPhase
  <1>3. row \in Row /\ row.phase = Live!NextPhase[phase] /\ row.cleanup = obj[r].cleanup
        /\ row.docs = obj[r].docs /\ row.target = obj[r].target
        /\ row.base = obj[r].base /\ row.probe = obj[r].probe /\ row.result = obj[r].result
    BY <1>1, <1>2 DEF Row, Phases
  <1>4. obj' = [obj EXCEPT ![r] = row] /\ obj[r].result = "none"
    BY DEF Live!check_target, Live!Put, Live!MayCheckTarget
  <1> HIDE DEF row
  <1>5. Ordered(r, row, calls[r])
    BY <1>1, <1>2, <1>3 DEF Ordered, Early, Started, Released, Recorded, Separate
  <1>6. Measured(row, box[r])
    <2>1. CASE phase # "after_probe"
      BY <1>2, <1>3, <2>1, MeasuredStill DEF Special
    <2>2. CASE phase = "after_probe"
      <3>1. /\ proc[p] \in Process
            /\ \A t \in obj[r].target : obj[r].probe.target <= proc[p].seen.target.gen
            /\ obj[r].probe.runner <= proc[p].seen.runner.gen
        BY <2>2, OneProcess DEF Vouches, Live!At
      <3>2. /\ \A t \in obj[r].target : obj[t].base <= obj[r].probe.target
            /\ obj[r].base <= obj[r].probe.runner
            /\ obj[r].probe.outcome # "none"
        BY <1>1, <1>2, <2>2 DEF Measured
      <3>3. /\ \A t \in obj[r].target : proc[p].seen.target.gen = obj[t].base
            /\ proc[p].seen.runner.gen = obj[r].base
        <4>1. Live!SameTarget(r, proc[p].seen)
          BY DEF Live!MayCheckTarget
        <4>2. Live!SameRunner(r, proc[p].seen)
          BY <2>2 DEF Live!MayCheckTarget
        <4>3. ASSUME NEW t \in obj[r].target
              PROVE  proc[p].seen.target.gen = obj[t].base
          <5>1. proc[p].seen.target = [status |-> "running", gen |-> obj[t].base]
            BY <4>1 DEF Live!SameTarget
          <5> QED
            BY <5>1
        <4> QED
          BY <4>2, <4>3 DEF Live!SameRunner
      <3>4. obj[r].probe.target \in Nat /\ obj[r].probe.runner \in Nat /\ obj[r].base \in Nat
            /\ proc[p].seen.target.gen \in Nat
        BY <1>1, <3>1 DEF Row, Measure, Process, Seen, Box
      <3>5. Matches(row)
        BY <1>3, <3>1, <3>2, <3>3, <3>4 DEF Matches
      <3> QED
        BY <1>1, <1>2, <1>3, <1>4, <2>2, <3>2, <3>5 DEF Measured
    <2> QED
      BY <2>1, <2>2
  <1>7. RowWritten(r, row)
    BY <1>0, <1>1, <1>2, <1>3, <1>4, <1>5, <1>6, Advances DEF Recorded, Counted
  <1> QED
    BY <1>7

LEMMA CheckStep ==
  ASSUME Separate, LiveInv, NEW p \in Procs, NEW r \in Runs, Live!Check(p, r)
  PROVE  LiveInv'
  <1>0. r \in Live!Objects
    BY DEF Live!Objects
  <1>1. PICK phase \in DOMAIN Live!ExpectedPhase :
          Live!Transaction(p, r, phase, Live!MayCheckTarget(r, phase, proc[p].seen),
                      Live!check_target(r, phase), Live!AfterPhase(p, r, phase))
    BY DEF Live!Check
  <1>2. Live!At(p, r, phase) /\ Live!Quiet /\ UNCHANGED Live!docker
    BY <1>1 DEF Live!Transaction
  <1>3. CASE /\ Live!MayCheckTarget(r, phase, proc[p].seen) /\ Live!check_target(r, phase)
             /\ Live!AfterPhase(p, r, phase)
    <2>1. PICK row : RowWritten(r, row)
      BY <1>2, <1>3, CheckKept DEF Live!Quiet
    <2>2. \/ \E pc \in Plain : Live!Goto(p, r, pc)
          \/ Live!Look(p, r, "before_publish")
      <3>1. phase \in {"before_create", "before_start", "before_probe", "after_probe",
                       "before_publish"}
        BY DEF Live!ExpectedPhase
      <3> QED
        BY <1>3, <3>1 DEF Live!AfterPhase, Plain, Points
    <2> QED
      BY <1>0, <2>1, <2>2, RowGoes, RowLooks DEF Looks
  <1> QED
    BY <1>0, <1>1, <1>2, <1>3, Denied DEF Live!Transaction

LEMMA AuthorizeStep ==
  ASSUME Separate, LiveInv, NEW p \in Procs, NEW r \in Runs, Live!Authorize(p, r)
  PROVE  LiveInv'
  <1>0. /\ r \in Live!Objects /\ r \notin Pair /\ Live!At(p, r, "authorize") /\ Live!Quiet /\ UNCHANGED Live!docker
    BY DEF Live!Authorize, Live!Transaction, Live!Objects, Separate
  <1>1. CASE Live!MayAuthorizeStart(r) /\ Live!authorize_start(r) /\ Live!Goto(p, r, "start")
    <2> DEFINE row == [obj[r] EXCEPT !.phase = "start_authorized"]
    <2>1. /\ obj[r] \in Row /\ LiveBooked(r, obj[r], box[r]) /\ Ordered(r, obj[r], calls[r])
          /\ Counted(r, obj[r], box[r], calls[r], inflight)
      BY <1>0, OneObject
    <2>2. obj[r].phase = "checked_start" /\ obj[r].result = "none" /\ obj[r].base <= box[r].gen
      BY <1>1, <2>1 DEF Live!MayAuthorizeStart, LiveBooked, Counted
    <2>3. row \in Row /\ row.phase = "start_authorized" /\ row.cleanup = obj[r].cleanup
          /\ row.docs = obj[r].docs /\ row.target = obj[r].target
          /\ row.base = obj[r].base /\ row.probe = obj[r].probe /\ row.result = obj[r].result
      BY <2>1 DEF Row, Phases
    <2>4. obj' = [obj EXCEPT ![r] = row]
      BY <1>1 DEF Live!authorize_start, Live!Put
    <2> HIDE DEF row
    <2>5. Ordered(r, row, calls[r])
      BY <1>0, <2>1, <2>2, <2>3 DEF Ordered, Early, Started, Released, Recorded
    <2>6. Measured(row, box[r])
      BY <2>3, MeasuredStill DEF Special
    <2>7. RowWritten(r, row)
      BY <1>0, <2>2, <2>3, <2>4, <2>5, <2>6, Advances DEF Live!Quiet, Recorded
    <2> QED
      BY <1>0, <1>1, <2>7, RowGoes DEF Plain, Points
  <1> QED
    BY <1>0, <1>1, Denied DEF Live!Authorize, Live!Transaction

LEMMA DispatchStartStep ==
  ASSUME Separate, LiveInv, NEW p \in Procs, NEW r \in Runs, Live!DispatchStart(p, r)
  PROVE  LiveInv'
  <1>0. /\ r \in Live!Objects /\ r \notin Pair /\ Live!At(p, r, "start") /\ Live!Quiet /\ UNCHANGED Live!docker
    BY DEF Live!DispatchStart, Live!Transaction, Live!Objects, Separate
  <1>1. CASE Live!MayDispatchStart(r) /\ Live!start_dispatch(r) /\ Live!Goto(p, r, "start_call")
    <2> DEFINE row == [obj[r] EXCEPT !.phase = "start_requested",
                                     !.docs = @ \cup {"start_dispatch"}]
    <2>1. /\ obj[r] \in Row /\ LiveBooked(r, obj[r], box[r]) /\ Ordered(r, obj[r], calls[r])
          /\ Counted(r, obj[r], box[r], calls[r], inflight) /\ calls[r] \in Calls
      BY <1>0, OneObject
    <2>2. /\ obj[r].phase = "start_authorized" /\ obj[r].result = "none"
          /\ obj[r].base <= box[r].gen /\ "start_dispatch" \notin obj[r].docs
          /\ calls[r].start = 0
      BY <1>0, <1>1, <2>1 DEF Live!MayDispatchStart, LiveBooked, Counted, Ordered, Early, Calls
    <2>3. row \in Row /\ row.phase = "start_requested" /\ row.cleanup = obj[r].cleanup
          /\ row.docs = obj[r].docs \cup {"start_dispatch"} /\ row.target = obj[r].target
          /\ row.base = obj[r].base /\ row.probe = obj[r].probe /\ row.result = obj[r].result
      BY <2>1 DEF Row, Phases, Documents
    <2>4. obj' = [obj EXCEPT ![r] = row]
      BY <1>1 DEF Live!start_dispatch, Live!Put
    <2> HIDE DEF row
    <2>5. Ordered(r, row, calls[r])
      BY <1>0, <2>1, <2>2, <2>3 DEF Ordered, Early, Started, Released, Recorded
    <2>6. Measured(row, box[r])
      BY <2>3, MeasuredStill DEF Special
    <2>7. RowWritten(r, row)
      BY <1>0, <2>2, <2>3, <2>4, <2>5, <2>6, Advances DEF Live!Quiet, Recorded
    <2>8. Vouches(Standing("start_call", r))'
      BY <1>0, <2>2, <2>3, <2>7, WrittenRow, PointVouches DEF Grounded, Points
    <2>9. /\ proc' = [proc EXCEPT ![p] = Standing("start_call", r)]
          /\ Standing("start_call", r) \in Process
          /\ Standing("start_call", r).pc = "start_call" /\ Standing("start_call", r).on = {r}
      BY <1>0, <1>1, Arrives DEF Points
    <2>10. \A q \in Procs \ {p} : ~(proc[q].pc = "start_call" /\ proc[q].on = {r})
      BY <2>2, OneProcess DEF Vouches
    <2> QED
      BY <1>0, <2>7, <2>8, <2>9, <2>10, RowStep
  <1> QED
    BY <1>0, <1>1, Denied DEF Live!DispatchStart, Live!Transaction

LEMMA StartRunnerStep ==
  ASSUME Separate, LiveInv, NEW p \in Procs, NEW r \in Runs, Live!StartRunner(p, r)
  PROVE  LiveInv'
  <1>0. /\ r \in Live!Objects /\ Live!At(p, r, "start_call") /\ UNCHANGED control
    BY DEF Live!StartRunner, Live!Objects
  <1>1. Live!Fail(p, r) => \E pc \in Plain : Live!Goto(p, r, pc)
    BY DEF Live!Fail, Plain, Points
  <1>2. CASE Live!CallStart(r) /\ UNCHANGED obj /\ Live!Fail(p, r)
    <2>1. obj' = [obj EXCEPT ![r] = obj[r]]
      BY <1>2 DEF LiveInv, LiveTypes
    <2> QED
      BY <1>0, <1>1, <1>2, <2>1, Starts
  <1>3. CASE Live!CallStart(r) /\ Live!MayRecordStart(r) /\ Live!start_invoked(r) /\ Live!Look(p, r, "live")
    <2>1. /\ obj' = [obj EXCEPT ![r] = [obj[r] EXCEPT !.phase = "start_invoked"]]
          /\ obj[r].result = "none"
      BY <1>3 DEF Live!start_invoked, Live!Put, Live!MayRecordStart
    <2>2. \E phase \in Looks \ {"after_probe"} : Live!Look(p, r, phase)
      BY <1>3 DEF Looks
    <2> QED
      BY <1>0, <1>3, <2>1, <2>2, Starts
  <1> QED
    BY <1>2, <1>3 DEF Live!StartRunner

LEMMA RecordLiveStep ==
  ASSUME Separate, LiveInv, NEW p \in Procs, NEW r \in Runs, Live!RecordLive(p, r)
  PROVE  LiveInv'
  <1>0. /\ r \in Live!Objects /\ r \notin Pair /\ Live!At(p, r, "live") /\ Live!Quiet /\ UNCHANGED Live!docker
    BY DEF Live!RecordLive, Live!Transaction, Live!Objects, Separate
  <1>1. CASE /\ Live!MayRecordLive(r, proc[p].seen) /\ Live!record_runner_live(r, proc[p].seen)
             /\ Live!Look(p, r, "before_probe")
    <2> DEFINE row == [obj[r] EXCEPT !.phase = "running", !.base = proc[p].seen.runner.gen]
    <2>1. /\ obj[r] \in Row /\ LiveBooked(r, obj[r], box[r]) /\ Ordered(r, obj[r], calls[r])
          /\ Measured(obj[r], box[r])
      BY <1>0, OneObject
    <2>2. obj[r].phase = "start_invoked" /\ obj[r].result = "none"
      BY <1>1, <2>1 DEF Live!MayRecordLive, LiveBooked
    <2>3. proc[p].seen.runner.gen \in Nat /\ proc[p].seen.runner.gen <= box[r].gen
      BY <1>0, OneProcess DEF Process, Seen, Box, Vouches, Live!At
    <2>4. row \in Row /\ row.phase = "running" /\ row.cleanup = obj[r].cleanup
          /\ row.docs = obj[r].docs /\ row.target = obj[r].target
          /\ row.base = proc[p].seen.runner.gen
          /\ row.probe = obj[r].probe /\ row.result = obj[r].result
      BY <2>1, <2>3 DEF Row, Phases
    <2>5. obj' = [obj EXCEPT ![r] = row]
      BY <1>1 DEF Live!record_runner_live, Live!Put
    <2> HIDE DEF row
    <2>6. Ordered(r, row, calls[r])
      BY <1>0, <2>1, <2>2, <2>4 DEF Ordered, Early, Started, Released, Recorded
    <2>7. Measured(row, box[r])
      BY <2>1, <2>2, <2>4 DEF Measured
    <2>8. RowWritten(r, row)
      BY <1>0, <2>2, <2>3, <2>4, <2>5, <2>6, <2>7, Advances DEF Live!Quiet, Recorded
    <2> QED
      BY <1>0, <1>1, <2>8, RowLooks DEF Looks
  <1> QED
    BY <1>0, <1>1, Denied DEF Live!RecordLive, Live!Transaction

\* ---------------------------------------------------------------- the probe

LEMMA LiveReleaseStep ==
  ASSUME Separate, LiveInv, NEW p \in Procs, NEW r \in Runs, Live!Release(p, r)
  PROVE  LiveInv'
  <1>0. /\ r \in Live!Objects /\ r \notin Pair /\ Live!At(p, r, "release") /\ Live!Quiet /\ UNCHANGED Live!docker
    BY DEF Live!Release, Live!Transaction, Live!Objects, Separate
  <1>1. CASE Live!MayRelease(r) /\ Live!probe_release(r) /\ Live!Goto(p, r, "probe")
    <2> DEFINE row == [obj[r] EXCEPT !.docs = @ \cup {"probe_release"}]
    <2>1. /\ obj[r] \in Row /\ LiveBooked(r, obj[r], box[r]) /\ Ordered(r, obj[r], calls[r])
          /\ Counted(r, obj[r], box[r], calls[r], inflight)
      BY <1>0, OneObject
    <2>2. obj[r].phase = "probe_ready" /\ obj[r].result = "none" /\ obj[r].base <= box[r].gen
      BY <1>1, <2>1 DEF Live!MayRelease, LiveBooked, Counted
    <2>3. row \in Row /\ row.phase = "probe_ready" /\ row.cleanup = obj[r].cleanup
          /\ row.docs = obj[r].docs \cup {"probe_release"} /\ row.target = obj[r].target
          /\ row.base = obj[r].base /\ row.probe = obj[r].probe /\ row.result = obj[r].result
      BY <2>1, <2>2 DEF Row, Documents
    <2>4. obj' = [obj EXCEPT ![r] = row]
      BY <1>1 DEF Live!probe_release, Live!Put
    <2> HIDE DEF row
    <2>5. Ordered(r, row, calls[r])
      BY <1>0, <2>1, <2>2, <2>3 DEF Ordered, Early, Started, Released, Recorded
    <2>6. Measured(row, box[r])
      BY <2>3, MeasuredStill DEF Special
    <2>7. RowWritten(r, row)
      BY <1>0, <2>2, <2>3, <2>4, <2>5, <2>6, Advances DEF Live!Quiet, Recorded
    <2>8. Vouches(Standing("probe", r))'
      BY <1>0, <2>3, <2>7, WrittenRow, PointVouches DEF Grounded, Points
    <2>9. /\ proc' = [proc EXCEPT ![p] = Standing("probe", r)]
          /\ Standing("probe", r) \in Process /\ Standing("probe", r).pc = "probe"
      BY <1>0, <1>1, Arrives DEF Points
    <2> QED
      BY <1>0, <2>7, <2>8, <2>9, RowStep
  <1> QED
    BY <1>0, <1>1, Denied DEF Live!Release, Live!Transaction

LEMMA LiveProbeStep ==
  ASSUME Separate, LiveInv, NEW p \in Procs, NEW r \in Runs, Live!Probe(p, r)
  PROVE  LiveInv'
  <1>0. /\ r \in Live!Objects /\ r \notin Pair /\ Live!At(p, r, "probe") /\ obj[r].phase # "absent"
        /\ UNCHANGED <<control, obj, Live!docker>> /\ proc[p] \in Process /\ Vouches(proc[p])
    BY AtObject, OneProcess DEF Live!Probe, Live!authority, Live!Objects, Separate
  <1>1. RowWritten(r, obj[r])
    BY <1>0, Unwritten
  <1>2. ASSUME NEW t \in obj[r].target, NEW outcome \in {"passed", "failed", "unknown"},
               proc' = [proc EXCEPT ![p].pc = "record_probe",
                          ![p].seen.probe = [target |-> box[t].gen, runner |-> box[r].gen,
                                             outcome |-> outcome]]
        PROVE  LiveInv'
    <2>1. PICK m : m = [target |-> box[t].gen, runner |-> box[r].gen, outcome |-> outcome]
      OBVIOUS
    <2>2. PICK q : q = [[proc[p] EXCEPT !.pc = "record_probe"] EXCEPT !.seen.probe = m]
      OBVIOUS
    <2>3. proc' = [proc EXCEPT ![p] = q]
      BY <1>2, <2>1, <2>2 DEF LiveInv, LiveTypes
    <2>4. /\ obj[r] \in Row /\ box[r] \in Box /\ Ordered(r, obj[r], calls[r])
          /\ Counted(r, obj[r], box[r], calls[r], inflight)
      BY <1>0, OneObject
    <2>5. obj[r].target = {t} /\ t \in Pair /\ t \in Live!Objects
      BY <1>0, <1>2, <2>4 DEF Ordered, Live!Objects
    <2>6. /\ obj[t] \in Row /\ box[t] \in Box
          /\ Counted(t, obj[t], box[t], calls[t], inflight)
      BY <2>5, OneObject
    <2>7. m \in Measure /\ m.target = box[t].gen /\ m.runner = box[r].gen /\ m.outcome # "none"
      BY <2>1, <2>4, <2>6 DEF Measure, Box, LiveOutcomes
    <2>8. q \in Process /\ q.pc = "record_probe" /\ q.on = {r} /\ q.seen.probe = m
          /\ q.seen.target = proc[p].seen.target /\ q.seen.runner = proc[p].seen.runner
      BY <1>0, <2>2, <2>7 DEF Process, Seen, Live!At, Points
    <2>9. /\ "probe_release" \in obj[r].docs /\ proc[p].seen.runner.gen <= box[r].gen
      BY <1>0 DEF Vouches, Live!At
    <2>10. obj[t].base <= box[t].gen /\ box[t].gen <= box[t].gen
           /\ obj[r].base <= box[r].gen /\ box[r].gen <= box[r].gen
      BY <2>4, <2>6 DEF Counted, Box
    <2>11. obj' = obj /\ box' = box /\ calls' = calls
      BY <1>0 DEF Live!docker
    <2>12. Vouches(q)'
      BY <1>0, <2>5, <2>7, <2>8, <2>9, <2>10, <2>11 DEF Vouches
    <2> QED
      BY <1>0, <1>1, <2>3, <2>8, <2>12, RowStep
  <1>3. CASE Live!Fail(p, r)
    BY <1>0, <1>1, <1>3, Failed
  <1> QED
    BY <1>2, <1>3 DEF Live!Probe

LEMMA RecordProbeStep ==
  ASSUME Separate, LiveInv, NEW p \in Procs, NEW r \in Runs, Live!RecordProbe(p, r)
  PROVE  LiveInv'
  <1>0. /\ r \in Live!Objects /\ r \notin Pair /\ Live!At(p, r, "record_probe") /\ Live!Quiet
        /\ UNCHANGED Live!docker
    BY DEF Live!RecordProbe, Live!Transaction, Live!Objects, Separate
  <1>1. CASE /\ Live!MayRecordProbe(r) /\ Live!record_probe(r, proc[p].seen.probe)
             /\ Live!Look(p, r, "after_probe")
    <2>0. PICK m : m = proc[p].seen.probe
      OBVIOUS
    <2> DEFINE row == [obj[r] EXCEPT !.phase = "probe_recorded", !.probe = m]
    <2>1. /\ obj[r] \in Row /\ LiveBooked(r, obj[r], box[r]) /\ Ordered(r, obj[r], calls[r])
          /\ Counted(r, obj[r], box[r], calls[r], inflight) /\ Measured(obj[r], box[r])
      BY <1>0, OneObject
    <2>2. obj[r].phase = "probe_ready" /\ obj[r].result = "none" /\ obj[r].base <= box[r].gen
      BY <1>1, <2>1 DEF Live!MayRecordProbe, LiveBooked, Counted
    <2>3. /\ m \in Measure /\ m.outcome # "none"
          /\ \A t \in obj[r].target : obj[t].base <= m.target /\ m.target <= box[t].gen
          /\ obj[r].base <= m.runner /\ m.runner <= box[r].gen
          /\ "probe_release" \in obj[r].docs
      BY <1>0, <2>0, OneProcess DEF Process, Seen, Vouches, Live!At
    <2>4. row \in Row /\ row.phase = "probe_recorded" /\ row.cleanup = obj[r].cleanup
          /\ row.docs = obj[r].docs /\ row.target = obj[r].target
          /\ row.base = obj[r].base /\ row.probe = m /\ row.result = obj[r].result
      BY <2>1, <2>3 DEF Row, Phases
    <2>5. obj' = [obj EXCEPT ![r] = row]
      BY <1>1, <2>0 DEF Live!record_probe, Live!Put
    <2> HIDE DEF row
    <2>6. Ordered(r, row, calls[r])
      BY <1>0, <2>1, <2>2, <2>4 DEF Ordered, Early, Started, Released, Recorded
    <2>7. Measured(row, box[r])
      BY <2>1, <2>2, <2>3, <2>4 DEF Measured
    <2>8. RowWritten(r, row)
      BY <1>0, <2>2, <2>3, <2>4, <2>5, <2>6, <2>7, Advances DEF Live!Quiet, Recorded
    <2> QED
      BY <1>0, <1>1, <2>3, <2>4, <2>8, RowLooks DEF Looks, Recorded
  <1> QED
    BY <1>0, <1>1, Denied DEF Live!RecordProbe, Live!Transaction

\* ------------------------------------------------------- the end of a run

LEMMA DispatchFinishStep ==
  ASSUME Separate, LiveInv, NEW p \in Procs, NEW r \in Runs, Live!DispatchFinish(p, r)
  PROVE  LiveInv'
  <1>0. /\ r \in Live!Objects /\ r \notin Pair /\ Live!At(p, r, "finish") /\ Live!Quiet /\ UNCHANGED Live!docker
    BY DEF Live!DispatchFinish, Live!Transaction, Live!Objects, Separate
  <1>1. CASE Live!MayDispatchFinish(r) /\ Live!finish_dispatch(r) /\ Live!Goto(p, r, "wait")
    <2> DEFINE row == [obj[r] EXCEPT !.docs = @ \cup {"finish_dispatch"}]
    <2>1. /\ obj[r] \in Row /\ LiveBooked(r, obj[r], box[r]) /\ Ordered(r, obj[r], calls[r])
          /\ Counted(r, obj[r], box[r], calls[r], inflight)
      BY <1>0, OneObject
    <2>2. obj[r].phase = "publish_checked" /\ obj[r].result = "none" /\ obj[r].base <= box[r].gen
      BY <1>1, <2>1 DEF Live!MayDispatchFinish, LiveBooked, Counted
    <2>3. row \in Row /\ row.phase = "publish_checked" /\ row.cleanup = obj[r].cleanup
          /\ row.docs = obj[r].docs \cup {"finish_dispatch"} /\ row.target = obj[r].target
          /\ row.base = obj[r].base /\ row.probe = obj[r].probe /\ row.result = obj[r].result
      BY <2>1, <2>2 DEF Row, Documents
    <2>4. obj' = [obj EXCEPT ![r] = row]
      BY <1>1 DEF Live!finish_dispatch, Live!Put
    <2> HIDE DEF row
    <2>5. Ordered(r, row, calls[r])
      BY <1>0, <2>1, <2>2, <2>3 DEF Ordered, Early, Started, Released, Recorded
    <2>6. Measured(row, box[r])
      BY <2>2, <2>3, MeasuredStill
    <2>7. RowWritten(r, row)
      BY <1>0, <2>2, <2>3, <2>4, <2>5, <2>6, Advances DEF Live!Quiet, Recorded
    <2> QED
      BY <1>0, <1>1, <2>7, RowGoes DEF Plain, Points
  <1> QED
    BY <1>0, <1>1, Denied DEF Live!DispatchFinish, Live!Transaction

\* A container of an admitted object stops or goes, or a removal is sent.
LEMMA WorldMoves ==
  ASSUME Separate, LiveInv, NEW p \in Procs, NEW o \in Live!Objects, obj[o].phase # "absent",
         NEW b \in Box, box' = [box EXCEPT ![o] = b], UNCHANGED <<control, obj, calls>>,
         inflight' = inflight \/ inflight' = inflight \cup {<<"remove", o>>},
         b.gen = box[o].gen,
         \/ b = box[o]
         \/ Live!Exists(o) /\ b.status \in {"exited", "removed"},
         NEW q \in Process, proc' = [proc EXCEPT ![p] = q], Vouches(q)',
         q.pc \notin {"call", "start_call"}
  PROVE  LiveInv'
  <1>1. /\ obj[o] \in Row /\ box[o] \in Box /\ calls[o] \in Calls
        /\ LiveBooked(o, obj[o], box[o])
        /\ Counted(o, obj[o], box[o], calls[o], inflight)
    BY OneObject
  <1>2. /\ obj' = [obj EXCEPT ![o] = obj[o]] /\ calls' = [calls EXCEPT ![o] = calls[o]]
        /\ control' \in [enabled : BOOLEAN, epoch : Nat, stopped : BOOLEAN]
        /\ inflight' \subseteq {"create", "start", "remove"} \X Live!Objects
        /\ \A x \in Live!Objects : <<"create", x>> \in inflight' => <<"create", x>> \in inflight
    BY DEF LiveInv, LiveTypes
  <1>3. box[o].gen <= b.gen /\ (box[o].status = "removed" => b.status = "removed")
    BY <1>1 DEF Live!Exists, Box
  <1>4. Counted(o, obj[o], b, calls[o], inflight')
    BY <1>1, <1>2 DEF Counted, Live!Exists, Box
  <1>5. obj[o].cleanup = "confirmed" => b.status = "removed"
    BY <1>1, <1>3 DEF LiveBooked
  <1>6. LiveFollows(o, obj[o], b, calls[o]) /\ Sound(o, obj[o], b, calls[o], inflight')
    BY <1>1, <1>3, <1>4, <1>5, WorldFollows
  <1>7. Callers(p, o, q, calls[o])
    BY DEF Callers
  <1> QED
    BY <1>1, <1>2, <1>6, <1>7, Moves

LEMMA WaitStep ==
  ASSUME Separate, LiveInv, NEW p \in Procs, NEW r \in Runs, Live!Wait(p, r)
  PROVE  LiveInv'
  <1>0. /\ r \in Live!Objects /\ Live!At(p, r, "wait") /\ obj[r].phase # "absent"
        /\ UNCHANGED <<control, obj, inflight, calls>> /\ box[r] \in Box
    BY AtObject, OneObject DEF Live!Wait, Live!authority, Live!Objects
  <1>1. CASE Live!Fail(p, r) /\ UNCHANGED box
    <2>1. RowWritten(r, obj[r])
      BY <1>0, <1>1, Unwritten DEF Live!docker
    <2> QED
      BY <1>0, <1>1, <2>1, Failed
  <1>2. CASE /\ box[r].status = "running" /\ box' = [box EXCEPT ![r].status = "exited"]
             /\ Live!Look(p, r, "finished") \/ Live!Fail(p, r)
    <2>1. PICK b : b = [box[r] EXCEPT !.status = "exited"]
      OBVIOUS
    <2>2. b \in Box /\ b.gen = box[r].gen /\ b.status = "exited" /\ box' = [box EXCEPT ![r] = b]
      BY <1>0, <1>2, <2>1 DEF Box
    <2>3. obj'[r].phase # "absent" /\ box'[r] \in Box
      BY <1>0, <2>2 DEF LiveInv, LiveTypes
    <2>4. PICK q \in Process : /\ proc' = [proc EXCEPT ![p] = q]
                               /\ q.pc \notin {"call", "start_call"} /\ Vouches(q)'
      <3>1. CASE Live!Look(p, r, "finished")
        <4>1. Vouches(Looking(r, "finished"))'
          BY <1>0, <2>3, LookVouches DEF Looks
        <4>2. proc' = [proc EXCEPT ![p] = Looking(r, "finished")]
          BY <3>1 DEF Live!Look, Looking
        <4>3. Looking(r, "finished") \in Process /\ Looking(r, "finished").pc = "look"
          BY <1>0, LooksAt DEF Looks
        <4> QED
          BY <4>1, <4>2, <4>3
      <3>2. CASE Live!Fail(p, r)
        <4>1. PICK pc \in Plain : Live!Goto(p, r, pc)
          BY <3>2 DEF Live!Fail, Plain, Points
        <4>2. Vouches(Standing(pc, r))'
          BY <1>0, <2>3, PointVouches DEF Grounded, Plain
        <4> QED
          BY <1>0, <4>1, <4>2, Arrives DEF Plain
      <3> QED
        BY <1>2, <3>1, <3>2
    <2>5. Live!Exists(r)
      BY <1>2 DEF Live!Exists
    <2> QED
      BY <1>0, <2>2, <2>4, <2>5, WorldMoves
  <1> QED
    BY <1>0, <1>1, <1>2 DEF Live!Wait

LEMMA RecordFinishedStep ==
  ASSUME Separate, LiveInv, NEW p \in Procs, NEW r \in Runs, Live!RecordFinished(p, r)
  PROVE  LiveInv'
  <1>0. /\ r \in Live!Objects /\ r \notin Pair /\ Live!At(p, r, "finished") /\ Live!Quiet /\ UNCHANGED Live!docker
    BY DEF Live!RecordFinished, Live!Transaction, Live!Objects, Separate
  <1>1. CASE /\ Live!MayRecordFinished(r, proc[p].seen) /\ Live!record_runner_finished(r)
             /\ Live!Goto(p, r, "publish")
    <2> DEFINE row == [obj[r] EXCEPT !.docs = @ \cup {"runner_finished"}]
    <2>1. /\ obj[r] \in Row /\ LiveBooked(r, obj[r], box[r]) /\ Ordered(r, obj[r], calls[r])
          /\ Counted(r, obj[r], box[r], calls[r], inflight)
      BY <1>0, OneObject
    <2>2. obj[r].phase = "publish_checked" /\ obj[r].result = "none" /\ obj[r].base <= box[r].gen
      BY <1>1, <2>1 DEF Live!MayRecordFinished, LiveBooked, Counted
    <2>3. row \in Row /\ row.phase = "publish_checked" /\ row.cleanup = obj[r].cleanup
          /\ row.docs = obj[r].docs \cup {"runner_finished"} /\ row.target = obj[r].target
          /\ row.base = obj[r].base /\ row.probe = obj[r].probe /\ row.result = obj[r].result
      BY <2>1, <2>2 DEF Row, Documents
    <2>4. obj' = [obj EXCEPT ![r] = row]
      BY <1>1 DEF Live!record_runner_finished, Live!Put
    <2> HIDE DEF row
    <2>5. Ordered(r, row, calls[r])
      BY <1>0, <2>1, <2>2, <2>3 DEF Ordered, Early, Started, Released, Recorded
    <2>6. Measured(row, box[r])
      BY <2>2, <2>3, MeasuredStill
    <2>7. RowWritten(r, row)
      BY <1>0, <2>2, <2>3, <2>4, <2>5, <2>6, Advances DEF Live!Quiet, Recorded
    <2> QED
      BY <1>0, <1>1, <2>7, RowGoes DEF Plain, Points
  <1> QED
    BY <1>0, <1>1, Denied DEF Live!RecordFinished, Live!Transaction

LEMMA EndStep ==
  ASSUME Separate, LiveInv, NEW p \in Procs, NEW r \in Runs, Live!Publish(p, r) \/ Live!Abandon(p, r)
  PROVE  LiveInv'
  <1>0. /\ r \in Live!Objects /\ obj[r].phase # "absent" /\ UNCHANGED <<control, Live!docker>>
        /\ Live!Goto(p, r, "confirm") /\ (Live!publish(r) \/ Live!unknown(r))
    BY AtObject DEF Live!Publish, Live!Abandon, Live!Quiet, Live!Objects
  <1>1. PICK row : RowWritten(r, row)
    <2>1. CASE Live!unknown(r)
      BY <1>0, <2>1, UnknownKept
    <2>2. CASE Live!MayPublish(r) /\ obj' = [obj EXCEPT ![r] = Live!Terminal(obj[r], obj[r].probe.outcome)]
      <3>1. Measured(obj[r], box[r]) /\ obj[r] \in Row
        BY <1>0, OneObject
      <3>2. obj[r].phase = "publish_checked"
        BY <2>2 DEF Live!MayPublish
      <3>3. Matches(obj[r]) /\ obj[r].probe.outcome \in LiveOutcomes \ {"none"}
        BY <3>1, <3>2 DEF Measured, Row, Measure
      <3>4. Kept(r, Live!Terminal(obj[r], obj[r].probe.outcome))
        BY <1>0, <3>3, TerminalKept
      <3> QED
        BY <1>0, <2>2, <3>4 DEF RowWritten
    <2> QED
      BY <1>0, <2>1, <2>2 DEF Live!publish, Live!Put
  <1> QED
    BY <1>0, <1>1, RowGoes DEF Plain, Points

\* ------------------------------------------------------------------ cleanup

LEMMA LiveCleanupStep ==
  ASSUME Separate, LiveInv, NEW p \in Procs, NEW o \in Live!Objects, Live!Cleanup(p, o)
  PROVE  LiveInv'
  <1>1. obj[o].phase # "absent" /\ UNCHANGED <<obj, control, Live!docker>> /\ Live!Goto(p, o, "confirm")
    BY OneObject DEF Live!Cleanup, Live!Quiet, LiveBooked, Live!Absent
  <1>2. RowWritten(o, obj[o])
    BY <1>1, Unwritten
  <1> QED
    BY <1>1, <1>2, RowGoes DEF Plain, Points

LEMMA ConfirmStep ==
  ASSUME Separate, LiveInv, NEW p \in Procs, NEW o \in Live!Objects, Live!Confirm(p, o)
  PROVE  LiveInv'
  <1>1. /\ obj[o].phase # "absent" /\ UNCHANGED <<obj, control, Live!docker>>
        /\ Live!Goto(p, o, "remove") \/ Live!Done(p)
    BY AtObject DEF Live!Confirm, Live!authority
  <1>2. RowWritten(o, obj[o])
    BY <1>1, Unwritten
  <1> QED
    BY <1>1, <1>2, RowGoes, RowDone DEF Plain, Points

LEMMA RemoveStep ==
  ASSUME Separate, LiveInv, NEW p \in Procs, NEW o \in Live!Objects, Live!Remove(p, o)
  PROVE  LiveInv'
  <1>0. /\ obj[o].phase # "absent" /\ UNCHANGED <<control, obj, calls>> /\ box[o] \in Box
    BY AtObject, OneObject DEF Live!Remove, Live!authority
  <1>1. CASE /\ Live!Exists(o) /\ box' = [box EXCEPT ![o].status = "removed"]
             /\ Live!Goto(p, o, "ack") /\ UNCHANGED inflight
    <2>1. PICK b : b = [box[o] EXCEPT !.status = "removed"]
      OBVIOUS
    <2>2. b \in Box /\ b.gen = box[o].gen /\ b.status = "removed" /\ box' = [box EXCEPT ![o] = b]
      BY <1>0, <1>1, <2>1 DEF Box
    <2>3. obj'[o].phase # "absent" /\ box'[o] = b
      BY <1>0, <2>2 DEF LiveInv, LiveTypes
    <2>4. Vouches(Standing("ack", o))'
      BY <2>2, <2>3, PointVouches DEF Grounded, Points
    <2>5. /\ proc' = [proc EXCEPT ![p] = Standing("ack", o)]
          /\ Standing("ack", o) \in Process /\ Standing("ack", o).pc = "ack"
      BY <1>1, Arrives DEF Points
    <2> QED
      BY <1>0, <1>1, <2>2, <2>4, <2>5, WorldMoves
  <1>2. CASE Live!Done(p) /\ UNCHANGED box
             /\ (inflight' = inflight \/ inflight' = inflight \cup {<<"remove", o>>})
    <2>1. box' = [box EXCEPT ![o] = box[o]]
      BY <1>2 DEF LiveInv, LiveTypes
    <2> QED
      BY <1>0, <1>2, <2>1, IdleVouches, WorldMoves DEF Live!Done
  <1> QED
    BY <1>1, <1>2 DEF Live!Remove

LEMMA AcknowledgeStep ==
  ASSUME Separate, LiveInv, NEW p \in Procs, NEW o \in Live!Objects, Live!Acknowledge(p, o)
  PROVE  LiveInv'
  <1>0. /\ obj[o].phase # "absent" /\ UNCHANGED <<control, Live!docker>>
        /\ box[o].status = "removed"
    BY AtObject, OneProcess DEF Live!Acknowledge, Live!Quiet, Live!At, Vouches
  <1>1. CASE UNCHANGED obj /\ Live!Done(p)
    <2>1. RowWritten(o, obj[o])
      BY <1>0, <1>1, Unwritten
    <2> QED
      BY <1>1, <2>1, RowDone
  <1>2. CASE /\ Live!Put(o, [obj[o] EXCEPT !.docs = @ \cup {"remove_ack"}])
             /\ Live!Goto(p, o, "record_cleanup")
    <2> DEFINE row == [obj[o] EXCEPT !.docs = @ \cup {"remove_ack"}]
    <2>1. /\ obj[o] \in Row /\ LiveBooked(o, obj[o], box[o]) /\ Ordered(o, obj[o], calls[o])
      BY OneObject
    <2>2. row \in Row /\ row.phase = obj[o].phase /\ row.cleanup = obj[o].cleanup
          /\ row.docs = obj[o].docs \cup {"remove_ack"}
          /\ row.target = obj[o].target /\ row.base = obj[o].base
          /\ row.probe = obj[o].probe /\ row.result = obj[o].result
      BY <2>1 DEF Row, Documents
    <2>3. obj' = [obj EXCEPT ![o] = row]
      BY <1>2 DEF Live!Put
    <2> HIDE DEF row
    <2>4. LiveBooked(o, row, box[o]) /\ Ordered(o, row, calls[o])
      BY <1>0, <2>1, <2>2 DEF LiveBooked, Ordered
    <2>5. Kept(o, row)
      BY <1>0, <2>2, <2>4, Writes
    <2>6. RowWritten(o, row)
      BY <1>0, <2>3, <2>5 DEF RowWritten
    <2>7. Vouches(Standing("record_cleanup", o))'
      BY <1>0, <2>6, WrittenRow, PointVouches DEF Grounded, Points
    <2>8. /\ proc' = [proc EXCEPT ![p] = Standing("record_cleanup", o)]
          /\ Standing("record_cleanup", o) \in Process
          /\ Standing("record_cleanup", o).pc = "record_cleanup"
      BY <1>2, Arrives DEF Points
    <2> QED
      BY <2>6, <2>7, <2>8, RowStep
  <1> QED
    BY <1>1, <1>2 DEF Live!Acknowledge

LEMMA RecordCleanupStep ==
  ASSUME Separate, LiveInv, NEW p \in Procs, NEW o \in Live!Objects, Live!RecordCleanup(p, o)
  PROVE  LiveInv'
  <1>0. /\ obj[o].phase # "absent" /\ UNCHANGED <<control, Live!docker>> /\ Live!Done(p)
        /\ box[o].status = "removed"
    BY AtObject, OneProcess DEF Live!RecordCleanup, Live!Quiet, Live!At, Vouches
  <1>1. CASE UNCHANGED obj
    <2>1. RowWritten(o, obj[o])
      BY <1>0, <1>1, Unwritten
    <2> QED
      BY <1>0, <2>1, RowDone
  <1>2. CASE Live!MayRecordCleanup(o) /\ Live!record_cleanup(o)
    <2> DEFINE row == [obj[o] EXCEPT !.cleanup = "confirmed", !.docs = @ \cup {"cleanup"}]
    <2>1. /\ obj[o] \in Row /\ LiveBooked(o, obj[o], box[o]) /\ Ordered(o, obj[o], calls[o])
      BY OneObject
    <2>2. row \in Row /\ row.phase = obj[o].phase /\ row.cleanup = "confirmed"
          /\ row.docs = obj[o].docs \cup {"cleanup"}
          /\ row.target = obj[o].target /\ row.base = obj[o].base
          /\ row.probe = obj[o].probe /\ row.result = obj[o].result
      BY <2>1 DEF Row, Documents, Cleanups
    <2>3. obj' = [obj EXCEPT ![o] = row]
      BY <1>2 DEF Live!record_cleanup, Live!Put
    <2> HIDE DEF row
    <2>4. obj[o].phase \in {"terminal", "quarantined"}
      BY <1>2, <2>1 DEF Live!MayRecordCleanup, Live!CleanupAllowed, LiveBooked
    <2>5. LiveBooked(o, row, box[o]) /\ Ordered(o, row, calls[o])
      BY <1>0, <2>1, <2>2, <2>4 DEF LiveBooked, Ordered
    <2>6. Kept(o, row)
      BY <1>0, <2>2, <2>5, Writes
    <2>7. RowWritten(o, row)
      BY <1>0, <2>3, <2>6 DEF RowWritten
    <2> QED
      BY <1>0, <2>7, RowDone
  <1> QED
    BY <1>1, <1>2 DEF Live!RecordCleanup

LEMMA RecoverStep ==
  ASSUME Separate, LiveInv, NEW o \in Live!Objects, Live!Recover(o)
  PROVE  LiveInv'
  <1>1. PICK row : RowWritten(o, row)
    BY ResponseKept DEF Live!Recover, Live!Quiet
  <1> QED
    BY <1>1, RowOnly DEF Live!Recover

\* ----------------------------------------------- controls and the environment

LEMMA RollbackTargetStep ==
  ASSUME Separate, LiveInv, NEW p \in Procs, NEW t \in Pair, Live!RollbackTarget(p, t)
  PROVE  LiveInv'
  <1>0. /\ t \in Live!Objects /\ UNCHANGED <<obj, Live!docker>> /\ Live!Goto(p, t, "revoke")
        /\ control' = [control EXCEPT !.stopped = TRUE]
    BY DEF Live!RollbackTarget, Live!request_stop, Live!Objects
  <1>1. obj[t].phase # "absent"
    BY <1>0, OneObject DEF Live!RollbackTarget, Live!MayRevokeBinding, LiveBooked, Live!Absent
  <1>2. /\ obj[t] \in Row /\ box[t] \in Box /\ calls[t] \in Calls
        /\ LiveFollows(t, obj[t], box[t], calls[t])
        /\ Sound(t, obj[t], box[t], calls[t], inflight)
    BY <1>0, <1>1, OneObject, SameKept DEF Kept
  <1>3. /\ obj' = [obj EXCEPT ![t] = obj[t]] /\ box' = [box EXCEPT ![t] = box[t]]
        /\ calls' = [calls EXCEPT ![t] = calls[t]] /\ inflight' = inflight
        /\ control' \in [enabled : BOOLEAN, epoch : Nat, stopped : BOOLEAN]
        /\ inflight \subseteq {"create", "start", "remove"} \X Live!Objects
    BY <1>0 DEF LiveInv, LiveTypes, Live!docker
  <1>4. obj'[t].phase # "absent" /\ box'[t] \in Box
    BY <1>0, <1>1, <1>2 DEF Live!docker
  <1>5. Vouches(Standing("revoke", t))'
    BY <1>0, <1>4, PointVouches DEF Grounded, Plain, Points
  <1>6. /\ proc' = [proc EXCEPT ![p] = Standing("revoke", t)]
        /\ Standing("revoke", t) \in Process /\ Standing("revoke", t).pc = "revoke"
    BY <1>0, Arrives DEF Points
  <1>7. Callers(p, t, Standing("revoke", t), calls[t])
    BY <1>6 DEF Callers
  <1> QED
    BY <1>0, <1>2, <1>3, <1>5, <1>6, <1>7, Moves

LEMMA RevokeBindingStep ==
  ASSUME Separate, LiveInv, NEW p \in Procs, NEW t \in Pair, Live!RevokeBinding(p, t)
  PROVE  LiveInv'
  <1>0. /\ t \in Live!Objects /\ t \notin Runs /\ obj[t].phase # "absent"
        /\ UNCHANGED <<control, Live!docker>> /\ Live!Goto(p, t, "confirm")
    BY AtObject DEF Live!RevokeBinding, Live!revoke_binding, Live!Objects, Separate
  <1> DEFINE row == [obj[t] EXCEPT !.phase = "quarantined", !.cleanup = "pending"]
  <1>1. /\ obj[t] \in Row /\ LiveBooked(t, obj[t], box[t]) /\ Ordered(t, obj[t], calls[t])
    BY <1>0, OneObject
  <1>2. row \in Row /\ row.phase = "quarantined" /\ row.cleanup = "pending"
        /\ row.docs = obj[t].docs /\ row.target = obj[t].target /\ row.base = obj[t].base
        /\ row.probe = obj[t].probe /\ row.result = obj[t].result
    BY <1>1 DEF Row, Phases, Cleanups
  <1>3. obj' = [obj EXCEPT ![t] = row]
    BY DEF Live!RevokeBinding, Live!revoke_binding, Live!Put
  <1> HIDE DEF row
  <1>4. LiveBooked(t, row, box[t]) /\ Ordered(t, row, calls[t])
    BY <1>0, <1>1, <1>2 DEF LiveBooked, Ordered
  <1>5. Kept(t, row)
    BY <1>0, <1>2, <1>4, Writes DEF Special
  <1>6. RowWritten(t, row)
    BY <1>0, <1>3, <1>5 DEF RowWritten
  <1> QED
    BY <1>0, <1>6, RowGoes DEF Plain, Points

LEMMA NothingMoves ==
  ASSUME LiveInv, UNCHANGED <<obj, Live!docker, proc>>,
         control' \in [enabled : BOOLEAN, epoch : Nat, stopped : BOOLEAN]
  PROVE  LiveInv'
  <1>1. obj' = obj /\ box' = box /\ calls' = calls /\ inflight' = inflight /\ proc' = proc
    BY DEF Live!docker
  <1>2. LiveTypes'
    BY <1>1 DEF LiveInv, LiveTypes
  <1>3. Rows'
    BY <1>1 DEF LiveInv, Rows
  <1>4. Measures'
    BY <1>1 DEF LiveInv, Measures, Measured, Matches
  <1>5. Processes'
    <2> SUFFICES ASSUME NEW p \in Procs PROVE Vouches(proc[p])'
      BY DEF Processes
    <2>1. Vouches(proc[p])
      BY OneProcess
    <2> QED
      BY <1>1, <2>1 DEF Vouches
  <1>6. OneCaller' /\ OnePending'
    BY <1>1 DEF LiveInv, OneCaller, OnePending, Pending
  <1> QED
    BY <1>2, <1>3, <1>4, <1>5, <1>6 DEF LiveInv

\* The last look before a call moves the process only when it is refused.
LEMMA PassStep ==
  ASSUME Separate, LiveInv, NEW p \in Procs, NEW o \in Live!Objects,
         \/ Live!PassCreate(p, o)
         \/ o \in Pair /\ Live!PassStartTarget(p, o)
         \/ o \in Runs /\ Live!PassStartRunner(p, o)
  PROVE  LiveInv'
  <1>1. /\ obj[o].phase # "absent" /\ UNCHANGED <<obj, control, Live!docker>>
        /\ UNCHANGED proc \/ Live!Goto(p, o, "unconfirmed") \/ Live!Fail(p, o)
    BY AtObject DEF Live!PassCreate, Live!PassStartTarget, Live!PassStartRunner, Live!Pass, Live!authority
  <1>2. RowWritten(o, obj[o])
    BY <1>1, Unwritten
  <1> QED
    BY <1>1, <1>2, RowOnly, RowGoes, Failed DEF Plain, Points

LEMMA LockTimeoutStep ==
  ASSUME Separate, LiveInv, NEW p \in Procs, NEW o \in Live!Objects, Live!LockTimeout(p, o)
  PROVE  LiveInv'
  <1>1. /\ obj[o].phase # "absent" /\ UNCHANGED <<obj, control, Live!docker>>
        /\ Live!Goto(p, o, "unconfirmed") \/ Live!Fail(p, o)
    BY OneProcess DEF Live!LockTimeout, Vouches, Live!authority
  <1>2. RowWritten(o, obj[o])
    BY <1>1, Unwritten
  <1>3. UNCHANGED <<control, Live!docker>>
    BY <1>1
  <1>4. CASE Live!Goto(p, o, "unconfirmed")
    <2>1. "unconfirmed" \in Plain /\ Plain \subseteq Points
      BY DEF Plain, Points
    <2> QED
      BY <1>2, <1>3, <1>4, <2>1, RowGoes
  <1>5. CASE Live!Fail(p, o)
    BY <1>2, <1>3, <1>5, Failed
  <1> QED
    BY <1>1, <1>4, <1>5

LEMMA ControlStep ==
  ASSUME LiveInv, Live!Control
  PROVE  LiveInv'
  <1>1. /\ UNCHANGED <<obj, Live!docker, proc>>
        /\ control' \in [enabled : BOOLEAN, epoch : Nat, stopped : BOOLEAN]
    <2>1. UNCHANGED <<obj, Live!docker, proc>>
      BY DEF Live!Control, Live!set_enabled, Live!request_stop, Live!revoke_approval
    <2>2. \/ \E on \in BOOLEAN : control' = [control EXCEPT !.enabled = on, !.epoch = @ + 1]
          \/ control' = [control EXCEPT !.stopped = TRUE]
          \/ control' = control
      BY DEF Live!Control, Live!set_enabled, Live!request_stop, Live!revoke_approval
    <2>3. control \in [enabled : BOOLEAN, epoch : Nat, stopped : BOOLEAN]
      BY DEF LiveInv, LiveTypes
    <2>4. ASSUME NEW on \in BOOLEAN, control' = [control EXCEPT !.enabled = on, !.epoch = @ + 1]
          PROVE  control' \in [enabled : BOOLEAN, epoch : Nat, stopped : BOOLEAN]
      <3>1. control.epoch + 1 \in Nat
        BY <2>3
      <3> QED
        BY <2>3, <2>4, <3>1
    <2>5. ASSUME NEW on \in BOOLEAN, control' = [control EXCEPT !.stopped = on]
          PROVE  control' \in [enabled : BOOLEAN, epoch : Nat, stopped : BOOLEAN]
      BY <2>3, <2>5
    <2>6. control' = [control EXCEPT !.stopped = TRUE]
            => \E on \in BOOLEAN : control' = [control EXCEPT !.stopped = on]
      OBVIOUS
    <2> QED
      BY <2>1, <2>2, <2>3, <2>4, <2>5, <2>6
  <1> QED
    BY <1>1, NothingMoves

\* Only the container of an object changes, by itself.
LEMMA BoxChanges ==
  ASSUME Separate, LiveInv, NEW o \in Live!Objects, NEW b \in Box, box' = [box EXCEPT ![o] = b],
         UNCHANGED <<control, obj, calls, proc>>, inflight' \subseteq inflight,
         b.status # "none", box[o].gen <= b.gen, b.status = "created" => b.gen = 0,
         \/ box[o].status = "none" /\ <<"create", o>> \in inflight
            /\ <<"create", o>> \notin inflight'
         \/ Live!Exists(o)
  PROVE  LiveInv'
  <1>1. /\ obj[o] \in Row /\ box[o] \in Box /\ calls[o] \in Calls
        /\ LiveBooked(o, obj[o], box[o])
        /\ Counted(o, obj[o], box[o], calls[o], inflight)
    BY OneObject
  <1>2. calls[o].create = 1 /\ "create_dispatch" \in obj[o].docs
    BY <1>1 DEF Counted, Live!Exists
  <1>3. obj[o].phase # "absent"
    BY <1>1, <1>2 DEF LiveBooked, Live!Absent
  <1>4. box[o].status # "removed" /\ obj[o].cleanup # "confirmed"
    BY <1>1 DEF LiveBooked, Live!Exists
  <1>5. Counted(o, obj[o], b, calls[o], inflight')
    BY <1>1, <1>2 DEF Counted, Live!Exists, Box, Row
  <1>6. LiveFollows(o, obj[o], b, calls[o]) /\ Sound(o, obj[o], b, calls[o], inflight')
    BY <1>1, <1>3, <1>4, <1>5, WorldFollows
  <1>7. /\ obj' = [obj EXCEPT ![o] = obj[o]] /\ UNCHANGED <<calls, proc>>
        /\ control' \in [enabled : BOOLEAN, epoch : Nat, stopped : BOOLEAN]
        /\ inflight' \subseteq {"create", "start", "remove"} \X Live!Objects
        /\ \A x \in Live!Objects \ {o} : <<"create", x>> \in inflight' => <<"create", x>> \in inflight
    BY DEF LiveInv, LiveTypes
  <1> QED
    BY <1>1, <1>6, <1>7, Stays

LEMMA ExecuteStep ==
  ASSUME Separate, LiveInv, NEW op \in inflight, Live!Execute(op)
  PROVE  LiveInv'
  <1>1. PICK kind \in {"create", "start", "remove"}, o \in Live!Objects : op = <<kind, o>>
    BY DEF LiveInv, LiveTypes
  <1>2. /\ UNCHANGED <<control, obj, calls, proc>> /\ inflight' = inflight \ {<<kind, o>>}
        /\ \/ kind = "create" /\ box' = [box EXCEPT ![o].status = "created"]
           \/ /\ kind = "start" /\ box[o].status = "created"
              /\ box' = [box EXCEPT ![o] = [status |-> "running", gen |-> 1]]
           \/ kind = "remove" /\ Live!Exists(o) /\ box' = [box EXCEPT ![o].status = "removed"]
    BY <1>1 DEF Live!Execute, Live!authority
  <1>3. box[o] \in Box /\ Counted(o, obj[o], box[o], calls[o], inflight)
    BY OneObject
  <1>4. CASE kind = "create" /\ box' = [box EXCEPT ![o].status = "created"]
    <2>1. PICK b : b = [box[o] EXCEPT !.status = "created"]
      OBVIOUS
    <2>2. box[o].status = "none" /\ box[o].gen = 0 /\ <<"create", o>> \in inflight
      BY <1>1, <1>3, <1>4 DEF Counted
    <2>3. b \in Box /\ b.gen = 0 /\ b.status = "created" /\ box' = [box EXCEPT ![o] = b]
      BY <1>3, <1>4, <2>1, <2>2 DEF Box
    <2>4. box[o].gen <= b.gen /\ <<"create", o>> \notin inflight' /\ inflight' \subseteq inflight
      BY <1>2, <1>4, <2>2, <2>3
    <2> QED
      BY <1>2, <2>2, <2>3, <2>4, BoxChanges
  <1>5. CASE kind = "start" /\ box[o].status = "created"
             /\ box' = [box EXCEPT ![o] = [status |-> "running", gen |-> 1]]
    <2>1. PICK b : b = [status |-> "running", gen |-> 1]
      OBVIOUS
    <2>2. b \in Box /\ b.gen = 1 /\ b.status = "running" /\ box' = [box EXCEPT ![o] = b]
      BY <1>5, <2>1 DEF Box
    <2>3. box[o].gen = 0 /\ Live!Exists(o)
      BY <1>3, <1>5 DEF Counted, Live!Exists
    <2>4. box[o].gen <= b.gen /\ inflight' \subseteq inflight
      BY <1>2, <2>2, <2>3
    <2> QED
      BY <1>2, <2>2, <2>3, <2>4, BoxChanges
  <1>6. CASE kind = "remove" /\ Live!Exists(o) /\ box' = [box EXCEPT ![o].status = "removed"]
    <2>1. PICK b : b = [box[o] EXCEPT !.status = "removed"]
      OBVIOUS
    <2>2. b \in Box /\ b.gen = box[o].gen /\ b.status = "removed" /\ box' = [box EXCEPT ![o] = b]
      BY <1>3, <1>6, <2>1 DEF Box
    <2>3. box[o].gen <= b.gen
      BY <1>3, <2>2 DEF Box
    <2> QED
      BY <1>2, <1>6, <2>2, <2>3, BoxChanges
  <1> QED
    BY <1>2, <1>4, <1>5, <1>6

LEMMA RestartStep ==
  ASSUME Separate, LiveInv, NEW o \in Live!Objects, Live!Restart(o)
  PROVE  LiveInv'
  <1>0. /\ UNCHANGED <<control, obj, calls, proc>> /\ inflight' \subseteq inflight
        /\ Live!Exists(o) /\ box[o] \in Box
    BY OneObject DEF Live!Restart, Live!authority, Live!Exists
  <1>1. PICK b \in Box : /\ box' = [box EXCEPT ![o] = b] /\ box[o].gen <= b.gen
                         /\ b.status \in {"running", "exited"}
    <2>1. CASE box' = [box EXCEPT ![o].gen = @ + 1]
      <3>1. PICK b : b = [box[o] EXCEPT !.gen = @ + 1]
        OBVIOUS
      <3>2. b \in Box /\ box[o].gen <= b.gen /\ b.status = "running"
            /\ box' = [box EXCEPT ![o] = b]
        BY <1>0, <2>1, <3>1 DEF Box, Live!Restart
      <3> QED
        BY <3>2
    <2>2. CASE box' = [box EXCEPT ![o].status = "exited"]
      <3>1. PICK b : b = [box[o] EXCEPT !.status = "exited"]
        OBVIOUS
      <3>2. b \in Box /\ box[o].gen <= b.gen /\ b.status = "exited"
            /\ box' = [box EXCEPT ![o] = b]
        BY <1>0, <2>2, <3>1 DEF Box
      <3> QED
        BY <3>2
    <2> QED
      BY <2>1, <2>2 DEF Live!Restart
  <1> QED
    BY <1>0, <1>1, BoxChanges

LEMMA LiveDieStep ==
  ASSUME Separate, LiveInv, NEW p \in Procs, Live!Die(p)
  PROVE  LiveInv'
  <1>0. /\ UNCHANGED <<control, obj, Live!docker>> /\ proc' = [proc EXCEPT ![p] = Live!Idle]
    BY DEF Live!Die, Live!Done, Live!authority
  <1>1. obj' = obj /\ box' = box /\ calls' = calls /\ inflight' = inflight /\ control' = control
    BY <1>0 DEF Live!docker
  <1>2. \A q \in Procs : proc'[q] = IF q = p THEN Live!Idle ELSE proc[q]
    BY <1>0 DEF LiveInv, LiveTypes
  <1>3. LiveTypes'
    BY <1>0, <1>1, IdleVouches DEF LiveInv, LiveTypes
  <1>4. Rows' /\ Measures' /\ OnePending'
    BY <1>1 DEF LiveInv, Rows, Measures, Measured, Matches, OnePending, Pending
  <1>5. Processes'
    <2> SUFFICES ASSUME NEW q \in Procs PROVE Vouches(proc[q])'
      BY DEF Processes
    <2>1. CASE q = p
      BY <1>2, <2>1, IdleVouches DEF Vouches
    <2>2. CASE q # p
      <3>1. Vouches(proc[q]) /\ proc'[q] = proc[q]
        BY <1>2, <2>2, OneProcess
      <3> QED
        BY <1>1, <3>1 DEF Vouches
    <2> QED
      BY <2>1, <2>2
  <1>6. OneCaller'
    BY <1>2, IdleVouches DEF LiveInv, OneCaller
  <1> QED
    BY <1>3, <1>4, <1>5, <1>6 DEF LiveInv

LEMMA LiveExpireStep ==
  ASSUME Separate, LiveInv, NEW r \in Runs, Live!Expire(r)
  PROVE  LiveInv'
  <1>0. r \in Live!Objects /\ obj[r].phase # "absent" /\ UNCHANGED <<control, Live!docker, proc>>
    BY DEF Live!Expire, Live!Quiet, Live!Objects
  <1>1. PICK row : RowWritten(r, row)
    BY <1>0, ExpireKept DEF Live!Expire
  <1> QED
    BY <1>0, <1>1, RowOnly

\* ------------------------------------------------------------- every step

LEMMA LiveInductive ==
  ASSUME Separate, LiveInv, [Live!Next]_(Live!vars)
  PROVE  LiveInv'
  <1>1. ASSUME NEW p \in Procs, NEW t \in Pair, Live!Provisioning(p, t) PROVE LiveInv'
    <2>1. t \in Live!Objects
      BY DEF Live!Objects
    <2> QED
      BY <1>1, <2>1, ProvisionNewStep, UnconfirmedStep, DispatchTargetStartStep,
         PassStep, StartTargetStep, VerifyStep, EnrollStep, RollbackTargetStep, RevokeBindingStep
         DEF Live!Provisioning
  <1>2. ASSUME NEW p \in Procs, NEW r \in Runs, Live!Running(p, r) PROVE LiveInv'
    <2>1. r \in Live!Objects
      BY DEF Live!Objects
    <2> QED
      BY <1>2, <2>1, PassStep, SubmitStep, CheckStep, AuthorizeStep, DispatchStartStep, StartRunnerStep,
       RecordLiveStep, LiveReleaseStep, LiveProbeStep, RecordProbeStep, DispatchFinishStep, WaitStep,
       RecordFinishedStep, EndStep DEF Live!Running
  <1>3. ASSUME NEW p \in Procs, NEW o \in Live!Objects, Live!Either(p, o) PROVE LiveInv'
    <2>1. CASE \/ Live!BeginCreate(p, o) \/ Live!DispatchCreate(p, o) \/ Live!PassCreate(p, o)
               \/ Live!CallCreate(p, o) \/ Live!LockTimeout(p, o)
      BY <2>1, BeginCreateStep, DispatchCreateStep, PassStep, LockTimeoutStep, CallCreateStep
    <2>2. CASE \/ Live!RecordResponse(p, o) \/ Live!Unconfirmed(p, o) \/ Live!Observe(p, o)
               \/ Live!Cleanup(p, o)
      BY <2>2, RecordResponseStep, UnconfirmedStep, LiveObserveStep, LiveCleanupStep
    <2>3. CASE \/ Live!Confirm(p, o) \/ Live!Remove(p, o) \/ Live!Acknowledge(p, o)
               \/ Live!RecordCleanup(p, o)
      BY <2>3, ConfirmStep, RemoveStep, AcknowledgeStep, RecordCleanupStep
    <2> QED
      BY <1>3, <2>1, <2>2, <2>3 DEF Live!Either
  <1>4. CASE UNCHANGED Live!vars
    <2>1. /\ UNCHANGED <<obj, Live!docker, proc>>
          /\ control' \in [enabled : BOOLEAN, epoch : Nat, stopped : BOOLEAN]
      BY <1>4 DEF Live!vars, Live!authority, LiveInv, LiveTypes
    <2> QED
      BY <2>1, NothingMoves
  <1> QED
    BY <1>1, <1>2, <1>3, <1>4, LiveDieStep, RecoverStep, RestartStep, LiveExpireStep, ExecuteStep,
       ControlStep DEF Live!Next

LEMMA LiveStarts ==
  ASSUME Separate, Live!Init
  PROVE  LiveInv
  <1>1. /\ \A o \in Live!Objects : /\ obj[o] = Live!Absent /\ box[o] = Live!NoBox
                                   /\ calls[o] = [create |-> 0, start |-> 0]
        /\ \A p \in Procs : proc[p] = Live!Idle
        /\ inflight = {}
    BY DEF Live!Init
  <1>2. LiveTypes
    <2>1. Live!Absent \in Row /\ Live!NoBox \in Box /\ [create |-> 0, start |-> 0] \in Calls
      BY DEF Live!Absent, Live!NoBox, Live!NoProbe, Row, Box, Calls, Phases, Cleanups, LiveOutcomes, Measure
    <2> QED
      BY <2>1, IdleVouches DEF Live!Init, LiveTypes
  <1>3. Rows
    <2> SUFFICES ASSUME NEW o \in Live!Objects
                 PROVE  Sound(o, obj[o], box[o], calls[o], inflight)
      BY DEF Rows
    <2>1. LiveBooked(o, obj[o], box[o])
      BY <1>1 DEF LiveBooked, Live!Absent
    <2>2. Counted(o, obj[o], box[o], calls[o], inflight)
      BY <1>1 DEF Counted, Live!Absent, Live!NoBox
    <2>3. Ordered(o, obj[o], calls[o])
      BY <1>1 DEF Ordered, Live!Absent, Early, Started
    <2> QED
      BY <2>1, <2>2, <2>3 DEF Sound
  <1>4. Measures
    BY <1>1 DEF Measures, Measured, Live!Absent, Live!NoBox, Live!NoProbe, Live!Objects
  <1>5. Processes /\ OneCaller
    BY <1>1 DEF Processes, Vouches, OneCaller, Live!Idle
  <1>6. OnePending
    BY <1>1 DEF OnePending, Pending, Live!Absent, Live!Objects
  <1> QED
    BY <1>2, <1>3, <1>4, <1>5, <1>6 DEF LiveInv

\* ------------------------------------------------------------ what it promises

LEMMA LivePromises ==
  ASSUME LiveInv
  PROVE  Live!AtMostOnce /\ Live!NoOrphan /\ Live!Capacity /\ Live!VerdictOfEnrolled
  <1>1. \A o \in Live!Objects : /\ obj[o] \in Row /\ box[o] \in Box
                                /\ LiveBooked(o, obj[o], box[o])
                                /\ Counted(o, obj[o], box[o], calls[o], inflight)
    BY OneObject
  <1>2. Live!AtMostOnce
    BY <1>1 DEF Live!AtMostOnce, Counted
  <1>3. ASSUME NEW o \in Live!Objects, Live!Outstanding(o)
        PROVE  /\ "create_dispatch" \in obj[o].docs
               /\ obj[o].cleanup \in {"quarantined", "pending", "retained"}
               /\ Pending(o)
    <2>1. "create_dispatch" \in obj[o].docs
      BY <1>1, <1>3 DEF Live!Outstanding, Live!Exists, Counted
    <2>2. box[o].status # "removed"
      BY <1>1, <1>3 DEF Live!Outstanding, Live!Exists, Counted
    <2>3. obj[o].cleanup \notin {"not_required", "confirmed"} /\ obj[o].phase # "absent"
      BY <1>1, <2>1, <2>2 DEF LiveBooked, Live!Absent
    <2> QED
      BY <1>1, <2>1, <2>2, <2>3 DEF Row, Cleanups, Pending
  <1>4. Live!NoOrphan
    BY <1>3 DEF Live!NoOrphan
  <1>5. Live!Capacity
    <2>1. ASSUME NEW S, S \in {Pair, Runs}
          PROVE  Live!Cardinality({o \in S : Live!Outstanding(o)}) <= 1
      <3> DEFINE all == {o \in S : Live!Outstanding(o)}
      <3>1. \A x, y \in all : x = y
        BY <1>3, <2>1 DEF LiveInv, OnePending, Live!Objects
      <3>2. all = {} \/ \E x : all = {x}
        BY <3>1
      <3> HIDE DEF all
      <3>3. Cardinality(all) \in {0, 1}
        BY <3>2, FS_EmptySet, FS_Singleton
      <3>4. Live!Cardinality(all) = Cardinality(all)
        BY DEF Cardinality, Live!Cardinality
      <3> QED
        BY <3>3, <3>4 DEF all
    <2> QED
      BY <2>1 DEF Live!Capacity
  <1>6. Live!VerdictOfEnrolled
    BY DEF Live!VerdictOfEnrolled, LiveInv, Measures, Measured, Matches
  <1> QED
    BY <1>2, <1>4, <1>5, <1>6

-----------------------------------------------------------------------------
(* The live runtime: what may still change between the last look at the     *)
(* controls and the call.                                                   *)

\* A process behind its last check for an object, and the journal it saw.
Passed(p, o) ==
  /\ proc[p].on = {o} /\ proc[p].pc \in {"call", "start_call"}
  /\ control.enabled /\ obj[o].epoch = control.epoch /\ "approval" \notin revoked
  /\ proc[p].pc = "call" => obj[o].phase = "create_requested"
  /\ o \in Runs /\ proc[p].pc = "start_call" => obj[o].target \cap revoked = {}

Held == \A p \in lock : lock = {p} /\ p \in Procs /\ \E o \in Live!Objects : Passed(p, o)

MakesCall(p, o) ==
  /\ proc[p].on = {o}
  /\ \/ proc[p].pc = "call" /\ calls' = [calls EXCEPT ![o].create = @ + 1]
     \/ proc[p].pc = "start_call" /\ calls' = [calls EXCEPT ![o].start = @ + 1]

Undisturbed(p) ==
  /\ lock' = lock /\ UNCHANGED <<obj, revoked, calls>>
  /\ control'.enabled = control.enabled /\ control'.epoch = control.epoch
  /\ proc'[p] = proc[p]

\* While a process holds the lock it calls or dies, or nothing of it changes.
LEMMA WhileHeld ==
  ASSUME LiveInv, Held, Live!Next, NEW p \in lock
  PROVE  \/ Undisturbed(p)
         \/ lock' = {} /\ UNCHANGED calls
         \/ lock' = {} /\ \E o \in Live!Objects : MakesCall(p, o)
<1>0. /\ lock = {p} /\ p \in Procs /\ ~Live!Free
      /\ proc[p].pc \in {"call", "start_call"}
      /\ p \in DOMAIN proc
      /\ control \in [enabled : BOOLEAN, epoch : Nat, stopped : BOOLEAN]
      /\ Pair \subseteq Live!Objects /\ Runs \subseteq Live!Objects
  BY DEF Held, Passed, Live!Free, LiveInv, LiveTypes, Live!Objects
<1> DEFINE Result == \/ Undisturbed(p)
                     \/ lock' = {} /\ UNCHANGED calls
                     \/ lock' = {} /\ \E o \in Live!Objects : MakesCall(p, o)
<1>s. ASSUME control' = [control EXCEPT !.stopped = TRUE]
      PROVE  control'.enabled = control.enabled /\ control'.epoch = control.epoch
  BY <1>0, <1>s
<1>1. ASSUME NEW q \in Procs, NEW t \in Pair, Live!Provisioning(q, t) PROVE Result
  <2>1. CASE Live!StartTarget(q, t)
    <3>1. q = p /\ lock' = {} /\ MakesCall(p, t)
      BY <1>0, <2>1 DEF Live!StartTarget, Live!CallStart, Live!At, MakesCall
    <3>2. QED
      BY <1>0, <3>1
  <2>2. CASE Live!RollbackTarget(q, t)
    <3>1. q # p
      BY <1>0, <2>2 DEF Live!RollbackTarget, Live!Idle
    <3>2. proc'[p] = proc[p]
      BY <1>0, <2>2, <3>1 DEF Live!RollbackTarget, Live!Goto
    <3>3. QED
      BY <1>s, <2>2, <3>2 DEF Live!RollbackTarget, Live!request_stop, Live!docker, Undisturbed
  <2>3. QED
    BY <1>0, <1>1, <2>1, <2>2
       DEF Live!Provisioning, Live!ProvisionNew, Live!Quarantine, Live!DispatchTargetStart,
           Live!PassStartTarget, Live!Pass, Live!Verify, Live!Enroll, Live!RevokeBinding,
           Live!Transaction, Live!Quiet
<1>2. ASSUME NEW q \in Procs, NEW r \in Runs, Live!Running(q, r) PROVE Result
  <2>1. CASE Live!StartRunner(q, r)
    <3>1. q = p /\ lock' = {} /\ MakesCall(p, r)
      BY <1>0, <2>1 DEF Live!StartRunner, Live!CallStart, Live!At, MakesCall
    <3>2. QED
      BY <1>0, <3>1
  <2>2. CASE Live!Probe(q, r) \/ Live!Wait(q, r)
    <3>1. q # p
      BY <1>0, <2>2 DEF Live!Probe, Live!Wait, Live!At
    <3>2. proc'[p] = proc[p]
      BY <1>0, <2>2, <3>1 DEF Live!Probe, Live!Wait, Live!Fail, Live!Goto, Live!Look
    <3>3. QED
      BY <2>2, <3>2 DEF Live!Probe, Live!Wait, Live!authority, Live!docker, Undisturbed
  <2>3. QED
    BY <1>0, <1>2, <2>1, <2>2
       DEF Live!Running, Live!Submit, Live!Check, Live!Authorize, Live!DispatchStart,
           Live!PassStartRunner, Live!Pass, Live!RecordLive, Live!Release, Live!RecordProbe,
           Live!DispatchFinish, Live!RecordFinished, Live!Publish, Live!Abandon,
           Live!Transaction, Live!Quiet
<1>3. ASSUME NEW q \in Procs, NEW o \in Live!Objects, Live!Either(q, o) PROVE Result
  <2>1. CASE Live!CallCreate(q, o)
    <3>1. q = p /\ lock' = {} /\ MakesCall(p, o)
      BY <1>0, <2>1 DEF Live!CallCreate, Live!At, MakesCall
    <3>2. QED
      BY <3>1
  <2>2. CASE Live!Observe(q, o) \/ Live!Remove(q, o) \/ Live!LockTimeout(q, o)
    <3>1. q # p
      BY <1>0, <2>2 DEF Live!Observe, Live!Remove, Live!LockTimeout, Live!At
    <3>2. proc'[p] = proc[p]
      BY <1>0, <2>2, <3>1
         DEF Live!Observe, Live!Remove, Live!LockTimeout, Live!Fail, Live!Goto, Live!Done
    <3>3. QED
      BY <2>2, <3>2
         DEF Live!Observe, Live!Remove, Live!LockTimeout, Live!authority, Live!docker, Undisturbed
  <2>3. QED
    BY <1>0, <1>3, <2>1, <2>2
       DEF Live!Either, Live!BeginCreate, Live!DispatchCreate, Live!PassCreate, Live!Pass,
           Live!RecordResponse, Live!Unconfirmed, Live!Cleanup, Live!Confirm,
           Live!Acknowledge, Live!RecordCleanup, Live!Transaction, Live!Quiet
<1>4. ASSUME NEW q \in Procs, Live!Die(q) PROVE Result
  <2>1. CASE q = p
    BY <1>0, <1>4, <2>1 DEF Live!Die, Live!docker
  <2>2. CASE q # p
    <3>1. lock' = lock /\ proc'[p] = proc[p]
      BY <1>0, <1>4, <2>2 DEF Live!Die, Live!Done
    <3>2. QED
      BY <1>4, <3>1 DEF Live!Die, Live!authority, Live!docker, Undisturbed
  <2>3. QED
    BY <2>1, <2>2
<1>5. ASSUME \/ \E o \in Live!Objects : Live!Restart(o)
             \/ \E op \in inflight : Live!Execute(op)
      PROVE  Result
  BY <1>5 DEF Live!Restart, Live!Execute, Live!authority, Undisturbed
<1>6. CASE Live!Control
  <2>1. control' = [control EXCEPT !.stopped = TRUE] \/ control' = control
    BY <1>0, <1>6 DEF Live!Control, Live!request_stop
  <2>2. UNCHANGED <<obj, revoked, calls, proc, lock>>
    BY <1>0, <1>6 DEF Live!Control, Live!request_stop, Live!docker
  <2>3. QED
    BY <1>s, <2>1, <2>2 DEF Undisturbed
<1>7. ~(\E o \in Live!Objects : Live!Recover(o)) /\ ~(\E r \in Runs : Live!Expire(r))
  BY <1>0 DEF Live!Recover, Live!Expire, Live!Quiet
<1>8. QED
  BY <1>1, <1>2, <1>3, <1>4, <1>5, <1>6, <1>7 DEF Live!Next

\* Nobody calls without the lock, and nobody gets it but at the last check.
LEMMA WhileFree ==
  ASSUME Separate, LiveInv, lock = {}, Live!Next
  PROVE  /\ UNCHANGED calls
         /\ \/ lock' = {}
            \/ \E p \in Procs, o \in Live!Objects :
                 /\ lock' = {p} /\ UNCHANGED <<obj, control, revoked, proc>>
                 /\ Passed(p, o) /\ Live!Current(o)
<1> DEFINE Gets(p, o) == /\ lock' = {p} /\ UNCHANGED <<obj, control, revoked, proc>>
                         /\ Passed(p, o) /\ Live!Current(o)
           Result == /\ UNCHANGED calls
                     /\ lock' = {} \/ \E p \in Procs, o \in Live!Objects : Gets(p, o)
<1>0. Pair \subseteq Live!Objects /\ Runs \subseteq Live!Objects
  BY DEF Live!Objects
<1>1. ASSUME NEW p \in Procs, NEW t \in Pair, Live!Provisioning(p, t) PROVE Result
  <2>1. CASE Live!PassStartTarget(p, t)
    <3>1. UNCHANGED <<obj, control, revoked, calls>>
      BY <2>1 DEF Live!PassStartTarget, Live!Pass, Live!authority, Live!docker
    <3>2. CASE Live!MayStartTarget(t) /\ lock' = {p} /\ UNCHANGED proc
      <4>1. Passed(p, t) /\ Live!Current(t)
        BY <2>1, <3>2 DEF Live!PassStartTarget, Live!Pass, Live!At, Live!MayStartTarget,
                          Live!Current, Live!Admitting, Passed, Separate
      <4>2. QED
        BY <1>0, <3>1, <3>2, <4>1
    <3>3. QED
      BY <2>1, <3>1, <3>2 DEF Live!PassStartTarget, Live!Pass
  <2>2. CASE ~Live!PassStartTarget(p, t)
    BY <1>1, <2>2
       DEF Live!Provisioning, Live!ProvisionNew, Live!Quarantine, Live!DispatchTargetStart,
           Live!StartTarget, Live!Verify, Live!Enroll, Live!RollbackTarget,
           Live!RevokeBinding, Live!Transaction, Live!Quiet, Live!docker
  <2>3. QED
    BY <2>1, <2>2
<1>2. ASSUME NEW p \in Procs, NEW r \in Runs, Live!Running(p, r) PROVE Result
  <2>1. CASE Live!PassStartRunner(p, r)
    <3>1. UNCHANGED <<obj, control, revoked, calls>>
      BY <2>1 DEF Live!PassStartRunner, Live!Pass, Live!authority, Live!docker
    <3>2. CASE Live!MayStart(r) /\ lock' = {p} /\ UNCHANGED proc
      <4>1. Passed(p, r) /\ Live!Current(r)
        BY <2>1, <3>2 DEF Live!PassStartRunner, Live!Pass, Live!At, Live!MayStart, Live!Current,
                          Live!Admitting, Live!EnrollmentValid, Live!ValidEnrollment, Passed
      <4>2. QED
        BY <1>0, <3>1, <3>2, <4>1
    <3>3. QED
      BY <2>1, <3>1, <3>2 DEF Live!PassStartRunner, Live!Pass
  <2>2. CASE ~Live!PassStartRunner(p, r)
    BY <1>2, <2>2
       DEF Live!Running, Live!Submit, Live!Check, Live!Authorize, Live!DispatchStart,
           Live!StartRunner, Live!RecordLive, Live!Release, Live!Probe, Live!RecordProbe,
           Live!DispatchFinish, Live!Wait, Live!RecordFinished, Live!Publish, Live!Abandon,
           Live!Transaction, Live!Quiet, Live!docker
  <2>3. QED
    BY <2>1, <2>2
<1>3. ASSUME NEW p \in Procs, NEW o \in Live!Objects, Live!Either(p, o) PROVE Result
  <2>1. CASE Live!PassCreate(p, o)
    <3>1. UNCHANGED <<obj, control, revoked, calls>>
      BY <2>1 DEF Live!PassCreate, Live!Pass, Live!authority, Live!docker
    <3>2. CASE Live!MayCreate(o) /\ lock' = {p} /\ UNCHANGED proc
      <4>1. Passed(p, o) /\ Live!Current(o)
        BY <2>1, <3>2 DEF Live!PassCreate, Live!Pass, Live!At, Live!MayCreate, Live!Current,
                          Live!Admitting, Passed
      <4>2. QED
        BY <3>1, <3>2, <4>1
    <3>3. QED
      BY <2>1, <3>1, <3>2 DEF Live!PassCreate, Live!Pass
  <2>2. CASE ~Live!PassCreate(p, o)
    BY <1>3, <2>2
       DEF Live!Either, Live!BeginCreate, Live!DispatchCreate, Live!CallCreate,
           Live!LockTimeout, Live!RecordResponse, Live!Unconfirmed, Live!Observe,
           Live!Cleanup, Live!Confirm, Live!Remove, Live!Acknowledge, Live!RecordCleanup,
           Live!Transaction, Live!Quiet, Live!docker
  <2>3. QED
    BY <2>1, <2>2
<1>4. ASSUME \/ \E p \in Procs : Live!Die(p)
             \/ \E o \in Live!Objects : Live!Recover(o) \/ Live!Restart(o)
             \/ \E r \in Runs : Live!Expire(r)
             \/ \E op \in inflight : Live!Execute(op)
             \/ Live!Control
      PROVE  Result
  BY <1>4 DEF Live!Die, Live!Recover, Live!Restart, Live!Expire, Live!Execute, Live!Control,
              Live!Quiet, Live!docker
<1>5. QED
  BY <1>1, <1>2, <1>3, <1>4 DEF Live!Next

LEMMA LiveCalls ==
  ASSUME Separate, LiveInv, Held, Live!Next
  PROVE  Held' /\ Live!CallAuthorised
<1>0. /\ calls \in [Live!Objects -> Calls] /\ obj \in [Live!Objects -> Row]
  BY DEF LiveInv, LiveTypes
<1>1. CASE lock = {}
  <2>1. UNCHANGED calls
    BY <1>1, WhileFree
  <2>2. CASE lock' = {}
    BY <2>1, <2>2 DEF Held, Live!CallAuthorised
  <2>3. ASSUME NEW p \in Procs, NEW o \in Live!Objects, lock' = {p},
               UNCHANGED <<obj, control, revoked, proc>>, Passed(p, o), Live!Current(o)
        PROVE  Held' /\ Live!CallAuthorised
    <3>1. Held'
      BY <2>3 DEF Held, Passed
    <3>2. proc[p].on \cap late = {} /\ ~control.stopped
      BY <2>3 DEF Passed, Live!Current, Live!Admitting
    <3>3. QED
      BY <1>1, <2>1, <2>3, <3>1, <3>2 DEF Live!CallAuthorised
  <2>4. QED
    BY <1>1, <2>2, <2>3, WhileFree
<1>2. ASSUME NEW p \in lock PROVE Held' /\ Live!CallAuthorised
  <2>0. PICK o \in Live!Objects : lock = {p} /\ p \in Procs /\ Passed(p, o)
    BY DEF Held
  <2>1. CASE Undisturbed(p)
    <3>1. Held'
      BY <2>0, <2>1 DEF Held, Passed, Undisturbed
    <3>2. QED
      BY <2>1, <3>1 DEF Live!CallAuthorised, Undisturbed
  <2>2. CASE lock' = {} /\ UNCHANGED calls
    BY <2>2 DEF Held, Live!CallAuthorised
  <2>3. CASE lock' = {} /\ \E x \in Live!Objects : MakesCall(p, x)
    <3>1. lock' = {} /\ MakesCall(p, o)
      BY <2>0, <2>3 DEF MakesCall, Passed
    <3>2. \A x \in Live!Objects : x # o => calls'[x] = calls[x]
      BY <1>0, <3>1 DEF MakesCall
    <3>3. calls'[o].create # calls[o].create => proc[p].pc = "call"
      BY <1>0, <3>1 DEF MakesCall, Calls
    <3>4. calls'[o].start # calls[o].start => proc[p].pc = "start_call"
      BY <1>0, <3>1 DEF MakesCall, Calls
    <3>5. QED
      BY <2>0, <3>1, <3>2, <3>3, <3>4 DEF Held, Live!CallAuthorised, Passed
  <2>4. QED
    BY <2>1, <2>2, <2>3, WhileHeld
<1>3. QED
  BY <1>1, <1>2

-----------------------------------------------------------------------------
(* The runtimes together, as they are checked.                             *)

SuiteInv ==
  /\ part \in {"live", "capacity"} => LiveInv /\ Held
  /\ part = "poc" => BrokerInv
  /\ part \in {"shadow", "requests"} => ShadowInv

LEMMA SuiteStart == Init => SuiteInv
<1> SUFFICES ASSUME Init PROVE SuiteInv
  OBVIOUS
<1>1. Separate
  BY PairNotRuns DEF Separate
<1>2. part \in {"live", "capacity"} => LiveInv /\ Held
  BY <1>1, LiveStarts DEF Init, Live!Init, Held
<1>3. part = "poc" => BrokerInv
  BY BrokerInit DEF Init
<1>4. part \in {"shadow", "requests"} => ShadowInv
  BY ShadowInit DEF Init
<1>5. QED
  BY <1>2, <1>3, <1>4 DEF SuiteInv

LEMMA SuiteStep ==
  ASSUME SuiteInv, Next
  PROVE  /\ SuiteInv'
         /\ part \in {"live", "capacity"} => Live!CallAuthorised
         /\ part = "poc" => Poc!StartWhileRunning /\ Poc!ResultStays
         /\ part \in {"shadow", "requests"} => Shadow!KillComesFirst /\ Shadow!ReportStays
<1>0. Separate
  BY PairNotRuns DEF Separate
<1>1. part' = part
  BY DEF Next
<1>2. ASSUME part \in {"live", "capacity"} PROVE LiveInv' /\ Held' /\ Live!CallAuthorised
  <2>1. LiveInv /\ Held /\ Live!Next
    BY <1>2 DEF SuiteInv, Next, LiveNext, PocNext
  <2>2. QED
    BY <1>0, <2>1, LiveInductive, LiveCalls
<1>3. ASSUME part = "poc" PROVE BrokerInv' /\ Poc!StartWhileRunning /\ Poc!ResultStays
  <2>1. BrokerInv /\ Poc!Next
    BY <1>3 DEF SuiteInv, Next, LiveNext, PocNext
  <2>2. QED
    BY <2>1, BrokerInductive, BrokerSteps
<1>4. ASSUME part \in {"shadow", "requests"}
      PROVE  ShadowInv' /\ Shadow!KillComesFirst /\ Shadow!ReportStays
  <2>1. ShadowInv /\ Shadow!Next
    BY <1>4 DEF SuiteInv, Next, LiveNext, PocNext, ShadowNext
  <2>2. ShadowInv'
    BY <2>1, ShadowInductive
  <2>3. QED
    BY <2>1, <2>2, ReportSteps
<1>5. QED
  BY <1>1, <1>2, <1>3, <1>4 DEF SuiteInv

LEMMA SuiteKept == SuiteInv /\ [Next]_vars => SuiteInv'
<1> SUFFICES ASSUME SuiteInv, [Next]_vars PROVE SuiteInv'
  OBVIOUS
<1>1. CASE UNCHANGED vars
  <2>1. UNCHANGED part
    BY <1>1 DEF vars
  <2>2. ASSUME part \in {"live", "capacity"} PROVE LiveInv' /\ Held'
    <3>1. LiveInv /\ Held
      BY <2>2 DEF SuiteInv
    <3>2. UNCHANGED Live!vars
      BY <1>1 DEF vars, Live!vars, Live!authority, Live!docker
    <3>3. LiveInv'
      BY <3>1, <3>2, PairNotRuns, LiveInductive DEF Separate
    <3>4. Held'
      BY <1>1, <3>1 DEF vars, Held, Passed
    <3>5. QED
      BY <3>3, <3>4
  <2>3. part = "poc" => BrokerInv'
    BY <1>1, BrokerInductive
       DEF vars, pocVars, SuiteInv, Poc!vars, Poc!store, Poc!daemon
  <2>4. part \in {"shadow", "requests"} => ShadowInv'
    BY <1>1, ShadowInductive DEF vars, shadowVars, SuiteInv, Shadow!vars
  <2>5. QED
    BY <2>1, <2>2, <2>3, <2>4 DEF SuiteInv
<1>2. QED
  BY <1>1, SuiteStep

(* What the run checks of shadow runs, for any numbers of them: nothing is  *)
(* issued or started twice or forgotten, and a request gets the run that    *)
(* was made from its payload.                                               *)
THEOREM SuiteShadowKept == Spec => []ShadowKept
<1>1. SuiteInv => ShadowKept
  BY ShadowPromises DEF SuiteInv, ShadowKept
<1>2. QED
  BY <1>1, SuiteStart, SuiteKept, PTL DEF Spec

(* What the run checks of stops and results, for any numbers of containers, *)
(* processes and faults: after a stop or a deadline no process of the live  *)
(* runtime passes its last check, so at most the one call already behind it *)
(* is made, and no call finds the journal's controls changed since; no      *)
(* runner of the broker is started once its run was finished, no killed     *)
(* shadow run is started, and no recorded result changes.                   *)
THEOREM SuiteStopsStand == Spec => StopsAndResultsStand
<1>1. SuiteInv /\ [Next]_vars =>
        [/\ part \in {"live", "capacity"} => Live!CallAuthorised
         /\ part = "poc" => Poc!StartWhileRunning /\ Poc!ResultStays
         /\ part \in {"shadow", "requests"} => Shadow!KillComesFirst /\ Shadow!ReportStays]_vars
  BY SuiteStep
<1>2. QED
  BY <1>1, SuiteStart, SuiteKept, PTL DEF Spec, StopsAndResultsStand

(* Nothing is created or started twice, every container of the live runtime *)
(* that exists or may still appear is on the books and alone, a target of   *)
(* the broker has one runner at most, and verdicts are of the enrolled      *)
(* target, for any numbers of targets, runs, processes and faults.          *)
THEOREM SuiteContainersAccounted == Spec => []ContainersAccounted
<1>1. SuiteInv => ContainersAccounted
  BY BrokerPromises, LivePromises DEF SuiteInv, ContainersAccounted
<1>2. QED
  BY <1>1, SuiteStart, SuiteKept, PTL DEF Spec
=============================================================================
