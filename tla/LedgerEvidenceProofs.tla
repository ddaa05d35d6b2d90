------------------------ MODULE LedgerEvidenceProofs ------------------------
(***************************************************************************)
(* Proofs about the reports of the evidence ledger, for any tasks, any     *)
(* bounds and any number of writes between the SELECTs of one report       *)
(* (AnswersTrue: for one such write, or any number when the ledger is not  *)
(* by-passed).                                                             *)
(*                                                                         *)
(* The argument is the same for each kind of evidence.  An invariant of    *)
(* the writers relates the rows of the ledger to what really happened      *)
(* (ChecksRecorded, OpsRecorded, AnswersRecorded, QuietLedger), and an     *)
(* invariant of the reader says, for what it has selected so far, at which *)
(* moment of the read it was true.  A field of `read' that is not selected *)
(* yet is not in its domain.                                               *)
(***************************************************************************)
EXTENDS LedgerEvidence, FiniteSetTheorems, SequenceTheorems,
        WellFoundedInduction, TLAPS

-----------------------------------------------------------------------------
(* Types.                                                                  *)

Rows == [exists: BOOLEAN, count: Nat, restarts: Nat,
         check: {"idle", "running", "passed", "failed", "error"}, passed: BOOLEAN,
         status: {"new", "in_progress", "failed", "on_review", "passed"},
         decision: Decisions, body: Nat]
Manifests == [source: {"none", "from_start", "legacy_completion", "existing_program",
                       "existing_account"},
              tasks: SUBSET Tasks, criteria: Nat, reviews: BOOLEAN]
Coverages == [origin: {"none", "creation", "imported_state", "legacy_observed"},
              checks: Nat, resets: Nat]
Results == {"passed", "failed", "timeout", "crashed"}
Ends == [result: {"open", "passed", "failed", "unknown"},
         class: {"none", "technical", "timeout", "unknown", "infrastructure"},
         started: {"none", "yes", "no"}, run: BOOLEAN, exit: Nat]
Executions == [source: {"service", "legacy_delivery"}, criteria: Nat, begun: BOOLEAN,
               end: Ends]
Operations == [kind: Kinds \cup {"reset"}, origin: {"trainee", "maintenance", "unknown"},
               begun: BOOLEAN, outcome: {"open", "not_started", "success", "unknown"}]
GapReasons == {"unsupported_update", "unregistered_check_request",
               "unregistered_environment_request", "review_version_unspecified",
               "review_without_submission"}
Submissions == [body: Nat, reviews: Seq(Decisions)]

TypeInv ==
  /\ active \subseteq Tasks
  /\ criteria \in Nat
  /\ manifest \in Manifests
  /\ completion \in [made: BOOLEAN, tasks: SUBSET Tasks]
  /\ row \in [Tasks -> Rows]
  /\ runs \in [Tasks -> SUBSET [pk: Nat, exit: Nat, result: {"passed", "failed"}]]
  /\ coverage \in [Tasks -> Coverages]
  /\ gaps \in [Tasks -> SUBSET GapReasons]
  /\ execs \in [Tasks -> Seq(Executions)]
  /\ ops \in [Tasks -> Seq(Operations)]
  /\ subs \in [Tasks -> Seq(Submissions)]
  /\ ran \in [Tasks -> Seq(Results \cup {"no"})]
  /\ remade \in [Tasks -> SUBSET Nat]
  /\ verdict \in [Tasks -> Seq(Decisions)]
  /\ faults \in Nat

-----------------------------------------------------------------------------
(* What the writers keep.                                                  *)

\* The two ways in which the outcome of an execution is never known, and the
\* execution whose checker did not start.
Lost(class) == [Pending EXCEPT !.result = "unknown", !.class = class]
NotRun == [Pending EXCEPT !.result = "unknown", !.class = "infrastructure", !.started = "no"]

\* What the events of an execution may say when r is what really happened.
Told(e, r) ==
  \/ e.end = Pending
  \/ e.begun /\ r \in Results /\ e.end = Event(r)
  \/ r = "no" /\ e.end = NotRun
  \/ e.end \in {Lost("infrastructure"), Lost("unknown")}

ChecksRecorded ==
  \A t \in Tasks :
    /\ Len(ran[t]) = Len(execs[t])
    /\ \A i \in 1..Len(execs[t]) : Told(execs[t][i], ran[t][i])

OpsRecorded ==
  \A t \in Tasks :
    /\ \A i \in remade[t] : i \in 1..Len(ops[t]) /\ ops[t][i].begun
    /\ \A i \in 1..Len(ops[t]) :
         /\ ops[t][i].outcome = "not_started" => ~ops[t][i].begun
         /\ ops[t][i].outcome = "success" => i \in remade[t]

\* A task without an attempt has no evidence.
NothingBefore ==
  \A t \in Tasks : ~row[t].exists =>
    /\ ~row[t].passed
    /\ coverage[t].origin = "none"
    /\ gaps[t] = {} /\ runs[t] = {}
    /\ execs[t] = <<>> /\ ops[t] = <<>> /\ subs[t] = <<>> /\ verdict[t] = <<>>

\* The decisions in the ledger on the first n of some submissions.
DecisionsOf(s, n) == [i \in 1..n |-> LastDecision(s[i].reviews)]

\* The decisions in the ledger are the real ones, unless a gap says that the row
\* was changed past it.
AnswersRecorded ==
  \A t \in Tasks :
    /\ Len(verdict[t]) = Len(subs[t])
    /\ \/ coverage[t].origin = "creation" /\ "unsupported_update" \notin gaps[t]
       \/ faults = 0
       => verdict[t] = DecisionsOf(subs[t], Len(subs[t]))

PastKept ==
  /\ \A t \in Legacy : t \in Tasks /\ row[t].exists /\ coverage[t].origin # "creation"
  /\ Legacy # {} => manifest.source # "from_start"

\* The successful resets, by whomever.
SuccessfulOps(s) == {i \in DOMAIN s : s[i].kind = "reset" /\ s[i].outcome = "success"}

RunsRecorded(t) ==
  /\ \A r \in runs[t] :
       /\ r.pk \in 1..Len(execs[t])
       /\ execs[t][r.pk].end.run
       /\ r.exit = execs[t][r.pk].end.exit
       /\ (r.result = "passed") = (execs[t][r.pk].end.result = "passed")
  /\ \A i \in 1..Len(execs[t]) : execs[t][i].end.run => \E r \in runs[t] : r.pk = i

\* While nothing was lost or by-passed, the row of an attempt that the ledger has
\* followed from its creation is what the ledger says.
QuietChecks(t) ==
  /\ \A i \in 1..Len(execs[t]) : execs[t][i].source = "service"
  /\ row[t].count = Len(execs[t]) + coverage[t].checks
  /\ row[t].passed => \E i \in 1..Len(execs[t]) : execs[t][i].end.result = "passed"
  /\ RunsRecorded(t)

QuietOps(t) ==
  /\ \A i \in 1..Len(ops[t]) : ops[t][i].origin # "unknown" /\ ops[t][i].outcome # "unknown"
  /\ row[t].restarts = Cardinality(SuccessfulOps(ops[t])) + coverage[t].resets

QuietAnswers(t) ==
  subs[t] # <<>> =>
    /\ t \in Reviewed
    /\ row[t].decision = LastDecision(subs[t][Len(subs[t])].reviews)
    /\ row[t].status \in {"on_review", "passed"} => row[t].body = subs[t][Len(subs[t])].body

QuietAttempt(t) == gaps[t] = {} /\ QuietChecks(t) /\ QuietOps(t) /\ QuietAnswers(t)

QuietLedger ==
  faults = 0 => \A t \in Tasks : coverage[t].origin = "creation" => QuietAttempt(t)

-----------------------------------------------------------------------------
(* What the reader has selected.                                           *)

\* The fields every read has, and those that are selected before each step.
Always == {"pc", "isProgram", "scope", "seen", "overlaps"}
Required ==
  [idle |-> {"pc"}, manifest |-> Always, completion |-> Always \cup {"manifest"},
   credit |-> Always \cup {"manifest", "completion"}, attempts |-> Always,
   coverage |-> Always \cup {"rows"}, gaps |-> Always \cup {"rows", "coverage"},
   checks |-> Always \cup {"rows", "coverage", "gaps"},
   events |-> Always \cup {"rows", "coverage", "gaps", "checks"},
   environment |-> Always \cup {"rows", "coverage", "gaps", "checks", "events"},
   submissions |-> Always \cup {"rows", "coverage", "gaps", "checks", "events", "environment"},
   reviews |-> Always \cup {"rows", "coverage", "gaps", "checks", "events", "environment",
                            "submissions"},
   runs |-> Always \cup {"rows", "coverage", "gaps", "checks", "events", "environment",
                         "submissions", "reviews"},
   done |-> Always \cup {"rows", "coverage", "gaps", "checks", "events", "environment",
                         "submissions", "reviews", "runs"}]

Has(field) == field \in DOMAIN read

ReadShape ==
  /\ read.pc \in DOMAIN Required
  /\ Required[read.pc] \subseteq DOMAIN read
  /\ DOMAIN read \subseteq Required[read.pc] \cup {"manifest", "completion"}
  /\ read.pc \in {"idle", "manifest", "completion", "credit", "attempts"} =>
       DOMAIN read = Required[read.pc]
  /\ read.pc # "idle" =>
       /\ read.scope \subseteq Tasks
       /\ read.isProgram \in BOOLEAN
       /\ read.overlaps \in Nat
       /\ Moment \in read.seen
  /\ read.pc = "attempts" => ~read.isProgram
  /\ Has("rows") /\ read.isProgram => Has("manifest") /\ Has("completion")
  /\ Has("gaps") => Has("coverage")
  /\ Has("submissions") => Has("gaps")
  /\ Has("reviews") => Has("submissions")

CoverageSeen ==
  Has("coverage") => \A t \in read.scope :
    read.coverage[t].origin = "creation" => coverage[t].origin = "creation"

\* No reason of the events of d speaks against the checks.
EventsClear(d, t) ==
  \A i \in DOMAIN d.events[t] : LET end == d.events[t][i].end IN
    /\ end # Pending
    /\ end.result = "unknown" => end.class = "infrastructure" /\ end.started = "no"

\* When none of the executions that were listed has run by now, none had run at
\* the moment they were listed.
ListSeen(t) ==
  \E n \in 0..Len(execs[t]) :
    /\ DOMAIN read.checks[t] = 1..n
    /\ (\A i \in 1..n : ran[t][i] = "no") => \E m \in read.seen : m[t].first = <<0, "none">>

ChecksSeen ==
  /\ Has("checks") => \A t \in read.scope : ListSeen(t)
  /\ Has("events") => \A t \in read.scope :
       EventsClear(read, t) => \E m \in read.seen : m[t].first = FirstCheck(read, t)

OpsClear(d, t) ==
  \A i \in DOMAIN d.environment[t] : d.environment[t][i].outcome \notin {"open", "unknown"}

\* One moment for all the attempts that are read.
ResetsSeen ==
  Has("environment") => \E m \in read.seen : \A t \in read.scope :
    OpsClear(read, t) => m[t].resets = Successful(read, t, {"trainee"})

\* Neither reason nor gap said at that step that decisions were made past the ledger.
GapsClear(t) ==
  /\ read.coverage[t].origin = "creation"
  /\ "unsupported_update" \notin read.gaps[t]

AnswersAt ==
  /\ Has("gaps") => \A t \in read.scope : GapsClear(t) =>
       /\ \E m \in read.seen : m[t].verdicts = DecisionsOf(subs[t], Len(subs[t]))
       /\ read.overlaps = 0 \/ faults = 0 => verdict[t] = DecisionsOf(subs[t], Len(subs[t]))
  /\ Has("submissions") => \A t \in read.scope : GapsClear(t) =>
       \E n \in 0..Len(subs[t]) :
         /\ DOMAIN read.submissions[t] = 1..n
         /\ \E m \in read.seen : m[t].verdicts = DecisionsOf(subs[t], n)
         /\ read.overlaps = 0 => n = Len(subs[t])
  /\ Has("reviews") => \A t \in read.scope : GapsClear(t) =>
       \E m \in read.seen : m[t].verdicts = Last(read, t)

AnswersSeen == FewWrites => AnswersAt

PastSeen ==
  Has("manifest") /\ Legacy # {} => read.manifest.source # "from_start"

ProgramSeen ==
  /\ Has("manifest") => read.manifest.tasks \subseteq Tasks
  /\ Has("completion") => read.completion.tasks \subseteq Tasks
  /\ Has("rows") /\ read.isProgram => read.scope \subseteq read.manifest.tasks

\* While no write has committed, what was selected is what is there.
QuietSeen ==
  read.pc # "idle" /\ read.overlaps = 0 => \A t \in read.scope :
    /\ Has("rows") => read.rows[t] = Selected(t)
    /\ Has("coverage") => read.coverage[t] = coverage[t]
    /\ Has("gaps") => read.gaps[t] = gaps[t]
    /\ Has("checks") => read.checks[t] =
         [i \in DOMAIN execs[t] |->
            [source |-> execs[t][i].source, criteria |-> execs[t][i].criteria]]
    /\ Has("events") => read.events[t] =
         [i \in DOMAIN execs[t] |-> [begun |-> execs[t][i].begun, end |-> execs[t][i].end]]
    /\ Has("environment") => read.environment[t] = ops[t]
    /\ Has("submissions") => read.submissions[t] = [i \in DOMAIN subs[t] |-> subs[t][i].body]
    /\ Has("reviews") => read.reviews[t] = [i \in DOMAIN subs[t] |-> subs[t][i].reviews]
    /\ Has("runs") => read.runs[t] = runs[t]

-----------------------------------------------------------------------------
(* The writers, table by table: the actions that change it.                *)

LEMMA Updated ==
  ASSUME NEW S, NEW old \in [Tasks -> Seq(S)], NEW t \in Tasks,
         NEW i \in 1..Len(old[t]), NEW e \in S,
         NEW new, new = [old EXCEPT ![t] = [old[t] EXCEPT ![i] = e]]
  PROVE  /\ new \in [Tasks -> Seq(S)]
         /\ \A u \in Tasks : Len(new[u]) = Len(old[u])
         /\ \A u \in Tasks : u # t => new[u] = old[u]
         /\ \A j \in 1..Len(old[t]) : new[t][j] = IF j = i THEN e ELSE old[t][j]
<1>1. old[t] \in Seq(S)
  OBVIOUS
<1>2. /\ [old[t] EXCEPT ![i] = e] \in Seq(S)
      /\ Len([old[t] EXCEPT ![i] = e]) = Len(old[t])
      /\ \A j \in 1..Len(old[t]) : [old[t] EXCEPT ![i] = e][j] = IF j = i THEN e ELSE old[t][j]
  BY <1>1, ExceptSeq
<1>3. new[t] = [old[t] EXCEPT ![i] = e] /\ \A u \in Tasks : u # t => new[u] = old[u]
  OBVIOUS
<1>4. QED
  BY <1>2, <1>3

LEMMA Appended ==
  ASSUME NEW S, NEW old \in [Tasks -> Seq(S)], NEW t \in Tasks, NEW e \in S,
         NEW new, new = [old EXCEPT ![t] = Append(old[t], e)]
  PROVE  /\ new \in [Tasks -> Seq(S)]
         /\ Len(new[t]) = Len(old[t]) + 1
         /\ \A u \in Tasks : u # t => new[u] = old[u]
         /\ \A j \in 1..Len(old[t]) : new[t][j] = old[t][j]
         /\ new[t][Len(old[t]) + 1] = e
<1>1. old[t] \in Seq(S)
  OBVIOUS
<1>2. /\ Append(old[t], e) \in Seq(S)
      /\ Len(Append(old[t], e)) = Len(old[t]) + 1
      /\ \A j \in 1..Len(old[t]) : Append(old[t], e)[j] = old[t][j]
      /\ Append(old[t], e)[Len(old[t]) + 1] = e
  BY <1>1, AppendProperties
<1>3. new[t] = Append(old[t], e) /\ \A u \in Tasks : u # t => new[u] = old[u]
  OBVIOUS
<1>4. QED
  BY <1>2, <1>3

CheckActions ==
  \/ UNCHANGED <<execs, ran>>
  \/ \E t \in Tasks :
       \/ RequestCheck(t) \/ LegacyDelivery(t) \/ Interrupt(t)
       \/ \E i \in DOMAIN execs[t] :
            \/ BeginCheck(t, i) \/ RunChecker(t, i) \/ NotStarted(t, i)
            \/ FinishCheck(t, i) \/ LoseOutcome(t, i)

LEMMA WhoChecks ==
  ASSUME Service \/ Fault  PROVE  CheckActions
<1>1. ASSUME NEW t \in Tasks, NEW n, CreateAttempt(t, n)  PROVE  UNCHANGED <<execs, ran>>
  BY <1>1 DEF CreateAttempt, truth
<1>2. ASSUME NEW t \in Tasks, OutsideUpdate(t)  PROVE  UNCHANGED <<execs, ran>>
  BY <1>2 DEF OutsideUpdate
<1>3. ASSUME NEW t \in Tasks, NEW r, OutsideRun(t, r)  PROVE  UNCHANGED <<execs, ran>>
  BY <1>3 DEF OutsideRun, ledger, truth
<1>4. CASE ChangeCatalogue
  BY <1>4 DEF ChangeCatalogue, ledger, truth, CheckActions
<1>5. ASSUME NEW t \in Tasks, NEW kind, NEW origin, RequestOp(t, kind, origin)
      PROVE  UNCHANGED <<execs, ran>>
  BY <1>5 DEF RequestOp, truth
<1>6. ASSUME NEW t \in Tasks, NEW i, BeginOp(t, i) \/ FailOp(t, i) \/ CommitOp(t, i)
      PROVE  UNCHANGED <<execs, ran>>
  BY <1>6 DEF BeginOp, FailOp, CommitOp, truth
<1>7. ASSUME NEW t \in Tasks, NEW i, Remake(t, i)  PROVE  UNCHANGED <<execs, ran>>
  BY <1>7 DEF Remake, ledger
<1>8. ASSUME NEW t \in Tasks, UnregisteredOp(t)  PROVE  UNCHANGED <<execs, ran>>
  BY <1>8 DEF UnregisteredOp, truth
<1>9. ASSUME NEW t \in Tasks, NEW body, SaveDraft(t, body)  PROVE  UNCHANGED <<execs, ran>>
  BY <1>9 DEF SaveDraft, ledger, truth
<1>10. ASSUME NEW t \in Tasks, SubmitAnswer(t)  PROVE  UNCHANGED <<execs, ran>>
  BY <1>10 DEF SubmitAnswer
<1>11. ASSUME NEW t \in Tasks, NEW d, NEW v, ReviewAnswer(t, d, v)
       PROVE  UNCHANGED <<execs, ran>>
  BY <1>11 DEF ReviewAnswer
<1>12. ASSUME NEW t \in Tasks, NEW d, ReviewWithoutSubmission(t, d)
       PROVE  UNCHANGED <<execs, ran>>
  BY <1>12 DEF ReviewWithoutSubmission, truth
<1>13. QED
  BY <1>1, <1>2, <1>3, <1>4, <1>5, <1>6, <1>7, <1>8, <1>9, <1>10, <1>11, <1>12
     DEF Service, Fault, CheckActions

\* The sequences of executions only grow, and a result that is there stays.
CheckGrowth ==
  \A t \in Tasks :
    /\ Len(execs[t]) <= Len(execs'[t])
    /\ \A i \in 1..Len(execs[t]) :
         /\ ran[t][i] # "no" => ran'[t][i] = ran[t][i]
         /\ execs'[t][i].source = execs[t][i].source
         /\ execs'[t][i].criteria = execs[t][i].criteria

CheckTypes == execs' \in [Tasks -> Seq(Executions)] /\ ran' \in [Tasks -> Seq(Results \cup {"no"})]

LEMMA EventOfResult ==
  ASSUME NEW r \in Results
  PROVE  Event(r) \in Ends /\ Event(r) # Pending
BY DEF Results, Event, Ends, Pending

LEMMA PendingEnds ==
  /\ Pending \in Ends /\ NotRun \in Ends
  /\ Lost("infrastructure") \in Ends /\ Lost("unknown") \in Ends
BY DEF Pending, NotRun, Lost, Ends

LEMMA ChecksStep ==
  ASSUME TypeInv, ChecksRecorded, Service \/ Fault
  PROVE  CheckTypes /\ ChecksRecorded' /\ CheckGrowth
<1> DEFINE P == CheckTypes /\ ChecksRecorded' /\ CheckGrowth
<1>0. /\ execs \in [Tasks -> Seq(Executions)]
      /\ ran \in [Tasks -> Seq(Results \cup {"no"})]
      /\ \A t \in Tasks : Len(execs[t]) \in Nat /\ DOMAIN execs[t] = 1..Len(execs[t])
      /\ \A t \in Tasks : \A i \in 1..Len(execs[t]) :
           execs[t][i] \in Executions /\ ran[t][i] \in Results \cup {"no"}
  BY DEF TypeInv, ChecksRecorded
<1>1. ASSUME UNCHANGED <<execs, ran>>  PROVE  P
  BY <1>0, <1>1 DEF CheckTypes, ChecksRecorded, CheckGrowth
<1>2. ASSUME NEW t \in Tasks, NEW source \in {"service", "legacy_delivery"},
             execs' = [execs EXCEPT ![t] = Append(@, Execution(source))],
             ran' = [ran EXCEPT ![t] = Append(@, "no")]
      PROVE  P
  <2>1. Execution(source) \in Executions
    BY PendingEnds DEF TypeInv, Execution, Executions
  <2>2. /\ execs' \in [Tasks -> Seq(Executions)]
        /\ Len(execs'[t]) = Len(execs[t]) + 1
        /\ \A u \in Tasks : u # t => execs'[u] = execs[u]
        /\ \A j \in 1..Len(execs[t]) : execs'[t][j] = execs[t][j]
        /\ execs'[t][Len(execs[t]) + 1] = Execution(source)
    BY <1>0, <1>2, <2>1, Appended
  <2>3. /\ ran' \in [Tasks -> Seq(Results \cup {"no"})]
        /\ Len(ran'[t]) = Len(ran[t]) + 1
        /\ \A u \in Tasks : u # t => ran'[u] = ran[u]
        /\ \A j \in 1..Len(ran[t]) : ran'[t][j] = ran[t][j]
        /\ ran'[t][Len(ran[t]) + 1] = "no"
    BY <1>0, <1>2, Appended
  <2>4. Told(Execution(source), "no")
    BY DEF Told, Execution
  <2>5. ChecksRecorded'
    <3> SUFFICES ASSUME NEW u \in Tasks
                 PROVE  /\ Len(ran'[u]) = Len(execs'[u])
                        /\ \A i \in 1..Len(execs'[u]) : Told(execs'[u][i], ran'[u][i])
      BY DEF ChecksRecorded
    <3>1. CASE u # t
      BY <3>1, <2>2, <2>3 DEF ChecksRecorded
    <3>2. CASE u = t
      <4>1. \A i \in 1..Len(execs[t]) + 1 : i \in 1..Len(execs[t]) \/ i = Len(execs[t]) + 1
        BY <1>0
      <4>2. Len(ran[t]) = Len(execs[t])
        BY DEF ChecksRecorded
      <4>3. ASSUME NEW i \in 1..Len(execs[t]) + 1  PROVE  Told(execs'[t][i], ran'[t][i])
        <5>1. CASE i \in 1..Len(execs[t])
          BY <5>1, <4>2, <2>2, <2>3 DEF ChecksRecorded
        <5>2. CASE i = Len(execs[t]) + 1
          BY <5>2, <4>2, <2>2, <2>3, <2>4
        <5> QED  BY <4>1, <5>1, <5>2
      <4> QED  BY <3>2, <4>2, <4>3, <2>2, <2>3
    <3> QED  BY <3>1, <3>2
  <2>6. CheckGrowth
    <3> SUFFICES ASSUME NEW u \in Tasks
                 PROVE  /\ Len(execs[u]) <= Len(execs'[u])
                        /\ \A i \in 1..Len(execs[u]) :
                             /\ ran[u][i] # "no" => ran'[u][i] = ran[u][i]
                             /\ execs'[u][i].source = execs[u][i].source
                             /\ execs'[u][i].criteria = execs[u][i].criteria
      BY DEF CheckGrowth
    <3>1. CASE u # t
      BY <1>0, <3>1, <2>2, <2>3
    <3>2. CASE u = t
      BY <1>0, <3>2, <2>2, <2>3 DEF ChecksRecorded
    <3> QED  BY <3>1, <3>2
  <2> QED  BY <2>2, <2>3, <2>5, <2>6 DEF CheckTypes
<1>3. ASSUME NEW t \in Tasks, NEW i \in 1..Len(execs[t]), NEW e \in Executions,
             execs' = [execs EXCEPT ![t] = [execs[t] EXCEPT ![i] = e]], ran' = ran,
             e.source = execs[t][i].source, e.criteria = execs[t][i].criteria,
             Told(e, ran[t][i])
      PROVE  P
  <2>1. /\ execs' \in [Tasks -> Seq(Executions)]
        /\ \A u \in Tasks : Len(execs'[u]) = Len(execs[u])
        /\ \A u \in Tasks : u # t => execs'[u] = execs[u]
        /\ \A j \in 1..Len(execs[t]) : execs'[t][j] = IF j = i THEN e ELSE execs[t][j]
    BY <1>0, <1>3, Updated
  <2>2. ChecksRecorded'
    BY <2>1, <1>3 DEF ChecksRecorded
  <2>3. CheckGrowth
    BY <1>0, <2>1, <1>3 DEF CheckGrowth
  <2> QED  BY <1>0, <1>3, <2>1, <2>2, <2>3 DEF CheckTypes
<1>4. ASSUME NEW t \in Tasks, NEW i \in 1..Len(execs[t]), RunChecker(t, i)
      PROVE  P
  <2>1. PICK r \in Results : ran' = [ran EXCEPT ![t] = [ran[t] EXCEPT ![i] = r]]
    BY <1>4 DEF RunChecker, Results
  <2>2. execs' = execs /\ execs[t][i].begun /\ ran[t][i] = "no" /\ execs[t][i].end.started # "no"
    BY <1>4 DEF RunChecker, ledger
  <2>3. i \in 1..Len(ran[t])
    BY DEF ChecksRecorded
  <2>4. /\ ran' \in [Tasks -> Seq(Results \cup {"no"})]
        /\ \A u \in Tasks : Len(ran'[u]) = Len(ran[u])
        /\ \A u \in Tasks : u # t => ran'[u] = ran[u]
        /\ \A j \in 1..Len(ran[t]) : ran'[t][j] = IF j = i THEN r ELSE ran[t][j]
    BY <1>0, <2>1, <2>3, Updated
  <2>5. Told(execs[t][i], r)
    <3>1. Told(execs[t][i], "no")
      BY <2>2 DEF ChecksRecorded
    <3>2. NotRun.started = "no"
      BY DEF NotRun, Pending
    <3> QED  BY <2>2, <3>1, <3>2 DEF Told, Results
  <2>6. ChecksRecorded'
    BY <2>2, <2>4, <2>5 DEF ChecksRecorded
  <2>7. CheckGrowth
    <3> SUFFICES ASSUME NEW u \in Tasks, NEW j \in 1..Len(execs[u]), ran[u][j] # "no"
                 PROVE  ran'[u][j] = ran[u][j]
      BY <1>0, <2>2 DEF CheckGrowth
    <3>1. j \in 1..Len(ran[u])
      BY DEF ChecksRecorded
    <3> QED  BY <2>2, <2>4, <3>1
  <2> QED  BY <1>0, <2>2, <2>4, <2>6, <2>7 DEF CheckTypes
<1>5. ASSUME NEW t \in Tasks, Interrupt(t)  PROVE  P
  <2> DEFINE closed(e) == IF e.end = Pending THEN [e EXCEPT !.end = Lost("unknown")] ELSE e
             s == [i \in 1..Len(execs[t]) |-> closed(execs[t][i])]
  <2>1. execs' = [execs EXCEPT ![t] = s] /\ ran' = ran
    BY <1>0, <1>5 DEF Interrupt, Lost, truth
  <2>2. \A i \in 1..Len(execs[t]) :
          /\ closed(execs[t][i]) \in Executions
          /\ closed(execs[t][i]).source = execs[t][i].source
          /\ closed(execs[t][i]).criteria = execs[t][i].criteria
          /\ Told(execs[t][i], ran[t][i]) => Told(closed(execs[t][i]), ran[t][i])
    <3> SUFFICES ASSUME NEW i \in 1..Len(execs[t])
                 PROVE  /\ closed(execs[t][i]) \in Executions
                        /\ closed(execs[t][i]).source = execs[t][i].source
                        /\ closed(execs[t][i]).criteria = execs[t][i].criteria
                        /\ Told(execs[t][i], ran[t][i]) => Told(closed(execs[t][i]), ran[t][i])
      OBVIOUS
    <3>1. execs[t][i] \in Executions
      BY <1>0
    <3>2. PICK e : e = [execs[t][i] EXCEPT !.end = Lost("unknown")]
      OBVIOUS
    <3>3. /\ e \in Executions /\ e.source = execs[t][i].source
          /\ e.criteria = execs[t][i].criteria /\ e.end = Lost("unknown")
      BY <3>1, <3>2, PendingEnds DEF Executions
    <3>4. Told(e, ran[t][i])
      BY <3>3 DEF Told
    <3> QED  BY <3>1, <3>2, <3>3, <3>4
  <2>3. s \in Seq(Executions) /\ Len(s) = Len(execs[t])
    BY <1>0, <2>2
  <2>4. execs' \in [Tasks -> Seq(Executions)] /\ execs'[t] = s
        /\ \A u \in Tasks : u # t => execs'[u] = execs[u]
    BY <1>0, <2>1, <2>3
  <2>5. \A i \in 1..Len(execs[t]) : execs'[t][i] = closed(execs[t][i])
    BY <2>4
  <2> HIDE DEF closed, s
  <2>6. ChecksRecorded'
    BY <2>1, <2>2, <2>3, <2>4, <2>5 DEF ChecksRecorded
  <2>7. CheckGrowth
    BY <1>0, <2>1, <2>2, <2>3, <2>4, <2>5 DEF CheckGrowth
  <2> QED  BY <1>0, <2>1, <2>4, <2>6, <2>7 DEF CheckTypes
<1>6. ASSUME NEW t \in Tasks, NEW i \in 1..Len(execs[t]),
             \/ BeginCheck(t, i) \/ NotStarted(t, i)
             \/ FinishCheck(t, i) \/ LoseOutcome(t, i)
      PROVE  P
  <2> DEFINE x == execs[t][i]
  <2>0. x \in Executions /\ Told(x, ran[t][i])
    BY <1>0 DEF ChecksRecorded
  <2>1. CASE BeginCheck(t, i)
    <3>1. /\ execs' = [execs EXCEPT ![t] = [execs[t] EXCEPT ![i] = [x EXCEPT !.begun = TRUE]]]
          /\ ran' = ran /\ x.end = Pending
      BY <2>1 DEF BeginCheck, truth
    <3>2. PICK e : e = [x EXCEPT !.begun = TRUE]
      OBVIOUS
    <3>3. e \in Executions /\ e.source = x.source /\ e.criteria = x.criteria /\ e.end = x.end
      BY <2>0, <3>2 DEF Executions
    <3> QED  BY <1>3, <3>1, <3>2, <3>3 DEF Told
  <2>2. CASE NotStarted(t, i)
    <3>1. /\ execs' = [execs EXCEPT ![t] = [execs[t] EXCEPT ![i] = [x EXCEPT !.end = NotRun]]]
          /\ ran' = ran /\ ran[t][i] = "no"
      BY <2>2 DEF NotStarted, truth, NotRun
    <3>2. PICK e : e = [x EXCEPT !.end = NotRun]
      OBVIOUS
    <3>3. e \in Executions /\ e.source = x.source /\ e.criteria = x.criteria /\ e.end = NotRun
      BY <2>0, <3>2, PendingEnds DEF Executions
    <3> QED  BY <1>3, <3>1, <3>2, <3>3 DEF Told
  <2>3. CASE FinishCheck(t, i)
    <3>1. /\ execs' = [execs EXCEPT ![t] = [execs[t] EXCEPT ![i] = [x EXCEPT !.end = Event(ran[t][i])]]]
          /\ ran' = ran /\ ran[t][i] # "no" /\ x.begun
      BY <2>3 DEF FinishCheck, Live, truth
    <3>2. PICK e : e = [x EXCEPT !.end = Event(ran[t][i])]
      OBVIOUS
    <3>3. ran[t][i] \in Results
      BY <1>0, <3>1
    <3>4. /\ e \in Executions /\ e.source = x.source /\ e.criteria = x.criteria
          /\ e.end = Event(ran[t][i]) /\ e.begun
      BY <2>0, <3>1, <3>2, <3>3, EventOfResult DEF Executions
    <3> QED  BY <1>3, <3>1, <3>2, <3>3, <3>4 DEF Told
  <2>4. CASE LoseOutcome(t, i)
    <3>1. /\ execs' = [execs EXCEPT ![t] =
                        [execs[t] EXCEPT ![i] = [x EXCEPT !.end = Lost("infrastructure")]]]
          /\ ran' = ran
      BY <2>4 DEF LoseOutcome, truth, Lost
    <3>2. PICK e : e = [x EXCEPT !.end = Lost("infrastructure")]
      OBVIOUS
    <3>3. /\ e \in Executions /\ e.source = x.source /\ e.criteria = x.criteria
          /\ e.end = Lost("infrastructure")
      BY <2>0, <3>2, PendingEnds DEF Executions
    <3> QED  BY <1>3, <3>1, <3>2, <3>3 DEF Told
  <2> QED  BY <1>6, <2>1, <2>2, <2>3, <2>4
<1>7. ASSUME NEW t \in Tasks, RequestCheck(t) \/ LegacyDelivery(t)  PROVE  P
  <2>1. CASE RequestCheck(t)
    BY <1>2, <2>1 DEF RequestCheck
  <2>2. CASE LegacyDelivery(t)
    BY <1>2, <2>2 DEF LegacyDelivery
  <2> QED  BY <1>7, <2>1, <2>2
<1>8. \A t \in Tasks : DOMAIN execs[t] = 1..Len(execs[t])
  BY <1>0
<1>9. CheckActions
  BY WhoChecks
<1> HIDE DEF P
<1>10. ASSUME NEW t \in Tasks, NEW i \in DOMAIN execs[t],
              \/ BeginCheck(t, i) \/ RunChecker(t, i) \/ NotStarted(t, i)
              \/ FinishCheck(t, i) \/ LoseOutcome(t, i)
       PROVE  P
  BY <1>4, <1>6, <1>8, <1>10
<1>11. P
  BY <1>1, <1>5, <1>7, <1>9, <1>10 DEF CheckActions
<1> QED  BY <1>11 DEF P

-----------------------------------------------------------------------------
(* A write is about one task, whose attempt is there after it.             *)

Untouched(u) ==
  /\ row'[u] = row[u] /\ runs'[u] = runs[u] /\ coverage'[u] = coverage[u]
  /\ gaps'[u] = gaps[u] /\ execs'[u] = execs[u] /\ ops'[u] = ops[u]
  /\ subs'[u] = subs[u] /\ ran'[u] = ran[u] /\ remade'[u] = remade[u]
  /\ verdict'[u] = verdict[u]

\* What is in the row, the coverage and the gaps of an attempt stays there.
Grown(t) ==
  /\ row'[t].exists
  /\ coverage[t].origin # "none" => coverage'[t] = coverage[t]
  /\ row[t].exists => coverage'[t].origin = coverage[t].origin \/ coverage'[t].origin # "creation"
  /\ gaps[t] \subseteq gaps'[t]

ProgramTypes ==
  /\ active' \subseteq Tasks
  /\ criteria' \in Nat
  /\ manifest' \in Manifests
  /\ completion' \in [made: BOOLEAN, tasks: SUBSET Tasks]
  /\ manifest' \in {manifest, EnsuredManifest}

AttemptTypes ==
  /\ row' \in [Tasks -> Rows]
  /\ runs' \in [Tasks -> SUBSET [pk: Nat, exit: Nat, result: {"passed", "failed"}]]
  /\ coverage' \in [Tasks -> Coverages]
  /\ gaps' \in [Tasks -> SUBSET GapReasons]

\* A write on task t.
WriteOn(t) ==
  /\ ProgramTypes /\ AttemptTypes
  /\ Grown(t)
  /\ \A u \in Tasks \ {t} : Untouched(u)

\* Tables in which only the value of t changes.
Only(t, old, new) == \A u \in Tasks \ {t} : new[u] = old[u]

LEMMA OnlyThat ==
  ASSUME NEW S, NEW old \in [Tasks -> S], NEW t \in Tasks, NEW e \in S,
         NEW new, new = [old EXCEPT ![t] = e]
  PROVE  new \in [Tasks -> S] /\ new[t] = e /\ Only(t, old, new)
BY DEF Only

LEMMA OnlySame ==
  ASSUME NEW S, NEW old \in [Tasks -> S], NEW t \in Tasks, NEW new, new = old
  PROVE  new \in [Tasks -> S] /\ new[t] = old[t] /\ Only(t, old, new)
BY DEF Only

\* The shape of the proofs below: each table that a write of t changes is
\* replaced at t, and the rest is as it was.
LEMMA WriteParts ==
  ASSUME TypeInv, NEW t \in Tasks,
         ProgramTypes,
         row' \in [Tasks -> Rows], Only(t, row, row'),
         runs' \in [Tasks -> SUBSET [pk: Nat, exit: Nat, result: {"passed", "failed"}]],
         Only(t, runs, runs'),
         coverage' \in [Tasks -> Coverages], Only(t, coverage, coverage'),
         gaps' \in [Tasks -> SUBSET GapReasons], Only(t, gaps, gaps'),
         Only(t, execs, execs'), Only(t, ops, ops'), Only(t, subs, subs'),
         Only(t, ran, ran'), Only(t, remade, remade'), Only(t, verdict, verdict'),
         Grown(t)
  PROVE  WriteOn(t)
BY DEF WriteOn, AttemptTypes, Untouched, Only

LEMMA ProgramSame ==
  ASSUME TypeInv, UNCHANGED program
  PROVE  ProgramTypes
BY DEF TypeInv, ProgramTypes, program

\* observe, and a gap after it.
LEMMA ObservedParts ==
  ASSUME TypeInv, NEW t \in Tasks, NEW r \in Rows, coverage' = Observed(t, r)
  PROVE  /\ coverage' \in [Tasks -> Coverages] /\ Only(t, coverage, coverage')
         /\ coverage'[t].origin # "none"
         /\ coverage[t].origin # "none" => coverage' = coverage
         /\ coverage'[t].origin = coverage[t].origin \/ coverage'[t].origin # "creation"
<1>1. coverage \in [Tasks -> Coverages]
  BY DEF TypeInv
<1>2. CASE coverage[t].origin # "none"
  BY <1>1, <1>2 DEF Observed, Only
<1>3. CASE coverage[t].origin = "none"
  <2>1. PICK c : c = [origin |-> "legacy_observed", checks |-> r.count, resets |-> r.restarts]
    OBVIOUS
  <2>2. c \in Coverages /\ c.origin = "legacy_observed"
    BY <2>1 DEF Coverages, Rows
  <2>3. coverage' = [coverage EXCEPT ![t] = c]
    BY <1>3, <2>1 DEF Observed
  <2> QED  BY <1>1, <1>3, <2>2, <2>3 DEF Only
<1> QED  BY <1>2, <1>3

LEMMA GapParts ==
  ASSUME TypeInv, NEW t \in Tasks, NEW reason \in GapReasons, NEW cov,
         gaps' = WithGap(t, reason, cov)
  PROVE  /\ gaps' \in [Tasks -> SUBSET GapReasons] /\ Only(t, gaps, gaps')
         /\ gaps[t] \subseteq gaps'[t]
         /\ cov[t].origin # "none" => reason \in gaps'[t]
<1>1. gaps \in [Tasks -> SUBSET GapReasons]
  BY DEF TypeInv
<1>2. CASE gaps' = gaps /\ cov[t].origin = "none"
  BY <1>1, <1>2 DEF Only
<1>3. CASE gaps' = [gaps EXCEPT ![t] = gaps[t] \cup {reason}]
  BY <1>1, <1>3 DEF Only
<1> QED  BY <1>2, <1>3 DEF WithGap

LEMMA There ==
  ASSUME TypeInv, NothingBefore, NEW t \in Tasks,
         \/ execs[t] # <<>> \/ ops[t] # <<>> \/ runs[t] # {} \/ row[t].passed \/ subs[t] # <<>>
  PROVE  row[t].exists
BY DEF NothingBefore

LEMMA Listed ==
  ASSUME TypeInv
  PROVE  /\ \A t \in Tasks : Len(execs[t]) \in Nat /\ DOMAIN execs[t] = 1..Len(execs[t])
         /\ \A t \in Tasks : Len(ops[t]) \in Nat /\ DOMAIN ops[t] = 1..Len(ops[t])
         /\ \A t \in Tasks : Len(subs[t]) \in Nat /\ DOMAIN subs[t] = 1..Len(subs[t])
         /\ \A t \in Tasks : \A i \in DOMAIN execs[t] :
              execs[t][i] \in Executions /\ execs[t] # <<>>
         /\ \A t \in Tasks : \A i \in DOMAIN ops[t] : ops[t][i] \in Operations /\ ops[t] # <<>>
         /\ \A t \in Tasks : \A i \in DOMAIN subs[t] : subs[t][i] \in Submissions
BY DEF TypeInv

LEMMA EnsuredType ==
  ASSUME TypeInv
  PROVE  EnsuredManifest \in Manifests
<1>1. [source |-> "legacy_completion", tasks |-> completion.tasks, criteria |-> 0,
       reviews |-> FALSE] \in Manifests
  BY DEF TypeInv, Manifests
<1>2. \A source \in {"from_start", "existing_program", "existing_account"} :
        [source |-> source, tasks |-> active, criteria |-> criteria, reviews |-> TRUE] \in Manifests
  BY DEF TypeInv, Manifests
<1> QED  BY <1>1, <1>2 DEF TypeInv, EnsuredManifest

LEMMA CreateWrites ==
  ASSUME TypeInv, NothingBefore, NEW t \in Tasks, NEW count \in 0..1, CreateAttempt(t, count)
  PROVE  WriteOn(t)
<1> DEFINE r == [NoRow EXCEPT !.exists = TRUE, !.count = count]
           c == [origin |-> IF count = 0 THEN "creation" ELSE "imported_state",
                 checks |-> count, resets |-> 0]
<1>0. NoRow \in Rows
  BY DEF NoRow, Rows, Decisions
<1>1. r \in Rows /\ r.exists
  <2>1. count \in Nat
    OBVIOUS
  <2>2. ASSUME NEW q \in Rows, NEW x, x = [q EXCEPT !.exists = TRUE, !.count = count]
        PROVE  x \in Rows /\ x.exists
    BY <2>1, <2>2 DEF Rows
  <2> QED  BY <1>0, <2>2
<1>2. c \in Coverages
  BY DEF Coverages
<1>3. row' = [row EXCEPT ![t] = r] /\ coverage' = [coverage EXCEPT ![t] = c]
  BY DEF CreateAttempt
<1>4. ~row[t].exists /\ coverage[t].origin = "none"
  BY DEF CreateAttempt, NothingBefore
<1> HIDE DEF r, c
<1>5. row' \in [Tasks -> Rows] /\ row'[t] = r /\ Only(t, row, row')
  BY <1>1, <1>3 DEF TypeInv, Only
<1>6. coverage' \in [Tasks -> Coverages] /\ Only(t, coverage, coverage')
  BY <1>2, <1>3 DEF TypeInv, Only
<1>7. ProgramTypes
  BY EnsuredType DEF CreateAttempt, ProgramTypes, TypeInv
<1>8. /\ runs' = runs /\ gaps' = gaps /\ execs' = execs /\ ops' = ops /\ subs' = subs
      /\ ran' = ran /\ remade' = remade /\ verdict' = verdict
  BY DEF CreateAttempt, truth
<1>9. /\ runs' \in [Tasks -> SUBSET [pk: Nat, exit: Nat, result: {"passed", "failed"}]]
      /\ gaps' \in [Tasks -> SUBSET GapReasons]
  BY <1>8 DEF TypeInv
<1>10. /\ Only(t, runs, runs') /\ Only(t, gaps, gaps') /\ Only(t, execs, execs')
       /\ Only(t, ops, ops') /\ Only(t, subs, subs') /\ Only(t, ran, ran')
       /\ Only(t, remade, remade') /\ Only(t, verdict, verdict')
  BY <1>8 DEF Only
<1>11. Grown(t)
  BY <1>1, <1>4, <1>5, <1>8 DEF Grown
<1> QED  BY <1>5, <1>6, <1>7, <1>9, <1>10, <1>11, WriteParts

\* A write of the row leaves it a row of the attempt.
LEMMA RowParts ==
  ASSUME TypeInv, NEW t \in Tasks, NEW r \in Rows, row' = [row EXCEPT ![t] = r]
  PROVE  row' \in [Tasks -> Rows] /\ row'[t] = r /\ Only(t, row, row')
BY DEF TypeInv, Only

\* A table that is not written, and one in which t alone is written.
LEMMA Kept ==
  ASSUME NEW t \in Tasks, NEW old, NEW new, new = old
  PROVE  Only(t, old, new)
BY DEF Only

LEMMA SequencesOnly ==
  ASSUME TypeInv, NEW t \in Tasks, NEW s
  PROVE  /\ execs' = [execs EXCEPT ![t] = s] => Only(t, execs, execs')
         /\ ops' = [ops EXCEPT ![t] = s] => Only(t, ops, ops')
         /\ subs' = [subs EXCEPT ![t] = s] => Only(t, subs, subs')
         /\ ran' = [ran EXCEPT ![t] = s] => Only(t, ran, ran')
         /\ remade' = [remade EXCEPT ![t] = s] => Only(t, remade, remade')
         /\ verdict' = [verdict EXCEPT ![t] = s] => Only(t, verdict, verdict')
BY DEF TypeInv, Only

LEMMA TypesKept ==
  ASSUME TypeInv
  PROVE  /\ row' = row => row' \in [Tasks -> Rows]
         /\ runs' = runs =>
              runs' \in [Tasks -> SUBSET [pk: Nat, exit: Nat, result: {"passed", "failed"}]]
         /\ coverage' = coverage => coverage' \in [Tasks -> Coverages]
         /\ gaps' = gaps => gaps' \in [Tasks -> SUBSET GapReasons]
BY DEF TypeInv

LEMMA OutsideUpdateWrites ==
  ASSUME TypeInv, NothingBefore, NEW t \in Tasks, OutsideUpdate(t)
  PROVE  WriteOn(t) /\ (coverage[t].origin # "none" => "unsupported_update" \in gaps'[t])
<1>1. PICK r \in Rows : row' = [row EXCEPT ![t] = r] /\ r.exists
  <2>0. row[t] \in Rows /\ row[t].exists
    BY DEF TypeInv, OutsideUpdate
  <2>1. CASE row' = [row EXCEPT ![t].count = 1 - @] /\ row[t].count \in 0..1
    <3>1. 1 - row[t].count \in Nat
      BY <2>1
    <3>2. PICK q : q = [row[t] EXCEPT !.count = 1 - @]
      OBVIOUS
    <3>3. q \in Rows /\ q.exists
      BY <2>0, <3>1, <3>2 DEF Rows
    <3>4. row' = [row EXCEPT ![t] = q]
      BY <2>1, <3>2
    <3> QED  BY <3>3, <3>4
  <2>2. CASE row' = [row EXCEPT ![t].restarts = 0]
    <3>1. PICK q : q = [row[t] EXCEPT !.restarts = 0]
      OBVIOUS
    <3>2. q \in Rows /\ q.exists
      BY <2>0, <3>1 DEF Rows
    <3>3. row' = [row EXCEPT ![t] = q]
      BY <2>2, <3>1
    <3> QED  BY <3>2, <3>3
  <2>3. ASSUME NEW d \in Decisions, row' = [row EXCEPT ![t].decision = d]
        PROVE  \E r \in Rows : row' = [row EXCEPT ![t] = r] /\ r.exists
    <3>1. PICK q : q = [row[t] EXCEPT !.decision = d]
      OBVIOUS
    <3>2. q \in Rows /\ q.exists
      BY <2>0, <3>1 DEF Rows
    <3>3. row' = [row EXCEPT ![t] = q]
      BY <2>3, <3>1
    <3> QED  BY <3>2, <3>3
  <2>4. CASE row' = [row EXCEPT ![t].passed = TRUE, ![t].check = "passed"]
    <3>1. PICK q : q = [row[t] EXCEPT !.passed = TRUE, !.check = "passed"]
      OBVIOUS
    <3>2. q \in Rows /\ q.exists
      BY <2>0, <3>1 DEF Rows
    <3>3. row' = [row EXCEPT ![t] = q]
      BY <2>4, <3>1
    <3> QED  BY <3>2, <3>3
  <2> QED  BY <2>1, <2>2, <2>3, <2>4 DEF OutsideUpdate
<1>2. row' \in [Tasks -> Rows] /\ row'[t] = r /\ Only(t, row, row')
  BY <1>1, RowParts
<1>3. /\ gaps' \in [Tasks -> SUBSET GapReasons] /\ Only(t, gaps, gaps') /\ gaps[t] \subseteq gaps'[t]
      /\ coverage[t].origin # "none" => "unsupported_update" \in gaps'[t]
  <2>1. gaps' = WithGap(t, "unsupported_update", coverage)
    BY DEF OutsideUpdate, UnsupportedUpdate
  <2>2. "unsupported_update" \in GapReasons
    BY DEF GapReasons
  <2> QED  BY <2>1, <2>2, GapParts
<1>4. /\ UNCHANGED program /\ runs' = runs /\ coverage' = coverage /\ execs' = execs
      /\ ops' = ops /\ subs' = subs /\ ran' = ran /\ remade' = remade
  BY DEF OutsideUpdate
<1>5. Only(t, verdict, verdict')
  BY DEF OutsideUpdate, Only, TypeInv
<1>6. Grown(t)
  BY <1>1, <1>2, <1>3, <1>4 DEF Grown
<1> QED  BY <1>2, <1>3, <1>4, <1>5, <1>6, Kept, TypesKept, ProgramSame, WriteParts

LEMMA OutsideRunWrites ==
  ASSUME TypeInv, NothingBefore, NEW t \in Tasks, NEW r \in runs[t], OutsideRun(t, r)
  PROVE  WriteOn(t)
<1> DEFINE Runs == [pk: Nat, exit: Nat, result: {"passed", "failed"}]
<1>0. runs \in [Tasks -> SUBSET Runs] /\ r \in Runs
  BY DEF TypeInv
<1>1. PICK s \in SUBSET Runs : runs' = [runs EXCEPT ![t] = s]
  <2>1. CASE runs' = [runs EXCEPT ![t] = @ \ {r}]
    BY <1>0, <2>1
  <2>2. ASSUME NEW x \in {"passed", "failed"},
               runs' = [runs EXCEPT ![t] = (@ \ {r}) \cup {[r EXCEPT !.result = x]}]
        PROVE  \E s \in SUBSET Runs : runs' = [runs EXCEPT ![t] = s]
    <3>1. [r EXCEPT !.result = x] \in Runs
      BY <1>0
    <3> QED  BY <1>0, <2>2, <3>1
  <2>3. PICK x \in {"passed", "failed"} : x = IF r.result = "passed" THEN "failed" ELSE "passed"
    OBVIOUS
  <2> QED  BY <2>1, <2>2, <2>3 DEF OutsideRun
<1>2. runs' \in [Tasks -> SUBSET Runs] /\ Only(t, runs, runs')
  BY <1>0, <1>1 DEF Only
<1>3. /\ UNCHANGED program /\ row' = row /\ coverage' = coverage /\ gaps' = gaps
      /\ execs' = execs /\ ops' = ops /\ subs' = subs /\ ran' = ran /\ remade' = remade
      /\ verdict' = verdict
  BY DEF OutsideRun, ledger, truth
<1>4. row[t].exists
  BY There
<1>5. Grown(t)
  BY <1>3, <1>4 DEF Grown
<1> QED  BY <1>2, <1>3, <1>5, Kept, TypesKept, ProgramSame, WriteParts

\* How the services write a row.
LEMMA CheckedRow ==
  ASSUME NEW q \in Rows, NEW r,
         \/ \E n \in Nat :
              r = [q EXCEPT !.count = n, !.check = "running", !.status = "in_progress"]
         \/ r = [q EXCEPT !.check = "error", !.status = "failed"]
         \/ \E c \in {q.check, "error"} : r = [q EXCEPT !.check = c]
         \/ \E b \in BOOLEAN, c \in {"passed", "failed"},
               s \in {"passed", "failed", "in_progress"} :
              r = [q EXCEPT !.passed = b, !.check = c, !.status = s]
  PROVE  r \in Rows /\ r.exists = q.exists
<1>2. ASSUME NEW n \in Nat,
             r = [q EXCEPT !.count = n, !.check = "running", !.status = "in_progress"]
      PROVE  r \in Rows /\ r.exists = q.exists
  BY <1>2 DEF Rows
<1>3. CASE r = [q EXCEPT !.check = "error", !.status = "failed"]
  BY <1>3 DEF Rows
<1>4. ASSUME NEW c \in {q.check, "error"}, r = [q EXCEPT !.check = c]
      PROVE  r \in Rows /\ r.exists = q.exists
  BY <1>4 DEF Rows
<1>5. ASSUME NEW b \in BOOLEAN, NEW c \in {"passed", "failed"},
             NEW s \in {"passed", "failed", "in_progress"},
             r = [q EXCEPT !.passed = b, !.check = c, !.status = s]
      PROVE  r \in Rows /\ r.exists = q.exists
  BY <1>5 DEF Rows
<1> QED  BY <1>2, <1>3, <1>4, <1>5

LEMMA AnswerRow ==
  ASSUME NEW q \in Rows, NEW r,
         \/ \E n \in Nat : r = [q EXCEPT !.body = n]
         \/ \E n \in Nat : r = [q EXCEPT !.restarts = n]
         \/ r = [q EXCEPT !.status = "on_review", !.decision = "not_reviewed"]
         \/ \E d \in Decisions : r = Decided(q, d)
  PROVE  r \in Rows /\ r.exists = q.exists
<1>1. ASSUME NEW n \in Nat, r = [q EXCEPT !.body = n]
      PROVE  r \in Rows /\ r.exists = q.exists
  BY <1>1 DEF Rows
<1>2. ASSUME NEW n \in Nat, r = [q EXCEPT !.restarts = n]
      PROVE  r \in Rows /\ r.exists = q.exists
  BY <1>2 DEF Rows
<1>3. CASE r = [q EXCEPT !.status = "on_review", !.decision = "not_reviewed"]
  BY <1>3 DEF Rows, Decisions
<1>4. ASSUME NEW d \in Decisions, r = Decided(q, d)
      PROVE  r \in Rows /\ r.exists = q.exists
  <2>1. ASSUME NEW s \in {"passed", "failed", q.status},
               r = [q EXCEPT !.decision = d, !.status = s]
        PROVE  r \in Rows /\ r.exists = q.exists
    BY <2>1 DEF Rows
  <2>2. PICK s \in {"passed", "failed", q.status} :
          s = CASE d = "approved" -> "passed" [] d = "needs_revision" -> "failed"
                [] OTHER -> q.status
    OBVIOUS
  <2>3. r = [q EXCEPT !.decision = d, !.status = s]
    BY <1>4, <2>2 DEF Decided
  <2> QED  BY <2>1, <2>3
<1> QED  BY <1>1, <1>2, <1>3, <1>4

LEMMA RequestCheckWrites ==
  ASSUME TypeInv, NothingBefore, NEW t \in Tasks, RequestCheck(t)
  PROVE  WriteOn(t)
<1>0. row[t].count + 1 \in Nat
  BY DEF TypeInv, Rows
<1>1. PICK r : r = [row[t] EXCEPT !.count = row[t].count + 1, !.check = "running",
                                  !.status = "in_progress"]
  OBVIOUS
<1>2. row[t] \in Rows /\ row[t].exists
  BY DEF TypeInv, RequestCheck
<1>3. r \in Rows /\ r.exists
  BY <1>0, <1>1, <1>2, CheckedRow
<1>4. row' = [row EXCEPT ![t] = r]
  BY <1>1 DEF RequestCheck
<1>5. row' \in [Tasks -> Rows] /\ row'[t] = r /\ Only(t, row, row')
  BY <1>3, <1>4, RowParts
<1>6. coverage' = Observed(t, r)
  BY <1>5 DEF RequestCheck
<1>7. /\ UNCHANGED program /\ runs' = runs /\ gaps' = gaps
      /\ ops' = ops /\ subs' = subs /\ remade' = remade /\ verdict' = verdict
      /\ execs' = [execs EXCEPT ![t] = Append(@, Execution("service"))]
      /\ ran' = [ran EXCEPT ![t] = Append(@, "no")]
  BY DEF RequestCheck
<1>8. /\ coverage' \in [Tasks -> Coverages] /\ Only(t, coverage, coverage')
      /\ coverage[t].origin # "none" => coverage' = coverage
      /\ coverage'[t].origin = coverage[t].origin \/ coverage'[t].origin # "creation"
  BY <1>3, <1>6, ObservedParts
<1>9. Grown(t)
  BY <1>3, <1>5, <1>7, <1>8 DEF Grown
<1> QED  BY <1>5, <1>7, <1>8, <1>9, Kept, SequencesOnly, TypesKept, ProgramSame, WriteParts

LEMMA LegacyDeliveryWrites ==
  ASSUME TypeInv, NothingBefore, NEW t \in Tasks, LegacyDelivery(t)
  PROVE  WriteOn(t)
<1>1. row[t] \in Rows /\ row[t].exists
  BY DEF TypeInv, LegacyDelivery
<1>2. /\ coverage' \in [Tasks -> Coverages] /\ Only(t, coverage, coverage')
      /\ coverage[t].origin # "none" => coverage' = coverage
      /\ coverage'[t].origin = coverage[t].origin \/ coverage'[t].origin # "creation"
  BY <1>1, ObservedParts DEF LegacyDelivery
<1>3. "unregistered_check_request" \in GapReasons
  BY DEF GapReasons
<1>4. gaps' \in [Tasks -> SUBSET GapReasons] /\ Only(t, gaps, gaps') /\ gaps[t] \subseteq gaps'[t]
  BY <1>3, GapParts DEF LegacyDelivery
<1>5. /\ UNCHANGED program /\ row' = row /\ runs' = runs
      /\ ops' = ops /\ subs' = subs /\ remade' = remade /\ verdict' = verdict
      /\ execs' = [execs EXCEPT ![t] = Append(@, Execution("legacy_delivery"))]
      /\ ran' = [ran EXCEPT ![t] = Append(@, "no")]
  BY DEF LegacyDelivery
<1>6. Grown(t)
  BY <1>1, <1>2, <1>4, <1>5 DEF Grown
<1> QED  BY <1>2, <1>4, <1>5, <1>6, Kept, SequencesOnly, TypesKept, ProgramSame, WriteParts

\* The steps of one execution: the row, the run and the completion with it.
LEMMA ExecutionWrites ==
  ASSUME TypeInv, NothingBefore, ChecksRecorded, NEW t \in Tasks, NEW i \in DOMAIN execs[t],
         \/ BeginCheck(t, i) \/ RunChecker(t, i) \/ NotStarted(t, i)
         \/ FinishCheck(t, i) \/ LoseOutcome(t, i)
  PROVE  WriteOn(t)
<1>0. row[t] \in Rows /\ row[t].exists /\ execs[t][i] \in Executions
  BY There, Listed DEF TypeInv
<1>1. CASE BeginCheck(t, i) \/ RunChecker(t, i)
  <2>1. /\ UNCHANGED program /\ row' = row /\ runs' = runs /\ coverage' = coverage /\ gaps' = gaps
        /\ ops' = ops /\ subs' = subs /\ remade' = remade /\ verdict' = verdict
    BY <1>1 DEF BeginCheck, RunChecker, ledger, truth
  <2>2. Only(t, execs, execs') /\ Only(t, ran, ran')
    BY <1>1, Kept DEF BeginCheck, RunChecker, ledger, truth, Only, TypeInv
  <2>3. Grown(t)
    BY <1>0, <2>1 DEF Grown
  <2> QED  BY <2>1, <2>2, <2>3, Kept, TypesKept, ProgramSame, WriteParts
<1>2. CASE NotStarted(t, i) \/ LoseOutcome(t, i)
  <2>1. PICK r : r = [row[t] EXCEPT !.check = "error", !.status = "failed"]
    OBVIOUS
  <2>2. r \in Rows /\ r.exists
    BY <1>0, <2>1, CheckedRow
  <2>3. row' = [row EXCEPT ![t] = r]
    BY <1>2, <2>1 DEF NotStarted, LoseOutcome
  <2>4. row' \in [Tasks -> Rows] /\ row'[t] = r /\ Only(t, row, row')
    BY <2>2, <2>3, RowParts
  <2>5. /\ UNCHANGED program /\ runs' = runs /\ coverage' = coverage /\ gaps' = gaps
        /\ ops' = ops /\ subs' = subs /\ ran' = ran /\ remade' = remade /\ verdict' = verdict
    BY <1>2 DEF NotStarted, LoseOutcome, truth
  <2>6. Only(t, execs, execs')
    BY <1>2 DEF NotStarted, LoseOutcome, Only, TypeInv
  <2>7. Grown(t)
    BY <2>2, <2>4, <2>5 DEF Grown
  <2> QED  BY <2>4, <2>5, <2>6, <2>7, Kept, TypesKept, ProgramSame, WriteParts
<1>3. CASE FinishCheck(t, i)
  <2>1. PICK b \in BOOLEAN, c \in {"passed", "failed"},
             s \in {"passed", "failed", "in_progress"} :
          /\ b = (row[t].passed \/ ran[t][i] = "passed")
          /\ c = (IF ran[t][i] = "passed" THEN "passed" ELSE "failed")
          /\ s = (IF ran[t][i] # "passed" THEN "failed"
                  ELSE IF t \in Reviewed THEN "in_progress" ELSE "passed")
    BY <1>0 DEF Rows
  <2>2. PICK r : r = [row[t] EXCEPT !.passed = b, !.check = c, !.status = s]
    OBVIOUS
  <2>3. r \in Rows /\ r.exists
    <3>1. \E bb \in BOOLEAN, cc \in {"passed", "failed"},
             ss \in {"passed", "failed", "in_progress"} :
            r = [row[t] EXCEPT !.passed = bb, !.check = cc, !.status = ss]
      BY <2>2
    <3> QED  BY <1>0, <3>1, CheckedRow
  <2>4. row' = [row EXCEPT ![t] = r]
    BY <1>3, <2>1, <2>2 DEF FinishCheck
  <2>5. row' \in [Tasks -> Rows] /\ row'[t] = r /\ Only(t, row, row')
    BY <2>3, <2>4, RowParts
  <2> DEFINE Runs == [pk: Nat, exit: Nat, result: {"passed", "failed"}]
             new == [pk |-> i, exit |-> Event(ran[t][i]).exit,
                     result |-> IF ran[t][i] = "passed" THEN "passed" ELSE "failed"]
  <2>6. new \in Runs
    <3>1. i \in Nat /\ ran[t][i] \in Results
      BY <1>3, Listed DEF TypeInv, ChecksRecorded, FinishCheck
    <3>2. Event(ran[t][i]).exit \in Nat
      BY <3>1, EventOfResult DEF Ends
    <3> QED  BY <3>1, <3>2
  <2>7. runs' = [runs EXCEPT ![t] = @ \cup {new}]
    BY <1>3 DEF FinishCheck
  <2> HIDE DEF new
  <2>8. runs' \in [Tasks -> SUBSET Runs] /\ Only(t, runs, runs')
    BY <2>6, <2>7 DEF TypeInv, Only
  <2>9. ProgramTypes
    <3>1. /\ active' = active /\ criteria' = criteria /\ manifest' = manifest
          /\ completion' = completion \/ completion' = [made |-> TRUE, tasks |-> active]
      BY <1>3 DEF FinishCheck
    <3>2. active \subseteq Tasks /\ completion \in [made: BOOLEAN, tasks: SUBSET Tasks]
      BY DEF TypeInv
    <3>3. [made |-> TRUE, tasks |-> active] \in [made: BOOLEAN, tasks: SUBSET Tasks]
      BY <3>2
    <3> QED  BY <3>1, <3>2, <3>3 DEF ProgramTypes, TypeInv
  <2>10. /\ coverage' = coverage /\ gaps' = gaps
         /\ ops' = ops /\ subs' = subs /\ ran' = ran /\ remade' = remade /\ verdict' = verdict
    BY <1>3 DEF FinishCheck, truth
  <2>11. Only(t, execs, execs')
    BY <1>3 DEF FinishCheck, Only, TypeInv
  <2>12. Grown(t)
    BY <2>3, <2>5, <2>10 DEF Grown
  <2> QED  BY <2>5, <2>8, <2>9, <2>10, <2>11, <2>12, Kept, TypesKept, WriteParts
<1> QED  BY <1>1, <1>2, <1>3

LEMMA OperationWrites ==
  ASSUME TypeInv, NothingBefore, NEW t \in Tasks, NEW i \in DOMAIN ops[t],
         BeginOp(t, i) \/ FailOp(t, i) \/ Remake(t, i) \/ CommitOp(t, i)
  PROVE  WriteOn(t)
<1>0. row[t] \in Rows /\ row[t].exists
  BY There, Listed DEF TypeInv
<1>1. CASE BeginOp(t, i) \/ FailOp(t, i) \/ Remake(t, i)
  <2>1. /\ UNCHANGED program /\ row' = row /\ runs' = runs /\ coverage' = coverage /\ gaps' = gaps
        /\ execs' = execs /\ subs' = subs /\ ran' = ran /\ verdict' = verdict
    BY <1>1 DEF BeginOp, FailOp, Remake, ledger, truth
  <2>2. Only(t, ops, ops') /\ Only(t, remade, remade')
    BY <1>1 DEF BeginOp, FailOp, Remake, ledger, truth, Only, TypeInv
  <2>3. Grown(t)
    BY <1>0, <2>1 DEF Grown
  <2> QED  BY <2>1, <2>2, <2>3, Kept, TypesKept, ProgramSame, WriteParts
<1>2. CASE CommitOp(t, i)
  <2>1. PICK n \in Nat : n = IF ops[t][i].kind = "reset" THEN row[t].restarts + 1
                                                         ELSE row[t].restarts
    BY <1>0 DEF Rows
  <2>2. PICK r : r = [row[t] EXCEPT !.restarts = n]
    OBVIOUS
  <2>3. r \in Rows /\ r.exists
    BY <1>0, <2>2, AnswerRow
  <2>4. row' = [row EXCEPT ![t] = r]
    BY <1>2, <2>1, <2>2 DEF CommitOp
  <2>5. row' \in [Tasks -> Rows] /\ row'[t] = r /\ Only(t, row, row')
    BY <2>3, <2>4, RowParts
  <2>6. /\ UNCHANGED program /\ runs' = runs /\ coverage' = coverage /\ gaps' = gaps
        /\ execs' = execs /\ subs' = subs /\ ran' = ran /\ remade' = remade /\ verdict' = verdict
    BY <1>2 DEF CommitOp, truth
  <2>7. Only(t, ops, ops')
    BY <1>2 DEF CommitOp, Only, TypeInv
  <2>8. Grown(t)
    BY <2>3, <2>5, <2>6 DEF Grown
  <2> QED  BY <2>5, <2>6, <2>7, <2>8, Kept, TypesKept, ProgramSame, WriteParts
<1> QED  BY <1>1, <1>2

LEMMA RequestOpWrites ==
  ASSUME TypeInv, NothingBefore, NEW t \in Tasks, NEW kind, NEW origin,
         RequestOp(t, kind, origin) \/ UnregisteredOp(t)
  PROVE  WriteOn(t)
<1>1. row[t] \in Rows /\ row[t].exists
  BY DEF TypeInv, RequestOp, UnregisteredOp
<1>2. /\ coverage' \in [Tasks -> Coverages] /\ Only(t, coverage, coverage')
      /\ coverage[t].origin # "none" => coverage' = coverage
      /\ coverage'[t].origin = coverage[t].origin \/ coverage'[t].origin # "creation"
  BY <1>1, ObservedParts DEF RequestOp, UnregisteredOp
<1>3. "unregistered_environment_request" \in GapReasons
  BY DEF GapReasons
<1>4. gaps' \in [Tasks -> SUBSET GapReasons] /\ Only(t, gaps, gaps') /\ gaps[t] \subseteq gaps'[t]
  <2>1. CASE RequestOp(t, kind, origin)
    BY <2>1, TypesKept, Kept DEF RequestOp
  <2>2. CASE UnregisteredOp(t)
    BY <2>2, <1>3, GapParts DEF UnregisteredOp
  <2> QED  BY <2>1, <2>2
<1>5. /\ UNCHANGED program /\ row' = row /\ runs' = runs /\ execs' = execs
      /\ subs' = subs /\ ran' = ran /\ remade' = remade /\ verdict' = verdict
  BY DEF RequestOp, UnregisteredOp, truth
<1>6. Only(t, ops, ops')
  BY DEF RequestOp, UnregisteredOp, Only, TypeInv
<1>7. Grown(t)
  BY <1>1, <1>2, <1>4, <1>5 DEF Grown
<1> QED  BY <1>2, <1>4, <1>5, <1>6, <1>7, Kept, TypesKept, ProgramSame, WriteParts

LEMMA InterruptWrites ==
  ASSUME TypeInv, NothingBefore, NEW t \in Tasks, Interrupt(t)
  PROVE  WriteOn(t)
<1>1. row[t] \in Rows /\ row[t].exists
  <2>1. execs[t] # <<>> \/ ops[t] # <<>>
    BY Listed DEF Interrupt
  <2> QED  BY <2>1, There DEF TypeInv
<1>2. PICK r : \E c \in {row[t].check, "error"} :
                 /\ c = IF row[t].check = "running" THEN "error" ELSE row[t].check
                 /\ r = [row[t] EXCEPT !.check = c]
  OBVIOUS
<1>3. r \in Rows /\ r.exists
  BY <1>1, <1>2, CheckedRow
<1>4. row' = [row EXCEPT ![t] = r]
  BY <1>2 DEF Interrupt
<1>5. row' \in [Tasks -> Rows] /\ row'[t] = r /\ Only(t, row, row')
  BY <1>3, <1>4, RowParts
<1>6. /\ UNCHANGED program /\ runs' = runs /\ coverage' = coverage /\ gaps' = gaps
      /\ subs' = subs /\ ran' = ran /\ remade' = remade /\ verdict' = verdict
  BY DEF Interrupt, truth
<1>7. Only(t, ops, ops') /\ Only(t, execs, execs')
  BY SequencesOnly DEF Interrupt
<1>8. Grown(t)
  BY <1>3, <1>5, <1>6 DEF Grown
<1> QED  BY <1>5, <1>6, <1>7, <1>8, Kept, TypesKept, ProgramSame, WriteParts

LEMMA SaveDraftWrites ==
  ASSUME TypeInv, NothingBefore, NEW t \in Tasks, NEW body \in 1..2, SaveDraft(t, body)
  PROVE  WriteOn(t)
<1>1. row[t] \in Rows /\ row[t].exists
  BY There DEF TypeInv, SaveDraft
<1>2. PICK r : r = [row[t] EXCEPT !.body = body]
  OBVIOUS
<1>3. r \in Rows /\ r.exists
  <2>1. \E n \in Nat : r = [row[t] EXCEPT !.body = n]
    BY <1>2
  <2> QED  BY <1>1, <2>1, AnswerRow
<1>4. row' = [row EXCEPT ![t] = r]
  BY <1>2 DEF SaveDraft
<1>5. row' \in [Tasks -> Rows] /\ row'[t] = r /\ Only(t, row, row')
  BY <1>3, <1>4, RowParts
<1>6. /\ UNCHANGED program /\ runs' = runs /\ coverage' = coverage /\ gaps' = gaps
      /\ execs' = execs /\ ops' = ops
      /\ subs' = subs /\ ran' = ran /\ remade' = remade /\ verdict' = verdict
  BY DEF SaveDraft, ledger, truth
<1>7. Grown(t)
  BY <1>3, <1>5, <1>6 DEF Grown
<1> QED  BY <1>5, <1>6, <1>7, Kept, TypesKept, ProgramSame, WriteParts

LEMMA SubmitWrites ==
  ASSUME TypeInv, NothingBefore, NEW t \in Tasks, SubmitAnswer(t)
  PROVE  WriteOn(t)
<1>1. row[t] \in Rows /\ row[t].exists
  BY There DEF TypeInv, SubmitAnswer
<1>2. PICK r : r = [row[t] EXCEPT !.status = "on_review", !.decision = "not_reviewed"]
  OBVIOUS
<1>3. r \in Rows /\ r.exists
  BY <1>1, <1>2, AnswerRow
<1>4. row' = [row EXCEPT ![t] = r]
  BY <1>2 DEF SubmitAnswer
<1>5. row' \in [Tasks -> Rows] /\ row'[t] = r /\ Only(t, row, row')
  BY <1>3, <1>4, RowParts
<1>6. /\ coverage' \in [Tasks -> Coverages] /\ Only(t, coverage, coverage')
      /\ coverage[t].origin # "none" => coverage' = coverage
      /\ coverage'[t].origin = coverage[t].origin \/ coverage'[t].origin # "creation"
  BY <1>1, ObservedParts DEF SubmitAnswer
<1>7. /\ UNCHANGED program /\ runs' = runs /\ gaps' = gaps
      /\ execs' = execs /\ ops' = ops /\ ran' = ran /\ remade' = remade
      /\ subs' = [subs EXCEPT ![t] = Append(@, [body |-> row[t].body, reviews |-> <<>>])]
      /\ verdict' = [verdict EXCEPT ![t] = Append(@, "not_reviewed")]
  BY DEF SubmitAnswer
<1>8. Grown(t)
  BY <1>3, <1>5, <1>6, <1>7 DEF Grown
<1> QED  BY <1>5, <1>6, <1>7, <1>8, Kept, SequencesOnly, TypesKept, ProgramSame, WriteParts

LEMMA ReviewWrites ==
  ASSUME TypeInv, NothingBefore, NEW t \in Tasks, NEW d \in Decisions, NEW versioned \in BOOLEAN,
         ReviewAnswer(t, d, versioned) \/ ReviewWithoutSubmission(t, d)
  PROVE  WriteOn(t)
<1>1. row[t] \in Rows /\ row[t].exists
  BY DEF TypeInv, ReviewAnswer, ReviewWithoutSubmission
<1>2. PICK r : r = Decided(row[t], d)
  OBVIOUS
<1>3. r \in Rows /\ r.exists
  BY <1>1, <1>2, AnswerRow
<1>4. row' = [row EXCEPT ![t] = r]
  BY <1>2 DEF ReviewAnswer, ReviewWithoutSubmission
<1>5. row' \in [Tasks -> Rows] /\ row'[t] = r /\ Only(t, row, row')
  BY <1>3, <1>4, RowParts
<1>6. /\ coverage' \in [Tasks -> Coverages] /\ Only(t, coverage, coverage')
      /\ coverage[t].origin # "none" => coverage' = coverage
      /\ coverage'[t].origin = coverage[t].origin \/ coverage'[t].origin # "creation"
  BY <1>1, ObservedParts DEF ReviewAnswer, ReviewWithoutSubmission
<1>7. gaps' \in [Tasks -> SUBSET GapReasons] /\ Only(t, gaps, gaps') /\ gaps[t] \subseteq gaps'[t]
  <2>1. "review_version_unspecified" \in GapReasons /\ "review_without_submission" \in GapReasons
    BY DEF GapReasons
  <2>2. CASE gaps' = gaps
    BY <2>2, TypesKept, Kept
  <2>3. CASE gaps' = WithGap(t, "review_version_unspecified", coverage')
    BY <2>1, <2>3, GapParts
  <2>4. CASE gaps' = WithGap(t, "review_without_submission", coverage')
    BY <2>1, <2>4, GapParts
  <2> QED  BY <2>2, <2>3, <2>4 DEF ReviewAnswer, ReviewWithoutSubmission
<1>8. /\ UNCHANGED program /\ runs' = runs
      /\ execs' = execs /\ ops' = ops /\ ran' = ran /\ remade' = remade
  BY DEF ReviewAnswer, ReviewWithoutSubmission, truth
<1>9. Only(t, subs, subs') /\ Only(t, verdict, verdict')
  BY DEF ReviewAnswer, ReviewWithoutSubmission, truth, TypeInv, Only
<1>10. Grown(t)
  BY <1>3, <1>5, <1>6, <1>7 DEF Grown
<1> QED  BY <1>5, <1>6, <1>7, <1>8, <1>9, <1>10, Kept, TypesKept, ProgramSame, WriteParts

\* Every write is about one task, but for a change of the catalogue.
LEMMA Written ==
  ASSUME TypeInv, NothingBefore, ChecksRecorded, Service \/ Fault
  PROVE  \/ \E t \in Tasks : WriteOn(t)
         \/ ChangeCatalogue
<1> DEFINE P == \E t \in Tasks : WriteOn(t)
<1>0. 0 \in 0..1 /\ 1 \in 0..1 /\ TRUE \in BOOLEAN /\ FALSE \in BOOLEAN
  OBVIOUS
<1>1. CASE Service
  <2>1. ASSUME NEW t \in Tasks,
               \/ CreateAttempt(t, 0)
               \/ RequestCheck(t)
               \/ \E i \in DOMAIN execs[t] :
                    \/ BeginCheck(t, i) \/ RunChecker(t, i) \/ NotStarted(t, i)
                    \/ FinishCheck(t, i)
               \/ \E kind \in Kinds, origin \in {"trainee", "maintenance"} :
                    RequestOp(t, kind, origin)
               \/ \E i \in DOMAIN ops[t] : BeginOp(t, i) \/ Remake(t, i) \/ CommitOp(t, i)
               \/ \E body \in 1..2 : SaveDraft(t, body)
               \/ SubmitAnswer(t)
               \/ \E decision \in Decisions : ReviewAnswer(t, decision, TRUE)
        PROVE  WriteOn(t)
    BY <1>0, <2>1, CreateWrites, RequestCheckWrites, ExecutionWrites, RequestOpWrites,
       OperationWrites, SaveDraftWrites, SubmitWrites, ReviewWrites
  <2> QED  BY <1>1, <2>1 DEF Service
<1>2. CASE Fault
  <2>1. ASSUME NEW t \in Tasks,
               \/ CreateAttempt(t, 1)
               \/ OutsideUpdate(t)
               \/ \E r \in runs[t] : OutsideRun(t, r)
               \/ LegacyDelivery(t)
               \/ \E i \in DOMAIN execs[t] : LoseOutcome(t, i)
               \/ UnregisteredOp(t)
               \/ \E i \in DOMAIN ops[t] : FailOp(t, i)
               \/ Interrupt(t)
               \/ \E decision \in Decisions :
                    ReviewAnswer(t, decision, FALSE) \/ ReviewWithoutSubmission(t, decision)
        PROVE  WriteOn(t)
    BY <1>0, <2>1, CreateWrites, OutsideUpdateWrites, OutsideRunWrites, LegacyDeliveryWrites,
       ExecutionWrites, RequestOpWrites, OperationWrites, InterruptWrites, ReviewWrites
  <2> QED  BY <1>2, <2>1 DEF Fault
<1> QED  BY <1>1, <1>2

OpsActions ==
  \/ UNCHANGED <<ops, remade>>
  \/ \E t \in Tasks :
       \/ \E kind \in Kinds, origin \in {"trainee", "maintenance"} : RequestOp(t, kind, origin)
       \/ UnregisteredOp(t) \/ Interrupt(t)
       \/ \E i \in DOMAIN ops[t] :
            \/ BeginOp(t, i) \/ Remake(t, i) \/ CommitOp(t, i) \/ FailOp(t, i)

LEMMA WhoOperates ==
  ASSUME Service \/ Fault  PROVE  OpsActions
<1>1. ASSUME NEW t \in Tasks, NEW n, CreateAttempt(t, n)  PROVE  UNCHANGED <<ops, remade>>
  BY <1>1 DEF CreateAttempt, truth
<1>2. ASSUME NEW t \in Tasks, OutsideUpdate(t)  PROVE  UNCHANGED <<ops, remade>>
  BY <1>2 DEF OutsideUpdate
<1>3. ASSUME NEW t \in Tasks, NEW r, OutsideRun(t, r)  PROVE  UNCHANGED <<ops, remade>>
  BY <1>3 DEF OutsideRun, ledger, truth
<1>4. CASE ChangeCatalogue
  BY <1>4 DEF ChangeCatalogue, ledger, truth, OpsActions
<1>5. ASSUME NEW t \in Tasks, RequestCheck(t) \/ LegacyDelivery(t)
      PROVE  UNCHANGED <<ops, remade>>
  BY <1>5 DEF RequestCheck, LegacyDelivery
<1>6. ASSUME NEW t \in Tasks, NEW i,
             \/ BeginCheck(t, i) \/ NotStarted(t, i) \/ FinishCheck(t, i) \/ LoseOutcome(t, i)
      PROVE  UNCHANGED <<ops, remade>>
  BY <1>6 DEF BeginCheck, NotStarted, FinishCheck, LoseOutcome, truth
<1>7. ASSUME NEW t \in Tasks, NEW i, RunChecker(t, i)  PROVE  UNCHANGED <<ops, remade>>
  BY <1>7 DEF RunChecker, ledger
<1>8. ASSUME NEW t \in Tasks, NEW body, SaveDraft(t, body)  PROVE  UNCHANGED <<ops, remade>>
  BY <1>8 DEF SaveDraft, ledger, truth
<1>9. ASSUME NEW t \in Tasks, SubmitAnswer(t)  PROVE  UNCHANGED <<ops, remade>>
  BY <1>9 DEF SubmitAnswer
<1>10. ASSUME NEW t \in Tasks, NEW d, NEW v, ReviewAnswer(t, d, v)
       PROVE  UNCHANGED <<ops, remade>>
  BY <1>10 DEF ReviewAnswer
<1>11. ASSUME NEW t \in Tasks, NEW d, ReviewWithoutSubmission(t, d)
       PROVE  UNCHANGED <<ops, remade>>
  BY <1>11 DEF ReviewWithoutSubmission, truth
<1>12. QED
  BY <1>1, <1>2, <1>3, <1>4, <1>5, <1>6, <1>7, <1>8, <1>9, <1>10, <1>11
     DEF Service, Fault, OpsActions

OpsTypes == ops' \in [Tasks -> Seq(Operations)] /\ remade' \in [Tasks -> SUBSET Nat]

\* What an operation and its environment have to do with each other.
OpTold(o, made) ==
  /\ made => o.begun
  /\ o.outcome = "not_started" => ~o.begun
  /\ o.outcome = "success" => made

LEMMA OpsStep ==
  ASSUME TypeInv, OpsRecorded, Service \/ Fault
  PROVE  OpsTypes /\ OpsRecorded'
<1> DEFINE P == OpsTypes /\ OpsRecorded'
<1>0. /\ ops \in [Tasks -> Seq(Operations)]
      /\ remade \in [Tasks -> SUBSET Nat]
      /\ \A t \in Tasks : Len(ops[t]) \in Nat /\ DOMAIN ops[t] = 1..Len(ops[t])
      /\ \A t \in Tasks : \A i \in 1..Len(ops[t]) : ops[t][i] \in Operations
  BY DEF TypeInv
<1>1. /\ \A t \in Tasks : remade[t] \subseteq 1..Len(ops[t])
      /\ \A t \in Tasks : \A i \in 1..Len(ops[t]) : OpTold(ops[t][i], i \in remade[t])
  BY DEF OpsRecorded, OpTold
\* The new tables are good when each of their entries is.
<1>2. ASSUME OpsTypes,
             \A t \in Tasks : remade'[t] \subseteq 1..Len(ops'[t]),
             \A t \in Tasks : \A i \in 1..Len(ops'[t]) : OpTold(ops'[t][i], i \in remade'[t])
      PROVE  P
  BY <1>2 DEF OpsRecorded, OpTold
<1>3. ASSUME UNCHANGED <<ops, remade>>  PROVE  P
  BY <1>0, <1>3 DEF OpsTypes, OpsRecorded
<1>4. ASSUME NEW t \in Tasks, NEW o \in Operations, ops' = [ops EXCEPT ![t] = Append(@, o)],
             remade' = remade, o.outcome # "success", o.outcome = "not_started" => ~o.begun
      PROVE  P
  <2>1. /\ ops' \in [Tasks -> Seq(Operations)]
        /\ Len(ops'[t]) = Len(ops[t]) + 1
        /\ \A u \in Tasks : u # t => ops'[u] = ops[u]
        /\ \A j \in 1..Len(ops[t]) : ops'[t][j] = ops[t][j]
        /\ ops'[t][Len(ops[t]) + 1] = o
    BY <1>0, <1>4, Appended
  <2>2. ASSUME NEW u \in Tasks  PROVE  remade'[u] \subseteq 1..Len(ops'[u])
    <3>1. Len(ops[u]) \in Nat /\ Len(ops'[u]) \in {Len(ops[u]), Len(ops[u]) + 1}
      BY <1>0, <2>1
    <3> QED  BY <1>1, <1>4, <3>1
  <2>3. ASSUME NEW u \in Tasks, NEW i \in 1..Len(ops'[u])
        PROVE  OpTold(ops'[u][i], i \in remade'[u])
    <3>1. CASE u # t
      BY <1>1, <1>4, <2>1, <3>1
    <3>2. CASE u = t /\ i \in 1..Len(ops[t])
      BY <1>1, <1>4, <2>1, <3>2
    <3>3. CASE u = t /\ i = Len(ops[t]) + 1
      <4>1. i \notin remade'[t]
        BY <1>0, <1>1, <1>4, <3>3
      <4> QED  BY <1>4, <2>1, <3>3, <4>1 DEF OpTold
    <3>4. u = t => i \in 1..Len(ops[t]) \/ i = Len(ops[t]) + 1
      BY <1>0, <2>1
    <3> QED  BY <3>1, <3>2, <3>3, <3>4
  <2>4. OpsTypes
    BY <1>0, <1>4, <2>1 DEF OpsTypes
  <2> QED  BY <1>2, <2>2, <2>3, <2>4
<1>5. ASSUME NEW t \in Tasks, NEW i \in 1..Len(ops[t]), NEW o \in Operations,
             ops' = [ops EXCEPT ![t] = [ops[t] EXCEPT ![i] = o]], remade' = remade,
             OpTold(ops[t][i], i \in remade[t]) => OpTold(o, i \in remade[t])
      PROVE  P
  <2>1. /\ ops' \in [Tasks -> Seq(Operations)]
        /\ \A u \in Tasks : Len(ops'[u]) = Len(ops[u])
        /\ \A u \in Tasks : u # t => ops'[u] = ops[u]
        /\ \A j \in 1..Len(ops[t]) : ops'[t][j] = IF j = i THEN o ELSE ops[t][j]
    BY <1>0, <1>5, Updated
  <2>2. \A u \in Tasks : remade'[u] \subseteq 1..Len(ops'[u])
    BY <1>1, <1>5, <2>1
  <2>3. ASSUME NEW u \in Tasks, NEW j \in 1..Len(ops'[u])
        PROVE  OpTold(ops'[u][j], j \in remade'[u])
    BY <1>1, <1>5, <2>1
  <2>4. OpsTypes
    BY <1>0, <1>5, <2>1 DEF OpsTypes
  <2> QED  BY <1>2, <2>2, <2>3, <2>4
<1>6. ASSUME NEW t \in Tasks, NEW i \in DOMAIN ops[t], Remake(t, i)  PROVE  P
  <2>1. /\ ops' = ops /\ ops[t][i].begun /\ i \in 1..Len(ops[t]) /\ i \in Nat
        /\ remade' = [remade EXCEPT ![t] = @ \cup {i}]
    BY <1>0, <1>6 DEF Remake, ledger
  <2>2. /\ remade' \in [Tasks -> SUBSET Nat]
        /\ remade'[t] = remade[t] \cup {i}
        /\ \A u \in Tasks : u # t => remade'[u] = remade[u]
    BY <1>0, <2>1
  <2>3. ASSUME NEW u \in Tasks, NEW j \in 1..Len(ops'[u])
        PROVE  OpTold(ops'[u][j], j \in remade'[u])
    <3>1. OpTold(ops[u][j], j \in remade[u])
      BY <1>1, <2>1
    <3> QED  BY <2>1, <2>2, <3>1 DEF OpTold
  <2>4. \A u \in Tasks : remade'[u] \subseteq 1..Len(ops'[u])
    BY <1>1, <2>1, <2>2
  <2>5. OpsTypes
    BY <1>0, <2>1, <2>2 DEF OpsTypes
  <2> QED  BY <1>2, <2>3, <2>4, <2>5
<1>7. ASSUME NEW t \in Tasks, NEW i \in DOMAIN ops[t], BeginOp(t, i) \/ CommitOp(t, i) \/ FailOp(t, i)
      PROVE  P
  <2> DEFINE x == ops[t][i]
  <2>0. x \in Operations /\ i \in 1..Len(ops[t]) /\ remade' = remade
    BY <1>0, <1>7 DEF BeginOp, CommitOp, FailOp, truth
  <2>1. ASSUME NEW o, o = [x EXCEPT !.begun = TRUE],
               ops' = [ops EXCEPT ![t] = [ops[t] EXCEPT ![i] = o]], x.outcome = "open"
        PROVE  P
    <3>1. o \in Operations /\ o.begun /\ o.outcome = x.outcome
      BY <2>0, <2>1 DEF Operations
    <3> QED  BY <1>5, <2>0, <2>1, <3>1 DEF OpTold
  <2>2. ASSUME NEW o, NEW outcome \in {"not_started", "success", "unknown"},
               o = [x EXCEPT !.outcome = outcome],
               ops' = [ops EXCEPT ![t] = [ops[t] EXCEPT ![i] = o]],
               outcome = "not_started" => ~x.begun, outcome = "success" => i \in remade[t]
        PROVE  P
    <3>1. o \in Operations /\ o.begun = x.begun /\ o.outcome = outcome
      BY <2>0, <2>2 DEF Operations
    <3> QED  BY <1>5, <2>0, <2>2, <3>1 DEF OpTold
  <2>3. CASE BeginOp(t, i)
    BY <2>1, <2>2, <2>3 DEF BeginOp
  <2>4. CASE CommitOp(t, i)
    BY <2>2, <2>4 DEF CommitOp
  <2>5. CASE FailOp(t, i)
    BY <2>2, <2>5 DEF FailOp
  <2> QED  BY <1>7, <2>3, <2>4, <2>5
<1>8. ASSUME NEW t \in Tasks, Interrupt(t)  PROVE  P
  <2> DEFINE closed(o) == IF o.outcome = "open" THEN [o EXCEPT !.outcome = "unknown"] ELSE o
             s == [i \in 1..Len(ops[t]) |-> closed(ops[t][i])]
  <2>1. ops' = [ops EXCEPT ![t] = s] /\ remade' = remade
    BY <1>0, <1>8 DEF Interrupt, truth
  <2>2. ASSUME NEW i \in 1..Len(ops[t])
        PROVE  /\ closed(ops[t][i]) \in Operations
               /\ OpTold(closed(ops[t][i]), i \in remade[t])
    <3>1. ops[t][i] \in Operations /\ OpTold(ops[t][i], i \in remade[t])
      BY <1>0, <1>1
    <3>2. PICK o : o = [ops[t][i] EXCEPT !.outcome = "unknown"]
      OBVIOUS
    <3>3. o \in Operations /\ o.begun = ops[t][i].begun /\ o.outcome = "unknown"
      BY <3>1, <3>2 DEF Operations
    <3> QED  BY <3>1, <3>2, <3>3 DEF OpTold
  <2>3. s \in Seq(Operations) /\ Len(s) = Len(ops[t])
    BY <1>0, <2>2
  <2>4. /\ ops' \in [Tasks -> Seq(Operations)] /\ ops'[t] = s
        /\ \A u \in Tasks : u # t => ops'[u] = ops[u]
    BY <1>0, <2>1, <2>3
  <2>5. \A i \in 1..Len(ops[t]) : ops'[t][i] = closed(ops[t][i])
    BY <2>4
  <2> HIDE DEF closed, s
  <2>6. ASSUME NEW u \in Tasks, NEW j \in 1..Len(ops'[u])
        PROVE  OpTold(ops'[u][j], j \in remade'[u])
    BY <1>1, <2>1, <2>2, <2>3, <2>4, <2>5
  <2>7. \A u \in Tasks : remade'[u] \subseteq 1..Len(ops'[u])
    BY <1>1, <2>1, <2>3, <2>4
  <2>8. OpsTypes
    BY <1>0, <2>1, <2>4 DEF OpsTypes
  <2> QED  BY <1>2, <2>6, <2>7, <2>8
<1>9. ASSUME NEW t \in Tasks, NEW kind \in Kinds, NEW origin \in {"trainee", "maintenance"},
             RequestOp(t, kind, origin)
      PROVE  P
  <2>1. PICK o : o = [kind |-> kind, origin |-> origin, begun |-> FALSE, outcome |-> "open"]
    OBVIOUS
  <2>2. o \in Operations /\ o.outcome = "open"
    BY <2>1 DEF Operations
  <2>3. ops' = [ops EXCEPT ![t] = Append(@, o)] /\ remade' = remade
    BY <1>9, <2>1 DEF RequestOp, truth
  <2> QED  BY <1>4, <2>2, <2>3
<1>10. ASSUME NEW t \in Tasks, UnregisteredOp(t)  PROVE  P
  <2>1. PICK busy \in BOOLEAN : busy = (\E j \in DOMAIN ops[t] : ops[t][j].outcome = "open")
    OBVIOUS
  <2>2. PICK o : o = [kind |-> "reset", origin |-> "unknown", begun |-> ~busy,
                      outcome |-> IF busy THEN "not_started" ELSE "open"]
    OBVIOUS
  <2>3. /\ o \in Operations /\ o.outcome # "success"
        /\ o.outcome = "not_started" => ~o.begun
    BY <2>2 DEF Operations
  <2>4. ops' = [ops EXCEPT ![t] = Append(@, o)] /\ remade' = remade
    BY <1>10, <2>1, <2>2 DEF UnregisteredOp, truth
  <2> QED  BY <1>4, <2>3, <2>4
<1> HIDE DEF P
<1>11. P
  BY <1>3, <1>6, <1>7, <1>8, <1>9, <1>10, WhoOperates DEF OpsActions
<1> QED  BY <1>11 DEF P

\* A write, and the count of those the ledger cannot vouch for.
Write ==
  \/ Service /\ UNCHANGED faults
  \/ Fault /\ faults' = faults + 1

AnswerActions ==
  \/ UNCHANGED <<subs, verdict>>
  \/ \E t \in Tasks :
       \/ OutsideUpdate(t) /\ faults' = faults + 1
       \/ SubmitAnswer(t)
       \/ \E d \in Decisions, versioned \in BOOLEAN : ReviewAnswer(t, d, versioned)

LEMMA WhoAnswers ==
  ASSUME Write  PROVE  AnswerActions
<1>0. TRUE \in BOOLEAN /\ FALSE \in BOOLEAN
  OBVIOUS
<1>1. ASSUME NEW t \in Tasks, NEW n, CreateAttempt(t, n)  PROVE  UNCHANGED <<subs, verdict>>
  BY <1>1 DEF CreateAttempt, truth
<1>2. ASSUME NEW t \in Tasks, NEW r, OutsideRun(t, r)  PROVE  UNCHANGED <<subs, verdict>>
  BY <1>2 DEF OutsideRun, ledger, truth
<1>3. CASE ChangeCatalogue
  BY <1>3 DEF ChangeCatalogue, ledger, truth, AnswerActions
<1>4. ASSUME NEW t \in Tasks, RequestCheck(t) \/ LegacyDelivery(t)
      PROVE  UNCHANGED <<subs, verdict>>
  BY <1>4 DEF RequestCheck, LegacyDelivery
<1>5. ASSUME NEW t \in Tasks, NEW i,
             \/ BeginCheck(t, i) \/ NotStarted(t, i) \/ FinishCheck(t, i) \/ LoseOutcome(t, i)
      PROVE  UNCHANGED <<subs, verdict>>
  BY <1>5 DEF BeginCheck, NotStarted, FinishCheck, LoseOutcome, truth
<1>6. ASSUME NEW t \in Tasks, NEW i, RunChecker(t, i) \/ Remake(t, i)
      PROVE  UNCHANGED <<subs, verdict>>
  BY <1>6 DEF RunChecker, Remake, ledger
<1>7. ASSUME NEW t \in Tasks, NEW body, SaveDraft(t, body)  PROVE  UNCHANGED <<subs, verdict>>
  BY <1>7 DEF SaveDraft, ledger, truth
<1>8. ASSUME NEW t \in Tasks, NEW kind, NEW origin, RequestOp(t, kind, origin)
      PROVE  UNCHANGED <<subs, verdict>>
  BY <1>8 DEF RequestOp, truth
<1>9. ASSUME NEW t \in Tasks, UnregisteredOp(t) \/ Interrupt(t)
      PROVE  UNCHANGED <<subs, verdict>>
  BY <1>9 DEF UnregisteredOp, Interrupt, truth
<1>10. ASSUME NEW t \in Tasks, NEW i, BeginOp(t, i) \/ CommitOp(t, i) \/ FailOp(t, i)
       PROVE  UNCHANGED <<subs, verdict>>
  BY <1>10 DEF BeginOp, CommitOp, FailOp, truth
<1>11. ASSUME NEW t \in Tasks, NEW d, ReviewWithoutSubmission(t, d)
       PROVE  UNCHANGED <<subs, verdict>>
  BY <1>11 DEF ReviewWithoutSubmission, truth
<1>12. CASE Service
  BY <1>0, <1>1, <1>3, <1>4, <1>5, <1>6, <1>7, <1>8, <1>10, <1>12 DEF Service, AnswerActions
<1>13. CASE Fault /\ faults' = faults + 1
  BY <1>0, <1>1, <1>2, <1>4, <1>5, <1>9, <1>10, <1>11, <1>13 DEF Fault, AnswerActions
<1> QED  BY <1>12, <1>13 DEF Write

AnswerTypes ==
  subs' \in [Tasks -> Seq(Submissions)] /\ verdict' \in [Tasks -> Seq(Decisions)]

\* The decisions on some submissions, entry by entry.
LEMMA SameDecisions ==
  ASSUME NEW s \in Seq(Submissions), NEW v \in Seq(Decisions), Len(v) = Len(s),
         \A i \in 1..Len(s) : v[i] = LastDecision(s[i].reviews)
  PROVE  v = DecisionsOf(s, Len(s))
<1>1. DOMAIN v = 1..Len(s) /\ v = [i \in DOMAIN v |-> v[i]]
  OBVIOUS
<1> QED  BY <1>1 DEF DecisionsOf

LEMMA DecisionsAre ==
  ASSUME NEW s \in Seq(Submissions), NEW v \in Seq(Decisions), v = DecisionsOf(s, Len(s))
  PROVE  \A i \in 1..Len(s) : v[i] = LastDecision(s[i].reviews)
BY DEF DecisionsOf

LEMMA LastOfAppended ==
  ASSUME NEW s \in Seq(Decisions), NEW d \in Decisions
  PROVE  /\ Append(s, d) \in Seq(Decisions)
         /\ LastDecision(Append(s, d)) = d
<1>1. /\ Append(s, d) \in Seq(Decisions) /\ Append(s, d) # <<>>
      /\ Append(s, d)[Len(Append(s, d))] = d
  BY AppendProperties
<1> QED  BY <1>1 DEF LastDecision

\* A submission, and a review of the last one, in the ledger and in truth.
LEMMA SubmitEffect ==
  ASSUME TypeInv, NEW t \in Tasks, SubmitAnswer(t)
  PROVE  /\ subs' \in [Tasks -> Seq(Submissions)]
         /\ verdict' \in [Tasks -> Seq(Decisions)]
         /\ Len(subs'[t]) = Len(subs[t]) + 1
         /\ Len(verdict'[t]) = Len(verdict[t]) + 1
         /\ \A j \in 1..Len(subs[t]) : subs'[t][j] = subs[t][j]
         /\ \A j \in 1..Len(verdict[t]) : verdict'[t][j] = verdict[t][j]
         /\ LastDecision(subs'[t][Len(subs[t]) + 1].reviews) = "not_reviewed"
         /\ subs'[t][Len(subs[t]) + 1].body = row[t].body
         /\ verdict'[t][Len(verdict[t]) + 1] = "not_reviewed"
<1>0. subs \in [Tasks -> Seq(Submissions)] /\ verdict \in [Tasks -> Seq(Decisions)]
  BY DEF TypeInv
<1>1. PICK x : x = [body |-> row[t].body, reviews |-> <<>>]
  OBVIOUS
<1>2. x \in Submissions /\ LastDecision(x.reviews) = "not_reviewed" /\ x.body = row[t].body
  <2>1. row[t].body \in Nat /\ <<>> \in Seq(Decisions)
    BY DEF TypeInv, Rows
  <2> QED  BY <1>1, <2>1 DEF Submissions, LastDecision
<1>3. "not_reviewed" \in Decisions
  BY DEF Decisions
<1>4. /\ subs' = [subs EXCEPT ![t] = Append(@, x)]
      /\ verdict' = [verdict EXCEPT ![t] = Append(@, "not_reviewed")]
  BY <1>1 DEF SubmitAnswer
<1>5. /\ subs' \in [Tasks -> Seq(Submissions)]
      /\ Len(subs'[t]) = Len(subs[t]) + 1
      /\ \A j \in 1..Len(subs[t]) : subs'[t][j] = subs[t][j]
      /\ subs'[t][Len(subs[t]) + 1] = x
  BY <1>0, <1>2, <1>4, Appended
<1>6. /\ verdict' \in [Tasks -> Seq(Decisions)]
      /\ Len(verdict'[t]) = Len(verdict[t]) + 1
      /\ \A j \in 1..Len(verdict[t]) : verdict'[t][j] = verdict[t][j]
      /\ verdict'[t][Len(verdict[t]) + 1] = "not_reviewed"
  BY <1>0, <1>3, <1>4, Appended
<1> QED  BY <1>2, <1>5, <1>6

LEMMA ReviewEffect ==
  ASSUME TypeInv, AnswersRecorded, NEW t \in Tasks, NEW d \in Decisions, NEW versioned \in BOOLEAN,
         ReviewAnswer(t, d, versioned)
  PROVE  /\ subs' \in [Tasks -> Seq(Submissions)]
         /\ verdict' \in [Tasks -> Seq(Decisions)]
         /\ Len(subs[t]) \in Nat \ {0}
         /\ Len(subs'[t]) = Len(subs[t])
         /\ Len(verdict'[t]) = Len(verdict[t])
         /\ \A j \in 1..Len(subs[t]) : subs'[t][j].body = subs[t][j].body
         /\ \A j \in 1..Len(subs[t]) : j # Len(subs[t]) =>
              subs'[t][j] = subs[t][j] /\ verdict'[t][j] = verdict[t][j]
         /\ LastDecision(subs'[t][Len(subs[t])].reviews) = d
         /\ verdict'[t][Len(subs[t])] = d
<1> DEFINE n == Len(subs[t])
           old == subs[t][n].reviews
<1>0. subs \in [Tasks -> Seq(Submissions)] /\ verdict \in [Tasks -> Seq(Decisions)]
  BY DEF TypeInv
<1>1. n \in Nat \ {0} /\ n \in 1..Len(subs[t])
  <2>1. subs[t] # <<>> /\ subs[t] \in Seq(Submissions)
    BY <1>0 DEF ReviewAnswer
  <2>2. Len(subs[t]) \in Nat \ {0}
    BY <2>1, EmptySeq
  <2> QED  BY <2>2
<1>2. subs[t][n] \in Submissions /\ old \in Seq(Decisions)
  <2>1. \A x \in Submissions : x.reviews \in Seq(Decisions)
    BY DEF Submissions
  <2>2. subs[t] \in Seq(Submissions)
    BY <1>0
  <2>3. subs[t][n] \in Submissions
    BY <1>1, <2>2, ElementOfSeq
  <2> QED  BY <2>1, <2>3
<1>3. /\ verdict' \in [Tasks -> Seq(Decisions)]
      /\ Len(verdict'[t]) = Len(verdict[t])
      /\ \A j \in 1..Len(verdict[t]) : verdict'[t][j] = IF j = n THEN d ELSE verdict[t][j]
  <2>1. verdict' = [verdict EXCEPT ![t] = [verdict[t] EXCEPT ![n] = d]]
    BY DEF ReviewAnswer
  <2>2. n \in 1..Len(verdict[t])
    BY <1>1 DEF AnswersRecorded
  <2> QED  BY <1>0, <2>1, <2>2, Updated
<1>4. Len(verdict[t]) = n
  BY DEF AnswersRecorded
<1>5. CASE old # <<>> /\ old[Len(old)] = d
  <2>1. subs' = subs
    BY <1>5 DEF ReviewAnswer
  <2>2. LastDecision(old) = d
    BY <1>5 DEF LastDecision
  <2> QED  BY <1>0, <1>1, <1>3, <1>4, <2>1, <2>2
<1>6. CASE ~(old # <<>> /\ old[Len(old)] = d)
  <2>1. PICK x : x = [subs[t][n] EXCEPT !.reviews = Append(old, d)]
    OBVIOUS
  <2>2. /\ x \in Submissions /\ LastDecision(x.reviews) = d /\ x.body = subs[t][n].body
    <3>1. Append(old, d) \in Seq(Decisions) /\ LastDecision(Append(old, d)) = d
      BY <1>2, LastOfAppended
    <3> HIDE DEF old
    <3> QED  BY <1>2, <2>1, <3>1 DEF Submissions
  <2>3. subs' = [subs EXCEPT ![t] = [subs[t] EXCEPT ![n] = x]]
    BY <1>6, <2>1 DEF ReviewAnswer
  <2>4. /\ subs' \in [Tasks -> Seq(Submissions)]
        /\ Len(subs'[t]) = Len(subs[t])
        /\ \A j \in 1..Len(subs[t]) : subs'[t][j] = IF j = n THEN x ELSE subs[t][j]
    BY <1>0, <1>1, <2>2, <2>3, Updated
  <2> QED  BY <1>1, <1>3, <1>4, <2>2, <2>4
<1> QED  BY <1>5, <1>6

LEMMA AnswersStep ==
  ASSUME TypeInv, NothingBefore, ChecksRecorded, AnswersRecorded, Write
  PROVE  AnswerTypes /\ AnswersRecorded'
<1> DEFINE Trusted(u) == \/ coverage[u].origin = "creation" /\ "unsupported_update" \notin gaps[u]
                         \/ faults = 0
           Agrees(u) == Trusted(u) => verdict[u] = DecisionsOf(subs[u], Len(subs[u]))
<1>0. /\ subs \in [Tasks -> Seq(Submissions)] /\ verdict \in [Tasks -> Seq(Decisions)]
      /\ faults \in Nat
      /\ \A u \in Tasks : Len(subs[u]) \in Nat
  BY DEF TypeInv
<1>1. Service \/ Fault
  BY DEF Write
\* What is trusted after the step was trusted before, or has just begun.
<1>2. ASSUME NEW u \in Tasks, Trusted(u)'
      PROVE  Trusted(u) \/ ~row[u].exists
  <2>1. CASE ChangeCatalogue
    BY <1>0, <1>2, <2>1 DEF ChangeCatalogue, ledger, Write
  <2>2. ASSUME NEW t \in Tasks, WriteOn(t)  PROVE  Trusted(u) \/ ~row[u].exists
    <3>1. faults' = 0 => faults = 0
      BY <1>0 DEF Write
    <3>2. CASE u # t
      BY <1>2, <2>2, <3>1, <3>2 DEF WriteOn, Untouched
    <3>3. CASE u = t /\ row[u].exists
      BY <1>2, <2>2, <3>1, <3>3 DEF WriteOn, Grown
    <3> QED  BY <3>2, <3>3
  <2> QED  BY <1>1, <2>1, <2>2, Written
<1>3. ASSUME NEW u \in Tasks, subs'[u] = subs[u], verdict'[u] = verdict[u]
      PROVE  Len(verdict'[u]) = Len(subs'[u]) /\ Agrees(u)'
  <2>1. Len(verdict[u]) = Len(subs[u]) /\ Agrees(u)
    BY DEF AnswersRecorded
  <2>2. CASE ~row[u].exists
    <3>1. subs[u] = <<>> /\ verdict[u] = <<>>
      BY <2>2 DEF NothingBefore
    <3>2. <<>> = DecisionsOf(<<>>, Len(<<>>))
      <4>1. <<>> \in Seq(Submissions) /\ <<>> \in Seq(Decisions) /\ Len(<<>>) = 0
        BY EmptySeq
      <4>2. \A i \in 1..Len(<<>>) : <<>>[i] = LastDecision(<<>>[i].reviews)
        BY <4>1
      <4> QED  BY <4>1, <4>2, SameDecisions
    <3> QED  BY <1>3, <2>1, <3>1, <3>2
  <2>3. CASE row[u].exists
    BY <1>2, <1>3, <2>1, <2>3
  <2> QED  BY <2>2, <2>3
<1>4. ASSUME AnswerTypes,
             \A u \in Tasks : Len(verdict'[u]) = Len(subs'[u]) /\ Agrees(u)'
      PROVE  AnswerTypes /\ AnswersRecorded'
  BY <1>4 DEF AnswersRecorded
<1>5. ASSUME UNCHANGED <<subs, verdict>>  PROVE  AnswerTypes /\ AnswersRecorded'
  BY <1>0, <1>3, <1>4, <1>5 DEF AnswerTypes
<1>6. ASSUME NEW t \in Tasks, OutsideUpdate(t), faults' = faults + 1
      PROVE  AnswerTypes /\ AnswersRecorded'
  <2>1. subs' = subs /\ coverage' = coverage
    BY <1>6 DEF OutsideUpdate
  <2>2. /\ verdict' \in [Tasks -> Seq(Decisions)]
        /\ Len(verdict'[t]) = Len(verdict[t])
        /\ \A u \in Tasks : u # t => verdict'[u] = verdict[u]
    <3>1. CASE verdict' = verdict
      BY <1>0, <3>1
    <3>2. ASSUME NEW d \in Decisions, verdict[t] # <<>>,
                 verdict' = [verdict EXCEPT ![t][Len(verdict[t])] = d]
          PROVE  /\ verdict' \in [Tasks -> Seq(Decisions)]
                 /\ Len(verdict'[t]) = Len(verdict[t])
                 /\ \A u \in Tasks : u # t => verdict'[u] = verdict[u]
      <4>1. verdict[t] \in Seq(Decisions)
        BY <1>0
      <4>2. Len(verdict[t]) \in 1..Len(verdict[t])
        BY <3>2, <4>1, EmptySeq
      <4> QED  BY <1>0, <3>2, <4>2, Updated
    <3> QED  BY <1>6, <3>1, <3>2 DEF OutsideUpdate
  <2>3. ~Trusted(t)'
    <3>1. coverage[t].origin # "none" => "unsupported_update" \in gaps'[t]
      BY <1>6, OutsideUpdateWrites
    <3>2. faults' # 0
      BY <1>0, <1>6
    <3> QED  BY <2>1, <3>1, <3>2
  <2>4. ASSUME NEW u \in Tasks  PROVE  Len(verdict'[u]) = Len(subs'[u]) /\ Agrees(u)'
    <3>1. CASE u = t
      BY <2>1, <2>2, <2>3, <3>1 DEF AnswersRecorded
    <3>2. CASE u # t
      BY <1>3, <2>1, <2>2, <3>2
    <3> QED  BY <3>1, <3>2
  <2> QED  BY <1>0, <1>4, <2>1, <2>2, <2>4 DEF AnswerTypes
<1>7. ASSUME NEW t \in Tasks, SubmitAnswer(t)  PROVE  AnswerTypes /\ AnswersRecorded'
  <2>1. /\ subs' \in [Tasks -> Seq(Submissions)]
        /\ verdict' \in [Tasks -> Seq(Decisions)]
        /\ Len(subs'[t]) = Len(subs[t]) + 1
        /\ Len(verdict'[t]) = Len(verdict[t]) + 1
        /\ \A j \in 1..Len(subs[t]) : subs'[t][j] = subs[t][j]
        /\ \A j \in 1..Len(verdict[t]) : verdict'[t][j] = verdict[t][j]
        /\ LastDecision(subs'[t][Len(subs[t]) + 1].reviews) = "not_reviewed"
        /\ verdict'[t][Len(verdict[t]) + 1] = "not_reviewed"
    BY <1>7, SubmitEffect
  <2>2. \A u \in Tasks : u # t => subs'[u] = subs[u] /\ verdict'[u] = verdict[u]
    BY <1>0, <1>7 DEF SubmitAnswer
  <2>3. Len(verdict[t]) = Len(subs[t]) /\ Agrees(t)
    BY DEF AnswersRecorded
  <2>4. Agrees(t)'
    <3> SUFFICES ASSUME Trusted(t)'
                 PROVE  verdict'[t] = DecisionsOf(subs'[t], Len(subs'[t]))
      OBVIOUS
    <3>1. row[t].exists
      BY <1>7, There DEF SubmitAnswer
    <3>2. verdict[t] = DecisionsOf(subs[t], Len(subs[t]))
      BY <1>2, <2>3, <3>1
    <3>3. \A i \in 1..Len(subs[t]) : verdict[t][i] = LastDecision(subs[t][i].reviews)
      BY <1>0, <3>2, DecisionsAre
    <3>4. ASSUME NEW i \in 1..Len(subs'[t])
          PROVE  verdict'[t][i] = LastDecision(subs'[t][i].reviews)
      <4>1. i \in 1..Len(subs[t]) \/ i = Len(subs[t]) + 1
        BY <1>0, <2>1
      <4> QED  BY <2>1, <2>3, <3>3, <4>1
    <3>5. subs'[t] \in Seq(Submissions) /\ verdict'[t] \in Seq(Decisions)
      BY <2>1
    <3>6. Len(verdict'[t]) = Len(subs'[t])
      BY <2>1, <2>3
    <3> HIDE DEF Trusted, Agrees
    <3> QED  BY <3>4, <3>5, <3>6, SameDecisions
  <2>5. ASSUME NEW u \in Tasks  PROVE  Len(verdict'[u]) = Len(subs'[u]) /\ Agrees(u)'
    <3>1. CASE u = t
      BY <2>1, <2>3, <2>4, <3>1
    <3>2. CASE u # t
      BY <1>3, <2>2, <3>2
    <3> QED  BY <3>1, <3>2
  <2> QED  BY <1>4, <2>1, <2>5 DEF AnswerTypes
<1>8. ASSUME NEW t \in Tasks, NEW d \in Decisions, NEW versioned \in BOOLEAN,
             ReviewAnswer(t, d, versioned)
      PROVE  AnswerTypes /\ AnswersRecorded'
  <2>1. /\ subs' \in [Tasks -> Seq(Submissions)]
        /\ verdict' \in [Tasks -> Seq(Decisions)]
        /\ Len(subs'[t]) = Len(subs[t])
        /\ Len(verdict'[t]) = Len(verdict[t])
        /\ \A j \in 1..Len(subs[t]) : j # Len(subs[t]) =>
             subs'[t][j] = subs[t][j] /\ verdict'[t][j] = verdict[t][j]
        /\ LastDecision(subs'[t][Len(subs[t])].reviews) = d
        /\ verdict'[t][Len(subs[t])] = d
    BY <1>8, ReviewEffect
  <2>2. \A u \in Tasks : u # t => subs'[u] = subs[u] /\ verdict'[u] = verdict[u]
    BY <1>0, <1>8 DEF ReviewAnswer
  <2>3. Len(verdict[t]) = Len(subs[t]) /\ Agrees(t)
    BY DEF AnswersRecorded
  <2>4. Agrees(t)'
    <3> SUFFICES ASSUME Trusted(t)'
                 PROVE  verdict'[t] = DecisionsOf(subs'[t], Len(subs'[t]))
      OBVIOUS
    <3>1. row[t].exists
      BY <1>8 DEF ReviewAnswer
    <3>2. verdict[t] = DecisionsOf(subs[t], Len(subs[t]))
      BY <1>2, <2>3, <3>1
    <3>3. \A i \in 1..Len(subs[t]) : verdict[t][i] = LastDecision(subs[t][i].reviews)
      BY <1>0, <3>2, DecisionsAre
    <3>4. \A i \in 1..Len(subs'[t]) : verdict'[t][i] = LastDecision(subs'[t][i].reviews)
      BY <2>1, <3>3
    <3>5. subs'[t] \in Seq(Submissions) /\ verdict'[t] \in Seq(Decisions)
      BY <2>1
    <3>6. Len(verdict'[t]) = Len(subs'[t])
      BY <2>1, <2>3
    <3> HIDE DEF Trusted, Agrees
    <3> QED  BY <3>4, <3>5, <3>6, SameDecisions
  <2>5. ASSUME NEW u \in Tasks  PROVE  Len(verdict'[u]) = Len(subs'[u]) /\ Agrees(u)'
    <3>1. CASE u = t
      BY <2>1, <2>3, <2>4, <3>1
    <3>2. CASE u # t
      BY <1>3, <2>2, <3>2
    <3> QED  BY <3>1, <3>2
  <2> QED  BY <1>4, <2>1, <2>5 DEF AnswerTypes
<1> HIDE DEF Trusted, Agrees
<1> QED  BY <1>5, <1>6, <1>7, <1>8, WhoAnswers DEF AnswerActions

LEMMA WrittenTypes ==
  ASSUME TypeInv, NothingBefore, ChecksRecorded, OpsRecorded, AnswersRecorded, Write
  PROVE  TypeInv'
<1>1. Service \/ Fault
  BY DEF Write
<1>2. /\ execs' \in [Tasks -> Seq(Executions)]
      /\ ran' \in [Tasks -> Seq(Results \cup {"no"})]
  BY <1>1, ChecksStep DEF CheckTypes
<1>3. ops' \in [Tasks -> Seq(Operations)] /\ remade' \in [Tasks -> SUBSET Nat]
  BY <1>1, OpsStep DEF OpsTypes
<1>4. subs' \in [Tasks -> Seq(Submissions)] /\ verdict' \in [Tasks -> Seq(Decisions)]
  BY AnswersStep DEF AnswerTypes
<1>5. faults' \in Nat
  BY DEF TypeInv, Write
<1>6. /\ active' \subseteq Tasks
      /\ criteria' \in Nat
      /\ manifest' \in Manifests
      /\ completion' \in [made: BOOLEAN, tasks: SUBSET Tasks]
      /\ AttemptTypes
  <2>1. CASE \E t \in Tasks : WriteOn(t)
    BY <2>1 DEF WriteOn, ProgramTypes
  <2>2. CASE ChangeCatalogue
    <3>1. active' \subseteq Tasks /\ criteria' \in Nat
      BY <2>2 DEF ChangeCatalogue, TypeInv
    <3>2. /\ manifest' = manifest /\ completion' = completion /\ row' = row /\ runs' = runs
          /\ coverage' = coverage /\ gaps' = gaps
      BY <2>2 DEF ChangeCatalogue, ledger
    <3> QED  BY <3>1, <3>2 DEF TypeInv, AttemptTypes
  <2> QED  BY <1>1, <2>1, <2>2, Written
<1> QED  BY <1>2, <1>3, <1>4, <1>5, <1>6 DEF TypeInv, AttemptTypes

LEMMA NothingStep ==
  ASSUME TypeInv, NothingBefore, ChecksRecorded, Service \/ Fault
  PROVE  NothingBefore'
<1>1. CASE ChangeCatalogue
  <2>1. /\ row' = row /\ runs' = runs /\ coverage' = coverage /\ gaps' = gaps /\ execs' = execs
        /\ ops' = ops /\ subs' = subs /\ verdict' = verdict
    BY <1>1 DEF ChangeCatalogue, ledger, truth
  <2> QED  BY <2>1 DEF NothingBefore
<1>2. ASSUME NEW t \in Tasks, WriteOn(t)  PROVE  NothingBefore'
  BY <1>2 DEF WriteOn, Grown, Untouched, NothingBefore
<1> QED  BY <1>1, <1>2, Written

LEMMA PastStep ==
  ASSUME TypeInv, NothingBefore, ChecksRecorded, PastKept, Service \/ Fault
  PROVE  PastKept'
<1>1. CASE ChangeCatalogue
  <2>1. row' = row /\ coverage' = coverage /\ manifest' = manifest
    BY <1>1 DEF ChangeCatalogue, ledger
  <2> QED  BY <2>1 DEF PastKept
<1>2. ASSUME NEW t \in Tasks, WriteOn(t)  PROVE  PastKept'
  <2>1. ASSUME NEW u \in Legacy
        PROVE  u \in Tasks /\ row'[u].exists /\ coverage'[u].origin # "creation"
    BY <1>2, <2>1 DEF PastKept, WriteOn, Grown, Untouched
  <2>2. Legacy # {} => manifest'.source # "from_start"
    <3> SUFFICES ASSUME NEW u \in Legacy  PROVE  manifest'.source # "from_start"
      OBVIOUS
    <3>1. u \in Tasks /\ row[u].exists /\ manifest.source # "from_start"
      BY DEF PastKept
    <3>2. EnsuredManifest.source # "from_start"
      <4>1. CASE manifest.source # "none"
        BY <3>1, <4>1 DEF EnsuredManifest
      <4>2. CASE manifest.source = "none" /\ completion.made
        BY <4>2 DEF EnsuredManifest
      <4>3. CASE manifest.source = "none" /\ ~completion.made
        BY <3>1, <4>3 DEF EnsuredManifest
      <4> QED  BY <4>1, <4>2, <4>3 DEF TypeInv
    <3>3. manifest' \in {manifest, EnsuredManifest}
      BY <1>2 DEF WriteOn, ProgramTypes
    <3> QED  BY <3>1, <3>2, <3>3
  <2> QED  BY <2>1, <2>2 DEF PastKept
<1> QED  BY <1>1, <1>2, Written

-----------------------------------------------------------------------------
(* While nothing is lost or by-passed, the row follows the ledger.         *)

LEMMA SameChecks ==
  ASSUME NEW t \in Tasks, QuietChecks(t), execs'[t] = execs[t], runs'[t] = runs[t],
         coverage'[t] = coverage[t], row'[t].count = row[t].count,
         row'[t].passed = row[t].passed
  PROVE  QuietChecks(t)'
BY DEF QuietChecks, RunsRecorded

LEMMA SameOps ==
  ASSUME NEW t \in Tasks, QuietOps(t), ops'[t] = ops[t], coverage'[t] = coverage[t],
         row'[t].restarts = row[t].restarts
  PROVE  QuietOps(t)'
BY DEF QuietOps

LEMMA SameAnswers ==
  ASSUME NEW t \in Tasks, QuietAnswers(t), subs'[t] = subs[t],
         row'[t].decision = row[t].decision,
         \/ row'[t].status = row[t].status /\ row'[t].body = row[t].body
         \/ row'[t].status \notin {"on_review", "passed"}
  PROVE  QuietAnswers(t)'
BY DEF QuietAnswers

\* The executions of t when e takes the place of the i-th.
LEMMA OneEnd ==
  ASSUME TypeInv, NEW t \in Tasks, NEW i \in DOMAIN execs[t], NEW e \in Executions,
         execs' = [execs EXCEPT ![t] = [execs[t] EXCEPT ![i] = e]],
         e.source = execs[t][i].source
  PROVE  /\ Len(execs'[t]) = Len(execs[t]) /\ Len(execs[t]) \in Nat /\ i \in 1..Len(execs[t])
         /\ \A j \in 1..Len(execs[t]) : execs'[t][j] = IF j = i THEN e ELSE execs[t][j]
         /\ \A j \in 1..Len(execs[t]) : execs'[t][j].source = execs[t][j].source
<1>1. execs \in [Tasks -> Seq(Executions)] /\ i \in 1..Len(execs[t])
  BY Listed DEF TypeInv
<1>2. /\ Len(execs'[t]) = Len(execs[t])
      /\ \A j \in 1..Len(execs[t]) : execs'[t][j] = IF j = i THEN e ELSE execs[t][j]
  BY <1>1, Updated
<1> QED  BY <1>1, <1>2, Listed

\* An execution that was open is closed without a run.
LEMMA QuietClosed ==
  ASSUME TypeInv, NEW t \in Tasks, NEW i \in DOMAIN execs[t], NEW e \in Executions,
         QuietChecks(t), execs' = [execs EXCEPT ![t] = [execs[t] EXCEPT ![i] = e]],
         e.source = execs[t][i].source,
         \/ e.end = execs[t][i].end
         \/ execs[t][i].end = Pending /\ ~e.end.run /\ e.end.result # "passed",
         runs'[t] = runs[t], coverage'[t] = coverage[t],
         row'[t].count = row[t].count, row'[t].passed = row[t].passed
  PROVE  QuietChecks(t)'
<1>1. /\ Len(execs'[t]) = Len(execs[t]) /\ Len(execs[t]) \in Nat /\ i \in 1..Len(execs[t])
      /\ \A j \in 1..Len(execs[t]) : execs'[t][j] = IF j = i THEN e ELSE execs[t][j]
      /\ \A j \in 1..Len(execs[t]) : execs'[t][j].source = execs[t][j].source
  BY OneEnd
<1>2. Pending.result # "passed" /\ ~Pending.run
  BY DEF Pending
<1>3. \A j \in 1..Len(execs[t]) :
        /\ execs'[t][j].end.run = execs[t][j].end.run \/ (~execs'[t][j].end.run /\ ~execs[t][j].end.run)
        /\ execs[t][j].end.run => execs'[t][j].end = execs[t][j].end
        /\ execs[t][j].end.result = "passed" => execs'[t][j].end.result = "passed"
  BY <1>1, <1>2
<1>4. RunsRecorded(t)'
  <2>1. RunsRecorded(t)
    BY DEF QuietChecks
  <2> QED  BY <1>1, <1>3, <2>1 DEF RunsRecorded
<1>5. \A j \in 1..Len(execs'[t]) : execs'[t][j].source = "service"
  BY <1>1 DEF QuietChecks
<1>6. row'[t].passed => \E j \in 1..Len(execs'[t]) : execs'[t][j].end.result = "passed"
  BY <1>1, <1>3 DEF QuietChecks
<1>7. row'[t].count = Len(execs'[t]) + coverage'[t].checks
  BY <1>1 DEF QuietChecks
<1> QED  BY <1>4, <1>5, <1>6, <1>7 DEF QuietChecks

LEMMA QuietCreate ==
  ASSUME TypeInv, NothingBefore, NEW t \in Tasks, CreateAttempt(t, 0)
  PROVE  QuietAttempt(t)'
<1>1. /\ gaps[t] = {} /\ runs[t] = {} /\ execs[t] = <<>> /\ ops[t] = <<>> /\ subs[t] = <<>>
  BY DEF CreateAttempt, NothingBefore
<1>2. /\ gaps' = gaps /\ runs' = runs /\ execs' = execs /\ ops' = ops /\ subs' = subs
  BY DEF CreateAttempt
<1>3. Len(<<>>) = 0
  BY EmptySeq
<1>4. row'[t].count = 0 /\ row'[t].restarts = 0 /\ ~row'[t].passed
  BY DEF CreateAttempt, TypeInv, NoRow
<1>5. coverage'[t].checks = 0 /\ coverage'[t].resets = 0
  BY DEF CreateAttempt, TypeInv
<1>6. SuccessfulOps(<<>>) = {}
  <2>1. DOMAIN <<>> = 1..0
    BY <1>3
  <2> QED  BY <2>1 DEF SuccessfulOps
<1>7. Cardinality({}) = 0
  BY FS_EmptySet
<1>8. QuietChecks(t)'
  BY <1>1, <1>2, <1>3, <1>4, <1>5 DEF QuietChecks, RunsRecorded
<1>9. QuietOps(t)'
  <2>1. PICK s : s = ops'[t] /\ s = <<>>
    BY <1>1, <1>2
  <2>2. Len(s) = 0 /\ SuccessfulOps(s) = {}
    BY <1>3, <1>6, <2>1, Zenon
  <2>3. Cardinality(SuccessfulOps(s)) = 0
    BY <1>7, <2>2, Zenon
  <2> QED  BY <1>4, <1>5, <2>1, <2>2, <2>3 DEF QuietOps
<1>10. QuietAnswers(t)'
  BY <1>1, <1>2 DEF QuietAnswers
<1> QED  BY <1>1, <1>2, <1>8, <1>9, <1>10 DEF QuietAttempt

LEMMA QuietRequestCheck ==
  ASSUME TypeInv, NEW t \in Tasks, RequestCheck(t), QuietAttempt(t), coverage[t].origin # "none"
  PROVE  QuietAttempt(t)'
<1>1. PICK e \in Executions : e = Execution("service")
  <2>1. Execution("service") \in Executions
    BY PendingEnds DEF TypeInv, Execution, Executions
  <2> QED  BY <2>1
<1>2. e.source = "service" /\ ~e.end.run /\ e.end.result # "passed"
  BY <1>1 DEF Execution, Pending
<1>3. execs' = [execs EXCEPT ![t] = Append(execs[t], e)]
  BY <1>1 DEF RequestCheck
<1>4. execs \in [Tasks -> Seq(Executions)] /\ Len(execs[t]) \in Nat
  BY Listed DEF TypeInv
<1>5. /\ Len(execs'[t]) = Len(execs[t]) + 1
      /\ \A j \in 1..Len(execs[t]) : execs'[t][j] = execs[t][j]
      /\ execs'[t][Len(execs[t]) + 1] = e
  BY <1>3, <1>4, Appended
<1>6. \A j \in 1..Len(execs'[t]) : j \in 1..Len(execs[t]) \/ execs'[t][j] = e
  BY <1>4, <1>5
<1>7. 1..Len(execs[t]) \subseteq 1..Len(execs'[t])
  BY <1>4, <1>5
<1>8. /\ row'[t].count = row[t].count + 1 /\ row'[t].passed = row[t].passed
      /\ row'[t].restarts = row[t].restarts /\ row'[t].decision = row[t].decision
      /\ row'[t].status = "in_progress"
  <2>0. row[t] \in Rows
    BY DEF TypeInv
  <2>1. PICK r : r = [row[t] EXCEPT !.count = row[t].count + 1, !.check = "running",
                                    !.status = "in_progress"]
    OBVIOUS
  <2>2. row'[t] = r
    BY <2>1 DEF RequestCheck, TypeInv
  <2> QED  BY <2>0, <2>1, <2>2 DEF Rows
<1>9. /\ coverage' = coverage /\ gaps' = gaps /\ runs' = runs /\ ops' = ops /\ subs' = subs
  BY DEF RequestCheck, Observed
<1>10. RunsRecorded(t)'
  <2>1. RunsRecorded(t)
    BY DEF QuietAttempt, QuietChecks
  <2>2. \A r \in runs'[t] : /\ r.pk \in 1..Len(execs'[t])
                            /\ execs'[t][r.pk].end.run
                            /\ r.exit = execs'[t][r.pk].end.exit
                            /\ (r.result = "passed") = (execs'[t][r.pk].end.result = "passed")
    BY <1>5, <1>7, <1>9, <2>1 DEF RunsRecorded
  <2>3. \A i \in 1..Len(execs'[t]) : execs'[t][i].end.run => \E r \in runs'[t] : r.pk = i
    BY <1>2, <1>5, <1>6, <1>9, <2>1 DEF RunsRecorded
  <2> QED  BY <2>2, <2>3 DEF RunsRecorded
<1>11. QuietChecks(t)'
  <2>0. QuietChecks(t)
    BY DEF QuietAttempt
  <2>1. row'[t].count = Len(execs'[t]) + coverage'[t].checks
    <3>1. coverage[t].checks \in Nat /\ row[t].count \in Nat
      BY DEF TypeInv, Coverages, Rows
    <3> QED  BY <1>4, <1>5, <1>8, <1>9, <2>0, <3>1 DEF QuietChecks
  <2>2. \A j \in 1..Len(execs'[t]) : execs'[t][j].source = "service"
    BY <1>2, <1>5, <1>6, <2>0 DEF QuietChecks
  <2>3. row'[t].passed => \E j \in 1..Len(execs'[t]) : execs'[t][j].end.result = "passed"
    BY <1>5, <1>7, <1>8, <2>0 DEF QuietChecks
  <2> QED  BY <1>10, <2>1, <2>2, <2>3 DEF QuietChecks
<1>12. QuietOps(t)' /\ QuietAnswers(t)'
  BY <1>8, <1>9, SameOps, SameAnswers DEF QuietAttempt
<1> QED  BY <1>9, <1>11, <1>12 DEF QuietAttempt

LEMMA QuietExecution ==
  ASSUME TypeInv, ChecksRecorded, NEW t \in Tasks, NEW i \in DOMAIN execs[t], QuietAttempt(t),
         BeginCheck(t, i) \/ RunChecker(t, i) \/ NotStarted(t, i)
  PROVE  QuietAttempt(t)'
<1>0. /\ execs[t][i] \in Executions /\ row[t] \in Rows
  BY Listed DEF TypeInv
<1>1. CASE RunChecker(t, i)
  <2>1. /\ row' = row /\ runs' = runs /\ coverage' = coverage /\ gaps' = gaps /\ execs' = execs
        /\ ops' = ops /\ subs' = subs
    BY <1>1 DEF RunChecker, ledger
  <2> QED  BY <2>1, SameChecks, SameOps, SameAnswers DEF QuietAttempt
<1>2. CASE BeginCheck(t, i)
  <2>1. /\ row' = row /\ runs' = runs /\ coverage' = coverage /\ gaps' = gaps
        /\ ops' = ops /\ subs' = subs
    BY <1>2 DEF BeginCheck
  <2>2. PICK e : e = [execs[t][i] EXCEPT !.begun = TRUE]
    OBVIOUS
  <2>3. e \in Executions /\ e.source = execs[t][i].source /\ e.end = execs[t][i].end
    BY <1>0, <2>2 DEF Executions
  <2>4. execs' = [execs EXCEPT ![t] = [execs[t] EXCEPT ![i] = e]]
    BY <1>2, <2>2 DEF BeginCheck
  <2>5. QuietChecks(t)'
    BY <2>1, <2>3, <2>4, QuietClosed DEF QuietAttempt
  <2> QED  BY <2>1, <2>5, SameOps, SameAnswers DEF QuietAttempt
<1>3. CASE NotStarted(t, i)
  <2>1. /\ runs' = runs /\ coverage' = coverage /\ gaps' = gaps
        /\ ops' = ops /\ subs' = subs /\ execs[t][i].end = Pending
    BY <1>3 DEF NotStarted, Live
  <2>2. PICK e : e = [execs[t][i] EXCEPT !.end = NotRun]
    OBVIOUS
  <2>3. e \in Executions /\ e.source = execs[t][i].source /\ e.end = NotRun
    BY <1>0, <2>2, PendingEnds DEF Executions
  <2>4. execs' = [execs EXCEPT ![t] = [execs[t] EXCEPT ![i] = e]]
    BY <1>3, <2>2 DEF NotStarted, NotRun
  <2>5. ~NotRun.run /\ NotRun.result # "passed"
    BY DEF NotRun, Pending
  <2>6. /\ row'[t].count = row[t].count /\ row'[t].passed = row[t].passed
        /\ row'[t].restarts = row[t].restarts /\ row'[t].decision = row[t].decision
        /\ row'[t].status = "failed"
    <3>1. PICK r : r = [row[t] EXCEPT !.check = "error", !.status = "failed"]
      OBVIOUS
    <3>2. row'[t] = r
      BY <1>3, <3>1 DEF NotStarted, TypeInv
    <3> QED  BY <1>0, <3>1, <3>2 DEF Rows
  <2>7. QuietChecks(t)'
    BY <2>1, <2>3, <2>4, <2>5, <2>6, QuietClosed DEF QuietAttempt
  <2> QED  BY <2>1, <2>6, <2>7, SameOps, SameAnswers DEF QuietAttempt
<1> QED  BY <1>1, <1>2, <1>3

LEMMA QuietFinish ==
  ASSUME TypeInv, ChecksRecorded, NEW t \in Tasks, NEW i \in DOMAIN execs[t], QuietAttempt(t),
         FinishCheck(t, i)
  PROVE  QuietAttempt(t)'
<1> DEFINE v == Event(ran[t][i])
           pass == ran[t][i] = "passed"
<1>0. execs[t][i] \in Executions /\ row[t] \in Rows /\ i \in 1..Len(execs[t])
  BY Listed DEF TypeInv
<1>1. ran[t][i] \in Results
  <2>1. ran[t] \in Seq(Results \cup {"no"}) /\ i \in 1..Len(ran[t])
    BY <1>0 DEF TypeInv, ChecksRecorded
  <2>2. ran[t][i] \in Results \cup {"no"}
    BY <2>1, ElementOfSeq
  <2> QED  BY <2>2 DEF FinishCheck
<1>2. v \in Ends /\ v.run /\ (v.result = "passed") = pass
  <2>1. v \in Ends
    BY <1>1, EventOfResult
  <2>2. v.run /\ (v.result = "passed") = pass
    BY <1>1 DEF Event, Results
  <2> QED  BY <2>1, <2>2
<1>3. PICK c : c = [pk |-> i, exit |-> v.exit, result |-> IF pass THEN "passed" ELSE "failed"]
  OBVIOUS
<1>4. c.pk = i /\ c.exit = v.exit /\ (c.result = "passed") = pass
  BY <1>3
<1>5. runs'[t] = runs[t] \cup {c}
  <2>1. runs' = [runs EXCEPT ![t] = runs[t] \cup {c}]
    BY <1>3 DEF FinishCheck
  <2> QED  BY <2>1 DEF TypeInv
<1>6. PICK e : e = [execs[t][i] EXCEPT !.end = v]
  OBVIOUS
<1>7. e \in Executions /\ e.source = execs[t][i].source /\ e.end = v
  <2> HIDE DEF v
  <2> QED  BY <1>0, <1>2, <1>6 DEF Executions
<1>8. execs' = [execs EXCEPT ![t] = [execs[t] EXCEPT ![i] = e]]
  BY <1>6 DEF FinishCheck
<1>9. /\ Len(execs'[t]) = Len(execs[t]) /\ Len(execs[t]) \in Nat /\ i \in 1..Len(execs[t])
      /\ \A j \in 1..Len(execs[t]) : execs'[t][j] = IF j = i THEN e ELSE execs[t][j]
      /\ \A j \in 1..Len(execs[t]) : execs'[t][j].source = execs[t][j].source
  BY <1>7, <1>8, OneEnd
<1>10. /\ row'[t].count = row[t].count /\ (row'[t].passed <=> (row[t].passed \/ pass))
       /\ row'[t].restarts = row[t].restarts /\ row'[t].decision = row[t].decision
       /\ row'[t].status = "passed" => t \notin Reviewed
       /\ row'[t].status # "on_review"
  <2> DEFINE s == IF ~pass THEN "failed" ELSE IF t \in Reviewed THEN "in_progress" ELSE "passed"
             b == row[t].passed \/ pass
             k == IF pass THEN "passed" ELSE "failed"
  <2>1. row' = [row EXCEPT ![t].passed = b, ![t].check = k, ![t].status = s]
    BY DEF FinishCheck
  <2>2. s = "passed" => t \notin Reviewed
    OBVIOUS
  <2>3. s # "on_review"
    OBVIOUS
  <2> HIDE DEF s, b, k, pass, v
  <2>4. PICK r : r = [row[t] EXCEPT !.passed = b, !.check = k, !.status = s]
    OBVIOUS
  <2>5. row'[t] = r
    BY <2>1, <2>4 DEF TypeInv
  <2>6. /\ row'[t].count = row[t].count /\ row'[t].passed = b
        /\ row'[t].restarts = row[t].restarts /\ row'[t].decision = row[t].decision
        /\ row'[t].status = s
    BY <1>0, <2>4, <2>5 DEF Rows
  <2>7. row'[t].passed <=> (row[t].passed \/ pass)
    BY <2>6 DEF b
  <2> QED  BY <2>2, <2>3, <2>6, <2>7
<1>11. /\ coverage' = coverage /\ gaps' = gaps /\ ops' = ops /\ subs' = subs
       /\ execs[t][i].end = Pending
  BY DEF FinishCheck, Live
<1>12. Pending.result # "passed" /\ ~Pending.run
  BY DEF Pending
<1> HIDE DEF v, pass
<1>13. RunsRecorded(t)'
  <2>1. RunsRecorded(t)
    BY DEF QuietAttempt, QuietChecks
  <2>2. \A r \in runs[t] : r.pk # i
    BY <1>11, <1>12, <2>1 DEF RunsRecorded
  <2>3. \A r \in runs'[t] : /\ r.pk \in 1..Len(execs'[t])
                            /\ execs'[t][r.pk].end.run
                            /\ r.exit = execs'[t][r.pk].end.exit
                            /\ (r.result = "passed") = (execs'[t][r.pk].end.result = "passed")
    <3>1. ASSUME NEW r \in runs[t]
          PROVE  /\ r.pk \in 1..Len(execs'[t])
                 /\ execs'[t][r.pk].end.run
                 /\ r.exit = execs'[t][r.pk].end.exit
                 /\ (r.result = "passed") = (execs'[t][r.pk].end.result = "passed")
      <4>1. r.pk \in 1..Len(execs[t]) /\ execs'[t][r.pk] = execs[t][r.pk]
        BY <1>9, <2>1, <2>2 DEF RunsRecorded
      <4> QED  BY <1>9, <2>1, <4>1 DEF RunsRecorded
    <3>2. /\ c.pk \in 1..Len(execs'[t])
          /\ execs'[t][c.pk].end.run
          /\ c.exit = execs'[t][c.pk].end.exit
          /\ (c.result = "passed") = (execs'[t][c.pk].end.result = "passed")
      <4>1. execs'[t][i].end = v
        BY <1>7, <1>9
      <4> QED  BY <1>2, <1>4, <1>9, <4>1
    <3> QED  BY <1>5, <3>1, <3>2
  <2>4. \A j \in 1..Len(execs'[t]) : execs'[t][j].end.run => \E r \in runs'[t] : r.pk = j
    BY <1>4, <1>5, <1>9, <2>1 DEF RunsRecorded
  <2> QED  BY <2>3, <2>4 DEF RunsRecorded
<1>14. QuietChecks(t)'
  <2>0. QuietChecks(t)
    BY DEF QuietAttempt
  <2>1. row'[t].count = Len(execs'[t]) + coverage'[t].checks
    BY <1>9, <1>10, <1>11, <2>0 DEF QuietChecks
  <2>2. \A j \in 1..Len(execs'[t]) : execs'[t][j].source = "service"
    BY <1>9, <2>0 DEF QuietChecks
  <2>3. row'[t].passed => \E j \in 1..Len(execs'[t]) : execs'[t][j].end.result = "passed"
    <3>1. CASE pass
      BY <1>2, <1>7, <1>9, <3>1
    <3>2. ASSUME row[t].passed  PROVE  \E j \in 1..Len(execs'[t]) : execs'[t][j].end.result = "passed"
      <4>1. PICK j \in 1..Len(execs[t]) : execs[t][j].end.result = "passed"
        BY <2>0, <3>2 DEF QuietChecks
      <4>2. j # i
        BY <1>11, <1>12, <4>1
      <4> QED  BY <1>9, <4>1, <4>2
    <3> QED  BY <1>10, <3>1, <3>2
  <2> QED  BY <1>13, <2>1, <2>2, <2>3 DEF QuietChecks
<1>15. QuietOps(t)'
  BY <1>10, <1>11, SameOps DEF QuietAttempt
<1>16. QuietAnswers(t)'
  BY <1>10, <1>11 DEF QuietAttempt, QuietAnswers
<1> QED  BY <1>11, <1>14, <1>15, <1>16 DEF QuietAttempt

\* An operation that comes to the list does not count yet.
LEMMA QuietRequestOp ==
  ASSUME TypeInv, NEW t \in Tasks, NEW kind \in Kinds, NEW origin \in {"trainee", "maintenance"},
         RequestOp(t, kind, origin), QuietAttempt(t), coverage[t].origin # "none"
  PROVE  QuietAttempt(t)'
<1>1. PICK o : o = [kind |-> kind, origin |-> origin, begun |-> FALSE, outcome |-> "open"]
  OBVIOUS
<1>2. o \in Operations /\ o.origin # "unknown" /\ o.outcome = "open"
  BY <1>1 DEF Operations
<1>3. ops' = [ops EXCEPT ![t] = Append(ops[t], o)]
  BY <1>1 DEF RequestOp
<1>4. ops \in [Tasks -> Seq(Operations)] /\ Len(ops[t]) \in Nat /\ DOMAIN ops[t] = 1..Len(ops[t])
  BY Listed DEF TypeInv
<1>5. /\ ops' \in [Tasks -> Seq(Operations)]
      /\ Len(ops'[t]) = Len(ops[t]) + 1
      /\ \A j \in 1..Len(ops[t]) : ops'[t][j] = ops[t][j]
      /\ ops'[t][Len(ops[t]) + 1] = o
  BY <1>2, <1>3, <1>4, Appended
<1>6. DOMAIN ops'[t] = 1..(Len(ops[t]) + 1)
  BY <1>5
<1>7. \A j : j \in 1..(Len(ops[t]) + 1) <=> (j \in 1..Len(ops[t]) \/ j = Len(ops[t]) + 1)
  BY <1>4
<1>8. SuccessfulOps(ops'[t]) = SuccessfulOps(ops[t])
  BY <1>2, <1>4, <1>5, <1>6, <1>7 DEF SuccessfulOps
<1>9. /\ coverage' = coverage /\ row' = row /\ gaps' = gaps /\ runs' = runs /\ execs' = execs
      /\ subs' = subs
  BY DEF RequestOp, Observed
<1>10. QuietOps(t)'
  <2>1. \A j \in 1..Len(ops'[t]) : ops'[t][j].origin # "unknown" /\ ops'[t][j].outcome # "unknown"
    BY <1>2, <1>5, <1>7 DEF QuietAttempt, QuietOps
  <2> QED  BY <1>8, <1>9, <2>1 DEF QuietAttempt, QuietOps
<1> QED  BY <1>9, <1>10, SameChecks, SameAnswers DEF QuietAttempt

\* The i-th operation, which is open, gets o in its place.
LEMMA OneOp ==
  ASSUME TypeInv, NEW t \in Tasks, NEW i \in DOMAIN ops[t], NEW o \in Operations,
         ops' = [ops EXCEPT ![t] = [ops[t] EXCEPT ![i] = o]],
         o.origin = ops[t][i].origin, o.kind = ops[t][i].kind,
         ops[t][i].outcome = "open", o.outcome # "unknown", QuietOps(t)
  PROVE  /\ \A j \in 1..Len(ops'[t]) : ops'[t][j].origin # "unknown" /\ ops'[t][j].outcome # "unknown"
         /\ IsFiniteSet(SuccessfulOps(ops[t])) /\ i \notin SuccessfulOps(ops[t])
         /\ SuccessfulOps(ops'[t]) =
              IF o.kind = "reset" /\ o.outcome = "success" THEN SuccessfulOps(ops[t]) \cup {i}
                                                           ELSE SuccessfulOps(ops[t])
<1>1. ops \in [Tasks -> Seq(Operations)] /\ i \in 1..Len(ops[t])
      /\ DOMAIN ops[t] = 1..Len(ops[t]) /\ Len(ops[t]) \in Nat
  BY Listed DEF TypeInv
<1>2. /\ ops' \in [Tasks -> Seq(Operations)]
      /\ Len(ops'[t]) = Len(ops[t])
      /\ \A j \in 1..Len(ops[t]) : ops'[t][j] = IF j = i THEN o ELSE ops[t][j]
  BY <1>1, Updated
<1>3. DOMAIN ops'[t] = 1..Len(ops[t])
  BY <1>2
<1>4. SuccessfulOps(ops[t]) \subseteq 1..Len(ops[t]) /\ IsFiniteSet(1..Len(ops[t]))
  <2>1. SuccessfulOps(ops[t]) \subseteq 1..Len(ops[t])
    BY <1>1 DEF SuccessfulOps
  <2>2. ASSUME NEW n \in Nat  PROVE  IsFiniteSet(1..n)
    <3>1. 1 \in Int /\ n \in Int
      OBVIOUS
    <3> QED  BY <3>1, FS_Interval, Zenon
  <2> QED  BY <1>1, <2>1, <2>2
<1>5. IsFiniteSet(SuccessfulOps(ops[t]))
  BY <1>4, FS_Subset
<1>6. \A j \in 1..Len(ops'[t]) : ops'[t][j].origin # "unknown" /\ ops'[t][j].outcome # "unknown"
  BY <1>2 DEF QuietOps
<1>7. i \notin SuccessfulOps(ops[t])
  BY DEF SuccessfulOps
<1>8. SuccessfulOps(ops'[t]) =
        IF o.kind = "reset" /\ o.outcome = "success" THEN SuccessfulOps(ops[t]) \cup {i}
                                                     ELSE SuccessfulOps(ops[t])
  BY <1>1, <1>2, <1>3 DEF SuccessfulOps
<1> QED  BY <1>5, <1>6, <1>7, <1>8

LEMMA QuietOperation ==
  ASSUME TypeInv, NEW t \in Tasks, NEW i \in DOMAIN ops[t], QuietAttempt(t),
         BeginOp(t, i) \/ Remake(t, i) \/ CommitOp(t, i)
  PROVE  QuietAttempt(t)'
<1>0. /\ ops[t][i] \in Operations /\ row[t] \in Rows /\ QuietOps(t) /\ coverage[t].resets \in Nat
      /\ row[t].restarts \in Nat
  BY Listed DEF TypeInv, QuietAttempt, Coverages, Rows
<1>1. CASE Remake(t, i)
  <2>1. /\ row' = row /\ runs' = runs /\ coverage' = coverage /\ gaps' = gaps /\ execs' = execs
        /\ ops' = ops /\ subs' = subs
    BY <1>1 DEF Remake, ledger
  <2> QED  BY <2>1, SameChecks, SameOps, SameAnswers DEF QuietAttempt
<1>2. CASE BeginOp(t, i)
  <2>1. /\ row' = row /\ runs' = runs /\ coverage' = coverage /\ gaps' = gaps
        /\ execs' = execs /\ subs' = subs /\ ops[t][i].outcome = "open"
    BY <1>2 DEF BeginOp
  <2>2. \E o \in Operations :
          /\ ops' = [ops EXCEPT ![t] = [ops[t] EXCEPT ![i] = o]]
          /\ o.origin = ops[t][i].origin /\ o.kind = ops[t][i].kind
          /\ o.outcome \in {"open", "not_started"}
    <3>1. CASE Alone(t, i)
      <4>1. PICK o : o = [ops[t][i] EXCEPT !.begun = TRUE]
        OBVIOUS
      <4>2. /\ o \in Operations /\ o.origin = ops[t][i].origin /\ o.kind = ops[t][i].kind
            /\ o.outcome = ops[t][i].outcome
        BY <1>0, <4>1 DEF Operations
      <4>3. ops' = [ops EXCEPT ![t] = [ops[t] EXCEPT ![i] = o]]
        BY <1>2, <3>1, <4>1 DEF BeginOp
      <4> QED  BY <2>1, <4>2, <4>3
    <3>2. CASE ~Alone(t, i)
      <4>1. PICK o : o = [ops[t][i] EXCEPT !.outcome = "not_started"]
        OBVIOUS
      <4>2. /\ o \in Operations /\ o.origin = ops[t][i].origin /\ o.kind = ops[t][i].kind
            /\ o.outcome = "not_started"
        BY <1>0, <4>1 DEF Operations
      <4>3. ops' = [ops EXCEPT ![t] = [ops[t] EXCEPT ![i] = o]]
        BY <1>2, <3>2, <4>1 DEF BeginOp
      <4> QED  BY <4>2, <4>3
    <3> QED  BY <3>1, <3>2
  <2>3. PICK o \in Operations :
          /\ ops' = [ops EXCEPT ![t] = [ops[t] EXCEPT ![i] = o]]
          /\ o.origin = ops[t][i].origin /\ o.kind = ops[t][i].kind
          /\ o.outcome \in {"open", "not_started"}
    BY <2>2
  <2>4. /\ \A j \in 1..Len(ops'[t]) : ops'[t][j].origin # "unknown" /\ ops'[t][j].outcome # "unknown"
        /\ SuccessfulOps(ops'[t]) = SuccessfulOps(ops[t])
    BY <1>0, <2>1, <2>3, OneOp
  <2>5. QuietOps(t)'
    BY <1>0, <2>1, <2>4 DEF QuietOps
  <2> QED  BY <2>1, <2>5, SameChecks, SameAnswers DEF QuietAttempt
<1>3. CASE CommitOp(t, i)
  <2>1. /\ runs' = runs /\ coverage' = coverage /\ gaps' = gaps
        /\ execs' = execs /\ subs' = subs /\ ops[t][i].outcome = "open"
    BY <1>3 DEF CommitOp
  <2>2. PICK o : o = [ops[t][i] EXCEPT !.outcome = "success"]
    OBVIOUS
  <2>3. /\ o \in Operations /\ o.origin = ops[t][i].origin /\ o.kind = ops[t][i].kind
        /\ o.outcome = "success"
    BY <1>0, <2>2 DEF Operations
  <2>4. ops' = [ops EXCEPT ![t] = [ops[t] EXCEPT ![i] = o]]
    BY <1>3, <2>2 DEF CommitOp
  <2>5. /\ \A j \in 1..Len(ops'[t]) : ops'[t][j].origin # "unknown" /\ ops'[t][j].outcome # "unknown"
        /\ IsFiniteSet(SuccessfulOps(ops[t])) /\ i \notin SuccessfulOps(ops[t])
        /\ SuccessfulOps(ops'[t]) =
             IF o.kind = "reset" /\ o.outcome = "success" THEN SuccessfulOps(ops[t]) \cup {i}
                                                          ELSE SuccessfulOps(ops[t])
    BY <1>0, <2>1, <2>3, <2>4, OneOp
  <2>6. PICK n : n = IF ops[t][i].kind = "reset" THEN row[t].restarts + 1 ELSE row[t].restarts
    OBVIOUS
  <2>7. PICK r : r = [row[t] EXCEPT !.restarts = n]
    OBVIOUS
  <2>8. row'[t] = r
    BY <1>3, <2>6, <2>7 DEF CommitOp, TypeInv
  <2>9. /\ row'[t].count = row[t].count /\ row'[t].passed = row[t].passed
        /\ row'[t].restarts = n /\ row'[t].decision = row[t].decision
        /\ row'[t].status = row[t].status /\ row'[t].body = row[t].body
    BY <1>0, <2>7, <2>8 DEF Rows
  <2>10. n = Cardinality(SuccessfulOps(ops'[t])) + coverage[t].resets
    <3>1. PICK S : S = SuccessfulOps(ops[t])
      OBVIOUS
    <3>2. Cardinality(S \cup {i}) = Cardinality(S) + 1 /\ Cardinality(S) \in Nat
      BY <2>5, <3>1, FS_AddElement, FS_CardinalityType
    <3>3. row[t].restarts = Cardinality(S) + coverage[t].resets
      BY <1>0, <3>1 DEF QuietOps
    <3>4. CASE ops[t][i].kind = "reset"
      <4>1. SuccessfulOps(ops'[t]) = S \cup {i}
        BY <2>3, <2>5, <3>1, <3>4
      <4> QED  BY <1>0, <2>6, <3>2, <3>3, <3>4, <4>1
    <3>5. CASE ops[t][i].kind # "reset"
      <4>1. SuccessfulOps(ops'[t]) = S
        BY <2>3, <2>5, <3>1, <3>5
      <4> QED  BY <2>6, <3>3, <3>5, <4>1
    <3> QED  BY <3>4, <3>5
  <2>11. QuietOps(t)'
    BY <2>1, <2>5, <2>9, <2>10 DEF QuietOps
  <2> QED  BY <2>1, <2>9, <2>11, SameChecks, SameAnswers DEF QuietAttempt
<1> QED  BY <1>1, <1>2, <1>3

LEMMA QuietAnswer ==
  ASSUME TypeInv, NothingBefore, AnswersRecorded, NEW t \in Tasks, QuietAttempt(t),
         coverage[t].origin # "none",
         \/ \E body \in 1..2 : SaveDraft(t, body)
         \/ SubmitAnswer(t)
         \/ \E d \in Decisions : ReviewAnswer(t, d, TRUE)
  PROVE  QuietAttempt(t)'
<1>0. row[t] \in Rows
  BY DEF TypeInv
<1>1. ASSUME NEW body \in 1..2, SaveDraft(t, body)  PROVE  QuietAttempt(t)'
  <2>1. /\ runs' = runs /\ coverage' = coverage /\ gaps' = gaps /\ ops' = ops
        /\ execs' = execs /\ subs' = subs /\ row[t].status \notin {"on_review", "passed"}
    BY <1>1 DEF SaveDraft, ledger
  <2>2. PICK r : r = [row[t] EXCEPT !.body = body]
    OBVIOUS
  <2>3. row'[t] = r
    BY <1>1, <2>2 DEF SaveDraft, TypeInv
  <2>4. /\ row'[t].count = row[t].count /\ row'[t].passed = row[t].passed
        /\ row'[t].restarts = row[t].restarts /\ row'[t].decision = row[t].decision
        /\ row'[t].status = row[t].status
    BY <1>0, <2>2, <2>3 DEF Rows
  <2> QED  BY <2>1, <2>4, SameChecks, SameOps, SameAnswers DEF QuietAttempt
<1>2. CASE SubmitAnswer(t)
  <2>1. /\ runs' = runs /\ coverage' = coverage /\ gaps' = gaps /\ ops' = ops
        /\ execs' = execs /\ t \in Reviewed
    BY <1>2 DEF SubmitAnswer, Observed
  <2>2. PICK r : r = [row[t] EXCEPT !.status = "on_review", !.decision = "not_reviewed"]
    OBVIOUS
  <2>3. row'[t] = r
    BY <1>2, <2>2 DEF SubmitAnswer, TypeInv
  <2>4. /\ row'[t].count = row[t].count /\ row'[t].passed = row[t].passed
        /\ row'[t].restarts = row[t].restarts /\ row'[t].decision = "not_reviewed"
        /\ row'[t].body = row[t].body
    BY <1>0, <2>2, <2>3 DEF Rows
  <2>5. /\ Len(subs'[t]) = Len(subs[t]) + 1
        /\ LastDecision(subs'[t][Len(subs[t]) + 1].reviews) = "not_reviewed"
        /\ subs'[t][Len(subs[t]) + 1].body = row[t].body
    BY <1>2, SubmitEffect
  <2>6. QuietAnswers(t)'
    BY <2>1, <2>4, <2>5 DEF QuietAnswers
  <2> QED  BY <2>1, <2>4, <2>6, SameChecks, SameOps DEF QuietAttempt
<1>3. ASSUME NEW d \in Decisions, ReviewAnswer(t, d, TRUE)  PROVE  QuietAttempt(t)'
  <2>0. TRUE \in BOOLEAN
    OBVIOUS
  <2>1. /\ runs' = runs /\ coverage' = coverage /\ gaps' = gaps /\ ops' = ops
        /\ execs' = execs /\ subs[t] # <<>> /\ row[t].body = subs[t][Len(subs[t])].body
    BY <1>3 DEF ReviewAnswer, Observed
  <2>2. row'[t] = Decided(row[t], d)
    BY <1>3 DEF ReviewAnswer, TypeInv
  <2>3. /\ row'[t].count = row[t].count /\ row'[t].passed = row[t].passed
        /\ row'[t].restarts = row[t].restarts /\ row'[t].decision = d
        /\ row'[t].body = row[t].body
    <3>1. PICK s : s = CASE d = "approved" -> "passed" [] d = "needs_revision" -> "failed"
                         [] OTHER -> row[t].status
      OBVIOUS
    <3>2. PICK r : r = [row[t] EXCEPT !.decision = d, !.status = s]
      OBVIOUS
    <3>3. row'[t] = r
      BY <2>2, <3>1, <3>2 DEF Decided
    <3> QED  BY <1>0, <3>2, <3>3 DEF Rows
  <2>4. /\ Len(subs[t]) \in Nat \ {0}
        /\ Len(subs'[t]) = Len(subs[t])
        /\ \A j \in 1..Len(subs[t]) : subs'[t][j].body = subs[t][j].body
        /\ LastDecision(subs'[t][Len(subs[t])].reviews) = d
    BY <1>3, <2>0, ReviewEffect
  <2>5. QuietAnswers(t)'
    <3>1. t \in Reviewed
      BY <2>1 DEF QuietAttempt, QuietAnswers
    <3>2. subs'[t][Len(subs[t])].body = row'[t].body
      BY <2>1, <2>3, <2>4
    <3> QED  BY <2>3, <2>4, <3>1, <3>2 DEF QuietAnswers
  <2> QED  BY <2>1, <2>3, <2>5, SameChecks, SameOps DEF QuietAttempt
<1> QED  BY <1>1, <1>2, <1>3

LEMMA QuietStep ==
  ASSUME TypeInv, NothingBefore, ChecksRecorded, AnswersRecorded, QuietLedger, Write
  PROVE  QuietLedger'
<1> SUFFICES ASSUME faults' = 0, NEW u \in Tasks, coverage'[u].origin = "creation"
             PROVE  QuietAttempt(u)'
  BY DEF QuietLedger
<1>1. faults = 0 /\ Service
  BY DEF TypeInv, Write
<1>2. ASSUME coverage[u].origin = "creation"  PROVE  QuietAttempt(u) /\ coverage[u].origin # "none"
  BY <1>1, <1>2 DEF QuietLedger
<1>3. CASE ChangeCatalogue
  <2>1. /\ row' = row /\ runs' = runs /\ coverage' = coverage /\ gaps' = gaps /\ execs' = execs
        /\ ops' = ops /\ subs' = subs
    BY <1>3 DEF ChangeCatalogue, ledger
  <2> QED  BY <1>2, <2>1, SameChecks, SameOps, SameAnswers DEF QuietAttempt
<1>4. ASSUME NEW t \in Tasks, WriteOn(t), u # t  PROVE  QuietAttempt(u)'
  <2>1. Untouched(u)
    BY <1>4 DEF WriteOn
  <2>2. QuietAttempt(u)
    BY <1>2, <2>1 DEF Untouched
  <2> QED  BY <2>1, <2>2, SameChecks, SameOps, SameAnswers DEF QuietAttempt, Untouched
<1>5. ASSUME WriteOn(u), row[u].exists  PROVE  coverage[u].origin = "creation"
  BY <1>5 DEF WriteOn, Grown
<1>6. ASSUME NEW t \in Tasks,
             \/ CreateAttempt(t, 0)
             \/ RequestCheck(t)
             \/ \E i \in DOMAIN execs[t] :
                  \/ BeginCheck(t, i) \/ RunChecker(t, i) \/ NotStarted(t, i)
                  \/ FinishCheck(t, i)
             \/ \E kind \in Kinds, origin \in {"trainee", "maintenance"} :
                  RequestOp(t, kind, origin)
             \/ \E i \in DOMAIN ops[t] : BeginOp(t, i) \/ Remake(t, i) \/ CommitOp(t, i)
             \/ \E body \in 1..2 : SaveDraft(t, body)
             \/ SubmitAnswer(t)
             \/ \E d \in Decisions : ReviewAnswer(t, d, TRUE)
      PROVE  QuietAttempt(u)'
  <2>0. 0 \in 0..1 /\ TRUE \in BOOLEAN
    OBVIOUS
  <2>1. WriteOn(t)
    BY <1>6, <2>0, CreateWrites, RequestCheckWrites, ExecutionWrites, RequestOpWrites,
       OperationWrites, SaveDraftWrites, SubmitWrites, ReviewWrites
  <2>2. CASE u # t
    BY <1>4, <2>1, <2>2
  <2>3. CASE u = t /\ CreateAttempt(t, 0)
    BY <2>3, QuietCreate
  <2>4. CASE u = t /\ ~CreateAttempt(t, 0)
    <3>1. row[u].exists
      <4>1. CASE RequestCheck(u)
        BY <4>1 DEF RequestCheck
      <4>2. CASE \E kind \in Kinds, origin \in {"trainee", "maintenance"} : RequestOp(u, kind, origin)
        BY <4>2 DEF RequestOp
      <4>3. CASE \E body \in 1..2 : SaveDraft(u, body)
        BY <4>3, There DEF SaveDraft
      <4>4. CASE SubmitAnswer(u)
        BY <4>4, There DEF SubmitAnswer
      <4>5. CASE \E d \in Decisions : ReviewAnswer(u, d, TRUE)
        BY <4>5 DEF ReviewAnswer
      <4>6. CASE (\E i \in DOMAIN execs[u] : TRUE) \/ (\E i \in DOMAIN ops[u] : TRUE)
        BY <4>6, There, Listed
      <4> QED  BY <1>6, <2>4, <4>1, <4>2, <4>3, <4>4, <4>5, <4>6
    <3>2. QuietAttempt(u) /\ coverage[u].origin # "none"
      BY <1>2, <1>5, <2>1, <2>4, <3>1
    <3> QED  BY <1>6, <2>4, <3>2, QuietRequestCheck, QuietExecution, QuietFinish,
                QuietRequestOp, QuietOperation, QuietAnswer
  <2> QED  BY <2>2, <2>3, <2>4
<1> QED  BY <1>1, <1>3, <1>6 DEF Service

\* What the writers keep, at first and in every step.
Recorded ==
  /\ TypeInv /\ NothingBefore /\ ChecksRecorded /\ OpsRecorded /\ AnswersRecorded
  /\ PastKept /\ QuietLedger
  /\ faults <= MaxFaults

LEMMA RecordedStep ==
  ASSUME MaxFaults \in Nat, Recorded,
         \/ Service /\ UNCHANGED faults
         \/ Fault /\ faults < MaxFaults /\ faults' = faults + 1
  PROVE  Recorded'
<1>1. Write /\ (Service \/ Fault)
  BY DEF Write
<1>2. faults' <= MaxFaults
  BY DEF Recorded, TypeInv
<1> QED
  BY <1>1, <1>2, WrittenTypes, NothingStep, ChecksStep, OpsStep, AnswersStep, PastStep, QuietStep
     DEF Recorded

LEMMA RecordedInit ==
  ASSUME Active \subseteq Tasks, Legacy \subseteq Tasks, MaxFaults \in Nat, Init
  PROVE  Recorded
<1>0. Len(<<>>) = 0 /\ \A S : <<>> \in Seq(S)
  BY EmptySeq
<1>1. NoRow \in Rows /\ ~NoRow.exists /\ ~NoRow.passed
  BY DEF NoRow, Rows, Decisions
<1>2. PICK n \in 0..1 :
        row = [t \in Tasks |-> IF t \in Legacy THEN [NoRow EXCEPT !.exists = TRUE, !.count = n]
                                               ELSE NoRow]
  BY DEF Init
<1>3. PICK r : r = [NoRow EXCEPT !.exists = TRUE, !.count = n]
  OBVIOUS
<1>4. r \in Rows /\ r.exists /\ ~r.passed
  <2>1. n \in Nat
    OBVIOUS
  <2>2. ASSUME NEW q \in Rows, NEW x, x = [q EXCEPT !.exists = TRUE, !.count = n]
        PROVE  x \in Rows /\ x.exists /\ x.passed = q.passed
    BY <2>1, <2>2 DEF Rows
  <2> QED  BY <1>1, <1>3, <2>2
<1>5. row = [t \in Tasks |-> IF t \in Legacy THEN r ELSE NoRow]
  BY <1>2, <1>3
<1>51. row \in [Tasks -> Rows]
  BY <1>1, <1>4, <1>5
<1>52. \A t \in Tasks : /\ ~row[t].passed
                        /\ t \in Legacy => row[t].exists
  BY <1>1, <1>4, <1>5
<1>6. NoCoverage \in Coverages /\ NoCoverage.origin = "none"
  BY DEF NoCoverage, Coverages
<1>7. NoManifest \in Manifests /\ NoManifest.source = "none"
  BY DEF NoManifest, Manifests
<1>8. \A t \in Tasks : /\ coverage[t] = NoCoverage /\ runs[t] = {} /\ gaps[t] = {}
                       /\ execs[t] = <<>> /\ ops[t] = <<>> /\ subs[t] = <<>> /\ ran[t] = <<>>
                       /\ remade[t] = {} /\ verdict[t] = <<>>
  BY DEF Init
<1>9. TypeInv
  <2>1. /\ active \subseteq Tasks /\ criteria \in Nat /\ faults \in Nat
        /\ completion \in [made: BOOLEAN, tasks: SUBSET Tasks]
        /\ manifest \in Manifests
    BY <1>7 DEF Init
  <2>2. /\ coverage \in [Tasks -> Coverages]
        /\ gaps \in [Tasks -> SUBSET GapReasons]
        /\ remade \in [Tasks -> SUBSET Nat]
    BY <1>6 DEF Init
  <2>3. runs \in [Tasks -> SUBSET [pk: Nat, exit: Nat, result: {"passed", "failed"}]]
    BY DEF Init
  <2>4. /\ execs \in [Tasks -> Seq(Executions)] /\ ops \in [Tasks -> Seq(Operations)]
        /\ subs \in [Tasks -> Seq(Submissions)] /\ ran \in [Tasks -> Seq(Results \cup {"no"})]
        /\ verdict \in [Tasks -> Seq(Decisions)]
    BY <1>0 DEF Init
  <2> QED  BY <1>51, <2>1, <2>2, <2>3, <2>4 DEF TypeInv
<1>10. NothingBefore
  BY <1>52, <1>6, <1>8 DEF NothingBefore
<1>11. ChecksRecorded
  BY <1>0, <1>8 DEF ChecksRecorded
<1>12. OpsRecorded
  BY <1>0, <1>8 DEF OpsRecorded
<1>13. <<>> = DecisionsOf(<<>>, Len(<<>>))
  <2>1. <<>> \in Seq(Submissions) /\ <<>> \in Seq(Decisions)
    BY <1>0
  <2>2. \A i \in 1..Len(<<>>) : <<>>[i] = LastDecision(<<>>[i].reviews)
    BY <1>0
  <2> QED  BY <2>1, <2>2, SameDecisions
<1>14. AnswersRecorded
  BY <1>8, <1>13 DEF AnswersRecorded
<1>15. PastKept
  BY <1>52, <1>6, <1>7, <1>8 DEF PastKept, Init
<1>16. QuietLedger
  BY <1>6, <1>8 DEF QuietLedger
<1>17. faults <= MaxFaults
  BY DEF Init
<1> QED  BY <1>9, <1>10, <1>11, <1>12, <1>14, <1>15, <1>16, <1>17 DEF Recorded

-----------------------------------------------------------------------------
(* The reader: what a write, a call and a SELECT do to it.                 *)

Reading ==
  /\ ReadShape /\ CoverageSeen /\ ChecksSeen /\ ResetsSeen /\ PastSeen
  /\ ProgramSeen /\ QuietSeen

LEMMA AtRest ==
  read = Idle => Reading /\ AnswersSeen
<1> SUFFICES ASSUME read = Idle  PROVE  Reading /\ AnswersSeen
  OBVIOUS
<1>1. DOMAIN read = {"pc"} /\ read.pc = "idle"
  BY DEF Idle
<1>2. /\ ~Has("coverage") /\ ~Has("checks") /\ ~Has("events") /\ ~Has("environment")
      /\ ~Has("gaps") /\ ~Has("submissions") /\ ~Has("reviews") /\ ~Has("manifest")
      /\ ~Has("completion") /\ ~Has("rows")
  BY <1>1 DEF Has
<1>3. ReadShape
  BY <1>1, <1>2 DEF ReadShape, Required
<1> QED
  BY <1>1, <1>2, <1>3 DEF Reading, CoverageSeen, ChecksSeen, ResetsSeen, AnswersSeen, AnswersAt, PastSeen,
     ProgramSeen, QuietSeen

\* A write while a read is going on: a moment more has been seen.
Overtaken ==
  /\ read.pc \notin {"idle", "done"}
  /\ read.overlaps < MaxOverlap
  /\ DOMAIN read' = DOMAIN read
  /\ \A f \in DOMAIN read \ {"seen", "overlaps"} : read'[f] = read[f]
  /\ read'.seen = read.seen \cup {Moment'}
  /\ read'.overlaps = read.overlaps + 1

LEMMA Overtake ==
  ASSUME ReadShape, Overlap
  PROVE  read' = Idle \/ Overtaken
<1>1. CASE read.pc \in {"idle", "done"}
  BY <1>1 DEF Overlap
<1>2. CASE read.pc \notin {"idle", "done"}
  <2>1. /\ read.overlaps < MaxOverlap
        /\ read' = [read EXCEPT !.seen = @ \cup {Moment'}, !.overlaps = @ + 1]
    BY <1>2 DEF Overlap
  <2>2. "seen" \in DOMAIN read /\ "overlaps" \in DOMAIN read
    BY <1>2 DEF ReadShape, Required, Always
  <2>3. PICK m, n : m = read.seen \cup {Moment'} /\ n = read.overlaps + 1
    OBVIOUS
  <2>4. read' = [read EXCEPT !.seen = m, !.overlaps = n]
    BY <2>1, <2>3
  <2>5. /\ DOMAIN read' = DOMAIN read
        /\ \A f \in DOMAIN read \ {"seen", "overlaps"} : read'[f] = read[f]
        /\ read'.seen = m /\ read'.overlaps = n
    BY <2>2, <2>4
  <2> QED  BY <1>2, <2>1, <2>3, <2>5 DEF Overtaken
<1> QED  BY <1>1, <1>2

\* The field that a SELECT adds, and what it leaves alone.
Added(field, value, next) ==
  /\ DOMAIN read' = DOMAIN read \cup {field}
  /\ read'[field] = value
  /\ read'.pc = next
  /\ \A f \in DOMAIN read \ {field, "pc"} : read'[f] = read[f]

LEMMA SelectAdds ==
  ASSUME NEW pc, NEW field, NEW value, NEW next, field # "pc", "pc" \in DOMAIN read,
         Select(pc, field, value, next)
  PROVE  read.pc = pc /\ Added(field, value, next)
<1>1. read.pc = pc
  BY DEF Select
<1>2. read' = [f \in DOMAIN read \cup {field} |->
                 CASE f = field -> value [] f = "pc" -> next [] OTHER -> read[f]]
  BY DEF Select
<1> QED  BY <1>1, <1>2 DEF Added

\* The fields, by name.
Fields == {"manifest", "completion", "rows", "coverage", "gaps", "checks", "events",
           "environment", "submissions", "reviews", "runs"}

LEMMA StillRead ==
  ASSUME ReadShape, Overtaken
  PROVE  /\ \A f \in Fields : Has(f)' <=> Has(f)
         /\ \A f \in Fields : Has(f) => read'[f] = read[f]
         /\ read'.pc = read.pc /\ read'.scope = read.scope /\ read'.isProgram = read.isProgram
         /\ read.seen \subseteq read'.seen /\ Moment' \in read'.seen
         /\ read.scope \subseteq Tasks /\ read.overlaps \in Nat
<1>1. Always \subseteq DOMAIN read
  BY DEF ReadShape, Overtaken, Required
<1>2. {"pc", "scope", "isProgram"} \subseteq DOMAIN read \ {"seen", "overlaps"}
  BY <1>1 DEF Always
<1>3. \A f \in Fields : f \notin {"seen", "overlaps"}
  BY DEF Fields
<1>4. \A f \in Fields : Has(f)' <=> Has(f)
  BY DEF Overtaken, Has
<1>5. \A f \in Fields : Has(f) => read'[f] = read[f]
  BY <1>3 DEF Overtaken, Has
<1>6. read'.pc = read.pc /\ read'.scope = read.scope /\ read'.isProgram = read.isProgram
  BY <1>2 DEF Overtaken
<1> QED  BY <1>4, <1>5, <1>6 DEF Overtaken, ReadShape

LEMMA ShapeOvertaken ==
  ASSUME ReadShape, Overtaken
  PROVE  ReadShape'
<1>1. /\ \A f \in Fields : Has(f)' <=> Has(f)
      /\ read'.pc = read.pc /\ read'.scope = read.scope /\ read'.isProgram = read.isProgram
      /\ Moment' \in read'.seen /\ read.overlaps \in Nat
  BY StillRead
<1>2. {"rows", "manifest", "completion", "coverage", "gaps", "submissions", "reviews"}
        \subseteq Fields
  BY DEF Fields
<1>3. DOMAIN read' = DOMAIN read /\ read'.overlaps \in Nat
  BY <1>1 DEF Overtaken
<1> QED  BY <1>1, <1>2, <1>3 DEF ReadShape

LEMMA CoverageOvertaken ==
  ASSUME Recorded, Reading, Service \/ Fault, Overtaken
  PROVE  CoverageSeen'
<1>0. ReadShape /\ CoverageSeen /\ TypeInv /\ NothingBefore /\ ChecksRecorded
  BY DEF Reading, Recorded
<1>1. "coverage" \in Fields
  BY DEF Fields
<1>2. /\ Has("coverage")' <=> Has("coverage")
      /\ Has("coverage") => read'.coverage = read.coverage
      /\ read'.scope = read.scope /\ read.scope \subseteq Tasks
  BY <1>0, <1>1, StillRead
<1>3. \A t \in Tasks : coverage[t].origin = "creation" => coverage'[t].origin = "creation"
  <2>1. CASE ChangeCatalogue
    BY <2>1 DEF ChangeCatalogue, ledger
  <2>2. ASSUME NEW t \in Tasks, WriteOn(t)
        PROVE  \A u \in Tasks : coverage[u].origin = "creation" => coverage'[u].origin = "creation"
    BY <2>2 DEF WriteOn, Grown, Untouched
  <2> QED  BY <1>0, <2>1, <2>2, Written
<1> QED  BY <1>0, <1>2, <1>3 DEF CoverageSeen

LEMMA ChecksOvertaken ==
  ASSUME Recorded, Reading, Service \/ Fault, Overtaken
  PROVE  ChecksSeen'
<1>0. ReadShape /\ ChecksSeen /\ TypeInv /\ ChecksRecorded
  BY DEF Reading, Recorded
<1>1. {"checks", "events"} \subseteq Fields
  BY DEF Fields
<1>2. /\ Has("checks")' <=> Has("checks")
      /\ Has("checks") => read'.checks = read.checks
      /\ Has("events")' <=> Has("events")
      /\ Has("events") => read'.events = read.events
      /\ read'.scope = read.scope /\ read.scope \subseteq Tasks /\ read.seen \subseteq read'.seen
  BY <1>0, <1>1, StillRead
<1>3. CheckGrowth /\ CheckTypes
  BY <1>0, ChecksStep
<1>4. ASSUME NEW t \in read.scope, Has("checks")  PROVE  ListSeen(t)'
  <2>1. PICK n \in 0..Len(execs[t]) :
          /\ DOMAIN read.checks[t] = 1..n
          /\ (\A i \in 1..n : ran[t][i] = "no") => \E m \in read.seen : m[t].first = <<0, "none">>
    BY <1>0, <1>4 DEF ChecksSeen, ListSeen
  <2>2. t \in Tasks /\ Len(execs[t]) \in Nat /\ Len(execs'[t]) \in Nat
        /\ Len(execs[t]) <= Len(execs'[t])
    BY <1>0, <1>2, <1>3, Listed DEF CheckGrowth, CheckTypes
  <2>3. n \in 0..Len(execs'[t]) /\ 1..n \subseteq 1..Len(execs[t])
    BY <2>2
  <2>4. \A i \in 1..n : ran'[t][i] = "no" => ran[t][i] = "no"
    BY <1>3, <2>2, <2>3 DEF CheckGrowth
  <2> QED  BY <1>2, <1>4, <2>1, <2>3, <2>4 DEF ListSeen
<1>5. ASSUME NEW t \in read.scope, Has("events"), EventsClear(read', t)
      PROVE  \E m \in read'.seen : m[t].first = FirstCheck(read', t)
  <2>1. EventsClear(read, t) /\ FirstCheck(read', t) = FirstCheck(read, t)
    BY <1>2, <1>5 DEF EventsClear, FirstCheck
  <2> QED  BY <1>0, <1>2, <1>5, <2>1 DEF ChecksSeen
<1>6. \A t : EventsClear(read, t)' <=> EventsClear(read', t)
  BY DEF EventsClear
<1> QED  BY <1>2, <1>4, <1>5, <1>6 DEF ChecksSeen

LEMMA ResetsOvertaken ==
  ASSUME Reading, Overtaken
  PROVE  ResetsSeen'
<1>0. ReadShape /\ ResetsSeen
  BY DEF Reading
<1>1. "environment" \in Fields
  BY DEF Fields
<1>2. /\ Has("environment")' <=> Has("environment")
      /\ Has("environment") => read'.environment = read.environment
      /\ read'.scope = read.scope /\ read.seen \subseteq read'.seen
  BY <1>0, <1>1, StillRead
<1>3. ASSUME Has("environment"), NEW t
      PROVE  /\ OpsClear(read', t) <=> OpsClear(read, t)
             /\ Successful(read', t, {"trainee"}) = Successful(read, t, {"trainee"})
  BY <1>2, <1>3 DEF OpsClear, Successful
<1>4. ASSUME Has("environment")
      PROVE  \E m \in read'.seen : \A t \in read'.scope :
               OpsClear(read', t) => m[t].resets = Successful(read', t, {"trainee"})
  <2>1. PICK m \in read.seen : \A t \in read.scope :
          OpsClear(read, t) => m[t].resets = Successful(read, t, {"trainee"})
    BY <1>0, <1>4 DEF ResetsSeen
  <2> QED  BY <1>2, <1>3, <1>4, <2>1
<1> QED  BY <1>2, <1>4 DEF ResetsSeen

LEMMA RestOvertaken ==
  ASSUME Reading, Overtaken
  PROVE  PastSeen' /\ ProgramSeen' /\ QuietSeen'
<1>0. ReadShape /\ PastSeen /\ ProgramSeen
  BY DEF Reading
<1>1. {"manifest", "completion", "rows"} \subseteq Fields
  BY DEF Fields
<1>2. /\ Has("manifest")' <=> Has("manifest")
      /\ Has("manifest") => read'.manifest = read.manifest
      /\ Has("completion")' <=> Has("completion")
      /\ Has("completion") => read'.completion = read.completion
      /\ Has("rows")' <=> Has("rows")
      /\ read'.scope = read.scope /\ read'.isProgram = read.isProgram /\ read.overlaps \in Nat
  BY <1>0, <1>1, StillRead
<1>3. PastSeen'
  BY <1>0, <1>2 DEF PastSeen
<1>4. ProgramSeen'
  <2>1. Has("rows") /\ read.isProgram => Has("manifest")
    BY <1>0 DEF ReadShape
  <2> QED  BY <1>0, <1>2, <2>1 DEF ProgramSeen
<1>5. read'.overlaps # 0
  BY <1>2 DEF Overtaken
<1>6. QuietSeen'
  BY <1>5 DEF QuietSeen
<1> QED  BY <1>3, <1>4, <1>6

\* Answers: the first part of a list is changed by nothing but the review of its
\* last submission.
LEMMA AnswersGrow ==
  ASSUME TypeInv, AnswersRecorded, Write, NEW t \in Tasks, subs'[t] # subs[t]
  PROVE  /\ Len(subs[t]) \in Nat /\ Len(subs'[t]) \in Nat /\ Len(subs[t]) <= Len(subs'[t])
         /\ \A n \in 0..Len(subs[t]) :
              n = Len(subs'[t]) \/ DecisionsOf(subs'[t], n) = DecisionsOf(subs[t], n)
         /\ gaps'[t] \subseteq gaps[t] \cup {"review_version_unspecified"}
<1>0. /\ subs \in [Tasks -> Seq(Submissions)] /\ gaps \in [Tasks -> SUBSET GapReasons]
      /\ Len(subs[t]) \in Nat
  BY DEF TypeInv
<1>1. CASE SubmitAnswer(t)
  <2>1. /\ Len(subs'[t]) = Len(subs[t]) + 1
        /\ \A j \in 1..Len(subs[t]) : subs'[t][j] = subs[t][j]
    BY <1>1, SubmitEffect
  <2>2. ASSUME NEW n \in 0..Len(subs[t])  PROVE  DecisionsOf(subs'[t], n) = DecisionsOf(subs[t], n)
    <3>1. \A j \in 1..n : subs'[t][j] = subs[t][j]
      BY <1>0, <2>1
    <3> QED  BY <3>1 DEF DecisionsOf
  <2>3. gaps' = gaps
    BY <1>1 DEF SubmitAnswer
  <2> QED  BY <1>0, <2>1, <2>2, <2>3
<1>2. ASSUME NEW d \in Decisions, NEW versioned \in BOOLEAN, ReviewAnswer(t, d, versioned)
      PROVE  /\ Len(subs[t]) \in Nat /\ Len(subs'[t]) \in Nat /\ Len(subs[t]) <= Len(subs'[t])
             /\ \A n \in 0..Len(subs[t]) :
                  n = Len(subs'[t]) \/ DecisionsOf(subs'[t], n) = DecisionsOf(subs[t], n)
             /\ gaps'[t] \subseteq gaps[t] \cup {"review_version_unspecified"}
  <2>1. /\ Len(subs'[t]) = Len(subs[t])
        /\ \A j \in 1..Len(subs[t]) : j # Len(subs[t]) => subs'[t][j] = subs[t][j]
    BY <1>2, ReviewEffect
  <2>2. ASSUME NEW n \in 0..Len(subs[t]), n # Len(subs[t])
        PROVE  DecisionsOf(subs'[t], n) = DecisionsOf(subs[t], n)
    <3>1. \A j \in 1..n : subs'[t][j] = subs[t][j]
      BY <1>0, <2>1, <2>2
    <3> QED  BY <3>1 DEF DecisionsOf
  <2>3. gaps'[t] \subseteq gaps[t] \cup {"review_version_unspecified"}
    BY <1>0, <1>2 DEF ReviewAnswer, WithGap
  <2> QED  BY <1>0, <2>1, <2>2, <2>3
<1>3. ASSUME NEW u \in Tasks, u # t,
             \/ SubmitAnswer(u)
             \/ \E d \in Decisions, versioned \in BOOLEAN : ReviewAnswer(u, d, versioned)
      PROVE  FALSE
  BY <1>0, <1>3 DEF SubmitAnswer, ReviewAnswer
<1>4. ASSUME NEW u \in Tasks, OutsideUpdate(u)  PROVE  FALSE
  BY <1>4 DEF OutsideUpdate
<1>5. AnswerActions
  BY WhoAnswers
<1> QED  BY <1>1, <1>2, <1>3, <1>4, <1>5 DEF AnswerActions

LEMMA AnswersOvertaken ==
  ASSUME Recorded, Recorded', Reading, AnswersSeen, Write, Overtaken
  PROVE  AnswersSeen'
<1> SUFFICES ASSUME FewWrites'  PROVE  AnswersAt'
  BY DEF AnswersSeen
<1>0. /\ ReadShape /\ CoverageSeen /\ QuietSeen /\ TypeInv /\ NothingBefore /\ ChecksRecorded
      /\ AnswersRecorded /\ TypeInv' /\ AnswersRecorded'
      /\ (Service \/ Fault)
  BY DEF Reading, Recorded, Write
<1>1. {"coverage", "gaps", "submissions", "reviews"} \subseteq Fields
  BY DEF Fields
<1>2. /\ Has("coverage") => read'.coverage = read.coverage
      /\ Has("gaps")' <=> Has("gaps")
      /\ Has("gaps") => read'.gaps = read.gaps
      /\ Has("submissions")' <=> Has("submissions")
      /\ Has("submissions") => read'.submissions = read.submissions
      /\ Has("reviews")' <=> Has("reviews")
      /\ Has("reviews") => read'.reviews = read.reviews
      /\ read'.scope = read.scope /\ read.scope \subseteq Tasks
      /\ read.seen \subseteq read'.seen /\ Moment' \in read'.seen /\ read.overlaps \in Nat
  BY <1>0, <1>1, StillRead
<1>3. /\ Has("gaps") => Has("coverage")
      /\ Has("submissions") => Has("gaps")
      /\ Has("reviews") => Has("submissions")
  BY <1>0 DEF ReadShape
<1>4. /\ read'.overlaps # 0
      /\ read.overlaps = 0 \/ faults' = 0
      /\ read.pc # "idle"
      /\ AnswersAt
  <2>1. read'.overlaps = read.overlaps + 1 /\ read.pc # "idle"
    BY DEF Overtaken
  <2>2. faults \in Nat /\ (faults' = faults \/ faults' = faults + 1)
    BY <1>0 DEF TypeInv, Write
  <2>3. FewWrites
    BY <1>2, <2>1, <2>2 DEF FewWrites
  <2> QED  BY <1>2, <2>1, <2>2, <2>3 DEF FewWrites, AnswersSeen
<1>5. \A t \in read.scope : Has("gaps") => (GapsClear(t)' <=> GapsClear(t))
  BY <1>2, <1>3 DEF GapsClear
<1>6. \A t \in Tasks : Moment'[t].verdicts = verdict'[t]
  BY DEF Moment
<1>7. ASSUME NEW t \in read.scope, Has("gaps"), GapsClear(t)
      PROVE  /\ subs'[t] # subs[t] => verdict'[t] = DecisionsOf(subs'[t], Len(subs'[t]))
             /\ \E m \in read'.seen : m[t].verdicts = DecisionsOf(subs'[t], Len(subs'[t]))
             /\ faults' = 0 => verdict'[t] = DecisionsOf(subs'[t], Len(subs'[t]))
  <2>0. t \in Tasks
    BY <1>2
  <2>1. faults' = 0 => verdict'[t] = DecisionsOf(subs'[t], Len(subs'[t]))
    BY <1>0, <2>0 DEF AnswersRecorded
  <2>2. ASSUME subs'[t] # subs[t], read.overlaps = 0
        PROVE  verdict'[t] = DecisionsOf(subs'[t], Len(subs'[t]))
    <3>1. read.coverage[t] = coverage[t] /\ read.gaps[t] = gaps[t]
      BY <1>0, <1>3, <1>4, <1>7, <2>2 DEF QuietSeen
    <3>2. coverage[t].origin = "creation" /\ "unsupported_update" \notin gaps[t]
      BY <1>7, <3>1 DEF GapsClear
    <3>3. "unsupported_update" \notin gaps'[t]
      BY <1>0, <2>0, <2>2, <3>2, AnswersGrow
    <3>4. coverage'[t].origin = "creation"
      <4>1. CASE ChangeCatalogue
        BY <3>2, <4>1 DEF ChangeCatalogue, ledger
      <4>2. ASSUME NEW u \in Tasks, WriteOn(u)  PROVE  coverage'[t].origin = "creation"
        BY <2>0, <3>2, <4>2 DEF WriteOn, Grown, Untouched
      <4> QED  BY <1>0, <4>1, <4>2, Written
    <3> QED  BY <1>0, <2>0, <3>3, <3>4 DEF AnswersRecorded
  <2>3. subs'[t] # subs[t] => verdict'[t] = DecisionsOf(subs'[t], Len(subs'[t]))
    BY <1>4, <2>1, <2>2
  <2>4. \E m \in read'.seen : m[t].verdicts = DecisionsOf(subs'[t], Len(subs'[t]))
    <3>1. CASE subs'[t] = subs[t]
      <4>1. PICK m \in read.seen : m[t].verdicts = DecisionsOf(subs[t], Len(subs[t]))
        BY <1>4, <1>7 DEF AnswersAt
      <4> QED  BY <1>2, <3>1, <4>1
    <3>2. CASE subs'[t] # subs[t]
      BY <1>2, <1>6, <2>0, <2>3, <3>2
    <3> QED  BY <3>1, <3>2
  <2> QED  BY <2>1, <2>3, <2>4
<1>8. ASSUME NEW t \in read.scope, Has("submissions"), GapsClear(t)
      PROVE  \E n \in 0..Len(subs'[t]) :
               /\ DOMAIN read'.submissions[t] = 1..n
               /\ \E m \in read'.seen : m[t].verdicts = DecisionsOf(subs'[t], n)
  <2>1. PICK n \in 0..Len(subs[t]) :
          /\ DOMAIN read.submissions[t] = 1..n
          /\ \E m \in read.seen : m[t].verdicts = DecisionsOf(subs[t], n)
    BY <1>4, <1>8 DEF AnswersAt
  <2>2. PICK m \in read.seen : m[t].verdicts = DecisionsOf(subs[t], n)
    BY <2>1
  <2>3. t \in Tasks /\ DOMAIN read'.submissions[t] = 1..n
    BY <1>2, <1>8, <2>1
  <2>4. CASE subs'[t] = subs[t]
    BY <1>2, <2>2, <2>3, <2>4
  <2>5. CASE subs'[t] # subs[t]
    <3>1. /\ Len(subs[t]) \in Nat /\ Len(subs'[t]) \in Nat /\ Len(subs[t]) <= Len(subs'[t])
          /\ n = Len(subs'[t]) \/ DecisionsOf(subs'[t], n) = DecisionsOf(subs[t], n)
      BY <1>0, <2>3, <2>5, AnswersGrow
    <3>2. n \in 0..Len(subs'[t])
      BY <3>1
    <3>3. \E w \in read'.seen : w[t].verdicts = DecisionsOf(subs'[t], n)
      BY <1>2, <1>3, <1>7, <1>8, <2>2, <3>1
    <3> QED  BY <2>3, <3>2, <3>3
  <2> QED  BY <2>4, <2>5
<1>9. ASSUME NEW t \in read.scope, Has("reviews"), GapsClear(t)
      PROVE  \E m \in read'.seen : m[t].verdicts = Last(read', t)
  <2>1. Last(read', t) = Last(read, t)
    BY <1>2, <1>9 DEF Last
  <2>2. \E m \in read.seen : m[t].verdicts = Last(read, t)
    BY <1>4, <1>9 DEF AnswersAt
  <2> QED  BY <1>2, <2>1, <2>2
<1>10. \A t : (Last(read, t))' = Last(read', t)
  BY DEF Last
<1> QED  BY <1>2, <1>3, <1>4, <1>5, <1>7, <1>8, <1>9, <1>10 DEF AnswersAt

-----------------------------------------------------------------------------
(* The SELECTs: nothing else changes.                                      *)

Frozen == UNCHANGED <<program, row, runs, ledger, truth, faults>>

LEMMA FrozenParts ==
  ASSUME Frozen
  PROVE  /\ UNCHANGED <<active, criteria, manifest, completion, row, runs, coverage, gaps,
                        execs, ops, subs, ran, remade, verdict, faults>>
         /\ Moment' = Moment
<1>1. UNCHANGED <<active, criteria, manifest, completion, row, runs, coverage, gaps,
                  execs, ops, subs, ran, remade, verdict, faults>>
  BY DEF Frozen, program, ledger, truth
<1>2. \A t : TraineeResets(t)' = TraineeResets(t)
  BY <1>1 DEF TraineeResets
<1> QED  BY <1>1, <1>2 DEF Moment

LEMMA AddedParts ==
  ASSUME ReadShape, read.pc # "idle", NEW field \in Fields, NEW value, NEW next,
         Added(field, value, next)
  PROVE  /\ \A f \in Fields \ {field} :
              (Has(f)' <=> Has(f)) /\ (Has(f) => read'[f] = read[f])
         /\ Has(field)' /\ read'[field] = value /\ read'.pc = next
         /\ DOMAIN read' = DOMAIN read \cup {field}
         /\ read'.scope = read.scope /\ read'.isProgram = read.isProgram
         /\ read'.seen = read.seen /\ read'.overlaps = read.overlaps
         /\ read.scope \subseteq Tasks /\ Moment \in read.seen
<1>1. Always \subseteq DOMAIN read
  BY DEF ReadShape, Required
<1>2. field \notin {"pc", "scope", "isProgram", "seen", "overlaps"}
  BY DEF Fields
<1>3. {"scope", "isProgram", "seen", "overlaps"} \subseteq DOMAIN read \ {field, "pc"}
  BY <1>1, <1>2 DEF Always
<1>4. \A f \in Fields : f # "pc"
  BY DEF Fields
<1>5. \A f \in Fields \ {field} : (Has(f)' <=> Has(f)) /\ (Has(f) => read'[f] = read[f])
  BY <1>4 DEF Added, Has
<1>6. Has(field)' /\ read'[field] = value /\ read'.pc = next
      /\ DOMAIN read' = DOMAIN read \cup {field}
  BY DEF Added, Has
<1>7. /\ read'.scope = read.scope /\ read'.isProgram = read.isProgram
      /\ read'.seen = read.seen /\ read'.overlaps = read.overlaps
  BY <1>3 DEF Added
<1> QED  BY <1>5, <1>6, <1>7 DEF ReadShape

LEMMA CoverageSelect ==
  ASSUME Reading, Frozen, read.pc # "idle", NEW field \in Fields, NEW value, NEW next,
         Added(field, value, next),
         field = "coverage" => value = Of(coverage)
  PROVE  CoverageSeen'
<1>0. ReadShape /\ CoverageSeen
  BY DEF Reading
<1>1. "coverage" \in Fields
  BY DEF Fields
<1>2. coverage' = coverage
  BY FrozenParts
<1>3. CASE field = "coverage"
  <2>1. read'[field] = value /\ read'.scope = read.scope
    BY <1>0, AddedParts
  <2>2. read'.coverage = Of(coverage)
    BY <1>3, <2>1
  <2> QED  BY <1>2, <2>1, <2>2 DEF CoverageSeen, Of
<1>4. CASE field # "coverage"
  <2>1. /\ Has("coverage")' <=> Has("coverage")
        /\ Has("coverage") => read'.coverage = read.coverage
        /\ read'.scope = read.scope
    BY <1>0, <1>1, <1>4, AddedParts
  <2> QED  BY <1>0, <1>2, <2>1 DEF CoverageSeen
<1> QED  BY <1>3, <1>4

LEMMA ResetsKept ==
  ASSUME Reading, Frozen, read.pc # "idle", NEW field \in Fields, NEW value, NEW next,
         Added(field, value, next), field # "environment"
  PROVE  ResetsSeen'
<1>0. ReadShape /\ ResetsSeen
  BY DEF Reading
<1>1. "environment" \in Fields
  BY DEF Fields
<1>2. /\ Has("environment")' <=> Has("environment")
      /\ Has("environment") => read'.environment = read.environment
      /\ read'.scope = read.scope /\ read'.seen = read.seen
  BY <1>0, <1>1, AddedParts
<1>3. ASSUME Has("environment"), NEW t
      PROVE  /\ OpsClear(read', t) <=> OpsClear(read, t)
             /\ Successful(read', t, {"trainee"}) = Successful(read, t, {"trainee"})
  BY <1>2, <1>3 DEF OpsClear, Successful
<1>4. ASSUME Has("environment")
      PROVE  \E m \in read'.seen : \A t \in read'.scope :
               OpsClear(read', t) => m[t].resets = Successful(read', t, {"trainee"})
  <2>1. PICK m \in read.seen : \A t \in read.scope :
          OpsClear(read, t) => m[t].resets = Successful(read, t, {"trainee"})
    BY <1>0, <1>4 DEF ResetsSeen
  <2> QED  BY <1>2, <1>3, <1>4, <2>1
<1> QED  BY <1>2, <1>4 DEF ResetsSeen

LEMMA ChecksKept ==
  ASSUME Reading, Frozen, read.pc # "idle", NEW field \in Fields, NEW value, NEW next,
         Added(field, value, next), field \notin {"checks", "events"}
  PROVE  ChecksSeen'
<1>0. ReadShape /\ ChecksSeen
  BY DEF Reading
<1>1. {"checks", "events"} \subseteq Fields
  BY DEF Fields
<1>2. /\ Has("checks")' <=> Has("checks")
      /\ Has("checks") => read'.checks = read.checks
      /\ Has("events")' <=> Has("events")
      /\ Has("events") => read'.events = read.events
      /\ read'.scope = read.scope /\ read'.seen = read.seen
  BY <1>0, <1>1, AddedParts
<1>3. execs' = execs /\ ran' = ran
  BY FrozenParts
<1>4. ASSUME NEW t \in read.scope, Has("checks")  PROVE  ListSeen(t)'
  <2>1. ListSeen(t)
    BY <1>0, <1>4 DEF ChecksSeen
  <2> QED  BY <1>2, <1>3, <1>4, <2>1 DEF ListSeen
<1>5. ASSUME NEW t \in read.scope, Has("events"), EventsClear(read', t)
      PROVE  \E m \in read'.seen : m[t].first = FirstCheck(read', t)
  <2>1. EventsClear(read, t) /\ FirstCheck(read', t) = FirstCheck(read, t)
    BY <1>2, <1>5 DEF EventsClear, FirstCheck
  <2> QED  BY <1>0, <1>2, <1>5, <2>1 DEF ChecksSeen
<1>6. \A t : EventsClear(read, t)' <=> EventsClear(read', t)
  BY DEF EventsClear
<1> QED  BY <1>2, <1>4, <1>5, <1>6 DEF ChecksSeen

LEMMA AnswersKept ==
  ASSUME Reading, AnswersSeen, Frozen, read.pc # "idle", NEW field \in Fields, NEW value,
         NEW next, Added(field, value, next),
         field \notin {"coverage", "gaps", "submissions", "reviews"}
  PROVE  AnswersSeen'
<1>0. ReadShape
  BY DEF Reading
<1>1. {"coverage", "gaps", "submissions", "reviews"} \subseteq Fields
  BY DEF Fields
<1>2. /\ Has("coverage") => read'.coverage = read.coverage
      /\ Has("gaps")' <=> Has("gaps")
      /\ Has("gaps") => read'.gaps = read.gaps
      /\ Has("submissions")' <=> Has("submissions")
      /\ Has("submissions") => read'.submissions = read.submissions
      /\ Has("reviews")' <=> Has("reviews")
      /\ Has("reviews") => read'.reviews = read.reviews
      /\ read'.scope = read.scope /\ read'.seen = read.seen /\ read'.overlaps = read.overlaps
  BY <1>0, <1>1, AddedParts
<1>3. /\ Has("gaps") => Has("coverage")
      /\ Has("submissions") => Has("gaps")
      /\ Has("reviews") => Has("submissions")
  BY <1>0 DEF ReadShape
<1>4. \A t \in read.scope : Has("gaps") => (GapsClear(t)' <=> GapsClear(t))
  BY <1>2, <1>3 DEF GapsClear
<1>5. subs' = subs /\ verdict' = verdict /\ faults' = faults
  BY FrozenParts
<1>6. \A t : Has("reviews") => (Last(read, t))' = Last(read, t)
  BY <1>2 DEF Last
<1> QED  BY <1>2, <1>3, <1>4, <1>5, <1>6 DEF AnswersSeen, AnswersAt, FewWrites

LEMMA PastSelect ==
  ASSUME Recorded, Reading, Frozen, read.pc # "idle", NEW field \in Fields, NEW value, NEW next,
         Added(field, value, next),
         field = "manifest" => value = manifest
  PROVE  PastSeen'
<1>0. ReadShape /\ PastSeen /\ PastKept
  BY DEF Reading, Recorded
<1>1. "manifest" \in Fields
  BY DEF Fields
<1>2. CASE field = "manifest"
  <2>1. read'[field] = value
    BY <1>0, AddedParts
  <2>2. read'.manifest = manifest
    BY <1>2, <2>1
  <2> QED  BY <1>0, <2>2 DEF PastSeen, PastKept
<1>3. CASE field # "manifest"
  <2>1. /\ Has("manifest")' <=> Has("manifest")
        /\ Has("manifest") => read'.manifest = read.manifest
    BY <1>0, <1>1, <1>3, AddedParts
  <2> QED  BY <1>0, <2>1 DEF PastSeen
<1> QED  BY <1>2, <1>3

LEMMA ProgramSelect ==
  ASSUME Recorded, Reading, Frozen, read.pc # "idle", NEW field \in Fields, NEW value, NEW next,
         Added(field, value, next),
         field = "manifest" => value = manifest /\ ~Has("rows"),
         field = "completion" => value = completion,
         field = "rows" => ~read.isProgram
  PROVE  ProgramSeen'
<1>0. ReadShape /\ ProgramSeen /\ manifest.tasks \subseteq Tasks /\ completion.tasks \subseteq Tasks
  BY DEF Reading, Recorded, TypeInv, Manifests
<1>1. {"manifest", "completion", "rows"} \subseteq Fields
  BY DEF Fields
<1>2. /\ \A f \in Fields \ {field} : (Has(f)' <=> Has(f)) /\ (Has(f) => read'[f] = read[f])
      /\ Has(field)' /\ read'[field] = value
      /\ read'.scope = read.scope /\ read'.isProgram = read.isProgram
  BY <1>0, AddedParts
<1>3. Has("rows") /\ read.isProgram => Has("manifest")
  BY <1>0 DEF ReadShape
<1>4. CASE field = "manifest"
  <2>1. /\ read'.manifest = manifest /\ ~Has("rows")'
        /\ Has("completion")' <=> Has("completion")
        /\ Has("completion") => read'.completion = read.completion
    BY <1>1, <1>2, <1>4
  <2> QED  BY <1>0, <2>1 DEF ProgramSeen
<1>5. CASE field = "completion"
  <2>1. /\ read'.completion = completion /\ (Has("rows")' <=> Has("rows"))
        /\ Has("manifest")' <=> Has("manifest")
        /\ Has("manifest") => read'.manifest = read.manifest
    BY <1>1, <1>2, <1>5
  <2> QED  BY <1>0, <1>2, <1>3, <2>1 DEF ProgramSeen
<1>6. CASE field \notin {"manifest", "completion"}
  <2>1. /\ Has("completion")' <=> Has("completion")
        /\ Has("completion") => read'.completion = read.completion
        /\ Has("manifest")' <=> Has("manifest")
        /\ Has("manifest") => read'.manifest = read.manifest
        /\ Has("rows")' /\ read'.isProgram => Has("rows") /\ read.isProgram
    BY <1>1, <1>2, <1>6
  <2> QED  BY <1>0, <1>2, <1>3, <2>1 DEF ProgramSeen
<1> QED  BY <1>4, <1>5, <1>6

\* What the tables say of t now, field by field.
Now(f, t) ==
  CASE f = "rows" -> Selected(t)
    [] f = "coverage" -> coverage[t]
    [] f = "gaps" -> gaps[t]
    [] f = "checks" -> [i \in DOMAIN execs[t] |->
         [source |-> execs[t][i].source, criteria |-> execs[t][i].criteria]]
    [] f = "events" -> [i \in DOMAIN execs[t] |->
         [begun |-> execs[t][i].begun, end |-> execs[t][i].end]]
    [] f = "environment" -> ops[t]
    [] f = "submissions" -> [i \in DOMAIN subs[t] |-> subs[t][i].body]
    [] f = "reviews" -> [i \in DOMAIN subs[t] |-> subs[t][i].reviews]
    [] f = "runs" -> runs[t]

AttemptFields == {"rows", "coverage", "gaps", "checks", "events", "environment",
                  "submissions", "reviews", "runs"}

LEMMA NowIs ==
  ASSUME NEW t
  PROVE  /\ Now("rows", t) = Selected(t)
         /\ Now("coverage", t) = coverage[t]
         /\ Now("gaps", t) = gaps[t]
         /\ Now("checks", t) = [i \in DOMAIN execs[t] |->
              [source |-> execs[t][i].source, criteria |-> execs[t][i].criteria]]
         /\ Now("events", t) = [i \in DOMAIN execs[t] |->
              [begun |-> execs[t][i].begun, end |-> execs[t][i].end]]
         /\ Now("environment", t) = ops[t]
         /\ Now("submissions", t) = [i \in DOMAIN subs[t] |-> subs[t][i].body]
         /\ Now("reviews", t) = [i \in DOMAIN subs[t] |-> subs[t][i].reviews]
         /\ Now("runs", t) = runs[t]
BY DEF Now

LEMMA QuietNow ==
  QuietSeen <=> (read.pc # "idle" /\ read.overlaps = 0 =>
                   \A t \in read.scope, f \in AttemptFields : Has(f) => read[f][t] = Now(f, t))
<1>1. ASSUME NEW t
      PROVE  /\ Now("rows", t) = Selected(t)
             /\ Now("coverage", t) = coverage[t]
             /\ Now("gaps", t) = gaps[t]
             /\ Now("checks", t) = [i \in DOMAIN execs[t] |->
                  [source |-> execs[t][i].source, criteria |-> execs[t][i].criteria]]
             /\ Now("events", t) = [i \in DOMAIN execs[t] |->
                  [begun |-> execs[t][i].begun, end |-> execs[t][i].end]]
             /\ Now("environment", t) = ops[t]
             /\ Now("submissions", t) = [i \in DOMAIN subs[t] |-> subs[t][i].body]
             /\ Now("reviews", t) = [i \in DOMAIN subs[t] |-> subs[t][i].reviews]
             /\ Now("runs", t) = runs[t]
  BY NowIs
<1>2. ASSUME NEW t, \A f \in AttemptFields : Has(f) => read[f][t] = Now(f, t)
      PROVE  /\ Has("rows") => read.rows[t] = Now("rows", t)
             /\ Has("coverage") => read.coverage[t] = Now("coverage", t)
             /\ Has("gaps") => read.gaps[t] = Now("gaps", t)
             /\ Has("checks") => read.checks[t] = Now("checks", t)
             /\ Has("events") => read.events[t] = Now("events", t)
             /\ Has("environment") => read.environment[t] = Now("environment", t)
             /\ Has("submissions") => read.submissions[t] = Now("submissions", t)
             /\ Has("reviews") => read.reviews[t] = Now("reviews", t)
             /\ Has("runs") => read.runs[t] = Now("runs", t)
  <2>1. /\ "rows" \in AttemptFields /\ "coverage" \in AttemptFields /\ "gaps" \in AttemptFields
        /\ "checks" \in AttemptFields /\ "events" \in AttemptFields
        /\ "environment" \in AttemptFields /\ "submissions" \in AttemptFields
        /\ "reviews" \in AttemptFields /\ "runs" \in AttemptFields
    BY DEF AttemptFields
  <2> QED  BY <1>2, <2>1
<1>3. ASSUME NEW t, NEW f \in AttemptFields, Has(f),
             Has("rows") => read.rows[t] = Now("rows", t),
             Has("coverage") => read.coverage[t] = Now("coverage", t),
             Has("gaps") => read.gaps[t] = Now("gaps", t),
             Has("checks") => read.checks[t] = Now("checks", t),
             Has("events") => read.events[t] = Now("events", t),
             Has("environment") => read.environment[t] = Now("environment", t),
             Has("submissions") => read.submissions[t] = Now("submissions", t),
             Has("reviews") => read.reviews[t] = Now("reviews", t),
             Has("runs") => read.runs[t] = Now("runs", t)
      PROVE  read[f][t] = Now(f, t)
  <2>1. CASE f = "rows"
    BY <1>3, <2>1
  <2>2. CASE f = "coverage"
    BY <1>3, <2>2
  <2>3. CASE f = "gaps"
    BY <1>3, <2>3
  <2>4. CASE f = "checks"
    BY <1>3, <2>4
  <2>5. CASE f = "events"
    BY <1>3, <2>5
  <2>6. CASE f = "environment"
    BY <1>3, <2>6
  <2>7. CASE f = "submissions"
    BY <1>3, <2>7
  <2>8. CASE f = "reviews"
    BY <1>3, <2>8
  <2>9. CASE f = "runs"
    BY <1>3, <2>9
  <2> QED  BY <1>3, <2>1, <2>2, <2>3, <2>4, <2>5, <2>6, <2>7, <2>8, <2>9 DEF AttemptFields
<1>4. ASSUME QuietSeen, read.pc # "idle", read.overlaps = 0,
             NEW t \in read.scope, NEW f \in AttemptFields, Has(f)
      PROVE  read[f][t] = Now(f, t)
  <2>1. /\ Has("rows") => read.rows[t] = Now("rows", t)
        /\ Has("coverage") => read.coverage[t] = Now("coverage", t)
        /\ Has("gaps") => read.gaps[t] = Now("gaps", t)
        /\ Has("checks") => read.checks[t] = Now("checks", t)
        /\ Has("events") => read.events[t] = Now("events", t)
        /\ Has("environment") => read.environment[t] = Now("environment", t)
        /\ Has("submissions") => read.submissions[t] = Now("submissions", t)
        /\ Has("reviews") => read.reviews[t] = Now("reviews", t)
        /\ Has("runs") => read.runs[t] = Now("runs", t)
    BY <1>1, <1>4 DEF QuietSeen
  <2> QED  BY <1>3, <1>4, <2>1
<1>5. ASSUME read.pc # "idle" /\ read.overlaps = 0 =>
               \A t \in read.scope, f \in AttemptFields : Has(f) => read[f][t] = Now(f, t)
      PROVE  QuietSeen
  <2> SUFFICES ASSUME read.pc # "idle", read.overlaps = 0, NEW t \in read.scope
               PROVE  \A f \in AttemptFields : Has(f) => read[f][t] = Now(f, t)
    BY <1>1, <1>2 DEF QuietSeen
  <2> QED  BY <1>5
<1> QED  BY <1>4, <1>5

LEMMA NowFrozen ==
  ASSUME Frozen
  PROVE  \A f \in AttemptFields, t \in Tasks : Now(f, t)' = Now(f, t)
<1>1. /\ row' = row /\ runs' = runs /\ coverage' = coverage /\ gaps' = gaps /\ execs' = execs
      /\ ops' = ops /\ subs' = subs
  BY FrozenParts
<1> QED  BY <1>1 DEF Now, AttemptFields, Selected, Technical

LEMMA QuietSelect ==
  ASSUME Reading, Frozen, read.pc # "idle", NEW field \in Fields, NEW value, NEW next,
         Added(field, value, next),
         read.overlaps = 0 => \A t \in read.scope :
           field \in AttemptFields => value[t] = Now(field, t)
  PROVE  QuietSeen'
<1>0. ReadShape /\ QuietSeen
  BY DEF Reading
<1>1. /\ \A f \in Fields \ {field} : (Has(f)' <=> Has(f)) /\ (Has(f) => read'[f] = read[f])
      /\ read'[field] = value
      /\ read'.scope = read.scope /\ read'.overlaps = read.overlaps /\ read.scope \subseteq Tasks
  BY <1>0, AddedParts
<1>2. AttemptFields \subseteq Fields
  BY DEF AttemptFields, Fields
<1>3. ASSUME read'.overlaps = 0, NEW t \in read.scope, NEW f \in AttemptFields, Has(f)'
      PROVE  read'[f][t] = Now(f, t)'
  <2>1. Now(f, t)' = Now(f, t)
    BY <1>1, NowFrozen
  <2>2. CASE f = field
    BY <1>1, <1>3, <2>1, <2>2
  <2>3. CASE f # field
    BY <1>0, <1>1, <1>2, <1>3, <2>1, <2>3, QuietNow
  <2> QED  BY <2>2, <2>3
<1>4. (QuietSeen <=> (read.pc # "idle" /\ read.overlaps = 0 =>
         \A t \in read.scope, f \in AttemptFields : Has(f) => read[f][t] = Now(f, t)))'
  BY QuietNow, PTL
<1>5. \A t \in read'.scope, f \in AttemptFields :
        read'.overlaps = 0 /\ Has(f)' => read'[f][t] = Now(f, t)'
  BY <1>1, <1>3
<1> QED  BY <1>4, <1>5

LEMMA ShapeSelect ==
  ASSUME ReadShape, Frozen, read.pc # "idle", NEW field \in Fields, NEW value, NEW next,
         Added(field, value, next),
         next \in DOMAIN Required,
         next \notin {"idle", "manifest", "attempts"},
         Required[next] \subseteq Required[read.pc] \cup {field},
         Required[read.pc] \cup {field} \subseteq Required[next] \cup {"manifest", "completion"},
         next \in {"completion", "credit"} =>
           /\ DOMAIN read = Required[read.pc]
           /\ Required[next] = Required[read.pc] \cup {field},
         field = "rows" => ~read.isProgram,
         field = "gaps" => Has("coverage"),
         field = "submissions" => Has("gaps"),
         field = "reviews" => Has("submissions")
  PROVE  ReadShape'
<1>1. /\ \A f \in Fields \ {field} : (Has(f)' <=> Has(f))
      /\ Has(field)' /\ read'.pc = next
      /\ DOMAIN read' = DOMAIN read \cup {field}
      /\ read'.scope = read.scope /\ read'.isProgram = read.isProgram
      /\ read'.seen = read.seen /\ read'.overlaps = read.overlaps
      /\ read.scope \subseteq Tasks /\ Moment \in read.seen
  BY AddedParts
<1>2. Moment' \in read'.seen
  BY <1>1, FrozenParts
<1>3. /\ Required[next] \subseteq DOMAIN read'
      /\ DOMAIN read' \subseteq Required[next] \cup {"manifest", "completion"}
      /\ next \in {"completion", "credit"} => DOMAIN read' = Required[next]
  BY <1>1 DEF ReadShape
<1>4. {"rows", "manifest", "completion", "coverage", "gaps", "submissions", "reviews"}
        \subseteq Fields
  BY DEF Fields
<1>5. /\ Has("rows")' /\ read'.isProgram => Has("manifest")' /\ Has("completion")'
      /\ Has("gaps")' => Has("coverage")'
      /\ Has("submissions")' => Has("gaps")'
      /\ Has("reviews")' => Has("submissions")'
  BY <1>1, <1>4 DEF ReadShape
<1> QED  BY <1>1, <1>2, <1>3, <1>5 DEF ReadShape

LEMMA PcThere ==
  ASSUME ReadShape  PROVE  "pc" \in DOMAIN read
BY DEF ReadShape, Required, Always

LEMMA SelectManifestShape ==
  ASSUME Recorded, Reading, Frozen, SelectManifest
  PROVE  /\ ReadShape' /\ CoverageSeen' /\ PastSeen' /\ ProgramSeen' /\ QuietSeen'
         /\ read.pc = "manifest" /\ Added("manifest", manifest, "completion")
<1> DEFINE value == manifest
<1>0. ReadShape
  BY DEF Reading
<1>1. read.pc = "manifest" /\ Added("manifest", value, "completion")
  BY <1>0, PcThere, SelectAdds DEF SelectManifest
<1>2. /\ "completion" \in DOMAIN Required
      /\ Required["completion"] \subseteq Required["manifest"] \cup {"manifest"}
      /\ Required["manifest"] \cup {"manifest"} \subseteq Required["completion"] \cup {"manifest", "completion"}
  BY DEF Required
<1>3. "manifest" \in Fields
  BY DEF Fields
<1>4. /\ DOMAIN read = Required["manifest"]
      /\ Required["completion"] = Required["manifest"] \cup {"manifest"}
      /\ ~Has("rows")
  BY <1>0, <1>1 DEF ReadShape, Required, Always, Has
<1>5. read.overlaps = 0 => \A t \in read.scope :
        "manifest" \in AttemptFields => value[t] = Now("manifest", t)
  BY DEF AttemptFields
<1> HIDE DEF value
<1>6. ReadShape'
  BY <1>0, <1>1, <1>2, <1>3, <1>4, ShapeSelect
<1>7. CoverageSeen' /\ PastSeen' /\ ProgramSeen'
  BY <1>1, <1>3, <1>4, CoverageSelect, PastSelect, ProgramSelect DEF value
<1>8. QuietSeen'
  BY <1>1, <1>3, <1>5, QuietSelect
<1>9. Added("manifest", manifest, "completion")
  BY <1>1 DEF value
<1> QED  BY <1>1, <1>6, <1>7, <1>8, <1>9

LEMMA SelectCompletionShape ==
  ASSUME Recorded, Reading, Frozen, SelectCompletion
  PROVE  /\ ReadShape' /\ CoverageSeen' /\ PastSeen' /\ ProgramSeen' /\ QuietSeen'
         /\ read.pc = "completion" /\ Added("completion", completion, "credit")
<1> DEFINE value == completion
<1>0. ReadShape
  BY DEF Reading
<1>1. read.pc = "completion" /\ Added("completion", value, "credit")
  BY <1>0, PcThere, SelectAdds DEF SelectCompletion
<1>2. /\ "credit" \in DOMAIN Required
      /\ Required["credit"] \subseteq Required["completion"] \cup {"completion"}
      /\ Required["completion"] \cup {"completion"} \subseteq Required["credit"] \cup {"manifest", "completion"}
  BY DEF Required
<1>3. "completion" \in Fields
  BY DEF Fields
<1>4. /\ DOMAIN read = Required["completion"]
      /\ Required["credit"] = Required["completion"] \cup {"completion"}
  BY <1>0, <1>1 DEF ReadShape, Required
<1>5. read.overlaps = 0 => \A t \in read.scope :
        "completion" \in AttemptFields => value[t] = Now("completion", t)
  BY DEF AttemptFields
<1> HIDE DEF value
<1>6. ReadShape'
  BY <1>0, <1>1, <1>2, <1>3, <1>4, ShapeSelect
<1>7. CoverageSeen' /\ PastSeen' /\ ProgramSeen'
  BY <1>1, <1>3, <1>4, CoverageSelect, PastSelect, ProgramSelect DEF value
<1>8. QuietSeen'
  BY <1>1, <1>3, <1>5, QuietSelect
<1>9. Added("completion", completion, "credit")
  BY <1>1 DEF value
<1> QED  BY <1>1, <1>6, <1>7, <1>8, <1>9

LEMMA SelectAttemptsShape ==
  ASSUME Recorded, Reading, Frozen, SelectAttempts
  PROVE  /\ ReadShape' /\ CoverageSeen' /\ PastSeen' /\ ProgramSeen' /\ QuietSeen'
         /\ read.pc = "attempts" /\ Added("rows", [t \in read.scope |-> Selected(t)], "coverage")
<1> DEFINE value == [t \in read.scope |-> Selected(t)]
<1>0. ReadShape
  BY DEF Reading
<1>1. read.pc = "attempts" /\ Added("rows", value, "coverage")
  BY <1>0, PcThere, SelectAdds DEF SelectAttempts
<1>2. /\ "coverage" \in DOMAIN Required
      /\ Required["coverage"] \subseteq Required["attempts"] \cup {"rows"}
      /\ Required["attempts"] \cup {"rows"} \subseteq Required["coverage"] \cup {"manifest", "completion"}
  BY DEF Required
<1>3. "rows" \in Fields
  BY DEF Fields
<1>4. ~read.isProgram
  BY <1>0, <1>1 DEF ReadShape
<1>5. read.overlaps = 0 => \A t \in read.scope :
        "rows" \in AttemptFields => value[t] = Now("rows", t)
  BY NowIs
<1> HIDE DEF value
<1>6. ReadShape'
  BY <1>0, <1>1, <1>2, <1>3, <1>4, ShapeSelect
<1>7. CoverageSeen' /\ PastSeen' /\ ProgramSeen'
  BY <1>1, <1>3, <1>4, CoverageSelect, PastSelect, ProgramSelect
<1>8. QuietSeen'
  BY <1>1, <1>3, <1>5, QuietSelect
<1>9. Added("rows", [t \in read.scope |-> Selected(t)], "coverage")
  BY <1>1 DEF value
<1> QED  BY <1>1, <1>6, <1>7, <1>8, <1>9

LEMMA SelectCoverageShape ==
  ASSUME Recorded, Reading, Frozen, SelectCoverage
  PROVE  /\ ReadShape' /\ CoverageSeen' /\ PastSeen' /\ ProgramSeen' /\ QuietSeen'
         /\ read.pc = "coverage" /\ Added("coverage", Of(coverage), "gaps")
<1> DEFINE value == Of(coverage)
<1>0. ReadShape
  BY DEF Reading
<1>1. read.pc = "coverage" /\ Added("coverage", value, "gaps")
  BY <1>0, PcThere, SelectAdds DEF SelectCoverage
<1>2. /\ "gaps" \in DOMAIN Required
      /\ Required["gaps"] \subseteq Required["coverage"] \cup {"coverage"}
      /\ Required["coverage"] \cup {"coverage"} \subseteq Required["gaps"] \cup {"manifest", "completion"}
  BY DEF Required
<1>3. "coverage" \in Fields
  BY DEF Fields
<1>4. TRUE
  OBVIOUS
<1>5. read.overlaps = 0 => \A t \in read.scope :
        "coverage" \in AttemptFields => value[t] = Now("coverage", t)
  BY NowIs DEF Of
<1> HIDE DEF value
<1>6. ReadShape'
  BY <1>0, <1>1, <1>2, <1>3, <1>4, ShapeSelect
<1>7. CoverageSeen' /\ PastSeen' /\ ProgramSeen'
  BY <1>1, <1>3, <1>4, CoverageSelect, PastSelect, ProgramSelect DEF value
<1>8. QuietSeen'
  BY <1>1, <1>3, <1>5, QuietSelect
<1>9. Added("coverage", Of(coverage), "gaps")
  BY <1>1 DEF value
<1> QED  BY <1>1, <1>6, <1>7, <1>8, <1>9

LEMMA SelectGapsShape ==
  ASSUME Recorded, Reading, Frozen, SelectGaps
  PROVE  /\ ReadShape' /\ CoverageSeen' /\ PastSeen' /\ ProgramSeen' /\ QuietSeen'
         /\ read.pc = "gaps" /\ Added("gaps", Of(gaps), "checks")
<1> DEFINE value == Of(gaps)
<1>0. ReadShape
  BY DEF Reading
<1>1. read.pc = "gaps" /\ Added("gaps", value, "checks")
  BY <1>0, PcThere, SelectAdds DEF SelectGaps
<1>2. /\ "checks" \in DOMAIN Required
      /\ Required["checks"] \subseteq Required["gaps"] \cup {"gaps"}
      /\ Required["gaps"] \cup {"gaps"} \subseteq Required["checks"] \cup {"manifest", "completion"}
  BY DEF Required
<1>3. "gaps" \in Fields
  BY DEF Fields
<1>4. Has("coverage")
  BY <1>0, <1>1 DEF ReadShape, Required, Has
<1>5. read.overlaps = 0 => \A t \in read.scope :
        "gaps" \in AttemptFields => value[t] = Now("gaps", t)
  BY NowIs DEF Of
<1> HIDE DEF value
<1>6. ReadShape'
  BY <1>0, <1>1, <1>2, <1>3, <1>4, ShapeSelect
<1>7. CoverageSeen' /\ PastSeen' /\ ProgramSeen'
  BY <1>1, <1>3, <1>4, CoverageSelect, PastSelect, ProgramSelect
<1>8. QuietSeen'
  BY <1>1, <1>3, <1>5, QuietSelect
<1>9. Added("gaps", Of(gaps), "checks")
  BY <1>1 DEF value
<1> QED  BY <1>1, <1>6, <1>7, <1>8, <1>9

LEMMA SelectChecksShape ==
  ASSUME Recorded, Reading, Frozen, SelectChecks
  PROVE  /\ ReadShape' /\ CoverageSeen' /\ PastSeen' /\ ProgramSeen' /\ QuietSeen'
         /\ read.pc = "checks" /\ Added("checks", [t \in read.scope |-> [i \in DOMAIN execs[t] |->
              [source |-> execs[t][i].source, criteria |-> execs[t][i].criteria]]], "events")
<1> DEFINE value == [t \in read.scope |-> [i \in DOMAIN execs[t] |->
              [source |-> execs[t][i].source, criteria |-> execs[t][i].criteria]]]
<1>0. ReadShape
  BY DEF Reading
<1>1. read.pc = "checks" /\ Added("checks", value, "events")
  BY <1>0, PcThere, SelectAdds DEF SelectChecks
<1>2. /\ "events" \in DOMAIN Required
      /\ Required["events"] \subseteq Required["checks"] \cup {"checks"}
      /\ Required["checks"] \cup {"checks"} \subseteq Required["events"] \cup {"manifest", "completion"}
  BY DEF Required
<1>3. "checks" \in Fields
  BY DEF Fields
<1>4. TRUE
  OBVIOUS
<1>5. read.overlaps = 0 => \A t \in read.scope :
        "checks" \in AttemptFields => value[t] = Now("checks", t)
  BY NowIs
<1> HIDE DEF value
<1>6. ReadShape'
  BY <1>0, <1>1, <1>2, <1>3, <1>4, ShapeSelect
<1>7. CoverageSeen' /\ PastSeen' /\ ProgramSeen'
  BY <1>1, <1>3, <1>4, CoverageSelect, PastSelect, ProgramSelect
<1>8. QuietSeen'
  BY <1>1, <1>3, <1>5, QuietSelect
<1>9. Added("checks", [t \in read.scope |-> [i \in DOMAIN execs[t] |->
              [source |-> execs[t][i].source, criteria |-> execs[t][i].criteria]]], "events")
  BY <1>1 DEF value
<1> QED  BY <1>1, <1>6, <1>7, <1>8, <1>9

LEMMA SelectEventsShape ==
  ASSUME Recorded, Reading, Frozen, SelectEvents
  PROVE  /\ ReadShape' /\ CoverageSeen' /\ PastSeen' /\ ProgramSeen' /\ QuietSeen'
         /\ read.pc = "events" /\ Added("events", [t \in read.scope |-> [i \in DOMAIN read.checks[t] |->
              [begun |-> execs[t][i].begun, end |-> execs[t][i].end]]], "environment")
<1> DEFINE value == [t \in read.scope |-> [i \in DOMAIN read.checks[t] |->
              [begun |-> execs[t][i].begun, end |-> execs[t][i].end]]]
<1>0. ReadShape
  BY DEF Reading
<1>1. read.pc = "events" /\ Added("events", value, "environment")
  BY <1>0, PcThere, SelectAdds DEF SelectEvents
<1>2. /\ "environment" \in DOMAIN Required
      /\ Required["environment"] \subseteq Required["events"] \cup {"events"}
      /\ Required["events"] \cup {"events"} \subseteq Required["environment"] \cup {"manifest", "completion"}
  BY DEF Required
<1>3. "events" \in Fields
  BY DEF Fields
<1>4. TRUE
  OBVIOUS
<1>5. read.overlaps = 0 => \A t \in read.scope :
        "events" \in AttemptFields => value[t] = Now("events", t)
  <2> SUFFICES ASSUME read.overlaps = 0, NEW t \in read.scope
               PROVE  value[t] = Now("events", t)
    OBVIOUS
  <2>1. Has("checks") /\ "checks" \in AttemptFields /\ read.pc # "idle"
    BY <1>0, <1>1 DEF ReadShape, Required, Has, AttemptFields
  <2>2. read.checks[t] = Now("checks", t)
    BY <2>1, QuietNow DEF Reading
  <2>3. DOMAIN read.checks[t] = DOMAIN execs[t]
    BY <2>2, NowIs
  <2> QED  BY <2>3, NowIs
<1> HIDE DEF value
<1>6. ReadShape'
  BY <1>0, <1>1, <1>2, <1>3, <1>4, ShapeSelect
<1>7. CoverageSeen' /\ PastSeen' /\ ProgramSeen'
  BY <1>1, <1>3, <1>4, CoverageSelect, PastSelect, ProgramSelect
<1>8. QuietSeen'
  BY <1>1, <1>3, <1>5, QuietSelect
<1>9. Added("events", [t \in read.scope |-> [i \in DOMAIN read.checks[t] |->
              [begun |-> execs[t][i].begun, end |-> execs[t][i].end]]], "environment")
  BY <1>1 DEF value
<1> QED  BY <1>1, <1>6, <1>7, <1>8, <1>9

LEMMA SelectEnvironmentShape ==
  ASSUME Recorded, Reading, Frozen, SelectEnvironment
  PROVE  /\ ReadShape' /\ CoverageSeen' /\ PastSeen' /\ ProgramSeen' /\ QuietSeen'
         /\ read.pc = "environment" /\ Added("environment", Of(ops), "submissions")
<1> DEFINE value == Of(ops)
<1>0. ReadShape
  BY DEF Reading
<1>1. read.pc = "environment" /\ Added("environment", value, "submissions")
  BY <1>0, PcThere, SelectAdds DEF SelectEnvironment
<1>2. /\ "submissions" \in DOMAIN Required
      /\ Required["submissions"] \subseteq Required["environment"] \cup {"environment"}
      /\ Required["environment"] \cup {"environment"} \subseteq Required["submissions"] \cup {"manifest", "completion"}
  BY DEF Required
<1>3. "environment" \in Fields
  BY DEF Fields
<1>4. TRUE
  OBVIOUS
<1>5. read.overlaps = 0 => \A t \in read.scope :
        "environment" \in AttemptFields => value[t] = Now("environment", t)
  BY NowIs DEF Of
<1> HIDE DEF value
<1>6. ReadShape'
  BY <1>0, <1>1, <1>2, <1>3, <1>4, ShapeSelect
<1>7. CoverageSeen' /\ PastSeen' /\ ProgramSeen'
  BY <1>1, <1>3, <1>4, CoverageSelect, PastSelect, ProgramSelect
<1>8. QuietSeen'
  BY <1>1, <1>3, <1>5, QuietSelect
<1>9. Added("environment", Of(ops), "submissions")
  BY <1>1 DEF value
<1> QED  BY <1>1, <1>6, <1>7, <1>8, <1>9

LEMMA SelectSubmissionsShape ==
  ASSUME Recorded, Reading, Frozen, SelectSubmissions
  PROVE  /\ ReadShape' /\ CoverageSeen' /\ PastSeen' /\ ProgramSeen' /\ QuietSeen'
         /\ read.pc = "submissions" /\ Added("submissions", [t \in read.scope |-> [i \in DOMAIN subs[t] |-> subs[t][i].body]], "reviews")
<1> DEFINE value == [t \in read.scope |-> [i \in DOMAIN subs[t] |-> subs[t][i].body]]
<1>0. ReadShape
  BY DEF Reading
<1>1. read.pc = "submissions" /\ Added("submissions", value, "reviews")
  BY <1>0, PcThere, SelectAdds DEF SelectSubmissions
<1>2. /\ "reviews" \in DOMAIN Required
      /\ Required["reviews"] \subseteq Required["submissions"] \cup {"submissions"}
      /\ Required["submissions"] \cup {"submissions"} \subseteq Required["reviews"] \cup {"manifest", "completion"}
  BY DEF Required
<1>3. "submissions" \in Fields
  BY DEF Fields
<1>4. Has("gaps")
  BY <1>0, <1>1 DEF ReadShape, Required, Has
<1>5. read.overlaps = 0 => \A t \in read.scope :
        "submissions" \in AttemptFields => value[t] = Now("submissions", t)
  BY NowIs
<1> HIDE DEF value
<1>6. ReadShape'
  BY <1>0, <1>1, <1>2, <1>3, <1>4, ShapeSelect
<1>7. CoverageSeen' /\ PastSeen' /\ ProgramSeen'
  BY <1>1, <1>3, <1>4, CoverageSelect, PastSelect, ProgramSelect
<1>8. QuietSeen'
  BY <1>1, <1>3, <1>5, QuietSelect
<1>9. Added("submissions", [t \in read.scope |-> [i \in DOMAIN subs[t] |-> subs[t][i].body]], "reviews")
  BY <1>1 DEF value
<1> QED  BY <1>1, <1>6, <1>7, <1>8, <1>9

LEMMA SelectReviewsShape ==
  ASSUME Recorded, Reading, Frozen, SelectReviews
  PROVE  /\ ReadShape' /\ CoverageSeen' /\ PastSeen' /\ ProgramSeen' /\ QuietSeen'
         /\ read.pc = "reviews" /\ Added("reviews", [t \in read.scope |-> [i \in DOMAIN read.submissions[t] |-> subs[t][i].reviews]], "runs")
<1> DEFINE value == [t \in read.scope |-> [i \in DOMAIN read.submissions[t] |-> subs[t][i].reviews]]
<1>0. ReadShape
  BY DEF Reading
<1>1. read.pc = "reviews" /\ Added("reviews", value, "runs")
  BY <1>0, PcThere, SelectAdds DEF SelectReviews
<1>2. /\ "runs" \in DOMAIN Required
      /\ Required["runs"] \subseteq Required["reviews"] \cup {"reviews"}
      /\ Required["reviews"] \cup {"reviews"} \subseteq Required["runs"] \cup {"manifest", "completion"}
  BY DEF Required
<1>3. "reviews" \in Fields
  BY DEF Fields
<1>4. Has("submissions")
  BY <1>0, <1>1 DEF ReadShape, Required, Has
<1>5. read.overlaps = 0 => \A t \in read.scope :
        "reviews" \in AttemptFields => value[t] = Now("reviews", t)
  <2> SUFFICES ASSUME read.overlaps = 0, NEW t \in read.scope
               PROVE  value[t] = Now("reviews", t)
    OBVIOUS
  <2>1. Has("submissions") /\ "submissions" \in AttemptFields /\ read.pc # "idle"
    BY <1>0, <1>1 DEF ReadShape, Required, Has, AttemptFields
  <2>2. read.submissions[t] = Now("submissions", t)
    BY <2>1, QuietNow DEF Reading
  <2>3. DOMAIN read.submissions[t] = DOMAIN subs[t]
    BY <2>2, NowIs
  <2> QED  BY <2>3, NowIs
<1> HIDE DEF value
<1>6. ReadShape'
  BY <1>0, <1>1, <1>2, <1>3, <1>4, ShapeSelect
<1>7. CoverageSeen' /\ PastSeen' /\ ProgramSeen'
  BY <1>1, <1>3, <1>4, CoverageSelect, PastSelect, ProgramSelect
<1>8. QuietSeen'
  BY <1>1, <1>3, <1>5, QuietSelect
<1>9. Added("reviews", [t \in read.scope |-> [i \in DOMAIN read.submissions[t] |-> subs[t][i].reviews]], "runs")
  BY <1>1 DEF value
<1> QED  BY <1>1, <1>6, <1>7, <1>8, <1>9

LEMMA SelectRunsShape ==
  ASSUME Recorded, Reading, Frozen, SelectRuns
  PROVE  /\ ReadShape' /\ CoverageSeen' /\ PastSeen' /\ ProgramSeen' /\ QuietSeen'
         /\ read.pc = "runs" /\ Added("runs", Of(runs), "done")
<1> DEFINE value == Of(runs)
<1>0. ReadShape
  BY DEF Reading
<1>1. read.pc = "runs" /\ Added("runs", value, "done")
  BY <1>0, PcThere, SelectAdds DEF SelectRuns
<1>2. /\ "done" \in DOMAIN Required
      /\ Required["done"] \subseteq Required["runs"] \cup {"runs"}
      /\ Required["runs"] \cup {"runs"} \subseteq Required["done"] \cup {"manifest", "completion"}
  BY DEF Required
<1>3. "runs" \in Fields
  BY DEF Fields
<1>4. TRUE
  OBVIOUS
<1>5. read.overlaps = 0 => \A t \in read.scope :
        "runs" \in AttemptFields => value[t] = Now("runs", t)
  BY NowIs DEF Of
<1> HIDE DEF value
<1>6. ReadShape'
  BY <1>0, <1>1, <1>2, <1>3, <1>4, ShapeSelect
<1>7. CoverageSeen' /\ PastSeen' /\ ProgramSeen'
  BY <1>1, <1>3, <1>4, CoverageSelect, PastSelect, ProgramSelect
<1>8. QuietSeen'
  BY <1>1, <1>3, <1>5, QuietSelect
<1>9. Added("runs", Of(runs), "done")
  BY <1>1 DEF value
<1> QED  BY <1>1, <1>6, <1>7, <1>8, <1>9

-----------------------------------------------------------------------------
(* Checks: the first that ran.                                             *)

LEMMA MinOf ==
  ASSUME NEW S \in SUBSET Nat, S # {}
  PROVE  Min(S) \in S /\ \A y \in S : Min(S) <= y
<1>1. \E x \in S : \A y \in S : x <= y
  <2>1. PICK x \in S : \A y \in Nat : <<y, x>> \in OpToRel(<, Nat) => y \notin S
    BY NatLessThanWellFounded, WFMin
  <2>2. \A y \in S : ~(y < x)
    BY <2>1 DEF OpToRel
  <2>3. \A y \in S : x <= y
    BY <2>2
  <2> QED  BY <2>3
<1> QED  BY <1>1 DEF Min

LEMMA ChecksListed ==
  ASSUME Recorded, Reading, Frozen, SelectChecks
  PROVE  ChecksSeen'
<1> DEFINE value == [t \in read.scope |-> [i \in DOMAIN execs[t] |->
              [source |-> execs[t][i].source, criteria |-> execs[t][i].criteria]]]
<1>0. ReadShape /\ TypeInv /\ ChecksRecorded
  BY DEF Reading, Recorded
<1>1. read.pc = "checks" /\ Added("checks", value, "events")
  BY SelectChecksShape
<1>2. {"checks", "events"} \subseteq Fields
  BY DEF Fields
<1>3. ~Has("events")
  BY <1>0, <1>1 DEF ReadShape, Required, Always, Has
<1>4. /\ read'.checks = value /\ ~Has("events")'
      /\ read'.scope = read.scope /\ read'.seen = read.seen
      /\ read.scope \subseteq Tasks /\ Moment \in read.seen
  <2> HIDE DEF value
  <2> QED  BY <1>0, <1>1, <1>2, <1>3, AddedParts
<1>5. execs' = execs /\ ran' = ran
  BY FrozenParts
<1>6. ASSUME NEW t \in read.scope  PROVE  ListSeen(t)'
  <2>1. t \in Tasks /\ Len(execs[t]) \in Nat /\ DOMAIN execs[t] = 1..Len(execs[t])
        /\ Len(ran[t]) = Len(execs[t]) /\ DOMAIN ran[t] = 1..Len(ran[t])
    BY <1>0, <1>4, Listed DEF ChecksRecorded, TypeInv
  <2>2. PICK n \in 0..Len(execs[t]) : n = Len(execs[t])
    BY <2>1
  <2>3. DOMAIN read'.checks[t] = 1..n
    BY <1>4, <2>1, <2>2
  <2>4. (\A i \in 1..n : ran[t][i] = "no") => Moment[t].first = <<0, "none">>
    BY <2>1, <2>2 DEF Moment, FirstRan
  <2> QED  BY <1>4, <1>5, <2>3, <2>4 DEF ListSeen
<1> QED  BY <1>4, <1>6 DEF ChecksSeen

\* What the events of an execution that speak clearly say of it.
LEMMA ClearlyTold ==
  ASSUME NEW e, NEW r \in Results \cup {"no"}, Told(e, r), e.end # Pending,
         e.end.result = "unknown" => e.end.class = "infrastructure" /\ e.end.started = "no"
  PROVE  /\ e.end.started = "yes" <=> r # "no"
         /\ e.end.started = "yes" => e.end.result = r
<1>1. CASE r \in Results /\ e.end = Event(r)
  <2>1. r \in {"passed", "failed", "timeout", "crashed"}
    BY <1>1 DEF Results
  <2>2. CASE r = "passed"
    BY <1>1, <2>2 DEF Event
  <2>3. CASE r = "failed"
    BY <1>1, <2>3 DEF Event
  <2>4. CASE r = "timeout"
    BY <1>1, <2>4 DEF Event
  <2>5. CASE r = "crashed"
    BY <1>1, <2>5 DEF Event
  <2> QED  BY <2>1, <2>2, <2>3, <2>4, <2>5
<1>2. CASE r = "no" /\ e.end = NotRun
  BY <1>2 DEF NotRun, Pending
<1>3. CASE e.end \in {Lost("infrastructure"), Lost("unknown")}
  BY <1>3 DEF Lost, Pending
<1> QED  BY <1>1, <1>2, <1>3 DEF Told

LEMMA ChecksTold ==
  ASSUME Recorded, Reading, Frozen, SelectEvents
  PROVE  ChecksSeen'
<1> DEFINE value == [t \in read.scope |-> [i \in DOMAIN read.checks[t] |->
              [begun |-> execs[t][i].begun, end |-> execs[t][i].end]]]
<1>0. ReadShape /\ TypeInv /\ ChecksRecorded /\ ChecksSeen
  BY DEF Reading, Recorded
<1>1. read.pc = "events" /\ Added("events", value, "environment")
  BY SelectEventsShape
<1>2. {"checks", "events"} \subseteq Fields /\ "checks" # "events"
  BY DEF Fields
<1>3. Has("checks")
  BY <1>0, <1>1 DEF ReadShape, Required, Has
<1>4. /\ read'.events = value /\ read'.checks = read.checks
      /\ read'.scope = read.scope /\ read'.seen = read.seen
      /\ read.scope \subseteq Tasks /\ Moment \in read.seen
  <2> HIDE DEF value
  <2> QED  BY <1>0, <1>1, <1>2, <1>3, AddedParts
<1>5. execs' = execs /\ ran' = ran
  BY FrozenParts
<1>6. ASSUME NEW t \in read.scope  PROVE  ListSeen(t)'
  <2>1. ListSeen(t)
    BY <1>0, <1>3, <1>6 DEF ChecksSeen
  <2> QED  BY <1>4, <1>5, <2>1 DEF ListSeen
<1>7. ASSUME NEW t \in read.scope, EventsClear(read', t)
      PROVE  \E m \in read'.seen : m[t].first = FirstCheck(read', t)
  <2>1. PICK n \in 0..Len(execs[t]) :
          /\ DOMAIN read.checks[t] = 1..n
          /\ (\A i \in 1..n : ran[t][i] = "no") => \E m \in read.seen : m[t].first = <<0, "none">>
    BY <1>0, <1>3, <1>7 DEF ChecksSeen, ListSeen
  <2>2. PICK d : d = read'.events[t]
    OBVIOUS
  <2>3. /\ DOMAIN d = 1..n
        /\ \A i \in 1..n : d[i].end = execs[t][i].end
    BY <1>4, <1>7, <2>1, <2>2
  <2>4. t \in Tasks /\ Len(execs[t]) \in Nat /\ Len(ran[t]) = Len(execs[t])
        /\ DOMAIN ran[t] = 1..Len(ran[t]) /\ n \in Nat /\ n <= Len(execs[t])
    BY <1>0, <1>4, <2>1, Listed DEF ChecksRecorded, TypeInv
  <2>5. ASSUME NEW i \in 1..n
        PROVE  /\ d[i].end.started = "yes" <=> ran[t][i] # "no"
               /\ d[i].end.started = "yes" => d[i].end.result = ran[t][i]
    <3>1. i \in 1..Len(execs[t])
      BY <2>4
    <3>2. Told(execs[t][i], ran[t][i])
      BY <1>0, <2>4, <3>1 DEF ChecksRecorded
    <3>3. ran[t][i] \in Results \cup {"no"}
      BY <1>0, <2>4, <3>1 DEF TypeInv
    <3>4. /\ execs[t][i].end # Pending
          /\ execs[t][i].end.result = "unknown" =>
               execs[t][i].end.class = "infrastructure" /\ execs[t][i].end.started = "no"
      BY <1>7, <2>2, <2>3 DEF EventsClear
    <3>5. PICK e, r : e = execs[t][i] /\ r = ran[t][i]
      OBVIOUS
    <3>6. /\ e.end.started = "yes" <=> r # "no"
          /\ e.end.started = "yes" => e.end.result = r
      BY <3>2, <3>3, <3>4, <3>5, ClearlyTold
    <3> QED  BY <2>3, <3>5, <3>6
  <2> DEFINE A == {i \in DOMAIN d : d[i].end.started = "yes"}
             B == {i \in DOMAIN ran[t] : ran[t][i] # "no"}
  <2>6. FirstCheck(read', t) = IF A = {} THEN <<0, "none">> ELSE <<Min(A), d[Min(A)].end.result>>
    BY <2>2 DEF FirstCheck
  <2>7. /\ A = {i \in 1..n : ran[t][i] # "no"}
        /\ A \subseteq B /\ A \in SUBSET Nat /\ B \in SUBSET Nat
        /\ \A i \in B : i \in A \/ (i \in Nat /\ i > n)
        /\ \A i \in A : i <= n /\ d[i].end.result = ran[t][i]
    BY <2>3, <2>4, <2>5
  <2>8. CASE A = {}
    <3>1. \A i \in 1..n : ran[t][i] = "no"
      BY <2>7, <2>8
    <3>2. \E m \in read.seen : m[t].first = <<0, "none">>
      BY <2>1, <3>1
    <3> QED  BY <1>4, <2>6, <2>8, <3>2
  <2>9. CASE A # {}
    <3>0. \A i \in A : i \in Nat
      BY <2>7
    <3> HIDE DEF A, B
    <3>1. Min(A) \in A /\ \A y \in A : Min(A) <= y
      BY <2>7, <2>9, MinOf
    <3>2. B # {} /\ Min(B) \in B /\ \A y \in B : Min(B) <= y
      BY <2>7, <2>9, MinOf
    <3>3. PICK a, b : a = Min(A) /\ b = Min(B)
      OBVIOUS
    <3>4. a = b
      <4>1. a \in B /\ b <= a /\ a <= n /\ a \in Nat /\ b \in Nat
        BY <2>7, <3>1, <3>2, <3>3
      <4>2. b \in A
        BY <2>4, <2>7, <3>2, <3>3, <4>1
      <4> QED  BY <3>1, <3>3, <4>1, <4>2
    <3>5. Moment[t].first = <<Min(B), ran[t][Min(B)]>>
      <4>1. Moment[t].first = FirstRan(ran[t])
        BY <2>4 DEF Moment
      <4> QED  BY <3>2, <4>1 DEF FirstRan, B
    <3>6. d[Min(A)].end.result = ran[t][Min(B)] /\ Min(A) = Min(B)
      BY <2>7, <3>1, <3>3, <3>4
    <3> QED  BY <1>4, <2>6, <2>9, <3>5, <3>6
  <2> QED  BY <2>8, <2>9
<1>8. \A t : EventsClear(read, t)' <=> EventsClear(read', t)
  BY DEF EventsClear
<1>9. \A t : FirstCheck(read, t)' = FirstCheck(read', t)
  BY DEF FirstCheck
<1> QED  BY <1>4, <1>6, <1>7, <1>8, <1>9 DEF ChecksSeen

LEMMA ResetsTold ==
  ASSUME Recorded, Reading, Frozen, SelectEnvironment
  PROVE  ResetsSeen'
<1>0. ReadShape /\ TypeInv /\ OpsRecorded
  BY DEF Reading, Recorded
<1>1. read.pc = "environment" /\ Added("environment", Of(ops), "submissions")
  BY SelectEnvironmentShape
<1>2. "environment" \in Fields
  BY DEF Fields
<1>3. /\ read'.environment = Of(ops)
      /\ read'.scope = read.scope /\ read'.seen = read.seen
      /\ read.scope \subseteq Tasks /\ Moment \in read.seen
  <2>1. PICK value : value = Of(ops)
    OBVIOUS
  <2> QED  BY <1>0, <1>1, <1>2, <2>1, AddedParts
<1>4. ASSUME NEW t \in read.scope, OpsClear(read', t)
      PROVE  Moment[t].resets = Successful(read', t, {"trainee"})
  <2>1. t \in Tasks /\ DOMAIN ops[t] = 1..Len(ops[t]) /\ read'.environment[t] = ops[t]
    BY <1>0, <1>3, Listed DEF Of
  <2>2. \A i \in 1..Len(ops[t]) : ops[t][i].outcome \in {"not_started", "success"}
    BY <1>0, <1>4, <2>1, Listed DEF OpsClear, Operations
  <2>3. {i \in remade[t] : ops[t][i].kind = "reset" /\ ops[t][i].origin = "trainee"}
          = {i \in DOMAIN read'.environment[t] :
               /\ read'.environment[t][i].kind = "reset"
               /\ read'.environment[t][i].outcome = "success"
               /\ read'.environment[t][i].origin \in {"trainee"}}
    BY <1>0, <2>1, <2>2 DEF OpsRecorded
  <2>4. Moment[t].resets = TraineeResets(t)
    BY <2>1 DEF Moment
  <2> QED  BY <2>3, <2>4 DEF TraineeResets, Successful
<1>5. \A t : /\ OpsClear(read, t)' <=> OpsClear(read', t)
             /\ Successful(read, t, {"trainee"})' = Successful(read', t, {"trainee"})
  BY DEF OpsClear, Successful
<1> QED  BY <1>3, <1>4, <1>5 DEF ResetsSeen

-----------------------------------------------------------------------------
(* Answers, and the steps of the reader together.                          *)

LEMMA AnswersAtCoverage ==
  ASSUME Recorded, Reading, Frozen, SelectCoverage
  PROVE  AnswersSeen'
<1>0. ReadShape
  BY DEF Reading
<1>1. read.pc = "coverage" /\ Added("coverage", Of(coverage), "gaps")
  BY SelectCoverageShape
<1>2. DOMAIN read' \subseteq Required["coverage"] \cup {"manifest", "completion", "coverage"}
  BY <1>0, <1>1 DEF ReadShape, Added
<1>3. ~Has("gaps")' /\ ~Has("submissions")' /\ ~Has("reviews")'
  BY <1>2 DEF Required, Always, Has
<1> QED  BY <1>3 DEF AnswersSeen, AnswersAt

LEMMA AnswersAtGaps ==
  ASSUME Recorded, Reading, Frozen, SelectGaps
  PROVE  AnswersSeen'
<1>0. ReadShape /\ CoverageSeen /\ AnswersRecorded /\ TypeInv
  BY DEF Reading, Recorded
<1>1. read.pc = "gaps" /\ Added("gaps", Of(gaps), "checks")
  BY SelectGapsShape
<1>2. {"coverage", "gaps"} \subseteq Fields /\ "coverage" # "gaps"
  BY DEF Fields
<1>3. Has("coverage")
  BY <1>0, <1>1 DEF ReadShape, Required, Has
<1>4. DOMAIN read' \subseteq Required["gaps"] \cup {"manifest", "completion", "gaps"}
  BY <1>0, <1>1 DEF ReadShape, Added
<1>5. ~Has("submissions")' /\ ~Has("reviews")'
  BY <1>4 DEF Required, Always, Has
<1>6. /\ read'.gaps = Of(gaps) /\ read'.coverage = read.coverage
      /\ read'.scope = read.scope /\ read'.seen = read.seen
      /\ read.scope \subseteq Tasks /\ Moment \in read.seen
  <2>1. PICK value : value = Of(gaps)
    OBVIOUS
  <2> QED  BY <1>0, <1>1, <1>2, <1>3, <2>1, AddedParts
<1>7. subs' = subs /\ verdict' = verdict
  BY FrozenParts
<1>8. ASSUME NEW t \in read.scope, GapsClear(t)'
      PROVE  /\ verdict[t] = DecisionsOf(subs[t], Len(subs[t]))
             /\ Moment[t].verdicts = verdict[t]
  <2>1. t \in Tasks /\ read'.gaps[t] = gaps[t]
    BY <1>6 DEF Of
  <2>2. coverage[t].origin = "creation" /\ "unsupported_update" \notin gaps[t]
    BY <1>0, <1>3, <1>6, <1>8, <2>1 DEF GapsClear, CoverageSeen
  <2> QED  BY <1>0, <2>1, <2>2 DEF AnswersRecorded, Moment
<1> QED  BY <1>5, <1>6, <1>7, <1>8 DEF AnswersSeen, AnswersAt

LEMMA AnswersAtSubmissions ==
  ASSUME Recorded, Reading, AnswersSeen, Frozen, SelectSubmissions
  PROVE  AnswersSeen'
<1> SUFFICES ASSUME FewWrites'  PROVE  AnswersAt'
  BY DEF AnswersSeen
<1> DEFINE value == [t \in read.scope |-> [i \in DOMAIN subs[t] |-> subs[t][i].body]]
<1>0. ReadShape /\ TypeInv
  BY DEF Reading, Recorded
<1>1. read.pc = "submissions" /\ Added("submissions", value, "reviews")
  BY SelectSubmissionsShape
<1>2. {"coverage", "gaps", "submissions"} \subseteq Fields
      /\ "coverage" # "submissions" /\ "gaps" # "submissions"
  BY DEF Fields
<1>3. Has("coverage") /\ Has("gaps")
  BY <1>0, <1>1 DEF ReadShape, Required, Has
<1>4. DOMAIN read' \subseteq Required["submissions"] \cup {"manifest", "completion", "submissions"}
  BY <1>0, <1>1 DEF ReadShape, Added
<1>5. ~Has("reviews")'
  BY <1>4 DEF Required, Always, Has
<1>6. /\ read'.submissions = value /\ read'.coverage = read.coverage /\ read'.gaps = read.gaps
      /\ read'.scope = read.scope /\ read'.seen = read.seen /\ read'.overlaps = read.overlaps
      /\ read.scope \subseteq Tasks
  <2> HIDE DEF value
  <2> QED  BY <1>0, <1>1, <1>2, <1>3, AddedParts
<1>7. subs' = subs /\ verdict' = verdict /\ faults' = faults
  BY FrozenParts
<1>8. AnswersAt /\ \A t : GapsClear(t)' <=> GapsClear(t)
  BY <1>6, <1>7 DEF GapsClear, AnswersSeen, FewWrites
<1>9. ASSUME NEW t \in read.scope, GapsClear(t)
      PROVE  \E n \in 0..Len(subs[t]) :
               /\ DOMAIN read'.submissions[t] = 1..n
               /\ \E m \in read.seen : m[t].verdicts = DecisionsOf(subs[t], n)
               /\ n = Len(subs[t])
  <2>1. t \in Tasks /\ Len(subs[t]) \in Nat /\ DOMAIN subs[t] = 1..Len(subs[t])
    BY <1>0, <1>6, Listed
  <2>2. PICK n \in 0..Len(subs[t]) : n = Len(subs[t])
    BY <2>1
  <2>3. DOMAIN read'.submissions[t] = 1..n
    BY <1>6, <2>1, <2>2
  <2>4. \E m \in read.seen : m[t].verdicts = DecisionsOf(subs[t], Len(subs[t]))
    BY <1>3, <1>8, <1>9 DEF AnswersAt
  <2> QED  BY <2>2, <2>3, <2>4
<1> HIDE DEF value
<1> QED  BY <1>3, <1>5, <1>6, <1>7, <1>8, <1>9 DEF AnswersAt

LEMMA AnswersAtReviews ==
  ASSUME Recorded, Reading, AnswersSeen, Frozen, SelectReviews
  PROVE  AnswersSeen'
<1> SUFFICES ASSUME FewWrites'  PROVE  AnswersAt'
  BY DEF AnswersSeen
<1> DEFINE value == [t \in read.scope |->
              [i \in DOMAIN read.submissions[t] |-> subs[t][i].reviews]]
<1>0. ReadShape /\ TypeInv
  BY DEF Reading, Recorded
<1>1. read.pc = "reviews" /\ Added("reviews", value, "runs")
  BY SelectReviewsShape
<1>2. {"coverage", "gaps", "submissions", "reviews"} \subseteq Fields
      /\ "coverage" # "reviews" /\ "gaps" # "reviews" /\ "submissions" # "reviews"
  BY DEF Fields
<1>3. Has("coverage") /\ Has("gaps") /\ Has("submissions")
  BY <1>0, <1>1 DEF ReadShape, Required, Has
<1>4. /\ read'.reviews = value /\ read'.coverage = read.coverage /\ read'.gaps = read.gaps
      /\ read'.submissions = read.submissions
      /\ read'.scope = read.scope /\ read'.seen = read.seen /\ read'.overlaps = read.overlaps
      /\ read.scope \subseteq Tasks
  <2> HIDE DEF value
  <2> QED  BY <1>0, <1>1, <1>2, <1>3, AddedParts
<1>5. subs' = subs /\ verdict' = verdict /\ faults' = faults
  BY FrozenParts
<1>6. AnswersAt /\ \A t : GapsClear(t)' <=> GapsClear(t)
  BY <1>4, <1>5 DEF GapsClear, AnswersSeen, FewWrites
<1>7. ASSUME NEW t \in read.scope, GapsClear(t)
      PROVE  \E m \in read'.seen : m[t].verdicts = Last(read', t)
  <2>1. PICK n \in 0..Len(subs[t]) :
          /\ DOMAIN read.submissions[t] = 1..n
          /\ \E m \in read.seen : m[t].verdicts = DecisionsOf(subs[t], n)
    BY <1>3, <1>6, <1>7 DEF AnswersAt
  <2>2. read'.reviews[t] = [i \in 1..n |-> subs[t][i].reviews]
    BY <1>4, <1>7, <2>1
  <2>3. Last(read', t) = DecisionsOf(subs[t], n)
    BY <2>2 DEF Last, DecisionsOf
  <2> QED  BY <1>4, <2>1, <2>3
<1>8. \A t : Last(read, t)' = Last(read', t)
  BY DEF Last
<1> HIDE DEF value
<1> QED  BY <1>3, <1>4, <1>5, <1>6, <1>7, <1>8 DEF AnswersAt

LEMMA CreditSelect ==
  ASSUME Recorded, Reading, Frozen, SelectCredit
  PROVE  Reading' /\ AnswersSeen'
<1> DEFINE there == {t \in read.manifest.tasks : row[t].exists}
           value == [t \in there |-> Selected(t)]
<1>0. ReadShape /\ PastSeen /\ ProgramSeen
  BY DEF Reading
<1>1. read.pc = "credit"
  BY DEF SelectCredit
<1>2. read' = [f \in DOMAIN read \cup {"rows"} |->
                CASE f = "rows" -> value [] f = "scope" -> there [] f = "pc" -> "coverage"
                  [] OTHER -> read[f]]
  BY DEF SelectCredit
<1> HIDE DEF there, value
<1>3. DOMAIN read = Always \cup {"manifest", "completion"}
  BY <1>0, <1>1 DEF ReadShape, Required
<1>4. /\ DOMAIN read' = Always \cup {"manifest", "completion", "rows"}
      /\ read'.rows = value /\ read'.scope = there /\ read'.pc = "coverage"
      /\ read'.isProgram = read.isProgram /\ read'.seen = read.seen
      /\ read'.overlaps = read.overlaps /\ read'.manifest = read.manifest
      /\ read'.completion = read.completion
  BY <1>2, <1>3 DEF Always
<1>5. /\ Has("manifest") /\ Has("completion")
      /\ Has("manifest")' /\ Has("completion")' /\ Has("rows")' /\ ~Has("coverage")'
      /\ ~Has("gaps")' /\ ~Has("checks")' /\ ~Has("events")' /\ ~Has("environment")'
      /\ ~Has("submissions")' /\ ~Has("reviews")' /\ ~Has("runs")'
  BY <1>3, <1>4 DEF Has, Always
<1>6. there \subseteq Tasks /\ there \subseteq read.manifest.tasks
  BY <1>0, <1>5 DEF there, ProgramSeen
<1>7. ReadShape'
  <2>1. Moment' \in read'.seen
    BY <1>0, <1>1, <1>4, FrozenParts DEF ReadShape
  <2>2. read'.isProgram \in BOOLEAN /\ read'.overlaps \in Nat
    BY <1>0, <1>1, <1>4 DEF ReadShape
  <2>3. /\ "coverage" \in DOMAIN Required
        /\ Required["coverage"] = Always \cup {"rows"}
    BY DEF Required
  <2> QED  BY <1>4, <1>5, <1>6, <2>1, <2>2, <2>3 DEF ReadShape
<1>8. CoverageSeen' /\ ChecksSeen' /\ ResetsSeen' /\ AnswersSeen'
  BY <1>5 DEF CoverageSeen, ChecksSeen, ResetsSeen, AnswersSeen, AnswersAt
<1>9. PastSeen' /\ ProgramSeen'
  BY <1>0, <1>4, <1>5, <1>6 DEF PastSeen, ProgramSeen
<1>10. QuietSeen'
  <2>1. \A t \in there : value[t] = Selected(t)'
    <3>1. row' = row /\ runs' = runs
      BY FrozenParts
    <3> QED  BY <3>1 DEF value, Selected, Technical
  <2> QED  BY <1>4, <1>5, <2>1 DEF QuietSeen
<1> QED  BY <1>7, <1>8, <1>9, <1>10 DEF Reading

LEMMA StartRead ==
  ASSUME Recorded, Reading, Frozen, NEW isProgram \in BOOLEAN, NEW scope \in SUBSET Tasks,
         Start(isProgram, scope)
  PROVE  Reading' /\ AnswersSeen'
<1>1. PICK p \in {"manifest", "attempts"} :
        /\ p = IF isProgram THEN "manifest" ELSE "attempts"
        /\ read' = [pc |-> p, isProgram |-> isProgram, scope |-> scope, seen |-> {Moment},
                    overlaps |-> 0]
  BY DEF Start
<1>2. /\ DOMAIN read' = Always /\ read'.pc = p /\ read'.isProgram = isProgram
      /\ read'.scope = scope /\ read'.seen = {Moment} /\ read'.overlaps = 0
  BY <1>1 DEF Always
<1>3. /\ ~Has("manifest")' /\ ~Has("completion")' /\ ~Has("rows")' /\ ~Has("coverage")'
      /\ ~Has("gaps")' /\ ~Has("checks")' /\ ~Has("events")' /\ ~Has("environment")'
      /\ ~Has("submissions")' /\ ~Has("reviews")' /\ ~Has("runs")'
  BY <1>2 DEF Has, Always
<1>4. ReadShape'
  <2>1. p \in DOMAIN Required /\ Required[p] = Always
    BY <1>1 DEF Required
  <2>2. p = "attempts" => ~isProgram
    BY <1>1
  <2>3. Moment' \in read'.seen
    BY <1>2, FrozenParts
  <2> QED  BY <1>2, <1>3, <2>1, <2>2, <2>3 DEF ReadShape
<1> QED
  BY <1>3, <1>4 DEF Reading, CoverageSeen, ChecksSeen, ResetsSeen, AnswersSeen, AnswersAt, PastSeen,
     ProgramSeen, QuietSeen

\* A SELECT, and the answers with it.
LEMMA ReaderStep ==
  ASSUME Recorded, Reading, Frozen, Reader
  PROVE  Reading' /\ (AnswersSeen => AnswersSeen')
<1>1. ASSUME NEW field \in Fields, NEW value, NEW next, Added(field, value, next),
             read.pc # "idle"
      PROVE  /\ field \notin {"checks", "events"} => ChecksSeen'
             /\ field # "environment" => ResetsSeen'
             /\ AnswersSeen /\ field \notin {"coverage", "gaps", "submissions", "reviews"} =>
                  AnswersSeen'
  BY <1>1, ChecksKept, ResetsKept, AnswersKept
<1>2. ASSUME SelectManifest  PROVE  Reading' /\ (AnswersSeen => AnswersSeen')
  <2>1. PICK value, next : read.pc = "manifest" /\ Added("manifest", value, next)
    BY <1>2, SelectManifestShape
  <2>2. ReadShape' /\ CoverageSeen' /\ PastSeen' /\ ProgramSeen' /\ QuietSeen'
    BY <1>2, SelectManifestShape
  <2>3. "manifest" \in Fields
    BY DEF Fields
  <2>4. ChecksSeen' /\ ResetsSeen' /\ (AnswersSeen => AnswersSeen')
    BY <1>1, <2>1, <2>3
  <2> QED  BY <2>2, <2>4 DEF Reading
<1>3. ASSUME SelectCompletion  PROVE  Reading' /\ (AnswersSeen => AnswersSeen')
  <2>1. PICK value, next : read.pc = "completion" /\ Added("completion", value, next)
    BY <1>3, SelectCompletionShape
  <2>2. ReadShape' /\ CoverageSeen' /\ PastSeen' /\ ProgramSeen' /\ QuietSeen'
    BY <1>3, SelectCompletionShape
  <2>3. "completion" \in Fields
    BY DEF Fields
  <2>4. ChecksSeen' /\ ResetsSeen' /\ (AnswersSeen => AnswersSeen')
    BY <1>1, <2>1, <2>3
  <2> QED  BY <2>2, <2>4 DEF Reading
<1>4. ASSUME SelectAttempts  PROVE  Reading' /\ (AnswersSeen => AnswersSeen')
  <2>1. PICK value, next : read.pc = "attempts" /\ Added("rows", value, next)
    BY <1>4, SelectAttemptsShape
  <2>2. ReadShape' /\ CoverageSeen' /\ PastSeen' /\ ProgramSeen' /\ QuietSeen'
    BY <1>4, SelectAttemptsShape
  <2>3. "rows" \in Fields
    BY DEF Fields
  <2>4. ChecksSeen' /\ ResetsSeen' /\ (AnswersSeen => AnswersSeen')
    BY <1>1, <2>1, <2>3
  <2> QED  BY <2>2, <2>4 DEF Reading
<1>5. ASSUME SelectCoverage  PROVE  Reading' /\ (AnswersSeen => AnswersSeen')
  <2>1. PICK value, next : read.pc = "coverage" /\ Added("coverage", value, next)
    BY <1>5, SelectCoverageShape
  <2>2. ReadShape' /\ CoverageSeen' /\ PastSeen' /\ ProgramSeen' /\ QuietSeen'
    BY <1>5, SelectCoverageShape
  <2>3. "coverage" \in Fields
    BY DEF Fields
  <2>4. ChecksSeen' /\ ResetsSeen' /\ (AnswersSeen => AnswersSeen')
    BY <1>5, <1>1, <2>1, <2>3, AnswersAtCoverage
  <2> QED  BY <2>2, <2>4 DEF Reading
<1>6. ASSUME SelectGaps  PROVE  Reading' /\ (AnswersSeen => AnswersSeen')
  <2>1. PICK value, next : read.pc = "gaps" /\ Added("gaps", value, next)
    BY <1>6, SelectGapsShape
  <2>2. ReadShape' /\ CoverageSeen' /\ PastSeen' /\ ProgramSeen' /\ QuietSeen'
    BY <1>6, SelectGapsShape
  <2>3. "gaps" \in Fields
    BY DEF Fields
  <2>4. ChecksSeen' /\ ResetsSeen' /\ (AnswersSeen => AnswersSeen')
    BY <1>6, <1>1, <2>1, <2>3, AnswersAtGaps
  <2> QED  BY <2>2, <2>4 DEF Reading
<1>7. ASSUME SelectChecks  PROVE  Reading' /\ (AnswersSeen => AnswersSeen')
  <2>1. PICK value, next : read.pc = "checks" /\ Added("checks", value, next)
    BY <1>7, SelectChecksShape
  <2>2. ReadShape' /\ CoverageSeen' /\ PastSeen' /\ ProgramSeen' /\ QuietSeen'
    BY <1>7, SelectChecksShape
  <2>3. "checks" \in Fields
    BY DEF Fields
  <2>4. ChecksSeen' /\ ResetsSeen' /\ (AnswersSeen => AnswersSeen')
    BY <1>7, <1>1, <2>1, <2>3, ChecksListed
  <2> QED  BY <2>2, <2>4 DEF Reading
<1>8. ASSUME SelectEvents  PROVE  Reading' /\ (AnswersSeen => AnswersSeen')
  <2>1. PICK value, next : read.pc = "events" /\ Added("events", value, next)
    BY <1>8, SelectEventsShape
  <2>2. ReadShape' /\ CoverageSeen' /\ PastSeen' /\ ProgramSeen' /\ QuietSeen'
    BY <1>8, SelectEventsShape
  <2>3. "events" \in Fields
    BY DEF Fields
  <2>4. ChecksSeen' /\ ResetsSeen' /\ (AnswersSeen => AnswersSeen')
    BY <1>8, <1>1, <2>1, <2>3, ChecksTold
  <2> QED  BY <2>2, <2>4 DEF Reading
<1>9. ASSUME SelectEnvironment  PROVE  Reading' /\ (AnswersSeen => AnswersSeen')
  <2>1. PICK value, next : read.pc = "environment" /\ Added("environment", value, next)
    BY <1>9, SelectEnvironmentShape
  <2>2. ReadShape' /\ CoverageSeen' /\ PastSeen' /\ ProgramSeen' /\ QuietSeen'
    BY <1>9, SelectEnvironmentShape
  <2>3. "environment" \in Fields
    BY DEF Fields
  <2>4. ChecksSeen' /\ ResetsSeen' /\ (AnswersSeen => AnswersSeen')
    BY <1>9, <1>1, <2>1, <2>3, ResetsTold
  <2> QED  BY <2>2, <2>4 DEF Reading
<1>10. ASSUME SelectSubmissions  PROVE  Reading' /\ (AnswersSeen => AnswersSeen')
  <2>1. PICK value, next : read.pc = "submissions" /\ Added("submissions", value, next)
    BY <1>10, SelectSubmissionsShape
  <2>2. ReadShape' /\ CoverageSeen' /\ PastSeen' /\ ProgramSeen' /\ QuietSeen'
    BY <1>10, SelectSubmissionsShape
  <2>3. "submissions" \in Fields
    BY DEF Fields
  <2>4. ChecksSeen' /\ ResetsSeen' /\ (AnswersSeen => AnswersSeen')
    BY <1>10, <1>1, <2>1, <2>3, AnswersAtSubmissions
  <2> QED  BY <2>2, <2>4 DEF Reading
<1>11. ASSUME SelectReviews  PROVE  Reading' /\ (AnswersSeen => AnswersSeen')
  <2>1. PICK value, next : read.pc = "reviews" /\ Added("reviews", value, next)
    BY <1>11, SelectReviewsShape
  <2>2. ReadShape' /\ CoverageSeen' /\ PastSeen' /\ ProgramSeen' /\ QuietSeen'
    BY <1>11, SelectReviewsShape
  <2>3. "reviews" \in Fields
    BY DEF Fields
  <2>4. ChecksSeen' /\ ResetsSeen' /\ (AnswersSeen => AnswersSeen')
    BY <1>11, <1>1, <2>1, <2>3, AnswersAtReviews
  <2> QED  BY <2>2, <2>4 DEF Reading
<1>12. ASSUME SelectRuns  PROVE  Reading' /\ (AnswersSeen => AnswersSeen')
  <2>1. PICK value, next : read.pc = "runs" /\ Added("runs", value, next)
    BY <1>12, SelectRunsShape
  <2>2. ReadShape' /\ CoverageSeen' /\ PastSeen' /\ ProgramSeen' /\ QuietSeen'
    BY <1>12, SelectRunsShape
  <2>3. "runs" \in Fields
    BY DEF Fields
  <2>4. ChecksSeen' /\ ResetsSeen' /\ (AnswersSeen => AnswersSeen')
    BY <1>1, <2>1, <2>3
  <2> QED  BY <2>2, <2>4 DEF Reading
<1>13. ASSUME NEW t \in Tasks, Start(FALSE, {t})
      PROVE  Reading' /\ (AnswersSeen => AnswersSeen')
  BY <1>13, StartRead
<1>14. ASSUME Start(TRUE, {})  PROVE  Reading' /\ (AnswersSeen => AnswersSeen')
  <2>1. TRUE \in BOOLEAN /\ {} \in SUBSET Tasks
    OBVIOUS
  <2> QED  BY <1>14, <2>1, StartRead
<1> QED
  BY <1>2, <1>3, <1>4, <1>5, <1>6, <1>7, <1>8, <1>9, <1>10, <1>11, <1>12, <1>13, <1>14,
     CreditSelect DEF Reader

-----------------------------------------------------------------------------
(* The invariants together.                                                *)

LEMMA NextKeeps ==
  ASSUME MaxFaults \in Nat, Recorded, Reading, Next
  PROVE  Recorded' /\ Reading'
<1>1. ASSUME Overlap,
             \/ Service /\ UNCHANGED faults
             \/ Fault /\ faults < MaxFaults /\ faults' = faults + 1
      PROVE  Recorded' /\ Reading'
  <2>1. Recorded'
    BY <1>1, RecordedStep
  <2>2. CASE read' = Idle
    <3>1. (read = Idle => Reading /\ AnswersSeen)'
      BY AtRest, PTL
    <3> QED  BY <2>1, <2>2, <3>1
  <2>3. CASE Overtaken
    <3>1. (Service \/ Fault) /\ ReadShape
      BY <1>1 DEF Reading
    <3> QED  BY <2>1, <2>3, <3>1, ShapeOvertaken, CoverageOvertaken, ChecksOvertaken,
                ResetsOvertaken, RestOvertaken DEF Reading
  <2> QED  BY <1>1, <2>2, <2>3, Overtake DEF Reading
<1>2. ASSUME Reader, UNCHANGED <<program, row, runs, ledger, truth, faults>>
      PROVE  Recorded' /\ Reading'
  <2>1. Frozen
    BY <1>2 DEF Frozen
  <2>2. Recorded'
    BY <2>1, FrozenParts DEF Recorded, TypeInv, NothingBefore, ChecksRecorded, OpsRecorded,
       AnswersRecorded, PastKept, QuietLedger, QuietAttempt, QuietChecks, QuietOps, QuietAnswers,
       RunsRecorded
  <2> QED  BY <1>2, <2>1, <2>2, ReaderStep
<1> QED  BY <1>1, <1>2 DEF Next

LEMMA AnswersKeep ==
  ASSUME MaxFaults \in Nat, Recorded, Reading, AnswersSeen, Next
  PROVE  AnswersSeen'
<1>1. ASSUME Overlap,
             \/ Service /\ UNCHANGED faults
             \/ Fault /\ faults < MaxFaults /\ faults' = faults + 1
      PROVE  AnswersSeen'
  <2>1. Recorded'
    BY <1>1, RecordedStep
  <2>2. CASE read' = Idle
    <3>1. (read = Idle => Reading /\ AnswersSeen)'
      BY AtRest, PTL
    <3> QED  BY <2>2, <3>1
  <2>3. CASE Overtaken
    <3>1. Write
      BY <1>1 DEF Write
    <3> QED  BY <2>1, <2>3, <3>1, AnswersOvertaken
  <2> QED  BY <1>1, <2>2, <2>3, Overtake DEF Reading
<1>2. ASSUME Reader, UNCHANGED <<program, row, runs, ledger, truth, faults>>
      PROVE  AnswersSeen'
  BY <1>2, ReaderStep DEF Frozen
<1> QED  BY <1>1, <1>2 DEF Next

LEMMA Stutters ==
  ASSUME UNCHANGED vars, Recorded, Reading
  PROVE  Recorded' /\ Reading' /\ (AnswersSeen => AnswersSeen')
<1>1. Frozen /\ read' = read
  BY DEF vars, Frozen
<1>2. /\ UNCHANGED <<active, criteria, manifest, completion, row, runs, coverage, gaps,
                     execs, ops, subs, ran, remade, verdict, faults>>
      /\ Moment' = Moment
  BY <1>1, FrozenParts
<1>3. Recorded'
  BY <1>2 DEF Recorded, TypeInv, NothingBefore, ChecksRecorded, OpsRecorded,
     AnswersRecorded, PastKept, QuietLedger, QuietAttempt, QuietChecks, QuietOps, QuietAnswers,
     RunsRecorded
<1>4. ReadShape' /\ CoverageSeen' /\ PastSeen' /\ ProgramSeen'
  BY <1>1, <1>2 DEF Reading, ReadShape, CoverageSeen, PastSeen, ProgramSeen, Has
<1>5. ChecksSeen' /\ ResetsSeen'
  <2>1. \A t : /\ EventsClear(read, t)' <=> EventsClear(read, t)
               /\ FirstCheck(read, t)' = FirstCheck(read, t)
               /\ OpsClear(read, t)' <=> OpsClear(read, t)
               /\ Successful(read, t, {"trainee"})' = Successful(read, t, {"trainee"})
    BY <1>1 DEF EventsClear, FirstCheck, OpsClear, Successful
  <2>2. \A t : ListSeen(t)' <=> ListSeen(t)
    BY <1>1, <1>2 DEF ListSeen
  <2> QED  BY <1>1, <2>1, <2>2 DEF Reading, ChecksSeen, ResetsSeen, Has
<1>6. QuietSeen'
  <2>1. (QuietSeen <=> (read.pc # "idle" /\ read.overlaps = 0 =>
           \A t \in read.scope, f \in AttemptFields : Has(f) => read[f][t] = Now(f, t)))'
    BY QuietNow, PTL
  <2>2. \A f \in AttemptFields, t \in Tasks : Now(f, t)' = Now(f, t)
    BY <1>1, NowFrozen
  <2>3. read.pc # "idle" => read.scope \subseteq Tasks
    BY DEF Reading, ReadShape
  <2>4. QuietSeen
    BY DEF Reading
  <2> QED  BY <1>1, <2>1, <2>2, <2>3, <2>4, QuietNow DEF Has
<1>7. AnswersSeen => AnswersSeen'
  BY <1>1, <1>2 DEF AnswersSeen, AnswersAt, FewWrites, Has, GapsClear, Last
<1> QED  BY <1>3, <1>4, <1>5, <1>6, <1>7 DEF Reading

\* What is always so, from these first states.
Bounds == Active \subseteq Tasks /\ Legacy \subseteq Tasks /\ MaxFaults \in Nat

LEMMA AlwaysRead ==
  ASSUME Bounds  PROVE  Spec => [](Recorded /\ Reading)
<1>1. Init => Recorded /\ Reading
  BY RecordedInit, AtRest DEF Bounds, Init
<1>2. Recorded /\ Reading /\ [Next]_vars => (Recorded /\ Reading)'
  BY NextKeeps, Stutters DEF Bounds
<1> QED  BY <1>1, <1>2, PTL DEF Spec

LEMMA AlwaysAnswered ==
  ASSUME Bounds  PROVE  Spec => [](Recorded /\ Reading /\ AnswersSeen)
<1>1. Init => Recorded /\ Reading /\ AnswersSeen
  BY RecordedInit, AtRest DEF Bounds, Init
<1>2. Recorded /\ Reading /\ AnswersSeen /\ [Next]_vars => (Recorded /\ Reading /\ AnswersSeen)'
  BY NextKeeps, AnswersKeep, Stutters DEF Bounds
<1> QED  BY <1>1, <1>2, PTL DEF Spec

-----------------------------------------------------------------------------
(* What the reports say.                                                   *)

LEMMA AtDone ==
  ASSUME ReadShape, Done
  PROVE  /\ \A f \in AttemptFields : Has(f)
         /\ read.isProgram => Has("manifest") /\ Has("completion")
         /\ read.scope \subseteq Tasks /\ read.isProgram \in BOOLEAN /\ read.overlaps \in Nat
         /\ read.pc # "idle"
<1>1. read.pc = "done"
  BY DEF Done
<1>2. AttemptFields \subseteq Required["done"]
  BY DEF Required, AttemptFields
<1>3. \A f \in AttemptFields : Has(f)
  BY <1>1, <1>2 DEF ReadShape, Has
<1>4. "rows" \in AttemptFields
  BY DEF AttemptFields
<1> QED  BY <1>1, <1>3, <1>4 DEF ReadShape

\* The reasons of an axis that is complete are those of the others.
LEMMA NoReason ==
  ASSUME NEW d, NEW t, NEW axis \in Axes, Complete(d, t, axis),
         NEW r \in Reasons(d, t) \cup d.gaps[t]
  PROVE  r \in UNION {OfAxis[x] : x \in Axes \ {axis}}
BY DEF Complete, Against

LEMMA AxesAre ==
  /\ Axes = {"checks", "resets", "answers"}
  /\ UNION {OfAxis[x] : x \in Axes \ {"checks"}} = OfAxis["resets"] \cup OfAxis["answers"]
  /\ UNION {OfAxis[x] : x \in Axes \ {"resets"}} = OfAxis["checks"] \cup OfAxis["answers"]
  /\ UNION {OfAxis[x] : x \in Axes \ {"answers"}} = OfAxis["checks"] \cup OfAxis["resets"]
<1>1. Axes = {"checks", "resets", "answers"}
  BY DEF Axes, OfAxis
<1>2. /\ Axes \ {"checks"} = {"resets", "answers"}
      /\ Axes \ {"resets"} = {"checks", "answers"}
      /\ Axes \ {"answers"} = {"checks", "resets"}
  BY <1>1
<1> QED  BY <1>1, <1>2

LEMMA ChecksClear ==
  ASSUME NEW d, NEW t, Complete(d, t, "checks")
  PROVE  EventsClear(d, t)
<1>1. "checks" \in Axes
  BY AxesAre
<1>2. ASSUME NEW r \in CheckReasons(d, t)  PROVE  r \in OfAxis["resets"] \cup OfAxis["answers"]
  BY <1>1, <1>2, NoReason, AxesAre DEF Reasons
<1>3. /\ "execution_pending" \notin CheckReasons(d, t)
      /\ "check_outcome_unknown" \notin CheckReasons(d, t)
  BY <1>2 DEF OfAxis
<1>4. ASSUME NEW i \in DOMAIN d.events[t]
      PROVE  LET end == d.events[t][i].end IN
               /\ end # Pending
               /\ end.result = "unknown" => end.class = "infrastructure" /\ end.started = "no"
  <2>1. d.events[t][i].end # Pending
    BY <1>3 DEF CheckReasons, When
  <2>2. d.events[t][i].end.result = "unknown" =>
          d.events[t][i].end.class = "infrastructure" /\ d.events[t][i].end.started = "no"
    BY <1>3 DEF CheckReasons, When
  <2> QED  BY <2>1, <2>2
<1> QED  BY <1>4 DEF EventsClear

LEMMA ResetsClear ==
  ASSUME NEW d, NEW t, Complete(d, t, "resets")
  PROVE  OpsClear(d, t)
<1>1. "resets" \in Axes
  BY AxesAre
<1>2. ASSUME NEW r \in EnvironmentReasons(d, t)
      PROVE  r \in OfAxis["checks"] \cup OfAxis["answers"]
  BY <1>1, <1>2, NoReason, AxesAre DEF Reasons
<1>3. /\ "environment_pending" \notin EnvironmentReasons(d, t)
      /\ "environment_outcome_unknown" \notin EnvironmentReasons(d, t)
  BY <1>2 DEF OfAxis
<1> QED  BY <1>3 DEF OpsClear, EnvironmentReasons, When

LEMMA FromCreation ==
  ASSUME NEW d, NEW t, NEW axis \in Axes, Complete(d, t, axis)
  PROVE  d.coverage[t].origin = "creation" /\ "unsupported_update" \notin d.gaps[t]
<1>1. \A x \in Axes : /\ "history_not_recorded_from_creation" \notin OfAxis[x]
                      /\ "unsupported_update" \notin OfAxis[x]
  BY AxesAre DEF OfAxis
<1>2. /\ "history_not_recorded_from_creation" \notin Reasons(d, t)
      /\ "unsupported_update" \notin d.gaps[t]
  BY <1>1 DEF Complete, Against
<1> QED  BY <1>2 DEF Reasons, When

\* attempt_evidence: a first check that is reported as trusted is the first one
\* that really ran at some moment of the read, for any number of tasks, checks,
\* faults and overlapping writes.
THEOREM FirstCheckIsTrue ==
  ASSUME Bounds  PROVE  Spec => []FirstCheckTrue
<1>1. Recorded /\ Reading => FirstCheckTrue
  <2> SUFFICES ASSUME Reading, Done, NEW t \in read.scope, Complete(read, t, "checks")
               PROVE  \E m \in read.seen : m[t].first = FirstCheck(read, t)
    BY DEF FirstCheckTrue
  <2>1. Has("events")
    BY AtDone DEF Reading, AttemptFields
  <2>2. EventsClear(read, t)
    BY ChecksClear
  <2> QED  BY <2>1, <2>2 DEF Reading, ChecksSeen
<1> QED  BY <1>1, AlwaysRead, PTL

\* attempt_evidence: resets that are reported as trusted are those that really
\* created the trainee's environment again: an unknown outcome never becomes zero.
THEOREM ResetsAreTrue ==
  ASSUME Bounds  PROVE  Spec => []ResetsTrue
<1>1. Recorded /\ Reading => ResetsTrue
  <2> SUFFICES ASSUME Reading, Done, NEW t \in read.scope, Complete(read, t, "resets")
               PROVE  \E m \in read.seen : m[t].resets = Successful(read, t, {"trainee"})
    BY DEF ResetsTrue
  <2>1. Has("environment")
    BY AtDone DEF Reading, AttemptFields
  <2>2. OpsClear(read, t)
    BY ResetsClear
  <2> QED  BY <2>1, <2>2 DEF Reading, ResetsSeen
<1> QED  BY <1>1, AlwaysRead, PTL

\* attempt_evidence: trusted returns and first approvals are those of decisions
\* that stood at some moment of every read that at most one write overlapped, or
\* before which nothing had by-passed the ledger; for any number of writes.
THEOREM AnswersAreTrue ==
  ASSUME Bounds  PROVE  Spec => []AnswersTrue
<1>1. Recorded /\ Reading /\ AnswersSeen => AnswersTrue
  <2> SUFFICES ASSUME Reading, AnswersSeen, Done, FewWrites, NEW t \in read.scope,
                      Complete(read, t, "answers")
               PROVE  \E m \in read.seen :
                        /\ ValidReturns(m[t].verdicts) = ValidReturns(Last(read, t))
                        /\ FirstAnswerApproved(m[t].verdicts) = FirstAnswerApproved(Last(read, t))
    BY DEF AnswersTrue
  <2>1. Has("reviews")
    BY AtDone DEF Reading, AttemptFields
  <2>2. "answers" \in Axes
    BY AxesAre
  <2>3. GapsClear(t)
    BY <2>2, FromCreation DEF GapsClear
  <2>4. PICK m \in read.seen : m[t].verdicts = Last(read, t)
    BY <2>1, <2>3 DEF AnswersSeen, AnswersAt
  <2> QED  BY <2>4
<1> QED  BY <1>1, AlwaysAnswered, PTL

\* program_evidence: with a completion, trusted resets are those of all its tasks
\* at one moment of the read.
THEOREM ProgramResetsAreTrue ==
  ASSUME Bounds  PROVE  Spec => []ProgramResetsTrue
<1>1. Recorded /\ Reading => ProgramResetsTrue
  <2> SUFFICES ASSUME Reading, Done, read.isProgram, ProgramComplete(read, "resets"),
                      read.completion.made
               PROVE  \E m \in read.seen :
                        ProgramResets(read) = Total([t \in read.completion.tasks |-> m[t].resets])
    BY DEF ProgramResetsTrue
  <2>1. Has("environment") /\ Has("rows") /\ Has("manifest")
    BY AtDone DEF Reading, AttemptFields
  <2>2. /\ read.manifest.tasks = read.completion.tasks
        /\ read.manifest.tasks \subseteq read.scope
    BY DEF ProgramComplete, CommonReasons, When
  <2>3. read.scope = read.completion.tasks
    BY <2>1, <2>2 DEF Reading, ProgramSeen
  <2>4. ASSUME NEW t \in read.scope  PROVE  OpsClear(read, t)
    <3>1. Complete(read, t, "resets")
      BY DEF ProgramComplete
    <3> QED  BY <3>1, ResetsClear
  <2>5. PICK m \in read.seen : \A t \in read.scope :
          OpsClear(read, t) => m[t].resets = Successful(read, t, {"trainee"})
    BY <2>1 DEF Reading, ResetsSeen
  <2>6. [t \in read.scope |-> Successful(read, t, {"trainee"})]
          = [t \in read.completion.tasks |-> m[t].resets]
    BY <2>3, <2>4, <2>5
  <2> QED  BY <2>6 DEF ProgramResets
<1> QED  BY <1>1, AlwaysRead, PTL

\* observe and ensure_manifest: an attempt older than the ledger, or a programme
\* with such an attempt, is never trusted.
THEOREM PastIsNotTrusted ==
  ASSUME Bounds  PROVE  Spec => []PastNotTrusted
<1>1. Recorded /\ Reading => PastNotTrusted
  <2> SUFFICES ASSUME Recorded, Reading, Done
               PROVE  /\ \A t \in read.scope \cap Legacy, axis \in Axes : ~Complete(read, t, axis)
                      /\ read.isProgram /\ Legacy # {} =>
                           \A axis \in Axes : ~ProgramComplete(read, axis)
    BY DEF PastNotTrusted
  <2>1. Has("coverage") /\ (read.isProgram => Has("manifest"))
    BY AtDone DEF Reading, AttemptFields
  <2>2. ASSUME NEW t \in read.scope \cap Legacy, NEW axis \in Axes, Complete(read, t, axis)
        PROVE  FALSE
    BY <2>1, <2>2, FromCreation DEF Recorded, Reading, CoverageSeen, PastKept
  <2>3. ASSUME read.isProgram, Legacy # {}, NEW axis \in Axes, ProgramComplete(read, axis)
        PROVE  FALSE
    <3>1. read.manifest.source # "from_start"
      BY <2>1, <2>3 DEF Reading, PastSeen
    <3> QED  BY <2>3, <3>1 DEF ProgramComplete, CommonReasons, When
  <2> QED  BY <2>2, <2>3
<1> QED  BY <1>1, AlwaysRead, PTL

\* What a report is about, when no write has overlapped the read.
AsItIs(d, t) ==
  /\ d.rows[t] = Selected(t)
  /\ d.coverage[t] = coverage[t]
  /\ d.gaps[t] = gaps[t]
  /\ d.checks[t] = [i \in DOMAIN execs[t] |->
       [source |-> execs[t][i].source, criteria |-> execs[t][i].criteria]]
  /\ d.events[t] = [i \in DOMAIN execs[t] |->
       [begun |-> execs[t][i].begun, end |-> execs[t][i].end]]
  /\ d.environment[t] = ops[t]
  /\ d.submissions[t] = [i \in DOMAIN subs[t] |-> subs[t][i].body]
  /\ d.reviews[t] = [i \in DOMAIN subs[t] |-> subs[t][i].reviews]
  /\ d.runs[t] = runs[t]

LEMMA EventsOf ==
  ASSUME TypeInv, NEW d, NEW t \in Tasks, AsItIs(d, t)
  PROVE  /\ DOMAIN d.events[t] = 1..Len(execs[t]) /\ DOMAIN d.checks[t] = 1..Len(execs[t])
         /\ \A i \in 1..Len(execs[t]) :
              /\ d.events[t][i].begun = execs[t][i].begun
              /\ d.events[t][i].end = execs[t][i].end
              /\ d.checks[t][i].source = execs[t][i].source
<1>1. DOMAIN execs[t] = 1..Len(execs[t])
  BY Listed
<1> QED  BY <1>1 DEF AsItIs

LEMMA QuietCheckReasons ==
  ASSUME TypeInv, ChecksRecorded, NEW d, NEW t \in Tasks, AsItIs(d, t), QuietChecks(t), Settled(t)
  PROVE  CheckReasons(d, t) = {}
<1>0. /\ DOMAIN d.events[t] = 1..Len(execs[t]) /\ DOMAIN d.checks[t] = 1..Len(execs[t])
      /\ \A i \in 1..Len(execs[t]) :
           /\ d.events[t][i].begun = execs[t][i].begun
           /\ d.events[t][i].end = execs[t][i].end
           /\ d.checks[t][i].source = execs[t][i].source
      /\ DOMAIN execs[t] = 1..Len(execs[t])
  BY EventsOf, Listed
<1>1. ASSUME NEW i \in 1..Len(execs[t])
      PROVE  /\ execs[t][i].end.started = "yes" => execs[t][i].begun
             /\ execs[t][i].end # Pending
             /\ execs[t][i].end.result = "unknown" =>
                  execs[t][i].end.class = "infrastructure" /\ execs[t][i].end.started = "no"
  <2>1. /\ Told(execs[t][i], ran[t][i])
        /\ \/ execs[t][i].end.result \in {"passed", "failed"}
           \/ execs[t][i].end.started = "no"
    BY <1>0 DEF ChecksRecorded, Settled
  <2>2. PICK e, r : e = execs[t][i] /\ r = ran[t][i]
    OBVIOUS
  <2>3. CASE e.end = Pending
    BY <2>1, <2>2, <2>3 DEF Pending
  <2>4. CASE e.begun /\ r \in Results /\ e.end = Event(r)
    <3>1. Event(r) # Pending /\ (Event(r).started = "no" => FALSE)
      BY <2>4, EventOfResult DEF Event, Results
    <3> QED  BY <2>1, <2>2, <2>4, <3>1
  <2>5. CASE e.end = NotRun
    <3>1. /\ NotRun.started = "no" /\ NotRun.class = "infrastructure"
          /\ NotRun.result = "unknown" /\ Pending.result = "open"
      BY DEF NotRun, Pending
    <3> QED  BY <2>2, <2>5, <3>1
  <2>6. CASE e.end \in {Lost("infrastructure"), Lost("unknown")}
    BY <2>1, <2>2, <2>6 DEF Lost, Pending
  <2> QED  BY <2>1, <2>2, <2>3, <2>4, <2>5, <2>6 DEF Told
<1>2. \A i \in DOMAIN d.checks[t] : d.checks[t][i].source = "service"
  BY <1>0 DEF QuietChecks
<1>3. \A e \in {d.events[t][i] : i \in DOMAIN d.events[t]} :
        /\ e.end.started = "yes" => e.begun
        /\ e.end # Pending
        /\ e.end.result = "unknown" => e.end.class = "infrastructure" /\ e.end.started = "no"
  BY <1>0, <1>1
<1> QED  BY <1>2, <1>3 DEF CheckReasons, When

LEMMA QuietEnvironmentReasons ==
  ASSUME TypeInv, NEW d, NEW t \in Tasks, AsItIs(d, t), QuietOps(t), Settled(t)
  PROVE  EnvironmentReasons(d, t) = {}
<1>1. d.environment[t] = ops[t] /\ DOMAIN ops[t] = 1..Len(ops[t])
  BY Listed DEF AsItIs
<1>2. \A i \in DOMAIN ops[t] : ops[t][i].origin # "unknown" /\ ops[t][i].outcome \notin {"open", "unknown"}
  BY <1>1 DEF QuietOps, Settled
<1> QED  BY <1>1, <1>2 DEF EnvironmentReasons, When

LEMMA QuietCounterReasons ==
  ASSUME TypeInv, NEW d, NEW t \in Tasks, AsItIs(d, t), QuietChecks(t), QuietOps(t)
  PROVE  CounterReasons(d, t) = {}
<1>0. /\ DOMAIN d.events[t] = 1..Len(execs[t]) /\ DOMAIN d.checks[t] = 1..Len(execs[t])
      /\ \A i \in 1..Len(execs[t]) : d.events[t][i].end = execs[t][i].end
      /\ Len(execs[t]) \in Nat
  BY EventsOf, Listed
<1>1. /\ d.rows[t].row = row[t] /\ d.rows[t].technical = Technical(row[t], runs[t])
      /\ d.coverage[t] = coverage[t] /\ d.environment[t] = ops[t]
  BY DEF AsItIs, Selected
<1>2. Technical(row[t], runs[t]) => \E i \in 1..Len(execs[t]) : execs[t][i].end.result = "passed"
  <2>1. CASE row[t].passed
    BY <2>1 DEF QuietChecks
  <2>2. ASSUME NEW c \in runs[t], c.result = "passed"
        PROVE  \E i \in 1..Len(execs[t]) : execs[t][i].end.result = "passed"
    BY <2>2 DEF QuietChecks, RunsRecorded
  <2> QED  BY <2>1, <2>2 DEF Technical
<1>3. ~(/\ d.rows[t].technical
        /\ \A i \in DOMAIN d.events[t] : d.events[t][i].end.result # "passed")
  BY <1>0, <1>1, <1>2
<1>4. d.rows[t].row.count = Len(d.checks[t]) + d.coverage[t].checks
  <2>1. Len(d.checks[t]) = Len(execs[t])
    <3>1. PICK n \in Nat : n = Len(execs[t])
      BY <1>0
    <3>2. PICK s : s = d.checks[t]
      OBVIOUS
    <3>3. s = [i \in 1..n |-> [source |-> execs[t][i].source, criteria |-> execs[t][i].criteria]]
      BY <1>0, <3>1, <3>2, Listed DEF AsItIs
    <3>4. Len(s) = n
      BY <3>3
    <3> QED  BY <3>1, <3>2, <3>4
  <2> QED  BY <1>1, <2>1 DEF QuietChecks
<1>5. Successful(d, t, {"trainee", "maintenance", "unknown"}) = Cardinality(SuccessfulOps(ops[t]))
  <2>1. \A i \in DOMAIN ops[t] : ops[t][i].origin \in {"trainee", "maintenance", "unknown"}
    BY Listed DEF Operations
  <2>2. {i \in DOMAIN d.environment[t] :
           /\ d.environment[t][i].kind = "reset"
           /\ d.environment[t][i].outcome = "success"
           /\ d.environment[t][i].origin \in {"trainee", "maintenance", "unknown"}}
          = SuccessfulOps(ops[t])
    BY <1>1, <2>1 DEF SuccessfulOps
  <2> QED  BY <2>2 DEF Successful
<1>6. d.rows[t].row.restarts =
        Successful(d, t, {"trainee", "maintenance", "unknown"}) + d.coverage[t].resets
  BY <1>1, <1>5 DEF QuietOps
<1> QED  BY <1>3, <1>4, <1>6 DEF CounterReasons, When

LEMMA QuietRunReasons ==
  ASSUME TypeInv, NEW d, NEW t \in Tasks, AsItIs(d, t), QuietChecks(t)
  PROVE  RunReasons(d, t) = {}
<1>0. /\ DOMAIN d.events[t] = 1..Len(execs[t])
      /\ \A i \in 1..Len(execs[t]) : d.events[t][i].end = execs[t][i].end
      /\ d.runs[t] = runs[t] /\ RunsRecorded(t)
  BY EventsOf DEF AsItIs, QuietChecks
<1> DEFINE named == {i \in DOMAIN d.events[t] : d.events[t][i].end.run}
<1>1. named = {i \in 1..Len(execs[t]) : execs[t][i].end.run}
  BY <1>0
<1>2. {r.pk : r \in d.runs[t]} = named
  BY <1>0, <1>1 DEF RunsRecorded
<1>3. \A r \in d.runs[t], i \in named : r.pk = i =>
        /\ r.exit = d.events[t][i].end.exit
        /\ (r.result = "passed") = (d.events[t][i].end.result = "passed")
  BY <1>0, <1>1 DEF RunsRecorded
<1> HIDE DEF named
<1>4. ~(\E r \in d.runs[t], i \in named :
          /\ r.pk = i
          /\ \/ r.exit # d.events[t][i].end.exit
             \/ (r.result = "passed") # (d.events[t][i].end.result = "passed"))
  BY <1>3
<1> QED  BY <1>2, <1>4 DEF RunReasons, When, named

LEMMA QuietAnswerReasons ==
  ASSUME TypeInv, NEW d, NEW t \in Tasks, AsItIs(d, t), QuietAnswers(t)
  PROVE  AnswerReasons(d, t) = {}
<1>1. Len(subs[t]) \in Nat /\ DOMAIN subs[t] = 1..Len(subs[t])
  BY Listed
<1>2. PICK n \in Nat : n = Len(subs[t])
  BY <1>1
<1>3. PICK b, r : b = d.submissions[t] /\ r = d.reviews[t]
  OBVIOUS
<1>4. b = [i \in 1..n |-> subs[t][i].body] /\ r = [i \in 1..n |-> subs[t][i].reviews]
  BY <1>1, <1>2, <1>3 DEF AsItIs
<1>5. Len(b) = n
  BY <1>4
<1>6. d.rows[t].row = row[t]
  BY DEF AsItIs, Selected
<1>7. ASSUME n > 0, row[t].status \in {"on_review", "passed"}
      PROVE  b[n] = row[t].body /\ row[t].decision = LastDecision(r[n])
  <2>1. n \in 1..n
    BY <1>7
  <2>2. b[n] = subs[t][n].body /\ r[n] = subs[t][n].reviews
    BY <1>4, <2>1
  <2>3. subs[t] # <<>>
    BY <1>2, <1>7, EmptySeq
  <2> QED  BY <1>2, <1>7, <2>2, <2>3 DEF QuietAnswers
<1> QED  BY <1>3, <1>5, <1>6, <1>7 DEF AnswerReasons, When

\* attempt_evidence: no reason is spurious: with nothing lost, by-passed or open and
\* no write during the read, an attempt that was followed from its creation is
\* complete on every axis.
THEOREM QuietIsComplete ==
  ASSUME Bounds  PROVE  Spec => []QuietComplete
<1>1. Recorded /\ Reading => QuietComplete
  <2> SUFFICES ASSUME Recorded, Reading, Done, read.overlaps = 0, faults = 0,
                      NEW t \in read.scope, Settled(t), coverage[t].origin = "creation",
                      NEW axis \in Axes
               PROVE  Complete(read, t, axis)
    BY DEF QuietComplete
  <2>1. /\ \A f \in AttemptFields : Has(f)
        /\ t \in Tasks /\ read.pc # "idle"
    BY AtDone DEF Reading
  <2>2. AsItIs(read, t)
    <3>1. \A f \in AttemptFields : read[f][t] = Now(f, t)
      BY <2>1, QuietNow DEF Reading
    <3>2. /\ "rows" \in AttemptFields /\ "coverage" \in AttemptFields /\ "gaps" \in AttemptFields
          /\ "checks" \in AttemptFields /\ "events" \in AttemptFields
          /\ "environment" \in AttemptFields /\ "submissions" \in AttemptFields
          /\ "reviews" \in AttemptFields /\ "runs" \in AttemptFields
      BY DEF AttemptFields
    <3>3. /\ read.rows[t] = Now("rows", t) /\ read.coverage[t] = Now("coverage", t)
          /\ read.gaps[t] = Now("gaps", t) /\ read.checks[t] = Now("checks", t)
          /\ read.events[t] = Now("events", t)
          /\ read.environment[t] = Now("environment", t)
          /\ read.submissions[t] = Now("submissions", t)
          /\ read.reviews[t] = Now("reviews", t) /\ read.runs[t] = Now("runs", t)
      BY <3>1, <3>2
    <3> QED  BY <3>3, NowIs DEF AsItIs
  <2>3. QuietAttempt(t)
    BY <2>1 DEF Recorded, QuietLedger
  <2>4. /\ CheckReasons(read, t) = {} /\ EnvironmentReasons(read, t) = {}
        /\ CounterReasons(read, t) = {} /\ RunReasons(read, t) = {} /\ AnswerReasons(read, t) = {}
    BY <2>1, <2>2, <2>3, QuietCheckReasons, QuietEnvironmentReasons, QuietCounterReasons,
       QuietRunReasons, QuietAnswerReasons DEF Recorded, QuietAttempt
  <2>5. read.coverage[t].origin = "creation" /\ read.gaps[t] = {}
    BY <2>2, <2>3 DEF AsItIs, QuietAttempt
  <2>6. Reasons(read, t) = {}
    BY <2>4, <2>5 DEF Reasons, When
  <2> QED  BY <2>5, <2>6 DEF Complete, Against
<1> QED  BY <1>1, AlwaysRead, PTL
=============================================================================
