--------------------------- MODULE LedgerEvidence ---------------------------
(***************************************************************************)
(* The reader of the evidence ledger (sandbox/services/ledger_evidence.py) *)
(* beside the transactions that write it.  The report on an attempt or on  *)
(* the program of one trainee is put together from separate SELECTs, each  *)
(* of which sees the last commit (READ COMMITTED), while checks, resets,   *)
(* answers and reviews go on.  An axis of the report (checks, resets,      *)
(* answers) is "complete" only if no reason speaks against it; achievements*)
(* are granted on complete axes.                                           *)
(*                                                                         *)
(* `ran', `remade' and `verdict' are what really happened: the checkers    *)
(* that ran, the environments that were created again, and the decisions   *)
(* that were made, in the ledger or past it.  The rows of the ledger are   *)
(* append-only (LedgerFact and a trigger), so that ordinals and identities *)
(* are given by the position in a sequence; every writer holds the row     *)
(* lock of the attempt, and is one step.  Only the first attempt (credit)  *)
(* of each task is modelled.                                               *)
(***************************************************************************)
EXTENDS Naturals, Sequences, FiniteSets, FiniteSetsExt, TLC

CONSTANTS
  Tasks,         \* the tasks of the queue l1
  Reviewed,      \* those with requires_manual_review
  Active,        \* those that are active at first
  Legacy,        \* those with an attempt older than the ledger
  NewAccount,    \* the trainee joined after the ledger's boundary
  MaxChecks,     \* bounds, for each attempt: executions ...
  MaxOps,        \* ... environment operations ...
  Kinds,         \* ... of these kinds ...
  MaxSubs,       \* ... submissions ...
  MaxReviews,    \* ... reviews of one submission
  Versions,      \* versions of the checkers that are deployed
  MaxFaults,     \* how often something happens that the ledger cannot vouch for
  MaxOverlap,    \* writes that commit during one read
  Scopes         \* what is read: "attempt" or "program"

VARIABLES
  active,        \* Task.is_active
  criteria,      \* the version of the checker files (checker_identity)
  manifest,      \* SandboxProgramManifest
  completion,    \* SandboxProgramCompletion
  row,           \* TaskAttempt
  runs,          \* CheckRun
  coverage,      \* SandboxAttemptCoverage
  gaps,          \* SandboxEvidenceGap
  execs,         \* TechnicalCheckExecution with its events
  ops,           \* SandboxEnvironmentEvent, by operation
  subs,          \* SandboxAnswerSubmission with its reviews
  ran, remade, verdict,
  faults,        \* how often the ledger was by-passed or lost an outcome
  read           \* a reader: what it has selected so far

program == <<active, criteria, manifest, completion>>
truth == <<ran, remade, verdict>>
ledger == <<coverage, gaps, execs, ops, subs>>
vars == <<program, row, runs, ledger, truth, faults, read>>

NoRow == [exists |-> FALSE, count |-> 0, restarts |-> 0, check |-> "idle",
          passed |-> FALSE, status |-> "new", decision |-> "not_reviewed", body |-> 0]
NoCoverage == [origin |-> "none", checks |-> 0, resets |-> 0]
NoManifest == [source |-> "none", tasks |-> {}, criteria |-> 0, reviews |-> TRUE]
Pending == [result |-> "open", class |-> "none", started |-> "none", run |-> FALSE, exit |-> 0]
Decisions == {"not_reviewed", "approved", "needs_revision"}

Idle == [pc |-> "idle"]

Init ==
  /\ active = Active
  /\ criteria = 1
  /\ manifest = NoManifest
  /\ completion = [made |-> FALSE, tasks |-> {}]
  /\ \E n \in 0..1 :
       row = [t \in Tasks |-> IF t \in Legacy
                                THEN [NoRow EXCEPT !.exists = TRUE, !.count = n]
                                ELSE NoRow]
  /\ runs = [t \in Tasks |-> {}]
  /\ coverage = [t \in Tasks |-> NoCoverage]
  /\ gaps = [t \in Tasks |-> {}]
  /\ execs = [t \in Tasks |-> <<>>]
  /\ ops = [t \in Tasks |-> <<>>]
  /\ subs = [t \in Tasks |-> <<>>]
  /\ ran = [t \in Tasks |-> <<>>]
  /\ remade = [t \in Tasks |-> {}]
  /\ verdict = [t \in Tasks |-> <<>>]
  /\ faults = 0
  /\ read = Idle

-----------------------------------------------------------------------------
(* Attempts and their coverage.                                            *)

\* observe: an attempt the ledger has not met gets a coverage with the counts of
\* the caller's copy.
Observed(t, copy) ==
  IF coverage[t].origin = "none"
    THEN [coverage EXCEPT ![t] = [origin |-> "legacy_observed", checks |-> copy.count,
                                  resets |-> copy.restarts]]
    ELSE coverage

\* gap: only of an attempt with a coverage (cov is the table after observe).
WithGap(t, reason, cov) ==
  IF cov[t].origin = "none" THEN gaps ELSE [gaps EXCEPT ![t] = @ \cup {reason}]

\* Mutant: the attempts that are there already are not looked at.
EnsuredManifestMutant ==
  IF manifest.source # "none" THEN manifest
  ELSE [source |-> IF NewAccount THEN "from_start" ELSE "existing_account",
        tasks |-> active, criteria |-> criteria, reviews |-> TRUE]

\* ensure_manifest, before the row is inserted: the first manifest stays.
EnsuredManifest ==
  IF manifest.source # "none" THEN manifest
  ELSE IF completion.made
    THEN [source |-> "legacy_completion", tasks |-> completion.tasks, criteria |-> 0,
          reviews |-> FALSE]
    ELSE [source |-> IF \E u \in Tasks : row[u].exists THEN "existing_program"
                     ELSE IF NewAccount THEN "from_start" ELSE "existing_account",
          tasks |-> active, criteria |-> criteria, reviews |-> TRUE]

\* TaskAttempt.save of a new row: the manifest, the row and the coverage.  An
\* import brings counts with it, and created_attempt sees that.
CreateAttempt(t, count) ==
  /\ ~row[t].exists
  /\ t \in active
  /\ manifest' = EnsuredManifest
  /\ row' = [row EXCEPT ![t] = [NoRow EXCEPT !.exists = TRUE, !.count = count]]
  /\ coverage' = [coverage EXCEPT ![t] =
       [origin |-> IF count = 0 THEN "creation" ELSE "imported_state",
        checks |-> count, resets |-> 0]]
  /\ UNCHANGED <<active, criteria, completion, runs, gaps, execs, ops, subs, truth>>

\* Mutant: a change of a protected field leaves no gap.
UnsupportedUpdateMutant(t) == gaps

\* The trigger of migration 0033, or TaskAttempt.save and AttemptQuerySet.update
\* outside writer(): the gap of a change of protected fields.
UnsupportedUpdate(t) == WithGap(t, "unsupported_update", coverage)

\* An administrator or another program changes a protected field of the row.
OutsideUpdate(t) ==
  /\ row[t].exists
  /\ \/ /\ row' = [row EXCEPT ![t].count = 1 - @]
        /\ row[t].count \in 0..1
        /\ UNCHANGED verdict
     \/ /\ row[t].restarts > 0
        /\ row' = [row EXCEPT ![t].restarts = 0]
        /\ UNCHANGED verdict
     \/ /\ \E d \in Decisions \ {row[t].decision} :
             /\ row' = [row EXCEPT ![t].decision = d]
             /\ verdict' = IF verdict[t] = <<>> THEN verdict
                           ELSE [verdict EXCEPT ![t][Len(verdict[t])] = d]
     \/ /\ ~row[t].passed
        /\ row' = [row EXCEPT ![t].passed = TRUE, ![t].check = "passed"]
        /\ UNCHANGED verdict
  /\ gaps' = UnsupportedUpdate(t)
  /\ UNCHANGED <<program, runs, coverage, execs, ops, subs, ran, remade>>

\* A CheckRun is not a row of the ledger: it may be changed or deleted.
OutsideRun(t, r) ==
  /\ r \in runs[t]
  /\ \/ runs' = [runs EXCEPT ![t] = @ \ {r}]
     \/ runs' = [runs EXCEPT ![t] = (@ \ {r}) \cup
                   {[r EXCEPT !.result = IF @ = "passed" THEN "failed" ELSE "passed"]}]
  /\ UNCHANGED <<program, row, ledger, truth>>

\* The catalogue changes: a task is switched on or off, a checker is deployed.
ChangeCatalogue ==
  /\ \/ /\ \E t \in Tasks \ Active : active' = active \cup {t}
        /\ active' # active
        /\ UNCHANGED criteria
     \/ /\ criteria < Versions
        /\ criteria' = criteria + 1
        /\ UNCHANGED active
  /\ UNCHANGED <<manifest, completion, row, runs, ledger, truth>>

-----------------------------------------------------------------------------
(* Technical checks.                                                       *)

\* get_technical_evidence.
Technical(r, rs) ==
  r.passed \/ \E c \in rs : c.result = "passed" /\ c.exit = 0

\* request_check: the next ordinal, with the version of the checker.
Execution(source) ==
  [source |-> source, criteria |-> criteria, begun |-> FALSE, end |-> Pending]

\* try_mark_attempt_check_running: the counter, the status and the execution.
RequestCheck(t) ==
  /\ row[t].exists
  /\ Len(execs[t]) < MaxChecks
  /\ ~Technical(row[t], runs[t])
  /\ row[t].check # "running"
  /\ row' = [row EXCEPT ![t].count = @ + 1, ![t].check = "running",
                        ![t].status = "in_progress"]
  /\ coverage' = Observed(t, row'[t])
  /\ execs' = [execs EXCEPT ![t] = Append(@, Execution("service"))]
  /\ ran' = [ran EXCEPT ![t] = Append(@, "no")]
  /\ UNCHANGED <<program, runs, gaps, ops, subs, remade, verdict>>

\* checked, for an old message that names no run.
LegacyDelivery(t) ==
  /\ row[t].exists
  /\ Len(execs[t]) < MaxChecks
  /\ ~Technical(row[t], runs[t])
  /\ coverage' = Observed(t, row[t])
  /\ execs' = [execs EXCEPT ![t] = Append(@, Execution("legacy_delivery"))]
  /\ gaps' = WithGap(t, "unregistered_check_request", coverage')
  /\ ran' = [ran EXCEPT ![t] = Append(@, "no")]
  /\ UNCHANGED <<program, row, runs, ops, subs, remade, verdict>>

\* begin_check: one admission; an execution with events only gets "duplicate".
BeginCheck(t, i) ==
  /\ ~execs[t][i].begun
  /\ execs[t][i].end = Pending
  /\ execs' = [execs EXCEPT ![t][i].begun = TRUE]
  /\ UNCHANGED <<program, row, runs, coverage, gaps, ops, subs, truth>>

\* exec_run, outside any transaction, even if the execution was closed by now.
RunChecker(t, i) ==
  /\ execs[t][i].begun
  /\ ran[t][i] = "no"
  /\ execs[t][i].end.started # "no"
  /\ \E outcome \in {"passed", "failed", "timeout", "crashed"} :
       ran' = [ran EXCEPT ![t][i] = outcome]
  /\ UNCHANGED <<program, row, runs, ledger, remade, verdict>>

\* check_live: the execution is not closed.
Live(t, i) == execs[t][i].begun /\ execs[t][i].end = Pending

\* Mutant of Event: a timeout is recorded as a failed check.
EventMutant(outcome) ==
  [result |-> IF outcome = "passed" THEN "passed" ELSE "failed",
   class |-> "technical", started |-> "yes", run |-> TRUE,
   exit |-> CASE outcome = "passed" -> 0 [] outcome = "failed" -> 1 [] OTHER -> 124]

\* The classification of an exit code: 0, 1 and all the others.
Event(outcome) ==
  CASE outcome = "passed" -> [result |-> "passed", class |-> "none", started |-> "yes",
                              run |-> TRUE, exit |-> 0]
    [] outcome = "failed" -> [result |-> "failed", class |-> "technical", started |-> "yes",
                              run |-> TRUE, exit |-> 1]
    [] outcome = "timeout" -> [result |-> "unknown", class |-> "timeout", started |-> "yes",
                               run |-> TRUE, exit |-> 124]
    [] OTHER -> [result |-> "unknown", class |-> "unknown", started |-> "none",
                 run |-> TRUE, exit |-> 255]

\* The last transaction of run_attempt_check: the run, the row, the event, and
\* the completion of the program.
FinishCheck(t, i) ==
  /\ Live(t, i)
  /\ ran[t][i] # "no"
  /\ LET e == Event(ran[t][i])
         pass == ran[t][i] = "passed"
     IN /\ runs' = [runs EXCEPT ![t] = @ \cup
                      {[pk |-> i, exit |-> e.exit, result |-> IF pass THEN "passed" ELSE "failed"]}]
        /\ row' = [row EXCEPT ![t].passed = @ \/ pass,
                              ![t].check = IF pass THEN "passed" ELSE "failed",
                              ![t].status = IF ~pass THEN "failed"
                                            ELSE IF t \in Reviewed THEN "in_progress"
                                            ELSE "passed"]
        /\ execs' = [execs EXCEPT ![t][i].end = e]
  /\ completion' = IF /\ row'[t].passed
                      /\ ~completion.made
                      /\ \A u \in active : Technical(row'[u], runs'[u])
                     THEN [made |-> TRUE, tasks |-> active]
                     ELSE completion
  /\ UNCHANGED <<active, criteria, manifest, coverage, gaps, ops, subs, truth>>

\* The container is not found: an exception before exec_run.
NotStarted(t, i) ==
  /\ Live(t, i)
  /\ ran[t][i] = "no"
  /\ row' = [row EXCEPT ![t].check = "error", ![t].status = "failed"]
  /\ execs' = [execs EXCEPT ![t][i].end =
       [Pending EXCEPT !.result = "unknown", !.class = "infrastructure", !.started = "no"]]
  /\ UNCHANGED <<program, runs, coverage, gaps, ops, subs, truth>>

\* Any other exception, or no exit code: nobody knows whether the checker ran.
LoseOutcome(t, i) ==
  /\ Live(t, i)
  /\ row' = [row EXCEPT ![t].check = "error", ![t].status = "failed"]
  /\ execs' = [execs EXCEPT ![t][i].end =
       [Pending EXCEPT !.result = "unknown", !.class = "infrastructure"]]
  /\ UNCHANGED <<program, runs, coverage, gaps, ops, subs, truth>>

-----------------------------------------------------------------------------
(* Environment operations.                                                 *)

\* request_environment.
RequestOp(t, kind, origin) ==
  /\ row[t].exists
  /\ Len(ops[t]) < MaxOps
  /\ coverage' = Observed(t, row[t])
  /\ ops' = [ops EXCEPT ![t] =
       Append(@, [kind |-> kind, origin |-> origin, begun |-> FALSE, outcome |-> "open"])]
  /\ UNCHANGED <<program, row, runs, gaps, execs, subs, truth>>

Alone(t, i) == \A j \in DOMAIN ops[t] \ {i} : ops[t][j].outcome # "open"

\* begin_environment of a registered operation: admitted, or refused while
\* another one is open.
BeginOp(t, i) ==
  /\ ~ops[t][i].begun
  /\ ops[t][i].outcome = "open"
  /\ ops' = IF Alone(t, i) THEN [ops EXCEPT ![t][i].begun = TRUE]
                           ELSE [ops EXCEPT ![t][i].outcome = "not_started"]
  /\ UNCHANGED <<program, row, runs, coverage, gaps, execs, subs, truth>>

\* begin_environment of a call that names no operation and no origin.
UnregisteredOp(t) ==
  /\ row[t].exists
  /\ Len(ops[t]) < MaxOps
  /\ coverage' = Observed(t, row[t])
  /\ gaps' = WithGap(t, "unregistered_environment_request", coverage')
  /\ LET busy == \E j \in DOMAIN ops[t] : ops[t][j].outcome = "open"
     IN ops' = [ops EXCEPT ![t] =
          Append(@, [kind |-> "reset", origin |-> "unknown", begun |-> ~busy,
                     outcome |-> IF busy THEN "not_started" ELSE "open"])]
  /\ UNCHANGED <<program, row, runs, execs, subs, truth>>

\* The worker creates the containers, even if the operation was closed by now.
Remake(t, i) ==
  /\ ops[t][i].begun
  /\ i \notin remade[t]
  /\ remade' = [remade EXCEPT ![t] = @ \cup {i}]
  /\ UNCHANGED <<program, row, runs, ledger, ran, verdict>>

\* The success and the counter, in one transaction, if the operation is open.
CommitOp(t, i) ==
  /\ ops[t][i].outcome = "open"
  /\ i \in remade[t]
  /\ ops' = [ops EXCEPT ![t][i].outcome = "success"]
  /\ row' = [row EXCEPT ![t].restarts = IF ops[t][i].kind = "reset" THEN @ + 1 ELSE @]
  /\ UNCHANGED <<program, runs, coverage, gaps, execs, subs, truth>>

\* environment_error: some step of the operation failed.
FailOp(t, i) ==
  /\ ops[t][i].begun
  /\ ops[t][i].outcome = "open"
  /\ ops' = [ops EXCEPT ![t][i].outcome = "unknown"]
  /\ UNCHANGED <<program, row, runs, coverage, gaps, execs, subs, truth>>

\* interrupt, by the watchdog or the cleanup: all that is open is closed without
\* a result.
Interrupt(t) ==
  /\ \/ \E i \in DOMAIN execs[t] : execs[t][i].end = Pending
     \/ \E i \in DOMAIN ops[t] : ops[t][i].outcome = "open"
  /\ execs' = [execs EXCEPT ![t] = [i \in DOMAIN @ |->
       IF @[i].end = Pending
         THEN [@[i] EXCEPT !.end = [Pending EXCEPT !.result = "unknown", !.class = "unknown"]]
         ELSE @[i]]]
  /\ ops' = [ops EXCEPT ![t] = [i \in DOMAIN @ |->
       IF @[i].outcome = "open" THEN [@[i] EXCEPT !.outcome = "unknown"] ELSE @[i]]]
  /\ row' = [row EXCEPT ![t].check = IF @ = "running" THEN "error" ELSE @]
  /\ UNCHANGED <<program, runs, coverage, gaps, subs, truth>>

-----------------------------------------------------------------------------
(* Answers and reviews.                                                    *)

\* A draft is only kept in the row.
SaveDraft(t, body) ==
  /\ t \in Reviewed
  /\ row[t].passed
  /\ row[t].status \notin {"on_review", "passed"}
  /\ row' = [row EXCEPT ![t].body = body]
  /\ UNCHANGED <<program, runs, ledger, truth>>

\* submit_answer and the row of the view's second transaction.
SubmitAnswer(t) ==
  /\ t \in Reviewed
  /\ row[t].passed
  /\ row[t].status \notin {"on_review", "passed"}
  /\ row[t].body # 0
  /\ Len(subs[t]) < MaxSubs
  /\ coverage' = Observed(t, row[t])
  /\ subs' = [subs EXCEPT ![t] = Append(@, [body |-> row[t].body, reviews |-> <<>>])]
  /\ row' = [row EXCEPT ![t].status = "on_review", ![t].decision = "not_reviewed"]
  /\ verdict' = [verdict EXCEPT ![t] = Append(@, "not_reviewed")]
  /\ UNCHANGED <<program, runs, gaps, execs, ops, ran, remade>>

Decided(r, decision) ==
  [r EXCEPT !.decision = decision,
            !.status = CASE decision = "approved" -> "passed"
                         [] decision = "needs_revision" -> "failed"
                         [] OTHER -> @]

\* review_answer of the latest submission, whose text is still the row's; the
\* same verdict once more adds no event.  A form that names no version leaves a
\* gap.
ReviewAnswer(t, decision, versioned) ==
  LET n == Len(subs[t])
      old == subs[t][n].reviews
  IN /\ row[t].exists
     /\ subs[t] # <<>>
     /\ row[t].body = subs[t][n].body
     /\ coverage' = Observed(t, row[t])
     /\ gaps' = IF versioned THEN gaps
                ELSE WithGap(t, "review_version_unspecified", coverage')
     /\ IF old # <<>> /\ old[Len(old)] = decision
          THEN UNCHANGED subs
          ELSE /\ Len(old) < MaxReviews
               /\ subs' = [subs EXCEPT ![t][n].reviews = Append(@, decision)]
     /\ row' = [row EXCEPT ![t] = Decided(@, decision)]
     /\ verdict' = [verdict EXCEPT ![t][n] = decision]
     /\ UNCHANGED <<program, runs, execs, ops, ran, remade>>

\* review_answer of an attempt without submissions: the row alone is decided.
ReviewWithoutSubmission(t, decision) ==
  /\ row[t].exists
  /\ t \in Reviewed
  /\ subs[t] = <<>>
  /\ coverage' = Observed(t, row[t])
  /\ gaps' = WithGap(t, "review_without_submission", coverage')
  /\ row' = [row EXCEPT ![t] = Decided(@, decision)]
  /\ UNCHANGED <<program, runs, execs, ops, subs, truth>>

-----------------------------------------------------------------------------
(* What is true of an attempt at one moment.                               *)

FirstRan(s) ==
  LET is == {i \in DOMAIN s : s[i] # "no"}
  IN IF is = {} THEN <<0, "none">> ELSE <<Min(is), s[Min(is)]>>

TraineeResets(t) ==
  Cardinality({i \in remade[t] : ops[t][i].kind = "reset" /\ ops[t][i].origin = "trainee"})

Moment == [t \in Tasks |-> [first |-> FirstRan(ran[t]), resets |-> TraineeResets(t),
                            verdicts |-> verdict[t]]]

-----------------------------------------------------------------------------
(* The reader.                                                             *)

\* attempt_evidence, or program_evidence, is called.
Start(isProgram, scope) ==
  /\ read.pc = "idle"
  /\ read' = [pc |-> IF isProgram THEN "manifest" ELSE "attempts",
              isProgram |-> isProgram, scope |-> scope, seen |-> {Moment}, overlaps |-> 0]

\* The SELECT at step pc adds its field to what was read, and next follows.
Select(pc, field, value, next) ==
  /\ read.pc = pc
  /\ read' = [f \in DOMAIN read \cup {field} |->
                CASE f = field -> value [] f = "pc" -> next [] OTHER -> read[f]]

Of(table) == [t \in read.scope |-> table[t]]

SelectManifest == Select("manifest", "manifest", manifest, "completion")
SelectCompletion == Select("completion", "completion", completion, "credit")

\* The row of an attempt, and get_technical_evidence with it.
Selected(t) == [row |-> row[t], technical |-> Technical(row[t], runs[t])]

\* The credit attempts of the manifest, and their technical evidence.
SelectCredit ==
  /\ read.pc = "credit"
  /\ read' = [f \in DOMAIN read \cup {"rows"} |->
       LET there == {t \in read.manifest.tasks : row[t].exists}
       IN CASE f = "rows" -> [t \in there |-> Selected(t)]
            [] f = "scope" -> there
            [] f = "pc" -> "coverage"
            [] OTHER -> read[f]]

SelectAttempts ==
  Select("attempts", "rows", [t \in read.scope |-> Selected(t)], "coverage")

\* _load, query by query; events and reviews are prefetched after their parents.
SelectCoverage == Select("coverage", "coverage", Of(coverage), "gaps")
SelectGaps == Select("gaps", "gaps", Of(gaps), "checks")
SelectChecks ==
  Select("checks", "checks",
         [t \in read.scope |-> [i \in DOMAIN execs[t] |->
            [source |-> execs[t][i].source, criteria |-> execs[t][i].criteria]]], "events")
SelectEvents ==
  Select("events", "events",
         [t \in read.scope |-> [i \in DOMAIN read.checks[t] |->
            [begun |-> execs[t][i].begun, end |-> execs[t][i].end]]], "environment")
SelectEnvironment == Select("environment", "environment", Of(ops), "submissions")
SelectSubmissions ==
  Select("submissions", "submissions",
         [t \in read.scope |-> [i \in DOMAIN subs[t] |-> subs[t][i].body]], "reviews")
SelectReviews ==
  Select("reviews", "reviews",
         [t \in read.scope |-> [i \in DOMAIN read.submissions[t] |-> subs[t][i].reviews]], "runs")
SelectRuns == Select("runs", "runs", Of(runs), "done")

Reader ==
  \/ \E t \in Tasks : "attempt" \in Scopes /\ row[t].exists /\ Start(FALSE, {t})
  \/ "program" \in Scopes /\ Start(TRUE, {})
  \/ SelectManifest \/ SelectCompletion \/ SelectCredit \/ SelectAttempts
  \/ SelectCoverage \/ SelectGaps \/ SelectChecks \/ SelectEvents
  \/ SelectEnvironment \/ SelectSubmissions \/ SelectReviews \/ SelectRuns

-----------------------------------------------------------------------------
(* The report, from the data d that were read.                             *)

When(condition, reason) == IF condition THEN {reason} ELSE {}

\* The reasons that the executions of the attempt give.
CheckReasons(d, t) ==
  LET ends == {d.events[t][i] : i \in DOMAIN d.events[t]}
  IN When(\E e \in ends : e.end.started = "yes" /\ ~e.begun, "check_start_missing")
     \cup When(\E e \in ends : e.end = Pending, "execution_pending")
     \cup When(\E e \in ends : /\ e.end.result = "unknown"
                               /\ ~(e.end.class = "infrastructure" /\ e.end.started = "no"),
               "check_outcome_unknown")
     \cup When(\E i \in DOMAIN d.checks[t] : d.checks[t][i].source # "service",
               "unregistered_execution")

\* Mutant: operations without an outcome are passed over.
EnvironmentReasonsMutant(d, t) ==
  When(\E i \in DOMAIN d.environment[t] : d.environment[t][i].origin = "unknown",
       "environment_origin_unknown")

\* The reasons that the environment operations give.
EnvironmentReasons(d, t) ==
  LET es == {d.environment[t][i] : i \in DOMAIN d.environment[t]}
  IN When(\E e \in es : e.origin = "unknown", "environment_origin_unknown")
     \cup When(\E e \in es : e.outcome = "open", "environment_pending")
     \cup When(\E e \in es : e.outcome = "unknown", "environment_outcome_unknown")
     \cup When(\E e \in es : e.kind = "reset" /\ e.origin = "unknown", "reset_origin_unknown")

Successful(d, t, origins) ==
  Cardinality({i \in DOMAIN d.environment[t] :
                 /\ d.environment[t][i].kind = "reset"
                 /\ d.environment[t][i].outcome = "success"
                 /\ d.environment[t][i].origin \in origins})

\* The last decision on a submission.
LastDecision(reviews) == IF reviews = <<>> THEN "not_reviewed" ELSE reviews[Len(reviews)]

\* Mutant: the trainee's resets alone are compared with restart_count.
CounterReasonsMutant(d, t) ==
  When(d.rows[t].row.restarts # Successful(d, t, {"trainee"}) + d.coverage[t].resets,
       "reset_count_mismatch")

\* The row against the ledger: its evidence and its counters.
CounterReasons(d, t) ==
  When(/\ d.rows[t].technical
       /\ \A i \in DOMAIN d.events[t] : d.events[t][i].end.result # "passed",
       "technical_evidence_outside_ledger")
  \cup When(d.rows[t].row.count # Len(d.checks[t]) + d.coverage[t].checks, "check_count_mismatch")
  \cup When(d.rows[t].row.restarts #
              Successful(d, t, {"trainee", "maintenance", "unknown"}) + d.coverage[t].resets,
            "reset_count_mismatch")

\* The raw runs against the finished events.
RunReasons(d, t) ==
  LET named == {i \in DOMAIN d.events[t] : d.events[t][i].end.run}
  IN When({r.pk : r \in d.runs[t]} # named, "check_run_details_mismatch")
     \cup When(\E r \in d.runs[t], i \in named :
                 /\ r.pk = i
                 /\ \/ r.exit # d.events[t][i].end.exit
                    \/ (r.result = "passed") # (d.events[t][i].end.result = "passed"),
               "check_run_mutated")

\* The text and the decision of the row against the latest submission.
AnswerReasons(d, t) ==
  LET n == Len(d.submissions[t])
      compared == n > 0 /\ d.rows[t].row.status \in {"on_review", "passed"}
  IN When(compared /\ d.submissions[t][n] # d.rows[t].row.body, "submitted_text_mismatch")
     \cup When(compared /\ d.rows[t].row.decision # LastDecision(d.reviews[t][n]),
               "review_projection_mismatch")

\* _attempt_evidence: all the reasons but the gaps.
Reasons(d, t) ==
  When(d.coverage[t].origin # "creation", "history_not_recorded_from_creation")
  \cup CheckReasons(d, t) \cup EnvironmentReasons(d, t) \cup CounterReasons(d, t)
  \cup RunReasons(d, t) \cup AnswerReasons(d, t)

\* source_axes: the reasons and gaps that belong to one axis, by their prefixes.
OfAxis ==
  [checks |-> {"check_start_missing", "execution_pending", "check_outcome_unknown",
               "unregistered_execution", "technical_evidence_outside_ledger",
               "check_count_mismatch", "check_run_details_mismatch", "check_run_mutated",
               "unregistered_check_request"},
   resets |-> {"environment_origin_unknown", "environment_pending",
               "environment_outcome_unknown", "reset_origin_unknown",
               "reset_count_mismatch", "unregistered_environment_request"},
   answers |-> {"submitted_text_mismatch", "review_projection_mismatch",
                "review_without_submission", "review_version_unspecified"}]

Axes == DOMAIN OfAxis

\* What speaks against an axis: its own reasons, and those of no axis.
Against(d, t, axis) ==
  (Reasons(d, t) \cup d.gaps[t]) \ UNION {OfAxis[x] : x \in Axes \ {axis}}

Complete(d, t, axis) == Against(d, t, axis) = {}

\* first_check: the first execution whose checker started.
FirstCheck(d, t) ==
  LET is == {i \in DOMAIN d.events[t] : d.events[t][i].end.started = "yes"}
  IN IF is = {} THEN <<0, "none">> ELSE <<Min(is), d.events[t][Min(is)].end.result>>

\* valid_returns, and first_answer_approved.
ValidReturns(last) == Cardinality({i \in DOMAIN last : last[i] = "needs_revision"})
FirstAnswerApproved(last) == Len(last) = 1 /\ last[1] = "approved"
Last(d, t) == [i \in DOMAIN d.reviews[t] |-> LastDecision(d.reviews[t][i])]

-----------------------------------------------------------------------------
(* program_evidence.                                                       *)

\* Mutant: the completion is not compared with the manifest.
CommonReasonsMutant(d) ==
  When(d.manifest.source # "from_start", "requirements_not_frozen_from_start")
  \cup When(\E t \in d.manifest.tasks : t \notin d.scope, "credit_attempt_missing")

\* The reasons that speak against every axis of the program.
CommonReasons(d) ==
  When(d.manifest.source = "none", "manifest_missing")
  \cup When(d.manifest.source \notin {"none", "from_start"},
            "requirements_not_frozen_from_start")
  \cup When(d.manifest.source # "none" /\ d.manifest.tasks = {}, "manifest_empty")
  \cup When(d.completion.made /\ d.manifest.tasks # d.completion.tasks,
            "completion_manifest_composition_mismatch")
  \cup When(\E t \in d.manifest.tasks : t \notin d.scope, "credit_attempt_missing")

\* The reasons of the entries: a legacy manifest knows neither the answers nor
\* the criteria that were required.
EntryReasons(d, axis) ==
  When(axis = "answers" /\ ~d.manifest.reviews /\ d.scope # {}, "answer_requirement_unknown")
  \cup When(axis = "checks" /\ \E t \in d.scope : \E i \in DOMAIN d.checks[t] :
              d.checks[t][i].criteria # d.manifest.criteria, "criteria_version_changed")

ProgramComplete(d, axis) ==
  /\ CommonReasons(d) \cup EntryReasons(d, axis) = {}
  /\ \A t \in d.scope : Complete(d, t, axis) \/ (axis = "answers" /\ t \notin Reviewed)

\* The sum of the numbers in a table.
Total(table) == MapThenSumSet(LAMBDA t : table[t], DOMAIN table)

\* successful_resets of the program.
ProgramResets(d) == Total([t \in d.scope |-> Successful(d, t, {"trainee"})])

-----------------------------------------------------------------------------
(* The system.                                                             *)

Service ==
  \/ \E t \in Tasks :
       \/ CreateAttempt(t, 0)
       \/ RequestCheck(t)
       \/ \E i \in DOMAIN execs[t] :
            \/ BeginCheck(t, i) \/ RunChecker(t, i) \/ NotStarted(t, i)
            \/ FinishCheck(t, i)
       \/ \E kind \in Kinds, origin \in {"trainee", "maintenance"} :
            RequestOp(t, kind, origin)
       \/ \E i \in DOMAIN ops[t] : BeginOp(t, i) \/ Remake(t, i) \/ CommitOp(t, i)
       \/ \E body \in 1..2 : SaveDraft(t, body)
       \/ SubmitAnswer(t)
       \/ \E decision \in Decisions : ReviewAnswer(t, decision, TRUE)
  \/ ChangeCatalogue

\* What the ledger cannot vouch for.
Fault ==
  \E t \in Tasks :
    \/ CreateAttempt(t, 1)
    \/ OutsideUpdate(t)
    \/ \E r \in runs[t] : OutsideRun(t, r)
    \/ LegacyDelivery(t)
    \/ \E i \in DOMAIN execs[t] : LoseOutcome(t, i)
    \/ UnregisteredOp(t)
    \/ \E i \in DOMAIN ops[t] : FailOp(t, i)
    \/ Interrupt(t)
    \/ \E decision \in Decisions :
         ReviewAnswer(t, decision, FALSE) \/ ReviewWithoutSubmission(t, decision)

\* A reader in progress sees the moment after the write; a finished one has
\* returned its report.
Overlap ==
  IF read.pc \in {"idle", "done"} THEN read' = Idle
  ELSE /\ read.overlaps < MaxOverlap
       /\ read' = [read EXCEPT !.seen = @ \cup {Moment'}, !.overlaps = @ + 1]

Next ==
  \/ Service /\ Overlap /\ UNCHANGED faults
  \/ Fault /\ faults < MaxFaults /\ faults' = faults + 1 /\ Overlap
  \/ Reader /\ UNCHANGED <<program, row, runs, ledger, truth, faults>>

Spec == Init /\ [][Next]_vars

-----------------------------------------------------------------------------
Done == read.pc = "done"

\* attempt_evidence: a first check that is reported as trusted is the first one
\* that really ran at some moment of the read, with the result it had, whatever
\* committed between two SELECTs and whatever was lost, interrupted or changed.
FirstCheckTrue ==
  Done => \A t \in read.scope : Complete(read, t, "checks") =>
    \E m \in read.seen : m[t].first = FirstCheck(read, t)

\* attempt_evidence: the number of resets that is reported as trusted is the
\* number of times the trainee's environment was really created again: an unknown
\* outcome never becomes a lenient zero.
ResetsTrue ==
  Done => \A t \in read.scope : Complete(read, t, "resets") =>
    \E m \in read.seen : m[t].resets = Successful(read, t, {"trainee"})

\* At most one write overlaps the read, or nothing has by-passed the ledger.
FewWrites == read.overlaps <= 1 \/ faults = 0

\* attempt_evidence: trusted returns, and a first answer that is trusted to be
\* approved, are those of the decisions that stood at some moment of the read,
\* if at most one write overlapped it, or nothing by-passed the ledger before its
\* end.  Without this condition it is false: a change past the ledger that the
\* SELECT of the gaps came too early for, and two writes around it, give a report
\* of decisions that never stood together.
AnswersTrue ==
  Done /\ FewWrites => \A t \in read.scope : Complete(read, t, "answers") =>
    \E m \in read.seen :
      /\ ValidReturns(m[t].verdicts) = ValidReturns(Last(read, t))
      /\ FirstAnswerApproved(m[t].verdicts) = FirstAnswerApproved(Last(read, t))

Settled(t) ==
  /\ \A i \in DOMAIN execs[t] : \/ execs[t][i].end.result \in {"passed", "failed"}
                                  \/ execs[t][i].end.started = "no"
  /\ \A i \in DOMAIN ops[t] : ops[t][i].outcome # "open"

\* attempt_evidence: no reason is spurious.  An attempt the ledger has followed
\* from its creation, with nothing lost and nothing open, is complete on every
\* axis when no write overlaps the read.
QuietComplete ==
  Done /\ read.overlaps = 0 /\ faults = 0 => \A t \in read.scope :
    Settled(t) /\ coverage[t].origin = "creation" => \A axis \in Axes : Complete(read, t, axis)

\* program_evidence: with a completion, trusted resets are those of all the tasks
\* of the completion, at one moment of the read: a task that joined the programme
\* after its manifest was frozen is never left out of the sum silently.
ProgramResetsTrue ==
  Done /\ read.isProgram =>
    (ProgramComplete(read, "resets") /\ read.completion.made =>
       \E m \in read.seen :
         ProgramResets(read) =
           Total([t \in read.completion.tasks |-> m[t].resets]))

\* observe and ensure_manifest: enabling the ledger does not make the past
\* complete.  No later check, reset, answer, new attempt or completion makes an
\* attempt older than the ledger, or a programme with such an attempt, trusted.
PastNotTrusted ==
  Done =>
    /\ \A t \in read.scope \cap Legacy, axis \in Axes : ~Complete(read, t, axis)
    /\ read.isProgram /\ Legacy # {} => \A axis \in Axes : ~ProgramComplete(read, axis)

=============================================================================
