---------------------------- MODULE SchemeTransfer ----------------------------
(***************************************************************************)
(* The one-time transfer of cards from the legacy to the unified catalog   *)
(* of stages: a read-only audit, the transfer against the audited          *)
(* baseline, its verification and its rollback, while the staff keeps      *)
(* moving trainees, accounts come, go and change their staff flag, and     *)
(* days pass.  Cards may start in the states that the requests of          *)
(* TraineeJourney can leave them in.                                       *)
(*                                                                         *)
(* migrate_schemes holds table locks from before its first read, so each   *)
(* of its runs is one step.  A fingerprint is the value it digests; of the *)
(* metrics and the confirmations, which it only compares, it is kept how   *)
(* many changes they have seen.  Accounts of trainees with a card stay.    *)
(***************************************************************************)
EXTENDS Integers, Sequences, FiniteSets, FiniteSetsExt, TLC

CONSTANTS
  Journeys,    \* cards that may exist
  Damaged,     \* those that may start out of order
  Used,        \* stages visited before and moved to afterwards
  Yesterday,   \* the day before the model starts; histories reach back to 0
  LastDay,     \* bound on the calendar
  MaxVisits,   \* bound on the visits of a card
  Accounts,    \* accounts that exist or may be created
  Staff,       \* those of the staff at first
  MaxTogether  \* bound on cards and changes of accounts and other rows

NoDay == -1
Nobody == "nobody"   \* a key that is NULL
Stage(o, m, w, g, s) ==
  [order |-> o, max_days |-> m, weight |-> w, group |-> g, scope |-> s]

\* Stages that apply to new hires; each value in the order of the fields
\* above.  All cards of the model are those of new hires.
DEFAULT_CATALOG ==
  "first-day" :> Stage(1, 1, 3, "teachbase", "legacy")
  @@ "vds" :> Stage(2, 7, 15, "teachbase", "legacy")
  @@ "managed-services" :> Stage(3, 3, 8, "teachbase", "legacy")
  @@ "client-service" :> Stage(4, 2, 5, "teachbase", "legacy")
  @@ "before-tickets" :> Stage(6, 1, 4, "teachbase", "legacy")
  @@ "sandbox-candidate" :> Stage(5, 2, 5, "sandbox_candidate", "shared")
  @@ "with-review" :> Stage(7, 20, 35, "with_review", "shared")
  @@ "optional-review" :> Stage(8, 10, 10, "optional_review", "shared")
  @@ "no-review" :> Stage(9, 10, 15, "no_review", "shared")
  @@ "done" :> Stage(10, 0, 0, "done", "shared")
  @@ "training-program" :> Stage(1, 14, 35, "teachbase", "unified")

Stages == DOMAIN DEFAULT_CATALOG
THEORY == {s \in Stages : DEFAULT_CATALOG[s].scope = "legacy"}
MAPPING == [s \in Stages \ {"training-program"} |->
              IF s \in THEORY THEN "training-program" ELSE s]
Done(s) == DEFAULT_CATALOG[s].group = "done"
SUCCESSORS == "with-review" :> "optional-review"
              @@ "optional-review" :> "no-review" @@ "no-review" :> "done"

ASSUME UsedAssumption ==
  /\ Used \subseteq Stages /\ Damaged \subseteq Journeys
  /\ Staff \subseteq Accounts /\ Nobody \notin Accounts

VARIABLES
  today,
  cards,     \* TraineeJourney rows
  visits,    \* StageHistory rows of each card, in order of (started_at, id)
  users,     \* each account: "staff", "plain", or "new" or "deleted" (no row)
  rest,      \* changes of the weekly metrics and the confirmations
  baseline,  \* the reviewed audit reports: their snapshots
  batch,     \* StageSchemeTransferBatch
  transfers  \* StageSchemeTransfer of the cards that have one

foreign == <<users, rest>>
vars == <<today, cards, visits, foreign, baseline, batch, transfers>>

Snapshot == [cards |-> cards, visits |-> visits, rest |-> rest]
user_links == {<<a, users[a] = "staff">> :
                 a \in {b \in Accounts : users[b] \in {"staff", "plain"}}}
stage_applies(s, scheme) == DEFAULT_CATALOG[s].scope \in {scheme, "shared"}
Last(j) == visits[j][Len(visits[j])]

-----------------------------------------------------------------------------
(* Reading a card: models.py, scheme_transfer.py                           *)

Transferred(j) == j \in DOMAIN transfers
Reverted == batch.status = "reverted"

continues_source_stage(j) ==
  /\ cards[j].scheme = "unified" /\ ~Reverted
  /\ cards[j].stage = transfers[j].target_stage
  /\ cards[j].since = transfers[j].source_stage_started_at
  /\ visits[j][transfers[j].source_open_history].ended_at = NoDay

\* The visits that the transfer found are read as visits of the program.
effective_stageMutant(j, i) ==
  IF /\ visits[j][i].stage \in THEORY
     /\ Transferred(j) /\ continues_source_stage(j)
  THEN "training-program" ELSE visits[j][i].stage
effective_stage(j, i) ==
  IF /\ cards[j].scheme = "unified"
     /\ visits[j][i].stage \in THEORY
     /\ Transferred(j) /\ ~Reverted
     /\ i \in transfers[j].source_history_ids
  THEN "training-program" ELSE visits[j][i].stage

\* round() of n / d: half to even.
Round(n, d) ==
  LET q == n \div d
      r == 2 * (n % d)
  IN  IF r > d \/ (r = d /\ q % 2 = 1) THEN q + 1 ELSE q
AtLeastOne(n) == IF n = 0 THEN 1 ELSE n
Weight(S) == MapThenSumSet(LAMBDA s : DEFAULT_CATALOG[s].weight, S)

\* The share of the stages before and of the days on the current one.
Percent(before, weight, total, max_days, since) ==
  LET max == AtLeastOne(max_days)
      days == IF today - since > max THEN max ELSE today - since
  IN  Round((before * max + weight * days) * 100, max * AtLeastOne(total))

Selected(s, scheme) ==
  {s} \cup {t \in Stages : stage_applies(t, scheme)}
WeightBefore(s, scheme) ==
  Weight({t \in Selected(s, scheme) :
            DEFAULT_CATALOG[t].order < DEFAULT_CATALOG[s].order})

\* audit.progress, and the formula of the card when nothing was transferred.
progress(s, scheme, since) ==
  IF Done(s) THEN 100
  ELSE Percent(WeightBefore(s, scheme), DEFAULT_CATALOG[s].weight,
               Weight(Selected(s, scheme)), DEFAULT_CATALOG[s].max_days, since)

progress_percent(j) ==
  LET b == transfers[j].progress_basis
  IN  IF Done(cards[j].stage) THEN 100
      ELSE IF Transferred(j) /\ continues_source_stage(j)
      THEN Percent(b.weight_before, b.current_weight, b.total_weight,
                   b.max_days, cards[j].since)
      ELSE progress(cards[j].stage, cards[j].scheme, cards[j].since)

\* Roadmap's evidence (projection._probation, audit.probation_outcome) and
\* its three rules of work stages, with the stage each visit is read as.
probation_outcome(j) ==
  LET c == cards[j]
  IN  IF ~Done(c.stage)
      THEN IF c.status = "" THEN "active" ELSE "insufficient_data"
      ELSE IF c.completed_at \in c.start..today /\ c.since = c.completed_at
              /\ c.completed_by # Nobody /\ c.status = "success"
      THEN "success" ELSE "insufficient_data"

\* Read with the stage the function names for each visit.
ReadableHistory(j, StageOf) ==
  LET n == Len(visits[j])
      v == visits[j]
  IN  /\ n > 0
      /\ \A i \in 1..n :
           /\ stage_applies(StageOf[i], cards[j].scheme)
           /\ v[i].started_at \in cards[j].start..today
           /\ i < n => /\ v[i].ended_at = v[i + 1].started_at
                       /\ v[i].started_at <= v[i + 1].started_at
      /\ StageOf[n] = cards[j].stage
      /\ v[n].ended_at = NoDay
      /\ v[n].started_at = cards[j].since

WorkCompletions(j, StageOf) ==
  LET v == visits[j]
      VisitsOf(s) == {i \in DOMAIN v : v[i].stage = s}
  IN  {s \in DOMAIN SUCCESSORS :
         /\ ReadableHistory(j, StageOf)
         /\ VisitsOf(s) # {}
         /\ LET i == Max(VisitsOf(s))
            IN  /\ i < Len(v) /\ v[i + 1].stage = SUCCESSORS[s]
                /\ <<v[i + 1].changed_by, TRUE>> \in user_links
         /\ s = "no-review" => probation_outcome(j) = "success"}
RecordedEvidence(j) ==
  WorkCompletions(j, [i \in DOMAIN visits[j] |-> visits[j][i].stage])
EffectiveStages(j) == [i \in DOMAIN visits[j] |-> effective_stage(j, i)]
RoadmapEvidence(j) == WorkCompletions(j, EffectiveStages(j))

-----------------------------------------------------------------------------
(* audit_traineediary_unification.build_report                             *)

\* What the audit finds wrong with a card.
ProblemsMutant(j) ==
  LET v == visits[j]
      n == Len(v)
  IN  {c \in {"ambiguous_open_history"} :
         {i \in 1..n : v[i].ended_at = NoDay} # {n}}
Problems(j) ==
  LET c == cards[j]
      v == visits[j]
      n == Len(v)
      open == {i \in 1..n : v[i].ended_at = NoDay}
      Found(code, b) == IF b THEN {code} ELSE {}
  IN  Found("current_stage_not_applicable", ~stage_applies(c.stage, c.scheme))
      \cup Found("invalid_journey_dates",
                 ~(c.start <= c.since /\ c.since <= today))
      \cup Found("missing_stage_history", n = 0)
      \cup Found("history_start_date_mismatch",
                 n > 0 /\ v[1].started_at # c.start)
      \cup Found("ambiguous_open_history", open # {n} \/ n = 0)
      \cup Found("current_history_mismatch",
                 /\ open = {n} /\ n > 0
                 /\ <<v[n].stage, v[n].started_at>> # <<c.stage, c.since>>)
      \cup Found("history_stage_not_applicable",
                 \E i \in 1..n : ~stage_applies(v[i].stage, c.scheme))
      \cup Found("invalid_history_start_date",
                 \E i \in 1..n : v[i].started_at \notin c.start..today)
      \cup Found("invalid_history_interval",
                 \E i \in 1..n : v[i].ended_at
                   \notin {NoDay} \cup v[i].started_at..today)
      \cup Found("history_gap_or_overlap",
                 \E i \in 1..(n - 1) : v[i].ended_at # v[i + 1].started_at)
      \cup Found("completion_data_outside_done",
                 /\ ~Done(c.stage)
                 /\ \/ c.status # "" \/ c.completed_at # NoDay
                    \/ c.completed_by # Nobody)
      \cup Found("invalid_completion_date",
                 /\ c.completed_at # NoDay
                 /\ \/ c.completed_at \notin c.start..today
                    \/ Done(c.stage) /\ c.completed_at # c.since)

Legacy == {j \in DOMAIN cards : cards[j].scheme = "legacy"}
ready_for_mapping_review == \A j \in Legacy : Problems(j) = {}
Warned(j) == Done(cards[j].stage)
             /\ probation_outcome(j) = "insufficient_data"

\* An audit whose report is ready becomes a baseline the operator may use;
\* load_baseline refuses any other.
Audit ==
  /\ ready_for_mapping_review
  /\ baseline' = {Snapshot}
  /\ UNCHANGED <<today, cards, visits, foreign, batch, transfers>>

-----------------------------------------------------------------------------
(* unification.py                                                          *)

basis_forMutant(j) ==
  LET s == cards[j].stage
  IN  [total_weight |-> Weight(Selected(s, "legacy")),
       weight_before |-> WeightBefore(s, "legacy"),
       current_weight |-> DEFAULT_CATALOG[s].weight,
       max_days |-> DEFAULT_CATALOG[MAPPING[s]].max_days,
       percent_at_transfer |-> progress(s, "legacy", cards[j].since),
       completed_work_stages |-> RecordedEvidence(j),
       probation_outcome |-> probation_outcome(j)]
basis_for(j) ==
  LET s == cards[j].stage
  IN  [total_weight |-> Weight(Selected(s, "legacy")),
       weight_before |-> WeightBefore(s, "legacy"),
       current_weight |-> DEFAULT_CATALOG[s].weight,
       max_days |-> DEFAULT_CATALOG[s].max_days,
       percent_at_transfer |-> progress(s, "legacy", cards[j].since),
       completed_work_stages |-> RecordedEvidence(j),
       probation_outcome |-> probation_outcome(j)]

expected_after ==
  [j \in DOMAIN cards |->
     IF j \in Legacy
     THEN [cards[j] EXCEPT !.scheme = "unified",
                           !.stage = MAPPING[cards[j].stage]]
     ELSE cards[j]]

Provenance(j) ==
  [source_stage |-> cards[j].stage, target_stage |-> MAPPING[cards[j].stage],
   source_stage_started_at |-> cards[j].since,
   source_open_history |->
     CHOOSE i \in DOMAIN visits[j] : visits[j][i].ended_at = NoDay,
   source_history_ids |-> DOMAIN visits[j], progress_basis |-> basis_for(j)]

\* check_journey_integrity, for what the requests of the diary can leave.
IntegrityIssues(j) ==
  LET c == cards[j]
      v == visits[j]
      n == Len(v)
      open == {i \in 1..n : v[i].ended_at = NoDay}
  IN  ~(/\ c.start <= c.since /\ c.since <= today
        /\ stage_applies(c.stage, c.scheme)
        /\ \E o \in 1..n : /\ open = {o}
                           /\ effective_stage(j, o) = c.stage
                           /\ v[o].started_at = c.since
        /\ v[1].started_at = c.start
        /\ \A i \in 1..(n - 1) : v[i].ended_at = v[i + 1].started_at
        /\ \A i \in 1..n : v[i].ended_at = NoDay
                             \/ v[i].ended_at >= v[i].started_at
        /\ IF Done(c.stage)
           THEN /\ c.status # "" /\ c.completed_at \in c.start..today
                /\ c.since = c.completed_at
           ELSE /\ c.status = "" /\ c.completed_at = NoDay
                /\ c.completed_by = Nobody)

\* achievements' reading of the history.
history_for(j) ==
  /\ cards[j].start <= today
  /\ ReadableHistory(j, EffectiveStages(j))
  /\ \A i \in DOMAIN visits[j] : visits[j][i].ended_at
       \in {NoDay} \cup visits[j][i].started_at..today

RuntimeVerified(j) ==
  LET b == transfers[j].progress_basis
  IN  /\ ~IntegrityIssues(j)
      /\ history_for(j)
      /\ RoadmapEvidence(j) = b.completed_work_stages
      /\ probation_outcome(j) = b.probation_outcome

verify_runtime(immediate) ==
  \A j \in DOMAIN transfers :
    /\ RuntimeVerified(j)
    /\ immediate => progress_percent(j)
                      = transfers[j].progress_basis.percent_at_transfer

\* migrate_schemes --execute: refused without effect when a check after the
\* writes fails, as the exception rolls the transaction back.
Transfer ==
  /\ Snapshot \in baseline
  /\ ready_for_mapping_review
  /\ Legacy # {} /\ Legacy \cap DOMAIN transfers = {}
  /\ cards' = expected_after
  /\ transfers' = [j \in Legacy |-> Provenance(j)]
  /\ batch' = [status |-> "applied", before |-> Snapshot,
               after |-> [Snapshot EXCEPT !.cards = cards'],
               user_links |-> user_links, as_of |-> today]
  /\ UNCHANGED <<today, visits, foreign, baseline>>
Apply == Transfer /\ verify_runtime(TRUE)'

\* verify_batch: nothing changed since, neither the rows nor which accounts
\* there are and have the staff flag, the provenance leads back to the
\* source, and the runtime still reads the cards as it did.
verify_batchMutant ==
  Snapshot = batch.after /\ user_links = batch.user_links /\ verify_runtime(TRUE)
verify_batch ==
  /\ Snapshot = batch.after
  /\ user_links = batch.user_links
  /\ batch.before.cards = [j \in DOMAIN cards |->
       IF Transferred(j) THEN [cards[j] EXCEPT !.scheme = "legacy",
                                 !.stage = transfers[j].source_stage]
       ELSE cards[j]]
  /\ verify_runtime(FALSE)

RollbackMutant ==
  /\ batch.status = "applied"
  /\ cards' = [j \in DOMAIN cards |->
       IF Transferred(j) THEN [cards[j] EXCEPT !.scheme = "legacy",
                                 !.since = today,
                                 !.stage = transfers[j].source_stage]
       ELSE cards[j]]
  /\ batch' = [batch EXCEPT !.status = "reverted"]
  /\ UNCHANGED <<today, visits, foreign, baseline, transfers>>
Rollback ==
  /\ batch.status = "applied"
  /\ verify_batch
  /\ cards' = [j \in DOMAIN cards |->
       IF Transferred(j) THEN [cards[j] EXCEPT !.scheme = "legacy",
                                 !.stage = transfers[j].source_stage]
       ELSE cards[j]]
  /\ batch' = [batch EXCEPT !.status = "reverted"]
  /\ UNCHANGED <<today, visits, foreign, baseline, transfers>>

-----------------------------------------------------------------------------
(* The diary goes on                                                       *)

Enter(j, s, by, status, completed_at, completed_by) ==
  /\ s # cards[j].stage
  /\ stage_applies(s, cards[j].scheme)
  /\ today >= cards[j].since
  /\ users[by] = "staff"
  /\ Len(visits[j]) < MaxVisits
  /\ cards' = [cards EXCEPT ![j].stage = s, ![j].since = today,
                            ![j].status = status,
                            ![j].completed_at = completed_at,
                            ![j].completed_by = completed_by]
  /\ visits' = [visits EXCEPT ![j] =
       Append([i \in DOMAIN @ |-> IF @[i].ended_at = NoDay
                 THEN [@[i] EXCEPT !.ended_at = today] ELSE @[i]],
              [stage |-> s, started_at |-> today, ended_at |-> NoDay,
               changed_by |-> by])]
  /\ UNCHANGED <<today, foreign, baseline, batch, transfers>>

\* clean refuses a card off the final stage that has data of a completion.
move_to_stage(j, s, by) ==
  /\ ~Done(s) /\ cards[j].status = "" /\ cards[j].completed_at = NoDay
  /\ cards[j].completed_by = Nobody
  /\ Enter(j, s, by, "", NoDay, Nobody)
complete_probation(j, by) ==
  ~Done(cards[j].stage) /\ Enter(j, "done", by, "success", today, by)

\* An account is created, gets or loses the staff flag, or is deleted: then
\* the keys that name it become NULL.
ChangeAccount(a, now) ==
  /\ <<users[a], now>> \in {<<"new", "plain">>, <<"plain", "staff">>,
                            <<"staff", "plain">>, <<"plain", "deleted">>,
                            <<"staff", "deleted">>}
  /\ users' = [users EXCEPT ![a] = now]
  /\ IF now # "deleted" THEN UNCHANGED <<cards, visits>>
     ELSE LET Kept(by) == IF by = a THEN Nobody ELSE by
          IN  /\ cards' = [j \in DOMAIN cards |-> [cards[j] EXCEPT
                              !.completed_by = Kept(@)]]
              /\ visits' = [j \in DOMAIN cards |-> [i \in DOMAIN visits[j] |->
                   [visits[j][i] EXCEPT !.changed_by = Kept(@)]]]
  /\ UNCHANGED <<today, rest, baseline, batch, transfers>>

\* A weekly metric or a confirmation of the training is recorded.
ChangeRest ==
  /\ rest' = rest + 1
  /\ UNCHANGED <<today, cards, visits, users, baseline, batch, transfers>>

AtFirst == [a \in Accounts |-> IF a \in Staff THEN "staff" ELSE "new"]
TogetherBound ==
  Cardinality(DOMAIN cards) + rest
    + Cardinality({a \in Accounts : users[a] # AtFirst[a]}) <= MaxTogether

Tick ==
  /\ today < LastDay
  /\ today' = today + 1
  /\ UNCHANGED <<cards, visits, foreign, baseline, batch, transfers>>

-----------------------------------------------------------------------------
\* Chains of one or two visits, and what overlapping requests, edits and a
\* card created on the final stage leave (TraineeJourney's findings).
Chains ==
  LET Visit(s, a, b) == [stage |-> s, started_at |-> a, ended_at |-> b,
                         changed_by |-> CHOOSE m \in Staff : TRUE]
  IN  {<<Visit(s, 0, NoDay)>> : s \in Used \ {"training-program"}}
      \cup {<<Visit(s, 0, d), Visit(t, d, NoDay)>> :
              s \in THEORY \cap Used, t \in Used \ {"training-program"},
              d \in 0..Yesterday}
OpenTwice(v) == [i \in DOMAIN v |-> [v[i] EXCEPT !.ended_at = NoDay]]

CardOf(v, start, status) ==
  LET last == v[Len(v)]
  IN  [scheme |-> "legacy", stage |-> last.stage, since |-> last.started_at,
       start |-> start, status |-> status,
       completed_at |-> IF status = "" THEN NoDay ELSE last.started_at,
       completed_by |-> IF status = "" THEN Nobody ELSE last.changed_by]

Healthy == {<<CardOf(v, 0, ""), v>> :
              v \in {w \in Chains : ~Done(w[Len(w)].stage)}}
           \cup {<<CardOf(v, 0, "success"), v>> :
                   v \in {w \in Chains : Done(w[Len(w)].stage)}}
OutOfOrder ==
  {<<CardOf(v, start, status), v>> :
     v \in Chains, start \in 0..Yesterday, status \in {"", "success"}}
  \cup {<<CardOf(v, 0, ""), OpenTwice(v)>> : v \in Chains}

Init ==
  /\ today = Yesterday
  /\ \E some \in SUBSET Journeys \ {{}} :
       \E init \in [some -> Healthy \cup OutOfOrder] :
         /\ \A j \in some \ Damaged : init[j] \in Healthy
         /\ cards = [j \in some |-> init[j][1]]
         /\ visits = [j \in some |-> init[j][2]]
  /\ users = AtFirst /\ rest = 0
  /\ baseline = {}
  /\ batch = [status |-> "none"]
  /\ transfers = <<>>

Next ==
  \/ Audit \/ Apply \/ Rollback \/ Tick
  \/ \E j \in DOMAIN cards, by \in Accounts :
       complete_probation(j, by) \/ \E s \in Used : move_to_stage(j, s, by)
  \/ /\ ChangeRest \/ \E a \in Accounts, now \in {"plain", "staff", "deleted"} :
                         ChangeAccount(a, now)
     /\ TogetherBound'

Spec == Init /\ [][Next]_vars

-----------------------------------------------------------------------------
(* Properties                                                              *)

\* As long as the trainee has not really moved, the percentage of a
\* transferred card is the one the legacy formula gives on that day, and
\* taking the transfer back does not change it either: the frozen basis
\* continues the same line day after day (progress_percent,
\* continues_source_stage, basis_for).
ProgressKept ==
  \A j \in DOMAIN transfers :
    Last(j) = visits[j][transfers[j].source_open_history]
      => progress_percent(j) = progress(transfers[j].source_stage, "legacy",
                                        cards[j].since)

\* After a ready audit the transfer is refused only for a card the report
\* warned about: the checks of the audit and those after the writes agree
\* on every other card (build_report against verify_runtime).
ReadyAuditTransfers ==
  /\ Snapshot \in baseline
  /\ Legacy # {} /\ Legacy \cap DOMAIN transfers = {}
  /\ \A j \in Legacy : ~Warned(j)
  => ENABLED Apply

\* A transfer since which neither the diary nor an account has changed stays
\* verifiable, hence can be taken back, however many days later
\* (verify_batch, verify_runtime).
RollbackAvailable ==
  /\ batch.status = "applied"
  /\ Snapshot = batch.after /\ user_links = batch.user_links
  => verify_batch

\* Every card of the transfer keeps a history that the achievements and the
\* roadmap accept, through the transfer, later moves and the rollback: old
\* visits are read in the catalog the card is in (effective_history_stage).
HistoryStaysReadable == \A j \in DOMAIN transfers : history_for(j)

\* What the trainee's work has proven is not changed by the transfer nor by
\* its rollback, read with the rules of the roadmap in each catalog.
SameEvidence ==
  batch'.status # batch.status
    => \A j \in DOMAIN cards : RoadmapEvidence(j)' = RoadmapEvidence(j)
EvidenceKept == [][SameEvidence]_vars
=============================================================================
