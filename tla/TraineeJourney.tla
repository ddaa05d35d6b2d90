--------------------------- MODULE TraineeJourney ---------------------------
(***************************************************************************)
(* One trainee's card in the diary, its stage history and its weekly       *)
(* metrics, under the requests of the staff.                               *)
(*                                                                         *)
(* Every view reads the card without a lock, validates what it read and    *)
(* writes in a transaction afterwards, with update_fields naming the       *)
(* columns it owns.  A request is therefore two or three steps: reading    *)
(* and validating, the statement that decides which rows are affected, and *)
(* the commit.  Transactions are READ COMMITTED: an UPDATE ... WHERE sees  *)
(* the rows committed when it starts, waits for their locks, and skips     *)
(* those that no longer match.                                             *)
(*                                                                         *)
(* A view takes the account of the request, checks its staff flag before   *)
(* anything else and records it in the rows it writes.  The accounts       *)
(* change in module Roadmap.                                               *)
(*                                                                         *)
(* Days are 0 .. Today; NoDay and Nobody stand for NULL.                   *)
(***************************************************************************)
EXTENDS Integers, Sequences, FiniteSets, TLC

CONSTANTS
  Requests,    \* requests of the staff that may be under way together
  Accounts,    \* the accounts of the staff
  Stages,
  group,       \* TraineeStage.group of each stage
  order,       \* TraineeStage.order
  is_active,   \* the active stages
  applies,     \* applies[e]: stages applicable to the entry type e
  Today,
  WeekDays,    \* days in a week, seven in the code
  Qualities,   \* values of quality_percent
  MaxVisits,   \* bound on the rows of StageHistory
  MaxWeeks     \* bound on the weekly metrics

EntryTypes == {"new_hire", "internal_transfer"}
CompletionStatus == {"success", "terminated"}
TICKET_METRIC_GROUPS == {"with_review", "optional_review", "no_review"}

NoDay == -1
None == -1
Nobody == "nobody"
Days == 0..Today
Weeks == 1..MaxWeeks

VARIABLES
  card,     \* the row of TraineeJourney
  visits,   \* StageHistory in order of id
  metrics,  \* WeeklyMetric by week number, start = NoDay when there is none
  req,      \* the request each process is serving
  users     \* each account: "staff", "plain" (not staff) or "deleted"

vars == <<card, visits, metrics, req>>

NoCard == [exists |-> FALSE, entry_type |-> "new_hire", start |-> NoDay,
           stage |-> CHOOSE s \in Stages : TRUE, since |-> NoDay,
           fixed |-> None, fixed_at |-> NoDay,
           status |-> "", completed_at |-> NoDay, reason |-> FALSE,
           completed_by |-> Nobody]
Idle == [op |-> "idle"]

Init ==
  /\ card = NoCard
  /\ visits = <<>>
  /\ metrics = [w \in Weeks |-> [quality |-> None, start |-> NoDay]]
  /\ req = [r \in Requests |-> Idle]
  /\ users = [a \in Accounts |-> "staff"]

(* The rows (models.py), NoDay for a date that is not set                  *)
StageGroup == TICKET_METRIC_GROUPS \cup {"teachbase", "sandbox_candidate", "done"}
TraineeStage ==
  /\ group \in [Stages -> StageGroup] /\ order \in [Stages -> Nat]
  /\ is_active \subseteq Stages /\ applies \in [EntryTypes -> SUBSET Stages]
Journey ==
  [exists : BOOLEAN, entry_type : EntryTypes, start : Days \cup {NoDay},
   stage : Stages, since : Days \cup {NoDay}, fixed : Qualities \cup {None},
   fixed_at : Days \cup {NoDay}, status : CompletionStatus \cup {""},
   completed_at : Days \cup {NoDay}, reason : BOOLEAN,
   completed_by : Accounts \cup {Nobody}]
StageHistory ==
  [stage : Stages, started_at : Days, ended_at : Days \cup {NoDay},
   changed_by : Accounts \cup {Nobody}]
WeeklyMetric == [quality : Qualities \cup {None}, start : Int]

Done(s) == group[s] = "done"
Open(i) == visits[i].ended_at = NoDay
OpenVisits == {i \in DOMAIN visits : Open(i)}
IsStaff(a) == a \in Accounts /\ users[a] = "staff"
StaffAccounts == {a \in Accounts : IsStaff(a)}
Recorded == {w \in Weeks : metrics[w].start # NoDay}

-----------------------------------------------------------------------------
(* The catalog: services/stages.py                                         *)

selectable_stages(e) == applies[e] \cap is_active

\* The stage complete_probation moves to: the first active final stage of
\* the scheme and entry type.
FinalStages(c) ==
  LET final == {s \in selectable_stages(c.entry_type) : Done(s)}
  IN  {s \in final : \A t \in final : order[s] <= order[t]}

HasResult(c) == \/ c.status # "" \/ c.completed_at # NoDay
                \/ c.reason \/ c.completed_by # Nobody

\* full_clean on an instance: the parts requests can get wrong.  It looks
\* the accounts up that the foreign keys name.
clean(c) ==
  /\ c.stage \in applies[c.entry_type]
  /\ c.completed_by # Nobody => users[c.completed_by] # "deleted"
  /\ HasResult(c) =>
       /\ Done(c.stage)
       /\ c.status # ""
       /\ c.completed_at \in c.start..Today
       /\ c.status = "terminated" => c.reason

-----------------------------------------------------------------------------
(* Starting an adaptation                                                  *)

\* NewTraineeForm.clean for a new hire, and StartAdaptationForm.clean for an
\* employee who already has an account.
NewTraineeForm(s, d) == s \in selectable_stages("new_hire") /\ d <= Today
StartAdaptationForm(s, d) ==
  s \in selectable_stages("internal_transfer") /\ d <= Today

\* create_trainee; the account it creates for an internal transfer has no
\* card, and start_adaptation gives it one.
CreateRequest(r) ==
  /\ req[r] = Idle
  /\ ~card.exists
  /\ \E by \in StaffAccounts, s \in Stages, d \in Days :
       /\ NewTraineeForm(s, d)
       /\ req' = [req EXCEPT ![r] = [op |-> "create", entry_type |-> "new_hire",
                                     stage |-> s, start |-> d, by |-> by]]
  /\ UNCHANGED <<card, visits, metrics>>

StartRequest(r) ==
  /\ req[r] = Idle
  /\ ~card.exists
  /\ \E by \in StaffAccounts, s \in Stages, d \in Days :
       /\ StartAdaptationForm(s, d)
       /\ req' = [req EXCEPT ![r] =
                    [op |-> "start", entry_type |-> "internal_transfer",
                     stage |-> s, start |-> d, by |-> by]]
  /\ UNCHANGED <<card, visits, metrics>>

\* TraineeJourney.save of a new card opens its first visit, and the form
\* records who did it, in one transaction.
FirstSave(r) ==
  /\ card' = [NoCard EXCEPT !.exists = TRUE, !.entry_type = req[r].entry_type,
                !.start = req[r].start, !.stage = req[r].stage,
                !.since = req[r].start]
  /\ visits' = <<[stage |-> req[r].stage, started_at |-> req[r].start,
                  ended_at |-> NoDay, changed_by |-> req[r].by]>>

\* The second of two inserts meets the uniqueness of the user name
\* (NewTraineeForm.save) or of the card of a user (StartAdaptationForm.save).
CreateCommit(r) ==
  /\ req[r].op = "create"
  /\ IF card.exists THEN UNCHANGED <<card, visits>> ELSE FirstSave(r)
  /\ req' = [req EXCEPT ![r] = Idle]
  /\ UNCHANGED metrics

StartCommit(r) ==
  /\ req[r].op = "start"
  /\ IF card.exists THEN UNCHANGED <<card, visits>> ELSE FirstSave(r)
  /\ req' = [req EXCEPT ![r] = Idle]
  /\ UNCHANGED metrics

-----------------------------------------------------------------------------
(* Changing the stage: move_trainee_stage and TraineeJourney.move_to_stage *)

\* The checks of move_to_stage on the card as it was read.
MayMove(c, s, d) ==
  /\ s # c.stage
  /\ s \in selectable_stages(c.entry_type)
  /\ d \in c.since..Today

MoveRequest(r) ==
  /\ req[r] = Idle
  /\ card.exists
  /\ card.status = ""
  /\ \E by \in StaffAccounts, s \in is_active, d \in Days :
       /\ ~Done(s)
       /\ MayMove(card, s, d)
       /\ req' = [req EXCEPT ![r] =
                    [op |-> "move", read |-> card, by |-> by,
                     write |-> [stage |-> s, since |-> d]]]
  /\ UNCHANGED <<card, visits, metrics>>

\* The latest week that has a quality, None when no week has one.
LatestQuality ==
  LET rated == {w \in Recorded : metrics[w].quality # None}
  IN  IF rated = {} THEN None
      ELSE metrics[CHOOSE w \in rated : \A v \in rated : v <= w].quality

\* _apply_quality_stage_transition: <<fixed quality, date of fixing>>.
QualityAfterTransitionMutant(c, s, d) ==
  IF group[c.stage] = "with_review" /\ LatestQuality # None
  THEN <<LatestQuality, d>>
  ELSE <<c.fixed, c.fixed_at>>
QualityAfterTransition(c, s, d) ==
  LET was == group[c.stage] = "with_review"
      is == group[s] = "with_review"
  IN  CASE was = is -> <<c.fixed, c.fixed_at>>
        [] is /\ ~was -> <<None, NoDay>>
        [] OTHER -> IF LatestQuality = None THEN <<None, NoDay>>
                    ELSE <<LatestQuality, d>>

\* The columns the transaction writes: the quality comes from the metrics as
\* they are now, the rest from the request and from the card as it was read.
Written(r) ==
  LET w == req[r].write
      q == QualityAfterTransition(req[r].read, w.stage, w.since)
  IN  [fixed |-> q[1], fixed_at |-> q[2]] @@ w

\* Inside the transaction, up to the UPDATE that closes the open visits:
\* full_clean validates the instance, and the snapshot of the UPDATE is the
\* rows that are open now.
CloseVisits(r) ==
  /\ req[r].op = "move"
  /\ req' = [req EXCEPT ![r] =
               IF clean(Written(r) @@ req[r].read)
               THEN [op |-> "close", write |-> Written(r), open |-> OpenVisits,
                     by |-> req[r].by]
               ELSE Idle]
  /\ UNCHANGED <<card, visits, metrics>>

\* The rows of the snapshot that are still open once their locks are free
\* are closed; then the card, its new visit and, for a completion, the
\* result are saved and the transaction commits.
CommitMoveMutant(r) ==
  /\ req[r].op = "close"
  /\ Len(visits) < MaxVisits
  /\ visits' = Append(visits, [stage |-> req[r].write.stage,
                               started_at |-> req[r].write.since,
                               ended_at |-> NoDay, changed_by |-> req[r].by])
  /\ card' = req[r].write @@ card
  /\ req' = [req EXCEPT ![r] = Idle]
  /\ UNCHANGED metrics
CommitMoveOnceMutant(r) ==
  /\ req[r].op = "close"
  /\ Len(visits) < MaxVisits
  /\ visits' = IF req[r].open \cap OpenVisits = {} THEN visits
               ELSE Append([i \in DOMAIN visits |->
                              [visits[i] EXCEPT !.ended_at = Today]],
                           [stage |-> req[r].write.stage,
                            started_at |-> req[r].write.since,
                            ended_at |-> NoDay, changed_by |-> req[r].by])
  /\ card' = req[r].write @@ card
  /\ req' = [req EXCEPT ![r] = Idle]
  /\ UNCHANGED metrics
CommitMove(r) ==
  LET since == req[r].write.since
      row(i) == IF i \in req[r].open /\ Open(i)
                THEN [visits[i] EXCEPT !.ended_at = since] ELSE visits[i]
  IN  /\ req[r].op = "close"
      /\ Len(visits) < MaxVisits
      /\ visits' = Append([i \in DOMAIN visits |-> row(i)],
                          [stage |-> req[r].write.stage,
                           started_at |-> since, ended_at |-> NoDay,
                           changed_by |-> req[r].by])
      /\ card' = req[r].write @@ card
      /\ req' = [req EXCEPT ![r] = Idle]
      /\ UNCHANGED metrics

-----------------------------------------------------------------------------
(* Completing the probation: complete_trainee and complete_probation       *)

\* The columns of a result.
Result(st, d, why, by) ==
  [status |-> st, completed_at |-> d, reason |-> why, completed_by |-> by]

CompleteProbationForm(c, st, d, why) ==
  /\ d \in c.start..Today
  /\ st = "terminated" => why

\* A card on the final stage keeps it; otherwise the first final stage.
CompletionTarget(c) == IF Done(c.stage) THEN {c.stage} ELSE FinalStages(c)

\* From another stage the completion is a move to the final stage in the
\* same transaction; on the final stage move_to_stage changes nothing and
\* only the result is saved.
CompleteRequest(r) ==
  /\ req[r] = Idle
  /\ card.exists
  /\ card.status = ""
  /\ \E by \in StaffAccounts, st \in CompletionStatus, d \in Days :
       \E why \in BOOLEAN, s \in CompletionTarget(card) :
         /\ CompleteProbationForm(card, st, d, why)
         /\ \/ /\ s = card.stage
               /\ req' = [req EXCEPT ![r] =
                    [op |-> "result", read |-> card, by |-> by,
                     write |-> Result(st, d, why, by)]]
            \/ /\ MayMove(card, s, d)
               /\ req' = [req EXCEPT ![r] =
                    [op |-> "move", read |-> card, by |-> by,
                     write |-> [stage |-> s, since |-> d]
                                 @@ Result(st, d, why, by)]]
  /\ UNCHANGED <<card, visits, metrics>>

SaveResult(r) ==
  /\ req[r].op = "result"
  /\ card' = IF clean(req[r].write @@ req[r].read)
             THEN req[r].write @@ card ELSE card
  /\ req' = [req EXCEPT ![r] = Idle]
  /\ UNCHANGED <<visits, metrics>>

-----------------------------------------------------------------------------
(* Editing the card: EditTraineeForm                                       *)

\* _can_shift_initial_stage_start: the card as it was read, the history as
\* it is now.
CanShift(c) ==
  /\ c.since = c.start
  /\ Len(visits) = 1
  /\ \E i \in OpenVisits : visits[i].stage = c.stage

EditTraineeForm(c, e, d) ==
  /\ c.stage \in applies[e]
  /\ d <= Today
  /\ CanShift(c) \/ d <= c.since

EditRequest(r) ==
  /\ req[r] = Idle
  /\ card.exists
  /\ StaffAccounts # {}
  /\ \E e \in EntryTypes, d \in Days :
       /\ EditTraineeForm(card, e, d)
       /\ req' = [req EXCEPT ![r] = [op |-> "edit", read |-> card,
                    write |-> [entry_type |-> e, start |-> d]]]
  /\ UNCHANGED <<card, visits, metrics>>

\* EditTraineeForm.save decides again whether the first stage moves along.
EditDecide(r) ==
  LET c == req[r].read
      w == req[r].write
      shift == CanShift(c) /\ c.start # w.start
      columns == IF shift THEN [since |-> w.start] @@ w ELSE w
  IN  /\ req[r].op = "edit"
      /\ req' = [req EXCEPT ![r] =
                   IF clean(columns @@ c)
                   THEN [op |-> "save", read |-> c, write |-> columns,
                         shift |-> shift]
                   ELSE Idle]
      /\ UNCHANGED <<card, visits, metrics>>

EditCommit(r) ==
  LET mine(i) == req[r].shift /\ Open(i)
                   /\ visits[i].stage = req[r].read.stage
  IN  /\ req[r].op = "save"
      /\ card' = req[r].write @@ card
      /\ visits' = [i \in DOMAIN visits |->
           IF mine(i) THEN [visits[i] EXCEPT !.started_at = req[r].write.start]
           ELSE visits[i]]
      /\ req' = [req EXCEPT ![r] = Idle]
      /\ UNCHANGED metrics

-----------------------------------------------------------------------------
(* Weekly metrics: save_weekly_metric                                      *)

\* _get_ticket_metrics_start_date: the first visit to a stage with tickets.
TicketStart(c) ==
  LET dates == {visits[i].started_at : i \in
                  {j \in DOMAIN visits :
                     group[visits[j].stage] \in TICKET_METRIC_GROUPS}}
  IN  IF dates = {} THEN c.since
      ELSE CHOOSE d \in dates : \A e \in dates : d <= e

\* _get_stage_for_date: the stages of the latest visit that covers the day.
StageFor(c, day) ==
  LET covers(i) == /\ visits[i].started_at <= day
                   /\ Open(i) \/ day < visits[i].ended_at
      later(i, j) == \/ visits[i].started_at > visits[j].started_at
                     \/ visits[i].started_at = visits[j].started_at /\ i > j
      hits == {i \in DOMAIN visits : covers(i)}
      last == {i \in hits : \A j \in hits \ {i} : later(i, j)}
  IN  IF hits # {} THEN {visits[i].stage : i \in last}
      ELSE IF c.since <= day THEN {c.stage} ELSE {}

\* The number of the last recorded week.
LastWeek == Cardinality(Recorded)

\* The quality belongs to the reviews, and only while they go on.
QualityEditable(c, start) ==
  /\ \E s \in StageFor(c, start) : group[s] = "with_review"
  /\ group[c.stage] = "with_review"
  /\ c.fixed = None

\* WeeklyMetricForm drops the quality field unless it may be edited.
WeeklyMetricForm(old, q, editable) == IF editable THEN q ELSE old.quality

MetricRequestMutant(r) ==
  /\ req[r] = Idle
  /\ card.exists
  /\ group[card.stage] \in TICKET_METRIC_GROUPS
  /\ \E w \in Weeks, q \in Qualities :
       req' = [req EXCEPT ![r] =
                 [op |-> "metric", week |-> w, old |-> metrics[w],
                  start |-> TicketStart(card) + WeekDays * (w - 1),
                  quality |-> q]]
  /\ UNCHANGED <<card, visits, metrics>>
MetricRequest(r) ==
  /\ req[r] = Idle
  /\ StaffAccounts # {}
  /\ card.exists
  /\ group[card.stage] \in TICKET_METRIC_GROUPS
  /\ \E w \in Weeks, q \in Qualities :
       LET old == metrics[w]
           start == IF old.start # NoDay THEN old.start
                    ELSE TicketStart(card) + WeekDays * (w - 1)
       IN  /\ w \in Recorded \/ w = LastWeek + 1
           /\ req' = [req EXCEPT ![r] =
                [op |-> "metric", week |-> w, old |-> old, start |-> start,
                 quality |-> WeeklyMetricForm(old, q,
                               QualityEditable(card, start))]]
  /\ UNCHANGED <<card, visits, metrics>>

\* save_metric_with_event: a new week another request inserted meanwhile is
\* refused by the uniqueness of (journey, week_number).
MetricSaveMutant(r) ==
  LET q == req[r].quality
  IN  /\ req[r].op = "metric"
      /\ metrics' = [metrics EXCEPT ![req[r].week] =
                       [quality |-> IF q = None THEN 0 ELSE q,
                        start |-> req[r].start]]
      /\ req' = [req EXCEPT ![r] = Idle]
      /\ UNCHANGED <<card, visits>>
MetricSave(r) ==
  LET w == req[r].week
  IN  /\ req[r].op = "metric"
      /\ metrics' = IF req[r].old.start = NoDay /\ w \in Recorded THEN metrics
                    ELSE [metrics EXCEPT ![w] = [quality |-> req[r].quality,
                                                 start |-> req[r].start]]
      /\ req' = [req EXCEPT ![r] = Idle]
      /\ UNCHANGED <<card, visits>>

-----------------------------------------------------------------------------
\* A lost connection, or PostgreSQL ending a deadlock between a move (history
\* first) and an edit (card first): the transaction is rolled back.
Abort(r) ==
  /\ req[r] # Idle
  /\ req' = [req EXCEPT ![r] = Idle]
  /\ UNCHANGED <<card, visits, metrics>>

Serve(r) ==
  \/ CreateRequest(r) \/ CreateCommit(r)
  \/ StartRequest(r) \/ StartCommit(r)
  \/ MoveRequest(r) \/ CloseVisits(r) \/ CommitMove(r)
  \/ CompleteRequest(r) \/ SaveResult(r)
  \/ EditRequest(r) \/ EditDecide(r) \/ EditCommit(r)
  \/ MetricRequest(r) \/ MetricSave(r)
  \/ Abort(r)

Next == UNCHANGED users /\ \E r \in Requests : Serve(r)

Spec == Init /\ [][Next]_<<vars, users>>

-----------------------------------------------------------------------------
(* check_journey_integrity, the checker behind the command                 *)
(* check_trainee_integrity, as the set of issue codes it reports for the   *)
(* card and the history as they are now.                                   *)

DateIssues ==
  (IF card.start > Today THEN {"PROBATION_START_IN_FUTURE"} ELSE {})
  \cup (IF card.since < card.start THEN {"STAGE_BEFORE_PROBATION"} ELSE {})
  \cup (IF card.since > Today THEN {"STAGE_START_IN_FUTURE"} ELSE {})
  \cup (IF card.stage \notin applies[card.entry_type]
        THEN {"STAGE_NOT_APPLICABLE"} ELSE {})

\* The history sorted by (started_at, id).
Entries ==
  LET rows == [i \in DOMAIN visits |-> [id |-> i] @@ visits[i]]
  IN  SortSeq(rows, LAMBDA x, y :
        \/ x.started_at < y.started_at
        \/ x.started_at = y.started_at /\ x.id < y.id)

HistoryIssues ==
  LET e == Entries
      IsOpen(i) == e[i].ended_at = NoDay
      open == {i \in DOMAIN e : IsOpen(i)}
      follows == {i \in DOMAIN e : i + 1 \in DOMAIN e}
  IN  (IF e = <<>> THEN {"NO_STAGE_HISTORY"} ELSE {})
      \cup (IF Cardinality(open) # 1 THEN {"OPEN_HISTORY_COUNT"}
            ELSE LET o == e[CHOOSE i \in open : TRUE]
                 IN  {c \in {"CURRENT_STAGE_MISMATCH"} : o.stage # card.stage}
                     \cup {c \in {"CURRENT_STAGE_DATE_MISMATCH"} :
                             o.started_at # card.since})
      \cup {c \in {"FIRST_HISTORY_DATE_MISMATCH"} :
              e # <<>> /\ e[1].started_at # card.start}
      \cup {c \in {"INVALID_HISTORY_INTERVAL"} : \E i \in DOMAIN e :
              ~IsOpen(i) /\ e[i].ended_at < e[i].started_at}
      \cup {c \in {"OPEN_HISTORY_NOT_LAST"} : \E i \in follows : IsOpen(i)}
      \cup {c \in {"HISTORY_GAP"} : \E i \in follows :
              ~IsOpen(i) /\ e[i].ended_at < e[i + 1].started_at}
      \cup {c \in {"HISTORY_OVERLAP"} : \E i \in follows :
              ~IsOpen(i) /\ e[i].ended_at > e[i + 1].started_at}

CompletionIssues ==
  {c \in {"DONE_WITHOUT_COMPLETION_STATUS"} :
     Done(card.stage) /\ card.status = ""}
  \cup {c \in {"DONE_WITHOUT_COMPLETED_AT"} :
          Done(card.stage) /\ card.completed_at = NoDay}
  \cup {c \in {"COMPLETION_DATA_OUTSIDE_DONE"} :
          ~Done(card.stage) /\ HasResult(card)}
  \cup {c \in {"TERMINATED_WITHOUT_COMMENT"} :
          card.status = "terminated" /\ ~card.reason}
  \cup (IF card.completed_at = NoDay THEN {} ELSE
          {c \in {"COMPLETION_BEFORE_PROBATION"} :
             card.completed_at < card.start}
          \cup {c \in {"COMPLETION_IN_FUTURE"} : card.completed_at > Today}
          \cup {c \in {"DONE_STAGE_DATE_MISMATCH"} :
                  Done(card.stage) /\ card.since # card.completed_at})

Issues == IF card.exists THEN DateIssues \cup HistoryIssues \cup CompletionIssues
          ELSE {}

-----------------------------------------------------------------------------
(* Properties                                                              *)

\* The columns, the history and the metrics have their types, whatever the
\* requests wrote over one another.
TypeOK ==
  /\ TraineeStage
  /\ card \in Journey
  /\ \A i \in DOMAIN visits : visits[i] \in StageHistory
  /\ metrics \in [Weeks -> WeeklyMetric]

\* What requests served one at a time can leave that the checker reports: a
\* card created on the final stage has no result, and when it gets one later
\* the dates differ; an edit of the start date after the first transition
\* leaves the first visit behind.  Everything else (the chain of visits, the
\* open visit agreeing with the card, the result) stays in order through any
\* sequence of starts, moves, edits and completions (move_to_stage,
\* complete_probation, EditTraineeForm.save).
SequentialIntegrity ==
  Issues \subseteq {"DONE_WITHOUT_COMPLETION_STATUS",
                    "DONE_WITHOUT_COMPLETED_AT", "DONE_STAGE_DATE_MISMATCH",
                    "FIRST_HISTORY_DATE_MISMATCH"}

\* Outside the stage with obligatory reviews the fixed quality is the one of
\* the latest rated week, and on it nothing is fixed: later saves of weekly
\* metrics cannot change the number the transition froze
\* (_apply_quality_stage_transition against save_weekly_metric).
QualityFrozen ==
  card.exists => card.fixed = IF group[card.stage] = "with_review" THEN None
                              ELSE LatestQuality

\* The weeks are numbered 1, 2, ... without a hole, even when two requests
\* add a week together (save_weekly_metric's next_week_number).
WeeksContiguous == Recorded = 1..LastWeek

\* The stage of the card is the stage of the visit recorded last, also when
\* moves and completions overtake one another (one transaction writes both).
CardFollowsLastVisit ==
  visits # <<>> => visits[Len(visits)].stage = card.stage

\* check_journey_integrity: "Ожидалась одна открытая запись истории" - one
\* visit is open at any time.
OneOpenVisit == "OPEN_HISTORY_COUNT" \notin Issues

\* TraineeJourney.clean: "Результат ИС можно сохранить только на финальном
\* этапе".
ResultOnFinalStage == "COMPLETION_DATA_OUTSIDE_DONE" \notin Issues

\* check_journey_integrity: a card on the final stage has a result.
FinalStageHasResult == "DONE_WITHOUT_COMPLETION_STATUS" \notin Issues

\* check_journey_integrity: the first visit starts with the probation.
FirstVisitAtStart == "FIRST_HISTORY_DATE_MISMATCH" \notin Issues
=============================================================================
