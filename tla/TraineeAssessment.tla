-------------------------- MODULE TraineeAssessment --------------------------
(***************************************************************************)
(* What the diary tells a mentor about a trainee on the unified program:   *)
(* progress, risk, reasons for attention and readiness for the next stage, *)
(* as days pass, weeks are rated and the trainee advances.                 *)
(*                                                                         *)
(* Speeds are in tenths of a ticket per hour; None stands for no rated     *)
(* week.  An adaptation is not backdated here: TraineeJourney covers that. *)
(***************************************************************************)
EXTENDS Integers, Sequences

CONSTANTS
  EntryTypesModelled, \* entry types of the instance
  QualityValues,      \* values a week may have
  SpeedValues,
  MaxDays             \* bound on the days of an adaptation

None == -1
SPEED_TARGET == 60
QUALITY_TARGET == 80
ALMOST_READY_STAGE_DAYS == 3
PROBATION_DAYS_BY_ENTRY_TYPE == [new_hire |-> 90, internal_transfer |-> 30]
ATTENTION_DAYS_LEFT_BY_ENTRY_TYPE == [new_hire |-> 14, internal_transfer |-> 7]

\* The stages of the unified program in their order.
Stage(g, min, max, weight, internal) ==
  [group |-> g, min_days |-> min, max_days |-> max, weight |-> weight,
   applies_to_internal_transfer |-> internal]
Catalog ==
  << Stage("teachbase", 10, 14, 35, FALSE),
     Stage("sandbox_candidate", 1, 2, 5, FALSE),
     Stage("with_review", 15, 20, 35, TRUE),
     Stage("optional_review", 5, 10, 10, TRUE),
     Stage("no_review", 10, 10, 15, TRUE),
     Stage("done", 0, 0, 0, TRUE) >>

ASSUME InputsAssumption ==
  /\ EntryTypesModelled \subseteq {"new_hire", "internal_transfer"}
  /\ QualityValues \subseteq 0..100 /\ SpeedValues \subseteq Nat
  /\ MaxDays \in Nat

VARIABLES
  entry_type,
  current,     \* index of the current stage in Catalog
  days_on_stage,
  days_total,
  quality,     \* latest rated quality_percent
  speed,       \* latest rated speed_hours, in tenths
  override,    \* manual_risk_override
  l1           \* state of the L1 queue for this trainee

vars == <<entry_type, current, days_on_stage, days_total, quality, speed,
          override, l1>>
ratings == <<quality, speed, override, l1>>

stage == Catalog[current]
NotNegative(n) == IF n < 0 THEN 0 ELSE n
Least(a, b) == IF a < b THEN a ELSE b

Applicable ==
  {i \in DOMAIN Catalog :
     entry_type = "new_hire" \/ Catalog[i].applies_to_internal_transfer}

\* next_stage: the first applicable stage after the current one.
NextStages == LET after == {i \in Applicable : i > current}
              IN  {i \in after : \A j \in after : i <= j}

Init ==
  /\ entry_type \in EntryTypesModelled
  /\ current \in {i \in Applicable : Catalog[i].group # "done"}
  /\ days_on_stage = 0 /\ days_total = 0
  /\ quality = None /\ speed = None
  /\ override = ""
  /\ l1 = "remaining"

-----------------------------------------------------------------------------
(* Progress and the risk of the card: models.py                            *)

\* The weight of the applicable stages up to the n-th of the catalog.
WeightUpTo[n \in 0..Len(Catalog)] ==
  IF n = 0 THEN 0
  ELSE WeightUpTo[n - 1] + IF n \in Applicable THEN Catalog[n].weight ELSE 0

\* round() of n / d: half to even.
Round(n, d) ==
  LET q == n \div d
      r == 2 * (n % d)
  IN  IF r > d \/ (r = d /\ q % 2 = 1) THEN q + 1 ELSE q

progress_percentMutant ==
  LET before == WeightUpTo[current]
      max == IF stage.max_days = 0 THEN 1 ELSE stage.max_days
      raw == before * max + stage.weight * Least(days_on_stage, max)
  IN  IF stage.group = "done" THEN 100
      ELSE Round(raw * 100, max * WeightUpTo[Len(Catalog)])
progress_percentUncappedMutant ==
  LET max == IF stage.max_days = 0 THEN 1 ELSE stage.max_days
      raw == WeightUpTo[current - 1] * max + stage.weight * days_on_stage
  IN  IF stage.group = "done" THEN 100
      ELSE Round(raw * 100, max * WeightUpTo[Len(Catalog)])
progress_percent ==
  LET before == WeightUpTo[current - 1]
      max == IF stage.max_days = 0 THEN 1 ELSE stage.max_days
      raw == before * max + stage.weight * Least(days_on_stage, max)
  IN  IF stage.group = "done" THEN 100
      ELSE Round(raw * 100, max * WeightUpTo[Len(Catalog)])

\* TraineeJourney.risk_level: the share of the maximum the stage took.
card_risk_level ==
  LET max == IF stage.max_days = 0 THEN 1 ELSE stage.max_days
  IN  IF override # "" THEN override
      ELSE IF stage.group = "done" THEN "none"
      ELSE IF days_on_stage <= max THEN "low"
      ELSE IF 10 * days_on_stage <= 13 * max THEN "medium" ELSE "high"

-----------------------------------------------------------------------------
(* Attention: attention.py                                                 *)

days_left ==
  NotNegative(PROBATION_DAYS_BY_ENTRY_TYPE[entry_type] - days_total)
NearEnd == days_left <= ATTENTION_DAYS_LEFT_BY_ENTRY_TYPE[entry_type]

QualityReasons ==
  IF quality = None THEN {"quality_missing"}
  ELSE IF quality < QUALITY_TARGET THEN {"quality_below_target"} ELSE {}
SpeedReasons ==
  IF speed = None THEN {"speed_missing"}
  ELSE IF speed < SPEED_TARGET THEN {"speed_below_target"} ELSE {}

attentionMutant ==
  IF stage.group = "done" THEN {}
  ELSE {c \in {"manual_high_risk"} : override = "high"}
    \cup {c \in {"stage_overdue"} : days_on_stage = stage.max_days + 1}
    \cup {c \in {"behind_probation_route"} : NearEnd}
attention ==
  IF stage.group = "done" THEN {}
  ELSE {c \in {"manual_high_risk"} : override = "high"}
    \cup {c \in {"stage_overdue"} : days_on_stage > stage.max_days}
    \cup {c \in QualityReasons : /\ stage.group = "with_review"
                                 /\ days_on_stage >= stage.max_days}
    \cup {c \in {"behind_probation_route"} : NearEnd
                                          /\ stage.group # "no_review"}
    \cup {c \in SpeedReasons : NearEnd /\ stage.group = "no_review"}

Danger == {"manual_high_risk", "stage_overdue"}

-----------------------------------------------------------------------------
(* Risk and readiness: assessment.py                                       *)

risk_level ==
  IF stage.group = "done" THEN "none"
  ELSE IF override # "" THEN override
  ELSE IF attention \cap Danger # {} THEN "high"
  ELSE IF attention # {} THEN "medium" ELSE "low"

until_minimum == NotNegative(stage.min_days - days_on_stage)
TimeReason == {c \in {"minimum_stage_days"} : until_minimum > 0}
TimeReasons == {"minimum_stage_days", "probation_not_finished"}

Ready == [state |-> "ready", reasons |-> {}]
NotReady(rs) == [state |-> "not_ready", reasons |-> rs]
AlmostReady(rs) == [state |-> "almost_ready", reasons |-> rs]

sandbox_readiness ==
  CASE l1 = "ready" -> Ready
    [] l1 = "missing" -> NotReady({"sandbox_queue_missing"})
    [] l1 = "empty" -> NotReady({"sandbox_tasks_missing"})
    [] OTHER -> NotReady({"sandbox_tasks_remaining"})

with_review_readinessMutant ==
  LET rs == TimeReason \cup {c \in QualityReasons : quality = None}
  IN  IF rs = {} THEN Ready ELSE NotReady(rs)
with_review_readiness ==
  LET rs == TimeReason \cup QualityReasons
  IN  IF rs = {} THEN Ready
      ELSE IF rs = TimeReason /\ until_minimum <= ALMOST_READY_STAGE_DAYS
      THEN AlmostReady(rs) ELSE NotReady(rs)

\* The training program is confirmed by a mentor, never by elapsed days.
time_based_readiness ==
  IF current = 1 THEN NotReady({"manual_training_confirmation"})
  ELSE IF until_minimum = 0 THEN Ready
  ELSE IF until_minimum <= ALMOST_READY_STAGE_DAYS THEN AlmostReady(TimeReason)
  ELSE NotReady(TimeReason)

no_review_readinessMutant ==
  LET rs == TimeReason \cup SpeedReasons
  IN  IF rs = {} THEN Ready
      ELSE IF until_minimum = ALMOST_READY_STAGE_DAYS
      THEN AlmostReady(rs) ELSE NotReady(rs)
no_review_readiness ==
  LET rs == TimeReason \cup SpeedReasons
              \cup {c \in {"probation_not_finished"} : days_left > 0}
  IN  IF rs = {} THEN Ready
      ELSE IF /\ rs \subseteq TimeReasons
              /\ until_minimum <= ALMOST_READY_STAGE_DAYS
              /\ NearEnd
      THEN AlmostReady(rs) ELSE NotReady(rs)

readiness ==
  IF stage.group = "done" THEN [state |-> "completed", reasons |-> {}]
  ELSE IF NextStages = {} THEN NotReady({"next_stage_missing"})
  ELSE CASE stage.group = "sandbox_candidate" -> sandbox_readiness
         [] stage.group = "with_review" -> with_review_readiness
         [] stage.group = "no_review" -> no_review_readiness
         [] OTHER -> time_based_readiness

-----------------------------------------------------------------------------
\* A day passes.
Tick ==
  /\ stage.group # "done"
  /\ days_total < MaxDays
  /\ days_on_stage' = days_on_stage + 1
  /\ days_total' = days_total + 1
  /\ UNCHANGED <<entry_type, current, ratings>>

\* The mentor moves the trainee to the next stage.
Advance ==
  /\ \E i \in NextStages : current' = i
  /\ days_on_stage' = 0
  /\ UNCHANGED <<entry_type, days_total, ratings>>

\* A week is rated: the quality belongs to the stage with reviews.
RateWeek ==
  /\ stage.group \in {"with_review", "optional_review", "no_review"}
  /\ speed' \in SpeedValues
  /\ IF stage.group = "with_review" THEN quality' \in QualityValues
     ELSE UNCHANGED quality
  /\ UNCHANGED <<entry_type, current, days_on_stage, days_total, override, l1>>

\* A mentor sets the risk by hand.
SetOverride ==
  /\ override' \in {"", "high"} \ {override}
  /\ UNCHANGED <<entry_type, current, days_on_stage, days_total, quality,
                 speed, l1>>

\* Tasks of L1 are passed, switched off or switched on again.
ChangeL1 ==
  /\ l1' \in {"missing", "empty", "remaining", "ready"} \ {l1}
  /\ stage.group = "sandbox_candidate"
  /\ UNCHANGED <<entry_type, current, days_on_stage, days_total, quality,
                 speed, override>>

Next == Tick \/ Advance \/ RateWeek \/ SetOverride \/ ChangeL1

Spec == Init /\ [][Next]_vars

-----------------------------------------------------------------------------
(* Properties                                                              *)

\* Every derived value is defined and in its range on every reachable card:
\* a percentage from 0 to 100, a known risk, a known state (the builders of
\* assessment.py and attention.py over the catalog of migration 0007).
TypeOK ==
  /\ progress_percent \in 0..100
  /\ {risk_level, card_risk_level} \subseteq {"none", "low", "medium", "high"}
  /\ readiness.state \in {"ready", "almost_ready", "not_ready", "completed"}

\* Progress never falls while days pass or the trainee advances, although the
\* share of the days and the weights of the stages are two calculations
\* (progress_percent).
ProgressGrows == Tick \/ Advance => progress_percent' >= progress_percent
ProgressMonotone == [][ProgressGrows]_vars

Rank == [not_ready |-> 0, almost_ready |-> 1, ready |-> 2, completed |-> 3]

\* Waiting never makes a trainee less ready for the next stage: the reasons
\* that depend on time only go away (readiness of every stage).
ReadinessGrows == Tick => Rank[readiness'.state] >= Rank[readiness.state]
WaitingKeepsReadiness == [][ReadinessGrows]_vars

\* Waiting never clears a reason for attention: only a rating, a move or a
\* mentor's decision does (build_attention_summary).
AttentionGrows == Tick => attention \subseteq attention'
WaitingKeepsAttention == [][AttentionGrows]_vars

\* A trainee whom the diary calls ready for the next stage has no open
\* question about quality or speed in the list of those who need attention:
\* the two services compute the same targets apart.
ReadyIsUndisputed ==
  readiness.state = "ready"
    => attention \cap (QualityReasons \cup SpeedReasons) = {}

\* The risk of the card, computed from the share of the maximum, and the one
\* of the dashboards, computed from the reasons for attention, agree on who
\* overstays a stage.
RisksAgree ==
  override = "" /\ stage.group # "done"
    => (card_risk_level # "low" <=> "stage_overdue" \in attention)
=============================================================================
