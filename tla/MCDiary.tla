------------------------------- MODULE MCDiary -------------------------------
(***************************************************************************)
(* The models of the trainee diary and of the roadmap in one instance for  *)
(* TLC.  A behaviour is one of the part that is chosen at first, and the   *)
(* variables of the other parts are off.                                   *)
(***************************************************************************)
EXTENDS SchemeTransfer, TLC

CONSTANTS Parts,     \* "alone", "moves", "weeks", "roadmap", "transfer"
          Requests   \* two requests about one card

VARIABLES
  part,
  card, chain, metrics, req,
  events, l1

journeyVars == <<card, chain, metrics, req>>
roadVars == <<events, l1>>
\* The accounts belong to every part.
transferVars == <<today, cards, visits, rest, baseline, batch, transfers>>

\* Theory for new hires only, tickets with reviews, tickets without, the end.
Short == {"theory", "review", "free", "final"}
ShortGroup == [theory |-> "teachbase", review |-> "with_review",
               free |-> "no_review", final |-> "done"]
ShortOrder == [theory |-> 1, review |-> 2, free |-> 3, final |-> 4]
ShortApplies == [new_hire |-> Short, internal_transfer |-> Short \ {"theory"}]

\* Requests served one at a time.
Alone == INSTANCE TraineeJourney WITH
  Requests <- {"r1"}, Accounts <- {"m"}, Stages <- Short, group <- ShortGroup,
  order <- ShortOrder, is_active <- Short, applies <- ShortApplies,
  Today <- 1, WeekDays <- 1, Qualities <- {90}, MaxVisits <- 4, MaxWeeks <- 2,
  visits <- chain

\* Two requests at a time: two moves, and two weeks.
Moves == INSTANCE TraineeJourney WITH
  Accounts <- {"m"}, Stages <- Short, group <- ShortGroup,
  order <- ShortOrder, is_active <- Short, applies <- ShortApplies,
  Today <- 0, WeekDays <- 1, Qualities <- {90}, MaxVisits <- 3, MaxWeeks <- 1,
  visits <- chain
Weeks == INSTANCE TraineeJourney WITH
  Accounts <- {"m"}, Stages <- Short, group <- ShortGroup,
  order <- ShortOrder, is_active <- Short, applies <- ShortApplies,
  Today <- 0, WeekDays <- 1, Qualities <- {90}, MaxVisits <- 2, MaxWeeks <- 2,
  visits <- chain

\* Every stage the projection of the roadmap tells apart.
Long == {"program", "review", "optional", "free", "final"}
Road == INSTANCE Roadmap WITH
  Requests <- {"r1"}, Accounts <- {"m"}, Stages <- Long,
  group <- [program |-> "teachbase", review |-> "with_review",
            optional |-> "optional_review", free |-> "no_review",
            final |-> "done"],
  order <- [program |-> 1, review |-> 7, optional |-> 8, free |-> 9,
            final |-> 10],
  is_active <- Long,
  applies <- [new_hire |-> Long, internal_transfer |-> Long \ {"program"}],
  Today <- 0, WeekDays <- 7, Qualities <- {}, MaxVisits <- 4, MaxWeeks <- 1,
  MaxEvents <- 2, visits <- chain

Off(v) == v = "off"
JourneyOff == Off(card) /\ Off(chain) /\ Off(metrics) /\ Off(req)
RoadOff == Off(events) /\ Off(l1)
\* No audit and no transfer.
TransferOff ==
  /\ Off(today) /\ Off(cards) /\ Off(visits) /\ Off(rest)
  /\ baseline = {} /\ batch = [status |-> "none"] /\ transfers = <<>>

SuiteInit ==
  /\ part \in Parts
  /\ \/ part = "alone" /\ Alone!Init /\ RoadOff /\ TransferOff
     \/ part = "moves" /\ Moves!Init /\ RoadOff /\ TransferOff
     \/ part = "weeks" /\ Weeks!Init /\ RoadOff /\ TransferOff
     \/ part = "roadmap" /\ Road!RoadmapInit /\ TransferOff
     \/ part = "transfer" /\ Init /\ JourneyOff /\ RoadOff

AloneNext == part = "alone" /\ Alone!Next /\ UNCHANGED <<roadVars, transferVars>>
MovesNext == part = "moves" /\ Moves!Next /\ UNCHANGED <<roadVars, transferVars>>
WeeksNext == part = "weeks" /\ Weeks!Next /\ UNCHANGED <<roadVars, transferVars>>
RoadNext == part = "roadmap" /\ Road!RoadmapNext /\ UNCHANGED transferVars
TransferNext == part = "transfer" /\ Next /\ UNCHANGED <<journeyVars, roadVars>>

SuiteNext ==
  /\ UNCHANGED part
  /\ AloneNext \/ MovesNext \/ WeeksNext \/ RoadNext \/ TransferNext

suiteVars == <<part, journeyVars, roadVars, vars>>
SuiteSpec == SuiteInit /\ [][SuiteNext]_suiteVars

Symmetry == Permutations(Requests)

-----------------------------------------------------------------------------
(* The properties of the parts, each stated in its module; those of the     *)
(* transfer are the ones of SchemeTransfer themselves.                      *)

\* The card, its history and what is derived from it agree.  Requests served
\* one at a time keep the chain of visits, the open visit and the result in
\* order, and outside the stage with obligatory reviews the fixed quality is
\* that of the latest rated week.  When requests overtake one another, the
\* stage of the card still is the one of the visit recorded last, and the
\* weeks have no hole.  The roadmap calls a history ambiguous only when the
\* integrity command reports the card or an edit left visits of another entry
\* type behind, and one with nothing left to do belongs to a trainee who went
\* through the stages of the work in order, with success.
HistoryAgrees ==
  /\ part = "alone" =>
       Alone!TypeOK /\ Alone!SequentialIntegrity /\ Alone!QualityFrozen
  /\ part = "moves" => Moves!TypeOK /\ Moves!CardFollowsLastVisit
  /\ part = "weeks" => Weeks!TypeOK /\ Weeks!WeeksContiguous
  /\ part = "roadmap" => Road!CleanCardIsReadable /\ Road!CompleteRoadmap

\* A transfer to the unified scheme changes no progress and leaves a history
\* that is still read; after a ready audit it is refused only for a card the
\* report warned about, and it can be taken back while neither the diary nor
\* an account has changed.
TransferSafe ==
  /\ ProgressKept /\ HistoryStaysReadable
  /\ ReadyAuditTransfers /\ RollbackAvailable

\* What a trainee has proven about a stage of the work is lost only by going
\* back to that stage or when the account that recorded it loses the staff
\* flag or is deleted, and neither by a transfer nor by its rollback.
ProofsOnlyGrow ==
  [][/\ part = "roadmap" => Road!ProofsKept
     /\ part = "transfer" => SameEvidence]_suiteVars
==============================================================================
