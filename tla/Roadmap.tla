------------------------------- MODULE Roadmap -------------------------------
(***************************************************************************)
(* The roadmap of a trainee: the append-only confirmations of training,    *)
(* and the read-only projection that derives what is completed from the    *)
(* confirmations, the sandbox completion, the card and its history.  The   *)
(* card changes under the requests of TraineeJourney, and the accounts of  *)
(* the staff lose or regain their flag or are deleted.                     *)
(***************************************************************************)
EXTENDS TraineeJourney, FiniteSetsExt

CONSTANTS
  MaxEvents   \* bound on the confirmation events

VARIABLES
  events,     \* TrainingConfirmationEvent: action and actor, in order of id
  l1          \* the sandbox: "none" or "some" tasks passed, or "completed"

roadmapVars == <<events, l1>>
allVars == <<vars, users, roadmapVars>>

Work == {"with_review", "optional_review", "no_review"}
SUCCESSORS == [with_review |-> "optional_review",
               optional_review |-> "no_review", no_review |-> "done"]
MODULES == {"training", "sandbox", "probation"} \cup Work

RoadmapInit ==
  /\ Init
  /\ events = <<>>
  /\ l1 = "none"

-----------------------------------------------------------------------------
(* confirmations.py                                                        *)

Latest == IF events = <<>> THEN {} ELSE {events[Len(events)].action}

\* training_action: the row of the card is locked, so the latest event is
\* read and the next one written without another request in between.
ChangeConfirmation(by, confirmed) ==
  /\ IsStaff(by)
  /\ card.exists
  /\ card.entry_type = "new_hire"
  /\ Len(events) < MaxEvents
  /\ (Latest = {"confirmed"}) # confirmed
  /\ events' = Append(events,
       [action |-> IF confirmed THEN "confirmed" ELSE "revoked", actor |-> by])
  /\ UNCHANGED <<vars, users, l1>>

\* The sandbox passes a task, or records the completion of L1 (module
\* ProgramCompletions); a completion is never withdrawn.
SandboxAdvances ==
  /\ l1 # "completed"
  /\ l1' \in {"some", "completed"} \ {l1}
  /\ UNCHANGED <<vars, users, events>>

\* The flag of an account is taken or given back.
ChangeFlag(a) ==
  /\ users[a] # "deleted"
  /\ users' = [users EXCEPT ![a] = IF @ = "staff" THEN "plain" ELSE "staff"]
  /\ UNCHANGED <<vars, roadmapVars>>

\* Deleting an account clears the keys of the card and of the visits that
\* name it; its confirmations protect it.  A request of this account that is
\* still under way would fail on the key it writes.
DeleteAccount(a) ==
  LET Kept(by) == IF by = a THEN Nobody ELSE by
  IN  /\ users[a] # "deleted"
      /\ \A i \in DOMAIN events : events[i].actor # a
      /\ users' = [users EXCEPT ![a] = "deleted"]
      /\ card' = [card EXCEPT !.completed_by = Kept(@)]
      /\ visits' = [i \in DOMAIN visits |->
           [visits[i] EXCEPT !.changed_by = Kept(@)]]
      /\ req' = [r \in Requests |->
           IF "by" \in DOMAIN req[r] /\ req[r].by = a THEN Idle ELSE req[r]]
      /\ UNCHANGED <<metrics, roadmapVars>>

Diary == Next /\ UNCHANGED roadmapVars

RoadmapNext ==
  \/ Diary
  \/ SandboxAdvances
  \/ \E by \in Accounts, confirmed \in BOOLEAN : ChangeConfirmation(by, confirmed)
  \/ \E a \in Accounts : ChangeFlag(a) \/ DeleteAccount(a)

RoadmapSpec == RoadmapInit /\ [][RoadmapNext]_allVars

-----------------------------------------------------------------------------
(* projection.py                                                           *)

\* _probation
Probation ==
  IF ~Done(card.stage)
  THEN IF card.status = "" THEN "active" ELSE "insufficient_data"
  ELSE IF ~(/\ card.completed_at \in card.start..Today
            /\ card.completed_by # Nobody
            /\ card.since = card.completed_at)
  THEN "insufficient_data"
  ELSE IF card.status = "success" THEN "success"
  ELSE IF card.status = "terminated" /\ card.reason THEN "terminated"
  ELSE "insufficient_data"

\* The history is continuous, starts within the probation, applies to the
\* entry type and ends in the current stage.
ValidHistoryMutant ==
  LET e == Entries
      n == Len(e)
  IN  /\ n > 0
      /\ \A i \in 1..(n - 1) : e[i].started_at < e[i + 1].started_at
      /\ e[n].stage = card.stage
ValidHistory ==
  LET e == Entries
      n == Len(e)
  IN  /\ n > 0
      /\ \A i \in 1..n :
           /\ e[i].started_at \in card.start..Today
           /\ e[i].stage \in applies[card.entry_type]
           /\ i < n => /\ e[i].ended_at = e[i + 1].started_at
                       /\ e[i].started_at <= e[i + 1].started_at
      /\ e[n].stage = card.stage
      /\ e[n].ended_at = NoDay
      /\ e[n].started_at = card.since

\* _working_evidence: the last visit to the stage was followed by the stage
\* that comes next, an account of the staff recorded that transition, and the
\* last stage also needs a successful probation.
ProvenNext(w) ==
  LET e == Entries
  IN  /\ ValidHistory
      /\ \E i \in DOMAIN e : /\ group[e[i].stage] = w
                             /\ i + 1 = Len(e)
                             /\ group[e[i + 1].stage] = SUCCESSORS[w]
                             /\ IsStaff(e[i + 1].changed_by)
ProvenLeft(w) ==
  LET e == Entries
  IN  /\ ValidHistory
      /\ \E i \in DOMAIN e : group[e[i].stage] = w /\ i < Len(e)
LastVisit(e, w) ==
  Max({0} \cup {i \in DOMAIN e : group[e[i].stage] = w})
Proven(w) ==
  LET e == Entries
      last == LastVisit(e, w)
  IN  /\ last # 0 /\ last < Len(e)
      /\ ValidHistory
      /\ group[e[last + 1].stage] = SUCCESSORS[w]
      /\ IsStaff(e[last + 1].changed_by)
      /\ w = "no_review" => Probation = "success"

Internal == card.entry_type = "internal_transfer"
Applicable(m) == ~(Internal /\ m \in {"training", "sandbox"})

TrainingState ==
  IF Latest = {"confirmed"} THEN "completed"
  ELSE IF group[card.stage] = "teachbase" THEN "in_progress" ELSE "available"

SandboxState ==
  IF l1 = "completed" THEN "completed"
  ELSE IF l1 = "some" \/ group[card.stage] = "sandbox_candidate" THEN "in_progress"
  ELSE IF TrainingState = "completed" THEN "available" ELSE "locked"

\* Evidence first, then the current position, then what the completed
\* predecessor unlocks.
WorkState(w) ==
  LET unlocked == IF w = "with_review" THEN Internal \/ l1 = "completed"
                  ELSE \E v \in Work : /\ SUCCESSORS[v] = w
                                       /\ Proven(v)
                                       /\ group[card.stage] # v
  IN  IF group[card.stage] = w THEN "in_progress"
      ELSE IF Proven(w) THEN "completed"
      ELSE IF unlocked THEN "available" ELSE "locked"

ProbationState ==
  CASE Probation = "success" -> "completed"
    [] Probation = "active" -> "in_progress"
    [] OTHER -> "locked"

State(m) == CASE m = "training" -> TrainingState
              [] m = "sandbox" -> SandboxState
              [] m = "probation" -> ProbationState
              [] OTHER -> WorkState(m)

CompletedModules == {m \in MODULES : Applicable(m) /\ State(m) = "completed"}

-----------------------------------------------------------------------------
(* Properties                                                              *)

\* The roadmap calls a history ambiguous only when the integrity command
\* reports the card as well, or when an edit of the entry type left visits
\* behind that the new type does not have: two independent readings of the
\* history agree on what is in order (_working_evidence,
\* check_journey_integrity).
CleanCardIsReadable ==
  /\ card.exists
  /\ Issues = {}
  /\ \A i \in DOMAIN visits : visits[i].stage \in applies[card.entry_type]
  => ValidHistory

\* The accounts that the card and its visits name.
Recorders == {card.completed_by} \cup {visits[i].changed_by : i \in DOMAIN visits}

\* What a trainee has proven about a stage of the work is lost only by going
\* back to that stage, or by a change of an account that recorded a transition
\* or the completion: other moves, the completion and the edits
\* that keep the start date and the entry type keep it (_working_evidence: "A
\* return invalidates the earlier completion").
ProofsKept ==
  \A w \in Work :
    /\ card.exists /\ Proven(w)
    /\ <<card'.start, card'.entry_type>> = <<card.start, card.entry_type>>
    /\ group[card'.stage] # w
    /\ \A a \in Recorders \cap Accounts : users'[a] = users[a]
    => Proven(w)'
OnlyReturnUndoes == [][ProofsKept]_allVars

\* A roadmap with nothing left to do belongs to a trainee whose probation was
\* successful and who went through the stages of the work in their order: no
\* other sequence of moves and confirmations completes every module.
CompleteRoadmap ==
  card.exists /\ CompletedModules = {m \in MODULES : Applicable(m)}
    => /\ card.status = "success"
       /\ \E i \in 1..(Len(visits) - 3) : \A k \in 0..3 :
            group[visits[i + k].stage] =
              <<"with_review", "optional_review", "no_review", "done">>[k + 1]
=============================================================================
