------------------------------ MODULE MCAnswers ------------------------------
(***************************************************************************)
(* The attempts of a trainee in one instance for TLC: their numbers and    *)
(* reruns, and the answers and reviews of one of them.  A behaviour is one *)
(* of the part that is chosen at first: the variables of the other model   *)
(* stay as they are at first, or off.                                      *)
(***************************************************************************)
EXTENDS AnswerReview, TLC

CONSTANTS
  Parts,     \* "answers", "forms", "numbers", "queue"
  Requests, Queue, MaxNumber, MaxDeletes, MaxLost, MaxToggles

VARIABLES
  part,
  rows, req, locks, active, callbacks, told, past

attemptVars == <<rows, req, locks, active, callbacks, told, past>>

Tries == INSTANCE TraineeAttempts

Off(v) == v = "off"
AttemptsOff ==
  /\ Off(rows) /\ Off(req) /\ Off(locks) /\ Off(active)
  /\ Off(callbacks) /\ Off(told) /\ Off(past)

SuiteInit ==
  /\ part \in Parts
  /\ Init
  /\ \/ part \in {"answers", "forms"} /\ AttemptsOff
     \/ part \in {"numbers", "queue"} /\ Tries!Init

\* At most one of the requests of f is under way.
OneAtATime(f) == \A x, y \in DOMAIN f : "idle" \in {f[x].pc, f[y].pc} \/ x = y

\* "answers": one request at a time, with the AI reviews.  "forms": requests
\* that overlap, before the AI reviews run.
AnswersNext ==
  /\ Next
  /\ part = "answers" => OneAtATime(form')
  /\ part = "forms" => \A i \in DOMAIN ai' : ai'[i].status = "pending"
  /\ UNCHANGED attemptVars

\* "numbers": requests that overlap and deletions, about the first task.
\* "queue": one request at a time about all tasks, two attempts of each.
AttemptsNext ==
  /\ Tries!Next
  /\ part = "numbers" =>
       /\ past'.lost = 0 /\ past'.toggles = 0
       /\ \A r \in Requests : req'[r].t <= 1
  /\ part = "queue" =>
       /\ past'.deletes = 0
       /\ OneAtATime(req')
       /\ \A t \in Tries!Tasks : DOMAIN rows'[t] \subseteq {1, 2}
  /\ UNCHANGED vars

SuiteNext ==
  /\ UNCHANGED part
  /\ \/ part \in {"answers", "forms"} /\ AnswersNext
     \/ part \in {"numbers", "queue"} /\ AttemptsNext

suiteVars == <<part, vars, attemptVars>>
SuiteSpec == SuiteInit /\ [][SuiteNext]_suiteVars

Symmetry ==
  UNION {Permutations(S) :
           S \in {Tabs, Bodies \ {Blank}, Keys, ReviewKeys, Requests}}

-----------------------------------------------------------------------------
(* The properties of the parts, each stated in its module; those of the    *)
(* answers are the ones of AnswerReview themselves.                        *)

\* A form that is sent twice counts as one version of the answer, although
\* both requests may find its key unused before they get the lock; and when
\* every credit attempt has passed and no callback is left the mentors have
\* been written to, in whatever order the results were committed.
ResultsCounted ==
  OneVersionPerKey /\ (part \in {"numbers", "queue"} => Tries!ResultsCounted)

\* A task that has a current attempt always has exactly one, whatever repairs,
\* reruns, collisions of numbers and rollbacks overlap; running a task again
\* never takes an available task away, and what the dashboard shows as
\* completed and passed stays so while training attempts come and go.
AttemptsKept ==
  [][(part \in {"numbers", "queue"}) => Tries!AttemptsStay]_suiteVars
==============================================================================
