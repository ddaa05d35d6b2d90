---------------------------- MODULE AnswerReview ----------------------------
(***************************************************************************)
(* The answer of a credit attempt whose technical part is passed and whose *)
(* task requires a manual review: the second half of the check_task view,  *)
(* save_mentor_feedback, submit_answer and review_answer of ledger.py, and *)
(* the AI review of each submission.                                       *)
(*                                                                         *)
(* A trainee's request reads the row without a lock and then takes the row *)
(* lock twice, to keep the draft and to submit; a mentor's request is one  *)
(* transaction under the lock.  client_answer and trainee_report are one   *)
(* text: an unpadded body, and whether white space surrounds it.           *)
(***************************************************************************)
EXTENDS Naturals, Sequences

CONSTANTS
  Tabs,        \* requests of the trainee that may be in flight at once
  Bodies,      \* texts without the white space around them
  Blank,       \* the body of which a required part is empty
  Keys,        \* operation ids of submission forms
  ReviewKeys,  \* operation ids of mentor forms
  Notes,       \* an author of a review together with a comment
  HasContext,  \* task.ai_review_context is filled in
  None         \* no key, no review

ASSUME BlankBody == Blank \in Bodies
ASSUME NoKey == None \notin Keys \cup ReviewKeys
ASSUME ContextFlag == HasContext \in BOOLEAN

VARIABLES
  row,      \* the TaskAttempt row
  subs,     \* SandboxAnswerSubmission by ordinal, each with its last review
  reviewed, \* SandboxAnswerReviewEvent by operation id
  ai,       \* AIReview rows in the order of their creation
  gaps,     \* the reasons of SandboxEvidenceGap rows
  form      \* the trainee's requests in flight

vars == <<row, subs, reviewed, ai, gaps, form>>

-----------------------------------------------------------------------------
(* Types.                                                                  *)

Text == [body: Bodies, padded: BOOLEAN]
Strip(text) == [text EXCEPT !.padded = FALSE]

Decision == {"not_reviewed", "approved", "needs_revision"}
Verdict == [decision: Decision, note: Notes]
NoVerdict == [decision |-> "none", note |-> None]

Row == [status: {"in_progress", "on_review", "failed", "passed"}, text: Text,
        decision: Decision, current: BOOLEAN, container: BOOLEAN]

Submission == [key: Keys, text: Text, last: Verdict \cup {NoVerdict}]

\* A review event: the ordinal of its submission (0: there is none) and the verdict.
Review == [sub: Nat, verdict: Verdict \cup {NoVerdict}]
NoReview == [sub |-> 0, verdict |-> NoVerdict]

AIReview == [text: Text, status: {"pending", "running", "completed", "error"},
             decision: Decision \cup {"none"}]

NoText == [body |-> Blank, padded |-> FALSE]
NoForm == [pc |-> "idle", key |-> None, text |-> NoText, current |-> FALSE, container |-> FALSE]

\* A request: its step, the posted form, and the fields of its copy of the row
\* that the clean-up after the submission acts upon.
Form == [pc: {"draft", "submit", "cleanup"}, key: Keys, text: Text,
         current: BOOLEAN, container: BOOLEAN] \cup {NoForm}

GapReason == {"review_without_submission", "review_version_unspecified"}

Latest == subs[Len(subs)]

-----------------------------------------------------------------------------
(* The trainee.                                                            *)

\* submit_answer and the view look for the operation id among the submissions.
Submitted(k) == \E i \in DOMAIN subs : subs[i].key = k

\* can_edit_client_answer.
CanEdit ==
  /\ row.status \notin {"on_review", "passed"}
  /\ row.current \/ row.decision = "needs_revision"

\* check_task after the technical pass, up to the first transaction: the guards
\* on the unlocked row, and the look-up of a form that was submitted before.
PostAnswer(t) ==
  /\ form[t].pc = "idle"
  /\ CanEdit
  /\ \E k \in Keys, text \in Text :
       /\ ~Submitted(k)
       /\ form' = [form EXCEPT ![t] = [pc |-> "draft", key |-> k, text |-> text,
                                       current |-> row.current,
                                       container |-> row.container]]
  /\ UNCHANGED <<row, subs, reviewed, ai, gaps>>

\* Mutant: the locked row is not looked at again.
NeverFixed == FALSE

\* Both transactions of the view test the status again under the row lock.
Fixed == row.status \in {"on_review", "passed"}

\* The first transaction keeps the text as it was posted; only a text with
\* both parts goes on to the second one.
SaveDraft(t) ==
  /\ form[t].pc = "draft"
  /\ \/ /\ Fixed
        /\ form' = [form EXCEPT ![t] = NoForm]
        /\ UNCHANGED row
     \/ /\ ~Fixed
        /\ row' = [row EXCEPT !.text = form[t].text]
        /\ form' = [form EXCEPT ![t] = IF form[t].text.body = Blank THEN NoForm
                                       ELSE [@ EXCEPT !.pc = "submit"]]
  /\ UNCHANGED <<subs, reviewed, ai, gaps>>

\* submit_answer refuses an operation id that came with another text.
KeyConflict(k, text) == \E i \in DOMAIN subs : subs[i].key = k /\ subs[i].text # text

\* Mutant of the row of a submission: every form is a new version.
AlwaysNewVersion(k, text) == Append(subs, [key |-> k, text |-> text, last |-> NoVerdict])

\* The submissions after submit_answer: a known operation id returns the old row.
WithSubmission(k, text) ==
  IF Submitted(k) THEN subs ELSE Append(subs, [key |-> k, text |-> text, last |-> NoVerdict])

\* Mutant of WithAIReview: the posted text instead of the normalised one.
AIReviewOfPost(text) ==
  IF HasContext THEN Append(ai, [text |-> text, status |-> "pending", decision |-> "none"])
                ELSE ai

\* create_ai_review, for a task with a context.
WithAIReview(text) ==
  IF HasContext
    THEN Append(ai, [text |-> Strip(text), status |-> "pending", decision |-> "none"])
    ELSE ai

\* The second transaction.  The view does not ask whether submit_answer created
\* anything.
Submit(t) ==
  /\ form[t].pc = "submit"
  /\ ~Fixed
  /\ ~KeyConflict(form[t].key, form[t].text)
  /\ subs' = WithSubmission(form[t].key, form[t].text)
  /\ ai' = WithAIReview(form[t].text)
  /\ row' = [row EXCEPT !.text = Strip(form[t].text), !.status = "on_review",
                        !.decision = "not_reviewed"]
  /\ form' = [form EXCEPT ![t].pc = "cleanup"]
  /\ UNCHANGED <<reviewed, gaps>>

\* The second transaction changes nothing: the answer is fixed, the operation id
\* belongs to another text, or the AI review cannot be prepared.
SubmitRefused(t) ==
  /\ form[t].pc = "submit"
  /\ Fixed \/ KeyConflict(form[t].key, form[t].text) \/ HasContext
  /\ form' = [form EXCEPT ![t] = NoForm]
  /\ UNCHANGED <<row, subs, reviewed, ai, gaps>>

\* cleanup_attempt_environment, by the copy the request read first: best effort,
\* and only for a current attempt.
CleanUp(t) ==
  /\ form[t].pc = "cleanup"
  /\ form' = [form EXCEPT ![t] = NoForm]
  /\ \E removed \in BOOLEAN :
       row' = [row EXCEPT !.container =
                 IF form[t].current /\ form[t].container /\ removed THEN FALSE ELSE @]
  /\ UNCHANGED <<subs, reviewed, ai, gaps>>

\* The process dies, or the broker refuses the AI review after the commit: the
\* rest of the request is not executed.
RequestDies(t) ==
  /\ form[t].pc # "idle"
  /\ form' = [form EXCEPT ![t] = NoForm]
  /\ UNCHANGED <<row, subs, reviewed, ai, gaps>>

\* rerun_task: a passed attempt stops being the current one.
Rerun ==
  /\ row.current
  /\ row.status = "passed"
  /\ row' = [row EXCEPT !.current = FALSE]
  /\ UNCHANGED <<subs, reviewed, ai, gaps, form>>

-----------------------------------------------------------------------------
(* The mentor.                                                             *)

\* review_answer refuses a version that is not the latest, and a text that was
\* changed since it was submitted.  Version 0 is a form that names none.
StaleVersion(v) == v # 0 /\ v # Len(subs)
DraftChanged == Strip(row.text) # Strip(Latest.text)

\* An operation id that came with another review is refused.
ReviewConflict(k, verdict) ==
  reviewed[k] # NoReview /\ reviewed[k] # [sub |-> Len(subs), verdict |-> verdict]

\* Mutant of DuplicateReview: a repeated form is applied once more.
NoDuplicates(k) == FALSE

\* The view looks for the operation id before it calls review_answer, and leaves
\* the row alone if the review is a repetition.
DuplicateReview(k) == reviewed[k] # NoReview

\* Mutant of DecidedRow: the decision is written as the status.
StatusIsDecision(decision) == [row EXCEPT !.decision = decision, !.status = decision]

\* The row with the fields of the decision; a comment alone leaves the status.
DecidedRow(decision) ==
  [row EXCEPT !.decision = decision,
              !.status = CASE decision = "approved" -> "passed"
                           [] decision = "needs_revision" -> "failed"
                           [] OTHER -> @]

\* Mutant of WithDecision: every AI review of the attempt gets the decision.
DecisionOnAll(decision) ==
  IF decision = "not_reviewed" THEN ai
  ELSE [i \in DOMAIN ai |-> [ai[i] EXCEPT !.decision = decision]]

\* The newest AI review of exactly this text gets a copy of the decision.
WithDecision(decision) ==
  LET same == {i \in DOMAIN ai : ai[i].text = row.text}
      newest == CHOOSE i \in same : \A j \in same : j <= i
  IN IF decision = "not_reviewed" \/ same = {} THEN ai
     ELSE [ai EXCEPT ![newest].decision = decision]

\* save_mentor_feedback of an attempt without submissions: the decision is
\* saved, and the ledger records a gap instead of a review.
ReviewWithoutSubmission ==
  /\ subs = <<>>
  /\ \E decision \in Decision :
       /\ row' = DecidedRow(decision)
       /\ ai' = WithDecision(decision)
  /\ gaps' = gaps \cup {"review_without_submission"}
  /\ UNCHANGED <<subs, reviewed, form>>

\* save_mentor_feedback of an attempt with submissions.  A refused form changes
\* nothing, a known operation id only repeats its answer, and a verdict equal to
\* the last one of the submission adds no event.
SaveMentorFeedback(v, k, verdict) ==
  /\ subs # <<>>
  /\ ~StaleVersion(v)
  /\ ~DraftChanged
  /\ ~ReviewConflict(k, verdict)
  /\ gaps' = IF v = 0 THEN gaps \cup {"review_version_unspecified"} ELSE gaps
  /\ IF reviewed[k] # NoReview \/ Latest.last = verdict
       THEN UNCHANGED <<subs, reviewed>>
       ELSE /\ subs' = [subs EXCEPT ![Len(subs)].last = verdict]
            /\ reviewed' = [reviewed EXCEPT ![k] = [sub |-> Len(subs), verdict |-> verdict]]
  /\ IF DuplicateReview(k)
       THEN UNCHANGED <<row, ai>>
       ELSE row' = DecidedRow(verdict.decision) /\ ai' = WithDecision(verdict.decision)
  /\ UNCHANGED form

-----------------------------------------------------------------------------
(* The Celery worker of the AI reviews.  A message is acknowledged when it *)
(* is delivered: a lost one leaves the review pending or running.          *)

RunAIReview(i) ==
  /\ ai[i].status = "pending"
  /\ ai' = [ai EXCEPT ![i].status = "running"]
  /\ UNCHANGED <<row, subs, reviewed, gaps, form>>

FinishAIReview(i) ==
  /\ ai[i].status = "running"
  /\ \E status \in {"completed", "error"} : ai' = [ai EXCEPT ![i].status = status]
  /\ UNCHANGED <<row, subs, reviewed, gaps, form>>

-----------------------------------------------------------------------------
\* The attempt has just got its technical pass.
Init ==
  /\ row = [status |-> "in_progress", text |-> NoText, decision |-> "not_reviewed",
            current |-> TRUE, container |-> TRUE]
  /\ subs = <<>>
  /\ reviewed = [k \in ReviewKeys |-> NoReview]
  /\ ai = <<>>
  /\ gaps = {}
  /\ form = [t \in Tabs |-> NoForm]

Trainee(t) ==
  \/ PostAnswer(t) \/ SaveDraft(t) \/ Submit(t) \/ SubmitRefused(t)
  \/ CleanUp(t) \/ RequestDies(t)

Mentor ==
  \/ ReviewWithoutSubmission
  \/ \E v \in 0..Len(subs), k \in ReviewKeys, verdict \in Verdict :
       SaveMentorFeedback(v, k, verdict)

Next ==
  \/ \E t \in Tabs : Trainee(t)
  \/ Mentor
  \/ Rerun
  \/ \E i \in DOMAIN ai : RunAIReview(i) \/ FinishAIReview(i)

Spec == Init /\ [][Next]_vars

-----------------------------------------------------------------------------
(* Invariants.                                                             *)

\* The variables hold values of their types (TaskAttempt, the ledger's answer
\* models, AIReview, the memory of the requests).
TypeOK ==
  /\ row \in Row
  /\ subs \in Seq(Submission)
  /\ reviewed \in [ReviewKeys -> Review]
  /\ ai \in Seq(AIReview)
  /\ gaps \in SUBSET GapReason
  /\ form \in [Tabs -> Form]

\* submit_answer: one form makes one version, although two requests with the form
\* may both have found its operation id unused, and the answer may have been
\* returned between them.
OneVersionPerKey ==
  \A i, j \in DOMAIN subs : subs[i].key = subs[j].key => i = j

\* What passes is what was submitted: nobody gets a draft approved in place of
\* the version the mentor judged, or changes the text once it is approved.
PassedIsSubmitted ==
  row.status = "passed" /\ subs # <<>> => Strip(row.text) = Strip(Latest.text)

\* A decision shown to the trainee is the last one the ledger has on the latest
\* version: no repeated mentor form brings a corrected decision back.
DecisionProjected ==
  row.decision # "not_reviewed" /\ subs # <<>> => Latest.last.decision = row.decision

\* create_ai_review shares the transaction of submit_answer: an AI review is of the
\* text of a submitted version, never of a draft, and no version goes without one.
AIReviewsOfVersions ==
  HasContext => {ai[i].text : i \in DOMAIN ai} = {Strip(subs[i].text) : i \in DOMAIN subs}

\* save_mentor_feedback: a decision copied to an AI review is in the ledger, as a
\* review of a version with that text.
AIDecisionInLedger ==
  \A i \in DOMAIN ai : ai[i].decision # "none" =>
    \E k \in ReviewKeys :
      /\ reviewed[k] # NoReview
      /\ reviewed[k].verdict.decision = ai[i].decision
      /\ Strip(subs[reviewed[k].sub].text) = ai[i].text

-----------------------------------------------------------------------------
(* What the documentation says of the program, and the code does not keep. *)

\* SANDBOX_EVIDENCE_LEDGER.md on submissions: a repetition of an old submission
\* after a return does not bring the projection back to the old version.  So the
\* text on review is the latest version.
OnReviewShowsLatest ==
  row.status = "on_review" => Strip(row.text) = Strip(Latest.text)

\* SANDBOX_EVIDENCE_LEDGER.md on decisions: the review, the mentor fields of the
\* row and the link to the AI review are saved together.  So the newest AI review
\* carries the decision shown in the row.
AIReviewCarriesDecision ==
  row.decision # "not_reviewed" /\ ai # <<>> => ai[Len(ai)].decision = row.decision
=============================================================================
