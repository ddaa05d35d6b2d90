------------------------- MODULE AnswerReviewProofs -------------------------
(***************************************************************************)
(* Proofs of the invariants of AnswerReview for every number of requests,  *)
(* forms and texts, and of those of TraineeAttempts for every queue.       *)
(***************************************************************************)
EXTENDS MCAnswers, FiniteSetTheorems, WellFoundedInduction, TLAPS

-----------------------------------------------------------------------------
(* Operators.                                                              *)

\* str.strip leaves a text, and stripping it again changes nothing.
LEMMA StripType ==
  ASSUME NEW text \in Text
  PROVE  /\ Strip(text) \in Text
         /\ Strip(Strip(text)) = Strip(text)
  BY DEF Text, Strip

\* The row of a decision: only the decision and the status may differ.
LEMMA DecidedRowType ==
  ASSUME row \in Row, NEW decision \in Decision
  PROVE  /\ DecidedRow(decision) \in Row
         /\ DecidedRow(decision).text = row.text
         /\ DecidedRow(decision).decision = decision
  BY DEF DecidedRow, Row, Decision

\* create_ai_review appends at most one review, of the stripped text.
LEMMA WithAIReviewType ==
  ASSUME ai \in Seq(AIReview), NEW text \in Text
  PROVE  /\ WithAIReview(text) \in Seq(AIReview)
         /\ DOMAIN ai \subseteq DOMAIN WithAIReview(text)
         /\ \A i \in DOMAIN ai : WithAIReview(text)[i] = ai[i]
         /\ \A i \in DOMAIN WithAIReview(text) \ DOMAIN ai :
              WithAIReview(text)[i].text = Strip(text) /\ WithAIReview(text)[i].decision = "none"
  <1> DEFINE new == [text |-> Strip(text), status |-> "pending", decision |-> "none"]
  <1>1. new \in AIReview  BY StripType DEF AIReview
  <1>2. new.text = Strip(text) /\ new.decision = "none"  OBVIOUS
  <1>3. WithAIReview(text) = IF HasContext THEN Append(ai, new) ELSE ai  BY DEF WithAIReview
  <1> HIDE DEF new
  <1> QED  BY <1>1, <1>2, <1>3

\* submit_answer appends at most one submission, whose key was unused.
LEMMA WithSubmissionType ==
  ASSUME subs \in Seq(Submission), NEW k \in Keys, NEW text \in Text
  PROVE  /\ WithSubmission(k, text) \in Seq(Submission)
         /\ DOMAIN subs \subseteq DOMAIN WithSubmission(k, text)
         /\ \A i \in DOMAIN subs : WithSubmission(k, text)[i] = subs[i]
         /\ \A i \in DOMAIN WithSubmission(k, text) \ DOMAIN subs :
              /\ i = Len(subs) + 1
              /\ WithSubmission(k, text)[i].key = k
              /\ WithSubmission(k, text)[i].text = text
              /\ WithSubmission(k, text)[i].last = NoVerdict
              /\ ~Submitted(k)
  <1> DEFINE new == [key |-> k, text |-> text, last |-> NoVerdict]
  <1>1. new \in Submission  BY DEF Submission
  <1>2. new.key = k /\ new.text = text /\ new.last = NoVerdict  OBVIOUS
  <1>3. WithSubmission(k, text) = IF Submitted(k) THEN subs ELSE Append(subs, new)
    BY DEF WithSubmission
  <1> HIDE DEF new
  <1> QED  BY <1>1, <1>2, <1>3

\* A non-empty set of indices has a largest one.
LEMMA LargestIndex ==
  ASSUME NEW n \in Nat, NEW S, S \subseteq 1..n, S # {}
  PROVE  \E i \in S : \A j \in S : j <= i
  <1> DEFINE T == {n - i : i \in S}
  <1>1. T \subseteq Nat /\ T # {}
    <2>1. \A i \in S : n - i \in Nat  OBVIOUS
    <2>2. PICK i \in S : TRUE  OBVIOUS
    <2>3. n - i \in T  BY <2>2
    <2> QED  BY <2>1, <2>3
  <1>2. \E x \in T : \A y \in T : ~(<<y, x>> \in OpToRel(<, Nat))
    <2> HIDE DEF T
    <2> QED  BY <1>1, NatLessThanWellFounded, WFMin
  <1>3. PICK i \in S : \A y \in T : ~(<<y, n - i>> \in OpToRel(<, Nat))  BY <1>2
  <1>4. ASSUME NEW j \in S  PROVE j <= i
    <2>1. ~(<<n - j, n - i>> \in OpToRel(<, Nat))  BY <1>3
    <2>2. n - j \in Nat /\ n - i \in Nat  OBVIOUS
    <2>3. ~(n - j < n - i)  BY <2>1, <2>2 DEF OpToRel
    <2> QED  BY <2>3
  <1> QED  BY <1>4

\* The mentor's decision changes nothing of an AI review but its decision, and
\* that only of a review of the text in the row.
LEMMA WithDecisionType ==
  ASSUME ai \in Seq(AIReview), NEW decision \in Decision
  PROVE  /\ WithDecision(decision) \in Seq(AIReview)
         /\ DOMAIN WithDecision(decision) = DOMAIN ai
         /\ \A i \in DOMAIN ai :
              /\ WithDecision(decision)[i].text = ai[i].text
              /\ \/ WithDecision(decision)[i].decision = ai[i].decision
                 \/ /\ WithDecision(decision)[i].decision = decision
                    /\ ai[i].text = row.text
  <1> DEFINE same == {i \in DOMAIN ai : ai[i].text = row.text}
             newest == CHOOSE i \in same : \A j \in same : j <= i
  <1>1. CASE decision = "not_reviewed" \/ same = {}
    <2>1. WithDecision(decision) = ai  BY <1>1 DEF WithDecision
    <2> QED  BY <2>1
  <1>2. CASE ~(decision = "not_reviewed" \/ same = {})
    <2>1. newest \in same
      <3>1. same \subseteq 1..Len(ai) /\ Len(ai) \in Nat  OBVIOUS
      <3>2. \E i \in same : \A j \in same : j <= i  BY <1>2, <3>1, LargestIndex
      <3> QED  BY <3>2
    <2>2. WithDecision(decision) = [ai EXCEPT ![newest].decision = decision]
      BY <1>2 DEF WithDecision
    <2> HIDE DEF newest
    <2>3. newest \in DOMAIN ai /\ ai[newest].text = row.text  BY <2>1
    <2>4. \A i \in DOMAIN ai : ai[i] \in AIReview  OBVIOUS
    <2>5. [ai[newest] EXCEPT !.decision = decision] \in AIReview  BY <2>3, <2>4 DEF AIReview
    <2> QED  BY <2>2, <2>3, <2>4, <2>5 DEF AIReview
  <1> QED  BY <1>1, <1>2
-----------------------------------------------------------------------------
(* Types.                                                                  *)

\* A request at rest, and one that goes on to its next step, are requests.
LEMMA FormType ==
  /\ NoText \in Text
  /\ NoForm \in Form
  /\ \A f \in Form : f.text \in Text
  /\ \A f \in Form : f.pc # "idle" =>
       /\ f.key \in Keys
       /\ \A pc \in {"submit", "cleanup"} : [f EXCEPT !.pc = pc] \in Form
  <1>1. NoText \in Text  BY BlankBody DEF NoText, Text
  <1>2. NoForm \in Form  BY DEF Form
  <1>3. ASSUME NEW f \in Form  PROVE f.text \in Text
    BY <1>1 DEF Form, NoForm
  <1>4. ASSUME NEW f \in Form, f.pc # "idle"
        PROVE  /\ f.key \in Keys
               /\ \A pc \in {"submit", "cleanup"} : [f EXCEPT !.pc = pc] \in Form
    <2>1. f # NoForm  BY <1>4 DEF NoForm
    <2> QED  BY <2>1 DEF Form
  <1> QED  BY <1>1, <1>2, <1>3, <1>4

\* The last verdict of the latest submission is replaced by the mentor's one.
LEMMA WithVerdictType ==
  ASSUME subs \in Seq(Submission), subs # <<>>, NEW verdict \in Verdict
  PROVE  LET new == [subs EXCEPT ![Len(subs)].last = verdict] IN
         /\ new \in Seq(Submission)
         /\ Len(new) = Len(subs)
         /\ \A i \in DOMAIN subs : new[i].key = subs[i].key /\ new[i].text = subs[i].text
         /\ \A i \in DOMAIN subs : new[i].last = IF i = Len(subs) THEN verdict ELSE subs[i].last
  <1>1. \A i \in DOMAIN subs : subs[i] \in Submission  OBVIOUS
  <1>2. Len(subs) \in DOMAIN subs  OBVIOUS
  <1>3. [subs[Len(subs)] EXCEPT !.last = verdict] \in Submission  BY <1>1, <1>2 DEF Submission
  <1> QED  BY <1>1, <1>2, <1>3 DEF Submission

LEMMA TypeStep == TypeOK /\ [Next]_vars => TypeOK'
  <1> SUFFICES ASSUME TypeOK, [Next]_vars  PROVE TypeOK'
    OBVIOUS
  <1> USE DEF TypeOK
  <1>1. ASSUME NEW t \in Tabs, PostAnswer(t)  PROVE TypeOK'
    BY <1>1 DEF PostAnswer, Form, Row
  <1>2. ASSUME NEW t \in Tabs, SaveDraft(t)  PROVE TypeOK'
    <2>1. form[t] \in Form /\ form[t].text \in Text  BY FormType
    <2>2. form' \in [Tabs -> Form]  BY <1>2, <2>1, FormType DEF SaveDraft
    <2>3. row' \in Row  BY <1>2, <2>1 DEF SaveDraft, Row
    <2> QED  BY <1>2, <2>2, <2>3 DEF SaveDraft
  <1>3. ASSUME NEW t \in Tabs, Submit(t)  PROVE TypeOK'
    <2>1. form[t] \in Form /\ form[t].text \in Text  BY FormType
    <2>2. form[t].key \in Keys  BY <1>3, FormType DEF Submit
    <2>3. form' \in [Tabs -> Form]  BY <1>3, <2>1, FormType DEF Submit
    <2>4. row' \in Row  BY <1>3, <2>1, StripType DEF Submit, Row, Decision
    <2>5. subs' \in Seq(Submission)  BY <1>3, <2>1, <2>2, WithSubmissionType DEF Submit
    <2>6. ai' \in Seq(AIReview)  BY <1>3, <2>1, WithAIReviewType DEF Submit
    <2> QED  BY <1>3, <2>3, <2>4, <2>5, <2>6 DEF Submit
  <1>4. ASSUME NEW t \in Tabs, SubmitRefused(t)  PROVE TypeOK'
    BY <1>4, FormType DEF SubmitRefused
  <1>5. ASSUME NEW t \in Tabs, CleanUp(t)  PROVE TypeOK'
    <2>1. row' \in Row  BY <1>5 DEF CleanUp, Row
    <2> QED  BY <1>5, <2>1, FormType DEF CleanUp
  <1>6. ASSUME NEW t \in Tabs, RequestDies(t)  PROVE TypeOK'
    BY <1>6, FormType DEF RequestDies
  <1>7. CASE Rerun
    BY <1>7 DEF Rerun, Row
  <1>8. CASE ReviewWithoutSubmission
    BY <1>8, DecidedRowType, WithDecisionType DEF ReviewWithoutSubmission, GapReason
  <1>9. ASSUME NEW v \in 0..Len(subs), NEW k \in ReviewKeys, NEW verdict \in Verdict,
               SaveMentorFeedback(v, k, verdict)
        PROVE  TypeOK'
    <2>1. verdict.decision \in Decision  BY DEF Verdict
    <2>2. row' \in Row /\ ai' \in Seq(AIReview)
      BY <1>9, <2>1, DecidedRowType, WithDecisionType DEF SaveMentorFeedback
    <2>3. subs' \in Seq(Submission)  BY <1>9, WithVerdictType DEF SaveMentorFeedback
    <2>4. reviewed' \in [ReviewKeys -> Review]
      <3>1. Len(subs) \in Nat  OBVIOUS
      <3>2. [sub |-> Len(subs), verdict |-> verdict] \in Review  BY <3>1 DEF Review
      <3> QED  BY <1>9, <3>2 DEF SaveMentorFeedback
    <2> QED  BY <1>9, <2>2, <2>3, <2>4 DEF SaveMentorFeedback, GapReason
  <1>10. ASSUME NEW i \in DOMAIN ai, RunAIReview(i)  PROVE TypeOK'
    <2>1. ai[i] \in AIReview  OBVIOUS
    <2>2. [ai[i] EXCEPT !.status = "running"] \in AIReview  BY <2>1 DEF AIReview
    <2>3. ai' \in Seq(AIReview)  BY <1>10, <2>2 DEF RunAIReview
    <2> QED  BY <1>10, <2>3 DEF RunAIReview
  <1>11. ASSUME NEW i \in DOMAIN ai, FinishAIReview(i)  PROVE TypeOK'
    <2>1. ai[i] \in AIReview  OBVIOUS
    <2>2. PICK status \in {"completed", "error"} : ai' = [ai EXCEPT ![i].status = status]
      BY <1>11 DEF FinishAIReview
    <2>3. [ai[i] EXCEPT !.status = status] \in AIReview  BY <2>1 DEF AIReview
    <2>4. ai' \in Seq(AIReview)  BY <2>2, <2>3
    <2> QED  BY <1>11, <2>4 DEF FinishAIReview
  <1>12. CASE UNCHANGED vars  BY <1>12 DEF vars
  <1> QED
    BY <1>1, <1>2, <1>3, <1>4, <1>5, <1>6, <1>7, <1>8, <1>9, <1>10, <1>11, <1>12
    DEF Next, Trainee, Mentor
\* The rows of the attempt, its ledger and the requests keep their types.
THEOREM TypesCorrect == Spec => []TypeOK
  <1>1. Init => TypeOK
    BY FormType DEF Init, TypeOK, Row, Decision, Review, NoReview, GapReason
  <1> QED  BY <1>1, TypeStep, PTL DEF Spec

-----------------------------------------------------------------------------
(* The text and the decision of the row against the latest version.        *)

AnswerInv == OneVersionPerKey /\ PassedIsSubmitted /\ DecisionProjected

\* The parts of AnswerInv read subs, the status, the text and the decision only.
LEMMA AnswerFrame ==
  ASSUME AnswerInv, subs' = subs, row'.status = row.status,
         row'.text = row.text, row'.decision = row.decision
  PROVE  AnswerInv'
  BY DEF AnswerInv, OneVersionPerKey, PassedIsSubmitted, DecisionProjected, Latest

LEMMA AnswerStep == TypeOK /\ AnswerInv /\ [Next]_vars => AnswerInv'
  <1> SUFFICES ASSUME TypeOK, AnswerInv, [Next]_vars  PROVE AnswerInv'
    OBVIOUS
  <1> USE DEF TypeOK
  <1>1. ASSUME NEW t \in Tabs, PostAnswer(t)  PROVE AnswerInv'
    BY <1>1, AnswerFrame DEF PostAnswer
  <1>2. ASSUME NEW t \in Tabs, SaveDraft(t)  PROVE AnswerInv'
    <2>1. CASE UNCHANGED row
      BY <1>2, <2>1, AnswerFrame DEF SaveDraft
    <2>2. CASE ~Fixed /\ row' = [row EXCEPT !.text = form[t].text]
      <3>1. row'.status # "passed" /\ row'.decision = row.decision /\ subs' = subs
        BY <1>2, <2>2 DEF SaveDraft, Fixed, Row
      <3> QED  BY <3>1 DEF AnswerInv, OneVersionPerKey, PassedIsSubmitted, DecisionProjected, Latest
    <2> QED  BY <1>2, <2>1, <2>2 DEF SaveDraft
  <1>3. ASSUME NEW t \in Tabs, Submit(t)  PROVE AnswerInv'
    <2>1. form[t].text \in Text /\ form[t].key \in Keys  BY <1>3, FormType DEF Submit
    <2>2. subs' = WithSubmission(form[t].key, form[t].text)  BY <1>3 DEF Submit
    <2>3. row'.status = "on_review" /\ row'.decision = "not_reviewed"  BY <1>3 DEF Submit, Row
    <2>4. OneVersionPerKey'
      <3> SUFFICES ASSUME NEW i \in DOMAIN subs', NEW j \in DOMAIN subs',
                          subs'[i].key = subs'[j].key
                   PROVE  i = j
        BY DEF OneVersionPerKey
      <3> DEFINE k == form[t].key
      <3>1. \A n \in DOMAIN subs : subs'[n] = subs[n]
        BY <2>1, <2>2, WithSubmissionType
      <3>2. \A n \in DOMAIN subs' \ DOMAIN subs :
              n = Len(subs) + 1 /\ subs'[n].key = k /\ \A m \in DOMAIN subs : subs[m].key # k
        BY <2>1, <2>2, WithSubmissionType DEF Submitted
      <3> QED  BY <3>1, <3>2 DEF AnswerInv, OneVersionPerKey
    <2> QED  BY <2>3, <2>4 DEF AnswerInv, PassedIsSubmitted, DecisionProjected
  <1>4. ASSUME NEW t \in Tabs, SubmitRefused(t)  PROVE AnswerInv'
    BY <1>4, AnswerFrame DEF SubmitRefused
  <1>5. ASSUME NEW t \in Tabs, CleanUp(t)  PROVE AnswerInv'
    <2>1. subs' = subs /\ row'.status = row.status /\ row'.text = row.text
          /\ row'.decision = row.decision
      BY <1>5 DEF CleanUp, Row
    <2> QED  BY <2>1, AnswerFrame
  <1>6. ASSUME NEW t \in Tabs, RequestDies(t)  PROVE AnswerInv'
    BY <1>6, AnswerFrame DEF RequestDies
  <1>7. CASE Rerun
    <2>1. subs' = subs /\ row'.status = row.status /\ row'.text = row.text
          /\ row'.decision = row.decision
      BY <1>7 DEF Rerun, Row
    <2> QED  BY <2>1, AnswerFrame
  <1>8. CASE ReviewWithoutSubmission
    BY <1>8 DEF ReviewWithoutSubmission, AnswerInv, OneVersionPerKey, PassedIsSubmitted,
                DecisionProjected
  <1>9. ASSUME NEW v \in 0..Len(subs), NEW k \in ReviewKeys, NEW verdict \in Verdict,
               SaveMentorFeedback(v, k, verdict)
        PROVE  AnswerInv'
    <2>1. CASE DuplicateReview(k)
      <3>1. UNCHANGED <<row, subs>>  BY <1>9, <2>1 DEF SaveMentorFeedback, DuplicateReview
      <3> QED  BY <3>1, AnswerFrame
    <2>2. CASE ~DuplicateReview(k)
      <3>1. verdict.decision \in Decision  BY DEF Verdict
      <3>2. row' = DecidedRow(verdict.decision)  BY <1>9, <2>2 DEF SaveMentorFeedback
      <3>3. row'.text = row.text /\ row'.decision = verdict.decision
        BY <3>1, <3>2, DecidedRowType
      <3>4. /\ Len(subs') = Len(subs) /\ DOMAIN subs' = DOMAIN subs /\ Len(subs) \in DOMAIN subs
            /\ \A i \in DOMAIN subs : subs'[i].key = subs[i].key /\ subs'[i].text = subs[i].text
            /\ subs'[Len(subs)].last = verdict
        <4>1. subs # <<>> /\ Len(subs) \in DOMAIN subs  BY <1>9 DEF SaveMentorFeedback
        <4>2. CASE Latest.last = verdict
          BY <1>9, <2>2, <4>1, <4>2 DEF SaveMentorFeedback, Latest
        <4>3. CASE subs' = [subs EXCEPT ![Len(subs)].last = verdict]
          BY <4>1, <4>3, WithVerdictType
        <4> QED  BY <1>9, <2>2, <4>2, <4>3 DEF SaveMentorFeedback, DuplicateReview
      <3>5. Strip(row.text) = Strip(subs[Len(subs)].text)
        BY <1>9 DEF SaveMentorFeedback, DraftChanged, Latest
      <3>6. OneVersionPerKey'  BY <3>4 DEF AnswerInv, OneVersionPerKey
      <3>7. PassedIsSubmitted'  BY <3>3, <3>4, <3>5 DEF PassedIsSubmitted, Latest
      <3>8. DecisionProjected'  BY <3>3, <3>4 DEF DecisionProjected, Latest
      <3> QED  BY <3>6, <3>7, <3>8 DEF AnswerInv
    <2> QED  BY <2>1, <2>2
  <1>10. ASSUME NEW i \in DOMAIN ai, RunAIReview(i) \/ FinishAIReview(i)  PROVE AnswerInv'
    BY <1>10, AnswerFrame DEF RunAIReview, FinishAIReview
  <1>11. CASE UNCHANGED vars  BY <1>11, AnswerFrame DEF vars
  <1> QED
    BY <1>1, <1>2, <1>3, <1>4, <1>5, <1>6, <1>7, <1>8, <1>9, <1>10, <1>11
    DEF Next, Trainee, Mentor

LEMMA AnswerInvariant == Spec => []AnswerInv
  <1>1. Init => AnswerInv
    BY DEF Init, AnswerInv, OneVersionPerKey, PassedIsSubmitted, DecisionProjected
  <1> QED  BY <1>1, AnswerStep, TypesCorrect, PTL DEF Spec

\* However often a form is posted, submit_answer makes one version of it.
THEOREM VersionsUnique == Spec => []OneVersionPerKey
  BY AnswerInvariant, PTL DEF AnswerInv

\* The text of a passed attempt is the one the mentor judged.
THEOREM PassedText == Spec => []PassedIsSubmitted
  BY AnswerInvariant, PTL DEF AnswerInv

\* The decision in the row is the last one of the latest version in the ledger.
THEOREM DecisionInRow == Spec => []DecisionProjected
  BY AnswerInvariant, PTL DEF AnswerInv
-----------------------------------------------------------------------------
(* The AI reviews against the versions and the mentor's reviews.           *)

\* Every AI review is of the text of a version, and the converse.
AIOfVersion == \A i \in DOMAIN ai : \E j \in DOMAIN subs : ai[i].text = Strip(subs[j].text)
VersionHasAI ==
  HasContext => \A j \in DOMAIN subs : \E i \in DOMAIN ai : ai[i].text = Strip(subs[j].text)

\* An event is about a version, and the last verdict of a version is an event.
EventOfVersion == \A k \in ReviewKeys : reviewed[k] # NoReview => reviewed[k].sub \in DOMAIN subs
LastIsEvent ==
  \A i \in DOMAIN subs : subs[i].last # NoVerdict =>
    \E k \in ReviewKeys : reviewed[k] = [sub |-> i, verdict |-> subs[i].last]

AIInv == AIOfVersion /\ VersionHasAI /\ EventOfVersion /\ LastIsEvent /\ AIDecisionInLedger

\* AIInv reads neither the row nor the requests, nor the status of an AI review.
LEMMA AIFrame ==
  ASSUME AIInv, UNCHANGED <<subs, reviewed>>, DOMAIN ai' = DOMAIN ai,
         \A i \in DOMAIN ai : ai'[i].text = ai[i].text /\ ai'[i].decision = ai[i].decision
  PROVE  AIInv'
  BY DEF AIInv, AIOfVersion, VersionHasAI, EventOfVersion, LastIsEvent, AIDecisionInLedger

\* A submission: the new AI review is of the version the form made, now or before.
LEMMA AISubmit ==
  ASSUME TypeOK, AIInv, NEW t \in Tabs, Submit(t)
  PROVE  AIInv'
  <1> DEFINE k == form[t].key
             text == form[t].text
  <1> USE DEF TypeOK
  <1>1. text \in Text /\ k \in Keys  BY FormType DEF Submit
  <1>2. /\ DOMAIN subs \subseteq DOMAIN subs'
        /\ \A i \in DOMAIN subs : subs'[i] = subs[i]
        /\ \A i \in DOMAIN subs' \ DOMAIN subs : subs'[i].text = text /\ subs'[i].last = NoVerdict
    BY <1>1, WithSubmissionType DEF Submit
  <1>3. /\ DOMAIN ai \subseteq DOMAIN ai'
        /\ \A i \in DOMAIN ai : ai'[i] = ai[i]
        /\ \A i \in DOMAIN ai' \ DOMAIN ai : ai'[i].text = Strip(text) /\ ai'[i].decision = "none"
    BY <1>1, WithAIReviewType DEF Submit
  <1>4. reviewed' = reviewed  BY DEF Submit
  <1>5. \E j \in DOMAIN subs' : subs'[j].text = text
    <2>1. CASE Submitted(k)
      <3>1. PICK j \in DOMAIN subs : subs[j].key = k  BY <2>1 DEF Submitted
      <3>2. subs[j].text = text  BY <3>1 DEF Submit, KeyConflict
      <3> QED  BY <1>2, <3>2
    <2>2. CASE ~Submitted(k)
      <3>1. subs' = Append(subs, [key |-> k, text |-> text, last |-> NoVerdict])
        BY <2>2 DEF Submit, WithSubmission
      <3>2. Len(subs) + 1 \in DOMAIN subs' /\ Len(subs) + 1 \notin DOMAIN subs  BY <3>1
      <3> QED  BY <1>2, <3>2
    <2> QED  BY <2>1, <2>2
  <1>6. HasContext => \E i \in DOMAIN ai' : ai'[i].text = Strip(text)
    <2>1. SUFFICES ASSUME HasContext  PROVE \E i \in DOMAIN ai' : ai'[i].text = Strip(text)
      OBVIOUS
    <2>2. ai' = Append(ai, [text |-> Strip(text), status |-> "pending", decision |-> "none"])
      BY <2>1 DEF Submit, WithAIReview
    <2>3. Len(ai) + 1 \in DOMAIN ai' /\ Len(ai) + 1 \notin DOMAIN ai  BY <2>2
    <2> QED  BY <1>3, <2>3
  <1> HIDE DEF k, text
  <1>7. AIOfVersion'
    <2> SUFFICES ASSUME NEW i \in DOMAIN ai'
                 PROVE  \E j \in DOMAIN subs' : ai'[i].text = Strip(subs'[j].text)
      BY DEF AIOfVersion
    <2>1. CASE i \in DOMAIN ai
      <3>1. PICK j \in DOMAIN subs : ai[i].text = Strip(subs[j].text)
        BY <2>1 DEF AIInv, AIOfVersion
      <3> QED  BY <1>2, <1>3, <2>1, <3>1
    <2>2. CASE i \notin DOMAIN ai
      BY <1>3, <1>5, <2>2
    <2> QED  BY <2>1, <2>2
  <1>8. VersionHasAI'  BY <1>2, <1>3, <1>6 DEF AIInv, VersionHasAI
  <1>9. EventOfVersion'  BY <1>2, <1>4 DEF AIInv, EventOfVersion
  <1>10. LastIsEvent'  BY <1>2, <1>4 DEF AIInv, LastIsEvent
  <1>11. AIDecisionInLedger'
    BY <1>2, <1>3, <1>4 DEF AIInv, AIDecisionInLedger, EventOfVersion
  <1> QED  BY <1>7, <1>8, <1>9, <1>10, <1>11 DEF AIInv

\* A review: the decision goes to AI reviews of the text that the event is about.
LEMMA AIMentor ==
  ASSUME TypeOK, AIInv, NEW v \in 0..Len(subs), NEW k \in ReviewKeys, NEW verdict \in Verdict,
         SaveMentorFeedback(v, k, verdict)
  PROVE  AIInv'
  <1> USE DEF TypeOK
  <1>1. subs # <<>> /\ Len(subs) \in DOMAIN subs /\ Len(subs) # 0  BY DEF SaveMentorFeedback
  <1>2. CASE DuplicateReview(k)
    BY <1>2, AIFrame DEF SaveMentorFeedback, DuplicateReview
  <1>3. CASE ~DuplicateReview(k)
    <2> DEFINE event == [sub |-> Len(subs), verdict |-> verdict]
    <2>1. reviewed[k] = NoReview  BY <1>3 DEF DuplicateReview
    <2>2. event # NoReview /\ verdict # NoVerdict
      BY <1>1 DEF NoReview, Verdict, NoVerdict, Decision
    <2>3. /\ DOMAIN subs' = DOMAIN subs
          /\ \A i \in DOMAIN subs : subs'[i].text = subs[i].text
          /\ \A i \in DOMAIN subs : subs'[i].last = IF i = Len(subs) THEN verdict ELSE subs[i].last
      <3>1. CASE Latest.last = verdict
        BY <3>1 DEF SaveMentorFeedback, Latest
      <3>2. CASE Latest.last # verdict
        BY <1>1, <2>1, <3>2, WithVerdictType DEF SaveMentorFeedback
      <3> QED  BY <3>1, <3>2
    <2>4. /\ \A m \in ReviewKeys : reviewed[m] # NoReview => reviewed'[m] = reviewed[m]
          /\ \A m \in ReviewKeys : reviewed'[m] = reviewed[m] \/ reviewed'[m] = event
          /\ \E m \in ReviewKeys : reviewed'[m] = event
      <3>1. CASE Latest.last = verdict
        <4>1. reviewed' = reviewed  BY <3>1 DEF SaveMentorFeedback
        <4>2. \E m \in ReviewKeys : reviewed[m] = event
          BY <1>1, <2>2, <3>1 DEF AIInv, LastIsEvent, Latest
        <4> QED  BY <4>1, <4>2
      <3>2. CASE Latest.last # verdict
        <4>1. reviewed' = [reviewed EXCEPT ![k] = event]  BY <2>1, <3>2 DEF SaveMentorFeedback
        <4> HIDE DEF event
        <4> QED  BY <2>1, <4>1
      <3> QED  BY <3>1, <3>2
    <2>5. event.sub = Len(subs) /\ event.verdict = verdict  OBVIOUS
    <2>6. verdict.decision \in Decision  BY DEF Verdict
    <2>7. /\ DOMAIN ai' = DOMAIN ai
          /\ \A i \in DOMAIN ai :
               /\ ai'[i].text = ai[i].text
               /\ \/ ai'[i].decision = ai[i].decision
                  \/ ai'[i].decision = verdict.decision /\ ai[i].text = row.text
      BY <1>3, <2>6, WithDecisionType DEF SaveMentorFeedback
    <2>8. \A i \in DOMAIN ai : ai[i].text = row.text => ai[i].text = Strip(subs[Len(subs)].text)
      <3>1. Strip(row.text) = Strip(subs[Len(subs)].text)
        BY DEF SaveMentorFeedback, DraftChanged, Latest
      <3>2. \A j \in DOMAIN subs : subs[j] \in Submission  OBVIOUS
      <3>3. ASSUME NEW i \in DOMAIN ai  PROVE Strip(ai[i].text) = ai[i].text
        <4>1. PICK j \in DOMAIN subs : ai[i].text = Strip(subs[j].text)
          BY DEF AIInv, AIOfVersion
        <4>2. subs[j].text \in Text  BY <3>2 DEF Submission
        <4> QED  BY <4>1, <4>2, StripType
      <3> QED  BY <3>1, <3>3
    <2> HIDE DEF event
    <2>9. AIOfVersion'  BY <2>3, <2>7 DEF AIInv, AIOfVersion
    <2>10. VersionHasAI'  BY <2>3, <2>7 DEF AIInv, VersionHasAI
    <2>11. EventOfVersion'  BY <1>1, <2>3, <2>4, <2>5 DEF AIInv, EventOfVersion
    <2>12. LastIsEvent'
      <3> SUFFICES ASSUME NEW i \in DOMAIN subs, subs'[i].last # NoVerdict
                   PROVE  \E m \in ReviewKeys : reviewed'[m] = [sub |-> i, verdict |-> subs'[i].last]
        BY <2>3 DEF LastIsEvent
      <3>1. CASE i = Len(subs)  BY <2>3, <2>4, <3>1 DEF event
      <3>2. CASE i # Len(subs)
        <4>1. subs'[i].last = subs[i].last  BY <2>3, <3>2
        <4>2. PICK m \in ReviewKeys : reviewed[m] = [sub |-> i, verdict |-> subs[i].last]
          BY <4>1 DEF AIInv, LastIsEvent
        <4>3. reviewed[m] # NoReview  BY <4>2 DEF NoReview
        <4> QED  BY <2>4, <4>1, <4>2, <4>3
      <3> QED  BY <3>1, <3>2
    <2>13. AIDecisionInLedger'
      <3> SUFFICES ASSUME NEW i \in DOMAIN ai, ai'[i].decision # "none"
                   PROVE  \E m \in ReviewKeys :
                            /\ reviewed'[m] # NoReview
                            /\ reviewed'[m].verdict.decision = ai'[i].decision
                            /\ Strip(subs'[reviewed'[m].sub].text) = ai'[i].text
        BY <2>7 DEF AIDecisionInLedger
      <3>1. CASE ai'[i].decision = ai[i].decision
        <4>1. PICK m \in ReviewKeys : /\ reviewed[m] # NoReview
                                      /\ reviewed[m].verdict.decision = ai[i].decision
                                      /\ Strip(subs[reviewed[m].sub].text) = ai[i].text
          BY <3>1 DEF AIInv, AIDecisionInLedger
        <4>2. reviewed[m].sub \in DOMAIN subs  BY <4>1 DEF AIInv, EventOfVersion
        <4> QED  BY <2>3, <2>4, <2>7, <3>1, <4>1, <4>2
      <3>2. CASE ai'[i].decision = verdict.decision /\ ai[i].text = row.text
        BY <1>1, <2>2, <2>3, <2>4, <2>5, <2>7, <2>8, <3>2
      <3> QED  BY <2>7, <3>1, <3>2
    <2> QED  BY <2>9, <2>10, <2>11, <2>12, <2>13 DEF AIInv
  <1> QED  BY <1>2, <1>3

LEMMA AIStep == TypeOK /\ AIInv /\ [Next]_vars => AIInv'
  <1> SUFFICES ASSUME TypeOK, AIInv, [Next]_vars  PROVE AIInv'
    OBVIOUS
  <1>1. ASSUME NEW t \in Tabs, PostAnswer(t) \/ SaveDraft(t) \/ SubmitRefused(t) \/ CleanUp(t)
                               \/ RequestDies(t)
        PROVE  AIInv'
    BY <1>1, AIFrame DEF PostAnswer, SaveDraft, SubmitRefused, CleanUp, RequestDies
  <1>2. ASSUME NEW t \in Tabs, Submit(t)  PROVE AIInv'  BY <1>2, AISubmit
  <1>3. CASE Rerun  BY <1>3, AIFrame DEF Rerun
  <1>4. CASE ReviewWithoutSubmission
    <2>1. DOMAIN ai = {}
      <3>1. DOMAIN subs = {}  BY <1>4 DEF ReviewWithoutSubmission
      <3> QED  BY <3>1 DEF AIInv, AIOfVersion
    <2>2. UNCHANGED <<subs, reviewed>> /\ DOMAIN ai' = DOMAIN ai
      BY <1>4, WithDecisionType DEF ReviewWithoutSubmission, TypeOK
    <2> QED  BY <2>1, <2>2, AIFrame
  <1>5. ASSUME NEW v \in 0..Len(subs), NEW k \in ReviewKeys, NEW verdict \in Verdict,
               SaveMentorFeedback(v, k, verdict)
        PROVE  AIInv'
    BY <1>5, AIMentor
  <1>6. ASSUME NEW i \in DOMAIN ai, RunAIReview(i) \/ FinishAIReview(i)  PROVE AIInv'
    <2>1. PICK status : ai' = [ai EXCEPT ![i].status = status]
      BY <1>6 DEF RunAIReview, FinishAIReview
    <2>2. \A j \in DOMAIN ai : ai[j] \in AIReview  BY DEF TypeOK
    <2>3. /\ DOMAIN ai' = DOMAIN ai
          /\ \A j \in DOMAIN ai : ai'[j].text = ai[j].text /\ ai'[j].decision = ai[j].decision
      BY <2>1, <2>2 DEF AIReview
    <2>4. UNCHANGED <<subs, reviewed>>  BY <1>6 DEF RunAIReview, FinishAIReview
    <2> QED  BY <2>3, <2>4, AIFrame
  <1>7. CASE UNCHANGED vars  BY <1>7, AIFrame DEF vars
  <1> QED
    BY <1>1, <1>2, <1>3, <1>4, <1>5, <1>6, <1>7 DEF Next, Trainee, Mentor

LEMMA AIInvariant == Spec => []AIInv
  <1>1. Init => AIInv
    BY DEF Init, AIInv, AIOfVersion, VersionHasAI, EventOfVersion, LastIsEvent, AIDecisionInLedger
  <1> QED  BY <1>1, AIStep, TypesCorrect, PTL DEF Spec

\* AI reviews and versions have the same texts.
THEOREM AIReviewsMatch == Spec => []AIReviewsOfVersions
  <1>1. AIInv => AIReviewsOfVersions
    BY DEF AIInv, AIOfVersion, VersionHasAI, AIReviewsOfVersions
  <1> QED  BY <1>1, AIInvariant, PTL

\* Every decision an AI review carries is a review of its text in the ledger.
THEOREM AIDecisionsRecorded == Spec => []AIDecisionInLedger
  <1>1. AIInv => AIDecisionInLedger  BY DEF AIInv
  <1> QED  BY <1>1, AIInvariant, PTL

-----------------------------------------------------------------------------
(* The attempts of a trainee: any requests, queue and bounds.              *)

\* The attempts of one task: at most one of them is the current one.
Tidy(a) ==
  /\ DOMAIN a \subseteq Tries!Numbers
  /\ \A n \in DOMAIN a : a[n] \in Tries!TaskAttempt
  /\ \A m, n \in DOMAIN a : a[m].current /\ a[n].current => m = n

\* What b keeps of the attempts a: results, and a current attempt unless it
\* is deleted.
Keeps(a, b) ==
  /\ \A n \in DOMAIN a \cap DOMAIN b : Tries!Passed(a[n]) => Tries!Passed(b[n])
  /\ \A n \in DOMAIN a \cap DOMAIN b :
       a[n].current => \E m \in DOMAIN b : b[m].current

RowsHold == DOMAIN rows = Tries!Tasks /\ \A t \in Tries!Tasks : Tidy(rows[t])

Callback == [t : Tries!Tasks, n : Tries!Numbers, left : SUBSET (0..Queue)]

RequestsHold ==
  \A r \in Requests : req[r].pc # "idle" =>
    req[r].t \in Tries!Tasks /\ (req[r].pc = "replace" => req[r].n >= 1)

CallbacksHold ==
  /\ callbacks \subseteq Callback
  /\ \A c \in callbacks : c.left = {0} \/ c.left \subseteq Tries!Tasks

CreditsPassed == \A t \in Tries!Tasks : 1 \in DOMAIN rows[t] /\ Tries!Passed(rows[t][1])

\* When every credit attempt has passed and nothing was lost or deleted, a
\* callback of a credit attempt is under way until the mentors are told.
Announced ==
  CreditsPassed /\ past.lost = 0 /\ past.deletes = 0 /\ told = "nothing"
    => \E c \in callbacks : c.n = 1

PastHolds == past \in [deletes : Nat, lost : Nat, toggles : Nat]

NumbersInv ==
  /\ Tries!TypeOK /\ RowsHold /\ RequestsHold /\ CallbacksHold
  /\ active # {} /\ PastHolds /\ Announced

-----------------------------------------------------------------------------

\* A set of numbers below a bound has a largest member.
LEMMA LargestExists ==
  ASSUME NEW k \in Nat, NEW S \in SUBSET (0..k), S # {}
  PROVE  Tries!Max(S) \in S /\ \A y \in S : Tries!Max(S) >= y
  <1> DEFINE Bounds == {u \in Nat : \A x \in S : x <= u}
  <1>1. k \in Bounds  OBVIOUS
  <1>2. Bounds \subseteq Nat /\ Bounds # {}  BY <1>1
  <1> HIDE DEF Bounds
  <1>3. PICK u \in Bounds : \A y \in Bounds : ~ (<<y, u>> \in OpToRel(<, Nat))
    BY <1>2, NatLessThanWellFounded, WFMin
  <1>4. u \in Nat /\ \A x \in S : x <= u  BY DEF Bounds
  <1>5. u \in S
    <2> SUFFICES ASSUME u \notin S PROVE FALSE  OBVIOUS
    <2>1. \A x \in S : x \in Nat /\ x < u  BY <1>4
    <2>a. PICK x \in S : TRUE  OBVIOUS
    <2>b. x \in Nat /\ x < u  BY <2>1, <2>a
    <2>2. u - 1 \in Nat /\ \A y \in S : y <= u - 1  BY <2>1, <2>b, <1>4
    <2>3. u - 1 \in Bounds  BY <2>2 DEF Bounds
    <2>4. <<u - 1, u>> \in OpToRel(<, Nat)  BY <2>2, <1>4 DEF OpToRel
    <2> QED  BY <2>3, <2>4, <1>3
  <1> QED  BY <1>4, <1>5 DEF Tries!Max

\* A set of numbers has a smallest member.
LEMMA SmallestExists ==
  ASSUME NEW S \in SUBSET Nat, S # {}
  PROVE  Tries!Min(S) \in S
  <1>1. PICK u \in S : \A y \in S : ~ (<<y, u>> \in OpToRel(<, Nat))
    BY NatLessThanWellFounded, WFMin
  <1>2. ASSUME NEW y \in S PROVE u <= y
    <2>1. u \in Nat /\ y \in Nat  OBVIOUS
    <2>2. y < u => <<y, u>> \in OpToRel(<, Nat)  BY <2>1 DEF OpToRel
    <2>3. ~ (<<y, u>> \in OpToRel(<, Nat))  BY <1>1
    <2>4. ~ (y < u)  BY <2>2, <2>3
    <2> QED  BY <2>1, <2>4
  <1> QED  BY <1>2 DEF Tries!Min

\* The newest of the attempts that a statement sees, and the next number.
LEMMA NextAfter ==
  ASSUME Tries!Limits, NEW S \in SUBSET Tries!Numbers
  PROVE  /\ S # {} => Tries!Max(S) \in S
         /\ Tries!After(S) \in 1..(MaxNumber + 1)
  <1>1. MaxNumber \in Nat /\ S \subseteq 0..MaxNumber  BY DEF Tries!Limits, Tries!Numbers
  <1>2. S # {} => Tries!Max(S) \in S  BY <1>1, LargestExists
  <1>3. PICK m : m = Tries!Max(S)  OBVIOUS
  <1>4. Tries!After(S) = IF S = {} THEN 1 ELSE m + 1  BY <1>3 DEF Tries!After
  <1> HIDE DEF Tries!Numbers
  <1>5. S # {} => m \in 1..MaxNumber  BY <1>2, <1>3 DEF Tries!Numbers
  <1>6. S = {} => Tries!After(S) \in 1..(MaxNumber + 1)  BY <1>1, <1>4
  <1>7. S # {} => Tries!After(S) \in 1..(MaxNumber + 1)  BY <1>1, <1>4, <1>5
  <1> QED  BY <1>2, <1>6, <1>7

\* A new attempt of a task that has no current one.
LEMMA NewKeeps ==
  ASSUME NEW a, Tidy(a), NEW n \in Tries!Numbers, n \notin DOMAIN a,
         \A m \in DOMAIN a : ~a[m].current
  PROVE  /\ Tidy(Tries!WithNew(a, n)) /\ Keeps(a, Tries!WithNew(a, n))
         /\ \A m \in DOMAIN Tries!WithNew(a, n) :
              Tries!Passed(Tries!WithNew(a, n)[m]) => m \in DOMAIN a /\ Tries!Passed(a[m])
  <1>1. Tries!New \in Tries!TaskAttempt /\ Tries!New.current /\ ~Tries!Passed(Tries!New)
    BY DEF Tries!New, Tries!TaskAttempt, Tries!Phases, Tries!Passed
  <1>2. PICK b : b = Tries!WithNew(a, n)  OBVIOUS
  <1>3. DOMAIN b = DOMAIN a \cup {n} /\ b[n] = Tries!New /\ \A m \in DOMAIN a : b[m] = a[m]
    BY <1>2 DEF Tries!WithNew
  <1> QED  BY <1>1, <1>2, <1>3 DEF Tidy, Keeps

\* The attempts after a rerun; those of a number that is taken stay.
LEMMA ReplacedKeeps ==
  ASSUME NEW t \in Tries!Tasks, RowsHold, NEW n \in Tries!Numbers
  PROVE  /\ Tidy(Tries!Replaced(t, n)) /\ Keeps(rows[t], Tries!Replaced(t, n))
         /\ \A m \in DOMAIN Tries!Replaced(t, n) :
              Tries!Passed(Tries!Replaced(t, n)[m]) => m \in DOMAIN rows[t] /\ Tries!Passed(rows[t][m])
  <1>0. Tidy(rows[t])  BY DEF RowsHold
  <1>1. CASE n \in DOMAIN rows[t]
    BY <1>0, <1>1 DEF Tries!Replaced, Keeps
  <1>2. CASE n \notin DOMAIN rows[t]
    <2>1. PICK u : u = Tries!Unset(t)  OBVIOUS
    <2>2. DOMAIN u = DOMAIN rows[t]  BY <2>1 DEF Tries!Unset
    <2>3. ASSUME NEW m \in DOMAIN u
          PROVE u[m] \in Tries!TaskAttempt /\ ~u[m].current /\ u[m].phase = rows[t][m].phase
      <3>1. u[m] = [rows[t][m] EXCEPT !.current = FALSE]  BY <2>1, <2>2 DEF Tries!Unset
      <3> QED  BY <3>1, <1>0, <2>2 DEF Tidy, Tries!TaskAttempt
    <2>4. Tidy(u)  BY <2>2, <2>3, <1>0 DEF Tidy
    <2>5. PICK b : b = Tries!WithNew(u, n)  OBVIOUS
    <2>6. Tidy(b) /\ \A m \in DOMAIN b : Tries!Passed(b[m]) => m \in DOMAIN u /\ Tries!Passed(u[m])
      BY <2>2, <2>3, <2>4, <2>5, <1>2, NewKeeps
    <2>7. DOMAIN b = DOMAIN u \cup {n} /\ b[n] = Tries!New /\ \A m \in DOMAIN u : b[m] = u[m]
      BY <2>2, <2>5, <1>2 DEF Tries!WithNew
    <2>8. Tries!Replaced(t, n) = b  BY <1>2, <2>1, <2>5 DEF Tries!Replaced
    <2>9. Tries!New.current  BY DEF Tries!New
    <2> QED  BY <2>2, <2>3, <2>6, <2>7, <2>8, <2>9 DEF Keeps, Tries!Passed
  <1> QED  BY <1>1, <1>2

-----------------------------------------------------------------------------
(* What a step does to the rows.                                           *)

RowsMove == RowsHold' /\ \A t \in Tries!Tasks : Keeps(rows[t], rows'[t])

\* No result appears but where a callback is registered.
NoResult ==
  \A t \in Tries!Tasks : \A n \in DOMAIN rows'[t] :
    Tries!Passed(rows'[t][n]) => n \in DOMAIN rows[t] /\ Tries!Passed(rows[t][n])

\* One task's attempts change.
LEMMA TaskChanges ==
  ASSUME RowsHold, NEW t \in Tries!Tasks, NEW b, rows' = [rows EXCEPT ![t] = b],
         Tidy(b), Keeps(rows[t], b)
  PROVE  RowsMove
  BY DEF RowsHold, RowsMove, Keeps

LEMMA TaskResults ==
  ASSUME RowsHold, NEW t \in Tries!Tasks, NEW b, rows' = [rows EXCEPT ![t] = b],
         \A n \in DOMAIN b : Tries!Passed(b[n]) => n \in DOMAIN rows[t] /\ Tries!Passed(rows[t][n])
  PROVE  NoResult
  BY DEF RowsHold, NoResult

LEMMA SameRows ==
  ASSUME RowsHold, rows' = rows
  PROVE  RowsMove /\ NoResult
  BY DEF RowsHold, RowsMove, Keeps, NoResult

LEMMA RepairMoves ==
  ASSUME NumbersInv, NEW r \in Requests, Tries!Repair(r)
  PROVE  RowsMove /\ NoResult
  <1> DEFINE t == req[r].t
             n == req[r].n
  <1>0. RowsHold /\ t \in Tries!Tasks  BY DEF NumbersInv, RequestsHold, Tries!Repair
  <1> USE DEF Tries!Repair
  <1>1. CASE ~(n \in DOMAIN rows[t] /\ Tries!Current(t) \subseteq {n})
    BY <1>0, <1>1, SameRows
  <1>2. CASE n \in DOMAIN rows[t] /\ Tries!Current(t) \subseteq {n}
    <2>0. DOMAIN rows = Tries!Tasks /\ Tidy(rows[t])  BY <1>0 DEF RowsHold
    <2>1. PICK b : b = [rows[t] EXCEPT ![n].current = TRUE]  OBVIOUS
    <2>2. rows' = [rows EXCEPT ![t] = b]  BY <1>2, <1>0, <2>0, <2>1
    <2>3. /\ DOMAIN b = DOMAIN rows[t] /\ b[n] = [rows[t][n] EXCEPT !.current = TRUE]
          /\ \A m \in DOMAIN rows[t] : m # n => b[m] = rows[t][m]
      BY <2>1, <1>2
    <2>4. b[n] \in Tries!TaskAttempt /\ b[n].current /\ b[n].phase = rows[t][n].phase
      BY <2>3, <1>2, <2>0 DEF Tidy, Tries!TaskAttempt
    <2>5. \A m \in DOMAIN rows[t] : rows[t][m].current => m = n
      BY <1>2 DEF Tries!Current
    <2> HIDE DEF t, n
    <2>6. Tidy(b) /\ Keeps(rows[t], b)
      BY <2>0, <2>3, <2>4, <2>5, <1>2 DEF Tidy, Keeps, Tries!Passed
    <2>7. \A m \in DOMAIN b : Tries!Passed(b[m]) => m \in DOMAIN rows[t] /\ Tries!Passed(rows[t][m])
      BY <2>3, <2>4, <1>2 DEF Tries!Passed
    <2> QED  BY <1>0, <2>2, <2>6, <2>7, TaskChanges, TaskResults
  <1> QED  BY <1>1, <1>2

LEMMA CreateMoves ==
  ASSUME NumbersInv, NEW r \in Requests, Tries!Create(r)
  PROVE  RowsMove /\ NoResult
  <1>0. PICK t : t = req[r].t  OBVIOUS
  <1>1. RowsHold /\ t \in Tries!Tasks /\ Tries!Limits
    BY <1>0 DEF NumbersInv, RequestsHold, Tries!Create, Tries!TypeOK
  <1>2. CASE 1 \in DOMAIN rows[t] \/ Tries!Current(t) # {}
    BY <1>0, <1>1, <1>2, SameRows DEF Tries!Create
  <1>3. CASE ~(1 \in DOMAIN rows[t] \/ Tries!Current(t) # {})
    <2>1. PICK b : b = Tries!WithNew(rows[t], 1)  OBVIOUS
    <2>2. rows' = [rows EXCEPT ![t] = b]  BY <1>0, <1>1, <1>3, <2>1 DEF Tries!Create, RowsHold
    <2>3. Tidy(rows[t]) /\ 1 \in Tries!Numbers /\ \A m \in DOMAIN rows[t] : ~rows[t][m].current
      BY <1>1, <1>3 DEF RowsHold, Tries!Limits, Tries!Numbers, Tries!Current
    <2>4. /\ Tidy(b) /\ Keeps(rows[t], b)
          /\ \A m \in DOMAIN b : Tries!Passed(b[m]) => m \in DOMAIN rows[t] /\ Tries!Passed(rows[t][m])
      BY <1>3, <2>1, <2>3, NewKeeps
    <2> QED  BY <1>1, <2>2, <2>4, TaskChanges, TaskResults
  <1> QED  BY <1>2, <1>3

LEMMA ReplaceMoves ==
  ASSUME NumbersInv, NEW r \in Requests, Tries!Replace(r)
  PROVE  RowsMove /\ NoResult
  <1>0. PICK t, n : t = req[r].t /\ n = req[r].n  OBVIOUS
  <1>1. RowsHold /\ t \in Tries!Tasks /\ Tries!Limits
    BY <1>0 DEF NumbersInv, RequestsHold, Tries!Replace, Tries!TypeOK
  <1>2. n \in Tries!Numbers
    BY <1>0 DEF NumbersInv, RequestsHold, Tries!Replace, Tries!TypeOK, Tries!Numbers, Tries!Limits
  <1>3. PICK b : b = Tries!Replaced(t, n)  OBVIOUS
  <1>4. rows' = [rows EXCEPT ![t] = b]  BY <1>0, <1>3 DEF Tries!Replace
  <1> QED  BY <1>1, <1>2, <1>3, <1>4, ReplacedKeeps, TaskChanges, TaskResults

\* The phase of an attempt that has not passed changes.
LEMMA PhaseMoves ==
  ASSUME RowsHold, NEW t \in Tries!Tasks, NEW n \in DOMAIN rows[t], NEW phase \in Tries!Phases,
         ~Tries!Passed(rows[t][n]), Tries!SetPhase(t, n, phase)
  PROVE  /\ RowsMove
         /\ phase # "passed" => NoResult
         /\ n # 1 \/ phase # "passed" =>
              \A s \in Tries!Tasks : 1 \in DOMAIN rows'[s] /\ Tries!Passed(rows'[s][1])
                => 1 \in DOMAIN rows[s] /\ Tries!Passed(rows[s][1])
  <1>0. DOMAIN rows = Tries!Tasks /\ Tidy(rows[t])  BY DEF RowsHold
  <1>1. PICK b : b = [rows[t] EXCEPT ![n].phase = phase]  OBVIOUS
  <1>2. rows' = [rows EXCEPT ![t] = b]  BY <1>0, <1>1 DEF Tries!SetPhase
  <1>3. /\ DOMAIN b = DOMAIN rows[t] /\ b[n] = [rows[t][n] EXCEPT !.phase = phase]
        /\ \A m \in DOMAIN rows[t] : m # n => b[m] = rows[t][m]
    BY <1>1
  <1>4. b[n] \in Tries!TaskAttempt /\ b[n].current = rows[t][n].current /\ b[n].phase = phase
    BY <1>3, <1>0 DEF Tidy, Tries!TaskAttempt
  <1>5. Tidy(b) /\ Keeps(rows[t], b)
    BY <1>0, <1>3, <1>4 DEF Tidy, Keeps, Tries!Passed
  <1>6. RowsMove  BY <1>2, <1>5, TaskChanges
  <1>7. phase # "passed" => \A m \in DOMAIN b :
           Tries!Passed(b[m]) => m \in DOMAIN rows[t] /\ Tries!Passed(rows[t][m])
    BY <1>3, <1>4 DEF Tries!Passed
  <1>8. phase # "passed" => NoResult  BY <1>2, <1>7, TaskResults
  <1>9. n # 1 \/ phase # "passed" =>
          (1 \in DOMAIN b /\ Tries!Passed(b[1]) => 1 \in DOMAIN rows[t] /\ Tries!Passed(rows[t][1]))
    BY <1>3, <1>4 DEF Tries!Passed
  <1>10. \A s \in Tries!Tasks : rows'[s] = IF s = t THEN b ELSE rows[s]  BY <1>0, <1>2
  <1> QED  BY <1>6, <1>8, <1>9, <1>10

LEMMA DeleteMoves ==
  ASSUME NumbersInv, NEW t \in Tries!Tasks, NEW n \in Tries!Numbers, Tries!Delete(t, n)
  PROVE  RowsMove /\ NoResult
  <1>0. RowsHold  BY DEF NumbersInv
  <1>1. PICK b : b = [m \in DOMAIN rows[t] \ {n} |-> rows[t][m]]  OBVIOUS
  <1>2. rows' = [rows EXCEPT ![t] = b]  BY <1>0, <1>1 DEF Tries!Delete, RowsHold
  <1>3. Tidy(b) /\ Keeps(rows[t], b)  BY <1>0, <1>1 DEF RowsHold, Tidy, Keeps
  <1>4. \A m \in DOMAIN b : Tries!Passed(b[m]) => m \in DOMAIN rows[t] /\ Tries!Passed(rows[t][m])
    BY <1>1
  <1> QED  BY <1>0, <1>2, <1>3, <1>4, TaskChanges, TaskResults

-----------------------------------------------------------------------------
(* The parts of the invariant that a step may disturb.                     *)

\* The numbers of requests: what a request is sent to is typed.
LEMMA RequestMoves ==
  ASSUME Tries!TypeOK, RequestsHold, NEW r \in Requests,
         NEW pc \in {"latest", "repair", "create", "number", "wait", "replace"},
         NEW t \in Tries!Tasks, NEW n \in 0..(MaxNumber + 1),
         pc = "replace" => n >= 1,
         req' = [req EXCEPT ![r] = Tries!At(pc, t, n)]
  PROVE  /\ req' \in [Requests -> [pc : {"idle", "latest", "repair", "create",
                                          "number", "wait", "replace"},
                                   t : 0..Queue, n : 0..(MaxNumber + 1)]]
         /\ RequestsHold'
  <1>1. PICK q : q = Tries!At(pc, t, n)  OBVIOUS
  <1>2. q.pc = pc /\ q.t = t /\ q.n = n  BY <1>1 DEF Tries!At
  <1>3. t \in 0..Queue  BY DEF Tries!Tasks, Tries!TypeOK, Tries!Limits
  <1>4. q \in [pc : {"idle", "latest", "repair", "create", "number", "wait", "replace"},
               t : 0..Queue, n : 0..(MaxNumber + 1)]
    BY <1>1, <1>3 DEF Tries!At
  <1>5. req' = [req EXCEPT ![r] = q]  BY <1>1
  <1> QED  BY <1>2, <1>4, <1>5 DEF Tries!TypeOK, RequestsHold

LEMMA RequestEnds ==
  ASSUME Tries!TypeOK, RequestsHold, NEW r \in Requests, req' = [req EXCEPT ![r] = Tries!Idle]
  PROVE  /\ req' \in [Requests -> [pc : {"idle", "latest", "repair", "create",
                                          "number", "wait", "replace"},
                                   t : 0..Queue, n : 0..(MaxNumber + 1)]]
         /\ RequestsHold'
  <1>1. PICK q : q = Tries!Idle  OBVIOUS
  <1>2. q.pc = "idle"  BY <1>1 DEF Tries!Idle
  <1>3. q \in [pc : {"idle", "latest", "repair", "create", "number", "wait", "replace"},
               t : 0..Queue, n : 0..(MaxNumber + 1)]
    BY <1>1 DEF Tries!Idle, Tries!TypeOK, Tries!Limits
  <1>4. req' = [req EXCEPT ![r] = q]  BY <1>1
  <1> QED  BY <1>2, <1>3, <1>4 DEF Tries!TypeOK, RequestsHold

\* Without a new result and with the callbacks as they are, what was announced
\* stays announced.
LEMMA StillAnnounced ==
  ASSUME Announced, NoResult, UNCHANGED <<callbacks, told>>,
         past'.lost = 0 => past.lost = 0, past'.deletes = 0 => past.deletes = 0
  PROVE  Announced'
  BY DEF Announced, NoResult, CreditsPassed

\* The rows change, the callbacks do not.
LEMMA RowStep ==
  ASSUME NumbersInv, RowsMove, NoResult, UNCHANGED <<active, callbacks, told, past>>,
         req' \in [Requests -> [pc : {"idle", "latest", "repair", "create",
                                          "number", "wait", "replace"},
                                   t : 0..Queue, n : 0..(MaxNumber + 1)]],
         RequestsHold', locks' \subseteq Requests \X (Tries!Tasks \X Tries!Numbers)
  PROVE  NumbersInv'
  <1>1. Announced'  BY StillAnnounced DEF NumbersInv
  <1>2. RowsHold'  BY DEF RowsMove
  <1>3. \A t \in Tries!Tasks : DOMAIN rows'[t] \subseteq Tries!Numbers
                         /\ \A n \in DOMAIN rows'[t] : rows'[t][n] \in Tries!TaskAttempt
    BY <1>2 DEF RowsHold, Tidy
  <1>4. Tries!TypeOK'  BY <1>3 DEF Tries!TypeOK, NumbersInv
  <1>5. CallbacksHold' /\ PastHolds' /\ active' # {}
    BY DEF NumbersInv, CallbacksHold, PastHolds
  <1> QED  BY <1>1, <1>2, <1>4, <1>5 DEF NumbersInv

\* The requests and their locks.
LEMMA RequestStep ==
  ASSUME NumbersInv, NEW r \in Requests,
         \/ \E t \in Tries!Tasks : Tries!OpenDashboard(r, t)
         \/ \E t \in Tries!Tasks, n \in Tries!Numbers : Tries!Rerun(r, t, n)
         \/ Tries!ReadLatest(r) \/ Tries!Repair(r) \/ Tries!Create(r)
         \/ Tries!NextNumber(r) \/ Tries!Replace(r) \/ Tries!Abort(r)
  PROVE  NumbersInv' /\ RowsMove
  <1>0. /\ Tries!TypeOK /\ RowsHold /\ RequestsHold /\ Tries!Limits
        /\ locks \subseteq Requests \X (Tries!Tasks \X Tries!Numbers)
    BY DEF NumbersInv, Tries!TypeOK
  <1>1. CASE \E t \in Tries!Tasks : Tries!OpenDashboard(r, t)
    <2> PICK t \in Tries!Tasks : Tries!OpenDashboard(r, t)  BY <1>1
    <2>1. rows' = rows /\ locks' = locks /\ UNCHANGED <<active, callbacks, told, past>>
      BY DEF Tries!OpenDashboard
    <2>2. CASE UNCHANGED req
      BY <1>0, <2>1, <2>2, SameRows, RowStep DEF Tries!TypeOK, RequestsHold
    <2>3. CASE req' = [req EXCEPT ![r] = Tries!At("latest", t, 0)]
      <3>1. 0 \in 0..(MaxNumber + 1)  BY <1>0 DEF Tries!Limits
      <3> QED  BY <1>0, <2>1, <2>3, <3>1, RequestMoves, SameRows, RowStep
    <2> QED  BY <2>2, <2>3 DEF Tries!OpenDashboard
  <1>2. CASE \E t \in Tries!Tasks, n \in Tries!Numbers : Tries!Rerun(r, t, n)
    <2> PICK t \in Tries!Tasks, n \in Tries!Numbers : Tries!Rerun(r, t, n)  BY <1>2
    <2>1. /\ rows' = rows /\ locks' = locks /\ UNCHANGED <<active, callbacks, told, past>>
          /\ req' = [req EXCEPT ![r] = Tries!At("number", t, 0)]
      BY DEF Tries!Rerun
    <2>2. 0 \in 0..(MaxNumber + 1)  BY <1>0 DEF Tries!Limits
    <2> QED  BY <1>0, <2>1, <2>2, RequestMoves, SameRows, RowStep
  <1>3. CASE Tries!ReadLatest(r)
    <2>1. PICK t : t = req[r].t  OBVIOUS
    <2>2. rows' = rows /\ locks' = locks /\ UNCHANGED <<active, callbacks, told, past>>
      BY <1>3 DEF Tries!ReadLatest
    <2>3. t \in Tries!Tasks /\ DOMAIN rows[t] \in SUBSET Tries!Numbers
      BY <1>0, <1>3, <2>1 DEF Tries!ReadLatest, RequestsHold, Tries!TypeOK
    <2>4. PICK n : n = Tries!Latest(t)  OBVIOUS
    <2>5. CASE DOMAIN rows[t] = {}
      <3>1. req' = [req EXCEPT ![r] = Tries!At("create", t, 1)]
        BY <1>3, <2>1, <2>5 DEF Tries!ReadLatest
      <3>2. 1 \in 0..(MaxNumber + 1)  BY <1>0 DEF Tries!Limits
      <3> QED  BY <1>0, <2>2, <2>3, <3>1, <3>2, RequestMoves, SameRows, RowStep
    <2>6. CASE DOMAIN rows[t] # {}
      <3>1. req' = [req EXCEPT ![r] = Tries!At("repair", t, n)]
        BY <1>3, <2>1, <2>4, <2>6 DEF Tries!ReadLatest
      <3>2. n \in DOMAIN rows[t]  BY <1>0, <2>3, <2>4, <2>6, NextAfter DEF Tries!Latest
      <3>3. n \in 0..(MaxNumber + 1)  BY <1>0, <2>3, <3>2 DEF Tries!Limits, Tries!Numbers
      <3> QED  BY <1>0, <2>2, <2>3, <3>1, <3>3, RequestMoves, SameRows, RowStep
    <2> QED  BY <2>5, <2>6
  <1>4. CASE Tries!Repair(r) \/ Tries!Create(r)
    <2>1. RowsMove /\ NoResult  BY <1>4, RepairMoves, CreateMoves
    <2>2. /\ req' = [req EXCEPT ![r] = Tries!Idle]
          /\ UNCHANGED <<locks, active, callbacks, told, past>>
      BY <1>4 DEF Tries!Repair, Tries!Create
    <2> QED  BY <1>0, <2>1, <2>2, RequestEnds, RowStep
  <1>5. CASE Tries!NextNumber(r)
    <2> PICK t : t = req[r].t  OBVIOUS
    <2> PICK seen : seen = IF req[r].pc = "number" THEN DOMAIN rows[t]
                           ELSE {m \in DOMAIN rows[t] : m <= req[r].n}
      OBVIOUS
    <2> PICK n : n = Tries!Max(seen)  OBVIOUS
    <2>1. rows' = rows /\ UNCHANGED <<active, callbacks, told, past>>
      BY <1>5 DEF Tries!NextNumber
    <2>2. t \in Tries!Tasks  BY <1>0, <1>5 DEF Tries!NextNumber, RequestsHold
    <2>3. seen \in SUBSET Tries!Numbers  BY <1>0, <2>2 DEF Tries!TypeOK
    <2>4. /\ seen # {} => n \in Tries!Numbers
          /\ Tries!After(seen) \in 1..(MaxNumber + 1)
      BY <1>0, <2>3, NextAfter
    <2>5. n \in Tries!Numbers => n \in 0..(MaxNumber + 1)  BY <1>0 DEF Tries!Numbers, Tries!Limits
    <2>6. Tries!After(seen) \in 0..(MaxNumber + 1) /\ Tries!After(seen) >= 1
      BY <2>4, <1>0 DEF Tries!Limits
    <2>7. \/ req' = [req EXCEPT ![r] = Tries!At("replace", t, Tries!After(seen))] /\ locks' = locks
          \/ seen # {} /\ req' = [req EXCEPT ![r] = Tries!At("wait", t, n)] /\ locks' = locks
          \/ /\ seen # {} /\ locks' = locks \union {<<r, <<t, n>> >>}
             /\ req' = [req EXCEPT ![r] = Tries!At("replace", t, Tries!After(seen))]
      BY <1>5 DEF Tries!NextNumber
    <2>8. locks' \subseteq Requests \X (Tries!Tasks \X Tries!Numbers)
      <3>1. locks' = locks \/ (seen # {} /\ locks' = locks \union {<<r, <<t, n>> >>})
        BY <2>7
      <3>2. seen # {} => <<r, <<t, n>> >> \in Requests \X (Tries!Tasks \X Tries!Numbers)
        BY <2>2, <2>4
      <3> QED  BY <1>0, <3>1, <3>2
    <2>9. CASE req' = [req EXCEPT ![r] = Tries!At("replace", t, Tries!After(seen))]
      BY <1>0, <2>1, <2>2, <2>6, <2>8, <2>9, RequestMoves, SameRows, RowStep
    <2>10. CASE seen # {} /\ req' = [req EXCEPT ![r] = Tries!At("wait", t, n)]
      BY <1>0, <2>1, <2>2, <2>4, <2>5, <2>8, <2>10, RequestMoves, SameRows, RowStep
    <2> QED  BY <2>7, <2>9, <2>10
  <1>6. CASE Tries!Replace(r)
    <2>1. RowsMove /\ NoResult  BY <1>6, ReplaceMoves
    <2>2. /\ req' = [req EXCEPT ![r] = Tries!Idle] /\ locks' \subseteq locks
          /\ UNCHANGED <<active, callbacks, told, past>>
      BY <1>6 DEF Tries!Replace
    <2>3. locks' \subseteq Requests \X (Tries!Tasks \X Tries!Numbers)  BY <1>0, <2>2
    <2> QED  BY <1>0, <2>1, <2>2, <2>3, RequestEnds, RowStep
  <1>7. CASE Tries!Abort(r)
    <2>1. /\ req' = [req EXCEPT ![r] = Tries!Idle] /\ locks' \subseteq locks
          /\ UNCHANGED <<rows, active, callbacks, told, past>>
      BY <1>7 DEF Tries!Abort
    <2>2. locks' \subseteq Requests \X (Tries!Tasks \X Tries!Numbers)  BY <1>0, <2>1
    <2> QED  BY <1>0, <2>1, <2>2, RequestEnds, SameRows, RowStep
  <1> QED  BY <1>1, <1>2, <1>3, <1>4, <1>5, <1>6, <1>7

\* The life of an attempt and its deletion.
LEMMA PhaseStep ==
  ASSUME NumbersInv, NEW t \in Tries!Tasks, NEW n \in Tries!Numbers,
         \/ Tries!StartWork(t, n) \/ Tries!StartCheck(t, n)
         \/ Tries!FailCheck(t, n) \/ Tries!PassCheck(t, n) \/ Tries!Delete(t, n)
  PROVE  NumbersInv' /\ RowsMove
  <1>0. /\ Tries!TypeOK /\ RowsHold /\ RequestsHold /\ Tries!Limits
        /\ locks \subseteq Requests \X (Tries!Tasks \X Tries!Numbers)
    BY DEF NumbersInv, Tries!TypeOK
  <1>a. UNCHANGED <<req, locks>>
    BY DEF Tries!StartWork, Tries!StartCheck, Tries!FailCheck, Tries!PassCheck, Tries!Delete
  <1>b. /\ req' \in [Requests -> [pc : {"idle", "latest", "repair", "create",
                                          "number", "wait", "replace"},
                                   t : 0..Queue, n : 0..(MaxNumber + 1)]]
        /\ RequestsHold' /\ locks' \subseteq Requests \X (Tries!Tasks \X Tries!Numbers)
    BY <1>0, <1>a DEF Tries!TypeOK, RequestsHold
  <1>1. CASE Tries!StartWork(t, n) \/ Tries!StartCheck(t, n) \/ Tries!FailCheck(t, n)
    <2>1. PICK phase \in {"in_progress", "running", "failed", "error"} :
            Tries!SetPhase(t, n, phase)
      BY <1>1 DEF Tries!StartWork, Tries!StartCheck, Tries!FailCheck
    <2>2. n \in DOMAIN rows[t] /\ ~Tries!Passed(rows[t][n])
      BY <1>1 DEF Tries!StartWork, Tries!StartCheck, Tries!FailCheck, Tries!Current, Tries!Passed
    <2>3. phase \in Tries!Phases /\ phase # "passed"  BY DEF Tries!Phases
    <2>4. RowsMove /\ NoResult  BY <1>0, <2>1, <2>2, <2>3, PhaseMoves
    <2>5. UNCHANGED <<active, callbacks, told, past>>
      BY <1>1 DEF Tries!StartWork, Tries!StartCheck, Tries!FailCheck
    <2> QED  BY <1>b, <2>4, <2>5, RowStep
  <1>2. CASE Tries!PassCheck(t, n)
    <2>1. n \in DOMAIN rows[t] /\ ~Tries!Passed(rows[t][n]) /\ Tries!SetPhase(t, n, "passed")
      BY <1>2 DEF Tries!PassCheck, Tries!Passed
    <2>2. "passed" \in Tries!Phases  BY DEF Tries!Phases
    <2>3. RowsMove  BY <1>0, <2>1, <2>2, PhaseMoves
    <2>4. n # 1 => \A s \in Tries!Tasks : 1 \in DOMAIN rows'[s] /\ Tries!Passed(rows'[s][1])
                     => 1 \in DOMAIN rows[s] /\ Tries!Passed(rows[s][1])
      BY <1>0, <2>1, <2>2, PhaseMoves
    <2>5. PICK c : c = [t |-> t, n |-> n, left |-> {0}]  OBVIOUS
    <2>6. c.n = n /\ c.t = t /\ c.left = {0} /\ c \in Callback
      <3>1. {0} \in SUBSET (0..Queue)  BY <1>0 DEF Tries!Limits
      <3> QED  BY <2>5, <3>1 DEF Callback
    <2>7. callbacks' = callbacks \cup {c} /\ UNCHANGED <<active, told, past>>
      BY <1>2, <2>5 DEF Tries!PassCheck
    <2>8. Announced'
      <3>1. CASE n = 1  BY <2>6, <2>7, <3>1 DEF Announced
      <3>2. CASE n # 1
        <4>1. CreditsPassed' => CreditsPassed  BY <2>4, <3>2 DEF CreditsPassed
        <4> QED  BY <4>1, <2>7 DEF Announced, NumbersInv
      <3> QED  BY <3>1, <3>2
    <2>9. CallbacksHold'  BY <2>6, <2>7 DEF CallbacksHold, NumbersInv
    <2>10. RowsHold'  BY <2>3 DEF RowsMove
    <2>11. \A s \in Tries!Tasks : DOMAIN rows'[s] \subseteq Tries!Numbers
                           /\ \A m \in DOMAIN rows'[s] : rows'[s][m] \in Tries!TaskAttempt
      BY <2>10 DEF RowsHold, Tidy
    <2>12. Tries!TypeOK'  BY <1>0, <1>b, <2>6, <2>7, <2>11 DEF Tries!TypeOK
    <2> QED  BY <1>b, <2>3, <2>7, <2>8, <2>9, <2>10, <2>12 DEF NumbersInv, PastHolds
  <1>3. CASE Tries!Delete(t, n)
    <2>1. RowsMove /\ NoResult  BY <1>3, DeleteMoves
    <2>2. /\ UNCHANGED <<active, callbacks, told>>
          /\ past' = [past EXCEPT !.deletes = @ + 1]
      BY <1>3 DEF Tries!Delete
    <2>3. past' \in [deletes : Nat, lost : Nat, toggles : Nat] /\ past'.deletes # 0
      BY <2>2 DEF NumbersInv, PastHolds
    <2>4. Announced'  BY <2>3 DEF Announced
    <2>5. RowsHold'  BY <2>1 DEF RowsMove
    <2>6. \A s \in Tries!Tasks : DOMAIN rows'[s] \subseteq Tries!Numbers
                           /\ \A m \in DOMAIN rows'[s] : rows'[s][m] \in Tries!TaskAttempt
      BY <2>5 DEF RowsHold, Tidy
    <2>7. Tries!TypeOK'  BY <1>0, <1>b, <2>2, <2>6 DEF Tries!TypeOK
    <2> QED  BY <1>b, <2>1, <2>2, <2>3, <2>4, <2>5, <2>7
             DEF NumbersInv, PastHolds, CallbacksHold
  <1> QED  BY <1>1, <1>2, <1>3

\* The callbacks and the switching of tasks leave the rows alone.
LEMMA CallbackStep ==
  ASSUME NumbersInv,
         \/ \E c \in callbacks :
              Tries!NotifyStart(c) \/ Tries!NotifyRead(c) \/ Tries!NotifySend(c) \/ Tries!LoseCallback(c)
         \/ \E t \in Tries!Tasks : Tries!Toggle(t)
  PROVE  NumbersInv' /\ RowsMove
  <1>0. Tries!TypeOK /\ RowsHold /\ RequestsHold /\ CallbacksHold /\ PastHolds /\ Tries!Limits
    BY DEF NumbersInv, Tries!TypeOK
  <1>a. UNCHANGED <<rows, req, locks>>
    BY DEF Tries!NotifyStart, Tries!NotifyRead, Tries!NotifySend, Tries!LoseCallback, Tries!Toggle
  <1>b. RowsMove /\ NoResult /\ RowsHold'  BY <1>0, <1>a, SameRows DEF RowsMove
  <1>c. RequestsHold'  BY <1>0, <1>a DEF RequestsHold
  <1>d. CreditsPassed' => CreditsPassed  BY <1>a DEF CreditsPassed
  <1>1. ASSUME CallbacksHold', PastHolds', Announced', active' \subseteq Tries!Tasks, active' # {},
               told' \in {"nothing", "failed", "sent"}
        PROVE  NumbersInv' /\ RowsMove
    <2>1. \A c \in callbacks' : c.t \in Tries!Tasks /\ c.n \in Tries!Numbers
      BY <1>1 DEF CallbacksHold, Callback
    <2>2. Tries!TypeOK'  BY <1>0, <1>1, <1>a, <2>1 DEF Tries!TypeOK
    <2> QED  BY <1>1, <1>b, <1>c, <2>2 DEF NumbersInv
  <1>2. CASE \E c \in callbacks : Tries!NotifyStart(c)
    <2> PICK c \in callbacks : Tries!NotifyStart(c)  BY <1>2
    <2>1. active \subseteq Tries!Tasks /\ active # {} /\ active \in SUBSET (0..Queue)
      BY <1>0 DEF NumbersInv, Tries!TypeOK, Tries!Tasks, Tries!Limits
    <2>2. PICK d : d = [c EXCEPT !.left = active]  OBVIOUS
    <2>3. c \in Callback  BY <1>0 DEF CallbacksHold
    <2>4. d \in Callback /\ d.n = c.n /\ d.t = c.t /\ d.left = active
      BY <2>1, <2>2, <2>3 DEF Callback
    <2>5. callbacks' = (callbacks \ {c})
             \union (IF c.n = 1 /\ Tries!Done(c.t) /\ active # {} THEN {d} ELSE {})
      BY <2>2 DEF Tries!NotifyStart
    <2>6. UNCHANGED <<active, told, past>>  BY DEF Tries!NotifyStart
    <2>7. CallbacksHold'  BY <1>0, <2>1, <2>4, <2>5 DEF CallbacksHold
    <2>8. CreditsPassed => Tries!Done(c.t)  BY <2>3 DEF CreditsPassed, Tries!Done, Callback
    <2>9. Announced'
      BY <1>d, <2>1, <2>4, <2>5, <2>6, <2>8 DEF Announced, NumbersInv
    <2> QED  BY <1>0, <1>1, <2>1, <2>6, <2>7, <2>9 DEF PastHolds, Tries!TypeOK
  <1>3. CASE \E c \in callbacks : Tries!NotifyRead(c)
    <2> PICK c \in callbacks : Tries!NotifyRead(c)  BY <1>3
    <2>1. PICK t : t = Tries!Min(c.left)  OBVIOUS
    <2>2. c \in Callback /\ c.left \subseteq Tries!Tasks /\ c.left # {}
      BY <1>0 DEF CallbacksHold, Tries!NotifyRead
    <2>3. t \in Tries!Tasks
      <3>1. c.left \in SUBSET Nat  BY <2>2 DEF Tries!Tasks
      <3> QED  BY <2>1, <2>2, <3>1, SmallestExists
    <2>4. PICK d : d = [c EXCEPT !.left = @ \ {t}]  OBVIOUS
    <2>5. d.n = c.n /\ d.t = c.t /\ d.left = c.left \ {t} /\ d \in Callback
      BY <2>2, <2>4 DEF Callback
    <2>6. callbacks' = (callbacks \ {c}) \union (IF Tries!Done(t) THEN {d} ELSE {})
      BY <2>1, <2>4 DEF Tries!NotifyRead
    <2>7. UNCHANGED <<active, told, past>>  BY DEF Tries!NotifyRead
    <2>8. CallbacksHold'  BY <1>0, <2>2, <2>5, <2>6 DEF CallbacksHold
    <2>9. CreditsPassed => Tries!Done(t)  BY <2>3 DEF CreditsPassed, Tries!Done
    <2>10. Announced'  BY <1>d, <2>5, <2>6, <2>7, <2>9 DEF Announced, NumbersInv
    <2> QED  BY <1>0, <1>1, <2>7, <2>8, <2>10 DEF NumbersInv, PastHolds, Tries!TypeOK
  <1>4. CASE \E c \in callbacks : Tries!NotifySend(c)
    <2> PICK c \in callbacks : Tries!NotifySend(c)  BY <1>4
    <2>1. callbacks' = callbacks \ {c} /\ UNCHANGED <<active, past>>  BY DEF Tries!NotifySend
    <2>2. told' \in {"failed", "sent"}  BY DEF Tries!NotifySend
    <2>3. CallbacksHold'  BY <1>0, <2>1 DEF CallbacksHold
    <2>4. Announced'  BY <2>2 DEF Announced
    <2> QED  BY <1>0, <1>1, <2>1, <2>2, <2>3, <2>4 DEF NumbersInv, PastHolds, Tries!TypeOK
  <1>5. CASE \E c \in callbacks : Tries!LoseCallback(c)
    <2> PICK c \in callbacks : Tries!LoseCallback(c)  BY <1>5
    <2>1. /\ callbacks' = callbacks \ {c} /\ UNCHANGED <<active, told>>
          /\ past' = [past EXCEPT !.lost = @ + 1]
      BY DEF Tries!LoseCallback
    <2>2. PastHolds' /\ past'.lost # 0  BY <1>0, <2>1 DEF PastHolds
    <2>3. CallbacksHold' /\ Announced'  BY <1>0, <2>1, <2>2 DEF CallbacksHold, Announced
    <2> QED  BY <1>0, <1>1, <2>1, <2>2, <2>3 DEF NumbersInv, Tries!TypeOK
  <1>6. CASE \E t \in Tries!Tasks : Tries!Toggle(t)
    <2> PICK t \in Tries!Tasks : Tries!Toggle(t)  BY <1>6
    <2>1. /\ UNCHANGED <<callbacks, told>> /\ past' = [past EXCEPT !.toggles = @ + 1]
          /\ active' # {} /\ active' = IF t \in active THEN active \ {t} ELSE active \union {t}
      BY DEF Tries!Toggle
    <2>2. PastHolds' /\ past'.lost = past.lost /\ past'.deletes = past.deletes
      BY <1>0, <2>1 DEF PastHolds
    <2>3. active' \subseteq Tries!Tasks  BY <1>0, <2>1 DEF Tries!TypeOK
    <2>4. CallbacksHold'  BY <1>0, <2>1 DEF CallbacksHold
    <2>5. Announced'  BY <1>b, <2>1, <2>2, StillAnnounced DEF NumbersInv
    <2> QED  BY <1>0, <1>1, <2>1, <2>2, <2>3, <2>4, <2>5 DEF Tries!TypeOK
  <1> QED  BY <1>2, <1>3, <1>4, <1>5, <1>6

LEMMA NumbersStep ==
  ASSUME NumbersInv, [Tries!Next]_(Tries!vars)
  PROVE  NumbersInv' /\ RowsMove
  <1>1. CASE UNCHANGED Tries!vars
    <2>1. RowsMove  BY <1>1, SameRows DEF NumbersInv, Tries!vars
    <2>2. NumbersInv'
      BY <1>1 DEF NumbersInv, Tries!vars, Tries!TypeOK, RowsHold, RequestsHold, CallbacksHold,
                  PastHolds, Announced, CreditsPassed
    <2> QED  BY <2>1, <2>2
  <1>2. CASE Tries!Next
    BY <1>2, RequestStep, PhaseStep, CallbackStep DEF Tries!Next
  <1> QED  BY <1>1, <1>2

LEMMA NumbersStart == Tries!Limits /\ Tries!Init => NumbersInv
  <1> SUFFICES ASSUME Tries!Limits, Tries!Init PROVE NumbersInv  OBVIOUS
  <1> USE DEF Tries!Init
  <1>1. DOMAIN rows = Tries!Tasks /\ \A t \in Tries!Tasks : DOMAIN rows[t] = {}  BY DEF Tries!NoRows
  <1>2. RowsHold  BY <1>1 DEF RowsHold, Tidy
  <1>3. Queue \in Nat /\ 1 \in Tries!Tasks /\ 0 \in 0..Queue /\ 0 \in 0..(MaxNumber + 1)
    BY DEF Tries!Limits, Tries!Tasks
  <1>4. Tries!TypeOK  BY <1>1, <1>3 DEF Tries!TypeOK, Tries!Idle
  <1>5. RequestsHold /\ CallbacksHold /\ PastHolds
    BY DEF RequestsHold, CallbacksHold, PastHolds, Tries!Idle
  <1>6. Announced  BY <1>1, <1>3 DEF Announced, CreditsPassed
  <1> QED  BY <1>2, <1>3, <1>4, <1>5, <1>6 DEF NumbersInv

\* NumbersInv is inductive.
LEMMA NumbersInvariant == ASSUME Tries!Limits PROVE Tries!Spec => []NumbersInv
  <1>1. NumbersInv /\ [Tries!Next]_(Tries!vars) => NumbersInv'  BY NumbersStep
  <1>2. Tries!Init => NumbersInv  BY NumbersStart
  <1> QED  BY <1>1, <1>2, PTL DEF Tries!Spec

LEMMA NumbersCounted == NumbersInv => Tries!ResultsCounted
  BY DEF NumbersInv, Tries!ResultsCounted, Tries!AllDoneAnnounced, Announced, CreditsPassed,
         Tries!Passed

\* The rows are well formed, and when every credit attempt has passed and no
\* callback is left the mentors have been written to.
THEOREM EndAnnounced == ASSUME Tries!Limits PROVE Tries!Spec => []Tries!ResultsCounted
  BY NumbersCounted, NumbersInvariant, PTL

LEMMA CurrentStep ==
  ASSUME NumbersInv, RowsMove PROVE Tries!CurrentStays
  <1> SUFFICES ASSUME NEW t \in Tries!Tasks, Tries!Current(t) # {},
                      Tries!Current(t) \cap Tries!Removed(t) = {}
               PROVE  Tries!Cardinality(Tries!Current(t)') = 1
    BY DEF Tries!CurrentStays
  <1>1. PICK n \in DOMAIN rows[t] : rows[t][n].current  BY DEF Tries!Current
  <1>2. n \in DOMAIN rows'[t]  BY <1>1 DEF Tries!Current, Tries!Removed
  <1>3. PICK m \in DOMAIN rows'[t] : rows'[t][m].current
    BY <1>1, <1>2 DEF RowsMove, Keeps
  <1>4. \A k \in DOMAIN rows'[t] : rows'[t][k].current => k = m
    BY <1>3 DEF RowsMove, RowsHold, Tidy
  <1>5. Tries!Current(t)' = {m}  BY <1>3, <1>4 DEF Tries!Current
  <1>6. Cardinality({m}) = 1  BY FS_Singleton
  <1>7. Tries!Cardinality({m}) = Cardinality({m})
    BY DEF Cardinality, Tries!Cardinality
  <1> QED  BY <1>5, <1>6, <1>7

\* A result that is there and not deleted stays.
LEMMA DoneStays ==
  ASSUME RowsMove, NEW t \in Tries!Tasks, 1 \notin Tries!Removed(t), Tries!Done(t)
  PROVE  Tries!Done(t)'
  BY DEF RowsMove, Keeps, Tries!Done, Tries!Removed

LEMMA AvailabilityStep ==
  ASSUME NumbersInv, RowsMove, \A s \in Tries!Tasks : 1 \notin Tries!Removed(s),
         NEW t \in Tries!Tasks
  PROVE  Tries!Available(t) => Tries!Available(t)'
  <1>1. t > 1 => t - 1 \in Tries!Tasks  BY DEF Tries!Tasks, NumbersInv, Tries!TypeOK, Tries!Limits
  <1>2. CASE t > 1
    BY <1>1, <1>2, DoneStays DEF Tries!Available
  <1>3. CASE ~(t > 1)
    BY <1>3 DEF Tries!Available
  <1> QED  BY <1>2, <1>3

\* What the display of a task depends on.
LEMMA DisplayedAs ==
  ASSUME RowsHold, NEW t \in Tries!Tasks, NEW n \in Tries!Current(t)
  PROVE  /\ Tries!LearningStatus(t, n) = "completed" <=> Tries!Available(t) /\ Tries!Done(t)
         /\ Tries!TechnicalStatus(t, n) = "passed" <=> Tries!Done(t)
  <1>1. Tries!WasCompleted(t) <=> Tries!Done(t)  BY DEF Tries!WasCompleted, Tries!Done
  <1>2. rows[t][n].phase \in Tries!Phases
    BY DEF RowsHold, Tidy, Tries!TaskAttempt, Tries!Current
  <1> QED  BY <1>1, <1>2 DEF Tries!LearningStatus, Tries!TechnicalStatus, Tries!Phases

LEMMA DisplayStep ==
  ASSUME NumbersInv, RowsMove, NEW t \in Tries!Tasks,
         <<"completed", "passed">> \in Tries!Shown(t), \A s \in Tries!Tasks : Tries!Removed(s) = {}
  PROVE  Tries!Shown(t)' = {<<"completed", "passed">>}
  <1>1. PICK n \in Tries!Current(t) :
          Tries!LearningStatus(t, n) = "completed" /\ Tries!TechnicalStatus(t, n) = "passed"
    BY DEF Tries!Shown
  <1>2. Tries!Available(t) /\ Tries!Done(t)  BY <1>1, DisplayedAs DEF NumbersInv
  <1>3. Tries!Available(t)' /\ Tries!Done(t)'
    BY <1>2, AvailabilityStep, DoneStays
  <1>4. n \in DOMAIN rows[t] /\ rows[t][n].current /\ n \in DOMAIN rows'[t]
    BY <1>1 DEF Tries!Current, Tries!Removed
  <1>5. PICK m \in DOMAIN rows'[t] : rows'[t][m].current
    BY <1>4 DEF RowsMove, Keeps
  <1>6. m \in Tries!Current(t)'  BY <1>5 DEF Tries!Current
  <1>7. \A k \in Tries!Current(t)' : Tries!LearningStatus(t, k)' = "completed"
                               /\ Tries!TechnicalStatus(t, k)' = "passed"
    <2> SUFFICES ASSUME NEW k \in Tries!Current(t)'
                 PROVE  Tries!LearningStatus(t, k)' = "completed"
                        /\ Tries!TechnicalStatus(t, k)' = "passed"
      OBVIOUS
    <2>1. Tries!WasCompleted(t)'  BY <1>3 DEF Tries!WasCompleted, Tries!Done
    <2> QED  BY <1>3, <2>1 DEF Tries!LearningStatus, Tries!TechnicalStatus
  <1> QED  BY <1>6, <1>7 DEF Tries!Shown

LEMMA MovesKept ==
  ASSUME Tries!Limits, NumbersInv, [Tries!Next]_(Tries!vars)
  PROVE  Tries!AttemptsStay
  <1>1. RowsMove  BY NumbersStep
  <1>2. Tries!CurrentStays  BY <1>1, CurrentStep
  <1>3. Tries!AvailabilityStays  BY <1>1, AvailabilityStep DEF Tries!AvailabilityStays
  <1>4. Tries!DisplayStays  BY <1>1, DisplayStep DEF Tries!DisplayStays
  <1> QED  BY <1>2, <1>3, <1>4 DEF Tries!AttemptsStay

\* Whatever the requests, checks and callbacks that overlap: a task keeps
\* exactly one current attempt unless it is deleted, an available task stays
\* available while no credit attempt is deleted, and what is shown as completed
\* and passed stays so.
THEOREM CurrentKept == ASSUME Tries!Limits PROVE Tries!Spec => Tries!AttemptsKept
  <1>1. NumbersInv /\ [Tries!Next]_(Tries!vars) => Tries!AttemptsStay
    BY MovesKept
  <1> QED  BY <1>1, NumbersInvariant, PTL DEF Tries!Spec, Tries!AttemptsKept

-----------------------------------------------------------------------------
(* The two models as they are checked together.                            *)

\* In the parts about the attempts of a trainee.
PartInv == part \in {"numbers", "queue"} => NumbersInv

LEMMA PartMoves ==
  ASSUME part \in {"numbers", "queue"}, [SuiteNext]_suiteVars
  PROVE  [Tries!Next]_(Tries!vars)
  BY DEF SuiteNext, suiteVars, attemptVars, Tries!vars, AttemptsNext

LEMMA PartInvariant == ASSUME Tries!Limits PROVE SuiteSpec => []PartInv
  <1>1. SuiteInit => PartInv
    BY NumbersStart DEF SuiteInit, PartInv
  <1>2. PartInv /\ [SuiteNext]_suiteVars => PartInv'
    <2> SUFFICES ASSUME PartInv, [SuiteNext]_suiteVars, part' \in {"numbers", "queue"}
                 PROVE  NumbersInv'
      BY DEF PartInv
    <2>1. part \in {"numbers", "queue"} /\ NumbersInv
      BY DEF SuiteNext, suiteVars, PartInv
    <2> QED
      BY <2>1, PartMoves, NumbersStep
  <1> QED
    BY <1>1, <1>2, PTL DEF SuiteSpec

\* A form that is sent twice is one version of the answer, and the mentors
\* are told when every credit attempt has passed: in the suite one of the two
\* models moves and the other one is at rest.
THEOREM SuiteResultsCounted == ASSUME Tries!Limits PROVE SuiteSpec => []ResultsCounted
  <1>1. SuiteInit => Init
    BY DEF SuiteInit
  <1>2. [SuiteNext]_suiteVars => [Next]_vars
    BY DEF SuiteNext, suiteVars, AnswersNext, AttemptsNext
  <1>3. SuiteSpec => Spec
    BY <1>1, <1>2, PTL DEF SuiteSpec, Spec
  <1>4. PartInv /\ OneVersionPerKey => ResultsCounted
    BY NumbersCounted DEF ResultsCounted, PartInv
  <1> QED
    BY <1>3, <1>4, PartInvariant, VersionsUnique, PTL

\* No repair, rerun, check or deletion of the suite takes a current attempt,
\* an available task or a result that is shown away.
THEOREM SuiteAttemptsKept == ASSUME Tries!Limits PROVE SuiteSpec => AttemptsKept
  <1>1. PartInv /\ [SuiteNext]_suiteVars
        => [(part \in {"numbers", "queue"}) => Tries!AttemptsStay]_suiteVars
    BY PartMoves, MovesKept DEF PartInv
  <1> QED
    BY <1>1, PartInvariant, PTL DEF SuiteSpec, AttemptsKept
=============================================================================
