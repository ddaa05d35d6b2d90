--------------------------- MODULE QuestionGrading ---------------------------
(***************************************************************************)
(* One question from its form to a graded answer: activation, the snapshot *)
(* of an attempt with its shuffle, and any answer a browser can post. The  *)
(* properties compare the keys that are graded with the texts the employee *)
(* sees.                                                                   *)
(***************************************************************************)
EXTENDS QuestionRules

CONSTANTS Texts, MaxRows

VARIABLES
  question,   \* its form, later its rows, and how far it got
  payload,    \* visible_payload and grading_payload
  response

vars == <<question, payload, response>>
Stage(s) == question.status = s

\* What each type of form asks for; an untouched extra form is blank.
Blank == [text |-> "", mate |-> "", right |-> FALSE]
RowsOf(type) ==
  CASE type \in ChoiceTypes \cup {"line_selection"} -> [text: Texts, mate: {""}, right: BOOLEAN] \cup {Blank}
    [] type = "matching" -> [text: Texts, mate: Texts, right: {FALSE}] \cup {Blank}
    [] type = "ordering" -> [text: Texts, mate: {""}, right: {FALSE}] \cup {Blank}

Init ==
  /\ question \in UNION {[type: {type}, rows: UNION {[1..n -> RowsOf(type)] : n \in 0..MaxRows},
                          status: {"draft"}] : type \in QuestionTypes}
  /\ payload = <<>>
  /\ response = <<>>

\* The editor or the admin form: the filled rows are stored, and an active
\* question is stored only when it is valid.
SaveActive ==
  /\ Stage("draft")
  /\ Valid(question.type, question.rows)
  /\ question' = [question EXCEPT !.status = "active", !.rows = Filled(question.rows)]
  /\ UNCHANGED <<payload, response>>

\* build_question_snapshot_data, which validates once more
Snapshot(order) ==
  /\ Stage("active")
  /\ Valid(question.type, question.rows)
  /\ payload' = Payload(question.type, question.rows, order)
  /\ question' = [question EXCEPT !.status = "shown"]
  /\ UNCHANGED response

\* _build_response_payload: any list of posted keys, or for each left key at
\* most one right key; 0 is a key that does not exist.
Posted ==
  LET n == Len(question.rows) IN
    IF question.type = "matching"
      THEN UNION {[lefts -> 0..n] : lefts \in SUBSET (1..n)}
      ELSE UNION {[1..m -> 0..n] : m \in 0..n}

Submit(posted) ==
  /\ Stage("shown")
  /\ response' = posted
  /\ question' = [question EXCEPT !.status = "graded"]
  /\ UNCHANGED payload

Next ==
  \/ SaveActive
  \/ \E shuffle \in BOOLEAN :
       \E order \in Shuffles(question.type, question.rows, shuffle) : Snapshot(order)
  \/ Stage("shown") /\ \E posted \in Posted : Submit(posted)

Spec == Init /\ [][Next]_vars

-----------------------------------------------------------------------------
(* Properties *)

\* What the answer says in the texts that are shown.
RightTexts ==
  CASE question.type \in ChoiceTypes \cup {"line_selection"} ->
         /\ ToSet(response) \subseteq DOMAIN payload.visible
         /\ {TextOf(payload.visible, response[i]) : i \in DOMAIN response}
              = {question.rows[i].text : i \in {j \in DOMAIN question.rows : question.rows[j].right}}
         /\ Len(response) = RightCount(question.rows)
    [] question.type = "matching" ->
         /\ DOMAIN response = DOMAIN payload.left
         /\ \A k \in DOMAIN response :
              /\ response[k] # 0
              /\ \E i \in DOMAIN question.rows :
                   /\ question.rows[i].text = TextOf(payload.left, k)
                   /\ question.rows[i].mate = TextOf(payload.visible, response[k])
    [] question.type = "ordering" ->
         /\ Len(response) = Len(question.rows)
         /\ 0 \notin ToSet(response)
         /\ \A i \in DOMAIN response : TextOf(payload.visible, response[i]) = question.rows[i].text

\* The full score, and with it is_correct, for the right answer and no other,
\* however the rows were shuffled and numbered.
OnlyRightScoresFull ==
  Stage("graded") => (Grade(question.type, payload, response) = 10000 <=> RightTexts)

\* The employee of every shown question can reach the full score, and a
\* blind answer (everything that can be selected) does not.
Solvable ==
  Stage("shown") =>
    /\ \E posted \in Posted : Grade(question.type, payload, posted) = 10000
    /\ question.type \in ChoiceTypes \cup {"line_selection"} =>
         Grade(question.type, payload, [i \in DOMAIN payload.visible |-> i]) # 10000

\* In a sequence, putting two neighbours in their right order always gains.
SwapGains ==
  (Stage("graded") /\ question.type = "ordering" /\ Grade(question.type, payload, response) # Rejected) =>
    \A i \in 1..(Len(response) - 1) :
       response[i] > response[i + 1] =>
         Grade(question.type, payload,
               [response EXCEPT ![i] = response[i + 1], ![i + 1] = response[i]])
           > Grade(question.type, payload, response)
=============================================================================
