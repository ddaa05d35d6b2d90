---------------------------- MODULE QuestionRules ----------------------------
(***************************************************************************)
(* The questions of an exam as pure rules: when a configuration is valid   *)
(* (assessment/question_validation.py), the snapshot an attempt keeps of   *)
(* it (services/question_snapshot.py) and the score of an answer           *)
(* (services/answer_grading.py), in hundredths of a percent.               *)
(* A row is an option, a pair, an item or a line: its text, the text it is *)
(* paired with and whether it is correct. The keys "option-1", "left-1",   *)
(* "item-1" are the numbers 1..n.                                          *)
(***************************************************************************)
EXTENDS Integers, Sequences, FiniteSets, SequencesExt

QuestionTypes == {"single_choice", "multiple_choice", "matching", "ordering", "line_selection"}
ChoiceTypes == {"single_choice", "multiple_choice"}
Rejected == -1      \* a ValidationError instead of a score

\* str.casefold over the texts of the instances: "A" and "a" are one text.
Casefold(text) == IF text = "A" THEN "a" ELSE text

-----------------------------------------------------------------------------
(* question_validation.py *)

Filled(rows) == SelectSeq(rows, LAMBDA r : r.text # "" \/ r.mate # "")
NoneTwice(rows) == IsInjective([i \in DOMAIN rows |-> Casefold(rows[i].text)])
NoMateTwice(rows) == IsInjective([i \in DOMAIN rows |-> Casefold(rows[i].mate)])
RightCount(rows) == Cardinality({i \in DOMAIN rows : rows[i].right})

ValidChoice(type, rows) ==
  /\ Len(rows) >= 2
  /\ NoneTwice(rows)
  /\ \/ type = "single_choice" /\ RightCount(rows) = 1
     \/ type = "multiple_choice" /\ RightCount(rows) \in 2..(Len(rows) - 1)

ValidMatching(rows) == Len(rows) >= 2 /\ NoneTwice(rows) /\ NoMateTwice(rows)
ValidOrdering(rows) == Len(rows) >= 3 /\ NoneTwice(rows)
ValidLines(rows) == Len(rows) >= 2 /\ NoneTwice(rows) /\ RightCount(rows) \in 1..(Len(rows) - 1)

\* Mutant: texts may repeat.
ValidMutant(type, rows) ==
  LET filled == Filled(rows) IN
    IF type = "single_choice" THEN RightCount(filled) = 1 ELSE Len(filled) >= 2
Valid(type, rows) ==
  LET filled == Filled(rows) IN
    CASE type \in ChoiceTypes -> ValidChoice(type, filled)
      [] type = "matching" -> ValidMatching(filled)
      [] type = "ordering" -> ValidOrdering(filled)
      [] type = "line_selection" -> ValidLines(filled)

-----------------------------------------------------------------------------
(* question_snapshot.py: order is the permutation of the shuffle *)

Shuffles(type, rows, shuffle) ==
  IF type = "line_selection" \/ (type \in ChoiceTypes /\ ~shuffle)
    THEN {[i \in DOMAIN rows |-> i]}
    ELSE {p \in [DOMAIN rows -> DOMAIN rows] : IsInjective(p)}

\* Options and lines are numbered after the shuffle ...
ChoicePayload(rows, order) ==
  [visible |-> [i \in DOMAIN rows |-> [key |-> i, text |-> rows[order[i]].text]],
   correct |-> {i \in DOMAIN rows : rows[order[i]].right}]
\* ... the two columns of a matching and the items of an ordering before it.
MatchingPayload(rows, order) ==
  [left |-> [i \in DOMAIN rows |-> [key |-> i, text |-> rows[i].text]],
   visible |-> [i \in DOMAIN rows |-> [key |-> order[i], text |-> rows[order[i]].mate]],
   correct |-> [i \in DOMAIN rows |-> i]]
OrderingPayload(rows, order) ==
  [visible |-> [i \in DOMAIN rows |-> [key |-> order[i], text |-> rows[order[i]].text]],
   correct |-> [i \in DOMAIN rows |-> i]]

\* Mutant: the pairs are numbered after the shuffle of the right column.
PayloadMutant(type, rows, order) ==
  CASE type \in ChoiceTypes \cup {"line_selection"} -> ChoicePayload(rows, order)
    [] type = "matching" ->
         [left |-> [i \in DOMAIN rows |-> [key |-> i, text |-> rows[i].text]],
          visible |-> [i \in DOMAIN rows |-> [key |-> i, text |-> rows[order[i]].mate]],
          correct |-> [i \in DOMAIN rows |-> i]]
    [] type = "ordering" -> OrderingPayload(rows, order)
Payload(type, rows, order) ==
  CASE type \in ChoiceTypes \cup {"line_selection"} -> ChoicePayload(rows, order)
    [] type = "matching" -> MatchingPayload(rows, order)
    [] type = "ordering" -> OrderingPayload(rows, order)

Keys(items) == {items[i].key : i \in DOMAIN items}
TextOf(items, key) == items[CHOOSE i \in DOMAIN items : items[i].key = key].text

-----------------------------------------------------------------------------
(* answer_grading.py *)

Percentage(correct, total) ==
  IF total = 0 THEN 0 ELSE (20000 * correct + total) \div (2 * total)

GradeKeys(type, payload, keys) ==
  IF \/ keys = <<>>
     \/ ~IsInjective(keys)
     \/ ~(ToSet(keys) \subseteq Keys(payload.visible))
     \/ type = "single_choice" /\ Len(keys) # 1
    THEN Rejected
    ELSE IF ToSet(keys) = payload.correct THEN 10000 ELSE 0

GradeMatching(payload, matches) ==
  IF \/ DOMAIN matches # Keys(payload.left)
     \/ {matches[k] : k \in DOMAIN matches} # Keys(payload.visible)
     \/ ~IsInjective(matches)
    THEN Rejected
    ELSE Percentage(Cardinality({k \in DOMAIN matches : matches[k] = payload.correct[k]}),
                    Cardinality(DOMAIN matches))

\* Mutant: only neighbours of the right order are compared.
PairsMutant(correct, order) ==
  {p \in (DOMAIN correct) \X (DOMAIN correct) :
     /\ p[1] < p[2]
     /\ \E a \in 1..(Len(order) - 1) :
          order[a] = correct[p[1]] /\ order[a + 1] = correct[p[2]]}

\* Every pair of items in the right relative order counts.
PairsInOrder(correct, order) ==
  {p \in (DOMAIN correct) \X (DOMAIN correct) :
     /\ p[1] < p[2]
     /\ \E a, b \in DOMAIN order :
          a < b /\ order[a] = correct[p[1]] /\ order[b] = correct[p[2]]}

GradeOrdering(payload, order) ==
  LET n == Len(payload.correct) IN
    IF Len(order) # n \/ ToSet(order) # ToSet(payload.correct) \/ n < 2
      THEN Rejected
      ELSE Percentage(Cardinality(PairsInOrder(payload.correct, order)), (n * (n - 1)) \div 2)

\* Mutant: a selection that contains the correct keys scores in full.
GradeMutant(type, payload, response) ==
  CASE type \in ChoiceTypes \cup {"line_selection"} ->
         IF response # <<>> /\ payload.correct \subseteq ToSet(response) THEN 10000 ELSE 0
    [] type = "matching" -> GradeMatching(payload, response)
    [] type = "ordering" -> GradeOrdering(payload, response)
Grade(type, payload, response) ==
  CASE type \in ChoiceTypes \cup {"line_selection"} -> GradeKeys(type, payload, response)
    [] type = "matching" -> GradeMatching(payload, response)
    [] type = "ordering" -> GradeOrdering(payload, response)
=============================================================================
