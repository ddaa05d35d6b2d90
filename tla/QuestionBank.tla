---------------------------- MODULE QuestionBank ----------------------------
(***************************************************************************)
(* The bank of questions while editors change it and an employee starts an *)
(* attempt (assessment/views.py and forms.py, admin.py,                    *)
(* services/blueprint_validation.py, question_selection.py, attempts.py,   *)
(* results.py). The start is one transaction at READ COMMITTED: every      *)
(* query of it sees what is committed at that moment. An editor's request  *)
(* validates what was posted before its own transaction writes it.         *)
(***************************************************************************)
EXTENDS QuestionRules, FiniteSetsExt

CONSTANTS
  Editors,       \* requests, each with the page it was made from
  Questions,
  Family,        \* [Questions -> families] at first
  Skill,         \* [families -> skills] at first
  Quota,         \* [skills -> question_count] of the blueprint
  Slug,          \* [skills -> slugs], unique within a topic only
  Edited,        \* the question the editors work on
  RowIds,        \* primary keys of its rows
  Places,        \* families it may be filed under
  Moves,         \* <<family, skill>>: where families may be moved
  Switched       \* families and skills that are switched on and off

VARIABLES
  bank,          \* status, type, family and rows of each question
  skillOf,       \* QuestionFamily.skill
  inactive,      \* families and skills that are off (a topic: all its skills)
  editor,        \* the request of each editor
  start,         \* the start in progress: the quotas that are left, the Question
                 \* objects that were loaded, the snapshots; whether a family or a
                 \* question was moved between two of its draws
  attempt        \* the questions of the committed attempt

vars == <<bank, skillOf, inactive, editor, start, attempt>>

Kind(type) == IF type \in ChoiceTypes THEN "option" ELSE "line"
\* Rows have different texts here: what is valid depends on number and marks.
AsRows(rows) ==
  [i \in 1..Cardinality(DOMAIN rows) |->
     LET id == SetToSortSeq(DOMAIN rows, <)[i] IN [text |-> ToString(id), mate |-> "", right |-> rows[id]]]
NoRows == [id \in {} |-> FALSE]
Ready(q) ==
  [type |-> "single_choice", status |-> "active", family |-> Family[q],
   rows |-> [kind \in {"option", "line"} |-> IF kind = "option" THEN [id \in {1, 2} |-> id = 1] ELSE NoRows]]

Idle == [pc |-> "idle", known |-> {}, type |-> "", status |-> "", family |-> "",
         rows |-> NoRows, changed |-> {}, stale |-> FALSE]
NoStart == [pc |-> "count", left |-> DOMAIN Quota, short |-> DOMAIN Quota = {}, loaded |-> {},
            snapshots |-> {}, moved |-> FALSE]

Init ==
  /\ bank = [q \in Questions |-> Ready(q)]
  /\ skillOf = Skill
  /\ inactive = {}
  /\ editor = [e \in Editors |-> Idle]
  /\ start = NoStart
  /\ attempt = {}

-----------------------------------------------------------------------------
(* _mentor_question_editor *)

\* The page is rendered with the rows of the moment.
OpenForm(e) ==
  /\ editor[e].pc = "idle"
  /\ editor' = [editor EXCEPT ![e] = [Idle EXCEPT !.pc = "form",
       !.known = UNION {DOMAIN bank[Edited].rows[kind] : kind \in {"option", "line"}}]]
  /\ UNCHANGED <<inactive, bank, skillOf, start, attempt>>

\* Mutant: an active question is stored unvalidated.
AcceptsMutant(status, type, rows) == TRUE
\* The formset of the posted type validates the posted rows of an active
\* question; a draft is not validated.
Accepts(status, type, rows) == status = "active" => Valid(type, AsRows(rows))

\* QuestionEditorForm: an active family, or the one the question has.
MayPlace(f) == {f, skillOf[f]} \cap inactive = {} \/ f = bank[Edited].family

\* is_valid: the form of a row that is gone is refused; the others are
\* compared with what is stored now, and only changed ones will be written.
PostForm(e, status, type, family, rows) ==
  LET stored == bank[Edited].rows[Kind(type)] IN
    /\ editor[e].pc = "form"
    /\ MayPlace(family)
    /\ (DOMAIN rows) \cap editor[e].known \subseteq DOMAIN stored
    /\ ((DOMAIN rows) \ editor[e].known) \cap DOMAIN stored = {}
    /\ Accepts(status, type, rows)
    /\ editor' = [editor EXCEPT ![e] =
         [pc |-> "posted", known |-> editor[e].known, type |-> type, status |-> status,
          family |-> family, rows |-> rows, stale |-> editor[e].stale,
          changed |-> {id \in DOMAIN rows : id \notin DOMAIN stored \/ rows[id] # stored[id]}]]
    /\ UNCHANGED <<inactive, bank, skillOf, start, attempt>>

\* _delete_unused_question_configuration of the editor; not of the admin form
OtherRows(kind, admin) == IF admin THEN bank[Edited].rows[kind] ELSE NoRows

\* Between two queries of select_questions_for_blueprint.
Drawing == start.pc = "draw" /\ start.left \notin {{}, DOMAIN Quota}

\* The transaction: the question, the changed, new and deleted rows, and the
\* rows of every other type go, which the admin form leaves. A changed row deleted meanwhile is inserted
\* again; one added meanwhile by another editor stays.
SaveForm(e, admin) ==
  LET f == editor[e]
      old == bank[Edited].rows[Kind(f.type)]
      kept == (DOMAIN old \ (f.known \ DOMAIN f.rows)) \cup f.changed
      saved == [id \in kept |-> IF id \in f.changed THEN f.rows[id] ELSE old[id]]
  IN /\ f.pc = "posted"
     /\ bank' = [bank EXCEPT ![Edited] =
          [type |-> f.type, status |-> f.status, family |-> f.family,
           rows |-> [kind \in {"option", "line"} |-> IF kind = Kind(f.type) THEN saved ELSE OtherRows(kind, admin)]]]
     /\ editor' = [x \in Editors |->
          IF x = e THEN [Idle EXCEPT !.pc = "done", !.stale = f.stale]
          ELSE [editor[x] EXCEPT !.stale = @ \/ editor[x].pc \in {"form", "posted"}]]
     /\ start' = [start EXCEPT !.moved = @ \/ (Drawing /\ f.family # bank[Edited].family)]
     /\ UNCHANGED <<inactive, skillOf, attempt>>

\* _mentor_family_editor, and the admin lists of families, skills and topics
SwitchFamily(x) ==
  /\ inactive' = IF x \in inactive THEN inactive \ {x} ELSE inactive \cup {x}
  /\ UNCHANGED <<bank, skillOf, editor, start, attempt>>

\* QuestionFamilyEditorForm, or the admin form: the family of another skill
MoveFamily(f, s) ==
  /\ skillOf[f] # s
  /\ skillOf' = [skillOf EXCEPT ![f] = s]
  /\ start' = [start EXCEPT !.moved = @ \/ Drawing]
  /\ UNCHANGED <<bank, inactive, editor, attempt>>

-----------------------------------------------------------------------------
(* start_exam_attempt: the composition of the attempt *)

\* The active questions of a skill: one query.
Pool(s) ==
  {q \in Questions : /\ bank[q].status = "active"
                     /\ skillOf[bank[q].family] = s
                     /\ {bank[q].family, s} \cap inactive = {}}
FamiliesOf(s) == {bank[q].family : q \in Pool(s)}

\* validate_blueprint_question_pool counts the families of one quota ...
CountFamilies(s) ==
  /\ start.pc = "count"
  /\ s \in start.left
  /\ start' = [start EXCEPT !.left = @ \ {s},
                            !.short = @ \/ Cardinality(FamiliesOf(s)) < Quota[s]]
  /\ UNCHANGED <<bank, skillOf, inactive, editor, attempt>>

\* ... and, when all are counted, refuses a blueprint without quotas or with too few.
ValidatePool ==
  /\ start.pc = "count"
  /\ start.left = {}
  /\ start' = [start EXCEPT !.pc = IF start.short THEN "refused" ELSE "draw",
                            !.left = DOMAIN Quota]
  /\ UNCHANGED <<bank, skillOf, inactive, editor, attempt>>

\* Mutant: questions are drawn without regard to their families.
SelectionsMutant(s) == {qs \in SUBSET Pool(s) : Cardinality(qs) = Quota[s]}
\* Quota many families of the skill, one active question of each.
Selections(s) ==
  {qs \in SUBSET Pool(s) :
     /\ Cardinality(qs) = Quota[s]
     /\ IsInjective([q \in qs |-> bank[q].family])}

\* The Question object with its family and skill, as the query loads it.
Loaded(q) ==
  [question |-> q, type |-> bank[q].type, family |-> bank[q].family,
   skill |-> skillOf[bank[q].family]]

\* select_questions_for_blueprint: the query and the sample of one quota. What
\* was drawn for the other quotas is not looked at.
Select(s) ==
  /\ start.pc = "draw"
  /\ s \in start.left
  /\ \E qs \in Selections(s) :
       start' = [start EXCEPT !.left = @ \ {s}, !.loaded = @ \cup {Loaded(q) : q \in qs}]
  /\ UNCHANGED <<bank, skillOf, inactive, editor, attempt>>

\* The skill has lost families since they were counted: random.sample raises
\* and the transaction is rolled back.
SampleFails(s) ==
  /\ start.pc = "draw"
  /\ s \in start.left
  /\ Cardinality(FamiliesOf(s)) < Quota[s]
  /\ start' = [NoStart EXCEPT !.pc = "failed"]
  /\ UNCHANGED <<bank, skillOf, inactive, editor, attempt>>

\* The rows of the kind that the loaded type names are queried now.
RowsOf(d) == bank[d.question].rows[Kind(d.type)]

\* Mutant: the snapshot trusts the editors.
SnapshotValidMutant(d) == TRUE
\* build_question_snapshot_data validates the rows it reads, by the type of the
\* object that was loaded with the draw.
SnapshotValid(d) == Valid(d.type, AsRows(RowsOf(d)))

Taken == {s.of : s \in start.snapshots}
SnapshotNext(d) ==
  /\ start.pc = "draw"
  /\ start.left = {}
  /\ d \in start.loaded \ Taken
  /\ start' = IF SnapshotValid(d)
                THEN [start EXCEPT !.snapshots = @ \cup {[of |-> d, rows |-> RowsOf(d)]}]
                ELSE [NoStart EXCEPT !.pc = "refused"]
  /\ UNCHANGED <<bank, skillOf, inactive, editor, attempt>>

Commit ==
  /\ start.pc = "draw"
  /\ start.left = {}
  /\ Taken = start.loaded
  /\ attempt' = start.snapshots
  /\ start' = [NoStart EXCEPT !.pc = "committed", !.moved = start.moved]
  /\ UNCHANGED <<bank, skillOf, inactive, editor>>

Restart ==
  /\ start.pc \in {"refused", "failed"}
  /\ start' = NoStart
  /\ UNCHANGED <<bank, skillOf, inactive, editor, attempt>>

-----------------------------------------------------------------------------
\* Mutant: each answer of a skill replaces the one before.
SkillBreakdownMutant == [slug \in {Slug[s.of.skill] : s \in attempt} |-> 1]
\* _build_breakdown: question_count of skill_breakdown, by the slug that was copied
SkillBreakdown ==
  [slug \in {Slug[s.of.skill] : s \in attempt} |->
     Cardinality({s \in attempt : Slug[s.of.skill] = slug})]

PostedRows(e) == UNION {[ids -> BOOLEAN] : ids \in SUBSET RowIds}
EditorStep(e) ==
  \/ OpenForm(e)
  \/ \E admin \in BOOLEAN : SaveForm(e, admin)
  \/ /\ editor[e].pc = "form"
     /\ \E status \in {"draft", "active"}, type \in {"single_choice", "line_selection"},
           family \in Places : \E rows \in PostedRows(e) : PostForm(e, status, type, family, rows)

Next ==
  \/ \E e \in Editors : EditorStep(e)
  \/ \E x \in Switched : SwitchFamily(x)
  \/ \E m \in Moves : MoveFamily(m[1], m[2])
  \/ \E s \in DOMAIN Quota : CountFamilies(s) \/ Select(s) \/ SampleFails(s)
  \/ ValidatePool \/ Commit \/ Restart
  \/ \E d \in start.loaded : SnapshotNext(d)

Spec == Init /\ [][Next]_vars

-----------------------------------------------------------------------------
(* Properties *)

\* The rows, and what the validators of the models allow
QuestionFamily == {Family[q] : q \in Questions} \cup Places
SkillRows == {Skill[f] : f \in DOMAIN Skill} \cup {m[2] : m \in Moves}
Question ==
  [type: {"single_choice", "line_selection"}, status: {"draft", "active"},
   family: QuestionFamily,
   rows: [{"option", "line"} -> UNION {[ids -> BOOLEAN] : ids \in SUBSET RowIds}]]
BlueprintSkillQuota == \A s \in DOMAIN Quota : s \in SkillRows /\ Quota[s] \in 1..20

\* The questions, the families and the composition of an attempt have their
\* types.
TypeOK ==
  /\ bank \in [Questions -> Question]
  /\ skillOf \in [DOMAIN Skill -> SkillRows]
  /\ inactive \subseteq DOMAIN Skill \cup SkillRows
  /\ BlueprintSkillQuota
  /\ {s.of.question : s \in attempt \cup start.snapshots} \subseteq Questions

\* Whatever two editors leave behind, every question an employee gets can be
\* answered: the snapshot of a committed attempt is a valid question, also when
\* its type and its rows were read at different moments.
SnapshotsSolvable == \A s \in attempt : Valid(s.of.type, AsRows(s.rows))

\* An attempt has the quota of every skill, from families that differ, by what
\* was loaded with the draw of that skill, although the pool is counted, drawn
\* and copied at different moments. A family comes twice, and so a question,
\* only if a family or a question was moved between two draws of the start.
ComposedAsPlanned ==
  attempt # {} =>
    /\ \A k \in DOMAIN Quota : Cardinality({s \in attempt : s.of.skill = k}) = Quota[k]
    /\ \A s, t \in attempt :
         s.of.family = t.of.family /\ (s.of.skill = t.of.skill \/ ~start.moved) => s = t

\* A request that was saved had a page from before another one was saved.
Overlapped == \E e \in Editors : editor[e].pc = "done" /\ editor[e].stale

\* The validation of the editor: a question is active and invalid only after a
\* request that overlapped another one; requests one after the other, whoever
\* makes them, leave no such question.
LoneEditorSafe ==
  ~Overlapped =>
    (bank[Edited].status = "active" =>
       Valid(bank[Edited].type, AsRows(bank[Edited].rows[Kind(bank[Edited].type)])))

\* The result by skills has one line for each skill of the blueprint, with
\* the number of its questions.
BreakdownPerSkill ==
  attempt # {} => \A k \in DOMAIN Quota : SkillBreakdown[Slug[k]] = Quota[k]
=============================================================================
