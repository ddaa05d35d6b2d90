------------------------- MODULE LedgerSuiteProofs -------------------------
(***************************************************************************)
(* Proofs about the suite in which TLC checks the reports on the evidence  *)
(* ledger: what LedgerEvidenceProofs shows of a reader for any bounds      *)
(* holds in each of the suite's parts, and a behaviour never leaves its    *)
(* part.                                                                   *)
(***************************************************************************)
EXTENDS MCLedger, TLAPS

-----------------------------------------------------------------------------
(* The parts of the suite.  Each is a behaviour of its instance of          *)
(* LedgerEvidence, to which the theorem of the generic module applies.     *)

\* In the part "checks" the report names the true first check.
LEMMA ChecksHold == SuiteSpec => [](part = "checks" => Checks!FirstCheckTrue)
<1>1. Checks!Spec => []Checks!FirstCheckTrue
  BY Checks!FirstCheckIsTrue DEF Checks!Bounds
<1>2. SuiteInit => (part = "checks" => Checks!Init)
  BY DEF SuiteInit
<1>3. [SuiteNext]_suiteVars => ((part = "checks")' <=> part = "checks")
  BY DEF SuiteNext, suiteVars
<1>4. part = "checks" /\ [SuiteNext]_suiteVars => [Checks!Next]_(Checks!vars)
  <2>1. CASE UNCHANGED suiteVars
    BY <2>1 DEF suiteVars, evidenceVars, Checks!vars, Checks!program, Checks!ledger, Checks!truth
  <2>2. CASE SuiteNext
    BY <2>2 DEF SuiteNext, Checks!vars, Checks!program, Checks!ledger, Checks!truth
  <2> QED  BY <2>1, <2>2
<1> QED  BY <1>1, <1>2, <1>3, <1>4, PTL DEF SuiteSpec, Checks!Spec

\* In the part "resets" the report counts the environments that were made again.
LEMMA ResetsHold == SuiteSpec => [](part = "resets" => Resets!ResetsTrue)
<1>1. Resets!Spec => []Resets!ResetsTrue
  BY Resets!ResetsAreTrue DEF Resets!Bounds
<1>2. SuiteInit => (part = "resets" => Resets!Init)
  BY DEF SuiteInit
<1>3. [SuiteNext]_suiteVars => ((part = "resets")' <=> part = "resets")
  BY DEF SuiteNext, suiteVars
<1>4. part = "resets" /\ [SuiteNext]_suiteVars => [Resets!Next]_(Resets!vars)
  <2>1. CASE UNCHANGED suiteVars
    BY <2>1 DEF suiteVars, evidenceVars, Resets!vars, Resets!program, Resets!ledger, Resets!truth
  <2>2. CASE SuiteNext
    BY <2>2 DEF SuiteNext, Resets!vars, Resets!program, Resets!ledger, Resets!truth
  <2> QED  BY <2>1, <2>2
<1> QED  BY <1>1, <1>2, <1>3, <1>4, PTL DEF SuiteSpec, Resets!Spec

\* In the part "answers" the report gives the decisions that stood, unless more
\* than one write overlapped its read beside a change past the ledger.
LEMMA AnswersHold == SuiteSpec => [](part = "answers" => Answers!AnswersTrue)
<1>1. Answers!Spec => []Answers!AnswersTrue
  BY Answers!AnswersAreTrue DEF Answers!Bounds
<1>2. SuiteInit => (part = "answers" => Answers!Init)
  BY DEF SuiteInit
<1>3. [SuiteNext]_suiteVars => ((part = "answers")' <=> part = "answers")
  BY DEF SuiteNext, suiteVars
<1>4. part = "answers" /\ [SuiteNext]_suiteVars => [Answers!Next]_(Answers!vars)
  <2>1. CASE UNCHANGED suiteVars
    BY <2>1 DEF suiteVars, evidenceVars, Answers!vars, Answers!program, Answers!ledger, Answers!truth
  <2>2. CASE SuiteNext
    BY <2>2 DEF SuiteNext, Answers!vars, Answers!program, Answers!ledger, Answers!truth
  <2> QED  BY <2>1, <2>2
<1> QED  BY <1>1, <1>2, <1>3, <1>4, PTL DEF SuiteSpec, Answers!Spec

\* In the part "program" a completion counts the resets of all its tasks.
LEMMA ProgramHold == SuiteSpec => [](part = "program" => Program!ProgramResetsTrue)
<1>1. Program!Spec => []Program!ProgramResetsTrue
  BY Program!ProgramResetsAreTrue DEF Program!Bounds
<1>2. SuiteInit => (part = "program" => Program!Init)
  BY DEF SuiteInit
<1>3. [SuiteNext]_suiteVars => ((part = "program")' <=> part = "program")
  BY DEF SuiteNext, suiteVars
<1>4. part = "program" /\ [SuiteNext]_suiteVars => [Program!Next]_(Program!vars)
  <2>1. CASE UNCHANGED suiteVars
    BY <2>1 DEF suiteVars, evidenceVars, Program!vars, Program!program, Program!ledger, Program!truth
  <2>2. CASE SuiteNext
    BY <2>2 DEF SuiteNext, Program!vars, Program!program, Program!ledger, Program!truth
  <2> QED  BY <2>1, <2>2
<1> QED  BY <1>1, <1>2, <1>3, <1>4, PTL DEF SuiteSpec, Program!Spec

\* In the part "past" an attempt older than the ledger is not called complete.
LEMMA PastHold == SuiteSpec => [](part = "past" => Past!PastNotTrusted)
<1>1. Past!Spec => []Past!PastNotTrusted
  BY Past!PastIsNotTrusted DEF Past!Bounds
<1>2. SuiteInit => (part = "past" => Past!Init)
  BY DEF SuiteInit
<1>3. [SuiteNext]_suiteVars => ((part = "past")' <=> part = "past")
  BY DEF SuiteNext, suiteVars
<1>4. part = "past" /\ [SuiteNext]_suiteVars => [Past!Next]_(Past!vars)
  <2>1. CASE UNCHANGED suiteVars
    BY <2>1 DEF suiteVars, evidenceVars, Past!vars, Past!program, Past!ledger, Past!truth
  <2>2. CASE SuiteNext
    BY <2>2 DEF SuiteNext, Past!vars, Past!program, Past!ledger, Past!truth
  <2> QED  BY <2>1, <2>2
<1> QED  BY <1>1, <1>2, <1>3, <1>4, PTL DEF SuiteSpec, Past!Spec

\* In the part "quiet" no reason against an attempt is spurious.
LEMMA QuietHold == SuiteSpec => [](part = "quiet" => Quiet!QuietComplete)
<1>1. Quiet!Spec => []Quiet!QuietComplete
  BY Quiet!QuietIsComplete DEF Quiet!Bounds
<1>2. SuiteInit => (part = "quiet" => Quiet!Init)
  BY DEF SuiteInit
<1>3. [SuiteNext]_suiteVars => ((part = "quiet")' <=> part = "quiet")
  BY DEF SuiteNext, suiteVars
<1>4. part = "quiet" /\ [SuiteNext]_suiteVars => [Quiet!Next]_(Quiet!vars)
  <2>1. CASE UNCHANGED suiteVars
    BY <2>1 DEF suiteVars, evidenceVars, Quiet!vars, Quiet!program, Quiet!ledger, Quiet!truth
  <2>2. CASE SuiteNext
    BY <2>2 DEF SuiteNext, Quiet!vars, Quiet!program, Quiet!ledger, Quiet!truth
  <2> QED  BY <2>1, <2>2
<1> QED  BY <1>1, <1>2, <1>3, <1>4, PTL DEF SuiteSpec, Quiet!Spec

\* attempt_evidence and program_evidence: what the report calls trusted was true at
\* a moment of its read, in every part of the suite; of the answers as far as
\* AnswersTrue says it, for reads with few writes or with none past the ledger.
THEOREM SuiteReportsTrue == SuiteSpec => []ReportsTrue
<1>1. /\ (part = "checks" => Checks!FirstCheckTrue)
      /\ (part = "resets" => Resets!ResetsTrue)
      /\ (part = "answers" => Answers!AnswersTrue)
      /\ (part = "program" => Program!ProgramResetsTrue)
      /\ (part = "past" => Past!PastNotTrusted)
      /\ (part = "quiet" => Quiet!QuietComplete)
      => ReportsTrue
  BY DEF ReportsTrue
<1> QED  BY <1>1, ChecksHold, ResetsHold, AnswersHold, ProgramHold, PastHold, QuietHold, PTL
=============================================================================
