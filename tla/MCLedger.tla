------------------------------- MODULE MCLedger -------------------------------
(***************************************************************************)
(* What the reports of the evidence ledger say, in one instance for TLC.   *)
(* A behaviour is one of the part that is chosen at first; the variables   *)
(* serve the instances of LedgerEvidence in turn, each of which gives one  *)
(* kind of evidence room.  The instances are taken with their proofs, so   *)
(* that what is proved for any bounds can be cited for each part.          *)
(***************************************************************************)
EXTENDS Naturals

CONSTANT Parts   \* the instances of LedgerEvidence that are run

VARIABLES
  part,
  active, criteria, manifest, completion, row, runs, coverage, gaps, execs,
  ops, subs, ran, remade, verdict, faults, read

evidenceVars ==
  <<active, criteria, manifest, completion, row, runs, coverage, gaps, execs,
    ops, subs, ran, remade, verdict, faults, read>>

\* Two checks, one of which may be lost; writes during the read.
Checks == INSTANCE LedgerEvidenceProofs WITH
  Tasks <- {"a"}, Reviewed <- {}, Active <- {"a"}, Legacy <- {},
  NewAccount <- TRUE, MaxChecks <- 2, MaxOps <- 0, Kinds <- {"reset"},
  MaxSubs <- 0, MaxReviews <- 0, Versions <- 1, MaxFaults <- 1,
  MaxOverlap <- 2, Scopes <- {"attempt"}

\* Two operations on the environment.
Resets == INSTANCE LedgerEvidenceProofs WITH
  Tasks <- {"a"}, Reviewed <- {}, Active <- {"a"}, Legacy <- {},
  NewAccount <- TRUE, MaxChecks <- 0, MaxOps <- 2, Kinds <- {"start", "reset"},
  MaxSubs <- 0, MaxReviews <- 0, Versions <- 1, MaxFaults <- 1,
  MaxOverlap <- 1, Scopes <- {"attempt"}

\* Two submissions, each of them reviewed; more than the one write beside a change
\* past the ledger that AnswersTrue allows for.
Answers == INSTANCE LedgerEvidenceProofs WITH
  Tasks <- {"a"}, Reviewed <- {"a"}, Active <- {"a"}, Legacy <- {},
  NewAccount <- TRUE, MaxChecks <- 1, MaxOps <- 0, Kinds <- {"reset"},
  MaxSubs <- 2, MaxReviews <- 1, Versions <- 1, MaxFaults <- 1,
  MaxOverlap <- 2, Scopes <- {"attempt"}

\* Some of everything, with nothing lost and nobody else at work.
Quiet == INSTANCE LedgerEvidenceProofs WITH
  Tasks <- {"a"}, Reviewed <- {"a"}, Active <- {"a"}, Legacy <- {},
  NewAccount <- TRUE, MaxChecks <- 2, MaxOps <- 1, Kinds <- {"reset"},
  MaxSubs <- 1, MaxReviews <- 2, Versions <- 1, MaxFaults <- 0,
  MaxOverlap <- 0, Scopes <- {"attempt"}

\* A programme that a second task joins.
Program == INSTANCE LedgerEvidenceProofs WITH
  Tasks <- {"a", "b"}, Reviewed <- {}, Active <- {"a"}, Legacy <- {},
  NewAccount <- TRUE, MaxChecks <- 1, MaxOps <- 1, Kinds <- {"reset"},
  MaxSubs <- 0, MaxReviews <- 0, Versions <- 1, MaxFaults <- 0,
  MaxOverlap <- 0, Scopes <- {"program"}

\* An attempt that is older than the ledger.
Past == INSTANCE LedgerEvidenceProofs WITH
  Tasks <- {"a", "b"}, Reviewed <- {"b"}, Active <- {"a"}, Legacy <- {"a"},
  NewAccount <- TRUE, MaxChecks <- 1, MaxOps <- 0, Kinds <- {"reset"},
  MaxSubs <- 1, MaxReviews <- 1, Versions <- 2, MaxFaults <- 0,
  MaxOverlap <- 0, Scopes <- {"attempt", "program"}

SuiteInit ==
  /\ part \in Parts
  /\ \/ part = "checks" /\ Checks!Init
     \/ part = "resets" /\ Resets!Init
     \/ part = "answers" /\ Answers!Init
     \/ part = "quiet" /\ Quiet!Init
     \/ part = "program" /\ Program!Init
     \/ part = "past" /\ Past!Init

SuiteNext ==
  /\ UNCHANGED part
  /\ \/ part = "checks" /\ Checks!Next
     \/ part = "resets" /\ Resets!Next
     \/ part = "answers" /\ Answers!Next
     \/ part = "quiet" /\ Quiet!Next
     \/ part = "program" /\ Program!Next
     \/ part = "past" /\ Past!Next

suiteVars == <<part, evidenceVars>>
SuiteSpec == SuiteInit /\ [][SuiteNext]_suiteVars

-----------------------------------------------------------------------------
(* The properties of the parts, each stated in its module.                 *)

\* What a report calls trusted was true at some moment of its read, although
\* it is put together from separate queries while others write: the first
\* check with its result, the number of environments that were really made
\* again, the decisions about the answers if at most one write overlapped the
\* read or nothing by-passed the ledger (AnswersTrue says why), and with a
\* completion the resets of all its tasks.  Enabling the ledger does not make
\* the past complete, and where nothing was lost or is open no reason against
\* an attempt is spurious.
ReportsTrue ==
  /\ part = "checks" => Checks!FirstCheckTrue
  /\ part = "resets" => Resets!ResetsTrue
  /\ part = "answers" => Answers!AnswersTrue
  /\ part = "program" => Program!ProgramResetsTrue
  /\ part = "past" => Past!PastNotTrusted
  /\ part = "quiet" => Quiet!QuietComplete
===============================================================================
