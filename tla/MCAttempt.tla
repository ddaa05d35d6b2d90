------------------------------ MODULE MCAttempt ------------------------------
(* Instances of AttemptLifecycle for TLC.                                  *)
EXTENDS AttemptLifecycle, TLC

Symmetry == Permutations(Tabs) \cup Permutations(Workers)
            \cup Permutations(Ops) \cup Permutations(Runs)
=============================================================================
