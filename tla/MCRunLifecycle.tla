--------------------------- MODULE MCRunLifecycle ---------------------------
(* Instances of RunLifecycle for TLC. *)
EXTENDS RunLifecycle, TLC

\* Runs and workers are interchangeable in the safety runs.
Symmetry == Permutations(Runs) \cup Permutations(Workers)
=============================================================================
