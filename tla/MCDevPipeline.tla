--------------------------- MODULE MCDevPipeline ---------------------------
(* Instances of DevPipeline for TLC. *)
EXTENDS DevPipeline, TLC

Symmetry == Permutations(Executors)
=============================================================================
