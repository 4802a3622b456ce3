------------------------- MODULE MCEvaluationRuns -------------------------
(* Instances of EvaluationRuns for TLC. *)
EXTENDS EvaluationRuns, TLC

CONSTANTS c1, c2, k1, k2

Interchangeable == Permutations({c1, c2}) \cup Permutations({k1, k2})
===========================================================================
