-------------------------- MODULE MCAlignmentRuns --------------------------
(* Instances of AlignmentRuns for TLC. *)
EXTENDS AlignmentRuns, TLC

CONSTANTS c1, c2

OneStage == <<"profiling">>
TwoStages == <<"profiling", "recalling">>

Interchangeable == Permutations({c1, c2})
============================================================================
