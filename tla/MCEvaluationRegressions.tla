---------------------- MODULE MCEvaluationRegressions ----------------------
(* Instances of EvaluationRegressions for TLC. *)
EXTENDS EvaluationRegressions, TLC

CONSTANTS a1, a2, q1, q2, b1, b2

Interchangeable ==
    Permutations({a1, a2}) \cup Permutations({q1, q2}) \cup Permutations({b1, b2})
============================================================================
