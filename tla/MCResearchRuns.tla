-------------------------- MODULE MCResearchRuns --------------------------
(* Instances of ResearchRuns for TLC. *)
EXTENDS ResearchRuns, TLC

CONSTANTS c1, c2, r1, r2

Processes == Permutations({c1, c2})
===========================================================================
