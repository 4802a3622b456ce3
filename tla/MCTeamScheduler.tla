-------------------------- MODULE MCTeamScheduler --------------------------
(* TeamScheduler for TLC: the bounds and model values are in the cfg files. *)
EXTENDS TeamScheduler, TLC

TeamSymmetry == Permutations(Jobs) \cup Permutations(Dispatchers)
                    \cup Permutations(Capable)
=============================================================================
