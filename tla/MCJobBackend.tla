---------------------------- MODULE MCJobBackend ----------------------------
(* JobBackend for TLC: the bounds and model values are in the cfg files. *)
EXTENDS JobBackend, TLC

JobSymmetry == Permutations(Jobs)
=============================================================================
