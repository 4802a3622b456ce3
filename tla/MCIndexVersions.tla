-------------------------- MODULE MCIndexVersions --------------------------
(* Instances of IndexVersions for TLC. *)
EXTENDS IndexVersions
============================================================================
