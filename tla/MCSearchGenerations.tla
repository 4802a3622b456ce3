------------------------ MODULE MCSearchGenerations ------------------------
(* Instances of SearchGenerations for TLC. *)
EXTENDS SearchGenerations

CONSTANTS d1, d2, d3

\* No filter, filters that divide the documents, and one that lets nothing through.
AllSomeAndNone == {{d1, d2, d3}, {d1, d2}, {d3}, {}}
============================================================================
