-------------------------- MODULE MCResearchGraph --------------------------
(* Instances of ResearchGraph for TLC. *)
EXTENDS ResearchGraph, TLC

CONSTANTS code, graph, search, neighbors, source, id1, id2

BothCriteria == {code, graph}
AllCalls == {search, neighbors, source}

free(call) == [call |-> call, bound |-> FALSE]
bound(call) == [call |-> call, bound |-> TRUE]

\* RuleBasedPlanner._steps for an architecture query.
SearchThenNeighbors == <<free(search), bound(neighbors)>>

NoPlans == {}
SomePlans == {<<free(search), free(source)>>, <<free(neighbors)>>}
LongPlans == {<<free(search), free(source), free(neighbors)>>}
============================================================================
