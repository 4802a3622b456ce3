SPECIFICATION SearchSpec
CONSTANTS
  d1 = d1
  d2 = d2
  d3 = d3
  Searchers = {s1, s2}
  Documents = {d1, d2, d3}
  Filters <- AllSomeAndNone
  DenseTopK = 2
  FinalTopK = 2
  MaxSearches = 2
  MaxFaults = 1
INVARIANT ReadyIsFull
CHECK_DEADLOCK FALSE
