SPECIFICATION SearchSpec
CONSTANTS
  d1 = d1
  d2 = d2
  d3 = d3
  Searchers = {s1, s2}
  Documents = {d1, d2, d3}
  Filters <- AllSomeAndNone
  DenseTopK = 2
  FinalTopK = 2
  MaxSearches = 3
  MaxFaults = 1
INVARIANTS IndexesAreSound AnswersAreRight
CHECK_DEADLOCK FALSE
