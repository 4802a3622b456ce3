SPECIFICATION FairSpec
CONSTANTS
  c1 = c1
  c2 = c2
  r1 = r1
  r2 = r2
  Coordinators = {c1, c2}
  Runs = {r1}
  MaxConcurrentRuns = 1
  Nodes = 2
  MaxFaults = 1
  MaxStalls = 1
INVARIANT OneExecutor
INVARIANT IInv
PROPERTY VerdictIsFinal
PROPERTY CancelNeverAnswers
PROPERTY NeverReplayed
PROPERTY EveryRunEnds
CHECK_DEADLOCK FALSE
