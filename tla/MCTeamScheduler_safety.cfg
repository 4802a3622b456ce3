\* Two jobs, two dispatchers, three workers of which one cannot read the jobs' schema; the
\* event of a job is claimed at most twice, and one process dies, task raises or message is
\* given twice.
SPECIFICATION Spec
CONSTANTS
  Jobs = {j1, j2}
  Workers = {w1, w2, w3}
  Dispatchers = {d1, d2}
  Capable = {w1, w2}
  MaxClaims = 2
  MaxFaults = 1
SYMMETRY TeamSymmetry
INVARIANTS
  DeliveriesAreSound
  HandledAtMostOnce
  DocumentFollowsColumn
PROPERTIES
  SeenCancelWins
  KeepsContract
\* Nothing is owed to anyone once all jobs are created.
CHECK_DEADLOCK FALSE
