SPECIFICATION Spec
CONSTANTS
  a1 = a1
  a2 = a2
  q1 = q1
  q2 = q2
  b1 = b1
  b2 = b2
  Actors = {a1, a2}
  Results = {q1, q2}
  BaselineRuns = {b1, b2}
  MaxRevision = 8
  MaxCrashes = 1
  MaxLapses = 1
SYMMETRY Interchangeable
INVARIANTS RecordsAreSound OccurrencesCounted
PROPERTY NoSilentChange
CHECK_DEADLOCK FALSE
