SPECIFICATION Spec
CONSTANTS
  c1 = c1
  c2 = c2
  k1 = k1
  k2 = k2
  Coordinators = {c1, c2}
  Cases = {k1, k2}
  Attempts = 2
  CaseConcurrency = 1
  MaxEvents = 1
SYMMETRY Interchangeable
INVARIANTS RunsAreSound OneExecutor
PROPERTIES KeepsContract
CHECK_DEADLOCK FALSE
