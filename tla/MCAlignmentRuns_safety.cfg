SPECIFICATION Spec
CONSTANTS
  c1 = c1
  c2 = c2
  Coordinators = {c1, c2}
  Extraction <- TwoStages
  MaxRuns = 2
  Touched = {1}
  MaxReviews = 1
  MaxEvents = 1
SYMMETRY Interchangeable
INVARIANT RunsAreSound
PROPERTIES VerdictIsFinal PublishedIsStable
CHECK_DEADLOCK FALSE
