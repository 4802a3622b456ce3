SPECIFICATION FairSpec
CONSTANTS
  c1 = c1
  c2 = c2
  Coordinators = {c1}
  Extraction <- OneStage
  MaxRuns = 1
  Touched = {1}
  MaxReviews = 1
  MaxEvents = 0
PROPERTIES ReviewsAreAppendOnly
CHECK_DEADLOCK FALSE
