SPECIFICATION FairSpec
CONSTANTS
  code = code
  graph = graph
  search = search
  neighbors = neighbors
  source = source
  id1 = id1
  id2 = id2
  Criteria <- BothCriteria
  Calls <- AllCalls
  DirectCall = search
  RuleSteps <- SearchThenNeighbors
  ModelPlans <- NoPlans
  ModelIds = {}
  MaxToolCalls = 10
  MaxReplans = 2
  AnswerEnabled = TRUE
  MaxCrashes = 1
CHECK_DEADLOCK FALSE
INVARIANT OnlyCancelledFails
PROPERTY RunEnds
