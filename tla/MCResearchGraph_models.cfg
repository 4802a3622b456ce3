SPECIFICATION Spec
CONSTANTS
  code = code
  graph = graph
  search = search
  neighbors = neighbors
  source = source
  id1 = id1
  id2 = id2
  Criteria <- BothCriteria
  Calls <- AllCalls
  DirectCall = search
  RuleSteps <- SearchThenNeighbors
  ModelPlans <- SomePlans
  ModelIds = {id1, id2}
  MaxToolCalls = 3
  MaxReplans = 1
  AnswerEnabled = TRUE
  MaxCrashes = 1
CHECK_DEADLOCK FALSE
INVARIANT CallsWithinBudget
INVARIANT SuccessPaidOnce
INVARIANT CompletedHasEvidence
INVARIANT PlansAreSound
INVARIANT OneToolAfterCancel
