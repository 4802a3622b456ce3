\* Two jobs, two attempts each, three process starts (two of them may end in a shutdown or
\* a crash) and two store faults anywhere; j2 is of a type without a handler.
SPECIFICATION FairSpec
CONSTANTS
  Jobs = {j1, j2}
  MaxAttempts = 2
  Concurrency = 1
  Unhandled = {j2}
  MaxStarts = 3
  MaxFaults = 2
INVARIANTS
  IInv
  CancelledOnlyOnRequest
  OutboxFollowsAttempt
PROPERTIES
  VerdictIsFinal
  CancelBeatsSuccess
  KeepsContract
  EveryJobSettles
\* The process may stay down.
CHECK_DEADLOCK FALSE
