SPECIFICATION MCSpec
CONSTANTS
  Reentrant = TRUE
  MaxTransitions = 3
  MaxObservers = 2
  Kinds <- MCStop
INVARIANT StopOnlyAfterStop
CHECK_DEADLOCK FALSE
