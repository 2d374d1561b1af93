SPECIFICATION Spec
CONSTANTS
  Reentrant = TRUE
  MaxTransitions = 2
  MaxObservers = 2
INVARIANT InTransitionOrder
CHECK_DEADLOCK FALSE
