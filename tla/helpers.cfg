SPECIFICATION MCSpec
CONSTANTS
  Reentrant = TRUE
  MaxTransitions = 3
  MaxObservers = 2
  Kinds <- MCReleased
INVARIANTS
  HelperTypeOK
  HelpersExact
  OneShotFiresOnce
  DestroyReportedOnce
CHECK_DEADLOCK FALSE
