SPECIFICATION Spec
CONSTANTS
  Reentrant = TRUE
  MaxTransitions = 4
  MaxObservers = 2
INVARIANTS
  TypeOK
  DestroyReleasesObservers
  EachNotifiedOnce
  NotifiedInOrder
PROPERTY WalksTheChain
CHECK_DEADLOCK FALSE
