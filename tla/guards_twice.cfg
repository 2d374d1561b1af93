SPECIFICATION GuardSpec
CONSTANTS
  Reentrant = TRUE
  MaxTransitions = 3
  MaxObservers = 2
INVARIANT NeverBorrowedTwice
CHECK_DEADLOCK FALSE
