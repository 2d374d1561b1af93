SPECIFICATION MCSpec
CONSTANTS
  Priorities = {0, 1}
  Positions = {p1, p2}
  None = None
  MaxHandlers = 3
  MaxListeners = 2
  MaxCommands = 2
INVARIANTS
  TypeOK
  ClaimConsistent
  DeliveriesAreDue
  OnlyOwnerInGesture
  ListenersInStep
CHECK_DEADLOCK FALSE
