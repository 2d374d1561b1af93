SPECIFICATION Spec
CONSTANTS
  MaxHandlers = 1
  MaxToggles = 3
  MaxGestures = 0
  MaxRejections = 0
  MaxFailures = 0
  None = None
INVARIANT OwnedUntilUnregistered
CHECK_DEADLOCK FALSE
