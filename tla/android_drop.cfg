SPECIFICATION Spec
CONSTANTS
  MaxHandlers = 1
  MaxToggles = 0
  MaxGestures = 1
  MaxRejections = 0
  MaxFailures = 0
  None = None
INVARIANT DroppedIsUnregistered
CHECK_DEADLOCK FALSE
