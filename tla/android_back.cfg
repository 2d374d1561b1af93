SPECIFICATION MCSpec
CONSTANTS
  MaxHandlers = 2
  MaxToggles = 3
  MaxGestures = 2
  MaxRejections = 2
  MaxFailures = 1
  None = None
INVARIANTS
  TypeOK
  SlotIsRegistered
  FlagTracksSlot
  LeftoversAreRetried
PROPERTIES
  FollowsEnabled
  CloseReturns
CHECK_DEADLOCK FALSE
