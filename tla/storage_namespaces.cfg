SPECIFICATION AdaptersSpec
CONSTANTS
  Scenarios = {"storage"}
  Reentrant = FALSE
  MaxTransitions = 6
  MaxObservers = 2
  Systems = {"uikit", "appkit", "watchkit", "scene"}
  MaxPresses = 2
  InstanceKeys = {k}
  Types = {A, B}
  NoType = NoType
  Keys <- MCNestedKeys
  Namespace <- MCNamespace
  OtherNamespace <- MCNestedOther
  OwnKeys <- MCNestedOwn
  OtherKey <- MCOtherKey
  None = None
  MaxSaves = 3
  Snapshots <- MCSnapshots
  MaxEnvelopeBytes = 34
  Alphabet = {0, 1, 49, 128}
  Err = Err
INVARIANT OtherIntact
CHECK_DEADLOCK FALSE
