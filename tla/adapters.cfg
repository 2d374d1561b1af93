SPECIFICATION AdaptersSpec
CONSTANTS
  Scenarios = {"apple", "web", "android", "runtime", "storage", "codec"}
  Reentrant = FALSE
  MaxTransitions = 6
  MaxObservers = 2
  Systems = {"uikit", "appkit", "watchkit", "scene"}
  MaxPresses = 2
  InstanceKeys = {k}
  Types = {A, B}
  NoType = NoType
  Keys <- MCKeys
  Namespace <- MCNamespace
  OtherNamespace <- MCOther
  OwnKeys <- MCKeys
  OtherKey <- MCOtherKey
  None = None
  MaxSaves = 3
  Snapshots <- MCSnapshots
  MaxEnvelopeBytes = 34
  Alphabet = {0, 1, 49, 128}
  Err = Err
INVARIANTS
  ObserversFollowApplication
  ListenersOwned
  ObserversFollowPage
  ObserversFollowActivity
  PressActsOnce
  RetainedUntilDestroyed
  SaveReplaces
  UnconsumedSurvives
  EntriesOldOrNew
  RoundTrip
  DamageDetected
PROPERTY StopsOnlyWhenAway
CHECK_DEADLOCK FALSE
