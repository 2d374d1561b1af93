SPECIFICATION TokioSpec
CONSTANTS
  Reentrant = TRUE
  MaxTransitions = 2
  MaxObservers = 2
  MaxTasks = 2
  StartStates = {"Created", "Started"}
  MinStates = {"Started"}
INVARIANTS
  RepeatTypeOK
  ChildFollowsLifecycle
  OneBlockPerEntry
  NoTaskOutlivesScope
  TracksTheUnfinished
PROPERTIES
  KeepsPromise
  DestructionEnds
  EveryCallReturns
CHECK_DEADLOCK FALSE
