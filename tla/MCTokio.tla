------------------------------- MODULE MCTokio ------------------------------
(***************************************************************************)
(* Four small instances of the tokio integration, one of which a           *)
(* behaviour follows from its first state on:                              *)
(*   "burst"   a future on a lifecycle that only its owner moves, in       *)
(*             longer sequences,                                           *)
(*   "nested"  a future next to an observer that asks for transitions      *)
(*             inside notifications,                                       *)
(*   "scope"   a scope on a lifecycle that only its owner moves,           *)
(*   "spawner" a scope next to an observer that asks for transitions.      *)
(* The constants of the configuration bound "nested" and "spawner".        *)
(***************************************************************************)
EXTENDS RepeatOnLifecycle, LifecycleScope

VARIABLE scenario

tokioVars == <<repeatAll, scopeAll, scenario>>

Burst == INSTANCE RepeatOnLifecycle WITH
  Reentrant <- FALSE, MaxTransitions <- 4, MaxObservers <- 1,
  StartStates <- {"Initialized", "Created", "Started", "Destroyed"},
  MinStates <- {"Initialized", "Created", "Started"}

Long == INSTANCE LifecycleScope WITH
  Reentrant <- FALSE, MaxTransitions <- 4

NoScope  == scope = "none" /\ aborter = -1 /\ tracked = {} /\ work = <<>>
NoFuture == /\ minState = "Started" /\ phase = "new" /\ sub = -1 /\ sent = <<>>
            /\ taken = 0 /\ child = 0 /\ awaited = 0 /\ blocks = <<>>

TokioInit ==
  \/ scenario = "burst" /\ Burst!RepeatInit /\ NoScope
  \/ scenario = "nested" /\ RepeatInit /\ NoScope
  \/ scenario \in {"scope", "spawner"} /\ ScopeInit /\ NoFuture

TokioNext ==
  /\ \/ scenario = "burst" /\ Burst!RepeatNext /\ UNCHANGED scopeVars
     \/ scenario = "nested" /\ RepeatNext /\ UNCHANGED scopeVars
     \/ scenario = "scope" /\ Long!ScopeNext /\ UNCHANGED repeatVars
     \/ scenario = "spawner" /\ ScopeNext /\ UNCHANGED repeatVars
  /\ UNCHANGED scenario

TokioSpec == TokioInit /\ [][TokioNext]_tokioVars /\ RepeatFairness

=============================================================================
