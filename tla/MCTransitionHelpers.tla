------------------------- MODULE MCTransitionHelpers ------------------------
(***************************************************************************)
(* Three small instances of the helpers, one of which a behaviour follows  *)
(* from its first state on:                                                *)
(*   "sequential"  every helper, with observers that leave transitions to  *)
(*                 the owner,                                              *)
(*   "single"      a single helper of any kind, in longer sequences of     *)
(*                 transitions that its own callback may ask for,          *)
(*   "reentrant"   two observers of the constants' kinds that may both     *)
(*                 ask for transitions.                                    *)
(***************************************************************************)
EXTENDS TransitionHelpers

VARIABLE scenario

MCReleased == {k \in AllKinds : k[3]} \cup {DoOnDestroy}
MCStop     == DoOnStop

Sequential == INSTANCE TransitionHelpers WITH
  Reentrant <- FALSE, MaxTransitions <- 4, Kinds <- AllKinds

Single == INSTANCE TransitionHelpers WITH
  Reentrant <- TRUE, MaxTransitions <- 6, MaxObservers <- 1,
  Kinds <- AllKinds

MCInit == HelperInit /\ scenario \in {"sequential", "single", "reentrant"}

MCNext ==
  /\ \/ scenario = "sequential" /\ Sequential!HelperNext
     \/ scenario = "single" /\ Single!HelperNext
     \/ scenario = "reentrant" /\ HelperNext
  /\ UNCHANGED scenario

MCSpec == MCInit /\ [][MCNext]_<<allVars, scenario>>

=============================================================================
