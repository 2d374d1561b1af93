------------------------------ MODULE RuntimeHost ---------------------------
(***************************************************************************)
(* crates/essenty/src/runtime.rs and                                       *)
(* crates/essenty-instance-keeper/src/keeper.rs: a Runtime, which moves    *)
(* its lifecycle for the host and ends the scope of its InstanceKeeper     *)
(* with it, and the components that retain instances there.                *)
(*                                                                         *)
(* dispatch borrows the Runtime mutably until it returns, so that its      *)
(* keeper is used between dispatches only; the lifecycle is a handle that  *)
(* components have clones of.  Of the platform events this is the          *)
(* lifecycle's; the others are single calls of the BackDispatcher (see the *)
(* host in BackDispatcher) and of StateKeeper::save.                       *)
(***************************************************************************)
EXTENDS LifecycleRegistry

CONSTANTS
  InstanceKeys,  \* the keys in use
  Types,         \* the types of the instances
  NoType

ASSUME RuntimeAssumption == NoType \notin Types

VARIABLES
  instances,  \* InstanceKeeper::instances: the type of what a key retains
  ended,      \* InstanceKeeper::destroyed
  pending,    \* the event dispatch is at work on, "none" between dispatches
  aside       \* history: a component has destroyed the lifecycle itself

instanceVars == <<instances, ended>>
runtimeVars  == <<instanceVars, pending, aside>>
runtimeAll  == <<vars, runtimeVars>>

Empty         == [key \in InstanceKeys |-> NoType]
Retained(key) == instances[key] # NoType

-----------------------------------------------------------------------------
RuntimeInit ==
  /\ Init
  /\ instances = Empty /\ ended = FALSE
  /\ pending = "none" /\ aside = FALSE

Idle == stack = <<>> /\ pending = "none"

(* The keeper is in the hands of user code. *)
KeeperCall == Idle /\ UNCHANGED <<vars, ended, pending, aside>>

(* put; and get_or_create, which for a key that is taken changes nothing,  *)
(* as get does for any.                                                    *)
Put(key, type) ==
  /\ KeeperCall
  /\ ~ ended /\ ~ Retained(key)
  /\ instances' = [instances EXCEPT ![key] = type]

(* remove takes the entry out, and puts it back when it has another type;  *)
(* destroy takes it out whatever its type is.                              *)
RemoveInstance(key, type) ==
  /\ KeeperCall
  /\ Retained(key) /\ instances[key] = type
  /\ instances' = [instances EXCEPT ![key] = NoType]

Clear == KeeperCall /\ instances' = Empty

DestroyAll == ended' = TRUE /\ instances' = IF ended THEN instances ELSE Empty

Keeper ==
  \/ \E key \in InstanceKeys, type \in Types :
       Put(key, type) \/ RemoveInstance(key, type)
  \/ Clear

-----------------------------------------------------------------------------
(* dispatch(Lifecycle(target)): move_to, whose error `?` returns before    *)
(* the keeper is looked at.                                                *)
Dispatch(target) ==
  /\ Idle
  /\ MoveTo(target)
  /\ pending' = target
  /\ UNCHANGED <<instanceVars, aside>>

DispatchReturnsEmpty ==  \* mutant: an empty keeper is left alone
  /\ stack = <<>> /\ pending # "none"
  /\ pending' = "none"
  /\ IF ret = "Ok" /\ pending = "Destroyed" /\ \E key \in InstanceKeys : Retained(key)
     THEN DestroyAll ELSE UNCHANGED instanceVars
  /\ UNCHANGED <<vars, aside>>

DispatchReturns ==
  /\ stack = <<>> /\ pending # "none"
  /\ pending' = "none"
  /\ IF ret = "Ok" /\ pending = "Destroyed" THEN DestroyAll
                                           ELSE UNCHANGED instanceVars
  /\ UNCHANGED <<vars, aside>>

(* Components use their clones of the lifecycle, between dispatches and    *)
(* inside notifications.                                                   *)
ComponentCall ==
  /\ Idle \/ On("callback")
  /\ \/ (StrictStep \/ Components) /\ UNCHANGED aside
     \/ (\E target \in States \ {"Destroyed"} : MoveTo(target)) /\ UNCHANGED aside
     \/ (Destroy \/ MoveTo("Destroyed")) /\ aside' = (aside \/ state # "Destroyed")
  /\ UNCHANGED <<instanceVars, pending>>

RuntimeNext ==
  \/ Keeper
  \/ \E target \in States : Dispatch(target)
  \/ DispatchReturns
  \/ ComponentCall
  \/ (Run \/ CallbackReturn) /\ UNCHANGED runtimeVars

RuntimeSpec == RuntimeInit /\ [][RuntimeNext]_runtimeAll

-----------------------------------------------------------------------------
(* Instances survive whatever the lifecycle does short of its destruction, *)
(* and the end of the scope is final: it comes after the last notification *)
(* of Destroyed, and nothing is retained from then on.  The host's         *)
(* Destroyed brings it about, although observers may move the lifecycle    *)
(* while it is destroyed: only a component that destroys it itself keeps   *)
(* dispatch from getting that far. (runtime.rs 110-115; keeper.rs 71-73,   *)
(* 119-121, 171-176)                                                       *)
RetainedUntilDestroyed ==
  /\ ended =>
       /\ state = "Destroyed" /\ ~ Destroying
       /\ \A key \in InstanceKeys : ~ Retained(key)
  /\ Idle /\ state = "Destroyed" /\ ~ aside => ended

=============================================================================
