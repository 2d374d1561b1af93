--------------------------- MODULE LifecycleScope ---------------------------
(***************************************************************************)
(* crates/essenty-lifecycle-tokio/src/scope.rs: one LifecycleScope on a    *)
(* registry that its owner and its observers drive, spawning from wherever *)
(* they run.  The tasks run on their own; as in RepeatOnLifecycle, tokio's *)
(* abort() takes effect some time later.                                   *)
(*                                                                         *)
(* spawn and spawn_local differ in the executor only.  A future that was   *)
(* refused with SpawnError::Destroyed is not recorded.                     *)
(***************************************************************************)
EXTENDS LifecycleRegistry, Integers

CONSTANT MaxTasks  \* bound: number of tasks ever spawned

ASSUME ScopeAssumption == MaxTasks \in Nat

VARIABLES
  scope,    \* "none" before with_handle, "open", "dropped"
  aborter,  \* the id of the observer do_on_destroy subscribes, -1 for none
  tracked,  \* ScopeInner::tasks, the tasks whose AbortHandles it holds
  work      \* the tasks ever spawned

scopeVars == <<scope, aborter, tracked, work>>
scopeAll  == <<vars, scopeVars>>

Unfinished(t) == work[t] # "gone"

(* Every handle is taken out of ScopeInner::tasks and aborted. *)
AbortAll ==
  /\ work' = [t \in DOMAIN work |->
                IF t \in tracked /\ Unfinished(t) THEN "aborted" ELSE work[t]]
  /\ tracked' = {}

-----------------------------------------------------------------------------
ScopeInit ==
  /\ Init
  /\ scope = "none" /\ aborter = -1 /\ tracked = {} /\ work = <<>>

(* The closure of do_on_destroy, which is not user code. *)
InAborter == On("callback") /\ Top.id = aborter

(* with_handle.  On a destroyed registry do_on_destroy runs the closure at *)
(* once, which finds no tasks, and subscribes an inert observer: either    *)
(* way one subscription is made.                                           *)
WithHandle ==
  /\ scope = "none"
  /\ Subscribe
  /\ aborter' = nextId
  /\ scope' = "open"
  /\ UNCHANGED <<tracked, work>>

(* The scope is in the caller's hands once with_handle has returned. *)
InHand == scope = "open" /\ UserCode /\ ~ InAborter /\ ~ Subscribing(aborter)

SpawnUnchecked ==  \* mutant of Spawn: check_alive is forgotten
  /\ InHand
  /\ Len(work) < MaxTasks
  /\ work' = Append(work, "running")
  /\ tracked' = {t \in tracked : Unfinished(t)} \cup {Len(work')}
  /\ UNCHANGED <<vars, scope, aborter>>

(* spawn and spawn_local on a live lifecycle: check_alive, the spawn, and  *)
(* track, which first drops the handles of the finished tasks.             *)
Spawn ==
  /\ InHand
  /\ state # "Destroyed"
  /\ Len(work) < MaxTasks
  /\ work' = Append(work, "running")
  /\ tracked' = {t \in tracked : Unfinished(t)} \cup {Len(work')}
  /\ UNCHANGED <<vars, scope, aborter>>

CleanUpAtCreated ==  \* mutant of CleanUp: Created on the way down is taken for it
  /\ InAborter
  /\ IF Top.event = "Destroyed" \/ Rank(Top.event) < Rank(state)
     THEN AbortAll ELSE UNCHANGED <<tracked, work>>
  /\ Return("Ok")
  /\ UNCHANGED <<observers, scope, aborter>>

(* The closure of do_on_destroy in with_handle. *)
CleanUp ==
  /\ InAborter
  /\ IF Top.event = "Destroyed" THEN AbortAll ELSE UNCHANGED <<tracked, work>>
  /\ Return("Ok")
  /\ UNCHANGED <<observers, scope, aborter>>

(* Drop for LifecycleScope: abort, then drop the subscription. *)
DropScope ==
  /\ InHand
  /\ scope' = "dropped"
  /\ AbortAll
  /\ observers' = Without(aborter)
  /\ UNCHANGED <<state, nextId, stack, ret, log, deliveries, aborter>>

(* A task returns by itself, or the abort reaches it. *)
Finish(t) ==
  /\ Unfinished(t)
  /\ work' = [work EXCEPT ![t] = "gone"]
  /\ UNCHANGED <<vars, scope, aborter, tracked>>

(* What else is done with the registry; one of the MaxObservers            *)
(* subscriptions is left for the scope.                                    *)
ScopeOtherCall ==
  \/ StrictStep
  \/ Destroy
  \/ \E target \in States : MoveTo(target)
  \/ Subscribe /\ (scope = "none" => nextId + 1 < MaxObservers)
  \/ \E id \in 0 .. nextId - 1 : id # aborter /\ Unsubscribe(id)

ScopeNext ==
  \/ ~ InAborter /\ WithHandle
  \/ Spawn
  \/ CleanUp
  \/ DropScope
  \/ \E t \in DOMAIN work : Finish(t)
  \/ ~ InAborter /\ (ScopeOtherCall \/ CallbackReturn) /\ UNCHANGED scopeVars
  \/ Run /\ UNCHANGED scopeVars

ScopeSpec == ScopeInit /\ [][ScopeNext]_scopeAll

-----------------------------------------------------------------------------
(* The variables of the scope have their types: it holds handles of its    *)
(* own tasks, and only while it is open. (scope.rs 20-34, 240-248)         *)
ScopeTypeOK ==
  /\ scope \in {"none", "open", "dropped"}
  /\ aborter \in -1 .. nextId - 1
  /\ tracked \subseteq DOMAIN work
  /\ scope # "open" => tracked = {}
  /\ work \in Seq({"running", "aborted", "gone"})

(* "Owns every task spawned through it and cancels them when the lifecycle *)
(* is destroyed or when the scope itself is dropped" (scope.rs 26-27),     *)
(* from whichever observer they were spawned, before or after the scope's  *)
(* own in the notification of Destroyed, and whoever drops the scope there.*)
NoTaskOutlivesScope ==
  \/ scope = "dropped"
  \/ scope = "open" /\ state = "Destroyed" /\ ~ Destroying
  => \A t \in DOMAIN work : work[t] # "running"

(* Until then a task that has not finished is in the scope's hands and     *)
(* none is cancelled, however far down the lifecycle has gone: pruning     *)
(* "finished tasks" (scope.rs 231-237) loses none that destruction or drop *)
(* would have to cancel, and the closure takes nothing but Destroyed for   *)
(* the end. (scope.rs 135-136; registry.rs 365-375)                        *)
TracksTheUnfinished ==
  scope = "open" /\ state # "Destroyed" =>
    \A t \in DOMAIN work : Unfinished(t) => t \in tracked /\ work[t] = "running"

=============================================================================
