---------------------------- MODULE ObserverGuards --------------------------
(***************************************************************************)
(* crates/essenty-lifecycle/src/registry.rs: who owns the Subscriptions of *)
(* a registry, and when an observer's closure is dropped with those it     *)
(* has captured.                                                           *)
(*                                                                         *)
(* The registry holds closures in Rc's: one in the Vec, one in each        *)
(* snapshot of apply that has yet to pass it and one in subscribe while it *)
(* replays.  Whoever gives up the last one drops the closure.  Where that  *)
(* happens in the middle of a borrow_mut, a Subscription in the closure    *)
(* borrows the same RefCell once more, which panics.                       *)
(*                                                                         *)
(* A closure owns the Subscriptions it was created with; what it puts into *)
(* cells of its own later on is not modelled.                              *)
(***************************************************************************)
EXTENDS LifecycleRegistry

VARIABLES
  inHand,    \* the Subscriptions user code has, by their ids
  captured,  \* by closure: the Subscriptions it owns
  panicked   \* history: a RefCell was borrowed twice

guardVars == <<inHand, captured, panicked>>
guardAll == <<vars, guardVars>>

Closures == DOMAIN captured

(* Some Rc of the closure is left, given the Vec and the calls in progress.*)
Elements(seq) == {seq[i] : i \in DOMAIN seq}

Alive(id, vec, calls) ==
  \/ id \in Elements(vec)
  \/ \E i \in DOMAIN calls :
       \/ calls[i].op = "apply" /\ id \in Elements(calls[i].todo)
       \/ calls[i].op \in {"callback", "subscribe"} /\ calls[i].id = id

(* The closures that this step drops. *)
Dropped == {id \in Closures : /\ Alive(id, observers, stack)
                              /\ ~ Alive(id, observers', stack')}

(* The step drops them while the RefCell is borrowed. *)
InBorrow == panicked' = \E id \in Dropped : captured[id] # {}

-----------------------------------------------------------------------------
GuardInit == Init /\ inHand = {} /\ captured = <<>> /\ panicked = FALSE

(* subscribe with a closure that has captured some Subscriptions. *)
SubscribeOwning ==
  /\ Subscribe
  /\ \E guards \in SUBSET inHand :
       /\ inHand' = inHand \ guards
       /\ captured' = [id \in Closures \cup {nextId} |->
                         IF id = nextId THEN guards ELSE captured[id]]
  /\ UNCHANGED panicked

(* Subscription::drop and ::unsubscribe through remove, in user code. *)
DropGuard(g) ==
  /\ Unsubscribe(g)
  /\ inHand' = inHand \ {g}
  /\ InBorrow
  /\ UNCHANGED captured

Detach(g) ==
  /\ UserCode
  /\ inHand' = inHand \ {g}
  /\ UNCHANGED <<vars, captured, panicked>>

(* LifecycleRegistry::unsubscribe, whoever has the Subscription. *)
UnsubscribeId(id) ==
  /\ Unsubscribe(id)
  /\ InBorrow
  /\ UNCHANGED <<inHand, captured>>

(* The end of apply, which clears the Vec in one borrow. *)
ClearObservers ==
  /\ ApplyDone
  /\ InBorrow
  /\ UNCHANGED <<inHand, captured>>

(* An observer returns to apply, which lets go of its Rc, or subscribe     *)
(* lets go of its own and hands the Subscription out: outside a borrow, so *)
(* that what a closure that ends here owns unsubscribes, each in a borrow  *)
(* of its own.                                                             *)
LetGo ==
  /\ On("callback") \/ (On("subscribe") /\ Top.todo = <<>>)
  /\ Return("Ok")
  /\ inHand' = IF On("subscribe") THEN inHand \cup {Top.id} ELSE inHand
  /\ LET released == IF Alive(Top.id, observers, Below) THEN {}
                                                        ELSE captured[Top.id]
     IN  /\ observers' = SelectSeq(observers, LAMBDA id : id \notin released)
         /\ captured' = [captured EXCEPT ![Top.id] = @ \ released]
         /\ panicked' = \E id \in Dropped \ {Top.id} : captured[id] # {}

GuardRun ==
  \/ ClearObservers
  \/ LetGo
  \/ (Notify \/ FinishDestroy \/ MoveToRound \/ Replay) /\ UNCHANGED guardVars

GuardCall ==
  \/ SubscribeOwning
  \/ \E g \in inHand : DropGuard(g) \/ Detach(g)
  \/ \E id \in Closures : UnsubscribeId(id)
  \/ (StrictStep \/ Destroy \/ \E target \in States : MoveTo(target))
       /\ UNCHANGED guardVars

GuardNext == ~ panicked /\ (GuardCall \/ GuardRun)

GuardSpec == GuardInit /\ [][GuardNext]_guardAll

-----------------------------------------------------------------------------
(* "No panics on public paths" (docs/PUBLIC_API_AUDIT.md 155): no call of  *)
(* the registry borrows its RefCell twice, whatever its observers own.     *)
NeverBorrowedTwice == ~ panicked

=============================================================================
