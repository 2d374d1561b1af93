-------------------------- MODULE LifecycleRegistry -------------------------
(***************************************************************************)
(* crates/essenty-lifecycle/src/registry.rs: LifecycleRegistry with its    *)
(* observers.                                                              *)
(*                                                                         *)
(* The registry is single-threaded (Rc<RefCell<_>>) but reentrant: every   *)
(* observer is called outside the RefCell borrow and may call any method   *)
(* of the registry again.  The model therefore keeps the call stack.  A    *)
(* frame is a method of the registry suspended in a call it made, or an    *)
(* observer that is running.  User code, the owner when the stack is empty *)
(* and an observer when it is the top frame, calls what it likes.          *)
(*                                                                         *)
(* Not modelled: the payload of an observer, overflow of the u64 ids,      *)
(* Debug, and the guards' bookkeeping, which ObserverGuards adds: dropping *)
(* a Subscription, Subscription::unsubscribe and ::unsubscribe of the      *)
(* registry remove the same way, and a detached guard is not dropped.      *)
(***************************************************************************)
EXTENDS LifecycleState, Sequences, FiniteSets

CONSTANTS
  Reentrant,       \* whether observers may ask for transitions
  MaxTransitions,  \* bound: no transition is asked for after so many
  MaxObservers     \* bound: number of subscriptions ever made

ASSUME RegistryAssumption ==
  /\ Reentrant \in BOOLEAN
  /\ MaxTransitions \in Nat
  /\ MaxObservers \in Nat

VARIABLES
  state,       \* RegistryInner::state
  observers,   \* RegistryInner::observers, the ids in the order of the Vec
  nextId,      \* RegistryInner::next_id
  stack,       \* the calls in progress, the innermost last
  ret,         \* Result of the last call that returned, Ok for ()
  log,         \* history: the transitions applied so far
  deliveries   \* history: the observer calls made so far

vars == <<state, observers, nextId, stack, ret, log, deliveries>>

Results == {"Ok", "AlreadyDestroyed", "InvalidTransition"}

Top   == stack[Len(stack)]
Below == SubSeq(stack, 1, Len(stack) - 1)
On(op) == stack # <<>> /\ Top.op = op

(* The frames.  todo is what a loop over a snapshot has still to visit.  *)
ApplyFrame(event, n, todo) ==
  [op |-> "apply", event |-> event, n |-> n, todo |-> todo]
MoveToFrame(target)        == [op |-> "move_to", target |-> target]
DestroyFrame               == [op |-> "destroy"]
SubscribeFrame(id, todo)   == [op |-> "subscribe", id |-> id, todo |-> todo]
CallbackFrame(id, event)   == [op |-> "callback", id |-> id, event |-> event]

Frames ==
  [op : {"apply"}, event : States, n : Nat, todo : Seq(Nat)]
    \cup [op : {"move_to"}, target : {"Created", "Started", "Resumed"}]
    \cup [op : {"destroy"}]
    \cup [op : {"subscribe"}, id : Nat, todo : Seq(States)]
    \cup [op : {"callback"}, id : Nat, event : States]

(* User code is what may call the registry next. *)
UserCode == stack = <<>> \/ On("callback")

(* The bounds on user code: observers ask for transitions only if          *)
(* Reentrant, and nobody does once MaxTransitions have been applied.       *)
MayTransition ==
  /\ UserCode
  /\ stack # <<>> => Reentrant
  /\ Len(log) < MaxTransitions

-----------------------------------------------------------------------------
Init ==
  /\ state = "Initialized"
  /\ observers = <<>>
  /\ nextId = 0
  /\ stack = <<>>
  /\ ret = "Ok"
  /\ log = <<>>
  /\ deliveries = <<>>

(* A call that returns r to user code at once. *)
Answer(r) ==
  /\ ret' = r
  /\ UNCHANGED <<state, observers, nextId, stack, log, deliveries>>

(* The method in the top frame returns r to the frame below. *)
Return(r) ==
  /\ stack' = Below
  /\ ret' = r
  /\ UNCHANGED <<state, nextId, log, deliveries>>

RetreatsExceptStop(from, next) ==  \* mutant of Retreats
  <<from, next>> = <<"Resumed", "Started">> \/ next = "Destroyed"

(* The observers a transition from `from` to `next` notifies, in order:    *)
(* towards Destroyed the Vec is reversed.                                  *)
Retreats(from, next) ==
  \/ from = "Resumed" /\ next = "Started"
  \/ from = "Started" /\ next = "Created"
  \/ next = "Destroyed"

Snapshot(from, next) ==
  IF Retreats(from, next)
  THEN [i \in 1 .. Len(observers) |-> observers[Len(observers) + 1 - i]]
  ELSE observers

(* apply: the state is set and the observers are snapshotted before the    *)
(* first of them runs.  The callers have all excluded Destroyed, so that   *)
(* apply's own AlreadyDestroyed is not reachable.                          *)
Apply(next, below) ==
  /\ state # "Destroyed"
  /\ state' = next
  /\ stack' = Append(below,
                ApplyFrame(next, Len(log) + 1, Snapshot(state, next)))
  /\ log' = Append(log, [from |-> state, to |-> next,
                         registered |-> {observers[i] : i \in DOMAIN observers}])
  /\ UNCHANGED <<observers, nextId, ret, deliveries>>

NotifySubscribed ==  \* mutant of Notify: skips who was removed meanwhile
  /\ On("apply")
  /\ Top.todo # <<>>
  /\ LET rest == [Top EXCEPT !.todo = Tail(@)] IN
     IF \E i \in DOMAIN observers : observers[i] = Head(Top.todo)
     THEN /\ stack' = Below \o <<rest, CallbackFrame(Head(Top.todo), Top.event)>>
          /\ deliveries' = Append(deliveries,
               [id |-> Head(Top.todo), event |-> Top.event, n |-> Top.n])
     ELSE stack' = Append(Below, rest) /\ UNCHANGED deliveries
  /\ UNCHANGED <<state, observers, nextId, ret, log>>

(* The loop of apply: call the next observer of the snapshot, subscribed   *)
(* still or not.                                                           *)
Notify ==
  /\ On("apply")
  /\ Top.todo # <<>>
  /\ stack' = Below \o << [Top EXCEPT !.todo = Tail(@)],
                          CallbackFrame(Head(Top.todo), Top.event) >>
  /\ deliveries' = Append(deliveries,
       [id |-> Head(Top.todo), event |-> Top.event, n |-> Top.n])
  /\ UNCHANGED <<state, observers, nextId, ret, log>>

(* The end of apply: Destroyed drops every observer. *)
ApplyDone ==
  /\ On("apply")
  /\ Top.todo = <<>>
  /\ observers' = IF Top.event = "Destroyed" THEN <<>> ELSE observers
  /\ Return("Ok")

-----------------------------------------------------------------------------
(* create, start, resume, pause and stop through step. *)
Step(from, to) ==
  /\ MayTransition
  /\ \/ state = "Destroyed" /\ Answer("AlreadyDestroyed")
     \/ state \notin {from, "Destroyed"} /\ Answer("InvalidTransition")
     \/ state = from /\ Apply(to, stack)

StrictStep ==
  \/ Step("Initialized", "Created")
  \/ Step("Created", "Started")
  \/ Step("Started", "Resumed")
  \/ Step("Resumed", "Started")
  \/ Step("Started", "Created")

DestroyAtOnce == Apply("Destroyed", stack)  \* mutant of BeginDestroy

(* destroy on a live registry: Initialized goes straight to Destroyed, any *)
(* other state calls move_to(Created) first.                               *)
BeginDestroy ==
  \/ state = "Initialized" /\ Apply("Destroyed", stack)
  \/ /\ state # "Initialized"
     /\ stack' = stack \o << DestroyFrame, MoveToFrame("Created") >>
     /\ UNCHANGED <<state, observers, nextId, ret, log, deliveries>>

Destroy ==
  /\ MayTransition
  /\ \/ state = "Destroyed" /\ Answer("AlreadyDestroyed")
     \/ state # "Destroyed" /\ BeginDestroy

DestroyRetrying ==  \* mutant of FinishDestroy: tries move_to again on error
  /\ On("destroy")
  /\ \/ /\ ret # "Ok"
        /\ stack' = Append(stack, MoveToFrame("Created"))
        /\ UNCHANGED <<state, observers, nextId, ret, log, deliveries>>
     \/ ret = "Ok" /\ Apply("Destroyed", Below)

(* destroy after its move_to: `?` hands an error on, otherwise apply is    *)
(* the tail call.                                                          *)
FinishDestroy ==
  /\ On("destroy")
  /\ \/ ret # "Ok" /\ Return(ret) /\ UNCHANGED observers
     \/ ret = "Ok" /\ Apply("Destroyed", Below)

MoveToAnything(target) ==  \* mutant of MoveTo: Initialized is not refused
  /\ MayTransition
  /\ \/ state = "Destroyed" /\ Answer("AlreadyDestroyed")
     \/ state # "Destroyed" /\ target = "Destroyed" /\ BeginDestroy
     \/ state # "Destroyed" /\ target = state /\ Answer("Ok")
     \/ /\ state # "Destroyed"
        /\ target \notin {state, "Destroyed"}
        /\ stack' = Append(stack, MoveToFrame(target))
        /\ UNCHANGED <<state, observers, nextId, ret, log, deliveries>>

(* move_to up to its loop. *)
MoveTo(target) ==
  /\ MayTransition
  /\ \/ state = "Destroyed" /\ Answer("AlreadyDestroyed")
     \/ state # "Destroyed" /\ target = "Destroyed" /\ BeginDestroy
     \/ state # "Destroyed" /\ target = state /\ Answer("Ok")
     \/ /\ state \notin {"Destroyed", "Initialized"}
        /\ target = "Initialized"
        /\ Answer("InvalidTransition")
     \/ /\ state # "Destroyed"
        /\ target \notin {state, "Initialized", "Destroyed"}
        /\ stack' = Append(stack, MoveToFrame(target))
        /\ UNCHANGED <<state, observers, nextId, ret, log, deliveries>>

(* One round of the loop of move_to: the state is read again each time,    *)
(* because observers of the last round may have moved it.                  *)
Towards(target) ==
  IF Rank(state) < Rank(target) THEN FromRank(Rank(state) + 1)
                                ELSE FromRank(Rank(state) - 1)

MoveToRound ==
  /\ On("move_to")
  /\ \/ state = Top.target /\ Return("Ok") /\ UNCHANGED observers
     \/ /\ state # Top.target /\ state = "Destroyed"
        /\ Return("AlreadyDestroyed")
        /\ UNCHANGED observers
     \/ /\ state \notin {Top.target, "Destroyed"}
        /\ Apply(Towards(Top.target), stack)

-----------------------------------------------------------------------------
(* subscribe: the id is taken and the observer pushed, then it is caught   *)
(* up with the states passed before the subscription.  The state is read   *)
(* once, before the first replay.                                          *)
CatchUp(s) ==
  IF s = "Destroyed" THEN <<>>
  ELSE SubSeq(<<"Created", "Started", "Resumed">>, 1, Rank(s))

SubscribeAlways ==  \* mutant of Subscribe: pushed after Destroyed as well
  /\ UserCode
  /\ nextId < MaxObservers
  /\ nextId' = nextId + 1
  /\ observers' = Append(observers, nextId)
  /\ stack' = Append(stack, SubscribeFrame(nextId, CatchUp(state)))
  /\ UNCHANGED <<state, ret, log, deliveries>>

Subscribe ==
  /\ UserCode
  /\ nextId < MaxObservers
  /\ nextId' = nextId + 1
  /\ observers' = IF state = "Destroyed" THEN observers
                                         ELSE Append(observers, nextId)
  /\ stack' = Append(stack, SubscribeFrame(nextId, CatchUp(state)))
  /\ UNCHANGED <<state, ret, log, deliveries>>

Replay ==
  /\ On("subscribe")
  /\ Top.todo # <<>>
  /\ stack' = Below \o << [Top EXCEPT !.todo = Tail(@)],
                          CallbackFrame(Top.id, Head(Top.todo)) >>
  /\ deliveries' = Append(deliveries,
       [id |-> Top.id, event |-> Head(Top.todo), n |-> 0])
  /\ UNCHANGED <<state, observers, nextId, ret, log>>

SubscribeDone ==
  /\ On("subscribe")
  /\ Top.todo = <<>>
  /\ Return("Ok")
  /\ UNCHANGED observers

(* The id of an observer is known to user code once its subscribe has      *)
(* returned the guard.                                                     *)
Subscribing(id) ==
  \E i \in DOMAIN stack : stack[i].op = "subscribe" /\ stack[i].id = id

(* retain(|other| other != id): ids are not reused, so that at most one    *)
(* position is dropped.                                                    *)
Without(id) ==
  IF \E i \in DOMAIN observers : observers[i] = id
  THEN LET at == CHOOSE i \in DOMAIN observers : observers[i] = id
       IN  SubSeq(observers, 1, at - 1)
             \o SubSeq(observers, at + 1, Len(observers))
  ELSE observers

(* LifecycleRegistry::unsubscribe and Subscription::remove. *)
Unsubscribe(id) ==
  /\ UserCode
  /\ ~ Subscribing(id)
  /\ observers' = Without(id)
  /\ UNCHANGED <<state, nextId, stack, ret, log, deliveries>>

CallbackReturn ==
  /\ On("callback")
  /\ Return("Ok")
  /\ UNCHANGED observers

-----------------------------------------------------------------------------
(* What user code may call, of which components that leave the lifecycle   *)
(* to a host use only Components; and what runs on by itself once called.  *)
Components ==
  \/ Subscribe
  \/ \E id \in 0 .. nextId - 1 : Unsubscribe(id)

Call ==
  \/ StrictStep
  \/ Destroy
  \/ \E target \in States : MoveTo(target)
  \/ Components

Run ==
  \/ Notify
  \/ ApplyDone
  \/ FinishDestroy
  \/ MoveToRound
  \/ Replay
  \/ SubscribeDone

Next == Call \/ Run \/ CallbackReturn

(* The thread that made a call runs it on, and observers return.  User     *)
(* code is free never to call the registry again.                          *)
Fairness == WF_vars(Run \/ CallbackReturn)

Spec == Init /\ [][Next]_vars
FairSpec == Spec /\ Fairness

-----------------------------------------------------------------------------
TypeOK ==
  /\ state \in States
  /\ observers \in Seq(Nat)
  /\ nextId \in Nat
  /\ stack \in Seq(Frames)
  /\ ret \in Results
  /\ log \in Seq([from : States, to : States, registered : SUBSET Nat])
  /\ deliveries \in Seq([id : Nat, event : States, n : Nat])

(* move_to(Created) is on top of every destroy that waits for it, so that  *)
(* a destroy that goes on with Ok finds the registry in Created: nothing   *)
(* runs between the last test of move_to's loop and the transition to      *)
(* Destroyed.  (registry.rs 276-285)                                       *)
DestroyLeavesFromCreated ==
  /\ \A i \in 1 .. Len(stack) - 1 :
       stack[i].op = "destroy" => stack[i + 1] = MoveToFrame("Created")
  /\ On("destroy") /\ ret = "Ok" => state = "Created"

(* Once a registry is destroyed and the notification of it has finished,   *)
(* no observer is retained, and none that subscribes afterwards, from      *)
(* whatever depth of notifications, is.  (registry.rs 151-153, 462-464)    *)
Destroying == \E i \in DOMAIN stack :
                stack[i].op = "apply" /\ stack[i].event = "Destroyed"

DestroyReleasesObservers ==
  state = "Destroyed" /\ ~ Destroying => observers = <<>>

(* A notification is synchronous and complete: when apply has returned for *)
(* a transition, each observer registered when it was applied was called   *)
(* for it exactly once, those removed meanwhile included, and nobody else  *)
(* was, however the calls were nested.  (registry.rs 113-117, 444-461)     *)
InProgress(n) == \E i \in DOMAIN stack : stack[i].op = "apply" /\ stack[i].n = n

CallsFor(n) == {k \in DOMAIN deliveries : deliveries[k].n = n}

EachNotifiedOnce ==
  \A n \in DOMAIN log : ~ InProgress(n) =>
    /\ {deliveries[k].id : k \in CallsFor(n)} = log[n].registered
    /\ Cardinality(CallsFor(n)) = Cardinality(log[n].registered)

(* One transition notifies its observers in subscription order on the way  *)
(* up and in the opposite order on the way down.  (registry.rs 446-456)    *)
Upwards(n) == /\ log[n].to # "Destroyed"
              /\ Rank(log[n].from) < Rank(log[n].to)

NotifiedInOrder ==
  \A j, k \in DOMAIN deliveries :
    j < k /\ deliveries[j].n = deliveries[k].n /\ deliveries[j].n > 0 =>
      IF Upwards(deliveries[j].n) THEN deliveries[j].id < deliveries[k].id
                                  ELSE deliveries[j].id > deliveries[k].id

(* "Notifications are delivered synchronously, in transition order"        *)
(* (registry.rs 113): no observer is told of a transition after it was     *)
(* told of a later one.                                                    *)
InTransitionOrder ==
  \A j, k \in DOMAIN deliveries :
    /\ j < k
    /\ deliveries[j].id = deliveries[k].id
    /\ deliveries[k].n > 0
    => deliveries[j].n < deliveries[k].n

(* The last state an observer was told, by replay or by notification: what  *)
(* users of the registry who only watch it take for its state.             *)
Heard(id) == {k \in DOMAIN deliveries : deliveries[k].id = id}

LastHeard(id) ==
  IF Heard(id) = {} THEN "Initialized"
  ELSE deliveries[CHOOSE k \in Heard(id) : \A j \in Heard(id) : j <= k].event

(* The registry's state walks the lifecycle's chain whatever observers do  *)
(* inside notifications.                                                   *)
Abstract == INSTANCE Lifecycle
WalksTheChain == Abstract!Spec

(* Every call returns to the owner, although move_to loops until the state *)
(* it reads is its target and observers may move the state away: each      *)
(* counter-move they make is one of the bounded number of transitions.     *)
EveryCallReturns == stack # <<>> ~> stack = <<>>

=============================================================================

