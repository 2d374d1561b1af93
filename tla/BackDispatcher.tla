--------------------------- MODULE BackDispatcher ---------------------------
(***************************************************************************)
(* crates/essenty-back-handler/src/dispatcher.rs: BackDispatcher, its      *)
(* handlers, the predictive gesture it routes and the commands handlers    *)
(* queue while an event is delivered to them.                              *)
(*                                                                         *)
(* The dispatcher is called with &mut self, so that a handler cannot call  *)
(* it: it queues BackCommands, which run when it has returned and may      *)
(* deliver further events, whose handlers queue commands in turn.  `todo`  *)
(* is what the call in progress has still to do, next task first; between  *)
(* calls it is empty.                                                      *)
(*                                                                         *)
(* Not modelled: the Boolean results (a delivery is handled exactly when   *)
(* its handler is registered, see DeliveriesAreDue), the progress          *)
(* values, and Err(NoGestureInProgress), which leaves everything alone.    *)
(* A gesture position stands for all the data of a start event.            *)
(***************************************************************************)
EXTENDS Naturals, Sequences, FiniteSets

CONSTANTS
  Priorities,    \* the priorities handlers may have
  Positions,     \* what a start event carries
  None,          \* Option::None
  MaxHandlers,   \* bound: number of registrations ever made
  MaxListeners,  \* bound: number of listeners ever added
  MaxCommands    \* bound: commands one callback queues

ASSUME DispatcherAssumption ==
  /\ Priorities \subseteq Nat
  /\ None \notin Positions /\ None \notin Nat
  /\ MaxHandlers \in Nat /\ MaxListeners \in Nat /\ MaxCommands \in Nat

VARIABLES
  serial,       \* external: whether the host ends a gesture before the next
  entries,      \* BackDispatcher::entries, by id
  nextId,       \* next_id
  active,       \* active_gesture
  inFlight,     \* gesture_in_flight
  startEvent,   \* gesture_start_event
  listeners,    \* enabled_listeners, with what each was told (see AddListener)
  nextListener, \* next_listener_id
  hasEnabled,   \* has_enabled
  todo,         \* the rest of the call in progress
  told          \* history: the start event a handler has not seen the end of

claim == <<active, inFlight, startEvent>>
aggregate == <<listeners, hasEnabled>>
vars == <<serial, entries, nextId, claim, listeners, nextListener, hasEnabled, todo, told>>

Ids    == 0 .. MaxHandlers - 1
Entry  == [priority : Priorities, enabled : BOOLEAN]
Phases == {"Started", "Progressed", "Cancelled", "Invoked"}

(* BackCommand. *)
Command ==
  [op : {"register"}, id : Ids, entry : Entry]
    \cup [op : {"unregister"}, id : Ids]
    \cup [op : {"set_enabled"}, id : Ids, enabled : BOOLEAN]

(* A call to a handler, the handler running with the commands it has       *)
(* queued, the rest of unregister and progress_gesture after a delivery,   *)
(* and the reconciliation that ends dispatch_to.                           *)
Task ==
  Command
    \cup [op : {"deliver"}, id : Ids, phase : Phases, start : Positions \cup {None}]
    \cup [op : {"callback"}, id : Ids, pending : Seq(Command)]
    \cup [op : {"remove"}, id : Ids]
    \cup [op : {"progress"}]
    \cup [op : {"notify"}]

Deliver(id, phase, start) ==
  [op |-> "deliver", id |-> id, phase |-> phase, start |-> start]

Idle == todo = <<>>
Next1 == Head(todo)
Rest == Tail(todo)
Doing(op) == todo # <<>> /\ Next1.op = op

-----------------------------------------------------------------------------
Registered == DOMAIN entries

CanHandle(es) == \E id \in DOMAIN es : es[id].enabled

(* winner: of the enabled handlers, the one with the highest priority and, *)
(* among these, the latest.                                                *)
Enabled == {id \in Registered : entries[id].enabled}

Beats(a, b) ==
  \/ entries[a].priority > entries[b].priority
  \/ entries[a].priority = entries[b].priority /\ a >= b

Winner == IF Enabled = {} THEN None
          ELSE CHOOSE id \in Enabled : \A other \in Enabled : Beats(id, other)

(* notify_enabled_changed: the listeners are called only when the          *)
(* aggregate differs from the last one they were told.                     *)
Reconcile(es) ==
  /\ hasEnabled' = CanHandle(es)
  /\ listeners' = IF CanHandle(es) = hasEnabled THEN listeners
                  ELSE [l \in DOMAIN listeners |->
                          [value |-> CanHandle(es),
                           parity |-> ~ listeners[l].parity]]

With(id, entry) ==
  [other \in Registered \cup {id} |-> IF other = id THEN entry ELSE entries[other]]
Dropping(id) == [other \in Registered \ {id} |-> entries[other]]

-----------------------------------------------------------------------------
Init ==
  /\ serial \in BOOLEAN
  /\ entries = <<>> /\ nextId = 0
  /\ active = None /\ inFlight = FALSE /\ startEvent = None
  /\ listeners = <<>> /\ nextListener = 0
  /\ hasEnabled = FALSE
  /\ todo = <<>>
  /\ told = [id \in Ids |-> None]

RegisterNext(entry) ==  \* mutant of Register: the id after the increment
  /\ Idle
  /\ nextId < MaxHandlers
  /\ nextId' = nextId + 1
  /\ entries' = With(nextId + 1, entry)
  /\ Reconcile(entries')
  /\ UNCHANGED <<claim, nextListener, todo, told>>

(* register and register_reentrant. *)
Register(entry) ==
  /\ Idle
  /\ nextId < MaxHandlers
  /\ nextId' = nextId + 1
  /\ entries' = With(nextId, entry)
  /\ Reconcile(entries')
  /\ UNCHANGED <<claim, nextListener, todo, told>>

UnregisterSilently(id, rest) ==  \* mutant: the owner is not cancelled
  /\ IF id \in Registered
     THEN entries' = Dropping(id) /\ Reconcile(entries')
     ELSE UNCHANGED <<entries, aggregate>>
  /\ active' = IF active = id THEN None ELSE active
  /\ todo' = rest
  /\ UNCHANGED <<inFlight, startEvent>>

(* unregister, with `rest` to do afterwards: the owner of the gesture is   *)
(* cancelled before it is removed.                                         *)
UnregisterThen(id, rest) ==
  \/ /\ id \notin Registered
     /\ todo' = rest
     /\ UNCHANGED <<entries, claim, aggregate>>
  \/ /\ id \in Registered /\ active = id
     /\ active' = None
     /\ todo' = << Deliver(id, "Cancelled", None), [op |-> "remove", id |-> id] >>
                  \o rest
     /\ UNCHANGED <<entries, inFlight, startEvent, aggregate>>
  \/ /\ id \in Registered /\ active # id
     /\ entries' = Dropping(id)
     /\ Reconcile(entries')
     /\ todo' = rest
     /\ UNCHANGED claim

Unregister(id) ==
  /\ Idle
  /\ UnregisterThen(id, <<>>)
  /\ UNCHANGED <<nextId, nextListener, told>>

(* The rest of unregister: a callback of the cancellation may have removed *)
(* the entry already.                                                      *)
Remove ==
  /\ Doing("remove")
  /\ entries' = Dropping(Next1.id)
  /\ Reconcile(entries')
  /\ todo' = Rest
  /\ UNCHANGED <<nextId, claim, nextListener, told>>

SetEnabledThen(id, enabled, rest) ==
  /\ entries' = IF id \in Registered
                THEN [entries EXCEPT ![id].enabled = enabled] ELSE entries
  /\ IF id \in Registered THEN Reconcile(entries') ELSE UNCHANGED aggregate
  /\ todo' = rest
  /\ UNCHANGED claim

SetEnabled(id, enabled) ==
  /\ Idle
  /\ SetEnabledThen(id, enabled, <<>>)
  /\ UNCHANGED <<nextId, nextListener, told>>

SetPriority(id, priority) ==
  /\ Idle
  /\ id \in Registered
  /\ entries' = [entries EXCEPT ![id].priority = priority]
  /\ UNCHANGED <<nextId, claim, aggregate, nextListener, todo, told>>

(* add_enabled_changed_listener does not call the listener.  Of a listener *)
(* the model keeps the value it knows, the one the aggregate has when it   *)
(* is added at first, and that value flipped once per call.                *)
AddListener ==
  /\ Idle
  /\ nextListener < MaxListeners
  /\ nextListener' = nextListener + 1
  /\ listeners' = [l \in DOMAIN listeners \cup {nextListener} |->
                     IF l = nextListener
                     THEN [value |-> hasEnabled, parity |-> hasEnabled]
                     ELSE listeners[l]]
  /\ UNCHANGED <<entries, nextId, claim, hasEnabled, todo, told>>

RemoveListener(l) ==
  /\ Idle
  /\ l \in DOMAIN listeners
  /\ listeners' = [other \in DOMAIN listeners \ {l} |-> listeners[other]]
  /\ UNCHANGED <<entries, nextId, claim, nextListener, hasEnabled, todo, told>>

-----------------------------------------------------------------------------
(* A gesture event for `id`, if there is anybody to have it. *)
DispatchTo(id, phase, start) ==
  todo' = IF id = None THEN <<>> ELSE << Deliver(id, phase, start) >>

OwnerOrWinner == IF active = None THEN Winner ELSE active

Gesture(action) ==
  /\ Idle
  /\ action
  /\ UNCHANGED <<entries, nextId, listeners, nextListener, hasEnabled, told>>

OverForgetful ==  \* mutant of Over: the start event is kept
  active' = None /\ inFlight' = FALSE /\ UNCHANGED startEvent

Over == active' = None /\ inFlight' = FALSE /\ startEvent' = None

Back == Gesture(Over /\ DispatchTo(OwnerOrWinner, "Invoked", None))

(* start_gesture: nothing is said to the owner of a gesture still on. *)
PredictiveStart(position) ==
  /\ serial => ~ inFlight
  /\ Gesture(
       \/ Winner = None /\ Over /\ todo' = <<>>
       \/ /\ Winner # None
          /\ inFlight' = TRUE /\ active' = Winner /\ startEvent' = position
          /\ DispatchTo(Winner, "Started", position))

ProgressUnstarted ==  \* mutant of PredictiveProgress: no start is replayed
  /\ inFlight
  /\ Gesture(
       /\ active' = OwnerOrWinner
       /\ todo' = << [op |-> "progress"] >>
       /\ UNCHANGED <<inFlight, startEvent>>)

(* progress_gesture: without an owner the winner takes the gesture over    *)
(* and is given its start event first.                                     *)
PredictiveProgress ==
  /\ inFlight
  /\ Gesture(
       /\ active' = OwnerOrWinner
       /\ todo' = IF active = None /\ active' # None
                  THEN << Deliver(active', "Started", startEvent),
                          [op |-> "progress"] >>
                  ELSE << [op |-> "progress"] >>
       /\ UNCHANGED <<inFlight, startEvent>>)

(* The rest of progress_gesture: the owner is read again, because the      *)
(* callback of the start event may have given the gesture up.              *)
Progress ==
  /\ Doing("progress")
  /\ todo' = (IF active = None THEN <<>>
              ELSE << Deliver(active, "Progressed", None) >>) \o Rest
  /\ UNCHANGED <<entries, nextId, claim, listeners, nextListener, hasEnabled, told>>

PredictiveCancel ==
  inFlight /\ Gesture(Over /\ DispatchTo(active, "Cancelled", None))

PredictiveInvoke ==
  inFlight /\ Gesture(Over /\ DispatchTo(OwnerOrWinner, "Invoked", None))

-----------------------------------------------------------------------------
(* dispatch_to up to the callback.  A handler has seen the end of a        *)
(* gesture when it is told Cancelled or Invoked.                           *)
CallHandler ==
  /\ Doing("deliver")
  /\ \/ /\ Next1.id \in Registered
        /\ todo' = << [op |-> "callback", id |-> Next1.id, pending |-> <<>>] >>
                     \o Rest
        /\ told' = [told EXCEPT ![Next1.id] =
                      CASE Next1.phase = "Started"    -> Next1.start
                        [] Next1.phase = "Progressed" -> @
                        [] OTHER                      -> None]
     \/ /\ Next1.id \notin Registered
        /\ todo' = << [op |-> "notify"] >> \o Rest
        /\ UNCHANGED told
  /\ UNCHANGED <<entries, nextId, claim, listeners, nextListener, hasEnabled>>

(* BackCommands::register, unregister and set_enabled. *)
Queue(command) ==
  /\ Doing("callback")
  /\ Len(Next1.pending) < MaxCommands
  /\ command.op = "register" => command.id = nextId
  /\ nextId' = IF command.op = "register" THEN nextId + 1 ELSE nextId
  /\ todo' = << [Next1 EXCEPT !.pending = Append(@, command)] >> \o Rest
  /\ UNCHANGED <<entries, claim, listeners, nextListener, hasEnabled, told>>

ReturnsUnreconciled ==  \* mutant of HandlerReturns: listeners are not told
  /\ Doing("callback")
  /\ todo' = Next1.pending \o Rest
  /\ UNCHANGED <<entries, nextId, claim, listeners, nextListener, hasEnabled, told>>

(* dispatch_to after the callback: the commands in order, then one         *)
(* reconciliation.                                                         *)
HandlerReturns ==
  /\ Doing("callback")
  /\ todo' = Next1.pending \o << [op |-> "notify"] >> \o Rest
  /\ UNCHANGED <<entries, nextId, claim, listeners, nextListener, hasEnabled, told>>

RunRegister ==
  /\ Doing("register")
  /\ entries' = With(Next1.id, Next1.entry)
  /\ todo' = Rest
  /\ UNCHANGED <<nextId, claim, listeners, nextListener, hasEnabled, told>>

RunUnregister ==
  /\ Doing("unregister")
  /\ UnregisterThen(Next1.id, Rest)
  /\ UNCHANGED <<nextId, nextListener, told>>

RunSetEnabled ==
  /\ Doing("set_enabled")
  /\ SetEnabledThen(Next1.id, Next1.enabled, Rest)
  /\ UNCHANGED <<nextId, nextListener, told>>

NotifyEnabledChanged ==
  /\ Doing("notify")
  /\ Reconcile(entries)
  /\ todo' = Rest
  /\ UNCHANGED <<entries, nextId, claim, nextListener, told>>

-----------------------------------------------------------------------------
Call ==
  \/ \E entry \in Entry : Register(entry)
  \/ \E id \in Ids : Unregister(id)
  \/ \E id \in Ids, enabled \in BOOLEAN : SetEnabled(id, enabled)
  \/ \E id \in Ids, priority \in Priorities : SetPriority(id, priority)
  \/ AddListener
  \/ \E l \in 0 .. MaxListeners - 1 : RemoveListener(l)
  \/ Back
  \/ \E position \in Positions : PredictiveStart(position)
  \/ PredictiveProgress
  \/ PredictiveCancel
  \/ PredictiveInvoke

Run ==
  \/ Remove
  \/ Progress
  \/ CallHandler
  \/ HandlerReturns
  \/ RunRegister
  \/ RunUnregister
  \/ RunSetEnabled
  \/ NotifyEnabledChanged

Next ==
  /\ Call \/ Run \/ \E command \in Command : Queue(command)
  /\ UNCHANGED serial

Spec == Init /\ [][Next]_vars

-----------------------------------------------------------------------------
TypeOK ==
  /\ serial \in BOOLEAN
  /\ Registered \subseteq Ids /\ entries \in [Registered -> Entry]
  /\ nextId \in Nat /\ nextListener \in Nat
  /\ active \in Ids \cup {None}
  /\ inFlight \in BOOLEAN
  /\ startEvent \in Positions \cup {None}
  /\ DOMAIN listeners \subseteq 0 .. MaxListeners - 1
  /\ listeners \in [DOMAIN listeners -> [value : BOOLEAN, parity : BOOLEAN]]
  /\ hasEnabled \in BOOLEAN
  /\ todo \in Seq(Task)
  /\ told \in [Ids -> Positions \cup {None}]

(* The claim is consistent at every moment, also while callbacks run: an   *)
(* owner is registered and its gesture is on, and the start event is kept  *)
(* exactly as long as the gesture is.  (dispatcher.rs 201-216, 260-365)    *)
ClaimConsistent ==
  /\ active # None => inFlight /\ active \in Registered
  /\ inFlight <=> startEvent # None

(* What a handler hears is due to it, whatever the commands queued by the  *)
(* callbacks before did: it is registered still; it is told Progressed     *)
(* only after the start event of the same gesture, also when it took that  *)
(* over from a handler that was removed, and Cancelled only after a start  *)
(* event; and a disabled handler hears nothing apart from the gesture it   *)
(* claimed while it was enabled. (dispatcher.rs 201-229, 317-331, 339-349, *)
(* 367-383)                                                                *)
DeliveriesAreDue ==
  Doing("deliver") =>
    /\ Next1.id \in Registered
    /\ Next1.phase = "Progressed" => told[Next1.id] = startEvent
    /\ Next1.phase = "Cancelled" => told[Next1.id] # None
    /\ entries[Next1.id].enabled \/ told[Next1.id] # None

(* Between calls, with a host that ends a gesture before it starts the     *)
(* next, the handlers that wait for the end of a gesture are the owner     *)
(* alone: whoever was told Started and lost the claim was told Cancelled   *)
(* or Invoked.  (dispatcher.rs 198-216, 260-365)                           *)
OnlyOwnerInGesture ==
  Idle /\ serial => {id \in Ids : told[id] # None} = {active} \ {None}

(* The aggregate the listeners know is the one of the entries between      *)
(* calls, and each call of a listener brought a value that differs from    *)
(* the one before, also when commands registered handlers.                 *)
(* (dispatcher.rs 183-196, 397-399)                                        *)
ListenersInStep ==
  /\ Idle => /\ hasEnabled = CanHandle(entries)
             /\ \A l \in DOMAIN listeners : listeners[l].value = hasEnabled
  /\ \A l \in DOMAIN listeners : listeners[l].value = listeners[l].parity

=============================================================================

