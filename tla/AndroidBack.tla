----------------------------- MODULE AndroidBack ----------------------------
(***************************************************************************)
(* crates/essenty-android/src/back_handler/platform.rs: AndroidBackHandler *)
(* on API 33 and later.  Two threads: the host's Rust event loop, which    *)
(* owns the handler, and Android's Java main thread, which runs the        *)
(* closures the handler posts to it (install, uninstall, the teardown of   *)
(* close) in order and, between them, the callbacks of back gestures.      *)
(* They share the AtomicBool `registered`, the channel of gesture events   *)
(* and the static list of registrations to unregister later.  The slot of  *)
(* the registration itself is only used on the Java thread.                *)
(*                                                                         *)
(* The dispatcher is reduced to what the adapter asks it: can_handle and   *)
(* has_active_gesture.  Progress events change neither and are left out.   *)
(* A handler dropped is followed by at most one new one at a time.         *)
(***************************************************************************)
EXTENDS Naturals, Sequences, Functions

CONSTANTS
  MaxHandlers,   \* bound: number of handlers ever attached
  MaxToggles,    \* bound: changes of can_handle
  MaxGestures,   \* bound: gestures of the user
  MaxRejections, \* bound: unregister calls that Android rejects
  MaxFailures,   \* bound: install closures that fail
  None

ASSUME AndroidAssumption ==
  /\ MaxHandlers \in Nat \ {0}
  /\ {MaxToggles, MaxGestures, MaxRejections, MaxFailures} \subseteq Nat

VARIABLES
  patient,     \* external: whether the host waits for Java and drains before it acts
  cur,         \* the handler the host holds, or held last
  open,        \* whether it is not dropped yet
  closed,      \* AndroidBackHandler::closed
  enabled,     \* dispatcher().can_handle()
  gesture,     \* dispatcher().has_active_gesture()
  pc,          \* what the Rust thread is doing
  registered,  \* AndroidBackHandler::registered, by handler
  channel,     \* the events sent to the receiver of cur
  tasks,       \* what run_on_java_main_thread has still to run
  retries,     \* UNREGISTER_RETRY: how often it holds the slot of a handler
  slot,        \* AndroidBackHandler::registration, by handler
  platform,    \* external: the proxies registered with Android
  made,        \* the number of proxies made
  touching,    \* external: the proxy that has the gesture of the user
  budget,      \* what is left of the bounds
  failedOver   \* history: the handlers whose install failed and left the slot taken

host  == <<cur, open, closed, enabled, gesture>>
java  == <<slot, platform, made, touching>>
vars  == <<patient, host, pc, registered, channel, tasks, retries, java, budget,
           failedOver>>

Handlers == 1 .. MaxHandlers
Proxy    == [handler : Handlers, n : Nat]

ASSUME NoneAssumption == None \notin Proxy

Task     == [op : {"install", "uninstall", "close"}, handler : Handlers]
Events   == {"Started", "Cancelled", "Invoked"}

Spend(what) ==
  /\ budget[what] > 0
  /\ budget' = [budget EXCEPT ![what] = @ - 1]

Post(op, h) == tasks' = Append(tasks, [op |-> op, handler |-> h])

Init ==
  /\ patient \in BOOLEAN
  /\ cur = 0 /\ open = FALSE /\ closed = FALSE
  /\ enabled = FALSE /\ gesture = FALSE
  /\ pc = "idle"
  /\ registered = [h \in Handlers |-> FALSE]
  /\ channel = <<>> /\ tasks = <<>>
  /\ retries = [h \in Handlers |-> 0]
  /\ slot = [h \in Handlers |-> None]
  /\ platform = {} /\ made = 0 /\ touching = None
  /\ budget = [toggles |-> MaxToggles, gestures |-> MaxGestures,
               rejections |-> MaxRejections, failures |-> MaxFailures]
  /\ failedOver = {}

-----------------------------------------------------------------------------
(* The Rust thread. *)

(* The host calls the adapter; a patient one lets Java finish first. *)
HostActs ==
  /\ pc = "idle"
  /\ patient => tasks = <<>> /\ channel = <<>>

AttachBehind(canHandle) ==  \* mutant of Attach: posts for the one before
  /\ HostActs
  /\ ~ open /\ cur < MaxHandlers
  /\ cur' = cur + 1 /\ open' = TRUE /\ closed' = FALSE
  /\ enabled' = canHandle /\ gesture' = FALSE
  /\ channel' = <<>>
  /\ Post("install", cur)
  /\ UNCHANGED <<registered, pc, retries, java, budget>>

(* attach, with a dispatcher that has enabled handlers or has none. *)
Attach(canHandle) ==
  /\ HostActs
  /\ ~ open /\ cur < MaxHandlers
  /\ cur' = cur + 1 /\ open' = TRUE /\ closed' = FALSE
  /\ enabled' = canHandle /\ gesture' = FALSE
  /\ channel' = <<>>
  /\ IF canHandle
     THEN /\ registered' = [registered EXCEPT ![cur'] = TRUE]
          /\ Post("install", cur')
     ELSE UNCHANGED <<registered, tasks>>
  /\ UNCHANGED <<pc, retries, java, budget>>

(* Handlers are enabled or disabled through dispatcher_mut, or by a        *)
(* callback while events are drained.                                      *)
Toggle ==
  /\ HostActs \/ (pc = "drain" /\ (patient => tasks = <<>>))
  /\ open
  /\ Spend("toggles")
  /\ enabled' = ~ enabled
  /\ UNCHANGED <<cur, open, closed, gesture, pc, registered, channel, tasks,
                 retries, java>>

(* drain_callbacks, up to its loop, or synchronize_enabled_state alone. *)
BeginDrain ==
  /\ pc = "idle" /\ open
  /\ pc' = "drain"
  /\ UNCHANGED <<host, registered, channel, tasks, retries, java, budget>>

BeginSynchronize ==
  /\ HostActs /\ open
  /\ pc' = "load"
  /\ UNCHANGED <<host, registered, channel, tasks, retries, java, budget>>

(* The loop of drain_callbacks.  predictive_start needs an enabled handler *)
(* to begin a gesture; Cancelled and Invoked end it.                       *)
DrainOne ==
  /\ pc = "drain" /\ channel # <<>>
  /\ gesture' = (Head(channel) = "Started" /\ enabled)
  /\ channel' = Tail(channel)
  /\ UNCHANGED <<cur, open, closed, enabled, pc, registered, tasks, retries,
                 java, budget>>

DrainForgetful ==  \* mutant of DrainDone: the state is not synchronized
  /\ pc = "drain" /\ channel = <<>>
  /\ pc' = "idle"
  /\ UNCHANGED <<host, registered, channel, tasks, retries, java, budget>>

DrainDone ==
  /\ pc = "drain" /\ channel = <<>>
  /\ pc' = "load"
  /\ UNCHANGED <<host, registered, channel, tasks, retries, java, budget>>

(* synchronize_enabled_state reads the flag, writes it and posts the task, *)
(* three steps the Java thread may come between.                           *)
Load ==
  /\ pc = "load"
  /\ pc' = IF closed \/ gesture \/ registered[cur] = enabled
           THEN "idle" ELSE "store"
  /\ UNCHANGED <<host, registered, channel, tasks, retries, java, budget>>

Store ==
  /\ pc = "store"
  /\ registered' = [registered EXCEPT ![cur] = enabled]
  /\ pc' = "post"
  /\ UNCHANGED <<host, channel, tasks, retries, java, budget>>

PostTask ==
  /\ pc = "post"
  /\ Post(IF enabled THEN "install" ELSE "uninstall", cur)
  /\ pc' = "idle"
  /\ UNCHANGED <<host, registered, channel, retries, java, budget>>

(* close waits for its task; with a gesture it fails at once.  A handler   *)
(* may be closed again.                                                    *)
Close ==
  /\ HostActs /\ open /\ ~ gesture
  /\ Post("close", cur)
  /\ pc' = "close"
  /\ UNCHANGED <<host, registered, channel, retries, java, budget>>

(* Drop: during a gesture nothing is posted, the registration is left to   *)
(* the terminal callback and to a later install.                           *)
Drop ==
  /\ HostActs /\ open
  /\ open' = FALSE
  /\ channel' = <<>>
  /\ IF ~ closed /\ ~ gesture THEN Post("uninstall", cur) ELSE UNCHANGED tasks
  /\ retries' = IF ~ closed /\ gesture THEN [retries EXCEPT ![cur] = @ + 1] ELSE retries
  /\ UNCHANGED <<cur, closed, enabled, gesture, pc, registered, java, budget>>

-----------------------------------------------------------------------------
(* The Java main thread: its tasks. *)

Running(op) == tasks # <<>> /\ Head(tasks).op = op

(* retry_quarantined goes through the list: a slot that is empty, or that  *)
(* an earlier entry emptied, is dropped from it; the others are            *)
(* unregistered, and those that Android rejects stay.  With `kept` of the  *)
(* entries rejected, the slots emptied are these.                          *)
Emptied(kept) == {h \in Handlers : slot[h] # None /\ kept[h] < retries[h]}

Rejected(kept) ==
  \A h \in Handlers : kept[h] <= retries[h] /\ (slot[h] = None => kept[h] = 0)

(* install: the list is retried, then a proxy is made, registered and put  *)
(* in the slot, whatever the slot holds.  What fails, fails after the      *)
(* retries and before the registration.                                    *)
Install ==
  /\ Running("install")
  /\ tasks' = Tail(tasks)
  /\ \E kept \in [Handlers -> 0 .. budget.rejections],
        rejections \in 0 .. budget.rejections, fails \in BOOLEAN :
       LET h     == Head(tasks).handler
           left  == [i \in Handlers |-> IF i \in Emptied(kept) THEN None ELSE slot[i]]
           others == platform \ {slot[i] : i \in Emptied(kept)}
           proxy == [handler |-> h, n |-> made]
       IN
       /\ Rejected(kept)
       /\ rejections = SumFunction(kept)
       /\ fails => budget.failures > 0
       /\ budget' = [budget EXCEPT !.rejections = @ - rejections,
                                   !.failures = IF fails THEN @ - 1 ELSE @]
       /\ retries' = kept
       /\ registered' = [registered EXCEPT ![h] = ~ fails]
       /\ slot' = IF fails THEN left ELSE [left EXCEPT ![h] = proxy]
       /\ platform' = IF fails THEN others ELSE others \cup {proxy}
       /\ made' = IF fails THEN made ELSE made + 1
       /\ failedOver' = IF fails /\ left[h] # None THEN failedOver \cup {h} ELSE failedOver
  /\ UNCHANGED <<host, pc, channel, touching>>

UnregisterKeeping(h) ==  \* mutant of UnregisterSlot: the slot is not emptied
  \/ /\ slot[h] # None /\ Spend("rejections")
     /\ registered' = [registered EXCEPT ![h] = TRUE]
     /\ retries' = [retries EXCEPT ![h] = @ + 1]
     /\ UNCHANGED <<slot, platform>>
  \/ /\ registered' = [registered EXCEPT ![h] = FALSE]
     /\ platform' = platform \ {slot[h]}
     /\ UNCHANGED <<retries, slot, budget>>

UnregisterFlagOnly(h) ==  \* mutant: a rejection leaves the flag alone
  \/ /\ slot[h] # None /\ Spend("rejections")
     /\ retries' = [retries EXCEPT ![h] = @ + 1]
     /\ UNCHANGED <<registered, slot, platform>>
  \/ /\ registered' = [registered EXCEPT ![h] = FALSE]
     /\ retries' = [retries EXCEPT ![h] = 0]
     /\ slot' = [slot EXCEPT ![h] = None]
     /\ platform' = platform \ {slot[h]}
     /\ UNCHANGED budget

UnregisterForgetting(h) ==  \* mutant: a rejection is not retried
  \/ /\ slot[h] # None /\ Spend("rejections")
     /\ registered' = [registered EXCEPT ![h] = TRUE]
     /\ UNCHANGED <<retries, slot, platform>>
  \/ /\ registered' = [registered EXCEPT ![h] = FALSE]
     /\ retries' = [retries EXCEPT ![h] = 0]
     /\ slot' = [slot EXCEPT ![h] = None]
     /\ platform' = platform \ {slot[h]}
     /\ UNCHANGED budget

(* The body uninstall and close have in common. *)
UnregisterSlot(h) ==
  \/ /\ slot[h] # None /\ Spend("rejections")
     /\ registered' = [registered EXCEPT ![h] = TRUE]
     /\ retries' = [retries EXCEPT ![h] = @ + 1]
     /\ UNCHANGED <<slot, platform>>
  \/ /\ registered' = [registered EXCEPT ![h] = FALSE]
     /\ retries' = [retries EXCEPT ![h] = 0]
     /\ slot' = [slot EXCEPT ![h] = None]
     /\ platform' = platform \ {slot[h]}
     /\ UNCHANGED budget

Uninstall ==
  /\ Running("uninstall")
  /\ UnregisterSlot(Head(tasks).handler)
  /\ tasks' = Tail(tasks)
  /\ UNCHANGED <<host, pc, channel, made, touching>>

TeardownSilently ==  \* mutant of Teardown: an error is not answered
  /\ Running("close")
  /\ UnregisterSlot(Head(tasks).handler)
  /\ closed' = (closed \/ ~ registered'[cur])
  /\ pc' = IF registered'[cur] THEN pc ELSE "idle"
  /\ tasks' = Tail(tasks)
  /\ UNCHANGED <<cur, open, enabled, gesture, channel, made, touching>>

(* The teardown of close, with the answer the Rust thread waits for: an    *)
(* error exactly when the flag is set again.                               *)
Teardown ==
  /\ Running("close")
  /\ UnregisterSlot(Head(tasks).handler)
  /\ closed' = (closed \/ ~ registered'[cur])
  /\ pc' = "idle"
  /\ tasks' = Tail(tasks)
  /\ UNCHANGED <<cur, open, enabled, gesture, channel, made, touching>>

(* The Java main thread: the callbacks of proxies.  An event is sent to    *)
(* the receiver of the proxy's handler; if that is gone, a terminal event  *)
(* has the proxy unregistered.  A proxy that its slot does not hold may be *)
(* freed and its callback without effect.                                  *)
Callback(p, event) ==
  \/ /\ open /\ p.handler = cur
     /\ channel' = Append(channel, event)
     /\ UNCHANGED tasks
  \/ /\ ~ (open /\ p.handler = cur)
     /\ IF event = "Started" THEN UNCHANGED tasks
                             ELSE Post("uninstall", p.handler)
     /\ UNCHANGED channel
  \/ slot[p.handler] # p /\ UNCHANGED <<channel, tasks>>

(* The user swipes back or presses back: the proxy registered last is told. *)
OnTop(p) == p \in platform /\ \A q \in platform : q.n <= p.n

TouchDown ==
  /\ touching = None
  /\ Spend("gestures")
  /\ \E p \in platform :
       OnTop(p) /\ touching' = p /\ Callback(p, "Started")
  /\ UNCHANGED <<host, pc, registered, retries, slot, platform, made>>

Press ==
  /\ touching = None
  /\ Spend("gestures")
  /\ \E p \in platform : OnTop(p) /\ Callback(p, "Invoked")
  /\ UNCHANGED <<host, pc, registered, retries, java>>

TouchUp ==
  /\ touching # None
  /\ touching' = None
  /\ \E event \in {"Cancelled", "Invoked"} : Callback(touching, event)
  /\ UNCHANGED <<host, pc, registered, retries, slot, platform, made, budget>>

-----------------------------------------------------------------------------
Rust ==
  /\ \/ \E canHandle \in BOOLEAN : Attach(canHandle)
     \/ Toggle
     \/ BeginDrain
     \/ BeginSynchronize
     \/ DrainOne
     \/ DrainDone
     \/ Load
     \/ Store
     \/ PostTask
     \/ Close
     \/ Drop
  /\ UNCHANGED failedOver

Java ==
  \/ Install
  \/ (Uninstall \/ Teardown) /\ UNCHANGED failedOver

User == (TouchDown \/ Press \/ TouchUp) /\ UNCHANGED failedOver

Next == (Rust \/ Java \/ User) /\ UNCHANGED patient

Spec == Init /\ [][Next]_vars

(* The host drains in every round of its event loop and finishes what it   *)
(* has begun, Java runs its tasks and a gesture ends.                      *)
Fairness ==
  /\ WF_vars(BeginDrain /\ UNCHANGED <<patient, failedOver>>)
  /\ WF_vars((DrainOne \/ DrainDone) /\ UNCHANGED <<patient, failedOver>>)
  /\ WF_vars((Load \/ Store \/ PostTask) /\ UNCHANGED <<patient, failedOver>>)
  /\ WF_vars(Java /\ UNCHANGED patient)
  /\ WF_vars(TouchUp /\ UNCHANGED <<patient, failedOver>>)

-----------------------------------------------------------------------------
TypeOK ==
  /\ patient \in BOOLEAN
  /\ cur \in 0 .. MaxHandlers
  /\ open \in BOOLEAN /\ closed \in BOOLEAN
  /\ enabled \in BOOLEAN /\ gesture \in BOOLEAN
  /\ pc \in {"idle", "drain", "load", "store", "post", "close"}
  /\ registered \in [Handlers -> BOOLEAN]
  /\ channel \in Seq(Events) /\ tasks \in Seq(Task) /\ retries \in [Handlers -> Nat]
  /\ slot \in [Handlers -> Proxy \cup {None}]
  /\ platform \subseteq Proxy
  /\ made \in Nat
  /\ touching \in Proxy \cup {None}
  /\ budget \in [{"toggles", "gestures", "rejections", "failures"} -> Nat]
  /\ failedOver \subseteq Handlers

(* What a slot holds is registered with Android: nothing is unregistered   *)
(* twice, through the slot or through the list of retries.                 *)
(* (platform.rs 215-225, 554-562, 606-625)                                 *)
SlotIsRegistered ==
  \A h \in Handlers : slot[h] # None => slot[h] \in platform

(* When neither thread is on its way to change it, the flag says whether   *)
(* the slot holds a registration, however the requests and their answers   *)
(* overtook each other; only an install that fails while the slot is taken *)
(* puts them apart, and no patient host ever asks for that one.            *)
(* (platform.rs 265-295, 530-543, 564-586)                                 *)
FlagTracksSlot ==
  /\ patient => failedOver = {}
  /\ pc = "idle" /\ tasks = <<>> /\ open /\ cur \notin failedOver =>
       (registered[cur] <=> slot[cur] # None)

(* "The adapter owns the proxy and dispatcher global reference until       *)
(* unregister succeeds" (platform.rs 110-111): a proxy Android has is in   *)
(* the slot of its handler.                                                *)
OwnedUntilUnregistered ==
  \A p \in platform : slot[p.handler] = p

(* "Dropping during an owned gesture defers unregister until the terminal  *)
(* platform callback" (docs/ANDROID.md 44-45): when the gesture is over    *)
(* and Java has run what was posted, a dropped handler has no proxy left.  *)
DroppedIsUnregistered ==
  ~ open /\ cur > 0 /\ touching = None /\ tasks = <<>> /\ pc = "idle" =>
    \A p \in platform : p.handler # cur

(* With a patient host no proxy gets lost: each is in the slot of its      *)
(* handler, and what is left with Android when both threads are done,      *)
(* other than the registration of the open handler, is known to the list   *)
(* of retries, from where the next install unregisters it. (platform.rs    *)
(* 192-196, 362-368, 569-578, 606-625)                                     *)
LeftoversAreRetried ==
  patient =>
    /\ OwnedUntilUnregistered
    /\ pc = "idle" /\ tasks = <<>> =>
         \A p \in platform :
           (open /\ p.handler = cur) \/ retries[p.handler] > 0

(* However fast the host changes its mind, the platform registration       *)
(* follows: when it stops, a handler that is open ends up with a slot that *)
(* is taken exactly if it can handle back. (platform.rs 261-295)           *)
FollowsEnabled ==
  <>[](open /\ ~ closed /\ ~ gesture /\ cur \notin failedOver =>
         (slot[cur] # None <=> enabled))

(* close always gets its answer. (platform.rs 247-258) *)
CloseReturns == pc = "close" ~> pc = "idle"

=============================================================================
