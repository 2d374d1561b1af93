-------------------------- MODULE TransitionHelpers -------------------------
(***************************************************************************)
(* The do_on_* helpers of crates/essenty-lifecycle/src/registry.rs: one    *)
(* observer each, whose closure recognises a directed transition from two  *)
(* consecutive deliveries and then runs user code.  They share a registry  *)
(* with plain observers, which may do what LifecycleRegistry allows.       *)
(***************************************************************************)
EXTENDS LifecycleRegistry

CONSTANT Kinds  \* the helpers user code may create, as <<from, to, once>>

(* What registry.rs offers.  do_on_destroy recognises Destroyed whatever   *)
(* came before; its from is not used.                                      *)
DoOnCreate  == <<"Initialized", "Created", TRUE>>
DoOnStart   == { <<"Created", "Started", once>> : once \in BOOLEAN }
DoOnResume  == { <<"Started", "Resumed", once>> : once \in BOOLEAN }
DoOnPause   == { <<"Resumed", "Started", once>> : once \in BOOLEAN }
DoOnStop    == { <<"Started", "Created", once>> : once \in BOOLEAN }
DoOnDestroy == <<"Created", "Destroyed", FALSE>>
AllKinds    == {DoOnCreate, DoOnDestroy}
                 \cup DoOnStart \cup DoOnResume \cup DoOnPause \cup DoOnStop

ASSUME KindsAssumption == Kinds \subseteq AllKinds

VARIABLES
  helper,  \* the closures' cells, by the id of their observer
  fires,   \* history: the helper calls of user code, by observer id
  firing,  \* the positions in the stack of closures that have fired and now
           \* run their user code
  late     \* the do_on_destroy calls that run their callback at once, by the
           \* number of frames below them

helperVars == <<helper, fires, firing, late>>
allVars == <<vars, helperVars>>

Helpers == DOMAIN helper

CellsUnset(kind) ==  \* mutant of Cells: tracking starts at no state
  [from |-> kind[1], to |-> kind[2], once |-> kind[3],
   previous |-> "None", fired |-> FALSE, armed |-> FALSE, since |-> state]

(* A helper's cells: previous, fired and whether id_slot is set; since is  *)
(* the state at the subscription, for the properties.                      *)
Cells(kind) ==
  [from |-> kind[1], to |-> kind[2], once |-> kind[3],
   previous |-> "Initialized", fired |-> FALSE, armed |-> FALSE,
   since |-> state]

Depth == Len(stack)

(* A closure has been called and has not yet looked at the delivery. *)
InClosure == On("callback") /\ Top.id \in Helpers /\ Depth \notin firing

(* What runs is the callback of a late do_on_destroy. *)
InLate == late # <<>> /\ late[Len(late)] = Depth

(* A late do_on_destroy still has to subscribe. *)
Room == nextId + Len(late) < MaxObservers

-----------------------------------------------------------------------------
HelperInit ==
  Init /\ helper = <<>> /\ fires = <<>> /\ firing = {} /\ late = <<>>

(* on_transition, and do_on_destroy on a live registry, up to the replay   *)
(* of subscribe.                                                           *)
DoOn(kind) ==
  /\ ~ InClosure /\ Room
  /\ kind = DoOnDestroy => state # "Destroyed"
  /\ Subscribe
  /\ helper' = [id \in Helpers \cup {nextId} |->
                  IF id = nextId THEN Cells(kind) ELSE helper[id]]
  /\ UNCHANGED <<fires, firing, late>>

(* do_on_destroy on a destroyed registry: the callback runs at once, which *)
(* is user code on top of the caller's, then an inert observer is          *)
(* subscribed, of which only the id remains.                               *)
DoOnDestroyLate ==
  /\ UserCode /\ ~ InClosure /\ Room
  /\ DoOnDestroy \in Kinds
  /\ state = "Destroyed"
  /\ late' = Append(late, Depth)
  /\ UNCHANGED <<vars, helper, fires, firing>>

SubscribeInert ==
  /\ InLate
  /\ Subscribe
  /\ late' = SubSeq(late, 1, Len(late) - 1)
  /\ UNCHANGED <<helper, fires, firing>>

RecognisesState(h, event) ==  \* mutant of Recognises: whatever came before
  event = h.to /\ (h.once => ~ h.fired)

RecognisesAgain(h, event) ==  \* mutant of Recognises: fired is not asked
  IF h.to = "Destroyed" THEN event = "Destroyed"
  ELSE h.previous = h.from /\ event = h.to

RecognisesBefore(h, event) ==  \* mutant of Recognises: the way to Destroyed
  IF h.to = "Destroyed" THEN h.previous = "Started" /\ event = "Created"
  ELSE h.previous = h.from /\ event = h.to /\ (h.once => ~ h.fired)

(* What a closure makes of the delivery in the top frame. *)
Recognises(h, event) ==
  IF h.to = "Destroyed" THEN event = "Destroyed"
  ELSE h.previous = h.from /\ event = h.to /\ (h.once => ~ h.fired)

(* The closure ignores the delivery. *)
Ignore ==
  /\ InClosure
  /\ ~ Recognises(helper[Top.id], Top.event)
  /\ helper' = [helper EXCEPT ![Top.id].previous = Top.event]
  /\ CallbackReturn
  /\ UNCHANGED <<fires, firing, late>>

(* The closure fires: a one-shot whose id is known unsubscribes itself     *)
(* before the user code runs.                                              *)
Fire ==
  /\ InClosure
  /\ Recognises(helper[Top.id], Top.event)
  /\ helper' = [helper EXCEPT ![Top.id].previous = Top.event,
                              ![Top.id].fired = TRUE]
  /\ observers' = IF helper[Top.id].once /\ helper[Top.id].armed
                  THEN Without(Top.id) ELSE observers
  /\ firing' = firing \cup {Depth}
  /\ fires' = Append(fires, Top.id)
  /\ UNCHANGED <<state, nextId, stack, ret, log, deliveries, late>>

(* The rest of on_transition once subscribe has returned: id_slot is set,  *)
(* and a one-shot that fired during the replay is unsubscribed.            *)
Arm ==
  /\ On("subscribe") /\ Top.todo = <<>> /\ Top.id \in Helpers
  /\ helper' = [helper EXCEPT ![Top.id].armed = TRUE]
  /\ observers' = IF helper[Top.id].once /\ helper[Top.id].fired
                  THEN Without(Top.id) ELSE observers
  /\ Return("Ok")
  /\ UNCHANGED <<fires, firing, late>>

(* User code returns to the registry, through the closure that called it;  *)
(* the callback of a late do_on_destroy returns to that first.             *)
UserReturn ==
  /\ ~ InClosure /\ ~ InLate
  /\ CallbackReturn
  /\ firing' = firing \ {Depth}
  /\ UNCHANGED <<helper, fires, late>>

HelperCall ==
  \/ \E kind \in Kinds : DoOn(kind)
  \/ DoOnDestroyLate
  \/ /\ ~ InClosure
     /\ Call /\ (Room \/ UNCHANGED nextId)
     /\ UNCHANGED helperVars

HelperRun ==
  \/ SubscribeInert
  \/ Ignore
  \/ Fire
  \/ Arm
  \/ Notify /\ UNCHANGED helperVars
  \/ ApplyDone /\ UNCHANGED helperVars
  \/ FinishDestroy /\ UNCHANGED helperVars
  \/ MoveToRound /\ UNCHANGED helperVars
  \/ Replay /\ UNCHANGED helperVars
  \/ SubscribeDone /\ Top.id \notin Helpers /\ UNCHANGED helperVars
  \/ UserReturn

HelperNext == HelperCall \/ HelperRun
HelperSpec == HelperInit /\ [][HelperNext]_allVars

-----------------------------------------------------------------------------
HelperTypeOK ==
  /\ Helpers \subseteq 0 .. nextId - 1
  /\ helper \in [Helpers -> [from : States, to : States, once : BOOLEAN,
                             previous : States, fired : BOOLEAN,
                             armed : BOOLEAN, since : States]]
  /\ fires \in Seq(Helpers)
  /\ firing \subseteq {i \in DOMAIN stack : stack[i].op = "callback"}
  /\ late \in Seq(0 .. Depth)

Fires(id) == Cardinality({k \in DOMAIN fires : fires[k] = id})

(* The transitions a helper is there to report: the forward ones replayed  *)
(* to it and those applied while it was registered.                        *)
Replayed(h) ==
  IF /\ h.since # "Destroyed" /\ h.to # "Destroyed"
     /\ Rank(h.from) < Rank(h.to) /\ Rank(h.to) <= Rank(h.since)
  THEN 1 ELSE 0

Applied(id, h) ==
  Cardinality({n \in DOMAIN log :
    /\ id \in log[n].registered
    /\ log[n].to = h.to
    /\ h.to # "Destroyed" => log[n].from = h.from})

Reported(id) == Replayed(helper[id]) + Applied(id, helper[id])

(* A helper runs user code once for every transition it is there to        *)
(* report, one-shots for the first one only: none is missed, and none is   *)
(* taken for another of the same target; provided that its observer heard  *)
(* the replay first and the transitions in their order, which a transition *)
(* nested in an observer before it undoes, and so does one that its own    *)
(* callback asks for in the middle of the replay.                          *)
(* (registry.rs 287-375, 401-421)                                          *)
HeardOrdered(id) ==
  \A j, k \in Heard(id) : j < k =>
    \/ deliveries[j].n < deliveries[k].n
    \/ deliveries[j].n = 0 /\ deliveries[k].n = 0

HelpersExact ==
  stack = <<>> =>
    \A id \in Helpers : HeardOrdered(id) =>
      Fires(id) = IF helper[id].once /\ Reported(id) > 0 THEN 1
                                                        ELSE Reported(id)

(* A one-shot helper fires at most once, even when it fires during the     *)
(* replay, before its id is known, or is notified again by a transition    *)
(* nested in its own callback or still in flight around it; and one that   *)
(* has fired is not subscribed any more when the call that created it has  *)
(* returned.  (registry.rs 404-408, 413-421)                               *)
OneShotFiresOnce ==
  \A id \in Helpers : helper[id].once =>
    /\ Fires(id) <= 1
    /\ Fires(id) = 1 /\ ~ Subscribing(id) =>
         \A i \in DOMAIN observers : observers[i] # id

(* do_on_destroy reports the destruction of the registry once, however it  *)
(* came about, and nothing else.  (registry.rs 365-375)                    *)
DestroyReportedOnce ==
  \A id \in Helpers : helper[id].to = "Destroyed" =>
    /\ Fires(id) > 0 => state = "Destroyed"
    /\ stack = <<>> => Fires(id) = Applied(id, helper[id])

(* "a forward Initialized -> Created transition does not trigger this      *)
(* callback" (registry.rs 345-347): do_on_stop stays silent as long as no  *)
(* Started -> Created transition has taken place.                          *)
StopOnlyAfterStop ==
  \A k \in DOMAIN fires :
    LET h == helper[fires[k]] IN
    h.from = "Started" /\ h.to = "Created" =>
      \E n \in DOMAIN log : log[n].from = "Started" /\ log[n].to = "Created"

=============================================================================

