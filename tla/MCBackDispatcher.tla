-------------------------- MODULE MCBackDispatcher --------------------------
(***************************************************************************)
(* Two instances of the dispatcher, one of which a behaviour follows from  *)
(* its first state on:                                                     *)
(*   "gestures"   three handlers, any host, no listeners, one command per  *)
(*                callback,                                                *)
(*   "listeners"  two handlers after one that has come and gone, a serial  *)
(*                host, the listeners and commands of the constants.       *)
(* No listener comes once MaxListeners have come and gone.                 *)
(***************************************************************************)
EXTENDS BackDispatcher

VARIABLE scenario

Gestures == INSTANCE BackDispatcher WITH MaxCommands <- 1

Begun(handlers, added) ==
  /\ entries = <<>> /\ nextId = handlers
  /\ active = None /\ inFlight = FALSE /\ startEvent = None
  /\ listeners = <<>> /\ nextListener = added
  /\ hasEnabled = FALSE
  /\ todo = <<>>
  /\ told = [id \in Ids |-> None]

MCInit ==
  \/ scenario = "gestures" /\ serial \in BOOLEAN /\ Begun(0, MaxListeners)
  \/ scenario = "listeners" /\ serial = TRUE /\ Begun(1, 0)

MCNext ==
  /\ \/ scenario = "gestures" /\ Gestures!Next
     \/ scenario = "listeners" /\ Next
  /\ UNCHANGED scenario

MCSpec == MCInit /\ [][MCNext]_<<vars, scenario>>

=============================================================================
