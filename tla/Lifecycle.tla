----------------------------- MODULE Lifecycle ------------------------------
(***************************************************************************)
(* What a LifecycleRegistry promises about its state alone: a walk of the  *)
(* chain Initialized - Created - Started - Resumed, one rank at a time,    *)
(* never back to Initialized, left only downwards into the terminal        *)
(* Destroyed.  Who asked for a transition, through which method and from   *)
(* how deep inside other notifications, is not visible here.               *)
(***************************************************************************)
EXTENDS LifecycleState

VARIABLE state

Trans(from, to) == state = from /\ state' = to

Create  == Trans("Initialized", "Created")
Start   == Trans("Created", "Started")
Resume  == Trans("Started", "Resumed")
Pause   == Trans("Resumed", "Started")
Stop    == Trans("Started", "Created")
Destroy == \E from \in {"Initialized", "Created"} : Trans(from, "Destroyed")

Init == state = "Initialized"
Next == Create \/ Start \/ Resume \/ Pause \/ Stop \/ Destroy
Spec == Init /\ [][Next]_state

=============================================================================
