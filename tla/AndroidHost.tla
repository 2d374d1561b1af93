----------------------------- MODULE AndroidHost ----------------------------
(***************************************************************************)
(* crates/essenty-android/src: AndroidLifecycle of lifecycle.rs, which a   *)
(* host calls from the callbacks of its Activity, and                      *)
(* NativeActivityLifecycle of native_activity.rs, which is driven by the   *)
(* events of a NativeActivity and routes its Back key.                     *)
(*                                                                         *)
(* The Activity is external and goes its legal ways.  A host of            *)
(* AndroidLifecycle may come late, may leave callbacks out and may forward *)
(* one twice; a NativeActivity's events all arrive.  The system acts on a  *)
(* Back key of which it has seen both Down and Up.  Of the back dispatcher *)
(* only can_handle is of interest here, the rest is in BackDispatcher.     *)
(***************************************************************************)
EXTENDS LifecycleRegistry

CONSTANT MaxPresses  \* bound: number of presses of the Back key

ASSUME AndroidHostAssumption == MaxPresses \in Nat

VARIABLES
  adapter,       \* "callbacks" or "native"
  activity,      \* external: the state of the Activity, "Initialized" before it
  lastCallback,  \* history: the last callback that was forwarded
  modern,        \* modern_back_api: API level 33 or more
  canHandle,     \* BackDispatcher::can_handle
  key,           \* "up", or who got the Down of the Back key
  steady,        \* history: canHandle has not changed since that Down
  acts,          \* history: how often the last press was acted upon
  presses        \* number of presses so far

keyVars     == <<modern, canHandle, key, steady, acts, presses>>
androidVars == <<adapter, activity, lastCallback, keyVars>>
androidAll  == <<vars, androidVars>>

-----------------------------------------------------------------------------
AndroidInit ==
  /\ Init
  /\ adapter \in {"callbacks", "native"}
  /\ activity = (IF adapter = "native" THEN "Created" ELSE "Initialized")
  /\ lastCallback = "none"
  /\ modern \in BOOLEAN /\ canHandle \in BOOLEAN
  /\ key = "up" /\ steady = TRUE /\ acts = 1 /\ presses = 0

(* NativeActivityLifecycle::new, after Android has called onCreate. *)
NewNative ==
  /\ stack = <<>> /\ adapter = "native" /\ lastCallback = "none"
  /\ lastCallback' = "create"
  /\ MoveTo("Created")
  /\ UNCHANGED <<adapter, activity, keyVars>>

(* poll_events: what an event does to the registry before the host's own   *)
(* callback sees it.                                                       *)
PollEvent(event) ==
  CASE event \in {"start", "pause"} -> MoveTo("Started")
    [] event = "resume"             -> MoveTo("Resumed")
    [] event = "stop"               -> MoveTo("Created")
    [] event = "destroy"            -> MoveTo("Destroyed")

OnPauseStrict == Step("Resumed", "Started")  \* mutant of OnPause

OnPause == MoveTo("Started")

(* on_create ... on_destroy of AndroidLifecycle. *)
OnCallback(callback) ==
  CASE callback = "create" /\ state = "Initialized" -> Step("Initialized", "Created")
    [] callback = "create" /\ state # "Initialized" -> MoveTo("Created")
    [] callback = "start"                           -> MoveTo("Started")
    [] callback = "resume"                          -> MoveTo("Resumed")
    [] callback = "pause"                           -> OnPause
    [] callback = "stop"                            -> MoveTo("Created")
    [] callback = "destroy"                         -> Destroy

(* An Activity's ways: callback, from where, to where. *)
Ways == { <<"create",  "Initialized", "Created">>,
          <<"start",   "Created",     "Started">>,
          <<"resume",  "Started",     "Resumed">>,
          <<"pause",   "Resumed",     "Started">>,
          <<"stop",    "Started",     "Created">>,
          <<"destroy", "Created",     "Destroyed">> }

TargetOf(callback) ==
  IF callback = "none" THEN "Initialized"
  ELSE (CHOOSE way \in Ways : way[1] = callback)[3]

Callback ==
  /\ stack = <<>>
  /\ adapter = "native" => lastCallback # "none"
  /\ \E way \in Ways :
       /\ activity = way[2] /\ activity' = way[3]
       /\ \/ adapter = "native" /\ PollEvent(way[1]) /\ lastCallback' = way[1]
          \/ adapter = "callbacks" /\ OnCallback(way[1]) /\ lastCallback' = way[1]
          \/ adapter = "callbacks" /\ UNCHANGED <<vars, lastCallback>>
  /\ UNCHANGED <<adapter, keyVars>>

(* The host forwards the last callback once more. *)
Again ==
  /\ stack = <<>> /\ adapter = "callbacks" /\ lastCallback # "none"
  /\ OnCallback(lastCallback)
  /\ UNCHANGED androidVars

-----------------------------------------------------------------------------
(* handle_input_events.  With the modern API the key is not looked at. *)
InputCall == stack = <<>> /\ adapter = "native" /\ UNCHANGED vars

KeyDownSwallowing ==  \* mutant of KeyDown: Down is handled in any case
  /\ InputCall
  /\ key = "up" /\ presses < MaxPresses
  /\ key' = IF ~ modern THEN "rust" ELSE "system"
  /\ presses' = presses + 1
  /\ steady' = TRUE
  /\ UNCHANGED <<adapter, activity, lastCallback, modern, canHandle, acts>>

KeyDown ==
  /\ InputCall
  /\ key = "up" /\ presses < MaxPresses
  /\ key' = IF ~ modern /\ canHandle THEN "rust" ELSE "system"
  /\ presses' = presses + 1
  /\ steady' = TRUE
  /\ UNCHANGED <<adapter, activity, lastCallback, modern, canHandle, acts>>

(* Up calls back(), whose handlers may leave no handler enabled. *)
KeyUp ==
  /\ InputCall
  /\ key # "up"
  /\ key' = "up"
  /\ \/ /\ ~ modern /\ canHandle
        /\ acts' = 1
        /\ canHandle' \in BOOLEAN
     \/ /\ modern \/ ~ canHandle
        /\ acts' = IF key = "system" THEN 1 ELSE 0
        /\ UNCHANGED canHandle
  /\ UNCHANGED <<adapter, activity, lastCallback, modern, steady, presses>>

(* Components come and go with the handlers they have registered. *)
Availability ==
  /\ InputCall
  /\ canHandle' = ~ canHandle
  /\ steady' = (steady /\ key = "up")
  /\ UNCHANGED <<adapter, activity, lastCallback, modern, key, acts, presses>>

AndroidNext ==
  \/ NewNative
  \/ Callback
  \/ Again
  \/ KeyDown
  \/ KeyUp
  \/ Availability
  \/ (Components \/ Run \/ CallbackReturn) /\ UNCHANGED androidVars

AndroidSpec == AndroidInit /\ [][AndroidNext]_androidAll

-----------------------------------------------------------------------------
(* "Duplicate platform callbacks [are] harmless" and "out-of-order         *)
(* transitions are walked through intermediate states" (lifecycle.rs 5-8): *)
(* whatever was left out or said twice, between callbacks every observer   *)
(* was last told the state that the last forwarded callback stands for,    *)
(* which is the Activity's if it was forwarded at all. (lifecycle.rs       *)
(* 32-85; native_activity.rs 27-31, 53-67)                                 *)
ObserversFollowActivity ==
  stack = <<>> /\ lastCallback # "none" =>
    /\ state = TargetOf(lastCallback)
    /\ \A i \in DOMAIN observers : LastHeard(observers[i]) = TargetOf(lastCallback)

(* Down and Up of a Back key are offered to the dispatcher one by one; a   *)
(* press is acted upon once all the same, by a handler or by the system,   *)
(* unless the dispatcher changed its mind while the key was down.          *)
(* (native_activity.rs 84-95)                                              *)
PressActsOnce == key = "up" /\ steady => acts = 1

=============================================================================
