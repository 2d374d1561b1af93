------------------------------ MODULE AppleHost -----------------------------
(***************************************************************************)
(* crates/essenty-apple/src: the application observers of UIKit, AppKit    *)
(* and WatchKit and the shared AppleLifecycle that a scene host calls,     *)
(* each with the registry it drives and the components that observe it.    *)
(*                                                                         *)
(* The application is external.  It is launched, and its windows are in    *)
(* front and active, in front and inactive, or away, that is in the        *)
(* background (UIKit, WatchKit, scenes) or hidden (AppKit).  AppKit is     *)
(* taken to resign before it hides and to unhide before it activates, and  *)
(* nobody attaches from inside the delivery of a notification.             *)
(*                                                                         *)
(* Notifications come on the main thread and are delivered by calls of the *)
(* registry, one after the other.                                          *)
(***************************************************************************)
EXTENDS LifecycleRegistry

CONSTANT Systems  \* the adapters looked at

ASSUME SystemsAssumption ==
  Systems \subseteq {"uikit", "appkit", "watchkit", "scene"}

VARIABLES
  os,         \* the adapter
  launched,   \* external: whether the launch was announced
  front,      \* external: "active", "inactive" or "away"
  attached,   \* "no", "yes" or "dropped"
  lastNotice  \* history: the last notification since the attachment

appleVars == <<os, launched, front, attached, lastNotice>>
appleAll  == <<vars, appleVars>>

-----------------------------------------------------------------------------
AppleInit ==
  /\ Init
  /\ os \in Systems
  /\ launched \in BOOLEAN
  /\ front \in {"active", "inactive", "away"}
  /\ ~ launched => front # "active" /\ (os = "scene" => front = "away")
  /\ os = "scene" => ~ launched
  /\ attached = "no" /\ lastNotice = "none"

InitialFromActive == IF front = "active" THEN "Resumed" ELSE "Created"  \* mutant

(* The state `new` reads off the application that it attaches to. *)
Initial ==
  IF front = "active" THEN "Resumed"
  ELSE IF front = "inactive" \/ os = "appkit" THEN "Started" ELSE "Created"

(* ApplicationLifecycle::new and AppleLifecycle::new.  AppKit's application *)
(* is asked only once it runs.  A scene is not asked at all: its host has  *)
(* AppleLifecycle before it connects.                                      *)
AppleAttach ==
  /\ stack = <<>> /\ attached = "no"
  /\ os = "scene" => ~ launched
  /\ attached' = "yes"
  /\ IF os = "scene" \/ (os = "appkit" /\ ~ launched)
     THEN UNCHANGED vars
     ELSE MoveTo(Initial)
  /\ UNCHANGED <<os, launched, front, lastNotice>>

(* Drop: the observer is removed; WatchKit's destroys its registry. *)
AppleDrop ==
  /\ stack = <<>> /\ attached = "yes"
  /\ attached' = "dropped"
  /\ IF os = "watchkit" THEN Destroy ELSE UNCHANGED vars
  /\ UNCHANGED <<os, launched, front, lastNotice>>

(* A notification reaches the observer registered for it. *)
Announce(name, call) ==
  /\ stack = <<>>
  /\ IF attached = "yes" THEN call /\ lastNotice' = name
                         ELSE UNCHANGED <<vars, lastNotice>>
  /\ UNCHANGED <<os, attached>>

FinishLaunching ==
  /\ ~ launched
  /\ launched' = TRUE
  /\ UNCHANGED front
  /\ Announce("launch", MoveTo("Created"))

Becomes(from, to) ==
  launched /\ front = from /\ front' = to /\ UNCHANGED launched

EnterForeground == Becomes("away", "inactive") /\ Announce("foreground", MoveTo("Started"))

BecomeActive == Becomes("inactive", "active") /\ Announce("active", MoveTo("Resumed"))

ResignToCreated ==  \* mutant of ResignActive: taken for the background
  Becomes("active", "inactive") /\ Announce("resign", MoveTo("Created"))

ResignActive == Becomes("active", "inactive") /\ Announce("resign", MoveTo("Started"))

EnterBackground == Becomes("inactive", "away") /\ Announce("background", MoveTo("Created"))

(* WatchKit announces no end; a scene is disconnected in the background.   *)
Terminate ==
  /\ launched /\ os # "watchkit"
  /\ os = "scene" => front = "away"
  /\ UNCHANGED <<launched, front>>
  /\ Announce("terminate", Destroy)

Application ==
  \/ FinishLaunching
  \/ EnterForeground
  \/ BecomeActive
  \/ ResignActive
  \/ EnterBackground
  \/ Terminate

AppleNext ==
  \/ AppleAttach
  \/ AppleDrop
  \/ lastNotice # "terminate" /\ Application
  \/ (Components \/ Run \/ CallbackReturn) /\ UNCHANGED appleVars

AppleSpec == AppleInit /\ [][AppleNext]_appleAll

-----------------------------------------------------------------------------
(* Where the application is, as far as an adapter can know.  Before the    *)
(* first notification it has `new` to go by, which takes a hidden AppKit   *)
(* application for an inactive one; the launch is announced as Created     *)
(* although the application is in front already.                           *)
Expected ==
  LET unasked == os = "scene" \/ (os = "appkit" /\ ~ launched) IN
  IF attached = "dropped" \/ lastNotice = "terminate" THEN "Destroyed"
  ELSE IF lastNotice = "launch" THEN "Created"
  ELSE IF lastNotice = "none" /\ unasked THEN "Initialized"
  ELSE IF front = "active" THEN "Resumed"
  ELSE IF front = "inactive" THEN "Started"
  ELSE IF lastNotice = "none" /\ os = "appkit" THEN "Started" ELSE "Created"

(* Between notifications every component that observes the registry was    *)
(* last told where the application is, whether the adapter or the          *)
(* component came late, and however long the notifications went on; what   *)
(* WatchKit's adapter leaves behind when it is dropped is destroyed.       *)
(* (uikit_native.rs 30-60, 112-118; macos_native.rs 32-62, 113-118;        *)
(* watch_native.rs 39-64, 122-151)                                         *)
ObserversFollowApplication ==
  /\ attached = "yes" \/ (attached = "dropped" /\ os = "watchkit")
  /\ stack = <<>>
  =>
    /\ state = Expected
    /\ \A i \in DOMAIN observers : LastHeard(observers[i]) = Expected

(* No component is told to stop while the application stays in front,      *)
(* apart from two occasions the code has: the launch notification, when    *)
(* the adapter was attached before it, and destruction.  (uikit_native.rs  *)
(* 32-54; docs/APPLE.md 33-36)                                             *)
StopsOnlyWhenAway ==
  [][state = "Started" /\ state' = "Created" =>
       \/ front = "away" \/ lastNotice = "launch"
       \/ \E i \in DOMAIN stack : stack[i].op = "destroy"]_appleAll

=============================================================================
