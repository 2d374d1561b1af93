---------------------------- MODULE Hosts_proofs ----------------------------
(***************************************************************************)
(* The hosts of the registry: AppleHost, WebHost, AndroidHost and          *)
(* RuntimeHost.  Each drives a registry of its own and so inherits what    *)
(* holds of registries; the state that a call of a host is going to leave, *)
(* its goal, is related to the platform at every step of the call.         *)
(***************************************************************************)
EXTENDS AppleHost, WebHost, AndroidHost, RuntimeHost, LifecycleNotification_proofs

(* What a host does to the registry between two calls. *)
LEMMA IdleGoal ==
  ASSUME stack = <<>>
  PROVE  Goal = state
BY DEF Goal

(* What runs on by itself moves the state in a walk only. *)
LEMMA StateMoves ==
  ASSUME Components \/ Run \/ CallbackReturn \/ UNCHANGED vars, state' # state
  PROVE  FinishDestroy \/ MoveToRound
BY DEF Components, Run, Subscribe, Unsubscribe, CallbackReturn, Return, Notify, Replay,
       ApplyDone, SubscribeDone, vars

(* Where the goal is reached nothing moves the state any more. *)
LEMMA GoalReached ==
  ASSUME TypeOK, TypeOK', Flat, DestroyGoesOn, Reentrant = FALSE, Goal = state,
         Components \/ Run \/ CallbackReturn \/ UNCHANGED vars
  PROVE  Goal' = state'
<1>0. /\ stack \in Seq(Frames) /\ Len(stack) \in Nat /\ DOMAIN stack = 1 .. Len(stack)
  BY LenProperties DEF TypeOK
<1>1. Goal' = Goal
  BY GoalStep
<1>2. ASSUME state' # state PROVE FALSE
  <2>1. stack # <<>> /\ Walks(Top)
    BY <1>2, StateMoves DEF FinishDestroy, MoveToRound, On, Walks
  <2>2. Len(stack) \in DOMAIN stack
    BY <1>0, <2>1, TopAndBelow
  <2>3. state # "Destroyed"
    BY <2>1, <2>2 DEF Flat, WalksOutermost, Top
  <2>4. stack[1].op # "destroy"
    BY <2>1, <2>3 DEF Goal
  <2>5. Len(stack) = 1 /\ Top = stack[1]
    BY <1>0, <2>1, <2>2, <2>4 DEF Flat, WalksOutermost, Top
  <2>6. Top.op = "move_to" /\ Top.target = state
    BY <2>1, <2>4, <2>5 DEF Walks, Goal
  <2> QED BY <1>2, <2>1, <2>4, <2>5, <2>6, StateMoves
          DEF FinishDestroy, MoveToRound, On, Return
<1> QED BY <1>1, <1>2

-----------------------------------------------------------------------------
(* The application observers of Apple's systems. *)
AppleInv ==
  /\ attached \in {"no", "yes", "dropped"}
  /\ front \in {"active", "inactive", "away"}
  /\ attached = "no" => lastNotice = "none" /\ Goal = "Initialized"
  /\ attached = "yes" \/ (attached = "dropped" /\ os = "watchkit") => Goal = Expected
  /\ attached = "dropped" /\ os # "watchkit" => Goal = state

LEMMA AppleSteps == [AppleNext]_appleAll => [Next]_vars
BY DEF AppleNext, appleAll, AppleAttach, AppleDrop, Application, Announce, FinishLaunching,
       EnterForeground, BecomeActive, ResignActive, EnterBackground, Terminate, Next, Call,
       Initial, States

LEMMA AppleImplements == AppleSpec => Spec
BY AppleSteps, PTL DEF AppleSpec, AppleInit, Spec

(* A notification that reaches the adapter. *)
LEMMA AppleAnnounced ==
  ASSUME AppleInv, stack = <<>>, lastNotice # "terminate",
         NEW name \in {"launch", "foreground", "active", "resign", "background", "terminate"},
         NEW call, Announce(name, call),
         front' \in {"active", "inactive", "away"},
         attached = "yes" => Goal' = Expected'
  PROVE  AppleInv'
<1>1. UNCHANGED <<os, attached>>
  BY DEF Announce
<1>2. CASE attached = "yes"
  BY <1>1, <1>2 DEF AppleInv
<1>3. CASE attached # "yes"
  <2>1. UNCHANGED <<vars, lastNotice>>
    BY <1>3 DEF Announce
  <2>2. Goal' = Goal
    BY <2>1 DEF vars, Goal
  <2>3. attached = "dropped" => Expected' = Expected
    BY <1>1 DEF Expected
  <2> QED BY <1>1, <1>3, <2>1, <2>2, <2>3 DEF AppleInv, vars
<1> QED BY <1>2, <1>3

LEMMA AppleStep ==
  ASSUME FlatInv, FlatInv', Reentrant = FALSE, AppleInv, [AppleNext]_appleAll
  PROVE  AppleInv'
<1>0. /\ TypeOK /\ TypeOK' /\ Flat /\ DestroyGoesOn /\ state \in States
  BY DEF FlatInv, TypeOK
<1>1. CASE (Components \/ Run \/ CallbackReturn \/ UNCHANGED vars) /\ UNCHANGED appleVars
  <2>1. Goal' = Goal
    BY <1>0, <1>1, GoalStep
  <2>2. Expected' = Expected
    BY <1>1 DEF appleVars, Expected
  <2>3. Goal = state => Goal' = state'
    BY <1>0, <1>1, GoalReached
  <2> QED BY <1>1, <2>1, <2>2, <2>3 DEF AppleInv, appleVars
<1>2. CASE AppleAttach
  <2>1. /\ stack = <<>> /\ attached = "no" /\ attached' = "yes" /\ lastNotice' = "none"
        /\ UNCHANGED <<os, launched, front>> /\ state = "Initialized" /\ Goal = state
    BY <1>2, IdleGoal DEF AppleAttach, AppleInv
  <2>2. CASE os = "scene" \/ (os = "appkit" /\ ~ launched)
    <3>1. Goal' = Goal
      BY <1>2, <2>2 DEF AppleAttach, vars, Goal
    <3> QED BY <2>1, <2>2, <3>1 DEF AppleInv, Expected
  <2>3. CASE ~ (os = "scene" \/ (os = "appkit" /\ ~ launched))
    <3>1. MoveTo(Initial) /\ Initial \in {"Created", "Started", "Resumed"}
      BY <1>2, <2>3 DEF AppleAttach, Initial
    <3>2. Goal' = Initial
      BY <2>1, <3>1, GoalOfMoveTo DEF States
    <3>3. Initial = Expected'
      BY <2>1, <2>3 DEF AppleInv, Initial, Expected
    <3> QED BY <2>1, <3>2, <3>3 DEF AppleInv
  <2> QED BY <2>2, <2>3
<1>3. CASE AppleDrop
  <2>1. /\ stack = <<>> /\ attached' = "dropped" /\ Goal = state
        /\ UNCHANGED <<os, launched, front, lastNotice>>
    BY <1>3, IdleGoal DEF AppleDrop
  <2>2. CASE os = "watchkit"
    <3>1. Goal' = "Destroyed" /\ Expected' = "Destroyed"
      BY <1>3, <2>1, <2>2, GoalOfDestroy DEF AppleDrop, Expected
    <3> QED BY <2>1, <2>2, <3>1 DEF AppleInv
  <2>3. CASE os # "watchkit"
    <3>1. Goal' = Goal /\ state' = state
      BY <1>3, <2>3 DEF AppleDrop, vars, Goal
    <3> QED BY <2>1, <2>3, <3>1 DEF AppleInv
  <2> QED BY <2>2, <2>3
<1>4. CASE lastNotice # "terminate" /\ Application
  <2>1. stack = <<>>
    BY <1>4 DEF Application, Announce, FinishLaunching, EnterForeground, BecomeActive,
                ResignActive, EnterBackground, Terminate
  <2>2. attached = "yes" => Goal = state /\ state # "Destroyed"
    BY <1>4, <2>1, IdleGoal DEF AppleInv, Expected
  <2>3. ASSUME NEW target \in {"Created", "Started", "Resumed"}, MoveTo(target),
               attached = "yes"
        PROVE  Goal' = target
    BY <2>1, <2>2, <2>3, GoalOfMoveTo DEF States
  <2>4. CASE FinishLaunching
    <3>1. front' = front /\ Announce("launch", MoveTo("Created"))
      BY <2>4 DEF FinishLaunching
    <3>2. attached = "yes" => Goal' = "Created" /\ Expected' = "Created"
      BY <2>3, <3>1 DEF Announce, Expected
    <3> QED BY <1>4, <2>1, <3>1, <3>2, AppleAnnounced DEF AppleInv
  <2>5. CASE EnterForeground
    <3>1. front' = "inactive" /\ Announce("foreground", MoveTo("Started"))
      BY <2>5 DEF EnterForeground, Becomes
    <3>2. attached = "yes" => Goal' = "Started" /\ Expected' = "Started"
      BY <2>3, <3>1 DEF Announce, Expected
    <3> QED BY <1>4, <2>1, <3>1, <3>2, AppleAnnounced DEF AppleInv
  <2>6. CASE BecomeActive
    <3>1. front' = "active" /\ Announce("active", MoveTo("Resumed"))
      BY <2>6 DEF BecomeActive, Becomes
    <3>2. attached = "yes" => Goal' = "Resumed" /\ Expected' = "Resumed"
      BY <2>3, <3>1 DEF Announce, Expected
    <3> QED BY <1>4, <2>1, <3>1, <3>2, AppleAnnounced DEF AppleInv
  <2>7. CASE ResignActive
    <3>1. front' = "inactive" /\ Announce("resign", MoveTo("Started"))
      BY <2>7 DEF ResignActive, Becomes
    <3>2. attached = "yes" => Goal' = "Started" /\ Expected' = "Started"
      BY <2>3, <3>1 DEF Announce, Expected
    <3> QED BY <1>4, <2>1, <3>1, <3>2, AppleAnnounced DEF AppleInv
  <2>8. CASE EnterBackground
    <3>1. front' = "away" /\ Announce("background", MoveTo("Created"))
      BY <2>8 DEF EnterBackground, Becomes
    <3>2. attached = "yes" => Goal' = "Created" /\ Expected' = "Created"
      BY <2>3, <3>1 DEF Announce, Expected
    <3> QED BY <1>4, <2>1, <3>1, <3>2, AppleAnnounced DEF AppleInv
  <2>9. CASE Terminate
    <3>1. front' = front /\ Announce("terminate", Destroy)
      BY <2>9 DEF Terminate
    <3>2. attached = "yes" => Goal' = "Destroyed" /\ Expected' = "Destroyed"
      BY <2>1, <3>1, GoalOfDestroy DEF Announce, Expected
    <3> QED BY <1>4, <2>1, <3>1, <3>2, AppleAnnounced DEF AppleInv
  <2> QED BY <1>4, <2>4, <2>5, <2>6, <2>7, <2>8, <2>9 DEF Application
<1>5. UNCHANGED appleAll => UNCHANGED vars /\ UNCHANGED appleVars
  BY DEF appleAll
<1> QED BY <1>1, <1>2, <1>3, <1>4, <1>5 DEF AppleNext

LEMMA AppleInductive ==
  ASSUME Reentrant = FALSE
  PROVE  AppleSpec => []AppleInv /\ []FlatInv
<1>1. AppleInit => AppleInv
  BY DEF AppleInit, AppleInv, Init, Goal
<1>2. FlatInv /\ FlatInv' /\ AppleInv /\ [AppleNext]_appleAll => AppleInv'
  BY AppleStep
<1> QED BY <1>1, <1>2, AppleImplements, FlatRegistry, PTL DEF AppleSpec

(* What observers know of a registry that has come to rest. *)
LEMMA RestsKnown ==
  ASSUME FlatInv, stack = <<>>
  PROVE  Goal = state /\ \A i \in DOMAIN observers : LastHeard(observers[i]) = state
BY IdleGoal, ToldAll DEF FlatInv, EveryoneKnows

(* Between notifications every component that observes the registry knows  *)
(* where the application is, when its observers do not ask for transitions. *)
(* (uikit_native.rs 30-60, 112-118; macos_native.rs 32-62, 113-118;        *)
(* watch_native.rs 39-64, 122-151)                                         *)
THEOREM ApplicationFollowed ==
  ASSUME Reentrant = FALSE
  PROVE  AppleSpec => []ObserversFollowApplication
<1>1. FlatInv /\ AppleInv => ObserversFollowApplication
  BY RestsKnown DEF AppleInv, ObserversFollowApplication
<1> QED BY <1>1, AppleInductive, PTL

(* No component is told to stop while the application stays in front: a    *)
(* walk down from Started is on its way to Created or to Destroyed, and    *)
(* Created is where the application is only when it is away or was         *)
(* launched.  (uikit_native.rs 32-54; docs/APPLE.md 33-36)                 *)
THEOREM StopsJustified ==
  ASSUME Reentrant = FALSE
  PROVE  AppleSpec => StopsOnlyWhenAway
<1> DEFINE Stops == state = "Started" /\ state' = "Created" =>
                      \/ front = "away" \/ lastNotice = "launch"
                      \/ \E i \in DOMAIN stack : stack[i].op = "destroy"
<1>1. ASSUME FlatInv, FlatInv', AppleInv, [AppleNext]_appleAll PROVE Stops
  <2> SUFFICES ASSUME state = "Started", state' = "Created", front # "away",
                      lastNotice # "launch",
                      \A i \in DOMAIN stack : stack[i].op # "destroy"
               PROVE  FALSE
    BY <1>1
  <2>0. /\ stack \in Seq(Frames) /\ Len(stack) \in Nat /\ DOMAIN stack = 1 .. Len(stack)
        /\ TypeOK /\ WalksOutermost
    BY <1>1, LenProperties DEF FlatInv, TypeOK, Flat
  <2>1. ASSUME NEW target, MoveTo(target) PROVE FALSE
    BY <2>1 DEF MoveTo, BeginDestroy, Apply, Answer
  <2>2. ~ Destroy
    BY DEF Destroy, BeginDestroy, Apply, Answer
  <2>3. ~ UNCHANGED vars
    BY DEF vars
  <2>4. (Components \/ Run \/ CallbackReturn) /\ UNCHANGED appleVars
    BY <1>1, <2>1, <2>2, <2>3
       DEF AppleNext, appleAll, AppleAttach, AppleDrop, Application, Announce, FinishLaunching,
           EnterForeground, BecomeActive, ResignActive, EnterBackground, Terminate
  <2>5. stack # <<>> /\ Len(stack) \in DOMAIN stack
    <3>1. stack # <<>>
      BY <2>4, StateMoves DEF FinishDestroy, MoveToRound, On
    <3> QED BY <2>0, <3>1, TopAndBelow
  <2>6. MoveToRound
    BY <2>4, <2>5, StateMoves DEF FinishDestroy, On, Top
  <2>7. Top.op = "move_to" /\ Top.target \in {"Created", "Started", "Resumed"}
    BY <2>0, <2>6, TopAndBelow, FrameShapes DEF MoveToRound, On
  <2>8. Top.target = "Created"
    <3>1. Towards(Top.target) = "Created" /\ Top.target # "Started"
      BY <2>6 DEF MoveToRound, Apply, Return
    <3>2. Towards("Resumed") = "Resumed"
      <4>1. Rank("Started") = 2 /\ Rank("Resumed") = 3 /\ FromRank(3) = "Resumed"
        BY DEF Rank, FromRank
      <4> QED BY <4>1 DEF Towards
    <3> QED BY <2>7, <3>1, <3>2
  <2>9. Len(stack) = 1
    <3>1. \A i \in 1 .. Len(stack) - 1 : i \in DOMAIN stack /\ stack[i].op = "destroy"
      BY <2>0, <2>5, <2>7 DEF WalksOutermost, Walks, Top
    <3> QED BY <2>0, <2>5, <3>1
  <2>10. Goal = "Created"
    BY <2>5, <2>7, <2>8, <2>9 DEF Goal, Top
  <2> QED BY <1>1, <2>10 DEF AppleInv, Expected
<1> QED BY <1>1, AppleInductive, PTL DEF AppleSpec, StopsOnlyWhenAway

-----------------------------------------------------------------------------
(* The page of a browser.  What the queue has still to dispatch tells how  *)
(* the page got where it is.                                               *)
Changed == [type |-> "visibilitychange"]
Shown   == [type |-> "pageshow"]
Hidden  == [type |-> "hidden"]

Arriving == queue \in {<<Changed>>, <<Changed, Shown>>, <<Shown>>} /\ page = "shown"

Leaving ==
  \E persisted \in BOOLEAN :
    /\ queue \in {<< PageHide(persisted) >>, << PageHide(persisted), Hidden >>}
    /\ page = IF persisted THEN "cached" ELSE "gone"

Left == queue = << Hidden >> /\ page \in {"cached", "gone"}

WebInv ==
  /\ ListenersOwned
  /\ visibility \in Visibilities
  /\ bound \in {"no", "yes", "dropped"}
  /\ page \in {"shown", "cached", "evicted", "gone"}
  /\ queue = <<>> \/ Arriving \/ Leaving \/ Left
  /\ bound = "no" => Goal = "Initialized"
  /\ bound = "yes" => IF Arriving \/ Leaving THEN Goal \in States \ {"Destroyed"}
                                             ELSE Goal \in PageState

LEMMA WebSteps == [WebNext]_webAll => [Next]_vars
BY DEF WebNext, webAll, WebAttach, WebAttachFails, WebDrop, Browser, Shows, Leave, ComeBack,
       Evict, Changes, DispatchEvent, OnVisibility, OnPageHide, Next, Call, States

LEMMA WebImplements == WebSpec => Spec
BY WebSteps, PTL DEF WebSpec, WebInit, Spec

LEMMA GoalOfVisibility ==
  ASSUME stack = <<>>, NEW seen \in Visibilities, OnVisibility(seen)
  PROVE  Goal' = IF state = "Destroyed" \/ seen = "none" THEN state
                 ELSE IF seen = "visible" THEN "Resumed" ELSE "Created"
<1>1. UNCHANGED vars => Goal' = state
  BY DEF vars, Goal
<1> QED BY <1>1, GoalOfMoveTo DEF OnVisibility, States

LEMMA GoalOfPageHide ==
  ASSUME stack = <<>>, NEW persisted \in BOOLEAN, OnPageHide(persisted)
  PROVE  Goal' = IF persisted /\ state # "Destroyed" THEN "Created" ELSE "Destroyed"
BY GoalOfMoveTo, GoalOfDestroy DEF OnPageHide, States

(* The queues differ, and what is left of them when the first event has    *)
(* been dispatched.                                                        *)
LEMMA Queues ==
  /\ Changed.type = "visibilitychange" /\ Shown.type = "pageshow" /\ Hidden.type = "hidden"
  /\ \A p \in BOOLEAN : PageHide(p).type = "pagehide" /\ PageHide(p).persisted = p
  /\ \A e : << e >> # <<>> /\ Head(<< e >>) = e /\ Tail(<< e >>) = <<>>
  /\ \A e, f : << e, f >> # <<>> /\ Head(<< e, f >>) = e /\ Tail(<< e, f >>) = << f >>
BY DEF Changed, Shown, Hidden, PageHide

LEMMA OneOrTwo ==
  ASSUME NEW e, NEW f
  PROVE  /\ << e >> \o <<>> = << e >> /\ <<>> \o << e >> = << e >>
         /\ << e >> \o << f >> = << e, f >>
<1>1. << e >> \in Seq({e, f}) /\ << f >> \in Seq({e, f}) /\ << e, f >> \in Seq({e, f})
  OBVIOUS
<1>2. << e >> \o << f >> = Append(<< e >>, f)
  BY <1>1, AppendIsConcat
<1>3. Append(<< e >>, f) = << e, f >>
  <2>1. /\ Append(<< e >>, f) \in Seq({e, f}) /\ Len(Append(<< e >>, f)) = 2
        /\ Append(<< e >>, f)[1] = e /\ Append(<< e >>, f)[2] = f
    BY <1>1, AppendProperties
  <2>2. \A i \in 1 .. 2 : Append(<< e >>, f)[i] = << e, f >>[i]
    BY <2>1
  <2> QED BY <1>1, <2>1, <2>2, SeqEqual
<1>4. << e >> \o <<>> = << e >> /\ <<>> \o << e >> = << e >>
  BY <1>1, ConcatEmptySeq
<1> QED BY <1>2, <1>3, <1>4

(* A change of the page that nothing of the registry hears of yet. *)
LEMMA WebChanged ==
  ASSUME WebInv, NEW seen \in Visibilities,
         NEW shown \in {"shown", "cached", "evicted", "gone"}, NEW events,
         Changes(seen, shown, events),
         (events = <<>> \/ Arriving \/ Leaving \/ Left)',
         bound = "yes" => IF (Arriving \/ Leaving)' THEN page # "gone"
                                                    ELSE Goal \in PageState'
  PROVE  WebInv'
<1>1. /\ stack = <<>> /\ queue = <<>> /\ UNCHANGED <<vars, listening, bound>>
      /\ visibility' = seen /\ page' = shown /\ queue' = events
  BY DEF Changes
<1>2. Goal' = Goal
  BY <1>1 DEF vars, Goal
<1>3. ~ Arriving /\ ~ Leaving
  BY <1>1, Queues DEF Arriving, Leaving
<1>4. bound = "yes" /\ page # "gone" => Goal \in States \ {"Destroyed"}
  BY <1>3 DEF WebInv, PageState, States
<1> QED BY <1>1, <1>2, <1>4 DEF WebInv, ListenersOwned

LEMMA WebDispatch ==
  ASSUME FlatInv, WebInv, DispatchEvent
  PROVE  WebInv'
<1>0. /\ stack = <<>> /\ queue # <<>> /\ queue' = Tail(queue) /\ Goal = state
      /\ UNCHANGED <<page, listening, bound>> /\ state \in States
  BY IdleGoal DEF DispatchEvent, FlatInv, TypeOK
<1>1. visibility' \in Visibilities
  BY DEF DispatchEvent, WebInv, Visibilities
<1>2. (queue = <<>> \/ Arriving \/ Leaving \/ Left)'
  <2>1. CASE Arriving
    <3>1. queue' = <<>> \/ queue' = << Shown >>
      BY <1>0, <2>1, Queues DEF Arriving
    <3> QED BY <1>0, <2>1, <3>1 DEF Arriving
  <2>2. CASE Leaving
    <3>1. queue' = <<>> \/ queue' = << Hidden >>
      BY <1>0, <2>2, Queues DEF Leaving
    <3> QED BY <1>0, <2>2, <3>1 DEF Leaving, Left
  <2>3. CASE Left
    BY <1>0, <2>3, Queues DEF Left
  <2> QED BY <1>0, <2>1, <2>2, <2>3 DEF WebInv
<1>3. CASE bound # "yes"
  <2>1. UNCHANGED vars
    BY <1>3 DEF DispatchEvent, WebInv, ListenersOwned
  <2>2. Goal' = Goal
    BY <2>1 DEF vars, Goal
  <2> QED BY <1>0, <1>1, <1>2, <1>3, <2>2 DEF WebInv, ListenersOwned
<1>4. CASE bound = "yes"
  <2>1. listening = Listened
    BY <1>4 DEF WebInv, ListenersOwned
  <2>2. CASE Arriving
    <3>1. /\ Head(queue).type \in {"visibilitychange", "pageshow"}
          /\ queue' = <<>> \/ queue' = << Shown >>
      BY <1>0, <2>2, Queues DEF Arriving
    <3>2. OnVisibility(visibility) /\ visibility' = visibility
      BY <2>1, <3>1 DEF DispatchEvent, Listened
    <3>3. Goal \in States \ {"Destroyed"}
      BY <1>4, <2>2 DEF WebInv
    <3>4. Goal' = IF visibility = "none" THEN state
                  ELSE IF visibility = "visible" THEN "Resumed" ELSE "Created"
      BY <1>0, <3>2, <3>3, GoalOfVisibility DEF WebInv
    <3>5. page' = "shown" /\ page = "shown"
      BY <1>0, <2>2 DEF Arriving
    <3>6. Goal' \in PageState' /\ Goal' \in States \ {"Destroyed"}
      BY <1>0, <3>2, <3>3, <3>4, <3>5 DEF PageState, States
    <3> QED BY <1>0, <1>1, <1>2, <1>4, <3>6 DEF WebInv, ListenersOwned
  <2>3. CASE Leaving
    <3>1. PICK persisted \in BOOLEAN :
            /\ queue \in {<< PageHide(persisted) >>, << PageHide(persisted), Hidden >>}
            /\ page = IF persisted THEN "cached" ELSE "gone"
      BY <2>3 DEF Leaving
    <3>2. /\ Head(queue).type = "pagehide" /\ Head(queue).persisted = persisted
          /\ queue' = <<>> \/ queue' = << Hidden >>
      BY <1>0, <3>1, Queues
    <3>3. OnPageHide(persisted)
      BY <2>1, <3>2 DEF DispatchEvent, Listened
    <3>4. Goal \in States \ {"Destroyed"}
      BY <1>4, <2>3 DEF WebInv
    <3>5. Goal' = IF persisted THEN "Created" ELSE "Destroyed"
      BY <1>0, <3>3, <3>4, GoalOfPageHide
    <3>6. Goal' \in PageState'
      BY <1>0, <3>1, <3>5 DEF PageState
    <3>7. ~ Arriving' /\ ~ Leaving'
      BY <3>2, Queues DEF Arriving, Leaving
    <3> QED BY <1>0, <1>1, <1>2, <1>4, <3>6, <3>7 DEF WebInv, ListenersOwned
  <2>4. CASE Left
    <3>1. Head(queue).type = "hidden" /\ queue' = <<>>
      BY <1>0, <2>4, Queues DEF Left
    <3>2. OnVisibility("hidden") /\ visibility' = "hidden"
      BY <2>1, <3>1 DEF DispatchEvent, Listened
    <3>3. ~ Arriving /\ ~ Leaving /\ ~ Arriving' /\ ~ Leaving'
      BY <2>4, <3>1, Queues DEF Arriving, Leaving, Left
    <3>4. Goal \in PageState
      BY <1>4, <3>3 DEF WebInv
    <3>5. Goal' = IF state = "Destroyed" THEN state ELSE "Created"
      BY <1>0, <3>2, GoalOfVisibility DEF Visibilities
    <3>6. Goal' \in PageState'
      BY <1>0, <2>4, <3>4, <3>5 DEF PageState, Left
    <3> QED BY <1>0, <1>1, <1>2, <1>4, <3>3, <3>6 DEF WebInv, ListenersOwned
  <2> QED BY <1>0, <2>2, <2>3, <2>4 DEF WebInv
<1> QED BY <1>3, <1>4

LEMMA WebStep ==
  ASSUME FlatInv, FlatInv', Reentrant = FALSE, WebInv, [WebNext]_webAll
  PROVE  WebInv'
<1>0. /\ TypeOK /\ TypeOK' /\ Flat /\ DestroyGoesOn /\ state \in States
  BY DEF FlatInv, TypeOK
<1>1. CASE (Components \/ Run \/ CallbackReturn \/ UNCHANGED vars) /\ UNCHANGED webVars
  <2>1. Goal' = Goal
    BY <1>0, <1>1, GoalStep
  <2> QED BY <1>1, <2>1
          DEF webVars, WebInv, ListenersOwned, Arriving, Leaving, Left, PageState
<1>2. CASE WebAttach
  <2>1. /\ stack = <<>> /\ queue = <<>> /\ page = "shown" /\ bound = "no" /\ bound' = "yes"
        /\ listening' = Listened /\ OnVisibility(visibility)
        /\ UNCHANGED <<visibility, page, queue>>
    BY <1>2 DEF WebAttach, Scripts
  <2>2. state = "Initialized"
    BY <2>1, IdleGoal DEF WebInv
  <2>3. Goal' = IF visibility = "none" THEN state
                ELSE IF visibility = "visible" THEN "Resumed" ELSE "Created"
    BY <2>1, <2>2, GoalOfVisibility DEF WebInv
  <2>4. Goal' \in PageState'
    BY <2>1, <2>2, <2>3 DEF PageState, States
  <2>5. ~ Arriving' /\ ~ Leaving'
    BY <2>1, Queues DEF Arriving, Leaving
  <2> QED BY <2>1, <2>4, <2>5 DEF WebInv, ListenersOwned
<1>3. CASE WebAttachFails
  <2>1. listening' = {} /\ UNCHANGED <<vars, visibility, page, queue, bound>> /\ bound = "no"
    BY <1>3 DEF WebAttachFails, Added, Removed, Listened
  <2>2. Goal' = Goal
    BY <2>1 DEF vars, Goal
  <2> QED BY <2>1, <2>2 DEF WebInv, ListenersOwned, Arriving, Leaving, Left
<1>4. CASE WebDrop
  BY <1>4 DEF WebDrop, WebInv, ListenersOwned, Arriving, Leaving, Left
<1>5. CASE Shows
  <2>1. PICK seen \in Visibilities : Changes(seen, page, << Changed >>)
    BY <1>5 DEF Shows, Changed
  <2>2. page = "shown" /\ page' = page /\ queue' = << Changed >>
    BY <1>5, <2>1 DEF Shows, Changes
  <2>3. Arriving'
    BY <2>2 DEF Arriving
  <2> QED BY <2>1, <2>2, <2>3, WebChanged
<1>6. CASE \E persisted \in BOOLEAN : Leave(persisted)
  <2>1. PICK persisted \in BOOLEAN : Leave(persisted)
    BY <1>6
  <2>2. PICK events :
          /\ Changes(visibility, IF persisted THEN "cached" ELSE "gone", events)
          /\ events = << PageHide(persisted) >>
                       \o IF visibility = "visible" THEN << Hidden >> ELSE <<>>
    BY <2>1 DEF Leave, Hidden
  <2>3. events \in {<< PageHide(persisted) >>, << PageHide(persisted), Hidden >>}
    <3>1. CASE visibility = "visible"
      <4>1. << PageHide(persisted) >> \o << Hidden >> = << PageHide(persisted), Hidden >>
        BY OneOrTwo
      <4> QED BY <2>2, <3>1, <4>1
    <3>2. CASE visibility # "visible"
      <4>1. << PageHide(persisted) >> \o <<>> = << PageHide(persisted) >>
        BY OneOrTwo
      <4> QED BY <2>2, <3>2, <4>1
    <3> QED BY <3>1, <3>2
  <2>4. Leaving' /\ page = "shown"
    BY <2>1, <2>2, <2>3 DEF Leaving, Changes, Leave
  <2> QED BY <2>2, <2>4, WebChanged DEF WebInv
<1>7. CASE ComeBack
  <2>0. PICK seen \in Visibilities, announced \in BOOLEAN :
          Changes(seen, "shown", (IF announced THEN << Changed >> ELSE <<>>) \o << Shown >>)
    BY <1>7 DEF ComeBack, Changed, Shown
  <2>1. PICK events :
          /\ Changes(seen, "shown", events)
          /\ events = (IF announced THEN << Changed >> ELSE <<>>) \o << Shown >>
    BY <2>0
  <2>2. events \in {<< Changed, Shown >>, << Shown >>}
    <3>1. CASE announced
      <4>1. << Changed >> \o << Shown >> = << Changed, Shown >>
        BY OneOrTwo
      <4> QED BY <2>1, <3>1, <4>1
    <3>2. CASE ~ announced
      <4>1. <<>> \o << Shown >> = << Shown >>
        BY OneOrTwo
      <4> QED BY <2>1, <3>2, <4>1
    <3> QED BY <3>1, <3>2
  <2>3. Arriving' /\ page = "cached"
    BY <1>7, <2>1, <2>2 DEF Arriving, Changes, ComeBack
  <2> QED BY <2>1, <2>3, WebChanged
<1>8. CASE Evict
  <2>1. Changes(visibility, "evicted", <<>>) /\ page = "cached" /\ page' = "evicted"
        /\ queue = <<>> /\ queue' = <<>>
    BY <1>8 DEF Evict, Changes
  <2>2. ~ Arriving' /\ ~ Leaving' /\ ~ Arriving /\ ~ Leaving
    BY <2>1, Queues DEF Arriving, Leaving
  <2>3. bound = "yes" => Goal \in PageState'
    BY <2>1, <2>2 DEF WebInv, PageState
  <2> QED BY <2>1, <2>2, <2>3, WebChanged DEF WebInv
<1>9. CASE DispatchEvent
  BY <1>9, WebDispatch
<1>10. UNCHANGED webAll => UNCHANGED vars /\ UNCHANGED webVars
  BY DEF webAll
<1> QED BY <1>1, <1>2, <1>3, <1>4, <1>5, <1>6, <1>7, <1>8, <1>9, <1>10 DEF WebNext, Browser

LEMMA WebInductive ==
  ASSUME Reentrant = FALSE
  PROVE  WebSpec => []WebInv /\ []FlatInv
<1>1. WebInit => WebInv
  BY DEF WebInit, WebInv, Init, Goal, ListenersOwned
<1>2. FlatInv /\ FlatInv' /\ WebInv /\ [WebNext]_webAll => WebInv'
  BY WebStep
<1> QED BY <1>1, <1>2, WebImplements, FlatRegistry, PTL DEF WebSpec

(* Whenever the browser has dispatched its events, every component that    *)
(* observes the registry knows what the page shows, when its observers do  *)
(* not ask for transitions.                                                *)
(* (lifecycle.rs 28-30, 50-81; browser_lifecycle.rs 56-98)                 *)
THEOREM PageFollowed ==
  ASSUME Reentrant = FALSE
  PROVE  WebSpec => []ObserversFollowPage
<1>1. FlatInv /\ WebInv => ObserversFollowPage
  <2>1. queue = <<>> => ~ Arriving /\ ~ Leaving
    BY Queues DEF Arriving, Leaving
  <2> QED BY <2>1, RestsKnown DEF WebInv, ObserversFollowPage
<1> QED BY <1>1, WebInductive, PTL

(* The browser has no listener whose closure nobody owns, whatever         *)
(* attachments have failed before.  (browser_lifecycle.rs 81-112, 124-139) *)
THEOREM ListenersAreOwned == WebSpec => []ListenersOwned
<1>1. WebInit => ListenersOwned
  BY DEF WebInit, ListenersOwned
<1>2. ListenersOwned /\ [WebNext]_webAll => ListenersOwned'
  <2>1. \A failed \in Listened : Added(failed) \ Removed(failed) = {}
    BY DEF Listened, Added, Removed
  <2> QED BY <2>1 DEF ListenersOwned, WebNext, webAll, webVars, WebAttach, WebAttachFails,
                      WebDrop, Browser, Shows, Leave, ComeBack, Evict, Changes, DispatchEvent
<1> QED BY <1>1, <1>2, PTL DEF WebSpec

-----------------------------------------------------------------------------
(* The Activity of Android. *)
AndroidWays ==
  /\ adapter \in {"callbacks", "native"}
  /\ lastCallback \in {"none", "create", "start", "resume", "pause", "stop", "destroy"}
  /\ adapter = "native" => activity # "Initialized"

AndroidInv ==
  /\ AndroidWays
  /\ lastCallback = "destroy" => activity = "Destroyed"
  /\ Goal = TargetOf(lastCallback)

LEMMA Targets ==
  /\ TargetOf("none") = "Initialized"
  /\ TargetOf("create") = "Created"
  /\ TargetOf("start") = "Started"
  /\ TargetOf("resume") = "Resumed"
  /\ TargetOf("pause") = "Started"
  /\ TargetOf("stop") = "Created"
  /\ TargetOf("destroy") = "Destroyed"
  /\ \A way \in Ways : way[3] = TargetOf(way[1])
<1>1. ASSUME NEW way \in Ways PROVE TargetOf(way[1]) = way[3]
  <2>1. \A other \in Ways : other[1] = way[1] => other = way
    BY DEF Ways
  <2>2. (CHOOSE other \in Ways : other[1] = way[1]) = way
    BY <2>1
  <2>3. way[1] # "none"
    BY DEF Ways
  <2> QED BY <2>2, <2>3 DEF TargetOf
<1>2. ASSUME NEW callback, NEW from, NEW to, <<callback, from, to>> \in Ways
      PROVE  TargetOf(callback) = to
  BY <1>1, <1>2
<1>3. TargetOf("none") = "Initialized"
  BY DEF TargetOf
<1> QED BY <1>1, <1>2, <1>3 DEF Ways

LEMMA WaysShape ==
  ASSUME NEW way \in Ways
  PROVE  /\ way[1] \in {"create", "start", "resume", "pause", "stop", "destroy"}
         /\ way[2] # "Destroyed" /\ way[3] # "Initialized"
         /\ way[1] = "create" <=> way[2] = "Initialized"
         /\ way[1] = "destroy" => way[3] = "Destroyed"
BY DEF Ways

LEMMA AndroidSteps ==
  ASSUME AndroidWays, [AndroidNext]_androidAll
  PROVE  AndroidWays' /\ [Next]_vars
<1>1. CASE NewNative
  BY <1>1 DEF NewNative, AndroidWays, Next, Call, States
<1>2. ASSUME NEW callback \in {"create", "start", "resume", "pause", "stop", "destroy"},
             \/ OnCallback(callback)
             \/ callback # "create" /\ PollEvent(callback)
      PROVE  Next
  BY <1>2 DEF OnCallback, OnPause, PollEvent, Next, Call, StrictStep, States
<1>3. CASE Callback
  BY <1>2, <1>3, WaysShape DEF Callback, AndroidWays
<1>4. CASE Again
  BY <1>2, <1>4 DEF Again, androidVars, AndroidWays
<1>5. CASE KeyDown \/ KeyUp \/ Availability
  BY <1>5 DEF KeyDown, KeyUp, Availability, InputCall, AndroidWays
<1>6. CASE /\ Components \/ Run \/ CallbackReturn \/ UNCHANGED vars
           /\ UNCHANGED androidVars
  BY <1>6 DEF androidVars, AndroidWays, Next, Call
<1> QED BY <1>1, <1>3, <1>4, <1>5, <1>6 DEF AndroidNext, androidAll

LEMMA AndroidImplements == AndroidSpec => Spec
<1>1. AndroidInit => AndroidWays /\ Init
  BY DEF AndroidInit, AndroidWays
<1>2. AndroidWays /\ [AndroidNext]_androidAll => AndroidWays' /\ [Next]_vars
  BY AndroidSteps
<1> QED BY <1>1, <1>2, PTL DEF AndroidSpec, Spec

LEMMA GoalOfCallback ==
  ASSUME stack = <<>>, state # "Destroyed",
         NEW callback \in {"create", "start", "resume", "pause", "stop", "destroy"},
         \/ OnCallback(callback)
         \/ callback # "create" /\ PollEvent(callback)
  PROVE  Goal' = TargetOf(callback)
<1>1. ASSUME NEW target \in {"Created", "Started", "Resumed", "Destroyed"}, MoveTo(target)
      PROVE  Goal' = target
  BY <1>1, GoalOfMoveTo DEF States
<1>2. Step("Initialized", "Created") /\ state = "Initialized" => Goal' = "Created"
  BY GoalOfStep
<1>3. Destroy => Goal' = "Destroyed"
  BY GoalOfDestroy
<1> QED BY <1>1, <1>2, <1>3, Targets DEF OnCallback, OnPause, PollEvent

LEMMA AndroidStep ==
  ASSUME FlatInv, FlatInv', Reentrant = FALSE, AndroidInv, [AndroidNext]_androidAll
  PROVE  AndroidInv'
<1>0. /\ TypeOK /\ TypeOK' /\ Flat /\ DestroyGoesOn /\ state \in States
  BY DEF FlatInv, TypeOK
<1>1. CASE /\ Components \/ Run \/ CallbackReturn \/ UNCHANGED vars
           /\ UNCHANGED <<adapter, activity, lastCallback>>
  <2>1. Goal' = Goal
    BY <1>0, <1>1, GoalStep
  <2> QED BY <1>1, <2>1 DEF AndroidInv, AndroidWays
<1>2. CASE NewNative
  <2>1. stack = <<>> /\ state = "Initialized" /\ MoveTo("Created")
    BY <1>2, IdleGoal, Targets DEF NewNative, AndroidInv, AndroidWays
  <2>2. Goal' = "Created"
    BY <2>1, GoalOfMoveTo DEF States
  <2> QED BY <1>2, <2>2, Targets DEF NewNative, AndroidInv, AndroidWays
<1>3. CASE Callback
  <2>1. PICK way \in Ways :
          /\ activity = way[2] /\ activity' = way[3]
          /\ \/ adapter = "native" /\ PollEvent(way[1]) /\ lastCallback' = way[1]
             \/ adapter = "callbacks" /\ OnCallback(way[1]) /\ lastCallback' = way[1]
             \/ adapter = "callbacks" /\ UNCHANGED <<vars, lastCallback>>
    BY <1>3 DEF Callback
  <2>2. stack = <<>> /\ adapter' = adapter
    BY <1>3 DEF Callback
  <2>3. /\ way[1] \in {"create", "start", "resume", "pause", "stop", "destroy"}
        /\ way[2] # "Destroyed" /\ way[3] # "Initialized"
        /\ way[1] = "create" <=> way[2] = "Initialized"
        /\ way[1] = "destroy" => way[3] = "Destroyed"
    BY WaysShape
  <2>4. lastCallback # "destroy" /\ state # "Destroyed"
    BY <2>1, <2>2, <2>3, IdleGoal, Targets DEF AndroidInv, AndroidWays
  <2>5. CASE UNCHANGED <<vars, lastCallback>>
    <3>1. Goal' = Goal
      BY <2>5 DEF vars, Goal
    <3> QED BY <2>1, <2>2, <2>3, <2>4, <2>5, <3>1 DEF AndroidInv, AndroidWays
  <2>6. CASE ~ UNCHANGED <<vars, lastCallback>>
    <3>1. Goal' = TargetOf(way[1]) /\ lastCallback' = way[1]
      BY <2>1, <2>2, <2>3, <2>4, <2>6, GoalOfCallback DEF AndroidInv, AndroidWays
    <3> QED BY <2>1, <2>2, <2>3, <3>1 DEF AndroidInv, AndroidWays
  <2> QED BY <2>5, <2>6
<1>4. CASE Again
  <2>1. /\ stack = <<>> /\ lastCallback # "none" /\ OnCallback(lastCallback)
        /\ UNCHANGED <<adapter, activity, lastCallback>> /\ state = TargetOf(lastCallback)
    BY <1>4, IdleGoal DEF Again, androidVars, AndroidInv, AndroidWays
  <2>2. CASE lastCallback = "destroy"
    <3>1. Destroy
      BY <2>1, <2>2 DEF OnCallback
    <3>2. Goal' = "Destroyed"
      BY <2>1, <3>1, GoalOfDestroy
    <3> QED BY <2>1, <2>2, <3>2, Targets DEF AndroidInv, AndroidWays
  <2>3. CASE lastCallback # "destroy"
    <3>1. state # "Destroyed"
      BY <2>1, <2>3, Targets DEF AndroidInv, AndroidWays
    <3>2. Goal' = TargetOf(lastCallback)
      BY <2>1, <2>3, <3>1, GoalOfCallback DEF AndroidInv, AndroidWays
    <3> QED BY <2>1, <2>3, <3>2 DEF AndroidInv, AndroidWays
  <2> QED BY <2>2, <2>3
<1>5. CASE KeyDown \/ KeyUp \/ Availability
  BY <1>1, <1>5 DEF KeyDown, KeyUp, Availability, InputCall
<1>6. UNCHANGED androidAll => UNCHANGED vars /\ UNCHANGED androidVars
  BY DEF androidAll
<1>7. UNCHANGED androidVars => UNCHANGED <<adapter, activity, lastCallback>>
  BY DEF androidVars
<1> QED BY <1>1, <1>2, <1>3, <1>4, <1>5, <1>6, <1>7 DEF AndroidNext

LEMMA AndroidInductive ==
  ASSUME Reentrant = FALSE
  PROVE  AndroidSpec => []AndroidInv /\ []FlatInv
<1>1. AndroidInit => AndroidInv
  BY Targets DEF AndroidInit, AndroidInv, AndroidWays, Init, Goal
<1>2. FlatInv /\ FlatInv' /\ AndroidInv /\ [AndroidNext]_androidAll => AndroidInv'
  BY AndroidStep
<1> QED BY <1>1, <1>2, AndroidImplements, FlatRegistry, PTL DEF AndroidSpec

(* Between callbacks every observer knows the state that the last callback *)
(* forwarded stands for, whatever was left out or said twice before it,    *)
(* when no observer asks for transitions itself.                           *)
(* (lifecycle.rs 5-8, 32-85; native_activity.rs 27-31, 53-67)              *)
THEOREM ActivityFollowed ==
  ASSUME Reentrant = FALSE
  PROVE  AndroidSpec => []ObserversFollowActivity
<1>1. FlatInv /\ AndroidInv => ObserversFollowActivity
  BY RestsKnown DEF AndroidInv, ObserversFollowActivity
<1> QED BY <1>1, AndroidInductive, PTL

(* Who got the Down of a press is who can take its Up, as long as the      *)
(* dispatcher has not changed its mind.                                    *)
KeyInv ==
  /\ key \in {"up", "rust", "system"}
  /\ key # "up" /\ steady => (key = "rust" <=> ~ modern /\ canHandle)
  /\ PressActsOnce

(* A press of the Back key is acted upon once, by a handler or by the      *)
(* system, unless the dispatcher changed its mind while it was down.       *)
(* (native_activity.rs 84-95)                                              *)
THEOREM PressesAct == AndroidSpec => []PressActsOnce
<1>1. AndroidInit => KeyInv
  BY DEF AndroidInit, KeyInv, PressActsOnce
<1>2. KeyInv /\ [AndroidNext]_androidAll => KeyInv'
  <2> SUFFICES ASSUME KeyInv, [AndroidNext]_androidAll PROVE KeyInv'
    OBVIOUS
  <2>1. CASE UNCHANGED keyVars
    BY <2>1 DEF KeyInv, PressActsOnce, keyVars
  <2>2. CASE KeyDown
    BY <2>2 DEF KeyInv, PressActsOnce, KeyDown
  <2>3. CASE KeyUp
    BY <2>3 DEF KeyInv, PressActsOnce, KeyUp
  <2>4. CASE Availability
    BY <2>4 DEF KeyInv, PressActsOnce, Availability
  <2> QED BY <2>1, <2>2, <2>3, <2>4
          DEF AndroidNext, androidAll, androidVars, NewNative, Callback, Again
<1>3. KeyInv => PressActsOnce
  BY DEF KeyInv
<1> QED BY <1>1, <1>2, <1>3, PTL DEF AndroidSpec

-----------------------------------------------------------------------------
(* The Runtime, whose components may do with the lifecycle what they like. *)
(* Its steps, as far as the destruction of the lifecycle goes: the state   *)
(* stays or moves among the living ones, a destroy that waited for its     *)
(* move_to goes on, or one begins.                                         *)
NoNewDestroy ==
  \A i \in DOMAIN stack' : stack'[i].op = "destroy" =>
    i \in DOMAIN stack /\ stack[i].op = "destroy"

KeepsOn ==
  /\ state' = state
  /\ NoNewDestroy
  /\ \A i \in DOMAIN stack' : stack'[i].op = "apply" =>
       i \in DOMAIN stack /\ stack[i].op = "apply" /\ stack[i].event = stack'[i].event
  /\ stack # <<>> =>
       IF stack' # <<>> THEN stack'[1].op = stack[1].op
       ELSE /\ stack[1].op = "destroy" => ret' # "Ok"
            /\ stack[1].op = "apply" => ret' = "Ok"

Moves ==
  /\ state # "Destroyed" /\ state' # "Destroyed"
  /\ NoNewDestroy
  /\ stack' # <<>>
  /\ stack # <<>> => stack'[1].op = stack[1].op

Finishes ==
  /\ state # "Destroyed" /\ state' = "Destroyed"
  /\ stack # <<>> /\ Top.op = "destroy"
  /\ DOMAIN stack' = DOMAIN stack /\ stack' # <<>>
  /\ stack'[Len(stack)].op = "apply"
  /\ \A i \in 1 .. Len(stack) - 1 : stack'[i] = stack[i]

LEMMA ApplyMoves ==
  ASSUME TypeOK, NEW next \in {"Created", "Started", "Resumed"}, Apply(next, stack)
  PROVE  Moves
<1>1. PICK f : f = ApplyFrame(next, Len(log) + 1, Snapshot(state, next))
  OBVIOUS
<1>2. f \in Frames /\ f.op = "apply"
  <2>1. Snapshot(state, next) \in Seq(Nat) /\ Len(log) + 1 \in Nat
    BY SnapshotType, LenProperties DEF TypeOK
  <2> QED BY <1>1, <2>1 DEF ApplyFrame, Frames, States
<1>3. /\ DOMAIN stack' = 1 .. Len(stack) + 1 /\ stack' # <<>>
      /\ \A i \in 1 .. Len(stack) : stack'[i] = stack[i]
      /\ stack'[Len(stack) + 1] = f
      /\ DOMAIN stack = 1 .. Len(stack) /\ Len(stack) \in Nat
      /\ stack # <<>> => Len(stack) # 0
  <2>1. /\ stack \in Seq(Frames) /\ Len(stack) \in Nat /\ DOMAIN stack = 1 .. Len(stack)
        /\ stack # <<>> => Len(stack) # 0
    BY LenProperties, EmptySeq DEF TypeOK
  <2>2. stack' = Append(stack, f)
    BY <1>1 DEF Apply
  <2> QED BY <1>2, <2>1, <2>2, AppendProperties, LenProperties, EmptySeq
<1>4. \A i \in DOMAIN stack' : i = Len(stack) + 1 \/ i \in DOMAIN stack
  BY <1>3
<1>5. stack # <<>> => 1 \in 1 .. Len(stack)
  BY <1>3
<1> QED BY <1>2, <1>3, <1>4, <1>5 DEF Moves, NoNewDestroy, Apply

LEMMA KeepsStack ==
  ASSUME UNCHANGED <<state, stack>>
  PROVE  KeepsOn
BY DEF KeepsOn, NoNewDestroy

LEMMA KeepsPushed ==
  ASSUME TypeOK, NEW f \in Frames, f.op \notin {"destroy", "apply"}, stack' = Append(stack, f),
         state' = state
  PROVE  KeepsOn
<1>0. /\ stack \in Seq(Frames) /\ Len(stack) \in Nat /\ DOMAIN stack = 1 .. Len(stack)
      /\ state \in States
      /\ stack # <<>> => Len(stack) # 0 /\ 1 \in DOMAIN stack
  BY LenProperties, EmptySeq DEF TypeOK
<1>1. /\ DOMAIN stack' = 1 .. Len(stack) + 1 /\ stack' # <<>>
      /\ \A i \in 1 .. Len(stack) : stack'[i] = stack[i]
      /\ stack'[Len(stack) + 1] = f
  BY <1>0, AppendProperties, LenProperties, EmptySeq
<1>2. \A i \in DOMAIN stack' : i = Len(stack) + 1 \/ i \in DOMAIN stack
  BY <1>0, <1>1
<1> QED BY <1>0, <1>1, <1>2 DEF KeepsOn, NoNewDestroy

LEMMA KeepsReturned ==
  ASSUME TypeOK, stack # <<>>, NEW r, Return(r),
         Top.op = "destroy" => r # "Ok", Top.op = "apply" => r = "Ok"
  PROVE  KeepsOn
<1>0. /\ stack \in Seq(Frames) /\ Len(stack) \in Nat /\ DOMAIN stack = 1 .. Len(stack)
      /\ state \in States
      /\ stack # <<>> => Len(stack) # 0 /\ 1 \in DOMAIN stack
  BY LenProperties, EmptySeq DEF TypeOK
<1>1. /\ Len(stack) \in Nat \ {0} /\ Len(stack') = Len(stack) - 1
      /\ \A i \in 1 .. Len(stack) - 1 : stack'[i] = stack[i]
      /\ stack' = <<>> <=> Len(stack) = 1
  BY Returned DEF Return
<1>2. DOMAIN stack' = 1 .. Len(stack) - 1
  <2>1. stack' = Below
    BY DEF Return
  <2> QED BY <1>1, <2>1, TopAndBelow, LenProperties
<1>3. \A i \in DOMAIN stack' : i \in DOMAIN stack /\ stack'[i] = stack[i]
  BY <1>0, <1>1, <1>2
<1>4. CASE Len(stack) = 1
  BY <1>1, <1>3, <1>4 DEF KeepsOn, NoNewDestroy, Return, Top
<1>5. CASE Len(stack) # 1
  <2>1. 1 \in DOMAIN stack'
    BY <1>1, <1>2, <1>5
  <2> QED BY <1>1, <1>3, <1>5, <2>1 DEF KeepsOn, NoNewDestroy, Return
<1> QED BY <1>4, <1>5

LEMMA KeepsCalled ==
  ASSUME TypeOK, stack # <<>>, NEW f \in Frames, NEW g \in Frames,
         stack' = Below \o <<f, g>>, state' = state, f.op = Top.op,
         f.op = "apply" => f.event = Top.event, f.op # "destroy", g.op = "callback"
  PROVE  KeepsOn
<1>0. /\ stack \in Seq(Frames) /\ Len(stack) \in Nat /\ DOMAIN stack = 1 .. Len(stack)
      /\ state \in States
      /\ stack # <<>> => Len(stack) # 0 /\ 1 \in DOMAIN stack
  BY LenProperties, EmptySeq DEF TypeOK
<1>1. /\ Len(stack) \in Nat \ {0} /\ DOMAIN stack' = 1 .. Len(stack) + 1
      /\ \A i \in 1 .. Len(stack) - 1 : stack'[i] = stack[i]
      /\ stack'[Len(stack)] = f /\ stack'[Len(stack) + 1] = g
  BY CalledBack
<1>2. \A i \in DOMAIN stack' :
        \/ i \in 1 .. Len(stack) - 1 /\ i \in DOMAIN stack
        \/ i = Len(stack) \/ i = Len(stack) + 1
  BY <1>0, <1>1
<1>3. stack' # <<>> /\ Len(stack) \in DOMAIN stack /\ Top = stack[Len(stack)]
  BY <1>0, <1>1 DEF Top
<1>4. stack'[1].op = stack[1].op
  <2>1. CASE Len(stack) = 1
    BY <1>1, <1>3, <2>1
  <2>2. CASE Len(stack) # 1
    <3>1. 1 \in 1 .. Len(stack) - 1
      BY <1>0, <2>2
    <3> QED BY <1>1, <3>1
  <2> QED BY <2>1, <2>2
<1> QED BY <1>1, <1>2, <1>3, <1>4 DEF KeepsOn, NoNewDestroy

(* No destruction begins by a call that does not ask for it. *)
LEMMA LivingCalls ==
  ASSUME TypeOK,
         StrictStep \/ Components \/ \E target \in States \ {"Destroyed"} : MoveTo(target)
  PROVE  KeepsOn \/ Moves
<1>5. ASSUME NEW r, Answer(r) PROVE KeepsOn
  BY <1>5, KeepsStack DEF Answer
<1>6. CASE StrictStep
  <2>1. ASSUME NEW from, NEW to \in {"Created", "Started", "Resumed"}, Step(from, to)
        PROVE  KeepsOn \/ Moves
    BY <1>5, <2>1, ApplyMoves DEF Step
  <2> QED BY <1>6, <2>1 DEF StrictStep
<1>8. CASE \E target \in States \ {"Destroyed"} : MoveTo(target)
  <2>1. PICK target \in States \ {"Destroyed"} : MoveTo(target)
    BY <1>8
  <2>2. CASE /\ target \notin {state, "Initialized", "Destroyed"}
             /\ stack' = Append(stack, MoveToFrame(target))
             /\ UNCHANGED <<state, observers, nextId, ret, log, deliveries>>
    <3>1. MoveToFrame(target) \in Frames /\ MoveToFrame(target).op = "move_to"
      BY <2>2 DEF MoveToFrame, Frames, States
    <3> QED BY KeepsPushed, <2>2, <3>1
  <2> QED BY <1>5, <2>1, <2>2 DEF MoveTo
<1>9. CASE Components
  <2>1. /\ SubscribeFrame(nextId, CatchUp(state)) \in Frames
        /\ SubscribeFrame(nextId, CatchUp(state)).op = "subscribe"
    BY CatchUpType DEF SubscribeFrame, Frames, TypeOK
  <2> QED BY KeepsStack, KeepsPushed, <1>9, <2>1 DEF Components, Subscribe, Unsubscribe
<1> QED BY <1>6, <1>8, <1>9

(* What runs on by itself. *)
LEMMA DestructionKinds ==
  ASSUME TypeOK, Run \/ CallbackReturn \/ UNCHANGED vars
  PROVE  KeepsOn \/ Moves \/ Finishes
<1>0. /\ stack \in Seq(Frames) /\ Len(stack) \in Nat /\ DOMAIN stack = 1 .. Len(stack)
      /\ state \in States
      /\ stack # <<>> => Len(stack) # 0 /\ 1 \in DOMAIN stack
  BY LenProperties, EmptySeq DEF TypeOK
<1>10. CASE Notify
  <2>1. /\ stack # <<>> /\ Top \in Frames /\ Top.op = "apply" /\ Top.todo # <<>>
        /\ Top \in [op : {"apply"}, event : States, n : Nat, todo : Seq(Nat)]
    BY <1>10, TopAndBelow, FrameShapes DEF Notify, On
  <2>2. Head(Top.todo) \in Nat /\ Tail(Top.todo) \in Seq(Nat)
    BY <2>1, HeadTail
  <2>3. PICK f, g : f = [Top EXCEPT !.todo = Tail(@)]
                    /\ g = CallbackFrame(Head(Top.todo), Top.event)
    OBVIOUS
  <2>4. /\ f \in Frames /\ f.op = Top.op /\ f.event = Top.event
        /\ g \in Frames /\ g.op = "callback"
    BY <2>1, <2>2, <2>3 DEF Frames, CallbackFrame
  <2>5. stack' = Below \o <<f, g>> /\ state' = state
    BY <1>10, <2>3 DEF Notify
  <2> QED BY KeepsCalled, <2>1, <2>4, <2>5
<1>11. CASE Replay
  <2>1. /\ stack # <<>> /\ Top \in Frames /\ Top.op = "subscribe" /\ Top.todo # <<>>
        /\ Top \in [op : {"subscribe"}, id : Nat, todo : Seq(States)]
    BY <1>11, TopAndBelow, FrameShapes DEF Replay, On
  <2>2. Head(Top.todo) \in States /\ Tail(Top.todo) \in Seq(States)
    BY <2>1, HeadTail
  <2>3. PICK f, g : f = [Top EXCEPT !.todo = Tail(@)]
                    /\ g = CallbackFrame(Top.id, Head(Top.todo))
    OBVIOUS
  <2>4. f \in Frames /\ f.op = Top.op /\ g \in Frames /\ g.op = "callback"
    BY <2>1, <2>2, <2>3 DEF Frames, CallbackFrame
  <2>5. stack' = Below \o <<f, g>> /\ state' = state
    BY <1>11, <2>3 DEF Replay
  <2> QED BY KeepsCalled, <2>1, <2>4, <2>5
<1>12. CASE ApplyDone
  BY <1>12, KeepsReturned DEF ApplyDone, On
<1>13. CASE SubscribeDone
  BY <1>13, KeepsReturned DEF SubscribeDone, On
<1>14. CASE CallbackReturn
  BY <1>14, KeepsReturned DEF CallbackReturn, On
<1>15. CASE MoveToRound
  <2>1. stack # <<>> /\ Top.op = "move_to" /\ Top.target \in {"Created", "Started", "Resumed"}
    BY <1>15, TopAndBelow, FrameShapes DEF MoveToRound, On
  <2>2. CASE state \notin {Top.target, "Destroyed"} /\ Apply(Towards(Top.target), stack)
    BY <1>0, <2>1, <2>2, TowardsAdjacent, ApplyMoves
  <2> QED BY KeepsReturned, <1>15, <2>1, <2>2 DEF MoveToRound
<1>16. CASE FinishDestroy
  <2>1. stack # <<>> /\ Top.op = "destroy"
    BY <1>16 DEF FinishDestroy, On
  <2>2. CASE ret # "Ok" /\ Return(ret)
    BY KeepsReturned, <2>1, <2>2
  <2>3. CASE Apply("Destroyed", Below)
    <3>1. PICK f : f = ApplyFrame("Destroyed", Len(log) + 1, Snapshot(state, "Destroyed"))
      OBVIOUS
    <3>2. f \in Frames /\ f.op = "apply"
      <4>1. Snapshot(state, "Destroyed") \in Seq(Nat) /\ Len(log) + 1 \in Nat
        BY SnapshotType, LenProperties DEF TypeOK
      <4> QED BY <3>1, <4>1 DEF ApplyFrame, Frames, States
    <3>3. /\ Below \in Seq(Frames) /\ Len(Below) = Len(stack) - 1
          /\ \A i \in 1 .. Len(stack) - 1 : Below[i] = stack[i]
          /\ stack' = Append(Below, f) /\ Len(stack) \in Nat \ {0}
      BY <2>1, <2>3, <3>1, TopAndBelow DEF Apply
    <3>4. /\ DOMAIN stack' = 1 .. Len(stack) /\ stack' # <<>>
          /\ stack'[Len(stack)] = f
          /\ \A i \in 1 .. Len(stack) - 1 : stack'[i] = Below[i]
      <4>1. /\ stack' \in Seq(Frames) /\ Len(stack') = Len(Below) + 1
            /\ stack'[Len(Below) + 1] = f
            /\ \A i \in 1 .. Len(Below) : stack'[i] = Below[i]
        BY <3>2, <3>3, AppendProperties
      <4>2. Len(Below) + 1 = Len(stack)
        BY <3>3
      <4> QED BY <3>3, <4>1, <4>2, LenProperties, EmptySeq
    <3> QED BY <1>0, <2>1, <2>3, <3>2, <3>3, <3>4 DEF Finishes, Apply
  <2> QED BY <1>16, <2>2, <2>3 DEF FinishDestroy
<1>17. CASE UNCHANGED vars
  BY <1>17, KeepsStack DEF vars
<1> QED BY <1>10, <1>11, <1>12, <1>13, <1>14, <1>15, <1>16, <1>17 DEF Run

(* The scope of the keeper and the destruction of the lifecycle.           *)
ScopeEnded ==
  ended => /\ state = "Destroyed" /\ ~ Destroying
           /\ \A k \in InstanceKeys : ~ Retained(k)

(* Once asked for by dispatch, the destruction goes on.                    *)
Pursued ==
  pending = "Destroyed" =>
    IF stack = <<>> THEN ret = "Ok" => state = "Destroyed"
                    ELSE state = "Destroyed" \/ stack[1].op = "destroy"

(* Unless a component has destroyed the lifecycle, dispatch does it, and   *)
(* waits for it.                                                           *)
OneDestroy ==
  ~ aside => \A i \in DOMAIN stack : stack[i].op = "destroy" =>
               i = 1 /\ pending = "Destroyed" /\ state # "Destroyed"

Awaited ==
  ~ aside /\ state = "Destroyed" /\ ~ ended =>
    /\ pending = "Destroyed"
    /\ IF stack = <<>> THEN ret = "Ok" ELSE stack[1].op = "apply"

RuntimeInv ==
  /\ aside \in BOOLEAN
  /\ instances \in [InstanceKeys -> Types \cup {NoType}]
  /\ ScopeEnded
  /\ Pursued
  /\ OneDestroy
  /\ Awaited

LEMMA RuntimeSteps == [RuntimeNext]_runtimeAll => [Next]_vars
BY DEF RuntimeNext, runtimeAll, Keeper, Put, RemoveInstance, Clear, KeeperCall, Dispatch,
       DispatchReturns, ComponentCall, Next, Call, States

LEMMA RuntimeImplements == RuntimeSpec => Spec
BY RuntimeSteps, PTL DEF RuntimeSpec, RuntimeInit, Spec

(* What a destroy called by user code leaves. *)
LEMMA DestroyBegun ==
  ASSUME TypeOK, BeginDestroy, state # "Destroyed"
  PROVE  /\ stack' # <<>>
         /\ state' = "Destroyed" \/ state' = state
         /\ stack # <<>> => stack'[1].op = stack[1].op
         /\ stack = <<>> => IF state' = "Destroyed"
                            THEN \A i \in DOMAIN stack' : i = 1 /\ stack'[i].op = "apply"
                            ELSE /\ stack'[1].op = "destroy"
                                 /\ \A i \in DOMAIN stack' : stack'[i].op = "destroy" => i = 1
<1>0. /\ stack \in Seq(Frames) /\ Len(stack) \in Nat /\ DOMAIN stack = 1 .. Len(stack)
      /\ stack # <<>> => Len(stack) # 0 /\ 1 \in 1 .. Len(stack)
      /\ stack = <<>> => Len(stack) = 0
  BY LenProperties, EmptySeq DEF TypeOK
<1>1. CASE Apply("Destroyed", stack)
  <2>1. PICK f : f = ApplyFrame("Destroyed", Len(log) + 1, Snapshot(state, "Destroyed"))
    OBVIOUS
  <2>2. f \in Frames /\ f.op = "apply"
    <3>1. Snapshot(state, "Destroyed") \in Seq(Nat) /\ Len(log) + 1 \in Nat
      BY SnapshotType, LenProperties DEF TypeOK
    <3> QED BY <2>1, <3>1 DEF ApplyFrame, Frames, States
  <2>3. stack' = Append(stack, f) /\ state' = "Destroyed" /\ state # "Destroyed"
    BY <1>1, <2>1 DEF Apply
  <2>4. /\ DOMAIN stack' = 1 .. Len(stack) + 1 /\ stack' # <<>>
        /\ \A i \in 1 .. Len(stack) : stack'[i] = stack[i]
        /\ stack'[Len(stack) + 1] = f
    BY <1>0, <2>2, <2>3, AppendProperties, LenProperties, EmptySeq
  <2>5. stack = <<>> => \A i \in DOMAIN stack' : i = 1 /\ i = Len(stack) + 1
    BY <1>0, <2>4
  <2> QED BY <1>0, <2>2, <2>3, <2>4, <2>5
<1>2. CASE /\ state # "Initialized"
           /\ stack' = stack \o << DestroyFrame, MoveToFrame("Created") >>
           /\ UNCHANGED <<state, observers, nextId, ret, log, deliveries>>
  <2>1. PICK f, g : f = DestroyFrame /\ g = MoveToFrame("Created")
    OBVIOUS
  <2>2. f \in Frames /\ g \in Frames /\ f.op = "destroy" /\ g.op = "move_to"
    BY <2>1 DEF DestroyFrame, MoveToFrame, Frames
  <2>3. /\ stack' \in Seq(Frames) /\ Len(stack') = Len(stack) + 2 /\ stack' # <<>>
        /\ \A i \in 1 .. Len(stack) : stack'[i] = stack[i]
        /\ stack'[Len(stack) + 1] = f /\ stack'[Len(stack) + 2] = g
    BY <1>0, <1>2, <2>1, <2>2, PushedTwo
  <2>4. DOMAIN stack' = 1 .. Len(stack) + 2
    BY <2>3, LenProperties
  <2>5. stack = <<>> => \A i \in DOMAIN stack' : i = 1 \/ i = Len(stack) + 2
    BY <1>0, <2>4
  <2>6. stack = <<>> => stack'[1] = f
    BY <1>0, <2>3
  <2> QED BY <1>0, <1>2, <2>2, <2>3, <2>5, <2>6
<1> QED BY <1>1, <1>2 DEF BeginDestroy

(* A step of the registry inside a dispatch or between two. *)
LEMMA RuntimeRuns ==
  ASSUME TypeOK, RuntimeInv, UNCHANGED <<instanceVars, pending>>,
         \/ (KeepsOn \/ Moves \/ Finishes) /\ aside' = aside
         \/ BeginDestroy /\ state # "Destroyed" /\ aside' = TRUE,
         stack = <<>> => pending = "none"
  PROVE  RuntimeInv'
<1>0. /\ Len(stack) \in Nat /\ DOMAIN stack = 1 .. Len(stack)
      /\ stack # <<>> => Len(stack) # 0 /\ 1 \in DOMAIN stack /\ Len(stack) \in DOMAIN stack
      /\ stack = <<>> => DOMAIN stack = {}
  BY LenProperties, EmptySeq DEF TypeOK
<1>1. UNCHANGED <<instances, ended, pending>>
  BY DEF instanceVars
<1>2. ScopeEnded'
  <2>1. KeepsOn /\ Destroying' => Destroying
    BY DEF KeepsOn, Destroying
  <2> QED BY <1>1, <2>1, DestroyBegun
          DEF RuntimeInv, ScopeEnded, KeepsOn, Moves, Finishes, Retained
<1>3. Pursued'
  BY <1>1, DestroyBegun DEF RuntimeInv, Pursued, KeepsOn, Moves, Finishes
<1>4. OneDestroy'
  BY <1>0, <1>1 DEF RuntimeInv, OneDestroy, KeepsOn, Moves, Finishes, NoNewDestroy, Top
<1>5. Awaited'
  BY <1>0, <1>1 DEF RuntimeInv, OneDestroy, Awaited, KeepsOn, Moves, Finishes, Top
<1> QED BY <1>1, <1>2, <1>3, <1>4, <1>5 DEF RuntimeInv

LEMMA RuntimeStep ==
  ASSUME TypeOK, RuntimeInv, [RuntimeNext]_runtimeAll
  PROVE  RuntimeInv'
<1>0. /\ DOMAIN stack = 1 .. Len(stack) /\ Len(stack) \in Nat
      /\ stack = <<>> => DOMAIN stack = {}
  BY LenProperties, EmptySeq DEF TypeOK
<1>1. CASE Keeper
  <2>1. UNCHANGED <<vars, ended, pending, aside>>
    BY <1>1 DEF Keeper, Put, RemoveInstance, Clear, KeeperCall
  <2>2. UNCHANGED <<state, stack, ret, ended, pending, aside>>
    BY <2>1 DEF vars
  <2>3. instances' \in [InstanceKeys -> Types \cup {NoType}]
    BY <1>1 DEF Keeper, Put, RemoveInstance, Clear, RuntimeInv, Empty
  <2>4. ended => \A k \in InstanceKeys : ~ Retained(k)'
    <3>1. CASE Clear
      BY <3>1 DEF Clear, Empty, Retained
    <3>2. CASE ~ Clear
      BY <1>1, <3>2 DEF Keeper, Put, RemoveInstance, RuntimeInv, ScopeEnded
    <3> QED BY <3>1, <3>2
  <2> QED BY <2>2, <2>3, <2>4
          DEF RuntimeInv, ScopeEnded, Pursued, OneDestroy, Awaited, Destroying
<1>2. CASE \E target \in States : Dispatch(target)
  <2>1. PICK target \in States : Dispatch(target)
    BY <1>2
  <2>2. /\ stack = <<>> /\ pending = "none" /\ MoveTo(target) /\ pending' = target
        /\ UNCHANGED <<instances, ended, aside>>
    BY <2>1 DEF Dispatch, Idle, instanceVars
  <2>3. CASE state = "Destroyed"
    <3>1. ret' = "AlreadyDestroyed" /\ UNCHANGED <<state, stack>>
      BY <2>2, <2>3 DEF MoveTo, Answer
    <3>2. aside \/ ended
      BY <2>2, <2>3 DEF RuntimeInv, Awaited
    <3> QED BY <1>0, <2>2, <2>3, <3>1, <3>2
            DEF RuntimeInv, ScopeEnded, Pursued, OneDestroy, Awaited, Destroying, Retained
  <2>4. CASE state # "Destroyed" /\ target = "Destroyed"
    <3>1. BeginDestroy
      BY <2>2, <2>4 DEF MoveTo
    <3>2. ~ ended /\ ~ ended'
      BY <2>2, <2>4 DEF RuntimeInv, ScopeEnded
    <3> QED BY <2>2, <2>4, <3>1, <3>2, DestroyBegun
            DEF RuntimeInv, ScopeEnded, Pursued, OneDestroy, Awaited
  <2>5. CASE state # "Destroyed" /\ target # "Destroyed"
    <3>1. KeepsOn \/ Moves
      BY <2>1, <2>2, <2>5, LivingCalls
    <3>2. state' # "Destroyed" /\ \A i \in DOMAIN stack' : stack'[i].op # "destroy"
      BY <1>0, <2>2, <2>5, <3>1 DEF KeepsOn, Moves, NoNewDestroy
    <3>3. ~ ended'
      BY <2>2, <2>5 DEF RuntimeInv, ScopeEnded
    <3> QED BY <2>2, <2>5, <3>2, <3>3
            DEF RuntimeInv, ScopeEnded, Pursued, OneDestroy, Awaited
  <2> QED BY <2>3, <2>4, <2>5
<1>3. CASE DispatchReturns
  <2>1. /\ stack = <<>> /\ pending # "none" /\ pending' = "none"
        /\ UNCHANGED <<state, stack, ret, aside>>
    BY <1>3 DEF DispatchReturns, vars
  <2>2. CASE ret = "Ok" /\ pending = "Destroyed"
    <3>1. ended' /\ instances' = IF ended THEN instances ELSE Empty
      BY <1>3, <2>2 DEF DispatchReturns, DestroyAll
    <3>2. state = "Destroyed" /\ ~ Destroying'
      BY <1>0, <2>1, <2>2 DEF RuntimeInv, Pursued, Destroying
    <3>3. \A k \in InstanceKeys : ~ Retained(k)'
      BY <3>1 DEF RuntimeInv, ScopeEnded, Retained, Empty
    <3>4. instances' \in [InstanceKeys -> Types \cup {NoType}]
      BY <3>1 DEF RuntimeInv, Empty
    <3> QED BY <1>0, <2>1, <3>1, <3>2, <3>3, <3>4
            DEF RuntimeInv, ScopeEnded, Pursued, OneDestroy, Awaited
  <2>3. CASE ~ (ret = "Ok" /\ pending = "Destroyed")
    <3>1. UNCHANGED <<instances, ended>>
      BY <1>3, <2>3 DEF DispatchReturns, instanceVars
    <3> QED BY <1>0, <2>1, <2>3, <3>1
            DEF RuntimeInv, ScopeEnded, Pursued, OneDestroy, Awaited, Destroying, Retained
  <2> QED BY <2>2, <2>3
<1>4. CASE ComponentCall
  <2>1. /\ stack = <<>> => pending = "none"
        /\ UNCHANGED <<instanceVars, pending>>
    BY <1>4 DEF ComponentCall, Idle, On
  <2>2. CASE /\ StrictStep \/ Components \/ \E target \in States \ {"Destroyed"} : MoveTo(target)
             /\ UNCHANGED aside
    BY <2>1, <2>2, LivingCalls, RuntimeRuns
  <2>3. CASE (Destroy \/ MoveTo("Destroyed")) /\ aside' = (aside \/ state # "Destroyed")
    <3>1. CASE state = "Destroyed"
      <4>1. KeepsOn
        BY <2>3, <3>1, KeepsStack DEF Destroy, MoveTo, Answer
      <4>2. aside' = aside
        BY <2>3, <3>1 DEF RuntimeInv
      <4> QED BY <2>1, <4>1, <4>2, RuntimeRuns
    <3>2. CASE state # "Destroyed"
      <4>1. BeginDestroy
        BY <2>3, <3>2 DEF Destroy, MoveTo
      <4>2. aside' = TRUE
        BY <2>3, <3>2
      <4> QED BY <2>1, <3>2, <4>1, <4>2, RuntimeRuns
    <3> QED BY <3>1, <3>2
  <2> QED BY <1>4, <2>2, <2>3 DEF ComponentCall
<1>5. CASE (Run \/ CallbackReturn) /\ UNCHANGED runtimeVars
  <2>1. stack # <<>>
    BY <1>5 DEF Run, Notify, ApplyDone, FinishDestroy, MoveToRound, Replay, SubscribeDone,
                CallbackReturn, On
  <2> QED BY <1>5, <2>1, DestructionKinds, RuntimeRuns DEF runtimeVars
<1>6. CASE UNCHANGED runtimeAll
  BY <1>6 DEF runtimeAll, runtimeVars, instanceVars, vars, RuntimeInv, ScopeEnded, Pursued,
              OneDestroy, Awaited, Destroying, Retained
<1> QED BY <1>1, <1>2, <1>3, <1>4, <1>5, <1>6 DEF RuntimeNext

(* What a component retains survives whatever the lifecycle does short of  *)
(* its destruction; the end of the scope comes after the last notification *)
(* of Destroyed, is final, and is brought about by the host's Destroyed,   *)
(* however the components move the lifecycle meanwhile, unless one of them *)
(* destroys it itself.  (runtime.rs 110-115; keeper.rs 71-73, 119-121,     *)
(* 171-176)                                                                *)
THEOREM InstancesRetained == RuntimeSpec => []RetainedUntilDestroyed
<1>1. RuntimeInit => RuntimeInv
  <2>1. DOMAIN <<>> = {}
    OBVIOUS
  <2> QED BY <2>1 DEF RuntimeInit, RuntimeInv, Init, Empty, ScopeEnded, Pursued, OneDestroy, Awaited
<1>2. TypeOK /\ RuntimeInv /\ [RuntimeNext]_runtimeAll => RuntimeInv'
  BY RuntimeStep
<1>3. RuntimeInv => RetainedUntilDestroyed
  BY DEF RuntimeInv, ScopeEnded, Awaited, RetainedUntilDestroyed, Idle
<1> QED BY <1>1, <1>2, <1>3, RuntimeImplements, TypeCorrect, PTL DEF RuntimeSpec

=============================================================================
