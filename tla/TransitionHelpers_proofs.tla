---------------------- MODULE TransitionHelpers_proofs ----------------------
(***************************************************************************)
(* Proofs about TransitionHelpers, for every set of helpers, every bound   *)
(* and whatever user code does between and inside the callbacks: what a    *)
(* one-shot and what a do_on_destroy reports, and that each helper reports *)
(* exactly the transitions it is there to.  The helpers use the registry   *)
(* as anyone may, except that on_transition may unsubscribe its observer   *)
(* before subscribe has returned to user code, which keeps the registry's  *)
(* invariant as well.                                                      *)
(***************************************************************************)
EXTENDS TransitionHelpers, LifecycleNotification_proofs

(* The end of on_transition for a one-shot that has fired already. *)
Releases ==
  /\ On("subscribe") /\ Top.todo = <<>>
  /\ observers' = Without(Top.id)
  /\ Return("Ok")

LEMMA ReleaseStep ==
  ASSUME RegistryInv, StackHonest, Releases
  PROVE  RegistryInv' /\ StackHonest'
<1>0. /\ TypeOK /\ DestroyLeavesFromCreated /\ NotifyInv /\ IdsGiven /\ LogInv
      /\ stack # <<>> /\ stack \in Seq(Frames) /\ observers \in Seq(Nat)
      /\ Top.op = "subscribe"
  BY DEF RegistryInv, Releases, On, TypeOK
<1>1. PICK f \in Frames, top \in Nat \ {0} : f = Top /\ top = Len(stack) /\ f = stack[top]
  BY <1>0, TopAndBelow DEF Top
<1>2. /\ DOMAIN stack = 1 .. top /\ top \in DOMAIN stack
      /\ stack' = Below /\ Below \in Seq(Frames) /\ DOMAIN Below = 1 .. top - 1
      /\ \A i \in 1 .. top - 1 : Below[i] = stack[i]
      /\ UNCHANGED <<state, nextId, log, deliveries>> /\ ret' = "Ok"
  BY <1>0, <1>1, TopAndBelow, LenProperties DEF Releases, Return
<1>3. f.op = "subscribe" /\ f.id \in Nat /\ f.id < nextId
  BY <1>0, <1>1, <1>2, FrameShapes DEF IdsGiven
<1>4. TypeOK'
  BY <1>0, WithoutType, ReturnType DEF Releases, Results
<1>5. DestroyLeavesFromCreated'
  BY <1>0, ReturnKeepsWalk DEF Releases, WalkInv, MoveToFrame
<1>6. Sorted'
  <2>1. f.id \in 0 .. nextId - 1
    BY <1>0, <1>3 DEF TypeOK
  <2> QED BY <1>0, <1>1, <1>2, <2>1, SortedStays DEF NotifyInv, Releases
<1>7. Quiet
  BY <1>0, <1>2, SamePopped DEF Quiet, Top, Below
<1>8. NotifyInv'
  BY <1>0, <1>6, <1>7, QuietStep
<1>9. \A i \in DOMAIN stack' : i \in DOMAIN stack /\ stack'[i] = stack[i]
  BY <1>1, <1>2
<1>10. IdsGiven' /\ LogInv'
  BY <1>0, <1>2, <1>9 DEF IdsGiven, LogInv
<1>11. StackHonest'
  BY <1>0, <1>2, HonestTop DEF StackHonest
<1> QED BY <1>4, <1>5, <1>8, <1>10, <1>11 DEF RegistryInv

LEMMA HonestRegistryStep ==
  ASSUME RegistryInv, StackHonest, [Next]_vars
  PROVE  RegistryInv' /\ StackHonest'
BY RegistryStep, HonestStep DEF RegistryInv

-----------------------------------------------------------------------------
(* The frames of subscribe and of observers, by their place on a stack. *)
SubAt(s, i, id) == i \in DOMAIN s /\ s[i].op = "subscribe" /\ s[i].id = id

CallAt(s, i, id, event) ==
  /\ i \in DOMAIN s
  /\ s[i].op = "callback" /\ s[i].id = id /\ s[i].event = event

(* What a step does to them. *)
SubsSame == \A i, id : SubAt(stack', i, id) <=> SubAt(stack, i, id)
CallsSame == \A i, id, e : CallAt(stack', i, id, e) <=> CallAt(stack, i, id, e)

SubPushed(x) ==
  \A i, id : SubAt(stack', i, id) <=> SubAt(stack, i, id) \/ (i = Depth + 1 /\ id = x)

SubPopped == \A i, id : SubAt(stack', i, id) <=> SubAt(stack, i, id) /\ i # Depth

CallPushed(x, event) ==
  \A i, id, e : CallAt(stack', i, id, e) <=>
    \/ CallAt(stack, i, id, e)
    \/ i = Depth + 1 /\ id = x /\ e = event

CallPopped == \A i, id, e : CallAt(stack', i, id, e) <=>
                              CallAt(stack, i, id, e) /\ i # Depth

LEMMA PushEffect ==
  ASSUME TypeOK, NEW f \in Frames, stack' = Append(stack, f)
  PROVE  /\ f.op # "callback" => CallsSame
         /\ f.op # "subscribe" => SubsSame
         /\ f.op = "subscribe" => SubPushed(f.id)
<1>1. /\ Len(stack) \in Nat /\ DOMAIN stack = 1 .. Len(stack)
      /\ DOMAIN stack' = 1 .. Len(stack) + 1
      /\ \A i \in 1 .. Len(stack) : stack'[i] = stack[i]
      /\ stack'[Len(stack) + 1] = f
  BY AppendProperties, LenProperties DEF TypeOK
<1>2. \A i : i \in DOMAIN stack' <=> i \in DOMAIN stack \/ i = Len(stack) + 1
  BY <1>1
<1>3. Len(stack) + 1 \notin DOMAIN stack
  BY <1>1
<1>4. \A i \in DOMAIN stack : stack'[i] = stack[i]
  BY <1>1
<1> QED BY <1>1, <1>2, <1>3, <1>4
        DEF CallsSame, SubsSame, SubPushed, SubAt, CallAt, Depth

LEMMA PopEffect ==
  ASSUME TypeOK, stack # <<>>, stack' = Below
  PROVE  /\ Top.op # "callback" => CallsSame
         /\ Top.op # "subscribe" => SubsSame
         /\ CallPopped /\ SubPopped
<1>1. /\ Len(stack) \in Nat \ {0} /\ DOMAIN stack = 1 .. Len(stack)
      /\ Below \in Seq(Frames) /\ Len(Below) = Len(stack) - 1
      /\ \A i \in 1 .. Len(stack) - 1 : Below[i] = stack[i]
  BY TopAndBelow, LenProperties DEF TypeOK
<1>2. DOMAIN stack' = 1 .. Len(stack) - 1
  BY <1>1, LenProperties
<1>3. \A i : i \in DOMAIN stack' <=> i \in DOMAIN stack /\ i # Len(stack)
  BY <1>1, <1>2
<1>4. \A i \in DOMAIN stack' : stack'[i] = stack[i]
  BY <1>1, <1>2
<1> QED BY <1>3, <1>4 DEF CallsSame, SubsSame, SubPopped, CallPopped, SubAt, CallAt,
                          Depth, Top

(* A loop over a snapshot calls an observer. *)
LEMMA CallEffect ==
  ASSUME NEW f, NEW g, NEW top, NEW d, CallsOne(f, g, top, d),
         f.op = "subscribe" => g.id = f.id,
         f.op \in {"apply", "subscribe"}
  PROVE  SubsSame /\ CallPushed(d.id, d.event)
<1>1. /\ top \in Nat \ {0} /\ top = Depth /\ g.op = f.op
      /\ DOMAIN stack = 1 .. top /\ stack[top] = f
      /\ DOMAIN stack' = 1 .. top + 1
      /\ \A i \in 1 .. top - 1 : stack'[i] = stack[i]
      /\ stack'[top] = g
      /\ stack'[top + 1].op = "callback" /\ stack'[top + 1].id = d.id
      /\ stack'[top + 1].event = d.event
  BY DEF CallsOne, Depth
<1>2. \A i : i \in DOMAIN stack <=> i \in 1 .. top - 1 \/ i = top
  BY <1>1
<1>3. \A i : i \in DOMAIN stack' <=> i \in 1 .. top - 1 \/ i = top \/ i = top + 1
  BY <1>1
<1>4. top \notin 1 .. top - 1 /\ top + 1 \notin 1 .. top - 1 /\ top + 1 # top
  BY <1>1
<1>5. SubsSame
  BY <1>1, <1>2, <1>3, <1>4 DEF SubsSame, SubAt
<1>6. CallPushed(d.id, d.event)
  <2> SUFFICES ASSUME NEW i, NEW id, NEW e
               PROVE  CallAt(stack', i, id, e) <=>
                        \/ CallAt(stack, i, id, e)
                        \/ i = Depth + 1 /\ id = d.id /\ e = d.event
    BY DEF CallPushed
  <2>1. CASE i \in 1 .. top - 1
    BY <1>1, <1>2, <1>3, <1>4, <2>1 DEF CallAt
  <2>2. CASE i = top
    BY <1>1, <1>2, <1>3, <1>4, <2>2 DEF CallAt
  <2>3. CASE i = top + 1
    <3>1. i \in DOMAIN stack' /\ i \notin DOMAIN stack /\ i = Depth + 1
      BY <1>1, <1>2, <1>3, <1>4, <2>3
    <3>2. /\ stack'[i].op = "callback" /\ stack'[i].id = d.id
          /\ stack'[i].event = d.event
      BY <1>1, <2>3
    <3> QED BY <3>1, <3>2 DEF CallAt
  <2>4. CASE i \notin 1 .. top - 1 /\ i # top /\ i # top + 1
    BY <1>1, <1>2, <1>3, <2>4 DEF CallAt
  <2> QED BY <2>1, <2>2, <2>3, <2>4
<1> QED BY <1>5, <1>6

(* Dropping an observer adds none and, ids being distinct, drops all of it. *)
LEMMA WithoutDrops ==
  ASSUME TypeOK, Sorted, NEW id, observers' = Without(id)
  PROVE  /\ \A x : Observes(x)' => Observes(x)
         /\ ~ Observes(id)'
<1>0. /\ observers \in Seq(Nat) /\ DOMAIN observers = 1 .. Len(observers)
      /\ Len(observers) \in Nat
      /\ \A i \in 1 .. Len(observers) : observers[i] \in Nat
  BY LenProperties, ElementOfSeq DEF TypeOK
<1>1. CASE ~ Observes(id)
  <2>1. observers' = observers
    BY <1>1 DEF Without, Observes
  <2> QED BY <1>1, <2>1 DEF Observes
<1>2. CASE Observes(id)
  <2>1. PICK at \in DOMAIN observers :
          /\ at = CHOOSE i \in DOMAIN observers : observers[i] = id
          /\ observers[at] = id
    BY <1>2 DEF Observes
  <2>2. Without(id) = SubSeq(observers, 1, at - 1)
                        \o SubSeq(observers, at + 1, Len(observers))
    BY <1>2, <2>1 DEF Without, Observes
  <2>3. ASSUME Without(id) = observers PROVE FALSE
    <3>1. at \in 1 .. Len(observers)
      BY <1>0, <2>1
    <3>2. /\ SubSeq(observers, 1, at - 1) \in Seq(Nat)
          /\ Len(SubSeq(observers, 1, at - 1)) <= at - 1
      <4>1. \A i \in 1 .. at - 1 : observers[i] \in Nat
        BY <1>0, <3>1
      <4>2. 1 \in Int /\ at - 1 \in Int
        BY <1>0, <3>1
      <4>3. /\ SubSeq(observers, 1, at - 1) \in Seq(Nat)
            /\ Len(SubSeq(observers, 1, at - 1)) =
                 IF 1 <= at - 1 THEN at - 1 - 1 + 1 ELSE 0
        BY <4>1, <4>2, SubSeqProperties
      <4> QED BY <3>1, <4>2, <4>3
    <3>3. /\ SubSeq(observers, at + 1, Len(observers)) \in Seq(Nat)
          /\ Len(SubSeq(observers, at + 1, Len(observers))) <= Len(observers) - at
      <4>1. \A i \in at + 1 .. Len(observers) : observers[i] \in Nat
        BY <1>0, <3>1
      <4>2. at + 1 \in Int /\ Len(observers) \in Int
        BY <1>0, <3>1
      <4>3. /\ SubSeq(observers, at + 1, Len(observers)) \in Seq(Nat)
            /\ Len(SubSeq(observers, at + 1, Len(observers))) =
                 IF at + 1 <= Len(observers) THEN Len(observers) - (at + 1) + 1 ELSE 0
        BY <4>1, <4>2, SubSeqProperties
      <4> QED BY <1>0, <3>1, <4>2, <4>3
    <3>4. Len(Without(id)) = Len(SubSeq(observers, 1, at - 1))
                               + Len(SubSeq(observers, at + 1, Len(observers)))
      BY <2>2, <3>2, <3>3, ConcatProperties
    <3> QED
      <4>1. /\ Len(SubSeq(observers, 1, at - 1)) \in Nat
            /\ Len(SubSeq(observers, at + 1, Len(observers))) \in Nat
        BY <3>2, <3>3, LenProperties
      <4>2. PICK p \in Nat, q \in Nat :
              /\ p = Len(SubSeq(observers, 1, at - 1))
              /\ q = Len(SubSeq(observers, at + 1, Len(observers)))
        BY <4>1
      <4>3. Len(observers) = p + q
        BY <2>3, <3>4, <4>2
      <4>4. p <= at - 1 /\ q <= Len(observers) - at
        BY <3>2, <3>3, <4>2
      <4> QED BY <1>0, <3>1, <4>3, <4>4
  <2>4. PICK a \in 1 .. Len(observers) :
          /\ observers[a] = id
          /\ Len(Without(id)) = Len(observers) - 1
          /\ Without(id) \in Seq(Nat)
          /\ \A i \in 1 .. Len(observers) - 1 :
               Without(id)[i] = IF i < a THEN observers[i] ELSE observers[i + 1]
    BY <1>0, <2>3, WithoutElements
  <2>5. DOMAIN observers' = 1 .. Len(observers) - 1
    BY <2>4, LenProperties
  <2>6. ASSUME NEW i \in DOMAIN observers'
        PROVE  \E j \in DOMAIN observers : j # a /\ observers'[i] = observers[j]
    <3>1. i \in 1 .. Len(observers) - 1
      BY <2>5
    <3>2. observers'[i] = IF i < a THEN observers[i] ELSE observers[i + 1]
      BY <2>4, <3>1
    <3>3. CASE i < a
      <4>1. i \in DOMAIN observers /\ i # a
        BY <1>0, <3>1, <3>3
      <4> QED BY <3>2, <3>3, <4>1
    <3>4. CASE ~ i < a
      <4>1. i + 1 \in DOMAIN observers /\ i + 1 # a
        BY <1>0, <3>1, <3>4
      <4> QED BY <3>2, <3>4, <4>1
    <3> QED BY <3>3, <3>4
  <2>7. \A j \in DOMAIN observers : observers[j] = id => j = a
    <3> SUFFICES ASSUME NEW j \in DOMAIN observers, observers[j] = id, j # a
                 PROVE  FALSE
      OBVIOUS
    <3>1. a \in DOMAIN observers /\ id \in Nat
      BY <1>0, <2>4
    <3>2. j < a \/ a < j
      BY <1>0
    <3>3. id < id
      BY <2>4, <3>1, <3>2 DEF Sorted
    <3> QED BY <3>1, <3>3
  <2> QED BY <2>6, <2>7 DEF Observes
<1> QED BY <1>1, <1>2

(* A step that neither calls anybody nor lets anybody return, subscribes   *)
(* nobody and ends no subscribe.                                           *)
Settled ==
  /\ SubsSame /\ CallsSame
  /\ UNCHANGED <<nextId, deliveries>>
  /\ \A x : Observes(x)' => Observes(x)

LEMMA StackUntouched == UNCHANGED stack => SubsSame /\ CallsSame
BY DEF SubsSame, CallsSame

LEMMA SettledKinds ==
  ASSUME TypeOK, Sorted,
         Call \/ ApplyDone \/ FinishDestroy \/ MoveToRound \/ UNCHANGED vars
  PROVE  Settled \/ Subscribe
<1>0. /\ stack \in Seq(Frames) /\ Len(stack) \in Nat /\ DOMAIN stack = 1 .. Len(stack)
      /\ state \in States
  BY LenProperties DEF TypeOK
<1>1. ASSUME UNCHANGED observers PROVE \A x : Observes(x)' => Observes(x)
  BY <1>1 DEF Observes
<1>2. ASSUME NEW r, Answer(r) PROVE Settled
  BY <1>1, <1>2, StackUntouched DEF Answer, Settled
<1>3. ASSUME NEW f \in Frames, f.op \notin {"callback", "subscribe"},
             stack' = Append(stack, f), UNCHANGED <<observers, nextId, deliveries>>
      PROVE  Settled
  BY <1>1, <1>3, PushEffect DEF Settled
<1>4. ASSUME NEW r, Return(r), stack # <<>>, Top.op \notin {"callback", "subscribe"},
             \A x : Observes(x)' => Observes(x)
      PROVE  Settled
  BY <1>4, PopEffect DEF Settled, Return
<1>5. ASSUME NEW next \in States, Apply(next, stack)
      PROVE  Settled
  <2>1. PICK f \in Frames : f.op = "apply" /\ stack' = Append(stack, f)
    <3>1. Snapshot(state, next) \in Seq(Nat) /\ Len(log) + 1 \in Nat
      BY SnapshotType DEF TypeOK
    <3>2. ApplyFrame(next, Len(log) + 1, Snapshot(state, next)) \in Frames
      BY <3>1 DEF ApplyFrame, Frames
    <3> QED BY <1>5, <3>2 DEF Apply, ApplyFrame
  <2> QED BY <1>3, <1>5, <2>1 DEF Apply
<1>6. ASSUME BeginDestroy PROVE Settled
  <2>1. CASE Apply("Destroyed", stack)
    BY <1>5, <2>1 DEF States
  <2>2. CASE /\ stack' = stack \o << DestroyFrame, MoveToFrame("Created") >>
             /\ UNCHANGED <<state, observers, nextId, ret, log, deliveries>>
    <3>1. /\ DestroyFrame \in Frames /\ MoveToFrame("Created") \in Frames
          /\ DestroyFrame.op = "destroy" /\ MoveToFrame("Created").op = "move_to"
      BY DEF DestroyFrame, MoveToFrame, Frames
    <3>2. /\ stack' \in Seq(Frames)
          /\ Len(stack') = Len(stack) + 2
          /\ \A i \in 1 .. Len(stack) : stack'[i] = stack[i]
          /\ stack'[Len(stack) + 1].op = "destroy"
          /\ stack'[Len(stack) + 2].op = "move_to"
      BY <1>0, <2>2, <3>1, PushedTwo
    <3>3. DOMAIN stack' = 1 .. Len(stack) + 2
      BY <3>2, LenProperties
    <3>4. \A i : i \in DOMAIN stack' <=>
                   i \in DOMAIN stack \/ i = Len(stack) + 1 \/ i = Len(stack) + 2
      BY <1>0, <3>3
    <3>5. \A i \in DOMAIN stack : stack'[i] = stack[i]
      BY <1>0, <3>2
    <3>6. SubsSame /\ CallsSame
      BY <3>2, <3>4, <3>5 DEF SubsSame, CallsSame, SubAt, CallAt
    <3> QED BY <1>1, <2>2, <3>6 DEF Settled
  <2> QED BY <1>6, <2>1, <2>2 DEF BeginDestroy
<1>7. CASE StrictStep
  <2>1. ASSUME NEW from, NEW to \in States, Step(from, to) PROVE Settled
    BY <1>2, <1>5, <2>1 DEF Step
  <2> QED BY <1>7, <2>1 DEF StrictStep, States
<1>8. CASE Destroy
  BY <1>2, <1>6, <1>8 DEF Destroy
<1>9. CASE \E target \in States : MoveTo(target)
  <2>1. PICK target \in States : MoveTo(target)
    BY <1>9
  <2>2. CASE /\ target \notin {state, "Initialized", "Destroyed"}
             /\ stack' = Append(stack, MoveToFrame(target))
             /\ UNCHANGED <<state, observers, nextId, ret, log, deliveries>>
    <3>1. MoveToFrame(target) \in Frames /\ MoveToFrame(target).op = "move_to"
      BY <2>2 DEF MoveToFrame, Frames, States
    <3> QED BY <1>3, <2>2, <3>1
  <2> QED BY <1>2, <1>6, <2>1, <2>2 DEF MoveTo
<1>10. CASE \E id \in 0 .. nextId - 1 : Unsubscribe(id)
  BY <1>10, WithoutDrops, StackUntouched DEF Unsubscribe, Settled
<1>11. CASE ApplyDone
  <2>1. \A x : Observes(x)' => Observes(x)
    <3>1. DOMAIN <<>> = {}
      OBVIOUS
    <3> QED BY <1>11, <3>1 DEF ApplyDone, Observes
  <2> QED BY <1>4, <1>11, <2>1 DEF ApplyDone, On
<1>12. CASE FinishDestroy
  <2>1. stack # <<>> /\ Top.op = "destroy"
    BY <1>12 DEF FinishDestroy, On
  <2>2. CASE Return(ret) /\ UNCHANGED observers
    BY <1>1, <1>4, <2>1, <2>2
  <2>3. CASE Apply("Destroyed", Below)
    <3>1. PICK f \in Frames : f.op = "apply" /\ stack' = Append(Below, f)
      <4>1. /\ Snapshot(state, "Destroyed") \in Seq(Nat)
            /\ Len(log) + 1 \in Nat /\ "Destroyed" \in States
        BY SnapshotType DEF TypeOK, States
      <4>2. ApplyFrame("Destroyed", Len(log) + 1, Snapshot(state, "Destroyed")) \in Frames
        BY <4>1 DEF ApplyFrame, Frames
      <4> QED BY <2>3, <4>2 DEF Apply, ApplyFrame
    <3>2. /\ Below \in Seq(Frames) /\ Len(Below) = Len(stack) - 1
          /\ \A i \in 1 .. Len(stack) - 1 : Below[i] = stack[i]
          /\ Len(stack) \in Nat \ {0}
      BY <2>1, TopAndBelow
    <3>3. /\ Append(Below, f) \in Seq(Frames) /\ Len(Append(Below, f)) = Len(Below) + 1
          /\ \A i \in 1 .. Len(Below) : Append(Below, f)[i] = Below[i]
          /\ Append(Below, f)[Len(Below) + 1] = f
      BY <3>2, AppendProperties
    <3>4. DOMAIN stack' = 1 .. Len(stack)
      BY <3>1, <3>2, <3>3, LenProperties
    <3>5. /\ \A i \in 1 .. Len(stack) - 1 : stack'[i] = stack[i]
          /\ stack'[Len(stack)] = f
      BY <3>1, <3>2, <3>3
    <3>6. \A i \in DOMAIN stack : i \in 1 .. Len(stack) - 1 \/ i = Len(stack)
      BY <1>0
    <3>7. SubsSame /\ CallsSame
      BY <1>0, <2>1, <3>1, <3>4, <3>5, <3>6
         DEF SubsSame, CallsSame, SubAt, CallAt, Top
    <3> QED BY <1>1, <2>3, <3>7 DEF Settled, Apply
  <2> QED BY <1>12, <2>2, <2>3 DEF FinishDestroy
<1>13. CASE MoveToRound
  <2>1. stack # <<>> /\ Top.op = "move_to" /\ Top \in Frames
    BY <1>13, TopAndBelow DEF MoveToRound, On
  <2>2. ASSUME NEW r, Return(r), UNCHANGED observers PROVE Settled
    BY <1>1, <1>4, <2>1, <2>2
  <2>3. CASE state \notin {Top.target, "Destroyed"} /\ Apply(Towards(Top.target), stack)
    <3>1. Top.target \in {"Created", "Started", "Resumed"}
      BY <2>1, FrameShapes
    <3>2. Towards(Top.target) \in States
      BY <1>0, <2>3, <3>1, TowardsAdjacent DEF States
    <3> QED BY <1>5, <2>3, <3>2
  <2> QED BY <1>13, <2>2, <2>3 DEF MoveToRound
<1>14. CASE UNCHANGED vars
  BY <1>1, <1>14, StackUntouched DEF vars, Settled
<1> QED BY <1>7, <1>8, <1>9, <1>10, <1>11, <1>12, <1>13, <1>14
        DEF Call, Components

LEMMA RegistryKinds ==
  ASSUME TypeOK, Sorted, [Next]_vars
  PROVE  Settled \/ Subscribe \/ Notify \/ Replay \/ SubscribeDone \/ CallbackReturn
BY SettledKinds DEF Next, Run

(* What the other kinds of steps do to the frames. *)
LEMMA SubscribeEffect ==
  ASSUME TypeOK, Subscribe
  PROVE  SubPushed(nextId) /\ CallsSame
<1>1. PICK f \in Frames : f.op = "subscribe" /\ f.id = nextId /\ stack' = Append(stack, f)
  BY CatchUpType DEF Subscribe, SubscribeFrame, Frames, TypeOK
<1> QED BY <1>1, PushEffect

LEMMA CallsEffect ==
  ASSUME TypeOK, Notify \/ Replay
  PROVE  \E f, g, top, d :
           /\ NotifyEffect(f, g, top, d) \/ ReplayEffect(f, g, top, d)
           /\ SubsSame /\ CallPushed(d.id, d.event)
<1>1. PICK f, g, top, d : NotifyEffect(f, g, top, d) \/ ReplayEffect(f, g, top, d)
  BY NotifyDoes, ReplayDoes
<1>2. SubsSame /\ CallPushed(d.id, d.event)
  BY <1>1, CallEffect DEF NotifyEffect, ReplayEffect
<1> QED BY <1>1, <1>2

LEMMA ReturnEffect ==
  ASSUME TypeOK
  PROVE  /\ CallbackReturn => SubsSame /\ CallPopped
         /\ On("subscribe") /\ Return("Ok") => SubPopped /\ CallsSame
BY PopEffect DEF CallbackReturn, On, Return

-----------------------------------------------------------------------------
(* The frames of the closures and of the calls that create them: every     *)
(* subscribe is for an observer of its own, a helper knows its id once its *)
(* subscribe has returned, the closures that have fired are on the stack,  *)
(* and below every late do_on_destroy runs user code.                      *)
Apart == \A i, j, id : SubAt(stack, i, id) /\ SubAt(stack, j, id) => i = j

CallsGiven == \A i, id, e : CallAt(stack, i, id, e) => id < nextId

Armed == \A id \in Helpers : helper[id].armed <=> \A i : ~ SubAt(stack, i, id)

FromKinds ==
  \A id \in Helpers : <<helper[id].from, helper[id].to, helper[id].once>> \in AllKinds

LateOrdered == \A i, j \in DOMAIN late : i < j => late[i] <= late[j]

LateCalls ==
  \A j \in DOMAIN late :
    \/ late[j] = 0
    \/ \E id, e : /\ CallAt(stack, late[j], id, e)
                  /\ id \notin Helpers \/ late[j] \in firing

CellsInv ==
  /\ RegistryInv /\ StackHonest
  /\ HelperTypeOK /\ FromKinds
  /\ Apart /\ CallsGiven /\ Armed
  /\ LateOrdered /\ LateCalls

LEMMA SubsChange ==
  ASSUME TypeOK, Sorted, [Next]_vars \/ Releases
  PROVE  \/ SubsSame
         \/ SubPushed(nextId) /\ nextId' = nextId + 1
         \/ SubPopped
<1>1. CASE [Next]_vars
  <2>1. CASE Settled
    BY <2>1 DEF Settled
  <2>2. CASE Subscribe
    BY <2>2, SubscribeEffect DEF Subscribe
  <2>3. CASE Notify \/ Replay
    BY <2>3, CallsEffect
  <2>4. CASE SubscribeDone \/ CallbackReturn
    BY <2>4, ReturnEffect DEF SubscribeDone
  <2> QED BY <1>1, <2>1, <2>2, <2>3, <2>4, RegistryKinds
<1>2. CASE Releases
  BY <1>2, ReturnEffect DEF Releases
<1> QED BY <1>1, <1>2

(* Who is called subscribed before. *)
LEMMA CalledIsGiven ==
  ASSUME RegistryInv, NEW f, NEW g, NEW top, NEW d,
         NotifyEffect(f, g, top, d) \/ ReplayEffect(f, g, top, d)
  PROVE  d.id \in Nat /\ d.id < nextId
<1>1. /\ d \in [id : Nat, event : States, n : Nat]
      /\ top \in DOMAIN stack /\ stack[top] = f
  BY DEF NotifyEffect, ReplayEffect, CallsOne
<1>2. CASE NotifyEffect(f, g, top, d)
  <2>1. f.op = "apply" /\ d.id \in ToCall(f)
    BY <1>2 DEF NotifyEffect
  <2>2. f.n \in DOMAIN log /\ d.id \in log[f.n].registered
    BY <1>1, <2>1 DEF RegistryInv, NotifyInv, FramesDue, Due
  <2> QED BY <1>1, <2>2 DEF RegistryInv, IdsGiven
<1>3. CASE ReplayEffect(f, g, top, d)
  BY <1>1, <1>3 DEF ReplayEffect, RegistryInv, IdsGiven
<1> QED BY <1>2, <1>3

LEMMA CallsChange ==
  ASSUME RegistryInv, [Next]_vars \/ Releases
  PROVE  /\ nextId' \in {nextId, nextId + 1}
         /\ \/ CallsSame
            \/ \E x, e : x \in Nat /\ x < nextId /\ CallPushed(x, e)
            \/ CallPopped
<1>0. TypeOK /\ Sorted
  BY DEF RegistryInv, NotifyInv
<1>1. CASE Settled
  BY <1>1 DEF Settled
<1>2. CASE Subscribe
  BY <1>0, <1>2, SubscribeEffect DEF Subscribe
<1>3. CASE Notify \/ Replay
  <2>1. PICK f, g, top, d :
           /\ NotifyEffect(f, g, top, d) \/ ReplayEffect(f, g, top, d)
           /\ SubsSame /\ CallPushed(d.id, d.event)
    BY <1>0, <1>3, CallsEffect
  <2>2. d.id \in Nat /\ d.id < nextId
    BY <2>1, CalledIsGiven
  <2> QED BY <2>1, <2>2 DEF NotifyEffect, ReplayEffect, CallsOne
<1>4. CASE SubscribeDone \/ CallbackReturn
  BY <1>0, <1>4, ReturnEffect DEF SubscribeDone, CallbackReturn, Return
<1>5. CASE Releases
  BY <1>0, <1>5, ReturnEffect DEF Releases, Return
<1> QED BY <1>0, <1>1, <1>2, <1>3, <1>4, <1>5, RegistryKinds

LEMMA FramesStep ==
  ASSUME RegistryInv, Apart, CallsGiven, [Next]_vars \/ Releases
  PROVE  Apart' /\ CallsGiven'
<1>0. TypeOK /\ Sorted /\ IdsGiven /\ nextId \in Nat
  BY DEF RegistryInv, NotifyInv, TypeOK
<1>1. Apart'
  <2>1. CASE SubPushed(nextId)
    <3>1. \A i, id : SubAt(stack, i, id) => id # nextId
      BY <1>0 DEF IdsGiven, SubAt
    <3> QED BY <2>1, <3>1 DEF Apart, SubPushed
  <2> QED BY <1>0, <2>1, SubsChange DEF Apart, SubsSame, SubPopped
<1>2. CallsGiven'
  <2>1. \A i, id, e : CallAt(stack, i, id, e) => id \in Nat
    <3> SUFFICES ASSUME NEW i, NEW id, NEW e, CallAt(stack, i, id, e)
                 PROVE  id \in Nat
      OBVIOUS
    <3>1. i \in DOMAIN stack /\ stack[i].op = "callback" /\ stack[i].id = id
      BY DEF CallAt
    <3>2. stack[i] \in Frames
      BY <1>0, <3>1, LenProperties, ElementOfSeq DEF TypeOK
    <3> QED BY <3>1, <3>2, FrameShapes
  <2>2. \A i, id, e : CallAt(stack, i, id, e) => id < nextId'
    BY <1>0, <2>1, CallsChange DEF CallsGiven
  <2>3. ASSUME NEW x \in Nat, NEW e, x < nextId, CallPushed(x, e)
        PROVE  CallsGiven'
    <3>1. x < nextId'
      BY <1>0, <2>3, CallsChange
    <3> QED BY <2>2, <2>3, <3>1 DEF CallsGiven, CallPushed
  <2> QED BY <2>2, <2>3, CallsChange DEF CallsGiven, CallsSame, CallPopped
<1> QED BY <1>1, <1>2

-----------------------------------------------------------------------------
(* The steps of the helpers.  A plain one is a step of the registry in     *)
(* which no closure and no on_transition takes part.                       *)
Plain ==
  /\ UNCHANGED helperVars
  /\ \/ Settled \/ Subscribe \/ Notify \/ Replay
     \/ SubscribeDone /\ Top.id \notin Helpers

LEMMA HelperSteps ==
  ASSUME TypeOK, Sorted, [HelperNext]_allVars
  PROVE  \/ Plain
         \/ \E kind \in Kinds : DoOn(kind)
         \/ DoOnDestroyLate \/ SubscribeInert
         \/ Ignore \/ Fire \/ Arm \/ UserReturn
<1>1. CASE UNCHANGED allVars
  <2>1. UNCHANGED vars /\ UNCHANGED helperVars
    BY <1>1 DEF allVars
  <2> QED BY <2>1, SettledKinds DEF Plain
<1>2. CASE HelperCall
  <2>1. CASE ~ InClosure /\ Call /\ UNCHANGED helperVars
    BY <2>1, SettledKinds DEF Plain
  <2> QED BY <1>2, <2>1 DEF HelperCall
<1>3. CASE HelperRun
  <2>1. CASE (ApplyDone \/ FinishDestroy \/ MoveToRound) /\ UNCHANGED helperVars
    BY <2>1, SettledKinds DEF Plain
  <2> QED BY <1>3, <2>1 DEF HelperRun, Plain
<1> QED BY <1>1, <1>2, <1>3 DEF HelperNext

(* What is known of the helper whose closure runs. *)
LEMMA TheClosure ==
  ASSUME CellsInv, InClosure
  PROVE  /\ stack # <<>> /\ Depth \in DOMAIN stack /\ Depth \in Nat
         /\ Top.op = "callback" /\ Top.id \in Nat /\ Top.id \in Helpers
         /\ Top.event \in States
         /\ CallAt(stack, Depth, Top.id, Top.event)
         /\ Depth \notin firing
<1>1. TypeOK /\ stack # <<>> /\ Top.op = "callback" /\ Top.id \in Helpers
      /\ Depth \notin firing
  BY DEF CellsInv, RegistryInv, InClosure, On
<1>2. Len(stack) \in Nat \ {0} /\ DOMAIN stack = 1 .. Len(stack) /\ Top \in Frames
  BY <1>1, TopAndBelow, LenProperties DEF TypeOK
<1>3. Top.id \in Nat /\ Top.event \in States
  BY <1>1, <1>2, FrameShapes
<1>4. Depth \in DOMAIN stack
  BY <1>2 DEF Depth
<1> QED BY <1>1, <1>2, <1>3, <1>4 DEF CallAt, Depth, Top

(* What is known of the helper whose on_transition ends. *)
LEMMA TheHelper ==
  ASSUME CellsInv, Arm
  PROVE  /\ stack # <<>> /\ Depth \in DOMAIN stack /\ Depth \in Nat
         /\ Top.id \in Nat /\ Top.id \in Helpers
         /\ SubAt(stack, Depth, Top.id)
         /\ SubPopped /\ CallsSame
<1>1. TypeOK /\ stack # <<>> /\ Top.op = "subscribe" /\ Top.id \in Helpers
  BY DEF CellsInv, RegistryInv, Arm, On
<1>2. Len(stack) \in Nat \ {0} /\ DOMAIN stack = 1 .. Len(stack) /\ Top \in Frames
  BY <1>1, TopAndBelow, LenProperties DEF TypeOK
<1>3. Top.id \in Nat
  BY <1>1, <1>2, FrameShapes
<1>4. SubPopped /\ CallsSame
  BY <1>1, ReturnEffect DEF Arm
<1>5. Depth \in DOMAIN stack
  BY <1>2 DEF Depth
<1> QED BY <1>1, <1>2, <1>3, <1>4, <1>5 DEF SubAt, Depth, Top

(* To the registry the helpers are users like any other, but for Releases. *)
LEMMA HelperRegistry ==
  ASSUME CellsInv, [HelperNext]_allVars
  PROVE  [Next]_vars \/ Releases
<1>0. TypeOK /\ Sorted
  BY DEF CellsInv, RegistryInv, NotifyInv
<1>1. CASE UNCHANGED allVars
  BY <1>1 DEF allVars
<1>2. CASE HelperCall
  BY <1>2 DEF HelperCall, DoOn, DoOnDestroyLate, Next, Call, Components, vars
<1>3. CASE Fire
  <2>1. InClosure /\ Top.id \in Helpers
    BY <1>3 DEF Fire, InClosure
  <2>2. CASE helper[Top.id].once /\ helper[Top.id].armed
    <3>1. \A i : ~ SubAt(stack, i, Top.id)
      BY <2>1, <2>2 DEF CellsInv, Armed
    <3>2. ~ Subscribing(Top.id)
      BY <3>1 DEF Subscribing, SubAt
    <3>3. Top.id \in 0 .. nextId - 1
      BY <2>1 DEF CellsInv, HelperTypeOK
    <3>4. UserCode
      BY <2>1 DEF InClosure, UserCode
    <3>5. Unsubscribe(Top.id)
      BY <1>3, <2>2, <3>2, <3>4 DEF Fire, Unsubscribe
    <3> QED BY <3>3, <3>5 DEF Next, Call, Components
  <2>3. CASE ~ (helper[Top.id].once /\ helper[Top.id].armed)
    BY <1>3, <2>3 DEF Fire, vars
  <2> QED BY <2>2, <2>3
<1>4. CASE Arm
  <2>1. CASE helper[Top.id].once /\ helper[Top.id].fired
    BY <1>4, <2>1 DEF Arm, Releases
  <2>2. CASE ~ (helper[Top.id].once /\ helper[Top.id].fired)
    BY <1>4, <2>2 DEF Arm, SubscribeDone, Next, Run
  <2> QED BY <2>1, <2>2
<1>5. CASE HelperRun /\ ~ Fire /\ ~ Arm
  BY <1>5 DEF HelperRun, SubscribeInert, Ignore, UserReturn, Next, Call, Components, Run
<1> QED BY <1>1, <1>2, <1>3, <1>4, <1>5 DEF HelperNext, HelperRun

(* The observer of a helper, and whether its subscribe has returned, are   *)
(* touched by nobody but its own closure and its own on_transition, except *)
(* that others may unsubscribe it.                                         *)
Untouched(id) ==
  /\ \A i : SubAt(stack', i, id) <=> SubAt(stack, i, id)
  /\ Observes(id)' => Observes(id)

LEMMA SubscribeTouches ==
  ASSUME TypeOK, Subscribe, NEW id, id # nextId
  PROVE  Untouched(id)
<1>1. \A i : SubAt(stack', i, id) <=> SubAt(stack, i, id)
  BY SubscribeEffect DEF SubPushed
<1>2. Observes(id)' => Observes(id)
  <2>1. CASE observers' = Append(observers, nextId)
    <3>1. /\ Len(observers) \in Nat /\ DOMAIN observers = 1 .. Len(observers)
          /\ DOMAIN observers' = 1 .. Len(observers) + 1
          /\ \A i \in 1 .. Len(observers) : observers'[i] = observers[i]
          /\ observers'[Len(observers) + 1] = nextId
      BY <2>1, AppendProperties, LenProperties DEF TypeOK
    <3>2. \A i \in DOMAIN observers' : i \in DOMAIN observers \/ i = Len(observers) + 1
      BY <3>1
    <3> QED BY <3>1, <3>2 DEF Observes
  <2> QED BY <2>1 DEF Subscribe, Observes
<1> QED BY <1>1, <1>2 DEF Untouched

LEMMA HelperUntouched ==
  ASSUME CellsInv,
         Plain \/ (\E kind \in Kinds : DoOn(kind)) \/ DoOnDestroyLate
           \/ SubscribeInert \/ Ignore \/ Fire \/ Arm \/ UserReturn
  PROVE  \A id \in Helpers : ~ (Arm /\ id = Top.id) => Untouched(id)
<1> SUFFICES ASSUME NEW id \in Helpers, ~ (Arm /\ id = Top.id)
             PROVE  Untouched(id)
  OBVIOUS
<1>0. TypeOK /\ Sorted /\ id \in Nat /\ id # nextId /\ nextId \in Nat
  <2>1. id \in 0 .. nextId - 1 /\ TypeOK /\ Sorted
    BY DEF CellsInv, HelperTypeOK, RegistryInv, NotifyInv
  <2> QED BY <2>1 DEF TypeOK
<1>1. CASE Subscribe
  BY <1>0, <1>1, SubscribeTouches
<1>2. CASE UNCHANGED stack /\ (Observes(id)' => Observes(id))
  BY <1>2 DEF Untouched
<1>3. CASE CallbackReturn
  BY <1>0, <1>3, ReturnEffect DEF Untouched, SubsSame, CallbackReturn, Observes
<1>4. CASE Plain
  <2>1. CASE Settled
    BY <2>1 DEF Settled, SubsSame, Untouched
  <2>2. CASE Notify \/ Replay
    BY <1>0, <2>2, CallsEffect DEF Untouched, SubsSame, Notify, Replay, Observes
  <2>3. CASE SubscribeDone /\ Top.id \notin Helpers
    <3>1. SubPopped /\ UNCHANGED observers
      BY <1>0, <2>3, ReturnEffect DEF SubscribeDone
    <3>2. ~ SubAt(stack, Depth, id)
      BY <2>3 DEF SubAt, Top, Depth
    <3> QED BY <3>1, <3>2 DEF Untouched, SubPopped, Observes
  <2> QED BY <1>1, <1>4, <2>1, <2>2, <2>3 DEF Plain
<1>5. CASE Fire
  <2>1. Observes(id)' => Observes(id)
    BY <1>0, <1>5, WithoutDrops DEF Fire, Observes
  <2> QED BY <1>2, <1>5, <2>1 DEF Fire
<1>6. CASE Arm
  <2>1. SubPopped /\ SubAt(stack, Depth, Top.id)
    BY <1>6, TheHelper
  <2>2. ~ SubAt(stack, Depth, id)
    BY <1>6, <2>1 DEF SubAt
  <2>3. Observes(id)' => Observes(id)
    BY <1>0, <1>6, WithoutDrops DEF Arm, Observes
  <2> QED BY <2>1, <2>2, <2>3 DEF Untouched, SubPopped
<1>7. CASE DoOnDestroyLate
  BY <1>2, <1>7 DEF DoOnDestroyLate, vars, Observes
<1> QED BY <1>1, <1>3, <1>4, <1>5, <1>6, <1>7 DEF DoOn, SubscribeInert, Ignore, UserReturn

-----------------------------------------------------------------------------
(* A step of the helpers, of any kind. *)
AnyStep ==
  \/ Plain
  \/ \E kind \in Kinds : DoOn(kind)
  \/ DoOnDestroyLate \/ SubscribeInert
  \/ Ignore \/ Fire \/ Arm \/ UserReturn

Cell == [from : States, to : States, once : BOOLEAN, previous : States,
         fired : BOOLEAN, armed : BOOLEAN, since : States]

LEMMA CellsType ==
  ASSUME NEW kind \in AllKinds, state \in States
  PROVE  /\ Cells(kind) \in Cell
         /\ <<Cells(kind).from, Cells(kind).to, Cells(kind).once>> = kind
         /\ ~ Cells(kind).armed /\ ~ Cells(kind).fired
         /\ kind[2] = "Destroyed" => kind = DoOnDestroy
<1>1. PICK from \in States, to \in States, once \in BOOLEAN : kind = <<from, to, once>>
  BY DEF AllKinds, DoOnCreate, DoOnDestroy, DoOnStart, DoOnResume, DoOnPause, DoOnStop,
         States
<1>2. to = "Destroyed" => kind = DoOnDestroy
  BY <1>1 DEF AllKinds, DoOnCreate, DoOnDestroy, DoOnStart, DoOnResume, DoOnPause, DoOnStop
<1> QED BY <1>1, <1>2 DEF Cells, Cell, States

(* What a step does to the cells of a helper. *)
CellKept(id) ==
  /\ id \in Helpers'
  /\ helper'[id].from = helper[id].from
  /\ helper'[id].to = helper[id].to
  /\ helper'[id].once = helper[id].once
  /\ helper'[id].armed = IF Arm /\ id = Top.id THEN TRUE ELSE helper[id].armed
  /\ helper'[id].fired = IF Fire /\ id = Top.id THEN TRUE ELSE helper[id].fired

CellNew(id) ==
  \E kind \in Kinds : DoOn(kind) /\ id = nextId /\ helper'[id] = Cells(kind)

LEMMA CellChanges ==
  ASSUME CellsInv, AnyStep
  PROVE  /\ helper' \in [Helpers' -> Cell]
         /\ \A id \in Helpers : CellKept(id)
         /\ \A id \in Helpers' : id \in Helpers \/ CellNew(id)
<1>0. /\ helper \in [Helpers -> Cell] /\ state \in States
      /\ Helpers \subseteq 0 .. nextId - 1 /\ nextId \in Nat
      /\ \A id \in Helpers : helper[id] \in Cell
  BY DEF CellsInv, HelperTypeOK, Cell, RegistryInv, TypeOK
<1>1. nextId \notin Helpers
  BY <1>0
<1>2. ASSUME NEW x \in Helpers, NEW c \in Cell, helper' = [helper EXCEPT ![x] = c]
      PROVE  /\ DOMAIN helper' = Helpers /\ helper' \in [Helpers -> Cell]
             /\ helper'[x] = c
             /\ \A y \in Helpers : y # x => helper'[y] = helper[y]
  BY <1>0, <1>2
<1>3. (Ignore \/ Fire => On("callback")) /\ (Arm => On("subscribe"))
  BY DEF Ignore, Fire, Arm, InClosure
<1>4. (Ignore \/ Fire) => ~ Arm
  BY <1>3 DEF On
<1>5. Fire => fires' # fires
  <2>1. ASSUME Fire PROVE fires' # fires
    <3>1. fires \in Seq(Helpers) /\ Top.id \in Helpers
      BY <2>1, TheClosure DEF CellsInv, HelperTypeOK, Fire
    <3>2. fires' = Append(fires, Top.id)
      BY <2>1 DEF Fire
    <3>3. Len(fires') = Len(fires) + 1 /\ Len(fires) \in Nat
      BY <3>1, <3>2, AppendProperties, LenProperties
    <3> QED BY <3>3
  <2> QED BY <2>1
<1>6. CASE Ignore
  <2>1. Top.id \in Helpers /\ Top.event \in States
    BY <1>6, TheClosure DEF Ignore
  <2>2. PICK x, c : x \in Helpers /\ x = Top.id
                  /\ c = [helper[x] EXCEPT !.previous = Top.event]
    BY <2>1
  <2>3. /\ c \in Cell
        /\ c.from = helper[x].from /\ c.to = helper[x].to /\ c.once = helper[x].once
        /\ c.armed = helper[x].armed /\ c.fired = helper[x].fired
    BY <1>0, <2>1, <2>2 DEF Cell
  <2>4. helper' = [helper EXCEPT ![x] = c]
    BY <1>6, <2>2 DEF Ignore
  <2>5. ~ Fire /\ ~ Arm
    BY <1>4, <1>5, <1>6 DEF Ignore
  <2>6. /\ DOMAIN helper' = Helpers /\ helper' \in [Helpers -> Cell]
        /\ helper'[x] = c
        /\ \A y \in Helpers : y # x => helper'[y] = helper[y]
    BY <1>2, <2>2, <2>3, <2>4
  <2>7. \A id \in Helpers : CellKept(id)
    BY <2>3, <2>5, <2>6 DEF CellKept, Helpers
  <2> QED BY <2>6, <2>7 DEF Helpers
<1>7. CASE Fire
  <2>1. Top.id \in Helpers /\ Top.event \in States
    BY <1>7, TheClosure DEF Fire
  <2>2. PICK x, c :
          /\ x \in Helpers /\ x = Top.id
          /\ c = [helper[x] EXCEPT !.previous = Top.event, !.fired = TRUE]
    BY <2>1
  <2>3. /\ c \in Cell
        /\ c.from = helper[x].from /\ c.to = helper[x].to /\ c.once = helper[x].once
        /\ c.armed = helper[x].armed /\ c.fired = TRUE
    BY <1>0, <2>1, <2>2 DEF Cell
  <2>4. helper' = [helper EXCEPT ![x] = c]
    BY <1>0, <1>7, <2>2 DEF Fire
  <2>5. ~ Arm
    BY <1>4, <1>7
  <2>6. /\ DOMAIN helper' = Helpers /\ helper' \in [Helpers -> Cell]
        /\ helper'[x] = c
        /\ \A y \in Helpers : y # x => helper'[y] = helper[y]
    BY <1>2, <2>2, <2>3, <2>4
  <2>7. \A id \in Helpers : CellKept(id)
    BY <1>7, <2>2, <2>3, <2>5, <2>6 DEF CellKept, Helpers
  <2> QED BY <2>6, <2>7 DEF Helpers
<1>8. CASE Arm
  <2>1. Top.id \in Helpers
    BY <1>8, TheHelper
  <2>2. PICK x, c : x \in Helpers /\ x = Top.id /\ c = [helper[x] EXCEPT !.armed = TRUE]
    BY <2>1
  <2>3. /\ c \in Cell
        /\ c.from = helper[x].from /\ c.to = helper[x].to /\ c.once = helper[x].once
        /\ c.armed = TRUE /\ c.fired = helper[x].fired
    BY <1>0, <2>1, <2>2 DEF Cell
  <2>4. helper' = [helper EXCEPT ![x] = c]
    BY <1>8, <2>2 DEF Arm
  <2>5. ~ Fire
    BY <1>4, <1>8
  <2>6. /\ DOMAIN helper' = Helpers /\ helper' \in [Helpers -> Cell]
        /\ helper'[x] = c
        /\ \A y \in Helpers : y # x => helper'[y] = helper[y]
    BY <1>2, <2>2, <2>3, <2>4
  <2>7. \A id \in Helpers : CellKept(id)
    BY <1>8, <2>2, <2>3, <2>5, <2>6 DEF CellKept, Helpers
  <2> QED BY <2>6, <2>7 DEF Helpers
<1>9. CASE \E kind \in Kinds : DoOn(kind)
  <2>1. PICK kind \in Kinds : DoOn(kind)
    BY <1>9
  <2>2. helper' = [id \in Helpers \cup {nextId} |->
                     IF id = nextId THEN Cells(kind) ELSE helper[id]]
    BY <2>1 DEF DoOn
  <2>3. Cells(kind) \in Cell
    BY <1>0, CellsType, KindsAssumption
  <2>4. /\ DOMAIN helper' = Helpers \cup {nextId}
        /\ helper' \in [Helpers \cup {nextId} -> Cell]
        /\ helper'[nextId] = Cells(kind)
        /\ \A id \in Helpers : helper'[id] = helper[id]
    BY <1>0, <1>1, <2>2, <2>3
  <2>5. ~ Fire
    BY <1>5, <2>1 DEF DoOn
  <2>6. ~ Arm
    <3>1. Arm => DOMAIN helper' = Helpers
      BY <1>0 DEF Arm
    <3> QED BY <1>1, <2>4, <3>1
  <2>7. \A id \in Helpers : CellKept(id)
    BY <2>4, <2>5, <2>6 DEF CellKept, Helpers
  <2>8. CellNew(nextId)
    BY <2>1, <2>4 DEF CellNew
  <2> QED BY <2>4, <2>7, <2>8 DEF Helpers
<1>10. CASE UNCHANGED <<helper, fires>> /\ ~ Arm
  <2>1. \A id \in Helpers : CellKept(id)
    BY <1>5, <1>10 DEF CellKept, Helpers
  <2> QED BY <1>0, <1>10, <2>1 DEF Helpers
<1>11. ASSUME Plain \/ DoOnDestroyLate \/ SubscribeInert \/ UserReturn, ~ Arm
       PROVE  UNCHANGED <<helper, fires>>
  BY <1>11 DEF Plain, helperVars, DoOnDestroyLate, SubscribeInert, UserReturn
<1> QED BY <1>6, <1>7, <1>8, <1>9, <1>10, <1>11 DEF AnyStep

(* The closures that have fired and the late calls stand where they stood  *)
(* on the stack.                                                           *)
FiringCalls == \A i \in firing : \E id, e : CallAt(stack, i, id, e)

Standing == FiringCalls /\ LateOrdered /\ LateCalls

LEMMA LateKept ==
  ASSUME CellsInv, FiringCalls, UNCHANGED firing,
         \A i, id, e : CallAt(stack, i, id, e) => CallAt(stack', i, id, e),
         \A id \in Helpers' : id \in Helpers \/ id = nextId,
         DOMAIN late' \subseteq DOMAIN late,
         \A j \in DOMAIN late' : late'[j] = late[j]
  PROVE  Standing'
<1>1. FiringCalls' /\ LateOrdered'
  BY DEF FiringCalls, CellsInv, LateOrdered
<1>2. ASSUME NEW id, NEW i, NEW e, CallAt(stack, i, id, e), id \notin Helpers
      PROVE  id \notin Helpers'
  <2>1. id < nextId /\ nextId \in Nat
    BY <1>2 DEF CellsInv, CallsGiven, RegistryInv, TypeOK
  <2>2. id # nextId
    BY <2>1
  <2> QED BY <1>2, <2>2
<1>3. ASSUME NEW j \in DOMAIN late', late'[j] # 0
      PROVE  \E id, e : /\ CallAt(stack', late'[j], id, e)
                        /\ id \notin Helpers' \/ late'[j] \in firing'
  <2>1. PICK id, e : /\ CallAt(stack, late[j], id, e)
                     /\ id \notin Helpers \/ late[j] \in firing
    BY <1>3 DEF CellsInv, LateCalls
  <2> QED BY <1>2, <1>3, <2>1
<1>4. LateCalls'
  BY <1>3 DEF LateCalls
<1> QED BY <1>1, <1>4 DEF Standing

LEMMA StandingStep ==
  ASSUME CellsInv, FiringCalls, AnyStep
  PROVE  Standing' /\ late' \in Seq(Nat)
<1>0. /\ TypeOK /\ Sorted /\ stack \in Seq(Frames)
      /\ Depth \in Nat /\ DOMAIN stack = 1 .. Depth
      /\ late \in Seq(0 .. Depth) /\ late \in Seq(Nat)
      /\ Len(late) \in Nat /\ DOMAIN late = 1 .. Len(late)
      /\ \A j \in DOMAIN late : late[j] \in 0 .. Depth
  <2>1. /\ TypeOK /\ Sorted /\ stack \in Seq(Frames) /\ late \in Seq(0 .. Depth)
        /\ Depth \in Nat /\ DOMAIN stack = 1 .. Depth
    BY LenProperties DEF CellsInv, RegistryInv, NotifyInv, TypeOK, HelperTypeOK, Depth
  <2>2. late \in Seq(Nat)
    BY <2>1, SeqMonotonic
  <2> QED BY <2>1, <2>2, LenProperties, ElementOfSeq
<1>1. \A id \in Helpers' : id \in Helpers \/ id = nextId
  BY CellChanges DEF CellNew
<1>2. CASE Plain \/ (\E kind \in Kinds : DoOn(kind)) \/ Arm
  <2>1. UNCHANGED <<firing, late>>
    BY <1>2 DEF Plain, helperVars, DoOn, Arm
  <2>2. \A i, id, e : CallAt(stack, i, id, e) => CallAt(stack', i, id, e)
    <3>1. CASE CallsSame
      BY <3>1 DEF CallsSame
    <3>2. CASE Settled
      BY <3>1, <3>2 DEF Settled
    <3>3. CASE Subscribe \/ SubscribeDone
      BY <1>0, <3>1, <3>3, SubscribeEffect, ReturnEffect DEF SubscribeDone
    <3>4. CASE Notify \/ Replay
      BY <1>0, <3>4, CallsEffect DEF CallPushed
    <3>5. CASE Arm
      BY <3>1, <3>5, TheHelper
    <3> QED BY <1>2, <3>2, <3>3, <3>4, <3>5 DEF Plain, DoOn
  <2> QED BY <1>0, <1>1, <2>1, <2>2, LateKept
<1>3. CASE SubscribeInert
  <2>1. /\ UNCHANGED firing /\ late # <<>>
        /\ late' = SubSeq(late, 1, Len(late) - 1)
        /\ CallsSame
    BY <1>0, <1>3, SubscribeEffect DEF SubscribeInert, InLate
  <2>2. /\ late' \in Seq(Nat) /\ Len(late') = Len(late) - 1
        /\ \A j \in 1 .. Len(late) - 1 : late'[j] = late[j]
    BY <1>0, <2>1, Popped
  <2>3. DOMAIN late' = 1 .. Len(late) - 1
    BY <2>2, LenProperties
  <2>4. DOMAIN late' \subseteq DOMAIN late
    BY <1>0, <2>3
  <2>5. \A i, id, e : CallAt(stack, i, id, e) => CallAt(stack', i, id, e)
    BY <2>1 DEF CallsSame
  <2> QED BY <1>1, <2>1, <2>2, <2>3, <2>4, <2>5, LateKept
<1>4. CASE DoOnDestroyLate
  <2>1. /\ UserCode /\ ~ InClosure /\ late' = Append(late, Depth)
        /\ UNCHANGED <<stack, helper, firing>>
    BY <1>4 DEF DoOnDestroyLate, vars
  <2>2. /\ late' \in Seq(Nat) /\ DOMAIN late' = 1 .. Len(late) + 1
        /\ \A j \in DOMAIN late : late'[j] = late[j]
        /\ late'[Len(late) + 1] = Depth
    BY <1>0, <2>1, AppendProperties, LenProperties
  <2>3. \A j \in DOMAIN late' : j \in DOMAIN late \/ j = Len(late) + 1
    BY <1>0, <2>2
  <2>4. FiringCalls'
    BY <2>1 DEF FiringCalls
  <2>5. LateOrdered'
    <3> SUFFICES ASSUME NEW i \in DOMAIN late', NEW j \in DOMAIN late', i < j
                 PROVE  late'[i] <= late'[j]
      BY DEF LateOrdered
    <3>1. i \in DOMAIN late
      BY <1>0, <2>2
    <3>2. CASE j \in DOMAIN late
      BY <2>2, <3>1, <3>2 DEF CellsInv, LateOrdered
    <3>3. CASE j = Len(late) + 1
      BY <1>0, <2>2, <3>1, <3>3
    <3> QED BY <2>3, <3>2, <3>3
  <2>6. \/ Depth = 0
        \/ \E id, e : /\ CallAt(stack, Depth, id, e)
                      /\ id \notin Helpers \/ Depth \in firing
    <3>1. CASE stack = <<>>
      BY <3>1 DEF Depth
    <3>2. CASE On("callback")
      <4>1. Depth \in DOMAIN stack /\ Top = stack[Depth] /\ Top.op = "callback"
        BY <1>0, <3>2, EmptySeq DEF On, Top, Depth
      <4>2. CallAt(stack, Depth, Top.id, Top.event)
        BY <4>1 DEF CallAt
      <4>3. Top.id \notin Helpers \/ Depth \in firing
        BY <2>1, <3>2 DEF InClosure
      <4> QED BY <4>2, <4>3
    <3> QED BY <2>1, <3>1, <3>2 DEF UserCode
  <2>7. Helpers' = Helpers
    BY <2>1 DEF Helpers
  <2>8. LateCalls'
    <3> SUFFICES ASSUME NEW j \in DOMAIN late', late'[j] # 0
                 PROVE  \E id, e : /\ CallAt(stack', late'[j], id, e)
                                   /\ id \notin Helpers' \/ late'[j] \in firing'
      BY DEF LateCalls
    <3>1. CASE j \in DOMAIN late
      <4>1. PICK id, e : /\ CallAt(stack, late[j], id, e)
                         /\ id \notin Helpers \/ late[j] \in firing
        BY <2>2, <3>1 DEF CellsInv, LateCalls
      <4> QED BY <2>1, <2>2, <2>7, <3>1, <4>1
    <3>2. CASE j = Len(late) + 1
      BY <2>1, <2>2, <2>6, <2>7, <3>2
    <3> QED BY <2>3, <3>1, <3>2
  <2> QED BY <2>2, <2>4, <2>5, <2>8 DEF Standing
<1>5. CASE Ignore
  <2>1. /\ InClosure /\ CallPopped /\ UNCHANGED <<firing, late>>
    BY <1>0, <1>5, ReturnEffect DEF Ignore
  <2>2. /\ Top.id \in Helpers /\ Depth \notin firing /\ Depth \in DOMAIN stack
        /\ Top = stack[Depth] /\ Depth # 0
    BY <1>0, <2>1, TheClosure DEF Top, Depth
  <2>3. FiringCalls'
    BY <2>1, <2>2 DEF FiringCalls, CallPopped
  <2>4. \A id \in Helpers' : id \in Helpers
    <3>1. ~ \E kind \in Kinds : DoOn(kind)
      BY <2>1 DEF DoOn
    <3> QED BY <3>1, CellChanges DEF CellNew
  <2>5. ASSUME NEW j \in DOMAIN late, NEW id, NEW e, CallAt(stack, late[j], id, e),
               id \notin Helpers \/ late[j] \in firing
        PROVE  late[j] # Depth
    BY <2>2, <2>5 DEF CallAt
  <2>6. LateCalls'
    <3> SUFFICES ASSUME NEW j \in DOMAIN late', late'[j] # 0
                 PROVE  \E id, e : /\ CallAt(stack', late'[j], id, e)
                                   /\ id \notin Helpers' \/ late'[j] \in firing'
      BY DEF LateCalls
    <3>1. PICK id, e : /\ CallAt(stack, late[j], id, e)
                       /\ id \notin Helpers \/ late[j] \in firing
      BY <2>1 DEF CellsInv, LateCalls
    <3>2. CallAt(stack', late[j], id, e)
      BY <2>1, <2>5, <3>1 DEF CallPopped
    <3> QED BY <2>1, <2>4, <3>1, <3>2
  <2>7. LateOrdered'
    BY <2>1 DEF CellsInv, LateOrdered
  <2> QED BY <1>0, <2>1, <2>3, <2>6, <2>7 DEF Standing
<1>6. CASE Fire
  <2>1. /\ InClosure /\ firing' = firing \cup {Depth} /\ UNCHANGED <<stack, late>>
    BY <1>6 DEF Fire
  <2>2. CallAt(stack, Depth, Top.id, Top.event)
    BY <2>1, TheClosure
  <2>3. FiringCalls'
    BY <2>1, <2>2 DEF FiringCalls
  <2>4. \A id \in Helpers' : id \in Helpers
    <3>1. ~ \E kind \in Kinds : DoOn(kind)
      BY <2>1 DEF DoOn
    <3> QED BY <3>1, CellChanges DEF CellNew
  <2>5. LateCalls'
    BY <2>1, <2>4 DEF CellsInv, LateCalls
  <2>6. LateOrdered'
    BY <2>1 DEF CellsInv, LateOrdered
  <2> QED BY <1>0, <2>1, <2>3, <2>5, <2>6 DEF Standing
<1>7. CASE UserReturn
  <2>1. /\ ~ InLate /\ CallPopped /\ UNCHANGED <<late, helper>>
        /\ firing' = firing \ {Depth}
    BY <1>0, <1>7, ReturnEffect DEF UserReturn
  <2>2. Helpers' = Helpers
    BY <2>1 DEF Helpers
  <2>3. FiringCalls'
    BY <2>1 DEF FiringCalls, CallPopped
  <2>4. ASSUME NEW j \in DOMAIN late PROVE late[j] # Depth
    <3>1. Len(late) \in DOMAIN late /\ late # <<>>
      BY <1>0, EmptySeq
    <3>2. late[j] <= late[Len(late)]
      <4>1. CASE j = Len(late)
        BY <1>0, <4>1
      <4>2. CASE j < Len(late)
        BY <3>1, <4>2 DEF CellsInv, LateOrdered
      <4> QED BY <1>0, <4>1, <4>2
    <3>3. late[Len(late)] # Depth
      BY <2>1, <3>1 DEF InLate
    <3>4. late[j] \in 0 .. Depth /\ late[Len(late)] \in 0 .. Depth
      BY <1>0, <3>1
    <3> QED BY <1>0, <3>2, <3>3, <3>4
  <2>5. LateCalls'
    <3> SUFFICES ASSUME NEW j \in DOMAIN late', late'[j] # 0
                 PROVE  \E id, e : /\ CallAt(stack', late'[j], id, e)
                                   /\ id \notin Helpers' \/ late'[j] \in firing'
      BY DEF LateCalls
    <3>1. PICK id, e : /\ CallAt(stack, late[j], id, e)
                       /\ id \notin Helpers \/ late[j] \in firing
      BY <2>1 DEF CellsInv, LateCalls
    <3>2. late[j] # Depth
      BY <2>1, <2>4
    <3> QED BY <2>1, <2>2, <3>1, <3>2 DEF CallPopped
  <2>6. LateOrdered'
    BY <2>1 DEF CellsInv, LateOrdered
  <2> QED BY <1>0, <2>1, <2>3, <2>5, <2>6 DEF Standing
<1> QED BY <1>2, <1>3, <1>4, <1>5, <1>6, <1>7 DEF AnyStep
LEMMA SeqWithin ==
  ASSUME NEW S, NEW T, NEW s \in Seq(S), \A j \in DOMAIN s : s[j] \in T
  PROVE  s \in Seq(T)
<1>1. PICK n \in Nat : s \in [1 .. n -> S]
  BY SeqDef
<1>2. s \in [1 .. n -> T]
  BY <1>1
<1> QED BY <1>2, SeqDef

LEMMA StillBelow ==
  ASSUME NEW n \in Nat, NEW m \in {n, n + 1}, NEW x \in 0 .. n - 1
  PROVE  x \in 0 .. m - 1
<1>1. m = n \/ m = n + 1
  OBVIOUS
<1> QED BY <1>1

(* fires records the calls of user code, which only Fire makes. *)
LEMMA FiresChange ==
  ASSUME CellsInv, AnyStep
  PROVE  UNCHANGED fires \/ Fire
BY DEF AnyStep, Plain, helperVars, DoOn, DoOnDestroyLate, SubscribeInert, Ignore, Arm,
       UserReturn

(* A helper whose subscribe has returned to on_transition knows its id. *)
LEMMA ArmedStep ==
  ASSUME CellsInv, AnyStep
  PROVE  Armed'
<1>0. /\ TypeOK /\ nextId \in Nat
      /\ Helpers \subseteq 0 .. nextId - 1 /\ state \in States
      /\ \A id \in Helpers : helper[id].armed \in BOOLEAN
  BY DEF CellsInv, RegistryInv, HelperTypeOK, TypeOK
<1>1. /\ \A id \in Helpers : CellKept(id)
      /\ \A id \in Helpers' : id \in Helpers \/ CellNew(id)
  BY CellChanges
<1>2. ASSUME NEW id \in Helpers, ~ (Arm /\ id = Top.id)
      PROVE  helper'[id].armed <=> \A i : ~ SubAt(stack', i, id)
  <2>1. \A i : SubAt(stack', i, id) <=> SubAt(stack, i, id)
    BY <1>2, HelperUntouched DEF AnyStep, Untouched
  <2>2. helper'[id].armed = helper[id].armed
    BY <1>1, <1>2 DEF CellKept
  <2> QED BY <2>1, <2>2 DEF CellsInv, Armed
<1>3. ASSUME NEW id \in Helpers, Arm, id = Top.id
      PROVE  helper'[id].armed <=> \A i : ~ SubAt(stack', i, id)
  <2>1. SubPopped /\ SubAt(stack, Depth, id)
    BY <1>3, TheHelper
  <2>2. \A i : SubAt(stack, i, id) => i = Depth
    BY <2>1 DEF CellsInv, Apart
  <2>3. \A i : ~ SubAt(stack', i, id)
    BY <2>1, <2>2 DEF SubPopped
  <2>4. helper'[id].armed = TRUE
    BY <1>1, <1>3 DEF CellKept
  <2> QED BY <2>3, <2>4
<1>4. ASSUME NEW id, CellNew(id)
      PROVE  helper'[id].armed <=> \A i : ~ SubAt(stack', i, id)
  <2>1. PICK kind \in Kinds : DoOn(kind) /\ id = nextId /\ helper'[id] = Cells(kind)
    BY <1>4 DEF CellNew
  <2>2. ~ helper'[id].armed
    BY <1>0, <2>1, CellsType, KindsAssumption
  <2>3. SubPushed(nextId)
    BY <1>0, <2>1, SubscribeEffect DEF DoOn
  <2>4. SubAt(stack', Depth + 1, id)
    BY <2>1, <2>3 DEF SubPushed
  <2> QED BY <2>2, <2>4
<1> QED BY <1>1, <1>2, <1>3, <1>4 DEF Armed

LEMMA FromKindsStep ==
  ASSUME CellsInv, AnyStep
  PROVE  FromKinds'
<1>1. ASSUME NEW id, CellNew(id)
      PROVE  <<helper'[id].from, helper'[id].to, helper'[id].once>> \in AllKinds
  <2>1. PICK kind \in Kinds : helper'[id] = Cells(kind)
    BY <1>1 DEF CellNew
  <2>2. kind \in AllKinds /\ state \in States
    BY KindsAssumption DEF CellsInv, RegistryInv, TypeOK
  <2>3. <<Cells(kind).from, Cells(kind).to, Cells(kind).once>> = kind
    BY <2>2, CellsType
  <2> QED BY <2>1, <2>2, <2>3
<1>2. ASSUME NEW id \in Helpers
      PROVE  <<helper'[id].from, helper'[id].to, helper'[id].once>> \in AllKinds
  <2>1. CellKept(id)
    BY CellChanges
  <2> QED BY <2>1 DEF CellKept, CellsInv, FromKinds
<1>3. \A id \in Helpers' : id \in Helpers \/ CellNew(id)
  BY CellChanges
<1> QED BY <1>1, <1>2, <1>3 DEF FromKinds

LEMMA HelperTypeStep ==
  ASSUME CellsInv, AnyStep, RegistryInv', Standing', late' \in Seq(Nat),
         nextId' \in {nextId, nextId + 1}
  PROVE  HelperTypeOK'
<1>0. /\ nextId \in Nat /\ nextId' \in Nat /\ fires \in Seq(Helpers)
      /\ Helpers \subseteq 0 .. nextId - 1
      /\ stack' \in Seq(Frames)
  BY DEF CellsInv, RegistryInv, TypeOK, HelperTypeOK
<1>1. /\ helper' \in [Helpers' -> Cell]
      /\ \A id \in Helpers : CellKept(id)
      /\ \A id \in Helpers' : id \in Helpers \/ CellNew(id)
  BY CellChanges
<1>2. Helpers \subseteq Helpers'
  BY <1>1 DEF CellKept
<1>3. Helpers' \subseteq 0 .. nextId' - 1
  <2> SUFFICES ASSUME NEW id \in Helpers' PROVE id \in 0 .. nextId' - 1
    OBVIOUS
  <2>1. CASE id \in Helpers
    BY <1>0, <2>1, StillBelow
  <2>2. CASE CellNew(id)
    <3>1. id = nextId /\ nextId' = nextId + 1
      BY <2>2 DEF CellNew, DoOn, Subscribe
    <3> QED BY <1>0, <3>1
  <2> QED BY <1>1, <2>1, <2>2
<1>4. fires' \in Seq(Helpers')
  <2>1. fires \in Seq(Helpers')
    BY <1>0, <1>2, SeqMonotonic
  <2>2. CASE Fire
    <3>1. Top.id \in Helpers' /\ fires' = Append(fires, Top.id)
      BY <1>2, <2>2, TheClosure DEF Fire
    <3> QED BY <2>1, <3>1, AppendProperties
  <2> QED BY <2>1, <2>2, FiresChange
<1>5. firing' \subseteq {i \in DOMAIN stack' : stack'[i].op = "callback"}
  BY DEF Standing, FiringCalls, CallAt
<1>6. late' \in Seq(0 .. Depth')
  <2>1. /\ Len(late') \in Nat /\ DOMAIN late' = 1 .. Len(late')
        /\ DOMAIN stack' = 1 .. Depth' /\ Depth' \in Nat
    BY <1>0, LenProperties DEF Depth
  <2>2. ASSUME NEW j \in DOMAIN late' PROVE late'[j] \in 0 .. Depth'
    <3>1. late'[j] = 0 \/ late'[j] \in DOMAIN stack'
      BY DEF Standing, LateCalls, CallAt
    <3> QED BY <2>1, <3>1
  <2> QED BY <2>2, SeqWithin
<1> QED BY <1>1, <1>3, <1>4, <1>5, <1>6 DEF HelperTypeOK, Cell

(* The invariant of the helpers' cells and of the frames they stand on. *)
LEMMA CellsStep ==
  ASSUME CellsInv, [HelperNext]_allVars
  PROVE  CellsInv'
<1>1. AnyStep
  BY HelperSteps DEF AnyStep, CellsInv, RegistryInv, NotifyInv
<1>2. [Next]_vars \/ Releases
  BY HelperRegistry
<1>3. RegistryInv' /\ StackHonest'
  BY <1>2, HonestRegistryStep, ReleaseStep DEF CellsInv
<1>4. Apart' /\ CallsGiven' /\ nextId' \in {nextId, nextId + 1}
  BY <1>2, FramesStep, CallsChange DEF CellsInv
<1>5. Standing' /\ late' \in Seq(Nat)
  <2>1. FiringCalls
    BY DEF CellsInv, HelperTypeOK, FiringCalls, CallAt
  <2> QED BY <1>1, <2>1, StandingStep
<1>6. HelperTypeOK'
  BY <1>1, <1>3, <1>4, <1>5, HelperTypeStep
<1>7. FromKinds' /\ Armed'
  BY <1>1, FromKindsStep, ArmedStep
<1> QED BY <1>3, <1>4, <1>5, <1>6, <1>7 DEF CellsInv, Standing

LEMMA CellsInit == HelperInit => CellsInv
<1> SUFFICES ASSUME HelperInit PROVE CellsInv
  OBVIOUS
<1>1. /\ Init /\ stack = <<>> /\ log = <<>> /\ deliveries = <<>> /\ nextId = 0
      /\ helper = <<>> /\ fires = <<>> /\ firing = {} /\ late = <<>>
  BY DEF HelperInit, Init
<1>2. DOMAIN stack = {} /\ DOMAIN log = {} /\ DOMAIN deliveries = {}
      /\ DOMAIN late = {} /\ Helpers = {}
  BY <1>1 DEF Helpers
<1>3. TypeOK /\ NotifyInv
  BY <1>1, NotifyInvInit, EmptySeq DEF Init, TypeOK, States, Results
<1>4. DestroyLeavesFromCreated
  BY <1>1, EmptySeq DEF DestroyLeavesFromCreated, On
<1>5. IdsGiven /\ LogInv
  BY <1>1, <1>2 DEF IdsGiven, LogInv
<1>6. StackHonest
  BY <1>1, EmptySeq DEF StackHonest
<1>7. HelperTypeOK
  BY <1>1, <1>2, EmptySeq DEF HelperTypeOK, Helpers
<1>8. FromKinds /\ Apart /\ CallsGiven /\ Armed /\ LateOrdered /\ LateCalls
  BY <1>2 DEF FromKinds, Apart, CallsGiven, Armed, LateOrdered, LateCalls, SubAt, CallAt
<1> QED BY <1>3, <1>4, <1>5, <1>6, <1>7, <1>8 DEF CellsInv, RegistryInv

LEMMA CellsHold == HelperSpec => []CellsInv
<1>1. CellsInv /\ [HelperNext]_allVars => CellsInv'
  BY CellsStep
<1> QED BY <1>1, CellsInit, PTL DEF HelperSpec

(* The helpers' cells are of their types, a closure that has fired stands  *)
(* on the stack until its user code returns, and so does the caller of a   *)
(* late do_on_destroy.  (registry.rs 287-375, 401-421)                     *)
THEOREM HelperTypes == HelperSpec => []HelperTypeOK
<1>1. CellsInv => HelperTypeOK
  BY DEF CellsInv
<1> QED BY <1>1, CellsHold, PTL
-----------------------------------------------------------------------------
(* The calls of user code, by helper. *)
FiredAt(k, id) == k \in DOMAIN fires /\ fires[k] = id

FiresSame(id) == \A k : FiredAt(k, id)' <=> FiredAt(k, id)

FiresOnce(id) == \A k : FiredAt(k, id)' <=> FiredAt(k, id) \/ k = Len(fires) + 1

LEMMA FiredStep ==
  ASSUME CellsInv, AnyStep, NEW id
  PROVE  /\ Fire /\ id = Top.id => FiresOnce(id)
         /\ ~ (Fire /\ id = Top.id) => FiresSame(id)
<1>1. CASE UNCHANGED fires /\ ~ Fire
  BY <1>1 DEF FiresSame, FiredAt
<1>2. CASE Fire
  <2>1. fires \in Seq(Helpers) /\ Top.id \in Helpers /\ fires' = Append(fires, Top.id)
    BY <1>2, TheClosure DEF CellsInv, HelperTypeOK, Fire
  <2>2. /\ Len(fires) \in Nat /\ DOMAIN fires = 1 .. Len(fires)
        /\ DOMAIN fires' = 1 .. Len(fires) + 1
        /\ \A k \in 1 .. Len(fires) : fires'[k] = fires[k]
        /\ fires'[Len(fires) + 1] = Top.id
    BY <2>1, AppendProperties, LenProperties
  <2>3. /\ \A k : k \in DOMAIN fires' <=> k \in DOMAIN fires \/ k = Len(fires) + 1
        /\ Len(fires) + 1 \notin DOMAIN fires
    BY <2>2
  <2> QED BY <1>2, <2>2, <2>3 DEF FiresOnce, FiresSame, FiredAt
<1> QED BY <1>1, <1>2, FiresChange

LEMMA FiredByHelpers ==
  ASSUME CellsInv, NEW id, NEW k, FiredAt(k, id)
  PROVE  id \in Helpers /\ k \in Nat /\ id < nextId
<1>1. fires \in Seq(Helpers) /\ Helpers \subseteq 0 .. nextId - 1 /\ nextId \in Nat
  BY DEF CellsInv, HelperTypeOK, RegistryInv, TypeOK
<1>2. id \in Helpers /\ k \in Nat
  BY <1>1, LenProperties, ElementOfSeq DEF FiredAt
<1> QED BY <1>1, <1>2

(* What is known of a helper just created. *)
LEMMA TheNewHelper ==
  ASSUME CellsInv, AnyStep, NEW id, CellNew(id)
  PROVE  /\ \A k : ~ FiredAt(k, id)'
         /\ ~ helper'[id].fired
         /\ id = nextId /\ Subscribe
<1>1. PICK kind \in Kinds : DoOn(kind) /\ id = nextId /\ helper'[id] = Cells(kind)
  BY DEF CellNew
<1>2. ~ helper'[id].fired
  <2>1. kind \in AllKinds /\ state \in States
    BY KindsAssumption DEF CellsInv, RegistryInv, TypeOK
  <2> QED BY <1>1, <2>1, CellsType
<1>3. \A k : ~ FiredAt(k, id)
  BY <1>1, FiredByHelpers DEF CellsInv, RegistryInv, TypeOK
<1>4. UNCHANGED fires
  BY <1>1 DEF DoOn
<1> QED BY <1>1, <1>2, <1>3, <1>4 DEF FiredAt, DoOn

-----------------------------------------------------------------------------
(* A one-shot has fired when its cell says so, once, and is subscribed no  *)
(* more when on_transition knows its id.                                   *)
OneShot(id) ==
  /\ \A k : FiredAt(k, id) => helper[id].fired
  /\ \A j, k : FiredAt(j, id) /\ FiredAt(k, id) => j = k
  /\ helper[id].fired /\ (\A i : ~ SubAt(stack, i, id)) => ~ Observes(id)

OneShots == \A id \in Helpers : helper[id].once => OneShot(id)

LEMMA OneShotStep ==
  ASSUME CellsInv, OneShots, AnyStep
  PROVE  OneShots'
<1>0. TypeOK /\ Sorted /\ FromKinds /\ Armed
      /\ \A id \in Helpers : helper[id].armed \in BOOLEAN /\ helper[id].fired \in BOOLEAN
  BY DEF CellsInv, RegistryInv, NotifyInv, HelperTypeOK
<1>1. /\ \A id \in Helpers : CellKept(id)
      /\ \A id \in Helpers' : id \in Helpers \/ CellNew(id)
  BY CellChanges
<1>2. ASSUME NEW id \in Helpers, helper[id].once, Fire, id = Top.id
      PROVE  OneShot(id)'
  <2>1. OneShot(id)
    BY <1>2 DEF OneShots
  <2>2. helper[id].to # "Destroyed"
    BY <1>0, <1>2 DEF FromKinds, AllKinds, DoOnCreate, DoOnDestroy, DoOnStart, DoOnResume,
                      DoOnPause, DoOnStop
  <2>3. ~ helper[id].fired
    BY <1>2, <2>2 DEF Fire, Recognises
  <2>4. \A k : FiredAt(k, id)' <=> k = Len(fires) + 1
    BY <1>2, <2>1, <2>3, FiredStep DEF FiresOnce, OneShot
  <2>5. helper'[id].fired = TRUE
    BY <1>1, <1>2 DEF CellKept
  <2>6. (\A i : ~ SubAt(stack', i, id)) => ~ Observes(id)'
    <3>1. UNCHANGED stack
      BY <1>2 DEF Fire
    <3>2. CASE helper[id].armed
      <4>1. observers' = Without(id)
        BY <1>2, <3>2 DEF Fire
      <4> QED BY <1>0, <4>1, WithoutDrops
    <3>3. CASE ~ helper[id].armed
      BY <1>0, <3>1, <3>3 DEF Armed
    <3> QED BY <3>2, <3>3
  <2> QED BY <2>4, <2>5, <2>6 DEF OneShot
<1>3. ASSUME NEW id \in Helpers, helper[id].once, ~ (Fire /\ id = Top.id)
      PROVE  OneShot(id)'
  <2>1. OneShot(id)
    BY <1>3 DEF OneShots
  <2>2. FiresSame(id)
    BY <1>3, FiredStep
  <2>3. helper'[id].fired = helper[id].fired
    BY <1>1, <1>3 DEF CellKept
  <2>4. helper[id].fired /\ (\A i : ~ SubAt(stack', i, id)) => ~ Observes(id)'
    <3>1. CASE ~ (Arm /\ id = Top.id)
      <4>1. Untouched(id)
        BY <3>1, HelperUntouched DEF AnyStep
      <4> QED BY <2>1, <4>1 DEF Untouched, OneShot
    <3>2. CASE Arm /\ id = Top.id
      <4>1. helper[id].fired => observers' = Without(id)
        BY <1>3, <3>2 DEF Arm
      <4> QED BY <1>0, <4>1, WithoutDrops
    <3> QED BY <3>1, <3>2
  <2> QED BY <2>1, <2>2, <2>3, <2>4 DEF OneShot, FiresSame
<1>4. ASSUME NEW id, CellNew(id) PROVE OneShot(id)'
  BY <1>4, TheNewHelper DEF OneShot
<1>5. \A id \in Helpers : helper'[id].once = helper[id].once
  BY <1>1 DEF CellKept
<1> QED BY <1>1, <1>2, <1>3, <1>4, <1>5 DEF OneShots

LEMMA OneShotsHold == HelperSpec => []OneShots
<1>1. HelperInit => OneShots
  BY DEF HelperInit, OneShots, Helpers
<1>2. CellsInv /\ OneShots /\ [HelperNext]_allVars => OneShots'
  BY OneShotStep, HelperSteps DEF AnyStep, CellsInv, RegistryInv, NotifyInv
<1> QED BY <1>1, <1>2, CellsHold, PTL DEF HelperSpec

(* The calls of a helper are none or one. *)
LEMMA CountFires ==
  ASSUME CellsInv, NEW id, \A j, k : FiredAt(j, id) /\ FiredAt(k, id) => j = k
  PROVE  /\ (\E k : FiredAt(k, id)) => Fires(id) = 1
         /\ ~ (\E k : FiredAt(k, id)) => Fires(id) = 0
<1>1. ASSUME NEW k, FiredAt(k, id) PROVE Fires(id) = 1
  <2>1. {j \in DOMAIN fires : fires[j] = id} = {k}
    BY <1>1 DEF FiredAt
  <2> QED BY <2>1, FS_Singleton DEF Fires
<1>2. CASE ~ \E k : FiredAt(k, id)
  <2>1. {j \in DOMAIN fires : fires[j] = id} = {}
    BY <1>2 DEF FiredAt
  <2> QED BY <1>2, <2>1, FS_EmptySet DEF Fires
<1> QED BY <1>1, <1>2

(* A one-shot helper fires at most once, and one that has fired is not     *)
(* subscribed any more once the call that created it has returned: a       *)
(* closure that fires in the replay leaves that to on_transition, which    *)
(* knows the id when subscribe returns.  (registry.rs 404-408, 413-421)    *)
THEOREM OneShotsFireOnce == HelperSpec => []OneShotFiresOnce
<1>1. ASSUME CellsInv, OneShots PROVE OneShotFiresOnce
  <2> SUFFICES ASSUME NEW id \in Helpers, helper[id].once
               PROVE  /\ Fires(id) <= 1
                      /\ Fires(id) = 1 /\ ~ Subscribing(id) =>
                           \A i \in DOMAIN observers : observers[i] # id
    BY DEF OneShotFiresOnce
  <2>1. OneShot(id)
    BY <1>1 DEF OneShots
  <2>2. /\ (\E k : FiredAt(k, id)) => Fires(id) = 1
        /\ ~ (\E k : FiredAt(k, id)) => Fires(id) = 0
    BY <1>1, <2>1, CountFires DEF OneShot
  <2>3. Fires(id) = 1 => helper[id].fired
    BY <2>1, <2>2 DEF OneShot
  <2>4. ~ Subscribing(id) => \A i : ~ SubAt(stack, i, id)
    BY DEF Subscribing, SubAt
  <2>5. Fires(id) = 1 /\ ~ Subscribing(id) => ~ Observes(id)
    BY <2>1, <2>3, <2>4 DEF OneShot
  <2> QED BY <2>2, <2>5 DEF Observes
<1> QED BY <1>1, CellsHold, OneShotsHold, PTL
-----------------------------------------------------------------------------
(* The end of the registry: there is one transition to Destroyed, the last *)
(* one, and it is what the calls that say Destroyed are made for.          *)
Ends ==
  /\ \A n \in DOMAIN log : log[n].to = "Destroyed" => n = Len(log)
  /\ \A k \in DOMAIN deliveries :
       deliveries[k].event = "Destroyed" => deliveries[k].n > 0
  /\ \A k \in DOMAIN deliveries : deliveries[k].n > 0 =>
       /\ deliveries[k].n \in DOMAIN log
       /\ deliveries[k].event = log[deliveries[k].n].to

(* A notification is of a transition, a replay never of Destroyed. *)
LEMMA CalledWhat ==
  ASSUME RegistryInv, StackHonest, NEW f, NEW g, NEW top, NEW d,
         NotifyEffect(f, g, top, d) \/ ReplayEffect(f, g, top, d)
  PROVE  /\ d.event = "Destroyed" => d.n > 0
         /\ d.n > 0 => /\ NotifyEffect(f, g, top, d)
                       /\ d.n \in DOMAIN log /\ d.event = log[d.n].to
<1>0. /\ top \in DOMAIN stack /\ stack[top] = f /\ f = Top /\ stack # <<>>
      /\ log \in Seq([from : States, to : States, registered : SUBSET Nat])
      /\ DOMAIN log = 1 .. Len(log) /\ Len(log) \in Nat
  <2>1. /\ top \in DOMAIN stack /\ stack[top] = f /\ f = Top
        /\ log \in Seq([from : States, to : States, registered : SUBSET Nat])
    BY DEF RegistryInv, TypeOK, NotifyEffect, ReplayEffect, CallsOne
  <2> QED BY <2>1, LenProperties
<1>1. CASE NotifyEffect(f, g, top, d)
  <2>1. f.op = "apply" /\ d.n = f.n /\ d.event = f.event
    BY <1>1 DEF NotifyEffect
  <2>2. f.n \in DOMAIN log /\ f.event = log[f.n].to
    BY <1>0, <2>1 DEF RegistryInv, NotifyInv, FramesDue, Due, LogInv
  <2>3. f.n > 0
    BY <1>0, <2>2
  <2> QED BY <1>1, <2>1, <2>2, <2>3
<1>2. CASE ReplayEffect(f, g, top, d)
  <2>1. f.op = "subscribe" /\ d.n = 0 /\ d.event = Head(f.todo) /\ f.todo # <<>>
    BY <1>2 DEF ReplayEffect
  <2>2. f \in Honest(state)
    BY <1>0, HonestTop
  <2>3. f.todo \in Seq(States \ {"Destroyed"})
    BY <2>1, <2>2 DEF Honest
  <2>4. d.event # "Destroyed"
    BY <2>1, <2>3, HeadTail
  <2> QED BY <2>1, <2>4
<1> QED BY <1>1, <1>2

LEMMA EndsStep ==
  ASSUME RegistryInv, StackHonest, Ends, [Next]_vars \/ Releases
  PROVE  Ends'
<1>0. /\ TypeOK /\ LogInv
      /\ log \in Seq([from : States, to : States, registered : SUBSET Nat])
      /\ DOMAIN log = 1 .. Len(log) /\ Len(log) \in Nat
      /\ DOMAIN deliveries = 1 .. Len(deliveries) /\ Len(deliveries) \in Nat
  <2>1. /\ TypeOK /\ LogInv
        /\ log \in Seq([from : States, to : States, registered : SUBSET Nat])
        /\ deliveries \in Seq([id : Nat, event : States, n : Nat])
    BY DEF RegistryInv, TypeOK
  <2> QED BY <2>1, LenProperties
<1>1. CASE UNCHANGED <<log, deliveries>>
  BY <1>1 DEF Ends
<1>2. CASE Applies
  <2>1. PICK next \in States, below \in Seq(Frames) : Apply(next, below)
    BY <1>2 DEF Applies
  <2>2. PICK t : log' = Append(log, t)
                 /\ t \in [from : States, to : States, registered : SUBSET Nat]
    <3> DEFINE t == [from |-> state, to |-> next,
                     registered |-> {observers[i] : i \in DOMAIN observers}]
    <3>1. t \in [from : States, to : States, registered : SUBSET Nat]
      BY <1>0, LenProperties, ElementOfSeq DEF TypeOK
    <3>2. log' = Append(log, t)
      BY <2>1 DEF Apply
    <3> QED BY <3>1, <3>2
  <2>3. /\ Len(log') = Len(log) + 1 /\ DOMAIN log' = 1 .. Len(log) + 1
        /\ \A n \in DOMAIN log : log'[n] = log[n]
    BY <1>0, <2>2, AppendProperties, LenProperties
  <2>4. /\ \A n \in DOMAIN log' : n \in DOMAIN log \/ n = Len(log) + 1
        /\ \A n \in DOMAIN log : n \in DOMAIN log'
    BY <1>0, <2>3
  <2>5. \A n \in DOMAIN log : log[n].to # "Destroyed"
    BY <1>0, <2>1 DEF LogInv, Apply
  <2>6. UNCHANGED deliveries
    BY <2>1 DEF Apply
  <2>7. \A n \in DOMAIN log' : log'[n].to = "Destroyed" => n = Len(log')
    BY <2>3, <2>4, <2>5
  <2> QED BY <2>3, <2>4, <2>6, <2>7 DEF Ends
<1>3. CASE Notify \/ Replay
  <2>1. PICK f, g, top, d : NotifyEffect(f, g, top, d) \/ ReplayEffect(f, g, top, d)
    BY <1>0, <1>3, NotifyDoes, ReplayDoes
  <2>2. /\ d \in [id : Nat, event : States, n : Nat]
        /\ deliveries' = Append(deliveries, d) /\ UNCHANGED log
    BY <2>1 DEF NotifyEffect, ReplayEffect, CallsOne
  <2>3. /\ \A k \in DOMAIN deliveries' : k \in DOMAIN deliveries \/ k = Len(deliveries) + 1
        /\ \A k \in DOMAIN deliveries : deliveries'[k] = deliveries[k]
        /\ deliveries'[Len(deliveries) + 1] = d
    <3>1. LET last == Len(deliveries) + 1 IN
            /\ DOMAIN deliveries' = 1 .. last /\ deliveries'[last] = d
            /\ \A k \in DOMAIN deliveries : deliveries'[k] = deliveries[k]
      BY <1>0, <2>2, Delivered
    <3> QED BY <1>0, <3>1
  <2>4. /\ d.event = "Destroyed" => d.n > 0
        /\ d.n > 0 => d.n \in DOMAIN log /\ d.event = log[d.n].to
    BY <2>1, CalledWhat
  <2>5. \A k \in DOMAIN deliveries' :
          deliveries'[k].event = "Destroyed" => deliveries'[k].n > 0
    BY <2>3, <2>4 DEF Ends
  <2>6. \A k \in DOMAIN deliveries' : deliveries'[k].n > 0 =>
          /\ deliveries'[k].n \in DOMAIN log
          /\ deliveries'[k].event = log[deliveries'[k].n].to
    BY <2>3, <2>4 DEF Ends
  <2> QED BY <2>2, <2>5, <2>6 DEF Ends
<1>4. CASE Releases
  BY <1>1, <1>4 DEF Releases, Return
<1> QED BY <1>0, <1>1, <1>2, <1>3, <1>4, TellKinds DEF Silent, Subscribe

LEMMA DestroyedStays ==
  ASSUME TypeOK, [Next]_vars \/ Releases, state = "Destroyed"
  PROVE  state' = "Destroyed"
BY TellKinds DEF Silent, Applies, Apply, Subscribe, Notify, Replay, Releases, Return
-----------------------------------------------------------------------------
(* What a helper has to do with the end: it was told of it, its closure is *)
(* called for it and has not yet looked, or has fired.                     *)
ToldEnd(id) ==
  \E k \in DOMAIN deliveries :
    deliveries[k].id = id /\ deliveries[k].event = "Destroyed"

PendingAt(i, id) == CallAt(stack, i, id, "Destroyed") /\ i \notin firing

(* A step tells it of the end, lets its closure fire for the end, or does  *)
(* neither.                                                                *)
TellsEnd(id) ==
  /\ ToldEnd(id)' /\ ~ ToldEnd(id)
  /\ \A i : PendingAt(i, id)' <=> PendingAt(i, id) \/ i = Depth + 1

EndsNothing(id) ==
  /\ ToldEnd(id)' <=> ToldEnd(id)
  /\ \A i : PendingAt(i, id)' <=> PendingAt(i, id)

FiresEnd(id) ==
  /\ ToldEnd(id)' <=> ToldEnd(id)
  /\ PendingAt(Depth, id)
  /\ \A i : PendingAt(i, id)' <=> PendingAt(i, id) /\ i # Depth

(* Nobody is told of the end twice: one notification is made for it, in    *)
(* which each observer has its turn once.                                  *)
LEMMA EndToldOnce ==
  ASSUME RegistryInv, StackHonest, Ends, NEW f, NEW g, NEW top, NEW d,
         NotifyEffect(f, g, top, d) \/ ReplayEffect(f, g, top, d),
         d.event = "Destroyed"
  PROVE  ~ ToldEnd(d.id)
<1> SUFFICES ASSUME NEW k \in DOMAIN deliveries,
                    deliveries[k].id = d.id, deliveries[k].event = "Destroyed"
             PROVE  FALSE
  BY DEF ToldEnd
<1>1. NotifyEffect(f, g, top, d) /\ d.n \in DOMAIN log /\ log[d.n].to = "Destroyed"
  BY CalledWhat
<1>2. deliveries[k].n \in DOMAIN log /\ log[deliveries[k].n].to = "Destroyed"
  BY DEF Ends
<1>3. deliveries[k].n = d.n
  BY <1>1, <1>2 DEF Ends
<1>4. /\ top \in DOMAIN stack /\ stack[top] = f /\ f.op = "apply" /\ f.n = d.n
      /\ d.id \in ToCall(f) /\ d.id \in Nat
  BY <1>1 DEF NotifyEffect, CallsOne
<1>5. PICK a \in DOMAIN f.todo : f.todo[a] = d.id
  BY <1>4 DEF ToCall
<1>6. k \in CallsFor(f.n)
  BY <1>3, <1>4 DEF CallsFor
<1>7. Before(f.n, d.id, d.id)
  BY <1>4, <1>5, <1>6 DEF RegistryInv, NotifyInv, FramesDue, Due
<1> QED BY <1>4, <1>7 DEF Before

LEMMA ToldChange ==
  ASSUME TypeOK, NEW f, NEW g, NEW top, NEW d, CallsOne(f, g, top, d), NEW id
  PROVE  ToldEnd(id)' <=> ToldEnd(id) \/ (d.id = id /\ d.event = "Destroyed")
<1>1. /\ d \in [id : Nat, event : States, n : Nat]
      /\ deliveries' = Append(deliveries, d)
  BY DEF CallsOne
<1>2. PICK last : /\ DOMAIN deliveries' = 1 .. last /\ deliveries'[last] = d
                  /\ last \in Nat /\ last = Len(deliveries) + 1
                  /\ DOMAIN deliveries = 1 .. Len(deliveries)
                  /\ \A k \in DOMAIN deliveries : deliveries'[k] = deliveries[k]
  BY <1>1, Delivered
<1>3. \A k : k \in DOMAIN deliveries' <=> k \in DOMAIN deliveries \/ k = last
  <2>1. Len(deliveries) \in Nat
    BY LenProperties DEF TypeOK
  <2> QED BY <1>2, <2>1
<1> QED BY <1>2, <1>3 DEF ToldEnd

LEMMA EndChange ==
  ASSUME CellsInv, Ends, AnyStep, NEW id \in Helpers, helper[id].to = "Destroyed"
  PROVE  /\ Fire /\ id = Top.id => FiresEnd(id) /\ state = "Destroyed"
         /\ ~ (Fire /\ id = Top.id) => EndsNothing(id) \/ TellsEnd(id)
<1>0. /\ TypeOK /\ Sorted /\ RegistryInv /\ StackHonest
      /\ \A i \in firing : i \in DOMAIN stack
      /\ Depth \in Nat /\ DOMAIN stack = 1 .. Depth /\ Depth + 1 \notin firing
  <2>1. /\ TypeOK /\ Sorted /\ RegistryInv /\ StackHonest
        /\ \A i \in firing : i \in DOMAIN stack
    BY DEF CellsInv, RegistryInv, NotifyInv, HelperTypeOK
  <2>2. Depth \in Nat /\ DOMAIN stack = 1 .. Depth
    BY <2>1, LenProperties DEF TypeOK, Depth
  <2>3. Depth + 1 \notin DOMAIN stack
    BY <2>2
  <2> QED BY <2>1, <2>2, <2>3
<1>1. ASSUME CallsSame, UNCHANGED <<deliveries, firing>> PROVE EndsNothing(id)
  BY <1>1 DEF EndsNothing, ToldEnd, PendingAt, CallsSame
<1>2. CASE Plain \/ (\E kind \in Kinds : DoOn(kind)) \/ DoOnDestroyLate \/ SubscribeInert
             \/ Arm
  <2>1. UNCHANGED firing /\ ~ (Fire /\ id = Top.id)
    <3>1. Fire => Depth \in firing' /\ Depth \notin firing
      BY DEF Fire, InClosure
    <3>2. UNCHANGED firing
      BY <1>2 DEF Plain, helperVars, DoOn, DoOnDestroyLate, SubscribeInert, Arm
    <3> QED BY <3>1, <3>2
  <2>2. CASE Notify \/ Replay
    <3>1. PICK f, g, top, d :
             /\ NotifyEffect(f, g, top, d) \/ ReplayEffect(f, g, top, d)
             /\ SubsSame /\ CallPushed(d.id, d.event)
      BY <1>0, <2>2, CallsEffect
    <3>2. CallsOne(f, g, top, d)
      BY <3>1 DEF NotifyEffect, ReplayEffect
    <3>3. ToldEnd(id)' <=> ToldEnd(id) \/ (d.id = id /\ d.event = "Destroyed")
      BY <1>0, <3>2, ToldChange
    <3>4. CASE d.id = id /\ d.event = "Destroyed"
      <4>1. ~ ToldEnd(id)
        BY <1>0, <3>1, <3>4, EndToldOnce
      <4>2. \A i : PendingAt(i, id)' <=> PendingAt(i, id) \/ i = Depth + 1
        BY <1>0, <2>1, <3>1, <3>4 DEF PendingAt, CallPushed
      <4> QED BY <2>1, <3>3, <3>4, <4>1, <4>2 DEF TellsEnd
    <3>5. CASE ~ (d.id = id /\ d.event = "Destroyed")
      <4>1. \A i : PendingAt(i, id)' <=> PendingAt(i, id)
        BY <2>1, <3>1, <3>5 DEF PendingAt, CallPushed
      <4> QED BY <2>1, <3>3, <3>5, <4>1 DEF EndsNothing
    <3> QED BY <3>4, <3>5
  <2>3. CASE ~ (Notify \/ Replay)
    <3>1. CASE Settled
      BY <1>1, <2>1, <3>1 DEF Settled
    <3>2. CASE Subscribe \/ SubscribeDone \/ Arm
      <4>1. CallsSame /\ UNCHANGED deliveries
        BY <1>0, <3>2, SubscribeEffect, ReturnEffect DEF Subscribe, SubscribeDone, Arm, Return
      <4> QED BY <1>1, <2>1, <4>1
    <3>3. CASE DoOnDestroyLate
      <4>1. CallsSame /\ UNCHANGED deliveries
        BY <3>3, StackUntouched DEF DoOnDestroyLate, vars
      <4> QED BY <1>1, <2>1, <4>1
    <3> QED BY <1>2, <2>3, <3>1, <3>2, <3>3 DEF Plain, DoOn, SubscribeInert
  <2> QED BY <2>2, <2>3
<1>3. CASE Ignore
  <2>1. /\ InClosure /\ CallPopped /\ UNCHANGED <<firing, deliveries>>
        /\ ~ Recognises(helper[Top.id], Top.event)
    BY <1>0, <1>3, ReturnEffect DEF Ignore, CallbackReturn, Return
  <2>2. /\ CallAt(stack, Depth, Top.id, Top.event) /\ Depth \notin firing
    BY <2>1, TheClosure
  <2>3. ~ CallAt(stack, Depth, id, "Destroyed")
    BY <2>1, <2>2 DEF CallAt, Recognises
  <2>4. EndsNothing(id)
    BY <2>1, <2>3 DEF EndsNothing, ToldEnd, PendingAt, CallPopped
  <2>5. ~ Fire
    BY <2>1 DEF Fire
  <2> QED BY <2>4, <2>5
<1>4. CASE Fire
  <2>1. /\ InClosure /\ firing' = firing \cup {Depth} /\ UNCHANGED <<stack, deliveries>>
        /\ Recognises(helper[Top.id], Top.event)
    BY <1>4 DEF Fire
  <2>2. /\ CallAt(stack, Depth, Top.id, Top.event) /\ Depth \notin firing
        /\ stack # <<>> /\ Top.op = "callback"
    BY <2>1, TheClosure
  <2>3. ToldEnd(id)' <=> ToldEnd(id)
    BY <2>1 DEF ToldEnd
  <2>4. \A i : PendingAt(i, id)' <=> PendingAt(i, id) /\ i # Depth
    BY <2>1 DEF PendingAt
  <2>5. CASE id = Top.id
    <3>1. Top.event = "Destroyed"
      BY <2>1, <2>5 DEF Recognises
    <3>2. Top \in Honest(state)
      BY <1>0, <2>2, HonestTop
    <3>3. state = "Destroyed"
      BY <2>2, <3>1, <3>2 DEF Honest
    <3>4. PendingAt(Depth, id)
      BY <2>2, <2>5, <3>1 DEF PendingAt
    <3>5. FiresEnd(id)
      BY <2>3, <2>4, <3>4 DEF FiresEnd
    <3> QED BY <1>4, <2>5, <3>3, <3>5
  <2>6. CASE id # Top.id
    <3>1. ~ CallAt(stack, Depth, id, "Destroyed")
      BY <2>2, <2>6 DEF CallAt
    <3> QED BY <2>3, <2>4, <2>6, <3>1 DEF EndsNothing, PendingAt
  <2> QED BY <2>5, <2>6
<1>5. CASE UserReturn
  <2>1. /\ ~ InClosure /\ On("callback") /\ CallPopped /\ firing' = firing \ {Depth}
        /\ UNCHANGED deliveries
    BY <1>0, <1>5, ReturnEffect DEF UserReturn, CallbackReturn, Return
  <2>2. CallAt(stack, Depth, id, "Destroyed") => Depth \in firing
    <3>1. CallAt(stack, Depth, id, "Destroyed") => Top.id = id
      BY DEF CallAt, Top, Depth
    <3> QED BY <2>1, <3>1 DEF InClosure
  <2>3. EndsNothing(id)
    BY <2>1, <2>2 DEF EndsNothing, ToldEnd, PendingAt, CallPopped
  <2>4. ~ Fire
    BY <2>1 DEF Fire
  <2> QED BY <2>3, <2>4
<1> QED BY <1>2, <1>3, <1>4, <1>5 DEF AnyStep
(* A do_on_destroy fires for the end it was told of, once: between the two *)
(* its closure is on the stack.                                            *)
EndOf(id) ==
  /\ \A k : FiredAt(k, id) => state = "Destroyed"
  /\ \A j, k : FiredAt(j, id) /\ FiredAt(k, id) => j = k
  /\ \A i, j : PendingAt(i, id) /\ PendingAt(j, id) => i = j
  /\ \A i, k : ~ (PendingAt(i, id) /\ FiredAt(k, id))
  /\ ToldEnd(id) <=> (\E i : PendingAt(i, id)) \/ (\E k : FiredAt(k, id))

EndsOnce == \A id \in Helpers : helper[id].to = "Destroyed" => EndOf(id)

LEMMA EndsOnceStep ==
  ASSUME CellsInv, Ends, EndsOnce, AnyStep, [Next]_vars \/ Releases
  PROVE  EndsOnce'
<1>0. TypeOK /\ nextId \in Nat /\ CallsGiven /\ IdsGiven
  BY DEF CellsInv, RegistryInv, TypeOK
<1>1. /\ \A id \in Helpers : CellKept(id)
      /\ \A id \in Helpers' : id \in Helpers \/ CellNew(id)
  BY CellChanges
<1>2. state = "Destroyed" => state' = "Destroyed"
  BY <1>0, DestroyedStays
<1>3. ASSUME NEW id \in Helpers, helper[id].to = "Destroyed"
      PROVE  EndOf(id)'
  <2>1. EndOf(id)
    BY <1>3 DEF EndsOnce
  <2>2. CASE Fire /\ id = Top.id
    <3>1. FiresOnce(id) /\ FiresEnd(id) /\ state = "Destroyed"
      BY <1>3, <2>2, FiredStep, EndChange
    <3>2. /\ \A k : ~ FiredAt(k, id)
          /\ \A i : PendingAt(i, id) => i = Depth
          /\ ToldEnd(id)
      BY <2>1, <3>1 DEF EndOf, FiresEnd
    <3>3. \A k : FiredAt(k, id)' <=> k = Len(fires) + 1
      BY <3>1, <3>2 DEF FiresOnce
    <3>4. \A i : ~ PendingAt(i, id)'
      BY <3>1, <3>2 DEF FiresEnd
    <3>5. ToldEnd(id)'
      BY <3>1, <3>2 DEF FiresEnd
    <3> QED BY <1>2, <3>1, <3>3, <3>4, <3>5 DEF EndOf
  <2>3. CASE ~ (Fire /\ id = Top.id)
    <3>1. FiresSame(id)
      BY <2>3, FiredStep
    <3>2. CASE EndsNothing(id)
      BY <1>2, <2>1, <3>1, <3>2 DEF EndOf, EndsNothing, FiresSame
    <3>3. CASE TellsEnd(id)
      <4>1. /\ \A k : ~ FiredAt(k, id)
            /\ \A i : ~ PendingAt(i, id)
        BY <2>1, <3>3 DEF EndOf, TellsEnd
      <4>2. /\ \A k : ~ FiredAt(k, id)'
            /\ \A i : PendingAt(i, id)' <=> i = Depth + 1
            /\ ToldEnd(id)'
        BY <3>1, <3>3, <4>1 DEF TellsEnd, FiresSame
      <4> QED BY <4>2 DEF EndOf
    <3> QED BY <1>3, <2>3, <3>2, <3>3, EndChange
  <2> QED BY <2>2, <2>3
<1>4. ASSUME NEW id, CellNew(id) PROVE EndOf(id)'
  <2>1. (\A k : ~ FiredAt(k, id)') /\ id = nextId /\ Subscribe /\ UNCHANGED firing
    BY <1>4, TheNewHelper DEF CellNew, DoOn
  <2>2. CallsSame /\ UNCHANGED deliveries
    BY <1>0, <2>1, SubscribeEffect DEF Subscribe
  <2>3. \A i : ~ PendingAt(i, id)'
    BY <1>0, <2>1, <2>2 DEF PendingAt, CallsSame, CallsGiven
  <2>4. ~ ToldEnd(id)'
    BY <1>0, <2>1, <2>2 DEF ToldEnd, IdsGiven
  <2> QED BY <2>1, <2>3, <2>4 DEF EndOf
<1>5. \A id \in Helpers : helper'[id].to = helper[id].to
  BY <1>1 DEF CellKept
<1> QED BY <1>1, <1>3, <1>4, <1>5 DEF EndsOnce

LEMMA EndsHold == HelperSpec => [](Ends /\ EndsOnce)
<1>1. HelperInit => Ends /\ EndsOnce
  <2> SUFFICES ASSUME HelperInit PROVE Ends /\ EndsOnce
    OBVIOUS
  <2>1. DOMAIN log = {} /\ DOMAIN deliveries = {} /\ Helpers = {}
    <3>1. log = <<>> /\ deliveries = <<>> /\ helper = <<>>
      BY DEF HelperInit, Init
    <3> QED BY <3>1 DEF Helpers
  <2> QED BY <2>1 DEF Ends, EndsOnce
<1>2. CellsInv /\ (Ends /\ EndsOnce) /\ [HelperNext]_allVars => (Ends /\ EndsOnce)'
  <2> SUFFICES ASSUME CellsInv, Ends, EndsOnce, [HelperNext]_allVars
               PROVE  Ends' /\ EndsOnce'
    OBVIOUS
  <2>1. [Next]_vars \/ Releases
    BY HelperRegistry
  <2>2. AnyStep
    BY HelperSteps DEF AnyStep, CellsInv, RegistryInv, NotifyInv
  <2>3. Ends'
    BY <2>1, EndsStep DEF CellsInv
  <2>4. EndsOnce'
    BY <2>1, <2>2, EndsOnceStep
  <2> QED BY <2>3, <2>4
<1> QED BY <1>1, <1>2, CellsHold, PTL DEF HelperSpec

(* When the registry is at rest, the transitions to Destroyed at which an  *)
(* observer was registered are the one it was told of, if it was.          *)
LEMMA CountEnds ==
  ASSUME RegistryInv, Ends, stack = <<>>, NEW id, NEW h, h.to = "Destroyed"
  PROVE  /\ ToldEnd(id) => Applied(id, h) = 1
         /\ ~ ToldEnd(id) => Applied(id, h) = 0
<1> DEFINE ends == {n \in DOMAIN log : id \in log[n].registered /\ log[n].to = "Destroyed"}
<1>1. Applied(id, h) = Cardinality(ends)
  BY DEF Applied
<1>2. \A n \in DOMAIN log : Called(n) = log[n].registered
  <2>1. \A n : ~ InProgress(n)
    BY DEF InProgress
  <2> QED BY <2>1 DEF RegistryInv, NotifyInv, Complete
<1>3. ASSUME NEW n \in ends PROVE n = Len(log) /\ ToldEnd(id)
  <2>1. n \in DOMAIN log /\ log[n].to = "Destroyed" /\ n \in Nat \ {0}
    BY LenProperties DEF RegistryInv, TypeOK
  <2>2. PICK k \in CallsFor(n) : deliveries[k].id = id
    BY <1>2, <2>1 DEF Called
  <2>3. k \in DOMAIN deliveries /\ deliveries[k].n = n /\ n > 0
    BY <2>1, <2>2 DEF CallsFor
  <2>4. deliveries[k].event = "Destroyed"
    BY <2>1, <2>3 DEF Ends
  <2> QED BY <2>1, <2>2, <2>3, <2>4 DEF Ends, ToldEnd
<1>4. ASSUME ToldEnd(id) PROVE ends = {Len(log)}
  <2>1. PICK k \in DOMAIN deliveries :
          deliveries[k].id = id /\ deliveries[k].event = "Destroyed"
    BY <1>4 DEF ToldEnd
  <2>2. PICK n \in DOMAIN log : n = deliveries[k].n /\ log[n].to = "Destroyed"
    BY <2>1 DEF Ends
  <2>3. id \in Called(n)
    BY <2>1, <2>2 DEF Called, CallsFor
  <2>4. n \in ends
    BY <1>2, <2>2, <2>3
  <2>5. n = Len(log)
    BY <1>3, <2>4
  <2> QED BY <1>3, <2>4, <2>5
<1>5. ~ ToldEnd(id) => ends = {}
  BY <1>3
<1> HIDE DEF ends
<1>6. ToldEnd(id) => Cardinality(ends) = 1
  BY <1>4, FS_Singleton
<1>7. ~ ToldEnd(id) => Cardinality(ends) = 0
  BY <1>5, FS_EmptySet
<1> QED BY <1>1, <1>6, <1>7

(* do_on_destroy reports the destruction of the registry once, and nothing *)
(* before it, whatever was nested in what: each observer is told of the    *)
(* end in the one notification there is of it, in which it has one turn,   *)
(* and its closure stays on the stack from then until it fires.            *)
(* (registry.rs 365-375)                                                   *)
THEOREM DestroyIsReportedOnce == HelperSpec => []DestroyReportedOnce
<1>1. ASSUME CellsInv, Ends, EndsOnce PROVE DestroyReportedOnce
  <2> SUFFICES ASSUME NEW id \in Helpers, helper[id].to = "Destroyed"
               PROVE  /\ Fires(id) > 0 => state = "Destroyed"
                      /\ stack = <<>> => Fires(id) = Applied(id, helper[id])
    BY DEF DestroyReportedOnce
  <2>1. EndOf(id)
    BY <1>1 DEF EndsOnce
  <2>2. /\ (\E k : FiredAt(k, id)) => Fires(id) = 1
        /\ ~ (\E k : FiredAt(k, id)) => Fires(id) = 0
    BY <1>1, <2>1, CountFires DEF EndOf
  <2>3. Fires(id) > 0 => state = "Destroyed"
    BY <2>1, <2>2 DEF EndOf
  <2>4. ASSUME stack = <<>> PROVE Fires(id) = Applied(id, helper[id])
    <3>1. \A i : ~ PendingAt(i, id)
      BY <2>4 DEF PendingAt, CallAt
    <3>2. ToldEnd(id) <=> \E k : FiredAt(k, id)
      BY <2>1, <3>1 DEF EndOf
    <3>3. /\ ToldEnd(id) => Applied(id, helper[id]) = 1
          /\ ~ ToldEnd(id) => Applied(id, helper[id]) = 0
      BY <1>1, <2>4, CountEnds DEF CellsInv
    <3> QED BY <2>2, <3>2, <3>3
  <2> QED BY <2>3, <2>4
<1> QED BY <1>1, CellsHold, EndsHold, PTL

-----------------------------------------------------------------------------
(* What the helpers report, exactly.  A closure looks at a delivery before *)
(* anything else happens: the only one that has not yet looked is called   *)
(* by the top frame, for the last delivery.                                *)
Unlooked ==
  \A i, id, e : CallAt(stack, i, id, e) /\ id \in Helpers /\ i \notin firing =>
    /\ i = Depth
    /\ Len(deliveries) \in DOMAIN deliveries
    /\ deliveries[Len(deliveries)].id = id
    /\ deliveries[Len(deliveries)].event = e

AllLooked == \A i, id, e : CallAt(stack, i, id, e) /\ id \in Helpers => i \in firing

LEMMA SameInterval ==
  ASSUME NEW a \in Nat, NEW b \in Nat, 1 .. a = 1 .. b
  PROVE  a = b
<1>1. ASSUME NEW x \in Nat, NEW y \in Nat, 1 .. x = 1 .. y PROVE x <= y
  <2>1. CASE x = 0
    BY <2>1
  <2>2. CASE x # 0
    <3>1. x \in 1 .. x
      BY <2>2
    <3>2. x \in 1 .. y
      BY <1>1, <3>1
    <3> QED BY <3>2
  <2> QED BY <2>1, <2>2
<1> QED BY <1>1

LEMMA TopCall ==
  ASSUME NEW s \in Seq(Frames), s # <<>>
  PROVE  /\ Len(s) \in DOMAIN s
         /\ s[Len(s)].op = "callback" =>
              CallAt(s, Len(s), s[Len(s)].id, s[Len(s)].event)
<1>1. Len(s) \in Nat \ {0} /\ DOMAIN s = 1 .. Len(s)
  BY Popped, LenProperties
<1> QED BY <1>1 DEF CallAt

LEMMA ClosureOrNot ==
  ASSUME TypeOK, Unlooked
  PROVE  /\ ~ InClosure => AllLooked
         /\ AllLooked => ~ InClosure
<1>1. stack \in Seq(Frames)
  BY DEF TypeOK
<1>2. ASSUME NEW i, NEW id, NEW e, CallAt(stack, i, id, e), id \in Helpers, i \notin firing
      PROVE  InClosure
  <2>1. i = Depth
    BY <1>2 DEF Unlooked
  <2>2. i \in DOMAIN stack /\ stack[i].op = "callback" /\ stack[i].id = id
    BY <1>2 DEF CallAt
  <2>3. stack # <<>>
    BY <2>2
  <2> QED BY <1>2, <2>1, <2>2, <2>3 DEF InClosure, On, Top, Depth
<1>3. ASSUME AllLooked, InClosure PROVE FALSE
  <2>1. CallAt(stack, Depth, Top.id, Top.event)
    BY <1>1, <1>3, TopCall DEF InClosure, On, Top, Depth
  <2> QED BY <1>3, <2>1 DEF AllLooked, InClosure
<1> QED BY <1>2, <1>3 DEF AllLooked

LEMMA AllLookedThen ==
  ASSUME TypeOK', AllLooked'
  PROVE  Unlooked' /\ ~ InClosure'
<1>1. stack' \in Seq(Frames)
  BY DEF TypeOK
<1>2. ASSUME InClosure' PROVE FALSE
  <2>1. CallAt(stack', Depth', Top'.id, Top'.event)
    BY <1>1, <1>2, TopCall DEF InClosure, On, Top, Depth
  <2> QED BY <1>2, <2>1 DEF AllLooked, InClosure
<1> QED BY <1>2 DEF Unlooked, AllLooked

(* A closure that has been called looks next. *)
LEMMA ClosureFirst ==
  ASSUME CellsInv, InClosure, [HelperNext]_allVars
  PROVE  Ignore \/ Fire \/ UNCHANGED allVars
<1>1. /\ On("callback") /\ Top.id \in Helpers /\ Depth \notin firing
      /\ Depth \in Nat /\ Depth # 0
      /\ CallAt(stack, Depth, Top.id, Top.event)
  <2>1. Depth \in DOMAIN stack /\ stack \in Seq(Frames)
    BY TheClosure DEF CellsInv, RegistryInv, TypeOK
  <2>2. Depth \in Nat /\ Depth # 0
    BY <2>1, LenProperties DEF Depth
  <2> QED BY <2>2, TheClosure DEF InClosure
<1>2. ~ InLate
  <2> SUFFICES ASSUME InLate PROVE FALSE
    OBVIOUS
  <2>1. late # <<>> /\ late[Len(late)] = Depth /\ late \in Seq(0 .. Depth)
    BY DEF InLate, CellsInv, HelperTypeOK
  <2>2. Len(late) \in DOMAIN late
    BY <2>1, EmptySeq, LenProperties
  <2>3. PICK id, e : /\ CallAt(stack, Depth, id, e)
                     /\ id \notin Helpers \/ Depth \in firing
    BY <1>1, <2>1, <2>2 DEF CellsInv, LateCalls
  <2> QED BY <1>1, <2>3 DEF CallAt, Top, Depth
<1>3. \A op : On(op) => op = "callback"
  BY <1>1 DEF On
<1> QED BY <1>2, <1>3 DEF HelperNext, HelperCall, HelperRun, DoOn, DoOnDestroyLate,
           SubscribeInert, Arm, Notify, ApplyDone, FinishDestroy, MoveToRound, Replay,
           SubscribeDone, UserReturn

(* A step as far as deliveries and looks go. *)
Looks == InClosure /\ ~ InClosure' /\ (Ignore \/ Fire) /\ UNCHANGED deliveries

Delivers(d) ==
  /\ ~ InClosure /\ (InClosure' <=> d.id \in Helpers)
  /\ d \in [id : Nat, event : States, n : Nat]
  /\ deliveries' = Append(deliveries, d)
  /\ UNCHANGED helperVars

Elsewhere ==
  ~ InClosure /\ ~ InClosure' /\ ~ (Ignore \/ Fire) /\ UNCHANGED deliveries

LEMMA LookEffect ==
  ASSUME CellsInv, Unlooked, Ignore \/ Fire, TypeOK'
  PROVE  Unlooked' /\ Looks
<1>0. TypeOK /\ InClosure
  BY DEF CellsInv, RegistryInv, Ignore, Fire
<1>1. ASSUME NEW i, NEW id, NEW e, CallAt(stack, i, id, e), id \in Helpers, i # Depth
      PROVE  i \in firing
  BY <1>1 DEF Unlooked
<1>2. Helpers' = Helpers
  BY CellChanges DEF AnyStep, CellNew, CellKept, Ignore, Fire, DoOn
<1>3. CASE Ignore
  <2>1. CallPopped /\ UNCHANGED <<firing, deliveries>>
    BY <1>0, <1>3, ReturnEffect DEF Ignore, CallbackReturn, Return
  <2>2. AllLooked'
    BY <1>1, <1>2, <2>1 DEF AllLooked, CallPopped
  <2> QED BY <1>0, <1>3, <2>1, <2>2, AllLookedThen DEF Looks
<1>4. CASE Fire
  <2>1. UNCHANGED <<stack, deliveries>> /\ firing' = firing \cup {Depth}
    BY <1>4 DEF Fire
  <2>2. AllLooked'
    BY <1>1, <1>2, <2>1 DEF AllLooked
  <2> QED BY <1>0, <1>4, <2>1, <2>2, AllLookedThen DEF Looks
<1> QED BY <1>3, <1>4

LEMMA CallerEffect ==
  ASSUME CellsInv, Unlooked, ~ InClosure, Plain, Notify \/ Replay, TypeOK'
  PROVE  Unlooked' /\ \E d : Delivers(d)
<1>0. TypeOK /\ AllLooked /\ UNCHANGED helperVars
  BY ClosureOrNot DEF CellsInv, RegistryInv, Plain
<1>1. PICK f, g, top, d :
        /\ NotifyEffect(f, g, top, d) \/ ReplayEffect(f, g, top, d)
        /\ SubsSame /\ CallPushed(d.id, d.event)
  BY <1>0, CallsEffect
<1>2. /\ top = Depth /\ DOMAIN stack = 1 .. top /\ DOMAIN stack' = 1 .. top + 1
      /\ top \in Nat /\ stack'[top + 1].op = "callback"
      /\ stack'[top + 1].id = d.id /\ stack'[top + 1].event = d.event
      /\ d \in [id : Nat, event : States, n : Nat]
      /\ deliveries' = Append(deliveries, d)
  BY <1>1 DEF NotifyEffect, ReplayEffect, CallsOne, Depth
<1>3. /\ Len(stack') = top + 1 /\ stack' # <<>>
  <2>1. Len(stack') \in Nat /\ DOMAIN stack' = 1 .. Len(stack')
    BY LenProperties DEF TypeOK
  <2>2. 1 .. Len(stack') = 1 .. top + 1 /\ top + 1 \in Nat
    BY <1>2, <2>1
  <2>3. Len(stack') = top + 1
    BY <2>1, <2>2, SameInterval
  <2> QED BY <1>2, <2>3
<1>4. Helpers' = Helpers /\ firing' = firing /\ Depth' = Depth + 1
  BY <1>0, <1>2, <1>3 DEF helperVars, Helpers, Depth
<1>5. Depth + 1 \notin firing
  <2>1. \A i \in firing : i \in DOMAIN stack
    BY DEF CellsInv, HelperTypeOK
  <2> QED BY <1>2, <2>1
<1>6. /\ Len(deliveries') \in DOMAIN deliveries'
      /\ deliveries'[Len(deliveries')] = d
  <2>1. /\ Len(deliveries) \in Nat
        /\ DOMAIN deliveries' = 1 .. Len(deliveries) + 1
        /\ Len(deliveries') = Len(deliveries) + 1
        /\ deliveries'[Len(deliveries) + 1] = d
    BY <1>0, <1>2, AppendProperties, LenProperties DEF TypeOK
  <2> QED BY <2>1
<1>7. Unlooked'
  <2> SUFFICES ASSUME NEW i, NEW id, NEW e, CallAt(stack', i, id, e), id \in Helpers,
                      i \notin firing
               PROVE  i = Depth + 1 /\ id = d.id /\ e = d.event
    BY <1>4, <1>6 DEF Unlooked
  <2>1. ~ CallAt(stack, i, id, e)
    BY <1>0 DEF AllLooked
  <2> QED BY <1>1, <2>1 DEF CallPushed
<1>8. InClosure' <=> d.id \in Helpers
  <2>1. On("callback")' /\ Top'.id = d.id
    BY <1>2, <1>3 DEF On, Top
  <2> QED BY <1>4, <1>5, <2>1 DEF InClosure
<1> QED BY <1>0, <1>2, <1>7, <1>8 DEF Delivers

LEMMA ElsewhereEffect ==
  ASSUME CellsInv, Unlooked, ~ InClosure, AnyStep, TypeOK',
         ~ (Plain /\ (Notify \/ Replay))
  PROVE  Unlooked' /\ Elsewhere
<1>0. TypeOK /\ Sorted /\ AllLooked /\ ~ Ignore /\ ~ Fire /\ nextId \in Nat
  BY ClosureOrNot DEF CellsInv, RegistryInv, NotifyInv, Ignore, Fire, TypeOK
<1>1. \A id \in Helpers' : id \in Helpers \/ id = nextId
  BY CellChanges DEF CellNew
<1>2. ASSUME CallsSame, UNCHANGED firing PROVE AllLooked'
  <2>1. \A i, id, e : CallAt(stack, i, id, e) => id # nextId
    <3> SUFFICES ASSUME NEW i, NEW e, CallAt(stack, i, nextId, e) PROVE FALSE
      OBVIOUS
    <3>1. nextId < nextId
      BY DEF CellsInv, CallsGiven
    <3> QED BY <1>0, <3>1
  <2> QED BY <1>0, <1>1, <1>2, <2>1 DEF AllLooked, CallsSame
<1>3. AllLooked' /\ UNCHANGED deliveries
  <2>1. CASE Settled /\ UNCHANGED firing
    BY <1>2, <2>1 DEF Settled
  <2>2. CASE (Subscribe \/ SubscribeDone \/ Arm) /\ UNCHANGED firing
    <3>1. CallsSame /\ UNCHANGED deliveries
      BY <1>0, <2>2, SubscribeEffect, ReturnEffect DEF Subscribe, SubscribeDone, Arm, Return
    <3> QED BY <1>2, <2>2, <3>1
  <2>3. CASE DoOnDestroyLate
    BY <1>2, <2>3, StackUntouched DEF DoOnDestroyLate, vars
  <2>4. CASE UserReturn
    <3>1. /\ CallPopped /\ firing' = firing \ {Depth} /\ Helpers' = Helpers
          /\ UNCHANGED deliveries
      BY <1>0, <2>4, ReturnEffect DEF UserReturn, CallbackReturn, Return, Helpers
    <3> QED BY <1>0, <3>1 DEF AllLooked, CallPopped
  <2>5. CASE Plain
    BY <2>1, <2>2, <2>5 DEF Plain, helperVars
  <2>6. CASE (\E kind \in Kinds : DoOn(kind)) \/ SubscribeInert \/ Arm
    BY <2>2, <2>6 DEF DoOn, SubscribeInert, Arm
  <2> QED BY <1>0, <2>3, <2>4, <2>5, <2>6 DEF AnyStep
<1> QED BY <1>0, <1>3, AllLookedThen DEF Elsewhere

LEMMA HelperEffect ==
  ASSUME CellsInv, Unlooked, [HelperNext]_allVars
  PROVE  /\ Unlooked'
         /\ UNCHANGED allVars \/ Looks \/ (\E d : Delivers(d)) \/ Elsewhere
<1>1. AnyStep /\ TypeOK'
  BY HelperSteps, CellsStep DEF AnyStep, CellsInv, RegistryInv, NotifyInv
<1>2. CASE UNCHANGED allVars
  <2>1. CallsSame /\ UNCHANGED <<helper, firing, deliveries, stack>>
    BY <1>2, StackUntouched DEF allVars, vars, helperVars
  <2>2. Unlooked'
    BY <2>1 DEF Unlooked, CallsSame, Helpers, Depth
  <2> QED BY <1>2, <2>2
<1>3. CASE ~ UNCHANGED allVars /\ InClosure
  BY <1>1, <1>3, ClosureFirst, LookEffect
<1>4. CASE ~ InClosure
  <2>1. CASE Plain /\ (Notify \/ Replay)
    BY <1>1, <1>4, <2>1, CallerEffect
  <2> QED BY <1>1, <1>4, <2>1, ElsewhereEffect
<1> QED BY <1>2, <1>3, <1>4

-----------------------------------------------------------------------------
(* What a closure has looked at, and what it remembers of a set of calls:  *)
(* the event of the last one.                                              *)
LookedAt(id) == {k \in Heard(id) : InClosure => k # Len(deliveries)}

HeardBefore(id, k) == {j \in Heard(id) : j < k}

Remembers(calls, s) ==
  \/ s = "Initialized" /\ calls = {}
  \/ \E j \in calls : deliveries[j].event = s /\ \A i \in calls : i <= j

Recalls == \A id \in Helpers : Remembers(LookedAt(id), helper[id].previous)

LEMMA RemembersOne ==
  ASSUME NEW calls, calls \subseteq Nat, NEW s, NEW t, Remembers(calls, s),
         Remembers(calls, t)
  PROVE  s = t
<1>1. CASE calls = {}
  BY <1>1 DEF Remembers
<1>2. CASE calls # {}
  <2>1. PICK j \in calls : deliveries[j].event = s /\ \A i \in calls : i <= j
    BY <1>2 DEF Remembers
  <2>2. PICK k \in calls : deliveries[k].event = t /\ \A i \in calls : i <= k
    BY <1>2 DEF Remembers
  <2>3. j \in Nat /\ k \in Nat /\ j <= k /\ k <= j
    BY <2>1, <2>2
  <2>4. j = k
    BY <2>3
  <2> QED BY <2>1, <2>2, <2>4
<1> QED BY <1>1, <1>2

(* The looks of a helper stay as they are, or its closure looks at the     *)
(* last delivery, which nobody but itself has been told of since.          *)
SameLooked(id) ==
  /\ LookedAt(id)' = LookedAt(id)
  /\ \A k \in LookedAt(id) : /\ deliveries'[k] = deliveries[k]
                             /\ HeardBefore(id, k)' = HeardBefore(id, k)
  /\ \A k \in Heard(id) : deliveries'[k] = deliveries[k]

NewlyLooked(id, last) ==
  /\ last \in Nat /\ last \in Heard(id) /\ last \notin LookedAt(id)
  /\ LookedAt(id)' = LookedAt(id) \cup {last}
  /\ LookedAt(id) = HeardBefore(id, last)
  /\ Top.event = deliveries[last].event
  /\ UNCHANGED deliveries

LEMMA HeardTypes ==
  ASSUME TypeOK
  PROVE  /\ Len(deliveries) \in Nat /\ DOMAIN deliveries = 1 .. Len(deliveries)
         /\ \A id : Heard(id) \subseteq 1 .. Len(deliveries)
         /\ \A k \in DOMAIN deliveries :
              /\ deliveries[k].id \in Nat /\ deliveries[k].n \in Nat
              /\ deliveries[k].event \in States
<1>1. /\ Len(deliveries) \in Nat /\ DOMAIN deliveries = 1 .. Len(deliveries)
      /\ \A k \in DOMAIN deliveries : deliveries[k] \in [id : Nat, event : States, n : Nat]
  BY LenProperties, ElementOfSeq DEF TypeOK
<1> QED BY <1>1 DEF Heard

LEMMA LookedStep ==
  ASSUME CellsInv, Unlooked, [HelperNext]_allVars, NEW id \in Helpers
  PROVE  /\ Looks /\ id = Top.id => \E last : NewlyLooked(id, last)
         /\ ~ (Looks /\ id = Top.id) => SameLooked(id)
<1>0. UNCHANGED allVars \/ Looks \/ (\E d : Delivers(d)) \/ Elsewhere
  BY HelperEffect
<1>1. PICK last \in Nat :
        /\ last = Len(deliveries) /\ DOMAIN deliveries = 1 .. last
        /\ \A x : Heard(x) \subseteq 1 .. last
  BY HeardTypes DEF CellsInv, RegistryInv
<1>2. CASE (UNCHANGED allVars \/ Elsewhere)
  <2>1. UNCHANGED deliveries /\ (InClosure' <=> InClosure)
    BY <1>2 DEF allVars, vars, helperVars, Elsewhere, InClosure, On, Top, Depth, Helpers
  <2>2. ~ Looks
    BY <2>1 DEF Looks
  <2> QED BY <2>1, <2>2 DEF SameLooked, LookedAt, HeardBefore, Heard
<1>3. CASE Looks
  <2>1. /\ CallAt(stack, Depth, Top.id, Top.event) /\ Top.id \in Helpers
        /\ Depth \notin firing
    BY <1>3, TheClosure DEF Looks
  <2>2. /\ last \in DOMAIN deliveries /\ deliveries[last].id = Top.id
        /\ deliveries[last].event = Top.event
    BY <1>1, <2>1 DEF Unlooked
  <2>3. /\ InClosure /\ ~ InClosure' /\ UNCHANGED deliveries
    BY <1>3 DEF Looks
  <2>4. CASE id = Top.id
    <3>1. last \in Heard(id)
      BY <2>2, <2>4 DEF Heard
    <3>2. LookedAt(id) = Heard(id) \ {last} /\ LookedAt(id)' = Heard(id)
      BY <1>1, <2>3 DEF LookedAt, Heard
    <3>3. LookedAt(id) = HeardBefore(id, last)
      <4>1. \A j \in Heard(id) : j < last <=> j # last
        BY <1>1
      <4> QED BY <3>2, <4>1 DEF HeardBefore
    <3>4. LookedAt(id)' = LookedAt(id) \cup {last}
      BY <3>1, <3>2
    <3> QED BY <1>3, <2>2, <2>3, <2>4, <3>1, <3>2, <3>3, <3>4 DEF NewlyLooked
  <2>5. CASE id # Top.id
    <3>1. last \notin Heard(id)
      BY <2>2, <2>5 DEF Heard
    <3>2. LookedAt(id)' = LookedAt(id)
      BY <1>1, <2>3, <3>1 DEF LookedAt, Heard
    <3> QED BY <2>3, <2>5, <3>2 DEF SameLooked, HeardBefore, Heard
  <2> QED BY <2>4, <2>5
<1>4. CASE \E d : Delivers(d)
  <2>1. PICK d : Delivers(d)
    BY <1>4
  <2>2. PICK next \in Nat :
          /\ next = last + 1 /\ next = Len(deliveries')
          /\ DOMAIN deliveries' = 1 .. next /\ deliveries'[next] = d
          /\ \A k \in DOMAIN deliveries : deliveries'[k] = deliveries[k]
    BY <1>1, <2>1, HeardTypes, AppendProperties, LenProperties
       DEF Delivers, CellsInv, RegistryInv, TypeOK
  <2>3. /\ ~ InClosure /\ ~ Looks /\ (InClosure' <=> d.id \in Helpers)
    BY <2>1 DEF Delivers, Looks
  <2>4. /\ \A k : k \in DOMAIN deliveries' <=> k \in DOMAIN deliveries \/ k = next
        /\ \A x : next \notin Heard(x)
    BY <1>1, <2>2
  <2>5. /\ d.id = id => Heard(id)' = Heard(id) \cup {next}
        /\ d.id # id => Heard(id)' = Heard(id)
    BY <2>2, <2>4 DEF Heard
  <2>6. LookedAt(id) = Heard(id)
    BY <2>3 DEF LookedAt
  <2>7. LookedAt(id)' = Heard(id)
    <3>1. LookedAt(id)' = {k \in Heard(id)' : InClosure' => k # next}
      BY <2>2 DEF LookedAt
    <3> QED BY <2>3, <2>4, <2>5, <3>1
  <2>8. ASSUME NEW k \in Heard(id)
        PROVE  HeardBefore(id, k)' = HeardBefore(id, k) /\ deliveries'[k] = deliveries[k]
    <3>1. ~ next < k /\ k \in DOMAIN deliveries
      BY <1>1, <2>2
    <3> QED BY <2>2, <2>5, <3>1 DEF HeardBefore
  <2> QED BY <2>3, <2>6, <2>7, <2>8 DEF SameLooked
<1> QED BY <1>0, <1>2, <1>3, <1>4

(* What a closure remembers, and since when it is subscribed. *)
LEMMA LookCells ==
  ASSUME CellsInv, Ignore \/ Fire
  PROVE  /\ Helpers' = Helpers /\ Top.id \in Helpers
         /\ helper'[Top.id].previous = Top.event
         /\ \A id \in Helpers \ {Top.id} : helper'[id] = helper[id]
<1>0. /\ helper \in [Helpers -> Cell] /\ Top.id \in Helpers /\ Top.event \in States
      /\ \A id \in Helpers : helper[id] \in Cell
  BY TheClosure DEF CellsInv, HelperTypeOK, Cell, Ignore, Fire
<1>1. PICK x, c :
        /\ x \in Helpers /\ x = Top.id /\ helper' = [helper EXCEPT ![x] = c]
        /\ c.previous = Top.event
  <2>1. CASE Ignore
    <3>1. PICK x, c : x \in Helpers /\ x = Top.id
                      /\ c = [helper[x] EXCEPT !.previous = Top.event]
      BY <1>0
    <3>2. c.previous = Top.event
      BY <1>0, <3>1 DEF Cell
    <3> QED BY <2>1, <3>1, <3>2 DEF Ignore
  <2>2. CASE Fire
    <3>1. PICK x, c :
            /\ x \in Helpers /\ x = Top.id
            /\ c = [helper[x] EXCEPT !.previous = Top.event, !.fired = TRUE]
      BY <1>0
    <3>2. c.previous = Top.event
      BY <1>0, <3>1 DEF Cell
    <3>3. helper' = [helper EXCEPT ![x] = c]
      BY <1>0, <2>2, <3>1 DEF Fire
    <3> QED BY <3>1, <3>2, <3>3
  <2> QED BY <2>1, <2>2
<1> QED BY <1>0, <1>1 DEF Helpers

LEMMA OtherCells ==
  ASSUME CellsInv, AnyStep, ~ (Ignore \/ Fire), NEW id \in Helpers
  PROVE  helper'[id].previous = helper[id].previous
<1>0. /\ helper \in [Helpers -> Cell] /\ helper[id] \in Cell
      /\ Helpers \subseteq 0 .. nextId - 1 /\ nextId \in Nat
  BY DEF CellsInv, HelperTypeOK, Cell, RegistryInv, TypeOK
<1>1. CASE Arm
  <2>1. PICK x, c : x \in Helpers /\ x = Top.id /\ c = [helper[x] EXCEPT !.armed = TRUE]
    BY <1>1, TheHelper
  <2>2. helper' = [helper EXCEPT ![x] = c] /\ helper[x] \in Cell
    BY <1>0, <1>1, <2>1 DEF Arm
  <2>3. c.previous = helper[x].previous
    BY <2>1, <2>2 DEF Cell
  <2> QED BY <1>0, <2>2, <2>3
<1>2. CASE \E kind \in Kinds : DoOn(kind)
  <2>1. PICK kind \in Kinds : DoOn(kind)
    BY <1>2
  <2>2. id # nextId /\ id \in Helpers \cup {nextId}
    BY <1>0
  <2> QED BY <2>1, <2>2 DEF DoOn
<1>3. CASE UNCHANGED helper
  BY <1>3
<1> QED BY <1>1, <1>2, <1>3 DEF AnyStep, Plain, helperVars, DoOnDestroyLate, SubscribeInert,
           UserReturn

LEMMA SinceKept ==
  ASSUME CellsInv, AnyStep, NEW id \in Helpers
  PROVE  helper'[id].since = helper[id].since
<1>0. /\ helper \in [Helpers -> Cell] /\ helper[id] \in Cell
      /\ \A x \in Helpers : helper[x] \in Cell
      /\ Helpers \subseteq 0 .. nextId - 1 /\ nextId \in Nat
  BY DEF CellsInv, HelperTypeOK, Cell, RegistryInv, TypeOK
<1>1. ASSUME NEW x \in Helpers, NEW c, c.since = helper[x].since,
             helper' = [helper EXCEPT ![x] = c]
      PROVE  helper'[id].since = helper[id].since
  BY <1>0, <1>1
<1>2. CASE Arm
  <2>1. PICK x, c : x \in Helpers /\ x = Top.id /\ c = [helper[x] EXCEPT !.armed = TRUE]
    BY <1>2, TheHelper
  <2>2. c.since = helper[x].since
    BY <1>0, <2>1 DEF Cell
  <2> QED BY <1>1, <1>2, <2>1, <2>2 DEF Arm
<1>3. CASE Ignore
  <2>1. PICK x, c : x \in Helpers /\ x = Top.id
                    /\ c = [helper[x] EXCEPT !.previous = Top.event]
    BY <1>3, TheClosure DEF Ignore
  <2>2. c.since = helper[x].since
    BY <1>0, <2>1 DEF Cell
  <2> QED BY <1>1, <1>3, <2>1, <2>2 DEF Ignore
<1>4. CASE Fire
  <2>1. PICK x, c :
          /\ x \in Helpers /\ x = Top.id
          /\ c = [helper[x] EXCEPT !.previous = Top.event, !.fired = TRUE]
    BY <1>4, TheClosure DEF Fire
  <2>2. c.since = helper[x].since
    BY <1>0, <2>1 DEF Cell
  <2>3. helper' = [helper EXCEPT ![x] = c]
    BY <1>0, <1>4, <2>1 DEF Fire
  <2> QED BY <1>1, <2>1, <2>2, <2>3
<1>5. CASE \E kind \in Kinds : DoOn(kind)
  <2>1. PICK kind \in Kinds : DoOn(kind)
    BY <1>5
  <2>2. id # nextId /\ id \in Helpers \cup {nextId}
    BY <1>0
  <2> QED BY <2>1, <2>2 DEF DoOn
<1>6. CASE UNCHANGED helper
  BY <1>6
<1> QED BY <1>2, <1>3, <1>4, <1>5, <1>6
        DEF AnyStep, Plain, helperVars, DoOnDestroyLate, SubscribeInert, UserReturn

(* A helper just created has heard nothing and remembers Initialized. *)
LEMMA NewlyCreated ==
  ASSUME CellsInv, AnyStep, NEW id, CellNew(id)
  PROVE  /\ Heard(id)' = {} /\ UNCHANGED <<state, log, deliveries>>
         /\ helper'[id].previous = "Initialized" /\ helper'[id].since = state
         /\ id = nextId /\ Subscribe
<1>1. PICK kind \in Kinds : DoOn(kind) /\ id = nextId /\ helper'[id] = Cells(kind)
  BY DEF CellNew
<1>2. Subscribe /\ UNCHANGED <<state, log, deliveries>>
  BY <1>1 DEF DoOn, Subscribe
<1>3. Heard(id) = {}
  <2> SUFFICES ASSUME NEW k \in Heard(id) PROVE FALSE
    OBVIOUS
  <2>1. k \in DOMAIN deliveries /\ deliveries[k].id = nextId
    BY <1>1 DEF Heard
  <2>2. nextId < nextId /\ nextId \in Nat
    BY <2>1 DEF CellsInv, RegistryInv, IdsGiven, TypeOK
  <2> QED BY <2>2
<1>4. Cells(kind).previous = "Initialized" /\ Cells(kind).since = state
  BY DEF Cells
<1> QED BY <1>1, <1>2, <1>3, <1>4 DEF Heard

LEMMA RecallsStep ==
  ASSUME CellsInv, Unlooked, Recalls, [HelperNext]_allVars
  PROVE  Recalls'
<1>0. AnyStep
  BY HelperSteps DEF AnyStep, CellsInv, RegistryInv, NotifyInv
<1>1. ASSUME NEW id \in Helpers, Looks /\ id = Top.id
      PROVE  Remembers(LookedAt(id), helper[id].previous)'
  <2>1. PICK last : NewlyLooked(id, last)
    BY <1>1, LookedStep
  <2>2. helper'[id].previous = deliveries[last].event
    BY <1>1, <2>1, LookCells DEF Looks, NewlyLooked
  <2>3. \A i \in LookedAt(id)' : i <= last
    <3>1. \A i \in LookedAt(id)' : i = last \/ i < last
      BY <2>1 DEF NewlyLooked, HeardBefore
    <3>2. \A i \in LookedAt(id)' : i \in Nat
      <4>1. \A i \in LookedAt(id) : i \in Nat
        BY HeardTypes DEF LookedAt, CellsInv, RegistryInv
      <4> QED BY <2>1, <4>1 DEF NewlyLooked
    <3> QED BY <2>1, <3>1, <3>2 DEF NewlyLooked
  <2>4. last \in LookedAt(id)' /\ deliveries'[last].event = helper'[id].previous
    BY <2>1, <2>2 DEF NewlyLooked
  <2> QED BY <2>3, <2>4 DEF Remembers
<1>2. ASSUME NEW id \in Helpers, ~ (Looks /\ id = Top.id)
      PROVE  Remembers(LookedAt(id), helper[id].previous)'
  <2>1. SameLooked(id)
    BY <1>2, LookedStep
  <2>2. helper'[id].previous = helper[id].previous
    <3>1. CASE Looks
      BY <1>2, <3>1, LookCells DEF Looks
    <3>2. CASE ~ Looks
      <4>1. ~ (Ignore \/ Fire) \/ UNCHANGED allVars
        BY <3>2, HelperEffect DEF Elsewhere, Delivers, Ignore, Fire
      <4>2. UNCHANGED allVars => UNCHANGED helper
        BY DEF allVars, helperVars
      <4> QED BY <1>0, <4>1, <4>2, OtherCells
    <3> QED BY <3>1, <3>2
  <2>3. Remembers(LookedAt(id), helper[id].previous)
    BY DEF Recalls
  <2> QED BY <2>1, <2>2, <2>3 DEF Remembers, SameLooked
<1>3. ASSUME NEW id, CellNew(id)
      PROVE  Remembers(LookedAt(id), helper[id].previous)'
  BY <1>0, <1>3, NewlyCreated DEF Remembers, LookedAt
<1>4. \A id \in Helpers' : id \in Helpers \/ CellNew(id)
  BY <1>0, CellChanges
<1> QED BY <1>1, <1>2, <1>3, <1>4 DEF Recalls

-----------------------------------------------------------------------------
(* The calls a closure has looked at that it is there to report, and that  *)
(* it has fired for each of them, a one-shot for the first.                *)
Matches(id, k) ==
  /\ k \in LookedAt(id) /\ deliveries[k].event = helper[id].to
  /\ Remembers(HeardBefore(id, k), helper[id].from)

Matched(id) == {k \in LookedAt(id) : Matches(id, k)}

Tallies(id) ==
  IF helper[id].once THEN /\ helper[id].fired <=> \E k : Matches(id, k)
                          /\ helper[id].fired <=> \E k : FiredAt(k, id)
                     ELSE Fires(id) = Cardinality(Matched(id))

Tally == \A id \in Helpers : helper[id].to # "Destroyed" => Tallies(id)

LEMMA FiresCount ==
  ASSUME CellsInv, NEW id
  PROVE  /\ FiresSame(id) => Fires(id)' = Fires(id)
         /\ FiresOnce(id) => Fires(id)' = Fires(id) + 1
<1> DEFINE at == {k \in DOMAIN fires : fires[k] = id}
<1>1. /\ Len(fires) \in Nat /\ DOMAIN fires = 1 .. Len(fires)
  BY LenProperties DEF CellsInv, HelperTypeOK
<1>2. IsFiniteSet(at)
  <2>1. IsFiniteSet(1 .. Len(fires)) /\ at \subseteq 1 .. Len(fires)
    BY <1>1, FS_Interval
  <2> QED BY <2>1, FS_Subset
<1>3. Fires(id) = Cardinality(at) /\ Fires(id)' = Cardinality(at')
  BY DEF Fires
<1>4. /\ \A k : k \in at <=> FiredAt(k, id)
      /\ \A k : k \in at' <=> FiredAt(k, id)'
  BY DEF FiredAt
<1>5. ASSUME FiresSame(id) PROVE at' = at
  BY <1>4, <1>5 DEF FiresSame
<1>6. ASSUME FiresOnce(id) PROVE at' = at \cup {Len(fires) + 1} /\ Len(fires) + 1 \notin at
  <2>1. \A k : k \in at' <=> k \in at \/ k = Len(fires) + 1
    BY <1>4, <1>6 DEF FiresOnce
  <2>2. Len(fires) + 1 \notin at
    BY <1>1
  <2>3. at' = at \cup {Len(fires) + 1}
    BY <2>1
  <2> QED BY <2>2, <2>3
<1> HIDE DEF at
<1>7. ASSUME FiresOnce(id) PROVE Cardinality(at') = Cardinality(at) + 1
  BY <1>2, <1>6, <1>7, FS_AddElement
<1> QED BY <1>3, <1>5, <1>7

LEMMA MatchesKept ==
  ASSUME CellsInv, AnyStep, NEW id \in Helpers, SameLooked(id)
  PROVE  \A k : Matches(id, k)' <=> Matches(id, k)
<1>0. helper'[id].to = helper[id].to /\ helper'[id].from = helper[id].from
  BY CellChanges DEF CellKept
<1>1. ASSUME NEW k \in LookedAt(id), NEW s
      PROVE  Remembers(HeardBefore(id, k), s)' <=> Remembers(HeardBefore(id, k), s)
  <2>1. HeardBefore(id, k)' = HeardBefore(id, k)
    BY <1>1 DEF SameLooked
  <2>2. \A j \in HeardBefore(id, k) : deliveries'[j] = deliveries[j]
    BY DEF SameLooked, HeardBefore
  <2> QED BY <2>1, <2>2 DEF Remembers
<1> QED BY <1>0, <1>1 DEF Matches, SameLooked

LEMMA MatchesNew ==
  ASSUME CellsInv, Recalls, AnyStep, NEW id \in Helpers, NEW last, NewlyLooked(id, last)
  PROVE  \A k : Matches(id, k)' <=>
           \/ Matches(id, k)
           \/ /\ k = last
              /\ helper[id].previous = helper[id].from /\ Top.event = helper[id].to
<1>0. helper'[id].to = helper[id].to /\ helper'[id].from = helper[id].from
  BY CellChanges DEF CellKept
<1>1. UNCHANGED deliveries /\ \A k : HeardBefore(id, k)' = HeardBefore(id, k)
  BY DEF NewlyLooked, HeardBefore, Heard
<1>2. \A k, s : Remembers(HeardBefore(id, k), s)' <=> Remembers(HeardBefore(id, k), s)
  BY <1>1 DEF Remembers
<1>3. Remembers(HeardBefore(id, last), helper[id].from)
        <=> helper[id].previous = helper[id].from
  <2>1. Remembers(LookedAt(id), helper[id].previous)
    BY DEF Recalls
  <2>2. LookedAt(id) \subseteq Nat
    BY HeardTypes DEF LookedAt, CellsInv, RegistryInv
  <2> QED BY <2>1, <2>2, RemembersOne DEF NewlyLooked
<1>4. ASSUME NEW k
      PROVE  Matches(id, k)' <=>
               \/ Matches(id, k)
               \/ /\ k = last
                  /\ helper[id].previous = helper[id].from /\ Top.event = helper[id].to
  <2>1. CASE k = last
    BY <1>0, <1>1, <1>2, <1>3, <2>1 DEF Matches, NewlyLooked
  <2>2. CASE k # last
    BY <1>0, <1>1, <1>2, <2>2 DEF Matches, NewlyLooked
  <2> QED BY <2>1, <2>2
<1> QED BY <1>4

LEMMA TallyStep ==
  ASSUME CellsInv, Unlooked, Recalls, Tally, [HelperNext]_allVars
  PROVE  Tally'
<1>0. AnyStep /\ CellsInv'
  BY HelperSteps, CellsStep DEF AnyStep, CellsInv, RegistryInv, NotifyInv
<1>1. /\ \A id \in Helpers : CellKept(id)
      /\ \A id \in Helpers' : id \in Helpers \/ CellNew(id)
      /\ Fire => Looks
  BY <1>0, CellChanges, LookEffect DEF CellsInv, RegistryInv
<1>2. ASSUME NEW id \in Helpers, helper[id].to # "Destroyed", ~ (Looks /\ id = Top.id)
      PROVE  Tallies(id)'
  <2>1. Tallies(id) /\ FiresSame(id)
    BY <1>0, <1>1, <1>2, FiredStep DEF Tally
  <2>2. \A k : Matches(id, k)' <=> Matches(id, k)
    BY <1>0, <1>2, LookedStep, MatchesKept
  <2>3. Matched(id)' = Matched(id)
    BY <1>2, <2>2, LookedStep DEF Matched, SameLooked
  <2>4. helper'[id].fired = helper[id].fired /\ helper'[id].once = helper[id].once
    BY <1>1, <1>2 DEF CellKept
  <2>5. Fires(id)' = Fires(id)
    BY <2>1, FiresCount
  <2>6. \A k : FiredAt(k, id)' <=> FiredAt(k, id)
    BY <2>1 DEF FiresSame
  <2> QED BY <2>1, <2>2, <2>3, <2>4, <2>5, <2>6 DEF Tallies
<1>3. ASSUME NEW id \in Helpers, helper[id].to # "Destroyed", Looks, id = Top.id
      PROVE  Tallies(id)'
  <2> DEFINE due == helper[id].previous = helper[id].from /\ Top.event = helper[id].to
  <2>1. PICK last : NewlyLooked(id, last)
    BY <1>3, LookedStep
  <2>2. Tallies(id)
    BY <1>3 DEF Tally
  <2>3. \A k : Matches(id, k)' <=> Matches(id, k) \/ (k = last /\ due)
    BY <1>0, <2>1, MatchesNew
  <2>4. Fire <=> due /\ (helper[id].once => ~ helper[id].fired)
    BY <1>3 DEF Looks, Ignore, Fire, Recognises
  <2>5. /\ Fire => FiresOnce(id) /\ Fires(id)' = Fires(id) + 1
        /\ ~ Fire => FiresSame(id) /\ Fires(id)' = Fires(id)
    BY <1>0, <1>3, FiredStep, FiresCount
  <2>6. /\ helper'[id].once = helper[id].once
        /\ helper'[id].fired = IF Fire THEN TRUE ELSE helper[id].fired
        /\ helper[id].fired \in BOOLEAN /\ helper[id].once \in BOOLEAN
    BY <1>1, <1>3 DEF CellKept, CellsInv, HelperTypeOK
  <2>7. CASE helper[id].once
    <3>1. helper'[id].fired <=> \E k : Matches(id, k)'
      BY <2>2, <2>3, <2>4, <2>6, <2>7 DEF Tallies
    <3>2. helper'[id].fired <=> \E k : FiredAt(k, id)'
      BY <2>2, <2>5, <2>6, <2>7 DEF Tallies, FiresOnce, FiresSame
    <3> QED BY <2>6, <2>7, <3>1, <3>2 DEF Tallies
  <2>8. CASE ~ helper[id].once
    <3>1. Matched(id) = {k \in LookedAt(id) : Matches(id, k)}
          /\ \A k : Matches(id, k) => k \in LookedAt(id)
      BY DEF Matched, Matches
    <3>2. Matched(id)' = IF due THEN Matched(id) \cup {last} ELSE Matched(id)
      BY <2>1, <2>3, <3>1 DEF Matched, NewlyLooked
    <3>3. IsFiniteSet(Matched(id)) /\ last \notin Matched(id)
      <4>1. /\ Matched(id) \subseteq 1 .. Len(deliveries) /\ Len(deliveries) \in Nat
            /\ last \notin Matched(id)
        BY <2>1, <3>1, HeardTypes DEF LookedAt, NewlyLooked, CellsInv, RegistryInv
      <4>2. IsFiniteSet(1 .. Len(deliveries))
        BY <4>1, FS_Interval
      <4> QED BY <4>1, <4>2, FS_Subset
    <3>4. Cardinality(Matched(id)') =
            IF due THEN Cardinality(Matched(id)) + 1 ELSE Cardinality(Matched(id))
      BY <3>2, <3>3, FS_AddElement
    <3> QED BY <2>2, <2>4, <2>5, <2>6, <2>8, <3>4 DEF Tallies
  <2> QED BY <2>7, <2>8
<1>4. ASSUME NEW id, CellNew(id) PROVE Tallies(id)'
  <2>1. Heard(id)' = {} /\ ~ helper'[id].fired /\ \A k : ~ FiredAt(k, id)'
    BY <1>0, <1>4, NewlyCreated, TheNewHelper
  <2>2. LookedAt(id)' = {} /\ \A k : ~ Matches(id, k)'
    BY <2>1 DEF LookedAt, Matches
  <2>3. Matched(id)' = {}
    BY <2>2 DEF Matched
  <2>4. {k \in DOMAIN fires' : fires'[k] = id} = {}
    BY <2>1 DEF FiredAt
  <2>5. Fires(id)' = Cardinality(Matched(id)')
    BY <2>3, <2>4 DEF Fires
  <2> QED BY <2>1, <2>2, <2>5 DEF Tallies
<1>5. \A id \in Helpers : helper'[id].to = helper[id].to
  BY <1>1 DEF CellKept
<1> QED BY <1>1, <1>2, <1>3, <1>4, <1>5 DEF Tally

LEMMA TallyHolds == HelperSpec => [](Unlooked /\ Recalls /\ Tally)
<1> DEFINE Inv == Unlooked /\ Recalls /\ Tally
<1>1. HelperInit => Inv
  <2> SUFFICES ASSUME HelperInit PROVE Inv
    OBVIOUS
  <2>1. stack = <<>> /\ helper = <<>> /\ Helpers = {}
    BY DEF HelperInit, Init, Helpers
  <2> QED BY <2>1 DEF Unlooked, CallAt, Recalls, Tally
<1>2. CellsInv /\ Inv /\ [HelperNext]_allVars => Inv'
  BY HelperEffect, RecallsStep, TallyStep
<1> QED BY <1>1, <1>2, CellsHold, PTL DEF HelperSpec

-----------------------------------------------------------------------------
(* The transitions at which a helper was registered: from its subscription *)
(* on, while it is, without a gap; each goes on from where the last ended. *)
Reg(n, id) == n \in DOMAIN log /\ id \in log[n].registered

Chained ==
  \A n \in DOMAIN log :
    /\ log[n].from # "Destroyed"
    /\ n # 1 => log[n].from = log[n - 1].to

Unregistered(id, n) == \A m : Reg(m, id) => m >= n

Begun(id) ==
  \A n : Reg(n, id) =>
    \/ Reg(n - 1, id)
    \/ log[n].from = helper[id].since /\ Unregistered(id, n)

Still(id) ==
  Observes(id) => \/ Reg(Len(log), id)
                  \/ state = helper[id].since /\ \A m : ~ Reg(m, id)

Registrations == Chained /\ \A id \in Helpers : Begun(id) /\ Still(id)

(* A step applies a transition or leaves the log as it is. *)
Logs(r) ==
  /\ r \in [from : States, to : States, registered : SUBSET Nat]
  /\ log' = Append(log, r) /\ r.from = state /\ state # "Destroyed"
  /\ \A x : x \in r.registered <=> Observes(x)
  /\ UNCHANGED <<observers, nextId, deliveries>>

LEMMA LogKinds ==
  ASSUME CellsInv, [HelperNext]_allVars
  PROVE  UNCHANGED <<state, log>> \/ \E r : Logs(r)
<1>0. TypeOK
  BY DEF CellsInv, RegistryInv
<1>1. CASE Releases
  BY <1>1 DEF Releases, Return
<1>2. CASE Applies
  <2>1. PICK next \in States, below \in Seq(Frames) : Apply(next, below)
    BY <1>2 DEF Applies
  <2>2. PICK r : /\ r = [from |-> state, to |-> next,
                         registered |-> {observers[i] : i \in DOMAIN observers}]
                 /\ log' = Append(log, r)
    BY <2>1 DEF Apply
  <2>3. \A x : x \in r.registered <=> Observes(x)
    BY <2>2 DEF Observes
  <2>4. r \in [from : States, to : States, registered : SUBSET Nat]
    BY <1>0, <2>2 DEF TypeOK
  <2> QED BY <2>1, <2>2, <2>3, <2>4 DEF Apply, Logs
<1>3. CASE [Next]_vars /\ ~ Applies
  BY <1>0, <1>3, TellKinds DEF Silent, Subscribe, Notify, Replay
<1> QED BY <1>1, <1>2, <1>3, HelperRegistry

LEMMA LogTypes ==
  ASSUME TypeOK
  PROVE  /\ log \in Seq([from : States, to : States, registered : SUBSET Nat])
         /\ Len(log) \in Nat /\ DOMAIN log = 1 .. Len(log)
         /\ \A n \in DOMAIN log :
              log[n] \in [from : States, to : States, registered : SUBSET Nat]
         /\ log # <<>> <=> Len(log) # 0
<1>1. log \in Seq([from : States, to : States, registered : SUBSET Nat])
  BY DEF TypeOK
<1> QED BY <1>1, LenProperties, ElementOfSeq, EmptySeq

(* What a transition adds to them. *)
LEMMA RegisteredNext ==
  ASSUME TypeOK, NEW r, Logs(r)
  PROVE  LET next == Len(log) + 1 IN
         /\ next \in Nat /\ Len(log') = next /\ DOMAIN log' = 1 .. next
         /\ log'[next] = r /\ \A n \in DOMAIN log : log'[n] = log[n] /\ n # next
         /\ \A n, x : Reg(n, x)' <=> Reg(n, x) \/ (n = next /\ Observes(x))
<1> DEFINE next == Len(log) + 1
<1>1. /\ next \in Nat /\ Len(log') = next /\ DOMAIN log' = 1 .. next
      /\ log'[next] = r /\ \A n \in DOMAIN log : log'[n] = log[n] /\ n # next
      /\ \A n : n \in 1 .. next <=> n \in DOMAIN log \/ n = next
  BY LogTypes, AppendProperties, LenProperties DEF Logs
<1>2. ASSUME NEW n, NEW x
      PROVE  Reg(n, x)' <=> Reg(n, x) \/ (n = next /\ Observes(x))
  <2>1. CASE n = next
    BY <1>1, <2>1 DEF Reg, Logs
  <2>2. CASE n # next
    BY <1>1, <2>2 DEF Reg
  <2> QED BY <2>1, <2>2
<1> QED BY <1>1, <1>2

LEMMA RegistrationsStep ==
  ASSUME CellsInv, Registrations, [HelperNext]_allVars
  PROVE  Registrations'
<1>0. /\ TypeOK /\ LogInv /\ AnyStep /\ IdsGiven /\ nextId \in Nat
      /\ Helpers \subseteq Nat
  <2>1. TypeOK /\ Sorted /\ LogInv /\ IdsGiven
    BY DEF CellsInv, RegistryInv, NotifyInv
  <2>2. AnyStep
    BY <2>1, HelperSteps DEF AnyStep
  <2> QED BY <2>1, <2>2 DEF CellsInv, HelperTypeOK, TypeOK
<1>1. /\ \A id \in Helpers : helper'[id].since = helper[id].since
      /\ \A id \in Helpers' : id \in Helpers \/ CellNew(id)
      /\ \A id \in Helpers : Observes(id)' => Observes(id)
  <2>1. \A id \in Helpers : Observes(id)' => Observes(id)
    <3>1. CASE Arm
      BY <1>0, <3>1, WithoutDrops DEF Arm, Observes, CellsInv, RegistryInv, NotifyInv
    <3>2. CASE ~ Arm
      BY <1>0, <3>2, HelperUntouched DEF AnyStep, Untouched
    <3> QED BY <3>1, <3>2
  <2> QED BY <1>0, <2>1, SinceKept, CellChanges
<1>2. CASE UNCHANGED <<state, log>>
  <2>1. \A n, id : Reg(n, id)' <=> Reg(n, id)
    BY <1>2 DEF Reg
  <2>2. Chained'
    BY <1>2 DEF Registrations, Chained
  <2>3. ASSUME NEW id \in Helpers PROVE (Begun(id) /\ Still(id))'
    <3>1. Begun(id) /\ Still(id)
      BY DEF Registrations
    <3>2. Begun(id)'
      BY <1>1, <1>2, <2>1, <3>1 DEF Begun, Unregistered
    <3>3. Still(id)'
      BY <1>1, <1>2, <2>1, <3>1 DEF Still
    <3> QED BY <3>2, <3>3
  <2>4. ASSUME NEW id, CellNew(id) PROVE (Begun(id) /\ Still(id))'
    <3>1. helper'[id].since = state /\ id = nextId
      BY <1>0, <2>4, NewlyCreated
    <3>2. \A m : ~ Reg(m, id)
      BY <1>0, <3>1 DEF Reg, IdsGiven
    <3> QED BY <1>2, <2>1, <3>1, <3>2 DEF Begun, Still
  <2> QED BY <1>1, <2>2, <2>3, <2>4 DEF Registrations
<1>3. CASE \E r : Logs(r)
  <2>1. PICK r : Logs(r)
    BY <1>3
  <2> DEFINE next == Len(log) + 1
  <2>2. /\ next \in Nat /\ Len(log') = next /\ DOMAIN log' = 1 .. next
        /\ log'[next] = r /\ \A n \in DOMAIN log : log'[n] = log[n] /\ n # next
        /\ \A n, x : Reg(n, x)' <=> Reg(n, x) \/ (n = next /\ Observes(x))
        /\ DOMAIN log = 1 .. Len(log) /\ Len(log) \in Nat /\ next - 1 = Len(log)
        /\ log # <<>> <=> Len(log) # 0
    BY <1>0, <2>1, RegisteredNext, LogTypes
  <2>3. Chained'
    <3> SUFFICES ASSUME NEW n \in DOMAIN log'
                 PROVE  /\ log'[n].from # "Destroyed"
                        /\ n # 1 => log'[n].from = log'[n - 1].to
      BY DEF Chained
    <3>1. CASE n = next
      <4>1. log'[n].from = state /\ state # "Destroyed"
        BY <2>1, <2>2, <3>1 DEF Logs
      <4>2. n # 1 => log'[n - 1] = log[Len(log)] /\ log[Len(log)].to = state
        BY <1>0, <2>2, <3>1 DEF LogInv
      <4> QED BY <4>1, <4>2
    <3>2. CASE n # next
      <4>1. n \in DOMAIN log /\ (n # 1 => n - 1 \in DOMAIN log)
        BY <2>2, <3>2
      <4> QED BY <2>2, <4>1 DEF Registrations, Chained
    <3> QED BY <3>1, <3>2
  <2>4. ASSUME NEW id \in Helpers PROVE (Begun(id) /\ Still(id))'
    <3>0. Begun(id) /\ Still(id) /\ helper'[id].since = helper[id].since
      BY <1>1 DEF Registrations
    <3>1. ASSUME NEW n, Reg(n, id)'
          PROVE  \/ Reg(n - 1, id)'
                 \/ log'[n].from = helper'[id].since /\ Unregistered(id, n)'
      <4>1. CASE n = next
        <5>1. Observes(id)
          BY <2>2, <3>1, <4>1 DEF Reg
        <5>2. CASE Reg(Len(log), id)
          BY <2>2, <4>1, <5>2
        <5>3. CASE state = helper[id].since /\ \A m : ~ Reg(m, id)
          <6>1. log'[n].from = helper'[id].since
            BY <2>1, <2>2, <3>0, <4>1, <5>3 DEF Logs
          <6>2. \A m : Reg(m, id)' => m >= n
            BY <2>2, <4>1, <5>3
          <6> QED BY <6>1, <6>2 DEF Unregistered
        <5> QED BY <3>0, <5>1, <5>2, <5>3 DEF Still
      <4>2. CASE n # next
        <5>1. Reg(n, id) /\ n \in DOMAIN log /\ log'[n] = log[n]
          BY <2>2, <3>1, <4>2 DEF Reg
        <5>2. CASE Reg(n - 1, id)
          BY <2>2, <5>2
        <5>3. CASE log[n].from = helper[id].since /\ Unregistered(id, n)
          <6>1. \A m : Reg(m, id)' => m >= n
            BY <2>2, <5>1, <5>3 DEF Unregistered
          <6> QED BY <3>0, <5>1, <5>3, <6>1 DEF Unregistered
        <5> QED BY <3>0, <5>1, <5>2, <5>3 DEF Begun
      <4> QED BY <4>1, <4>2
    <3>2. Begun(id)'
      BY <3>1 DEF Begun
    <3>3. Still(id)'
      BY <1>1, <2>2 DEF Still
    <3> QED BY <3>2, <3>3
  <2>5. \A id \in Helpers' : id \in Helpers
    <3>1. \A id : ~ CellNew(id)
      BY <1>0, <2>1 DEF CellNew, DoOn, Subscribe, Logs
    <3> QED BY <1>1, <3>1
  <2> QED BY <2>3, <2>4, <2>5 DEF Registrations
<1> QED BY <1>2, <1>3, LogKinds

-----------------------------------------------------------------------------
(* The replay: the states passed before the subscription, in their order,  *)
(* each of them replayed or still to be.                                   *)
PathTo(s) ==
  {t \in {"Created", "Started", "Resumed"} : s # "Destroyed" /\ Rank(t) <= Rank(s)}

Replays(id) == {k \in Heard(id) : deliveries[k].n = 0}

Climbs(path, todo) ==
  /\ \A a \in DOMAIN todo : todo[a] \in path
  /\ \A a, b \in DOMAIN todo : a < b => Rank(todo[a]) < Rank(todo[b])

CaughtUp(id, path) ==
  /\ \A k \in Replays(id) : deliveries[k].event \in path
  /\ \A j, k \in Replays(id) :
       j < k => Rank(deliveries[j].event) < Rank(deliveries[k].event)
  /\ \A i : SubAt(stack, i, id) =>
       /\ Climbs(path, stack[i].todo)
       /\ \A k \in Replays(id), a \in DOMAIN stack[i].todo :
            Rank(deliveries[k].event) < Rank(stack[i].todo[a])
  /\ \A t \in path :
       \/ \E k \in Replays(id) : deliveries[k].event = t
       \/ \E i : /\ SubAt(stack, i, id)
                 /\ \E a \in DOMAIN stack[i].todo : stack[i].todo[a] = t

ReplaysDue == \A id \in Helpers : CaughtUp(id, PathTo(helper[id].since))

LEMMA RankValues ==
  /\ Rank("Initialized") = 0 /\ Rank("Created") = 1 /\ Rank("Started") = 2
  /\ Rank("Resumed") = 3 /\ Rank("Destroyed") = 4
BY DEF Rank

LEMMA CatchUpClimbs ==
  ASSUME NEW s \in States
  PROVE  /\ Climbs(PathTo(s), CatchUp(s))
         /\ \A t \in PathTo(s) : \E a \in DOMAIN CatchUp(s) : CatchUp(s)[a] = t
<1> DEFINE all == <<"Created", "Started", "Resumed">>
<1>1. CASE s = "Destroyed"
  <2>1. CatchUp(s) = <<>> /\ PathTo(s) = {}
    BY <1>1 DEF CatchUp, PathTo
  <2> QED BY <2>1 DEF Climbs
<1>2. CASE s # "Destroyed"
  <2>1. CatchUp(s) = SubSeq(all, 1, Rank(s)) /\ Rank(s) \in 0 .. 3
    BY <1>2, RankValues DEF CatchUp, States
  <2>2. \A i \in 1 .. 3 : all[i] \in States /\ Rank(all[i]) = i
    BY RankValues DEF States
  <2>3. all[1] = "Created" /\ all[2] = "Started" /\ all[3] = "Resumed"
    OBVIOUS
  <2>4. \A t \in {"Created", "Started", "Resumed"} : Rank(t) \in 1 .. 3 /\ all[Rank(t)] = t
    BY RankValues, <2>3
  <2> HIDE DEF all
  <2>5. \A i \in 1 .. Rank(s) : all[i] \in States
    BY <2>1, <2>2
  <2>6. /\ DOMAIN CatchUp(s) = 1 .. Rank(s)
        /\ \A a \in 1 .. Rank(s) : CatchUp(s)[a] = all[a]
    <3>1. /\ Len(SubSeq(all, 1, Rank(s))) = Rank(s)
          /\ \A a \in 1 .. Rank(s) : SubSeq(all, 1, Rank(s))[a] = all[a]
          /\ SubSeq(all, 1, Rank(s)) \in Seq(States)
      BY <2>1, <2>5, SubSeqProperties
    <3> QED BY <2>1, <3>1, LenProperties
  <2>7. \A a \in 1 .. Rank(s) : all[a] \in PathTo(s) /\ Rank(all[a]) = a
    <3> SUFFICES ASSUME NEW a \in 1 .. Rank(s)
                 PROVE  all[a] \in PathTo(s) /\ Rank(all[a]) = a
      OBVIOUS
    <3>1. a \in 1 .. 3 /\ a <= Rank(s) /\ Rank(all[a]) = a
      BY <2>1, <2>2
    <3>2. all[a] \in {"Created", "Started", "Resumed"}
      BY <2>3, <3>1
    <3> QED BY <1>2, <3>1, <3>2 DEF PathTo
  <2>8. \A t \in PathTo(s) : Rank(t) \in 1 .. Rank(s) /\ all[Rank(t)] = t
    BY <2>1, <2>4 DEF PathTo
  <2>9. Climbs(PathTo(s), CatchUp(s))
    BY <2>6, <2>7 DEF Climbs
  <2> QED BY <2>6, <2>8, <2>9
<1> QED BY <1>1, <1>2

(* The frame of a subscribe is changed by its own replay only. *)
LEMMA TodoKept ==
  ASSUME CellsInv, [HelperNext]_allVars, NEW id \in Helpers,
         ~ (Replay /\ Top.id = id)
  PROVE  /\ \A i : SubAt(stack', i, id) => SubAt(stack, i, id) /\ stack'[i] = stack[i]
         /\ \A i : SubAt(stack, i, id) => \/ SubAt(stack', i, id)
                                          \/ stack[i].todo = <<>>
<1>0. /\ TypeOK /\ AnyStep /\ Apart /\ id # nextId /\ id \in Nat
  <2>1. TypeOK /\ Sorted /\ id \in 0 .. nextId - 1
    BY DEF CellsInv, HelperTypeOK, RegistryInv, NotifyInv
  <2> QED BY <2>1, HelperSteps DEF AnyStep, CellsInv, TypeOK
<1>1. \A i : SubAt(stack, i, id) => SubAt(stack', i, id) \/ stack[i].todo = <<>>
  <2>1. CASE Arm /\ id = Top.id
    <3>1. SubAt(stack, Depth, id) /\ Top.todo = <<>>
      BY <2>1, TheHelper DEF Arm
    <3>2. \A i : SubAt(stack, i, id) => i = Depth
      BY <1>0, <3>1 DEF Apart
    <3> QED BY <3>1, <3>2 DEF Top, Depth
  <2>2. CASE ~ (Arm /\ id = Top.id)
    BY <1>0, <2>2, HelperUntouched DEF AnyStep, Untouched
  <2> QED BY <2>1, <2>2
<1>2. \A i : SubAt(stack', i, id) => SubAt(stack, i, id)
  <2>1. CASE Arm
    BY <2>1, TheHelper DEF SubPopped
  <2>2. CASE ~ Arm
    BY <1>0, <2>2, HelperUntouched DEF AnyStep, Untouched
  <2> QED BY <2>1, <2>2
<1>3. ASSUME NEW i, SubAt(stack', i, id), \E j \in DOMAIN stack : stack[j] = stack'[i]
      PROVE  stack'[i] = stack[i]
  <2>1. PICK j \in DOMAIN stack : stack[j] = stack'[i]
    BY <1>3
  <2>2. SubAt(stack, j, id) /\ SubAt(stack, i, id)
    BY <1>2, <1>3, <2>1 DEF SubAt
  <2> QED BY <1>0, <2>1, <2>2 DEF Apart
<1>4. ASSUME NEW i, SubAt(stack', i, id) PROVE stack'[i] = stack[i]
  <2>0. i \in DOMAIN stack' /\ stack'[i].op = "subscribe" /\ stack'[i].id = id
    BY <1>4 DEF SubAt
  <2>1. CASE Silent
    BY <1>3, <1>4, <2>0, <2>1 DEF Silent
  <2>2. CASE Applies
    <3>1. PICK next \in States, below \in Seq(Frames) :
            /\ Apply(next, below)
            /\ \A a \in DOMAIN below : \E j \in DOMAIN stack : stack[j] = below[a]
      BY <2>2 DEF Applies
    <3>2. PICK f : /\ f = ApplyFrame(next, Len(log) + 1, Snapshot(state, next))
                   /\ stack' = Append(below, f)
      BY <3>1 DEF Apply
    <3>3. f.op = "apply" /\ f \in Frames
      <4>1. Snapshot(state, next) \in Seq(Nat) /\ Len(log) + 1 \in Nat
        BY <1>0, SnapshotType, LogTypes DEF TypeOK
      <4> QED BY <3>2, <4>1 DEF ApplyFrame, Frames
    <3>4. /\ DOMAIN below = 1 .. Len(below) /\ Len(below) \in Nat
          /\ DOMAIN stack' = 1 .. Len(below) + 1
          /\ stack'[Len(below) + 1] = f
          /\ \A a \in 1 .. Len(below) : stack'[a] = below[a]
      BY <3>2, <3>3, AppendProperties, LenProperties
    <3>5. i \in DOMAIN below /\ stack'[i] = below[i]
      <4>1. i # Len(below) + 1
        BY <2>0, <3>3, <3>4
      <4> QED BY <2>0, <3>4, <4>1
    <3> QED BY <1>3, <1>4, <3>1, <3>5
  <2>3. CASE Subscribe
    <3>1. PICK f : f = SubscribeFrame(nextId, CatchUp(state)) /\ stack' = Append(stack, f)
      BY <2>3 DEF Subscribe
    <3>2. f \in Frames
      <4>1. CatchUp(state) \in Seq(States) /\ nextId \in Nat
        BY <1>0, CatchUpType DEF TypeOK
      <4> QED BY <3>1, <4>1 DEF SubscribeFrame, Frames
    <3>3. /\ DOMAIN stack = 1 .. Len(stack) /\ \A a \in 1 .. Len(stack) : stack'[a] = stack[a]
      BY <1>0, <3>1, <3>2, AppendProperties, LenProperties DEF TypeOK
    <3> QED BY <1>2, <1>4, <3>3 DEF SubAt
  <2>4. CASE Notify
    <3>1. PICK f, g, top, d : NotifyEffect(f, g, top, d)
      BY <1>0, <2>4, NotifyDoes
    <3>2. i \in 1 .. top - 1
      <4>1. i # top /\ i # top + 1 /\ i \in 1 .. top + 1 /\ top \in Nat
        BY <2>0, <3>1 DEF NotifyEffect, CallsOne
      <4> QED BY <4>1
    <3> QED BY <3>1, <3>2 DEF NotifyEffect, CallsOne
  <2>5. CASE Replay
    <3>1. PICK f, g, top, d : ReplayEffect(f, g, top, d)
      BY <1>0, <2>5, ReplayDoes
    <3>2. i \in 1 .. top - 1
      <4>1. f.id # id
        BY <2>5, <3>1 DEF ReplayEffect, CallsOne
      <4>2. i # top /\ i # top + 1 /\ i \in 1 .. top + 1 /\ top \in Nat
        BY <2>0, <3>1, <4>1 DEF ReplayEffect, CallsOne
      <4> QED BY <4>2
    <3> QED BY <3>1, <3>2 DEF ReplayEffect, CallsOne
  <2>6. CASE Releases
    <3>1. stack # <<>> /\ stack' = Below
      BY <2>6 DEF Releases, On, Return
    <3>2. /\ DOMAIN stack' = 1 .. Len(stack) - 1
          /\ \A a \in 1 .. Len(stack) - 1 : stack'[a] = stack[a]
      BY <1>0, <3>1, TopAndBelow, LenProperties
    <3> QED BY <2>0, <3>2
  <2> QED BY <1>0, <2>1, <2>2, <2>3, <2>4, <2>5, <2>6, HelperRegistry, TellKinds
<1> QED BY <1>1, <1>2, <1>4

(* Nor is it that the observer of a helper is replayed anything else. *)
LEMMA ReplaysKept ==
  ASSUME CellsInv, [HelperNext]_allVars, NEW id \in Helpers,
         ~ (Replay /\ Top.id = id)
  PROVE  /\ Replays(id)' = Replays(id)
         /\ \A k \in Replays(id) : deliveries'[k] = deliveries[k]
<1>0. TypeOK
  BY DEF CellsInv, RegistryInv
<1>1. CASE UNCHANGED deliveries
  BY <1>1 DEF Replays, Heard
<1>2. ASSUME NEW d \in [id : Nat, event : States, n : Nat], d.n # 0 \/ d.id # id,
             deliveries' = Append(deliveries, d)
      PROVE  /\ Replays(id)' = Replays(id)
             /\ \A k \in Replays(id) : deliveries'[k] = deliveries[k]
  <2> DEFINE next == Len(deliveries) + 1
  <2>1. /\ next \in Nat /\ DOMAIN deliveries = 1 .. Len(deliveries)
        /\ DOMAIN deliveries' = 1 .. next /\ deliveries'[next] = d
        /\ \A k \in DOMAIN deliveries : deliveries'[k] = deliveries[k]
    BY <1>0, <1>2, Delivered
  <2>2. \A k : k \in DOMAIN deliveries' <=> k \in DOMAIN deliveries \/ k = next
    BY <2>1
  <2>3. \A k : k \in Replays(id)' <=> k \in Replays(id)
    BY <1>2, <2>1, <2>2 DEF Replays, Heard
  <2>4. Replays(id) \subseteq DOMAIN deliveries
    BY DEF Replays, Heard
  <2> QED BY <2>1, <2>3, <2>4
<1>3. CASE Notify
  <2>1. PICK f, g, top, d : NotifyEffect(f, g, top, d)
    BY <1>0, <1>3, NotifyDoes
  <2>2. d.n # 0
    <3>1. f.n \in DOMAIN log
      BY <2>1 DEF NotifyEffect, CallsOne, CellsInv, RegistryInv, NotifyInv, FramesDue, Due
    <3> QED BY <1>0, <2>1, <3>1, LogTypes DEF NotifyEffect
  <2> QED BY <1>2, <2>1, <2>2 DEF NotifyEffect, CallsOne
<1>4. CASE Replay
  <2>1. PICK f, g, top, d : ReplayEffect(f, g, top, d)
    BY <1>0, <1>4, ReplayDoes
  <2>2. d.id # id
    BY <1>4, <2>1 DEF ReplayEffect, CallsOne
  <2> QED BY <1>2, <2>1, <2>2 DEF ReplayEffect, CallsOne
<1>5. CASE Releases
  BY <1>1, <1>5 DEF Releases, Return
<1>6. Silent \/ Applies \/ Subscribe => UNCHANGED deliveries
  BY DEF Silent, Applies, Apply, Subscribe
<1> QED BY <1>0, <1>1, <1>3, <1>4, <1>5, <1>6, HelperRegistry, TellKinds

LEMMA ReplayTakes ==
  ASSUME CellsInv, NEW id, NEW path, CaughtUp(id, path), Replay, Top.id = id
  PROVE  CaughtUp(id, path)'
<1>0. TypeOK /\ Apart
  BY DEF CellsInv, RegistryInv
<1>1. PICK f, g, top, d : ReplayEffect(f, g, top, d)
  BY <1>0, ReplayDoes
<1>2. PICK todo, rest : /\ todo = f.todo /\ rest = g.todo /\ rest = Tail(todo)
                        /\ todo \in Seq(States) /\ todo # <<>>
  BY <1>1 DEF ReplayEffect
<1> DEFINE next == Len(deliveries) + 1
<1>3. /\ SubAt(stack, top, id) /\ stack[top].todo = todo /\ stack'[top].todo = rest
      /\ \A i : SubAt(stack', i, id) <=> i = top
  <2>1. SubAt(stack, top, id) /\ stack[top].todo = todo /\ stack'[top].todo = rest
    BY <1>1, <1>2 DEF ReplayEffect, CallsOne, SubAt
  <2>2. SubsSame
    BY <1>1, CallEffect DEF ReplayEffect
  <2>3. \A i : SubAt(stack, i, id) => i = top
    BY <1>0, <2>1 DEF Apart
  <2> QED BY <2>1, <2>2, <2>3 DEF SubsSame
<1>4. /\ next \in Nat /\ DOMAIN deliveries = 1 .. Len(deliveries) /\ Len(deliveries) \in Nat
      /\ DOMAIN deliveries' = 1 .. next /\ deliveries'[next] = d
      /\ \A k \in DOMAIN deliveries : deliveries'[k] = deliveries[k]
      /\ d.id = id /\ d.n = 0 /\ d.event = Head(todo)
  <2>1. d \in [id : Nat, event : States, n : Nat] /\ deliveries' = Append(deliveries, d)
    BY <1>1 DEF ReplayEffect, CallsOne
  <2>2. d.id = id /\ d.n = 0 /\ d.event = Head(todo)
    BY <1>1, <1>2 DEF ReplayEffect, CallsOne
  <2> QED BY <1>0, <2>1, <2>2, Delivered, HeardTypes
<1>5. \A k : k \in Replays(id)' <=> k \in Replays(id) \/ k = next
  <2>1. \A k : k \in DOMAIN deliveries' <=> k \in DOMAIN deliveries \/ k = next
    BY <1>4
  <2>2. next \notin DOMAIN deliveries
    BY <1>4
  <2> QED BY <1>4, <2>1, <2>2 DEF Replays, Heard
<1>6. /\ \A k \in Replays(id) : deliveries'[k] = deliveries[k]
      /\ \A k \in Replays(id) : ~ (next < k)
  BY <1>4 DEF Replays, Heard
<1>7. /\ 1 \in DOMAIN todo /\ todo[1] = Head(todo)
      /\ \A a \in DOMAIN rest :
           a \in Nat /\ a + 1 \in DOMAIN todo /\ 1 < a + 1 /\ rest[a] = todo[a + 1]
      /\ \A a \in DOMAIN todo : a = 1 \/ \E b \in DOMAIN rest : todo[a] = rest[b]
  BY <1>2, HeadTail
<1>8. /\ \A a \in DOMAIN todo : todo[a] \in path
      /\ \A a, b \in DOMAIN todo : a < b => Rank(todo[a]) < Rank(todo[b])
      /\ \A k \in Replays(id), a \in DOMAIN todo :
           Rank(deliveries[k].event) < Rank(todo[a])
  BY <1>3 DEF CaughtUp, Climbs
<1>9. \A k \in Replays(id)' : deliveries'[k].event \in path
  BY <1>4, <1>5, <1>6, <1>7, <1>8 DEF CaughtUp
<1>10. \A j, k \in Replays(id)' :
         j < k => Rank(deliveries'[j].event) < Rank(deliveries'[k].event)
  <2> SUFFICES ASSUME NEW j \in Replays(id)', NEW k \in Replays(id)', j < k
               PROVE  Rank(deliveries'[j].event) < Rank(deliveries'[k].event)
    OBVIOUS
  <2>1. CASE k \in Replays(id)
    <3>1. j \in Replays(id)
      BY <1>5, <1>6, <2>1
    <3> QED BY <1>6, <2>1, <3>1 DEF CaughtUp
  <2>2. CASE k = next
    <3>1. j \in Replays(id)
      BY <1>4, <1>5, <2>2
    <3> QED BY <1>4, <1>6, <1>7, <1>8, <2>2, <3>1
  <2> QED BY <1>5, <2>1, <2>2
<1>11. Climbs(path, rest)
  <2>1. \A a, b \in DOMAIN rest : a < b => Rank(rest[a]) < Rank(rest[b])
    <3> SUFFICES ASSUME NEW a \in DOMAIN rest, NEW b \in DOMAIN rest, a < b
                 PROVE  Rank(rest[a]) < Rank(rest[b])
      OBVIOUS
    <3>1. a + 1 < b + 1 /\ a + 1 \in DOMAIN todo /\ b + 1 \in DOMAIN todo
      BY <1>7
    <3> QED BY <1>7, <1>8, <3>1
  <2> QED BY <1>7, <1>8, <2>1 DEF Climbs
<1>12. \A k \in Replays(id)', a \in DOMAIN rest :
         Rank(deliveries'[k].event) < Rank(rest[a])
  <2> SUFFICES ASSUME NEW k \in Replays(id)', NEW a \in DOMAIN rest
               PROVE  Rank(deliveries'[k].event) < Rank(rest[a])
    OBVIOUS
  <2>1. a + 1 \in DOMAIN todo /\ rest[a] = todo[a + 1] /\ 1 < a + 1
    BY <1>7
  <2>2. CASE k \in Replays(id)
    BY <1>6, <1>8, <2>1, <2>2
  <2>3. CASE k = next
    BY <1>4, <1>7, <1>8, <2>1, <2>3
  <2> QED BY <1>5, <2>2, <2>3
<1>13. ASSUME NEW t \in path
       PROVE  \/ \E k \in Replays(id)' : deliveries'[k].event = t
              \/ \E a \in DOMAIN rest : rest[a] = t
  <2>1. CASE \E k \in Replays(id) : deliveries[k].event = t
    BY <1>5, <1>6, <2>1
  <2>2. CASE \E a \in DOMAIN todo : todo[a] = t
    <3>1. PICK a \in DOMAIN todo : todo[a] = t
      BY <2>2
    <3>2. CASE a = 1
      BY <1>4, <1>5, <1>7, <3>1, <3>2
    <3>3. CASE a # 1
      BY <1>7, <3>1, <3>3
    <3> QED BY <3>2, <3>3
  <2>3. \A i : SubAt(stack, i, id) => i = top
    BY <1>0, <1>3 DEF Apart
  <2> QED BY <1>3, <2>1, <2>2, <2>3 DEF CaughtUp
<1>14. ASSUME NEW i, SubAt(stack', i, id)
       PROVE  stack'[i].todo = rest
  BY <1>3, <1>14
<1> QED BY <1>3, <1>9, <1>10, <1>11, <1>12, <1>13, <1>14 DEF CaughtUp

LEMMA ReplaysDueStep ==
  ASSUME CellsInv, ReplaysDue, [HelperNext]_allVars
  PROVE  ReplaysDue'
<1>0. TypeOK /\ AnyStep /\ IdsGiven /\ nextId \in Nat
  <2>1. TypeOK /\ Sorted /\ IdsGiven
    BY DEF CellsInv, RegistryInv, NotifyInv
  <2> QED BY <2>1, HelperSteps DEF AnyStep, TypeOK
<1>1. ASSUME NEW id \in Helpers
      PROVE  CaughtUp(id, PathTo(helper[id].since))'
  <2>1. PICK path : path = PathTo(helper[id].since)
    OBVIOUS
  <2>2. helper'[id].since = helper[id].since
    BY <1>0, SinceKept
  <2>3. CaughtUp(id, path)
    BY <2>1 DEF ReplaysDue
  <2>4. CASE Replay /\ Top.id = id
    BY <2>1, <2>2, <2>3, <2>4, ReplayTakes
  <2>5. CASE ~ (Replay /\ Top.id = id)
    <3>1. /\ \A i : SubAt(stack', i, id) => SubAt(stack, i, id) /\ stack'[i] = stack[i]
          /\ \A i : SubAt(stack, i, id) => SubAt(stack', i, id) \/ stack[i].todo = <<>>
      BY <2>5, TodoKept
    <3>2. /\ Replays(id)' = Replays(id)
          /\ \A k \in Replays(id) : deliveries'[k] = deliveries[k]
      BY <2>5, ReplaysKept
    <3>3. \A i : SubAt(stack, i, id) /\ stack[i].todo # <<>> =>
                   SubAt(stack', i, id) /\ stack'[i] = stack[i]
      BY <3>1
    <3>4. \A i : (\E a \in DOMAIN stack[i].todo : TRUE) => stack[i].todo # <<>>
      OBVIOUS
    <3>5. \A t \in path :
            \/ \E k \in Replays(id)' : deliveries'[k].event = t
            \/ \E i : /\ SubAt(stack', i, id)
                      /\ \E a \in DOMAIN stack'[i].todo : stack'[i].todo[a] = t
      BY <2>3, <3>2, <3>3, <3>4 DEF CaughtUp
    <3>6. CaughtUp(id, path)'
      BY <2>3, <3>1, <3>2, <3>5 DEF CaughtUp
    <3> QED BY <2>1, <2>2, <3>6
  <2> QED BY <2>4, <2>5
<1>2. ASSUME NEW id, CellNew(id)
      PROVE  CaughtUp(id, PathTo(helper[id].since))'
  <2>1. Heard(id)' = {} /\ helper'[id].since = state /\ id = nextId /\ Subscribe
    BY <1>0, <1>2, NewlyCreated
  <2>2. \A i : ~ SubAt(stack, i, id)
    BY <1>0, <2>1 DEF SubAt, IdsGiven
  <2>3. \A i : SubAt(stack', i, id) <=> i = Depth + 1
    BY <1>0, <2>1, <2>2, SubscribeEffect DEF SubPushed
  <2>4. PICK f : f = SubscribeFrame(nextId, CatchUp(state)) /\ stack' = Append(stack, f)
    BY <2>1 DEF Subscribe
  <2>5. f \in Frames /\ f.todo = CatchUp(state)
    <3>1. CatchUp(state) \in Seq(States)
      BY <1>0, CatchUpType DEF TypeOK
    <3> QED BY <1>0, <2>4, <3>1 DEF SubscribeFrame, Frames
  <2>6. stack'[Depth + 1] = f
    BY <1>0, <2>4, <2>5, AppendProperties DEF TypeOK, Depth
  <2>7. Replays(id)' = {}
    BY <2>1 DEF Replays
  <2>8. /\ Climbs(PathTo(state), f.todo)
        /\ \A t \in PathTo(state) : \E a \in DOMAIN f.todo : f.todo[a] = t
    BY <1>0, <2>5, CatchUpClimbs DEF TypeOK
  <2>9. PICK path : path = PathTo(state)
    OBVIOUS
  <2>10. CaughtUp(id, path)'
    <3>1. \A i : SubAt(stack', i, id) => stack'[i] = f
      BY <2>3, <2>6
    <3>2. SubAt(stack', Depth + 1, id)
      BY <2>3
    <3>3. Climbs(path, f.todo) /\ \A t \in path : \E a \in DOMAIN f.todo : f.todo[a] = t
      BY <2>8, <2>9
    <3>4. \A t \in path : \E i : /\ SubAt(stack', i, id)
                                 /\ \E a \in DOMAIN stack'[i].todo : stack'[i].todo[a] = t
      BY <2>6, <3>2, <3>3
    <3> QED BY <2>7, <3>1, <3>3, <3>4 DEF CaughtUp
  <2> QED BY <2>1, <2>9, <2>10
<1>3. \A id \in Helpers' : id \in Helpers \/ CellNew(id)
  BY <1>0, CellChanges
<1> QED BY <1>1, <1>2, <1>3 DEF ReplaysDue

LEMMA HistoryHolds == HelperSpec => [](Registrations /\ ReplaysDue)
<1> DEFINE Inv == Registrations /\ ReplaysDue
<1>1. HelperInit => Inv
  <2> SUFFICES ASSUME HelperInit PROVE Inv
    OBVIOUS
  <2>1. stack = <<>> /\ log = <<>> /\ helper = <<>> /\ Helpers = {}
    BY DEF HelperInit, Init, Helpers
  <2> QED BY <2>1 DEF Registrations, Chained, ReplaysDue
<1>2. CellsInv /\ Inv /\ [HelperNext]_allVars => Inv'
  BY RegistrationsStep, ReplaysDueStep
<1> QED BY <1>1, <1>2, CellsHold, PTL DEF HelperSpec

-----------------------------------------------------------------------------
(* What a helper was there to be told it has been told, up to a transition  *)
(* or, at rest, all of it: the replay, then each transition at which it    *)
(* was registered.                                                         *)
HeardTo(id, m) ==
  /\ \A k \in Heard(id) : deliveries[k].n # 0 =>
       /\ Reg(deliveries[k].n, id)
       /\ deliveries[k].event = log[deliveries[k].n].to
  /\ \A n : Reg(n, id) /\ n < m => \E k \in Heard(id) : deliveries[k].n = n
  /\ \A k \in Replays(id) : deliveries[k].event \in PathTo(helper[id].since)
  /\ \A j, k \in Replays(id) :
       j < k => Rank(deliveries[j].event) < Rank(deliveries[k].event)
  /\ \A t \in PathTo(helper[id].since) : \E k \in Replays(id) : deliveries[k].event = t

HeardAll(id) ==
  /\ \A n : HeardTo(id, n)
  /\ \A n : Reg(n, id) => \E k \in Heard(id) : deliveries[k].n = n

(* A notification is of a transition at which its observer was registered. *)
LEMMA HeardRegistered ==
  ASSUME CellsInv, Ends, NEW id, NEW k \in Heard(id), deliveries[k].n # 0
  PROVE  /\ Reg(deliveries[k].n, id)
         /\ deliveries[k].event = log[deliveries[k].n].to
<1>0. TypeOK /\ NotifyInv
  BY DEF CellsInv, RegistryInv
<1>1. /\ k \in DOMAIN deliveries /\ deliveries[k].id = id
      /\ deliveries[k].n > 0
  BY <1>0, HeardTypes DEF Heard
<1>2. PICK n : n = deliveries[k].n
  OBVIOUS
<1>3. n \in DOMAIN log /\ deliveries[k].event = log[n].to
  BY <1>1, <1>2 DEF Ends
<1>4. id \in Called(n)
  BY <1>1, <1>2 DEF Called, CallsFor
<1>5. CASE InProgress(n)
  <2>1. PICK i \in DOMAIN stack : stack[i].op = "apply" /\ stack[i].n = n
    BY <1>5 DEF InProgress
  <2>2. Due(stack[i])
    BY <1>0, <2>1 DEF NotifyInv, FramesDue
  <2> QED BY <1>2, <1>3, <1>4, <2>1, <2>2 DEF Due, Reg
<1>6. CASE ~ InProgress(n)
  BY <1>0, <1>2, <1>3, <1>4, <1>6 DEF NotifyInv, Complete, Reg
<1> QED BY <1>5, <1>6

LEMMA RestHeardAll ==
  ASSUME CellsInv, Ends, ReplaysDue, stack = <<>>, NEW id \in Helpers
  PROVE  HeardAll(id)
<1>0. TypeOK
  BY DEF CellsInv, RegistryInv
<1>1. \A n \in DOMAIN log : Called(n) = log[n].registered
  <2>1. \A n : ~ InProgress(n)
    BY DEF InProgress
  <2> QED BY <2>1 DEF CellsInv, RegistryInv, NotifyInv, Complete
<1>2. ASSUME NEW k \in Heard(id), deliveries[k].n # 0
      PROVE  /\ Reg(deliveries[k].n, id)
             /\ deliveries[k].event = log[deliveries[k].n].to
  BY <1>2, HeardRegistered
<1>3. ASSUME NEW n, Reg(n, id) PROVE \E k \in Heard(id) : deliveries[k].n = n
  <2>1. id \in Called(n)
    BY <1>1, <1>3 DEF Reg
  <2> QED BY <2>1 DEF Called, CallsFor, Heard
<1>4. \A i : ~ SubAt(stack, i, id)
  BY DEF SubAt
<1>5. CaughtUp(id, PathTo(helper[id].since))
  BY DEF ReplaysDue
<1> QED BY <1>2, <1>3, <1>4, <1>5 DEF HeardAll, HeardTo, CaughtUp

LEMMA HeardNumbers ==
  ASSUME TypeOK, NEW id
  PROVE  /\ Heard(id) \subseteq Nat /\ Replays(id) \subseteq Heard(id)
         /\ \A k \in Heard(id) : /\ deliveries[k].n \in Nat /\ deliveries[k].event \in States
                                 /\ k \in Replays(id) <=> deliveries[k].n = 0
         /\ \A n : Reg(n, id) => n \in Nat \ {0}
BY HeardTypes, LogTypes DEF Heard, Replays, Reg

(* A closure told of a transition remembers where it began. *)
LEMMA RemembersFrom ==
  ASSUME CellsInv, Registrations, NEW id \in Helpers, HeardOrdered(id),
         NEW k \in Heard(id), deliveries[k].n # 0, HeardTo(id, deliveries[k].n)
  PROVE  Remembers(HeardBefore(id, k), log[deliveries[k].n].from)
<1>0. TypeOK
  BY DEF CellsInv, RegistryInv
<1>1. PICK n, since : n = deliveries[k].n /\ since = helper[id].since
  OBVIOUS
<1>2. /\ n \in Nat \ {0} /\ Reg(n, id) /\ n \in DOMAIN log /\ k \in Nat
      /\ log[n].from # "Destroyed" /\ since \in States
  <2>1. n \in Nat \ {0} /\ Reg(n, id) /\ k \in Nat
    BY <1>0, <1>1, HeardNumbers DEF HeardTo
  <2>2. log[n].from # "Destroyed"
    BY <2>1 DEF Reg, Registrations, Chained
  <2> QED BY <1>1, <2>1, <2>2 DEF Reg, CellsInv, HelperTypeOK
<1>3. /\ \A j \in Heard(id) : j \in Nat /\ deliveries[j].n \in Nat
      /\ \A i, j \in Heard(id) : i < j => \/ deliveries[i].n < deliveries[j].n
                                          \/ deliveries[i].n = 0 /\ deliveries[j].n = 0
  BY <1>0, HeardNumbers DEF HeardOrdered
<1>4. CASE Reg(n - 1, id)
  <2>1. PICK j \in Heard(id) : deliveries[j].n = n - 1
    <3>1. n - 1 < n
      BY <1>2
    <3> QED BY <1>1, <1>4, <3>1 DEF HeardTo
  <2>2. n - 1 \in Nat \ {0} /\ log[n].from = log[n - 1].to
    BY <1>0, <1>2, <1>4, HeardNumbers DEF Registrations, Chained
  <2>3. deliveries[j].event = log[n].from
    BY <2>1, <2>2 DEF HeardTo
  <2>4. j < k
    BY <1>1, <1>2, <1>3, <2>1, <2>2
  <2>5. \A i \in HeardBefore(id, k) : i <= j
    <3> SUFFICES ASSUME NEW i \in HeardBefore(id, k), ~ (i <= j) PROVE FALSE
      OBVIOUS
    <3>1. i \in Heard(id) /\ i < k /\ j < i
      BY <1>3, <2>1 DEF HeardBefore
    <3>2. deliveries[i].n < n /\ n - 1 < deliveries[i].n
      BY <1>1, <1>2, <1>3, <2>1, <2>2, <3>1
    <3>3. PICK x \in Nat : x = deliveries[i].n
      BY <1>3, <3>1
    <3> QED BY <1>2, <3>2, <3>3
  <2> QED BY <1>1, <2>1, <2>3, <2>4, <2>5 DEF Remembers, HeardBefore
<1>5. CASE log[n].from = since /\ Unregistered(id, n)
  <2>1. HeardBefore(id, k) = Replays(id)
    <3>1. ASSUME NEW j \in HeardBefore(id, k) PROVE j \in Replays(id)
      <4>1. j \in Heard(id) /\ j < k /\ deliveries[j].n < n
        BY <1>1, <1>2, <1>3, <3>1 DEF HeardBefore
      <4>2. deliveries[j].n # 0 => deliveries[j].n >= n
        BY <1>5, <4>1 DEF HeardTo, Unregistered
      <4>3. PICK x \in Nat : x = deliveries[j].n
        BY <1>3, <4>1
      <4>4. x = 0
        BY <1>2, <4>1, <4>2, <4>3
      <4> QED BY <4>1, <4>3, <4>4 DEF Replays
    <3>2. ASSUME NEW j \in Replays(id) PROVE j \in HeardBefore(id, k)
      <4>1. j \in Heard(id) /\ deliveries[j].n = 0
        BY <3>2 DEF Replays
      <4>2. ~ (k < j)
        <5>1. k < j => n < deliveries[j].n \/ n = 0
          BY <1>1, <1>3, <4>1
        <5> QED BY <1>2, <4>1, <5>1
      <4>3. j # k
        BY <1>1, <1>2, <4>1
      <4>4. j \in Nat
        BY <1>3, <4>1
      <4> QED BY <1>2, <4>1, <4>2, <4>3, <4>4 DEF HeardBefore
    <3> QED BY <3>1, <3>2
  <2>2. CASE since = "Initialized"
    <3>1. PathTo(since) = {}
      BY <2>2, RankValues DEF PathTo
    <3>2. Replays(id) = {}
      BY <1>1, <3>1 DEF HeardTo
    <3> QED BY <1>1, <1>5, <2>1, <2>2, <3>2 DEF Remembers
  <2>3. CASE since # "Initialized"
    <3>1. since \in {"Created", "Started", "Resumed"}
      BY <1>2, <1>5, <2>3 DEF States
    <3>2. since \in PathTo(since) /\ \A t \in PathTo(since) : Rank(t) <= Rank(since)
                                                              /\ Rank(t) \in Nat
      BY <3>1, RankValues DEF PathTo
    <3>3. PICK j \in Replays(id) : deliveries[j].event = since
      BY <1>1, <3>2 DEF HeardTo
    <3>4. ASSUME NEW i \in Replays(id) PROVE i <= j
      <4>1. i \in Nat /\ j \in Nat
        BY <1>0, HeardNumbers
      <4>2. j < i => Rank(since) < Rank(deliveries[i].event)
        BY <3>3 DEF HeardTo
      <4>3. deliveries[i].event \in PathTo(since)
        BY <1>1 DEF HeardTo
      <4> QED BY <3>2, <4>1, <4>2, <4>3
    <3> QED BY <1>1, <1>5, <2>1, <3>3, <3>4 DEF Remembers
  <2> QED BY <2>2, <2>3
<1> QED BY <1>1, <1>2, <1>4, <1>5 DEF Registrations, Begun

(* The transitions between neighbours on the chain that are not to         *)
(* Destroyed: the kinds of helpers that look at where a transition began.  *)
Neighbours(from, to) ==
  <<from, to>> \in {<<"Initialized", "Created">>, <<"Created", "Started">>,
                    <<"Started", "Resumed">>, <<"Resumed", "Started">>,
                    <<"Started", "Created">>}

LEMMA KindsOfNeighbours ==
  ASSUME CellsInv, NEW id \in Helpers, helper[id].to # "Destroyed"
  PROVE  Neighbours(helper[id].from, helper[id].to)
BY DEF CellsInv, FromKinds, AllKinds, DoOnCreate, DoOnStart, DoOnResume, DoOnPause,
       DoOnStop, DoOnDestroy, Neighbours

(* A closure replayed a state remembers the one before it on the chain. *)
LEMMA RemembersReplay ==
  ASSUME CellsInv, NEW id \in Helpers, HeardAll(id), HeardOrdered(id),
         NEW k \in Replays(id), NEW from, NEW to, deliveries[k].event = to,
         Neighbours(from, to)
  PROVE  Remembers(HeardBefore(id, k), from) <=> Rank(from) < Rank(to)
<1>0. TypeOK
  BY DEF CellsInv, RegistryInv
<1>1. PICK path : path = PathTo(helper[id].since)
  OBVIOUS
<1>2. /\ \A j \in Replays(id) : deliveries[j].event \in path /\ j \in Nat
      /\ \A i, j \in Replays(id) :
           i < j => Rank(deliveries[i].event) < Rank(deliveries[j].event)
      /\ \A t \in path : \E j \in Replays(id) : deliveries[j].event = t
  BY <1>0, <1>1, HeardNumbers DEF HeardAll, HeardTo
<1>3. HeardBefore(id, k) = {j \in Replays(id) : j < k}
  <2>1. ASSUME NEW j \in Heard(id), j < k PROVE j \in Replays(id)
    <3>1. k \in Heard(id) /\ deliveries[k].n = 0 /\ deliveries[j].n \in Nat
      BY <1>0, HeardNumbers
    <3>2. deliveries[j].n = 0
      BY <2>1, <3>1 DEF HeardOrdered
    <3> QED BY <3>2 DEF Replays
  <2> QED BY <2>1 DEF HeardBefore, Replays
<1>4. /\ \A t \in path : t \in {"Created", "Started", "Resumed"} /\ Rank(t) \in 1 .. 3
      /\ \A s, t \in {"Created", "Started", "Resumed"} :
           s \in path /\ Rank(t) <= Rank(s) => t \in path
  <2>1. \A t \in {"Created", "Started", "Resumed"} : Rank(t) \in 1 .. 3
    BY RankValues
  <2>2. Rank(helper[id].since) \in Nat
    BY RankValues DEF CellsInv, HelperTypeOK, States
  <2> QED BY <1>1, <2>1, <2>2 DEF PathTo
<1>5. ASSUME Remembers(HeardBefore(id, k), from) PROVE Rank(from) < Rank(to)
  <2>1. CASE from = "Initialized"
    BY <2>1, RankValues DEF Neighbours
  <2>2. CASE from # "Initialized"
    BY <1>2, <1>3, <1>5, <2>2 DEF Remembers
  <2> QED BY <2>1, <2>2
<1>6. ASSUME Rank(from) < Rank(to) PROVE Remembers(HeardBefore(id, k), from)
  <2>1. Rank(to) = Rank(from) + 1 /\ Rank(from) \in Nat /\ to \in path
    BY <1>2, <1>6, RankValues DEF Neighbours
  <2>2. CASE from = "Initialized"
    <3>1. HeardBefore(id, k) = {}
      BY <1>2, <1>3, <1>4, <2>1, <2>2, RankValues
    <3> QED BY <2>2, <3>1 DEF Remembers
  <2>3. CASE from # "Initialized"
    <3>1. from \in path
      BY <1>4, <2>1, <2>3 DEF Neighbours
    <3>2. PICK j \in Replays(id) : deliveries[j].event = from
      BY <1>2, <3>1
    <3>3. j < k
      BY <1>2, <2>1, <3>2
    <3>4. \A i \in HeardBefore(id, k) : i <= j
      <4> SUFFICES ASSUME NEW i \in HeardBefore(id, k), ~ (i <= j) PROVE FALSE
        OBVIOUS
      <4>1. i \in Replays(id) /\ i < k /\ j < i
        BY <1>2, <1>3
      <4>2. PICK r : r = Rank(deliveries[i].event) /\ r \in Nat
        BY <1>2, <1>4, <4>1
      <4>3. Rank(from) < r /\ r < Rank(to)
        BY <1>2, <3>2, <4>1, <4>2
      <4> QED BY <2>1, <4>2, <4>3
    <3> QED BY <1>3, <3>2, <3>3, <3>4 DEF Remembers
  <2> QED BY <2>2, <2>3
<1> QED BY <1>5, <1>6

(* The calls a helper is there to report are the replay of its transition, *)
(* if its direction is the replay's, and one for each such transition at   *)
(* which it was registered.                                                *)
LEMMA ReplayMatches ==
  ASSUME CellsInv, NEW id \in Helpers, HeardAll(id), HeardOrdered(id),
         helper[id].to # "Destroyed", LookedAt(id) = Heard(id)
  PROVE  LET replays == {k \in Replays(id) : Matches(id, k)} IN
         IsFiniteSet(replays) /\ Cardinality(replays) = Replayed(helper[id])
<1> DEFINE replays == {k \in Replays(id) : Matches(id, k)}
<1>0. TypeOK
  BY DEF CellsInv, RegistryInv
<1>1. PICK from, to, since :
        from = helper[id].from /\ to = helper[id].to /\ since = helper[id].since
  OBVIOUS
<1>2. Neighbours(from, to) /\ Rank(to) \in Nat /\ to # "Destroyed"
  BY <1>1, KindsOfNeighbours, RankValues DEF Neighbours
<1>3. ASSUME NEW k \in Replays(id)
      PROVE  Matches(id, k) <=> deliveries[k].event = to /\ Rank(from) < Rank(to)
  <2>1. k \in LookedAt(id)
    BY DEF Replays
  <2>2. deliveries[k].event = to =>
          (Remembers(HeardBefore(id, k), from) <=> Rank(from) < Rank(to))
    BY <1>2, RemembersReplay
  <2> QED BY <1>1, <2>1, <2>2 DEF Matches
<1>4. Replayed(helper[id]) = IF Rank(from) < Rank(to) /\ to \in PathTo(since) THEN 1 ELSE 0
  <2>1. Rank(from) < Rank(to) => to \in {"Created", "Started", "Resumed"}
    BY <1>2, RankValues DEF Neighbours
  <2> QED BY <1>1, <1>2, <2>1 DEF Replayed, PathTo
<1>5. CASE Rank(from) < Rank(to) /\ to \in PathTo(since)
  <2>1. PICK k \in Replays(id) : deliveries[k].event = to
    BY <1>1, <1>5 DEF HeardAll, HeardTo
  <2>2. ASSUME NEW j \in replays PROVE j = k
    <3>1. j \in Replays(id) /\ deliveries[j].event = to /\ j \in Nat /\ k \in Nat
      BY <1>0, <1>3, HeardNumbers
    <3>2. HeardTo(id, 0)
      BY DEF HeardAll
    <3>3. ~ (j < k) /\ ~ (k < j)
      BY <1>2, <2>1, <3>1, <3>2 DEF HeardTo
    <3> QED BY <3>1, <3>3
  <2>3. replays = {k}
    BY <1>3, <1>5, <2>1, <2>2
  <2> HIDE DEF replays
  <2>4. IsFiniteSet(replays) /\ Cardinality(replays) = 1
    BY <2>3, FS_Singleton
  <2> QED BY <1>4, <1>5, <2>4 DEF replays
<1>6. CASE ~ (Rank(from) < Rank(to) /\ to \in PathTo(since))
  <2>1. replays = {}
    BY <1>1, <1>3, <1>6 DEF HeardAll, HeardTo
  <2> HIDE DEF replays
  <2>2. IsFiniteSet(replays) /\ Cardinality(replays) = 0
    BY <2>1, FS_EmptySet
  <2> QED BY <1>4, <1>6, <2>2 DEF replays
<1> QED BY <1>5, <1>6

LEMMA AppliedMatches ==
  ASSUME CellsInv, Registrations, NEW id \in Helpers, HeardAll(id), HeardOrdered(id),
         helper[id].to # "Destroyed", LookedAt(id) = Heard(id)
  PROVE  LET calls == {k \in Heard(id) \ Replays(id) : Matches(id, k)} IN
         IsFiniteSet(calls) /\ Cardinality(calls) = Applied(id, helper[id])
<1> DEFINE calls == {k \in Heard(id) \ Replays(id) : Matches(id, k)}
           changes == {n \in DOMAIN log :
                         /\ id \in log[n].registered
                         /\ log[n].to = helper[id].to
                         /\ helper[id].to # "Destroyed" => log[n].from = helper[id].from}
           f == [k \in calls |-> deliveries[k].n]
<1>0. TypeOK
  BY DEF CellsInv, RegistryInv
<1>1. Cardinality(changes) = Applied(id, helper[id])
  BY DEF Applied
<1>2. ASSUME NEW k \in Heard(id), deliveries[k].n # 0
      PROVE  k \in calls <=> deliveries[k].n \in changes
  <2>1. /\ Reg(deliveries[k].n, id) /\ deliveries[k].event = log[deliveries[k].n].to
        /\ k \notin Replays(id)
    BY <1>2 DEF HeardAll, HeardTo, Replays
  <2>2. Remembers(HeardBefore(id, k), log[deliveries[k].n].from)
    <3>1. HeardTo(id, deliveries[k].n)
      BY DEF HeardAll
    <3> QED BY <1>2, <3>1, RemembersFrom
  <2>3. HeardBefore(id, k) \subseteq Nat
    BY <1>0, HeardNumbers DEF HeardBefore
  <2>4. Remembers(HeardBefore(id, k), helper[id].from)
          <=> log[deliveries[k].n].from = helper[id].from
    BY <2>2, <2>3, RemembersOne
  <2> QED BY <2>1, <2>4 DEF Matches, Reg
<1>3. ASSUME NEW k \in calls PROVE k \in Heard(id) /\ deliveries[k].n # 0
  BY DEF Replays
<1>4. IsFiniteSet(calls)
  <2>1. calls \subseteq 1 .. Len(deliveries) /\ Len(deliveries) \in Nat
    BY <1>0, HeardTypes
  <2>2. IsFiniteSet(1 .. Len(deliveries))
    BY <2>1, FS_Interval
  <2> QED BY <2>1, <2>2, FS_Subset
<1>5. f \in Bijection(calls, changes)
  <2>1. f \in [calls -> changes]
    BY <1>2, <1>3
  <2>2. ASSUME NEW a \in calls, NEW b \in calls, f[a] = f[b] PROVE a = b
    <3>1. /\ a \in Nat /\ b \in Nat /\ a \in Heard(id) /\ b \in Heard(id)
          /\ deliveries[a].n = deliveries[b].n
          /\ deliveries[a].n # 0 /\ deliveries[a].n \in Nat
      BY <1>0, <1>3, <2>2, HeardNumbers
    <3>2. ~ (a < b) /\ ~ (b < a)
      BY <3>1 DEF HeardOrdered
    <3> QED BY <3>1, <3>2
  <2>3. ASSUME NEW n \in changes PROVE \E k \in calls : f[k] = n
    <3>1. Reg(n, id)
      BY DEF Reg
    <3>2. PICK k \in Heard(id) : deliveries[k].n = n
      BY <3>1 DEF HeardAll, HeardTo
    <3>3. n # 0
      BY <1>0, <3>1, HeardNumbers
    <3>4. k \in calls
      BY <1>2, <3>2, <3>3
    <3> QED BY <3>2, <3>4
  <2> HIDE DEF f, calls, changes
  <2> QED BY <2>1, <2>2, <2>3 DEF Bijection, Injection, IsInjective, Surjection
<1> HIDE DEF f, calls, changes
<1>6. Cardinality(calls) = Cardinality(changes)
  BY <1>4, <1>5, FS_Bijection DEF ExistsBijection
<1> QED BY <1>1, <1>4, <1>6 DEF calls

LEMMA CountMatches ==
  ASSUME CellsInv, Registrations, ReplaysDue, Ends, stack = <<>>, NEW id \in Helpers,
         HeardOrdered(id), helper[id].to # "Destroyed"
  PROVE  /\ Cardinality(Matched(id)) = Reported(id)
         /\ (\E k : Matches(id, k)) <=> Reported(id) > 0
         /\ Reported(id) \in Nat
<1> DEFINE replays == {k \in Replays(id) : Matches(id, k)}
           calls == {k \in Heard(id) \ Replays(id) : Matches(id, k)}
<1>1. HeardAll(id) /\ LookedAt(id) = Heard(id)
  <2>1. ~ InClosure
    BY DEF InClosure, On
  <2> QED BY <2>1, RestHeardAll DEF LookedAt
<1>2. /\ IsFiniteSet(replays) /\ Cardinality(replays) = Replayed(helper[id])
      /\ IsFiniteSet(calls) /\ Cardinality(calls) = Applied(id, helper[id])
  BY <1>1, ReplayMatches, AppliedMatches
<1>3. Matched(id) = replays \cup calls /\ replays \cap calls = {}
  BY <1>1 DEF Matched, Replays
<1>4. (\E k : Matches(id, k)) <=> Matched(id) # {}
  BY DEF Matched, Matches
<1> HIDE DEF replays, calls
<1>5. /\ IsFiniteSet(Matched(id))
      /\ Cardinality(Matched(id)) = Cardinality(replays) + Cardinality(calls) - 0
      /\ Cardinality(replays) \in Nat /\ Cardinality(calls) \in Nat
  BY <1>2, <1>3, FS_Union, FS_EmptySet, FS_CardinalityType
<1>6. Cardinality(Matched(id)) = Reported(id) /\ Reported(id) \in Nat
  BY <1>2, <1>5 DEF Reported
<1>7. Cardinality(Matched(id)) = 0 <=> Matched(id) = {}
  BY <1>5, FS_EmptySet
<1> QED BY <1>4, <1>6, <1>7

(* Every helper reports exactly what it was there to: a one-shot the first *)
(* of the transitions replayed to it or applied while it was registered, a *)
(* repeating helper each of them, provided that it heard the replay first  *)
(* and then the transitions in their order.  Its closure remembers what it *)
(* was told last, and in that order this is where the next transition      *)
(* begins.  (registry.rs 287-375, 401-421)                                 *)
THEOREM HelpersReportExactly == HelperSpec => []HelpersExact
<1>1. ASSUME CellsInv, OneShots, Ends, EndsOnce, DestroyReportedOnce,
             Unlooked, Recalls, Tally, Registrations, ReplaysDue
      PROVE  HelpersExact
  <2> SUFFICES ASSUME stack = <<>>, NEW id \in Helpers, HeardOrdered(id)
               PROVE  Fires(id) = IF helper[id].once /\ Reported(id) > 0
                                  THEN 1 ELSE Reported(id)
    BY DEF HelpersExact
  <2>1. CASE helper[id].to = "Destroyed"
    <3>1. Fires(id) = Applied(id, helper[id])
      BY <1>1, <2>1 DEF DestroyReportedOnce
    <3>2. Replayed(helper[id]) = 0
      BY <2>1 DEF Replayed
    <3>3. Fires(id) \in {0, 1}
      BY <1>1, <2>1, CountFires DEF EndsOnce, EndOf
    <3> QED BY <3>1, <3>2, <3>3 DEF Reported
  <2>2. CASE helper[id].to # "Destroyed"
    <3>1. /\ Cardinality(Matched(id)) = Reported(id) /\ Reported(id) \in Nat
          /\ (\E k : Matches(id, k)) <=> Reported(id) > 0
      BY <1>1, <2>2, CountMatches
    <3>2. Tallies(id)
      BY <1>1, <2>2 DEF Tally
    <3>3. CASE helper[id].once
      <4>1. /\ (\E k : FiredAt(k, id)) => Fires(id) = 1
            /\ ~ (\E k : FiredAt(k, id)) => Fires(id) = 0
        BY <1>1, <3>3, CountFires DEF OneShots, OneShot
      <4>2. (\E k : FiredAt(k, id)) <=> Reported(id) > 0
        BY <3>1, <3>2, <3>3 DEF Tallies
      <4> QED BY <3>1, <3>3, <4>1, <4>2
    <3>4. CASE ~ helper[id].once
      BY <3>1, <3>2, <3>4 DEF Tallies
    <3> QED BY <3>3, <3>4
  <2> QED BY <2>1, <2>2
<1> QED BY <1>1, CellsHold, OneShotsHold, EndsHold, DestroyIsReportedOnce, TallyHolds,
           HistoryHolds, PTL

-----------------------------------------------------------------------------
(* The helpers of a registry whose observers ask for no transitions.  A    *)
(* transition then runs inside nothing but the walk it belongs to, so that *)
(* nobody is subscribing while one is applied: a helper hears its replay   *)
(* before any transition, and the transitions in their order.              *)
NotYet == \A i, id : SubAt(stack, i, id) => \A n : ~ Reg(n, id)

ReplaysAhead ==
  \A j, k \in DOMAIN deliveries :
    /\ j < k
    /\ deliveries[j].id = deliveries[k].id
    /\ deliveries[k].n = 0
    => deliveries[j].n = 0

Calm == Flat /\ InTransitionOrder /\ NotYet /\ ReplaysAhead

LEMMA OnlyWalks ==
  ASSUME TypeOK, Reentrant = FALSE, Flat, [Next]_vars, log' # log
  PROVE  \A i \in DOMAIN stack : Walks(stack[i])
<1>1. CASE stack = <<>>
  <2>1. DOMAIN <<>> = {}
    OBVIOUS
  <2> QED BY <1>1, <2>1
<1>2. CASE stack # <<>>
  <2>1. ~ MayTransition
    BY <1>2 DEF MayTransition
  <2>2. On("destroy") \/ On("move_to")
    BY <2>1 DEF Next, Call, StrictStep, Step, Destroy, MoveTo, Components, Subscribe,
                Unsubscribe, Run, Notify, ApplyDone, FinishDestroy, MoveToRound, Replay,
                SubscribeDone, CallbackReturn, Return, vars
  <2>3. /\ Len(stack) \in DOMAIN stack /\ DOMAIN stack = 1 .. Len(stack)
        /\ Len(stack) \in Nat /\ Walks(stack[Len(stack)])
    BY <1>2, <2>2, TopAndBelow, LenProperties DEF On, Top, Walks, TypeOK
  <2>4. \A i \in 1 .. Len(stack) - 1 : stack[i].op = "destroy"
    BY <2>3 DEF Flat, WalksOutermost
  <2> QED BY <2>3, <2>4 DEF Walks
<1> QED BY <1>1, <1>2

LEMMA NotYetStep ==
  ASSUME CellsInv, Reentrant = FALSE, Flat, NotYet, [HelperNext]_allVars
  PROVE  NotYet'
<1>0. /\ TypeOK /\ Sorted /\ IdsGiven /\ nextId \in Nat
      /\ [Next]_vars \/ Releases
  BY HelperRegistry DEF CellsInv, RegistryInv, NotifyInv, TypeOK
<1>1. \/ SubsSame
      \/ SubPushed(nextId) /\ nextId' = nextId + 1
      \/ SubPopped
  BY <1>0, SubsChange
<1>2. CASE UNCHANGED log
  <2>1. \A n, id : Reg(n, id)' <=> Reg(n, id)
    BY <1>2 DEF Reg
  <2>2. \A n : ~ Reg(n, nextId)
    BY <1>0 DEF Reg, IdsGiven
  <2> QED BY <1>1, <2>1, <2>2 DEF NotYet, SubsSame, SubPushed, SubPopped
<1>3. CASE \E r : Logs(r)
  <2>1. PICK r : Logs(r)
    BY <1>3
  <2>2. log' # log /\ nextId' # nextId + 1
    <3>1. Len(log') = Len(log) + 1 /\ Len(log) \in Nat
      BY <1>0, <2>1, LogTypes, RegisteredNext
    <3>2. nextId' = nextId
      BY <2>1 DEF Logs
    <3> QED BY <1>0, <3>1, <3>2
  <2>3. \A i \in DOMAIN stack : Walks(stack[i])
    BY <1>0, <2>2, OnlyWalks DEF Releases, Return
  <2>4. \A i, id : ~ SubAt(stack, i, id)
    BY <2>3 DEF SubAt, Walks
  <2> QED BY <1>1, <2>2, <2>4 DEF NotYet, SubsSame, SubPopped
<1> QED BY <1>2, <1>3, LogKinds

LEMMA ReplaysAheadStep ==
  ASSUME CellsInv, Ends, NotYet, ReplaysAhead, [HelperNext]_allVars
  PROVE  ReplaysAhead'
<1>0. /\ TypeOK /\ NotifyInv
      /\ [Next]_vars \/ Releases
  BY HelperRegistry DEF CellsInv, RegistryInv
<1>1. CASE UNCHANGED deliveries
  BY <1>1 DEF ReplaysAhead
<1>2. CASE Notify \/ Replay
  <2>1. PICK f, g, top, d : NotifyEffect(f, g, top, d) \/ ReplayEffect(f, g, top, d)
    BY <1>0, <1>2, NotifyDoes, ReplayDoes
  <2>2. /\ d \in [id : Nat, event : States, n : Nat]
        /\ deliveries' = Append(deliveries, d)
        /\ top \in DOMAIN stack /\ stack[top] = f
    BY <2>1 DEF NotifyEffect, ReplayEffect, CallsOne
  <2>3. /\ Len(deliveries) \in Nat /\ DOMAIN deliveries = 1 .. Len(deliveries)
        /\ \A k \in DOMAIN deliveries' : k \in DOMAIN deliveries \/ k = Len(deliveries) + 1
        /\ \A k \in DOMAIN deliveries : deliveries'[k] = deliveries[k]
        /\ deliveries'[Len(deliveries) + 1] = d
        /\ DOMAIN deliveries' = 1 .. Len(deliveries) + 1
    <3>1. LET last == Len(deliveries) + 1 IN
            /\ DOMAIN deliveries' = 1 .. last /\ deliveries'[last] = d
            /\ \A k \in DOMAIN deliveries : deliveries'[k] = deliveries[k]
      BY <1>0, <2>2, Delivered
    <3>2. Len(deliveries) \in Nat /\ DOMAIN deliveries = 1 .. Len(deliveries)
      BY <1>0, HeardTypes
    <3> QED BY <3>1, <3>2
  <2>4. ASSUME d.n = 0, NEW j \in DOMAIN deliveries, deliveries[j].id = d.id
        PROVE  deliveries[j].n = 0
    <3>1. ~ NotifyEffect(f, g, top, d)
      <4>1. f.op = "apply" => f.n \in DOMAIN log
        BY <1>0, <2>2 DEF NotifyInv, FramesDue, Due
      <4>2. \A n \in DOMAIN log : n # 0
        BY <1>0, LogTypes
      <4> QED BY <2>4, <4>1, <4>2 DEF NotifyEffect
    <3>2. SubAt(stack, top, d.id)
      BY <2>1, <2>2, <3>1 DEF ReplayEffect, SubAt
    <3>3. j \in Heard(d.id)
      BY <2>4 DEF Heard
    <3> QED BY <3>2, <3>3, HeardRegistered DEF NotYet
  <2> SUFFICES ASSUME NEW j \in DOMAIN deliveries', NEW k \in DOMAIN deliveries', j < k,
                      deliveries'[j].id = deliveries'[k].id, deliveries'[k].n = 0
               PROVE  deliveries'[j].n = 0
    BY DEF ReplaysAhead
  <2>5. j \in DOMAIN deliveries
    BY <2>3
  <2>6. CASE k = Len(deliveries) + 1
    BY <2>3, <2>4, <2>5, <2>6
  <2>7. CASE k \in DOMAIN deliveries
    BY <2>3, <2>5, <2>7 DEF ReplaysAhead
  <2> QED BY <2>3, <2>6, <2>7
<1>3. CASE Releases
  BY <1>1, <1>3 DEF Releases, Return
<1> QED BY <1>0, <1>1, <1>2, <1>3, TellKinds DEF Silent, Applies, Apply, Subscribe

LEMMA CalmStep ==
  ASSUME CellsInv, Ends, Reentrant = FALSE, Calm, [HelperNext]_allVars
  PROVE  Calm'
<1>1. /\ TypeOK /\ TypeOK' /\ DestroyLeavesFromCreated /\ NotifyInv
      /\ [Next]_vars \/ Releases
  BY HelperRegistry, CellsStep DEF CellsInv, RegistryInv
<1>2. CASE [Next]_vars
  BY <1>1, <1>2, FlatStep, InOrderStep, NotYetStep, ReplaysAheadStep DEF Calm
<1>3. CASE Releases
  <2>1. stack # <<>> /\ Return("Ok") /\ UNCHANGED deliveries
    BY <1>3 DEF Releases, On, Return
  <2>2. Flat'
    BY <1>1, <2>1, FlatReturns DEF Calm
  <2>3. InTransitionOrder'
    BY <2>1 DEF Calm, InTransitionOrder
  <2> QED BY <2>2, <2>3, NotYetStep, ReplaysAheadStep DEF Calm
<1> QED BY <1>1, <1>2, <1>3

LEMMA CalmHolds ==
  ASSUME Reentrant = FALSE
  PROVE  HelperSpec => []Calm
<1>1. HelperInit => Calm
  <2>1. DOMAIN <<>> = {}
    OBVIOUS
  <2> QED BY <2>1, FlatInit DEF HelperInit, Init, Calm, InTransitionOrder, NotYet,
                                ReplaysAhead, SubAt
<1>2. CellsInv /\ Ends /\ Calm /\ [HelperNext]_allVars => Calm'
  BY CalmStep
<1> QED BY <1>1, <1>2, CellsHold, EndsHold, PTL DEF HelperSpec

LEMMA CalmOrders ==
  ASSUME TypeOK, Calm, NEW id
  PROVE  HeardOrdered(id)
<1> SUFFICES ASSUME NEW j \in Heard(id), NEW k \in Heard(id), j < k
             PROVE  \/ deliveries[j].n < deliveries[k].n
                    \/ deliveries[j].n = 0 /\ deliveries[k].n = 0
  BY DEF HeardOrdered
<1>1. /\ j \in DOMAIN deliveries /\ k \in DOMAIN deliveries
      /\ deliveries[j].id = id /\ deliveries[k].id = id /\ deliveries[k].n \in Nat
  BY HeardTypes DEF Heard
<1>2. CASE deliveries[k].n = 0
  BY <1>1, <1>2 DEF Calm, ReplaysAhead
<1>3. CASE deliveries[k].n > 0
  BY <1>1, <1>3 DEF Calm, InTransitionOrder
<1> QED BY <1>1, <1>2, <1>3

(* Every helper reports exactly what it was there to, whatever the helpers *)
(* are and whoever subscribes and unsubscribes inside the callbacks, when  *)
(* no observer asks for transitions: HelpersExact without its proviso.     *)
(* (registry.rs 287-375, 401-421)                                          *)
AllExact ==
  stack = <<>> =>
    \A id \in Helpers :
      Fires(id) = IF helper[id].once /\ Reported(id) > 0 THEN 1 ELSE Reported(id)

THEOREM CalmHelpersReportExactly ==
  ASSUME Reentrant = FALSE
  PROVE  HelperSpec => []AllExact
<1>1. ASSUME CellsInv, Calm, HelpersExact PROVE AllExact
  <2>1. \A id : HeardOrdered(id)
    BY <1>1, CalmOrders DEF CellsInv, RegistryInv
  <2> QED BY <1>1, <2>1 DEF HelpersExact, AllExact
<1> QED BY <1>1, CellsHold, CalmHolds, HelpersReportExactly, PTL

-----------------------------------------------------------------------------
(* In the middle of the calls: what a helper fires for has taken place.    *)
LEMMA AppliedReported ==
  ASSUME TypeOK, NEW id, NEW n, Reg(n, id), log[n].to = helper[id].to,
         helper[id].to # "Destroyed" => log[n].from = helper[id].from
  PROVE  Reported(id) > 0
<1> DEFINE changes == {m \in DOMAIN log :
                         /\ id \in log[m].registered
                         /\ log[m].to = helper[id].to
                         /\ helper[id].to # "Destroyed" => log[m].from = helper[id].from}
<1>1. Applied(id, helper[id]) = Cardinality(changes)
  BY DEF Applied
<1>2. n \in changes
  BY DEF Reg
<1>3. IsFiniteSet(changes)
  <2>1. Len(log) \in Nat /\ changes \subseteq 1 .. Len(log)
    BY LogTypes
  <2>2. IsFiniteSet(1 .. Len(log))
    BY <2>1, FS_Interval
  <2> QED BY <2>1, <2>2, FS_Subset
<1> HIDE DEF changes
<1>4. Cardinality(changes) \in Nat /\ Cardinality(changes) # 0
  BY <1>2, <1>3, FS_CardinalityType, FS_EmptySet
<1>5. Replayed(helper[id]) \in {0, 1}
  BY DEF Replayed
<1> QED BY <1>1, <1>4, <1>5 DEF Reported

LEMMA CalmHeardTo ==
  ASSUME CellsInv, Ends, ReplaysDue, Calm, NEW id \in Helpers,
         NEW k \in Heard(id), deliveries[k].n # 0
  PROVE  HeardTo(id, deliveries[k].n)
<1>0. TypeOK /\ NotifyInv
  BY DEF CellsInv, RegistryInv
<1>1. PICK n : n = deliveries[k].n
  OBVIOUS
<1>2. Reg(n, id) /\ n \in DOMAIN log
  BY <1>1, HeardRegistered DEF Reg
<1>3. ASSUME NEW m, Reg(m, id), m < n
      PROVE  \E j \in Heard(id) : deliveries[j].n = m
  <2>1. ~ InProgress(m)
    <3>1. m < Len(log) /\ m \in Nat /\ Len(log) \in Nat
      BY <1>0, <1>2, <1>3, LogTypes DEF Reg
    <3> QED BY <3>1 DEF InProgress, Calm, Flat, AppliesLatest
  <2>2. id \in Called(m)
    BY <1>0, <1>3, <2>1 DEF Reg, NotifyInv, Complete
  <2> QED BY <2>2 DEF Called, CallsFor, Heard
<1>4. \A i : ~ SubAt(stack, i, id)
  BY <1>2 DEF Calm, NotYet
<1>5. CaughtUp(id, PathTo(helper[id].since))
  BY DEF ReplaysDue
<1> QED BY <1>1, <1>3, <1>4, <1>5, HeardRegistered DEF HeardTo, CaughtUp

LEMMA MatchesReported ==
  ASSUME CellsInv, Ends, Registrations, ReplaysDue, Calm, NEW id \in Helpers,
         helper[id].to # "Destroyed", NEW k, Matches(id, k)
  PROVE  Reported(id) > 0
<1>0. TypeOK /\ HeardOrdered(id)
  BY CalmOrders DEF CellsInv, RegistryInv
<1>1. PICK from, to, since :
        from = helper[id].from /\ to = helper[id].to /\ since = helper[id].since
  OBVIOUS
<1>2. /\ k \in Heard(id) /\ deliveries[k].event = to
      /\ Remembers(HeardBefore(id, k), from) /\ HeardBefore(id, k) \subseteq Nat
  BY <1>0, <1>1, HeardNumbers DEF Matches, LookedAt, HeardBefore
<1>3. CASE deliveries[k].n # 0
  <2>1. PICK n : n = deliveries[k].n
    OBVIOUS
  <2>2. Reg(n, id) /\ log[n].to = to
    BY <1>2, <1>3, <2>1, HeardRegistered
  <2>3. HeardTo(id, deliveries[k].n)
    BY <1>2, <1>3, CalmHeardTo
  <2>4. Remembers(HeardBefore(id, k), log[n].from)
    BY <1>0, <1>2, <1>3, <2>1, <2>3, RemembersFrom
  <2>5. log[n].from = from
    BY <1>2, <2>4, RemembersOne
  <2> QED BY <1>0, <1>1, <2>2, <2>5, AppliedReported
<1>4. CASE deliveries[k].n = 0
  <2>1. k \in Replays(id) /\ CaughtUp(id, PathTo(since))
    BY <1>1, <1>2, <1>4 DEF Replays, ReplaysDue
  <2>2. to \in PathTo(since)
    BY <1>2, <2>1 DEF CaughtUp
  <2>3. Rank(from) < Rank(to)
    <3>1. CASE from = "Initialized"
      BY <2>2, <3>1, RankValues DEF PathTo
    <3>2. CASE from # "Initialized"
      <4>1. PICK j \in Heard(id) : j < k /\ deliveries[j].event = from
        BY <1>2, <3>2 DEF Remembers, HeardBefore
      <4>2. deliveries[j].n = 0
        <5>1. deliveries[j].n \in Nat
          BY <1>0, <4>1, HeardNumbers
        <5> QED BY <1>0, <1>2, <1>4, <4>1, <5>1 DEF HeardOrdered
      <4>3. j \in Replays(id)
        BY <4>1, <4>2 DEF Replays
      <4> QED BY <1>2, <2>1, <4>1, <4>3 DEF CaughtUp
    <3> QED BY <3>1, <3>2
  <2>4. Replayed(helper[id]) = 1
    BY <1>1, <2>2, <2>3 DEF Replayed, PathTo
  <2>5. Applied(id, helper[id]) \in Nat
    <3>1. Len(log) \in Nat /\ DOMAIN log = 1 .. Len(log)
      BY <1>0, LogTypes
    <3>2. IsFiniteSet(DOMAIN log)
      BY <3>1, FS_Interval
    <3> QED BY <3>2, FS_Subset, FS_CardinalityType DEF Applied
  <2> QED BY <2>4, <2>5 DEF Reported
<1> QED BY <1>3, <1>4

(* At every moment, inside the notifications too, whoever has fired was    *)
(* there for a transition of its kind, or had it replayed.                 *)
(* (registry.rs 287-375, 401-421)                                          *)
OnlyReported == \A k \in DOMAIN fires : Reported(fires[k]) > 0

LEMMA FiredReported ==
  ASSUME CellsInv, Ends, EndsOnce, Tally, Registrations, ReplaysDue, Calm
  PROVE  OnlyReported
<1> SUFFICES ASSUME NEW k \in DOMAIN fires PROVE Reported(fires[k]) > 0
  BY DEF OnlyReported
<1>0. TypeOK /\ Len(fires) \in Nat /\ DOMAIN fires = 1 .. Len(fires)
  BY LenProperties DEF CellsInv, RegistryInv, HelperTypeOK
<1>1. PICK id : id = fires[k]
  OBVIOUS
<1>2. id \in Helpers /\ FiredAt(k, id)
  BY <1>1, ElementOfSeq DEF CellsInv, HelperTypeOK, FiredAt
<1>3. CASE helper[id].to = "Destroyed"
  <2>1. ToldEnd(id)
    BY <1>2, <1>3 DEF EndsOnce, EndOf
  <2>2. PICK j \in Heard(id) : deliveries[j].event = "Destroyed" /\ deliveries[j].n > 0
    BY <2>1 DEF ToldEnd, Heard, Ends
  <2>3. PICK n : n = deliveries[j].n
    OBVIOUS
  <2>4. n # 0
    BY <1>0, <2>2, <2>3, HeardNumbers
  <2>5. Reg(n, id) /\ log[n].to = "Destroyed"
    BY <2>2, <2>3, <2>4, HeardRegistered
  <2> QED BY <1>0, <1>1, <1>3, <2>5, AppliedReported
<1>4. CASE helper[id].to # "Destroyed"
  <2>1. \E j : Matches(id, j)
    <3>1. Tallies(id)
      BY <1>2, <1>4 DEF Tally
    <3>2. CASE helper[id].once
      BY <1>2, <3>1, <3>2 DEF Tallies
    <3>3. CASE ~ helper[id].once
      <4>1. Fires(id) # 0
        <5> DEFINE calls == {j \in DOMAIN fires : fires[j] = id}
        <5>1. k \in calls /\ calls \subseteq 1 .. Len(fires)
          BY <1>0, <1>1
        <5>2. Fires(id) = Cardinality(calls)
          BY DEF Fires
        <5> HIDE DEF calls
        <5>3. IsFiniteSet(1 .. Len(fires))
          BY <1>0, FS_Interval
        <5>4. IsFiniteSet(calls)
          BY <5>1, <5>3, FS_Subset
        <5> QED BY <5>1, <5>2, <5>4, FS_EmptySet
      <4>2. Matched(id) # {}
        BY <3>1, <3>3, <4>1, FS_EmptySet DEF Tallies
      <4> QED BY <4>2 DEF Matched
    <3> QED BY <3>2, <3>3
  <2> QED BY <1>1, <1>2, <1>4, <2>1, MatchesReported
<1> QED BY <1>3, <1>4

(* No helper fires without a transition it reports, at any moment of a     *)
(* call, when no observer asks for transitions.  (registry.rs 395-421)     *)
THEOREM CalmHelpersFireForReasons ==
  ASSUME Reentrant = FALSE
  PROVE  HelperSpec => []OnlyReported
BY FiredReported, CellsHold, EndsHold, TallyHolds, HistoryHolds, CalmHolds, PTL

(* What the documentation says of do_on_stop holds when no observer asks   *)
(* for transitions; the run helpers_nested_stop shows that it fails when   *)
(* one does.  (registry.rs 345-347)                                        *)
THEOREM CalmStopsAreStops ==
  ASSUME Reentrant = FALSE
  PROVE  HelperSpec => []StopOnlyAfterStop
<1>1. ASSUME OnlyReported PROVE StopOnlyAfterStop
  <2> SUFFICES ASSUME NEW k \in DOMAIN fires, NEW id, id = fires[k],
                      helper[id].from = "Started", helper[id].to = "Created"
               PROVE  \E n \in DOMAIN log : /\ log[n].from = "Started"
                                            /\ log[n].to = "Created"
    BY DEF StopOnlyAfterStop
  <2>1. Replayed(helper[id]) = 0
    BY RankValues DEF Replayed
  <2>2. Applied(id, helper[id]) # 0
    BY <1>1, <2>1 DEF OnlyReported, Reported
  <2> DEFINE stops == {n \in DOMAIN log :
                         /\ id \in log[n].registered
                         /\ log[n].to = helper[id].to
                         /\ helper[id].to # "Destroyed" => log[n].from = helper[id].from}
  <2>3. Cardinality(stops) # 0
    BY <2>2 DEF Applied
  <2>4. stops # {}
    BY <2>3, FS_EmptySet
  <2> QED BY <2>4
<1> QED BY <1>1, CalmHelpersFireForReasons, PTL

=============================================================================
