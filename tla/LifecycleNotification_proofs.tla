-------------------- MODULE LifecycleNotification_proofs --------------------
(***************************************************************************)
(* Whom the registry notifies, how often and in which order, however its   *)
(* calls are nested.  The inductive invariant relates the rest of the      *)
(* snapshot that each notification in progress has still to visit to the   *)
(* calls made for it so far.                                               *)
(***************************************************************************)
EXTENDS LifecycleRegistry_proofs, FiniteSetTheorems

(* The order in which transition n notifies. *)
Before(n, a, b) == IF Upwards(n) THEN a < b ELSE a > b

(* The Vec is in the order of the ids. *)
Sorted ==
  /\ \A i, j \in DOMAIN observers : i < j => observers[i] < observers[j]
  /\ \A i \in DOMAIN observers : observers[i] < nextId

(* The snapshot is reversed for the transitions that lead down. *)
Directed == \A n \in DOMAIN log : Upwards(n) <=> ~ Retreats(log[n].from, log[n].to)

Called(n) == {deliveries[k].id : k \in CallsFor(n)}

ToCall(f) == {f.todo[a] : a \in DOMAIN f.todo}

(* What a notification in progress has called and what it has still to     *)
(* call are the observers registered at its transition, in its order.      *)
Due(f) ==
  /\ f.n \in DOMAIN log
  /\ \A a, b \in DOMAIN f.todo : a < b => Before(f.n, f.todo[a], f.todo[b])
  /\ \A k \in CallsFor(f.n), a \in DOMAIN f.todo :
       Before(f.n, deliveries[k].id, f.todo[a])
  /\ Called(f.n) \cup ToCall(f) = log[f.n].registered

FramesDue == \A i \in DOMAIN stack : stack[i].op = "apply" => Due(stack[i])

(* Each transition is notified by one call. *)
OneFrameEach ==
  \A i, j \in DOMAIN stack :
    stack[i].op = "apply" /\ stack[j].op = "apply" /\ stack[i].n = stack[j].n => i = j

NoneAhead == \A k \in DOMAIN deliveries : deliveries[k].n <= Len(log)

Complete == \A n \in DOMAIN log : ~ InProgress(n) => Called(n) = log[n].registered

NotifyInv ==
  /\ Sorted
  /\ Directed
  /\ FramesDue
  /\ OneFrameEach
  /\ NoneAhead
  /\ Complete
  /\ NotifiedInOrder

-----------------------------------------------------------------------------
(* The frames of notifications in s and in t are the same. *)
SameApplies(s, t) ==
  /\ \A i \in DOMAIN s : s[i].op = "apply" => i \in DOMAIN t /\ t[i] = s[i]
  /\ \A i \in DOMAIN t : t[i].op = "apply" => i \in DOMAIN s /\ s[i] = t[i]

LEMMA SamePushed ==
  ASSUME NEW s \in Seq(Frames), NEW f \in Frames, f.op # "apply"
  PROVE  SameApplies(s, Append(s, f))
<1>1. /\ Len(s) \in Nat /\ DOMAIN s = 1 .. Len(s)
      /\ Append(s, f) \in Seq(Frames) /\ Len(Append(s, f)) = Len(s) + 1
      /\ \A i \in 1 .. Len(s) : Append(s, f)[i] = s[i]
      /\ Append(s, f)[Len(s) + 1] = f
  BY AppendProperties, LenProperties
<1>2. DOMAIN Append(s, f) = 1 .. Len(s) + 1
  BY <1>1
<1> QED BY <1>1, <1>2 DEF SameApplies

LEMMA SamePopped ==
  ASSUME NEW s \in Seq(Frames), s # <<>>, s[Len(s)].op # "apply"
  PROVE  SameApplies(s, SubSeq(s, 1, Len(s) - 1))
<1> DEFINE t == SubSeq(s, 1, Len(s) - 1)
<1>1. /\ t \in Seq(Frames) /\ Len(t) = Len(s) - 1
      /\ \A i \in 1 .. Len(s) - 1 : t[i] = s[i]
      /\ Len(s) \in Nat \ {0}
  BY Popped
<1>2. DOMAIN s = 1 .. Len(s) /\ DOMAIN t = 1 .. Len(s) - 1
  BY <1>1, LenProperties
<1> HIDE DEF t
<1>3. SameApplies(s, t)
  BY <1>1, <1>2 DEF SameApplies
<1> QED BY <1>3 DEF t

(* The stack with its top frame replaced and a callback on it. *)
LEMMA CalledBack ==
  ASSUME TypeOK, stack # <<>>, NEW f \in Frames, NEW g \in Frames,
         stack' = Below \o << f, g >>
  PROVE  /\ DOMAIN stack = 1 .. Len(stack) /\ Len(stack) \in Nat \ {0}
         /\ DOMAIN stack' = 1 .. Len(stack) + 1
         /\ \A i \in 1 .. Len(stack) - 1 : stack'[i] = stack[i]
         /\ stack'[Len(stack)] = f
         /\ stack'[Len(stack) + 1] = g
<1>1. /\ Below \in Seq(Frames)
      /\ Len(Below) = Len(stack) - 1
      /\ \A i \in 1 .. Len(stack) - 1 : Below[i] = stack[i]
      /\ Len(stack) \in Nat \ {0}
  BY TopAndBelow
<1>2. ASSUME NEW s \in Seq(Frames)
      PROVE  /\ s \o <<f, g>> \in Seq(Frames)
             /\ Len(s \o <<f, g>>) = Len(s) + 2
             /\ \A i \in 1 .. Len(s) : (s \o <<f, g>>)[i] = s[i]
             /\ (s \o <<f, g>>)[Len(s) + 1] = f
             /\ (s \o <<f, g>>)[Len(s) + 2] = g
  BY PushedTwo
<1>3. /\ stack' \in Seq(Frames)
      /\ Len(stack') = Len(Below) + 2
      /\ \A i \in 1 .. Len(Below) : stack'[i] = Below[i]
      /\ stack'[Len(Below) + 1] = f /\ stack'[Len(Below) + 2] = g
  BY <1>1, <1>2
<1>4. DOMAIN stack' = 1 .. Len(stack')
  BY <1>3, LenProperties
<1>5. Len(Below) + 1 = Len(stack) /\ Len(Below) + 2 = Len(stack) + 1
  BY <1>1
<1>6. DOMAIN stack = 1 .. Len(stack)
  BY LenProperties DEF TypeOK
<1> QED BY <1>1, <1>3, <1>4, <1>5, <1>6

-----------------------------------------------------------------------------
(* The steps, as far as notifications go: nothing of them changes, or one  *)
(* begins, calls its next observer or ends, or a replay calls one.         *)
Quiet == UNCHANGED <<log, deliveries>> /\ SameApplies(stack, stack')

Begins ==
  \E next \in States, below \in Seq(Frames) :
    /\ Apply(next, below)
    /\ SameApplies(stack, below)
    /\ (next # "Destroyed" /\ Rank(state) < Rank(next)) <=> ~ Retreats(state, next)

LEMMA SameItself == SameApplies(stack, stack)
BY DEF SameApplies

LEMMA StepKinds ==
  ASSUME TypeOK, TypeOK', DestroyLeavesFromCreated, [Next]_vars
  PROVE  Quiet \/ Begins \/ Notify \/ ApplyDone \/ Replay
<1>0. stack \in Seq(Frames) /\ state \in States
  BY DEF TypeOK
<1>1. ASSUME NEW r, Answer(r) PROVE Quiet
  BY <1>1, SameItself DEF Answer, Quiet
<1>2. ASSUME NEW f \in Frames, f.op # "apply", stack' = Append(stack, f),
             UNCHANGED <<log, deliveries>>
      PROVE  Quiet
  BY <1>0, <1>2, SamePushed DEF Quiet
<1>3. ASSUME NEW r, Return(r), stack # <<>>, Top.op # "apply"
      PROVE  Quiet
  BY <1>0, <1>3, SamePopped DEF Quiet, Return, Top, Below
<1>4. ASSUME NEW next \in States, Apply(next, stack),
             (next # "Destroyed" /\ Rank(state) < Rank(next)) <=> ~ Retreats(state, next)
      PROVE  Begins
  BY <1>0, <1>4, SameItself DEF Begins
<1>5. ASSUME BeginDestroy PROVE Quiet \/ Begins
  <2>1. CASE Apply("Destroyed", stack)
    BY <1>4, <2>1 DEF States, Retreats
  <2>2. CASE /\ stack' = stack \o << DestroyFrame, MoveToFrame("Created") >>
             /\ UNCHANGED <<state, observers, nextId, ret, log, deliveries>>
    <3>1. /\ DestroyFrame \in Frames /\ MoveToFrame("Created") \in Frames
          /\ DestroyFrame.op # "apply" /\ MoveToFrame("Created").op # "apply"
      BY DEF DestroyFrame, MoveToFrame, Frames
    <3>2. /\ stack' \in Seq(Frames)
          /\ Len(stack') = Len(stack) + 2
          /\ \A i \in 1 .. Len(stack) : stack'[i] = stack[i]
          /\ stack'[Len(stack) + 1] = DestroyFrame
          /\ stack'[Len(stack) + 2] = MoveToFrame("Created")
      BY <1>0, <2>2, <3>1, PushedTwo
    <3>3. DOMAIN stack = 1 .. Len(stack) /\ DOMAIN stack' = 1 .. Len(stack) + 2
          /\ Len(stack) \in Nat
      BY <1>0, <3>2, LenProperties
    <3>4. SameApplies(stack, stack')
      BY <3>1, <3>2, <3>3 DEF SameApplies
    <3> QED BY <2>2, <3>4 DEF Quiet
  <2> QED BY <1>5, <2>1, <2>2 DEF BeginDestroy
<1>6. CASE StrictStep
  <2>1. ASSUME NEW from \in States, NEW to \in States, Step(from, to),
               (to # "Destroyed" /\ Rank(from) < Rank(to)) <=> ~ Retreats(from, to)
        PROVE  Quiet \/ Begins
    BY <1>1, <1>4, <2>1 DEF Step
  <2>2. /\ Rank("Initialized") = 0 /\ Rank("Created") = 1
        /\ Rank("Started") = 2 /\ Rank("Resumed") = 3
    BY DEF Rank
  <2> QED BY <1>6, <2>1, <2>2 DEF StrictStep, States, Retreats
<1>7. CASE Destroy
  BY <1>1, <1>5, <1>7 DEF Destroy
<1>8. CASE \E target \in States : MoveTo(target)
  <2>1. PICK target \in States : MoveTo(target)
    BY <1>8
  <2>2. CASE /\ target \notin {state, "Initialized", "Destroyed"}
             /\ stack' = Append(stack, MoveToFrame(target))
             /\ UNCHANGED <<state, observers, nextId, ret, log, deliveries>>
    <3>1. MoveToFrame(target) \in Frames /\ MoveToFrame(target).op # "apply"
      BY <2>2 DEF MoveToFrame, Frames, States
    <3> QED BY <1>2, <2>2, <3>1
  <2> QED BY <1>1, <1>5, <2>1, <2>2 DEF MoveTo
<1>9. CASE Subscribe
  <2>1. /\ SubscribeFrame(nextId, CatchUp(state)) \in Frames
        /\ SubscribeFrame(nextId, CatchUp(state)).op # "apply"
    BY CatchUpType DEF SubscribeFrame, Frames, TypeOK
  <2> QED BY <1>2, <1>9, <2>1 DEF Subscribe
<1>10. CASE \E id \in 0 .. nextId - 1 : Unsubscribe(id)
  BY <1>10, SameItself DEF Unsubscribe, Quiet
<1>11. CASE FinishDestroy
  <2>1. stack # <<>> /\ Top.op = "destroy"
    BY <1>11 DEF FinishDestroy, On
  <2>2. CASE ret # "Ok" /\ Return(ret)
    BY <1>3, <2>1, <2>2
  <2>3. CASE Apply("Destroyed", Below)
    <3>1. SameApplies(stack, Below) /\ Below \in Seq(Frames)
      BY <1>0, <2>1, SamePopped, TopAndBelow DEF Top, Below
    <3> QED BY <2>3, <3>1 DEF Begins, States, Retreats
  <2> QED BY <1>11, <2>2, <2>3 DEF FinishDestroy
<1>12. CASE MoveToRound
  <2>1. stack # <<>> /\ Top.op = "move_to" /\ Top \in Frames
    BY <1>12, TopAndBelow DEF MoveToRound, On
  <2>2. CASE Return("Ok") \/ Return("AlreadyDestroyed")
    BY <1>3, <2>1, <2>2
  <2>3. CASE state \notin {Top.target, "Destroyed"} /\ Apply(Towards(Top.target), stack)
    <3>1. Top.target \in {"Created", "Started", "Resumed"}
      BY <2>1, FrameShapes
    <3>2. /\ Towards(Top.target) \in States
          /\ \/ state = "Initialized" /\ Towards(Top.target) = "Created"
             \/ state = "Created" /\ Towards(Top.target) = "Started"
             \/ state = "Started" /\ Towards(Top.target) = "Resumed"
             \/ state = "Resumed" /\ Towards(Top.target) = "Started"
             \/ state = "Started" /\ Towards(Top.target) = "Created"
      BY <1>0, <2>3, <3>1, TowardsAdjacent DEF States
    <3>3. /\ Rank("Initialized") = 0 /\ Rank("Created") = 1
          /\ Rank("Started") = 2 /\ Rank("Resumed") = 3
      BY DEF Rank
    <3>4. (Towards(Top.target) # "Destroyed" /\ Rank(state) < Rank(Towards(Top.target)))
            <=> ~ Retreats(state, Towards(Top.target))
      BY <3>2, <3>3 DEF Retreats
    <3> QED BY <1>4, <2>3, <3>2, <3>4
  <2> QED BY <1>12, <2>2, <2>3 DEF MoveToRound
<1>13. CASE SubscribeDone
  BY <1>3, <1>13 DEF SubscribeDone, On
<1>14. CASE CallbackReturn
  BY <1>3, <1>14 DEF CallbackReturn, On
<1>15. CASE UNCHANGED vars
  BY <1>15, SameItself DEF vars, Quiet
<1> QED BY <1>6, <1>7, <1>8, <1>9, <1>10, <1>11, <1>12, <1>13, <1>14, <1>15
        DEF Next, Call, Components, Run

-----------------------------------------------------------------------------
(* Dropping an observer leaves the others in their order. *)
LEMMA WithoutElements ==
  ASSUME observers \in Seq(Nat), NEW id
  PROVE  \/ Without(id) = observers
         \/ \E at \in 1 .. Len(observers) :
              /\ observers[at] = id
              /\ Len(Without(id)) = Len(observers) - 1
              /\ Without(id) \in Seq(Nat)
              /\ \A i \in 1 .. Len(observers) - 1 :
                   Without(id)[i] = IF i < at THEN observers[i] ELSE observers[i + 1]
<1>1. DOMAIN observers = 1 .. Len(observers) /\ Len(observers) \in Nat
  BY LenProperties
<1>2. CASE \E i \in DOMAIN observers : observers[i] = id
  <2> DEFINE at == CHOOSE i \in DOMAIN observers : observers[i] = id
             head == SubSeq(observers, 1, at - 1)
             tail == SubSeq(observers, at + 1, Len(observers))
  <2>1. at \in 1 .. Len(observers) /\ observers[at] = id
    BY <1>1, <1>2
  <2>2. Without(id) = head \o tail
    BY <1>2 DEF Without
  <2> HIDE DEF at
  <2>3. /\ head \in Seq(Nat) /\ Len(head) = at - 1
        /\ \A i \in 1 .. at - 1 : head[i] = observers[i]
    BY <1>1, <2>1, ElementOfSeq, SubSeqProperties
  <2>4. /\ tail \in Seq(Nat) /\ Len(tail) = Len(observers) - at
        /\ \A i \in 1 .. Len(observers) - at : tail[i] = observers[at + i]
    <3>1. \A i \in at + 1 .. Len(observers) : observers[i] \in Nat
      BY <1>1, <2>1, ElementOfSeq
    <3>2. /\ tail \in Seq(Nat)
          /\ Len(tail) = IF at + 1 <= Len(observers)
                         THEN Len(observers) - (at + 1) + 1 ELSE 0
          /\ \A i \in 1 .. Len(observers) - (at + 1) + 1 :
               tail[i] = observers[at + 1 + i - 1]
      BY <1>1, <2>1, <3>1, SubSeqProperties
    <3>3. \A i \in 1 .. Len(observers) - at : at + 1 + i - 1 = at + i
      BY <1>1, <2>1
    <3>4. Len(observers) - (at + 1) + 1 = Len(observers) - at
      BY <1>1, <2>1
    <3> HIDE DEF tail
    <3>5. Len(tail) = Len(observers) - at
      <4>1. Len(observers) \in Nat /\ at \in Nat /\ at <= Len(observers)
        BY <1>1, <2>1
      <4>2. CASE at + 1 <= Len(observers)
        BY <3>2, <3>4, <4>2
      <4>3. CASE at = Len(observers)
        <5>1. ~ at + 1 <= Len(observers) /\ Len(observers) - at = 0
          BY <4>1, <4>3
        <5> QED BY <3>2, <5>1
      <4> QED BY <4>1, <4>2, <4>3
    <3>6. ASSUME NEW i \in 1 .. Len(observers) - at
          PROVE  tail[i] = observers[at + i]
      <4>1. i \in 1 .. Len(observers) - (at + 1) + 1
        BY <3>4
      <4>2. tail[i] = observers[at + 1 + i - 1]
        BY <3>2, <4>1
      <4> QED BY <3>3, <4>2
    <3> QED BY <3>2, <3>5, <3>6
  <2> HIDE DEF head, tail
  <2>5. /\ head \o tail \in Seq(Nat)
        /\ Len(head \o tail) = Len(head) + Len(tail)
        /\ \A i \in 1 .. Len(head) + Len(tail) : (head \o tail)[i] =
             IF i <= Len(head) THEN head[i] ELSE tail[i - Len(head)]
    BY <2>3, <2>4, ConcatProperties
  <2>6. ASSUME NEW i \in 1 .. Len(observers) - 1
        PROVE  (head \o tail)[i] = IF i < at THEN observers[i] ELSE observers[i + 1]
    <3>1. CASE i < at
      <4>1. i \in 1 .. at - 1 /\ i \in 1 .. Len(head) + Len(tail) /\ i <= Len(head)
        <5>1. Len(head) + Len(tail) = Len(observers) - 1
          BY <1>1, <2>1, <2>3, <2>4
        <5> QED BY <1>1, <2>1, <2>3, <3>1, <5>1
      <4>2. (head \o tail)[i] = head[i]
        BY <2>5, <4>1
      <4> QED BY <2>3, <3>1, <4>1, <4>2
    <3>2. CASE ~ i < at
      <4>1. i - Len(head) \in 1 .. Len(observers) - at
        BY <1>1, <2>1, <2>3, <3>2
      <4>2. (head \o tail)[i] = tail[i - Len(head)]
        <5>1. i \in 1 .. Len(head) + Len(tail) /\ ~ i <= Len(head)
          BY <1>1, <2>1, <2>3, <2>4, <3>2
        <5> QED BY <2>5, <5>1
      <4>3. at + (i - Len(head)) = i + 1
        BY <1>1, <2>1, <2>3
      <4> QED BY <2>4, <3>2, <4>1, <4>2, <4>3
    <3> QED BY <3>1, <3>2
  <2>7. Len(Without(id)) = Len(observers) - 1
    BY <1>1, <2>1, <2>2, <2>3, <2>4, <2>5
  <2>8. Without(id) \in Seq(Nat)
    BY <2>2, <2>5
  <2>9. \A i \in 1 .. Len(observers) - 1 :
          Without(id)[i] = IF i < at THEN observers[i] ELSE observers[i + 1]
    BY <2>2, <2>6
  <2> QED BY <2>1, <2>7, <2>8, <2>9
<1>3. CASE ~ \E i \in DOMAIN observers : observers[i] = id
  BY <1>3 DEF Without
<1> QED BY <1>2, <1>3

(* What a step does to the Vec. *)
LEMMA ObserverSteps ==
  ASSUME [Next]_vars
  PROVE  \/ UNCHANGED <<observers, nextId>>
         \/ observers' = <<>> /\ UNCHANGED nextId
         \/ /\ nextId' = nextId + 1
            /\ observers' \in {observers, Append(observers, nextId)}
         \/ \E id \in 0 .. nextId - 1 : observers' = Without(id) /\ UNCHANGED nextId
<1>1. ASSUME StrictStep \/ Destroy \/ (\E target \in States : MoveTo(target))
             \/ Notify \/ FinishDestroy \/ MoveToRound \/ Replay
             \/ SubscribeDone \/ CallbackReturn \/ UNCHANGED vars
      PROVE  UNCHANGED <<observers, nextId>>
  BY <1>1 DEF StrictStep, Step, Destroy, MoveTo, BeginDestroy, Notify, FinishDestroy,
              MoveToRound, Replay, SubscribeDone, CallbackReturn, Answer, Apply, Return,
              vars
<1>2. CASE ApplyDone
  BY <1>2 DEF ApplyDone, Return
<1>3. CASE Subscribe
  BY <1>3 DEF Subscribe
<1>4. CASE \E id \in 0 .. nextId - 1 : Unsubscribe(id)
  BY <1>4 DEF Unsubscribe
<1> QED BY <1>1, <1>2, <1>3, <1>4 DEF Next, Call, Components, Run

LEMMA SortedStays ==
  ASSUME TypeOK, Sorted,
         \/ UNCHANGED <<observers, nextId>>
         \/ observers' = <<>> /\ UNCHANGED nextId
         \/ /\ nextId' = nextId + 1
            /\ observers' \in {observers, Append(observers, nextId)}
         \/ \E id \in 0 .. nextId - 1 : observers' = Without(id) /\ UNCHANGED nextId
  PROVE  Sorted'
<1>0. /\ observers \in Seq(Nat) /\ nextId \in Nat
      /\ DOMAIN observers = 1 .. Len(observers) /\ Len(observers) \in Nat
      /\ \A i \in 1 .. Len(observers) : observers[i] \in Nat
  BY LenProperties, ElementOfSeq DEF TypeOK
<1>1. CASE UNCHANGED <<observers, nextId>>
  BY <1>1 DEF Sorted
<1>2. CASE observers' = <<>> /\ UNCHANGED nextId
  BY <1>2, EmptySeq DEF Sorted
<1>3. CASE nextId' = nextId + 1 /\ observers' = observers
  <2>1. \A i \in DOMAIN observers : observers[i] < nextId + 1
    BY <1>0 DEF Sorted
  <2> QED BY <1>3, <2>1 DEF Sorted
<1>4. CASE nextId' = nextId + 1 /\ observers' = Append(observers, nextId)
  <2>1. /\ observers' \in Seq(Nat) /\ Len(observers') = Len(observers) + 1
        /\ \A i \in 1 .. Len(observers) : observers'[i] = observers[i]
        /\ observers'[Len(observers) + 1] = nextId
    BY <1>0, <1>4, AppendProperties
  <2>2. DOMAIN observers' = 1 .. Len(observers) + 1
    BY <2>1, LenProperties
  <2> QED BY <1>0, <1>4, <2>1, <2>2 DEF Sorted
<1>5. ASSUME NEW id \in 0 .. nextId - 1, observers' = Without(id), UNCHANGED nextId
      PROVE  Sorted'
  <2>1. CASE Without(id) = observers
    BY <1>5, <2>1 DEF Sorted
  <2>2. ASSUME NEW at \in 1 .. Len(observers),
               Len(Without(id)) = Len(observers) - 1,
               Without(id) \in Seq(Nat),
               \A i \in 1 .. Len(observers) - 1 :
                 Without(id)[i] = IF i < at THEN observers[i] ELSE observers[i + 1]
        PROVE  Sorted'
    <3>1. DOMAIN observers' = 1 .. Len(observers) - 1
      BY <1>5, <2>2, LenProperties
    <3>2. \A i \in 1 .. Len(observers) - 1 :
            observers'[i] = IF i < at THEN observers[i] ELSE observers[i + 1]
      BY <1>5, <2>2
    <3>3. \A i \in DOMAIN observers' : observers'[i] < nextId'
      <4> SUFFICES ASSUME NEW i \in DOMAIN observers' PROVE observers'[i] < nextId'
        OBVIOUS
      <4> DEFINE a == IF i < at THEN i ELSE i + 1
      <4>1. a \in DOMAIN observers
        <5>1. i \in 1 .. Len(observers) - 1
          BY <3>1
        <5>2. i \in 1 .. Len(observers) /\ i + 1 \in 1 .. Len(observers)
          BY <1>0, <5>1
        <5> QED BY <1>0, <5>2
      <4>2. observers'[i] = observers[a]
        BY <3>1, <3>2
      <4> HIDE DEF a
      <4> QED BY <1>5, <4>1, <4>2 DEF Sorted
    <3>4. ASSUME NEW i \in DOMAIN observers', NEW j \in DOMAIN observers', i < j
          PROVE  observers'[i] < observers'[j]
      <4> DEFINE a == IF i < at THEN i ELSE i + 1
                 b == IF j < at THEN j ELSE j + 1
      <4>0. i \in 1 .. Len(observers) - 1 /\ j \in 1 .. Len(observers) - 1
        BY <3>1
      <4>1. a \in DOMAIN observers /\ b \in DOMAIN observers /\ a < b
        <5>1. Len(observers) \in Nat /\ DOMAIN observers = 1 .. Len(observers)
          BY <1>0
        <5>2. at \in Nat /\ i \in Nat /\ j \in Nat /\ i < j
          BY <3>4, <4>0, <5>1
        <5>3. a \in 1 .. Len(observers)
          BY <4>0, <5>1, <5>2
        <5>4. b \in 1 .. Len(observers)
          BY <4>0, <5>1, <5>2
        <5>5. a < b
          BY <5>2
        <5> QED BY <5>1, <5>3, <5>4, <5>5
      <4>2. observers'[i] = observers[a] /\ observers'[j] = observers[b]
        BY <3>1, <3>2
      <4> HIDE DEF a, b
      <4> QED BY <4>1, <4>2 DEF Sorted
    <3> QED BY <3>3, <3>4 DEF Sorted
  <2> QED BY <1>0, <2>1, <2>2, WithoutElements
<1> QED BY <1>1, <1>2, <1>3, <1>4, <1>5

LEMMA SortedStep ==
  ASSUME TypeOK, Sorted, [Next]_vars
  PROVE  Sorted'
BY ObserverSteps, SortedStays

(* A snapshot lists the registered observers in the order of its transition. *)
LEMMA SnapshotOrdered ==
  ASSUME TypeOK, Sorted, NEW from, NEW next
  PROVE  LET snap == Snapshot(from, next) IN
         /\ snap \in Seq(Nat)
         /\ {snap[a] : a \in DOMAIN snap} = {observers[i] : i \in DOMAIN observers}
         /\ \A a, b \in DOMAIN snap :
              a < b => IF Retreats(from, next) THEN snap[a] > snap[b]
                                               ELSE snap[a] < snap[b]
<1> DEFINE L == Len(observers)
           back == [i \in 1 .. L |-> observers[L + 1 - i]]
<1>1. /\ observers \in Seq(Nat) /\ L \in Nat /\ DOMAIN observers = 1 .. L
      /\ \A i \in 1 .. L : observers[i] \in Nat
  BY LenProperties, ElementOfSeq DEF TypeOK
<1>2. Snapshot(from, next) \in Seq(Nat)
  BY <1>1, SnapshotType
<1>3. CASE Retreats(from, next)
  <2>1. Snapshot(from, next) = back
    BY <1>3 DEF Snapshot
  <2> HIDE DEF L
  <2>2. DOMAIN back = 1 .. L /\ \A i \in 1 .. L : back[i] = observers[L + 1 - i]
    OBVIOUS
  <2>3. \A i \in 1 .. L : L + 1 - i \in 1 .. L /\ L + 1 - (L + 1 - i) = i
    BY <1>1
  <2> HIDE DEF back
  <2>4. {back[a] : a \in 1 .. L} = {observers[i] : i \in 1 .. L}
    <3>1. \A a \in 1 .. L : \E i \in 1 .. L : back[a] = observers[i]
      BY <2>2, <2>3
    <3>2. \A i \in 1 .. L : \E a \in 1 .. L : observers[i] = back[a]
      BY <2>2, <2>3
    <3> QED BY <3>1, <3>2
  <2>5. ASSUME NEW a \in 1 .. L, NEW b \in 1 .. L, a < b PROVE back[a] > back[b]
    <3>1. L + 1 - b < L + 1 - a
      BY <1>1, <2>5
    <3>2. observers[L + 1 - b] < observers[L + 1 - a]
      BY <1>1, <2>3, <3>1 DEF Sorted
    <3>3. observers[L + 1 - b] \in Nat /\ observers[L + 1 - a] \in Nat
      BY <1>1, <2>3
    <3> QED BY <2>2, <3>2, <3>3
  <2> QED BY <1>1, <1>2, <1>3, <2>1, <2>2, <2>4, <2>5
<1>4. CASE ~ Retreats(from, next)
  BY <1>1, <1>2, <1>4 DEF Snapshot, Sorted
<1> QED BY <1>3, <1>4

-----------------------------------------------------------------------------
(* Transitions once applied stay as they were. *)
LogGrows ==
  /\ DOMAIN log \subseteq DOMAIN log'
  /\ \A n \in DOMAIN log : log'[n] = log[n]

LEMMA SameDirection ==
  ASSUME LogGrows, NEW n \in DOMAIN log
  PROVE  Upwards(n)' <=> Upwards(n)
BY DEF LogGrows, Upwards

LEMMA SameOrder ==
  ASSUME LogGrows, NEW n \in DOMAIN log, NEW a, NEW b, Before(n, a, b)
  PROVE  Before(n, a, b)'
BY SameDirection DEF Before

(* The calls made for transition n stay as they were. *)
SameCalls(n) ==
  /\ CallsFor(n)' = CallsFor(n)
  /\ \A k \in CallsFor(n) : deliveries'[k] = deliveries[k]

LEMMA SameCalled ==
  ASSUME NEW n, SameCalls(n)
  PROVE  Called(n)' = Called(n)
BY DEF SameCalls, Called

LEMMA DueKept ==
  ASSUME NEW f, Due(f), LogGrows, SameCalls(f.n)
  PROVE  Due(f)'
<1>1. f.n \in DOMAIN log /\ f.n \in DOMAIN log' /\ log'[f.n] = log[f.n]
  BY DEF Due, LogGrows
<1>2. \A a, b \in DOMAIN f.todo : a < b => Before(f.n, f.todo[a], f.todo[b])'
  BY <1>1, SameOrder DEF Due
<1>3. \A k \in CallsFor(f.n)', a \in DOMAIN f.todo :
        Before(f.n, deliveries[k].id, f.todo[a])'
  <2> SUFFICES ASSUME NEW k \in CallsFor(f.n)', NEW a \in DOMAIN f.todo
               PROVE  Before(f.n, deliveries[k].id, f.todo[a])'
    OBVIOUS
  <2>1. k \in CallsFor(f.n) /\ deliveries'[k] = deliveries[k]
    BY DEF SameCalls
  <2>2. Before(f.n, deliveries[k].id, f.todo[a])
    BY <2>1 DEF Due
  <2> QED BY <1>1, <2>1, <2>2, SameDirection DEF Before
<1>4. Called(f.n)' \cup ToCall(f) = log'[f.n].registered
  BY <1>1, SameCalled DEF Due
<1> QED BY <1>1, <1>2, <1>3, <1>4 DEF Due, ToCall

(* What one more observer call adds. *)
LEMMA Delivered ==
  ASSUME TypeOK, NEW d \in [id : Nat, event : States, n : Nat],
         deliveries' = Append(deliveries, d)
  PROVE  LET last == Len(deliveries) + 1 IN
         /\ last \in Nat /\ DOMAIN deliveries = 1 .. Len(deliveries)
         /\ DOMAIN deliveries' = 1 .. last /\ deliveries'[last] = d
         /\ \A k \in DOMAIN deliveries : deliveries'[k] = deliveries[k]
         /\ \A n : n # d.n => SameCalls(n)
         /\ CallsFor(d.n)' = CallsFor(d.n) \cup {last}
         /\ Called(d.n)' = Called(d.n) \cup {d.id}
<1> DEFINE L == Len(deliveries)
<1>1. /\ deliveries \in Seq([id : Nat, event : States, n : Nat])
      /\ L \in Nat /\ DOMAIN deliveries = 1 .. L
  BY LenProperties DEF TypeOK
<1>2. /\ Len(deliveries') = L + 1 /\ DOMAIN deliveries' = 1 .. L + 1
      /\ \A k \in 1 .. L : deliveries'[k] = deliveries[k]
      /\ deliveries'[L + 1] = d
  BY <1>1, AppendProperties, LenProperties
<1> HIDE DEF L
<1>3. \A n : n # d.n => SameCalls(n)
  BY <1>1, <1>2 DEF SameCalls, CallsFor
<1>4. CallsFor(d.n)' = CallsFor(d.n) \cup {L + 1}
  BY <1>1, <1>2 DEF CallsFor
<1>5. \A k \in CallsFor(d.n) : deliveries'[k] = deliveries[k]
  BY <1>1, <1>2 DEF CallsFor
<1>6. Called(d.n)' = Called(d.n) \cup {d.id}
  <2>1. Called(d.n)' = {deliveries'[k].id : k \in CallsFor(d.n) \cup {L + 1}}
    BY <1>4 DEF Called
  <2>2. {deliveries'[k].id : k \in CallsFor(d.n) \cup {L + 1}}
          = {deliveries'[k].id : k \in CallsFor(d.n)} \cup {deliveries'[L + 1].id}
    OBVIOUS
  <2>3. {deliveries'[k].id : k \in CallsFor(d.n)} = Called(d.n)
    BY <1>5 DEF Called
  <2> QED BY <1>2, <2>1, <2>2, <2>3
<1> QED BY <1>1, <1>2, <1>3, <1>4, <1>6 DEF L

-----------------------------------------------------------------------------
(* A step that has nothing to do with notifications. *)
LEMMA QuietStep ==
  ASSUME TypeOK, NotifyInv, Sorted', Quiet
  PROVE  NotifyInv'
<1>1. LogGrows /\ \A n : SameCalls(n)
  BY DEF Quiet, LogGrows, SameCalls, CallsFor
<1>2. Directed' /\ NoneAhead'
  BY DEF NotifyInv, Quiet, Directed, NoneAhead, Upwards, Retreats
<1>3. FramesDue'
  BY <1>1, DueKept DEF NotifyInv, Quiet, SameApplies, FramesDue
<1>4. OneFrameEach'
  BY DEF NotifyInv, Quiet, SameApplies, OneFrameEach
<1>5. Complete'
  <2>1. \A n : InProgress(n) => InProgress(n)'
    BY DEF Quiet, SameApplies, InProgress
  <2> QED BY <1>1, <2>1, SameCalled DEF NotifyInv, Quiet, Complete
<1>6. NotifiedInOrder'
  BY DEF NotifyInv, Quiet, NotifiedInOrder, Upwards
<1> QED BY <1>2, <1>3, <1>4, <1>5, <1>6 DEF NotifyInv


(* A transition begins its notification. *)
LEMMA BeginsStep ==
  ASSUME TypeOK, NotifyInv, Sorted', Begins
  PROVE  NotifyInv'
<1>0. PICK new \in Nat : new = Len(log) + 1
  BY LenProperties DEF TypeOK
<1>1. PICK next \in States, below \in Seq(Frames) :
        /\ Apply(next, below)
        /\ SameApplies(stack, below)
        /\ (next # "Destroyed" /\ Rank(state) < Rank(next)) <=> ~ Retreats(state, next)
  BY DEF Begins
<1> DEFINE snap == Snapshot(state, next)
           registered == {observers[i] : i \in DOMAIN observers}
<1>a. PICK frame : frame = ApplyFrame(next, new, snap)
  OBVIOUS
<1>b. \A k \in DOMAIN deliveries : deliveries[k].n \in Nat /\ deliveries[k].n <= Len(log)
  <2>1. deliveries \in Seq([id : Nat, event : States, n : Nat])
    BY DEF TypeOK
  <2>2. \A k \in DOMAIN deliveries : deliveries[k] \in [id : Nat, event : States, n : Nat]
    BY <2>1, LenProperties, ElementOfSeq
  <2> QED BY <2>2 DEF NotifyInv, NoneAhead
<1>2. /\ Len(log) \in Nat /\ DOMAIN log = 1 .. Len(log)
      /\ DOMAIN log' = 1 .. new
      /\ \A n \in 1 .. Len(log) : log'[n] = log[n]
      /\ log'[new] = [from |-> state, to |-> next, registered |-> registered]
      /\ Len(log') = new
  <2>1. log \in Seq([from : States, to : States, registered : SUBSET Nat])
    BY DEF TypeOK
  <2>2. /\ log' = Append(log, [from |-> state, to |-> next, registered |-> registered])
        /\ [from |-> state, to |-> next, registered |-> registered]
              \in [from : States, to : States, registered : SUBSET Nat]
    <3>1. registered \in SUBSET Nat
      BY LenProperties, ElementOfSeq DEF TypeOK
    <3> QED BY <1>1, <3>1 DEF TypeOK, Apply
  <2> HIDE DEF registered
  <2> QED BY <1>0, <2>1, <2>2, AppendProperties, LenProperties
<1>3. /\ Len(below) \in Nat /\ DOMAIN below = 1 .. Len(below)
      /\ DOMAIN stack' = 1 .. Len(below) + 1
      /\ \A i \in 1 .. Len(below) : stack'[i] = below[i]
      /\ stack'[Len(below) + 1] = frame
  <2>1. snap \in Seq(Nat)
    BY SnapshotType DEF TypeOK
  <2>2. frame \in Frames
    BY <1>a, <1>2, <2>1 DEF ApplyFrame, Frames
  <2>3. stack' = Append(below, frame)
    BY <1>0, <1>1, <1>a DEF Apply
  <2> QED BY <2>2, <2>3, AppendProperties, LenProperties
<1>4. frame.op = "apply" /\ frame.n = new /\ frame.todo = snap
  BY <1>a DEF ApplyFrame
<1>5. /\ snap \in Seq(Nat)
      /\ {snap[a] : a \in DOMAIN snap} = registered
      /\ \A a, b \in DOMAIN snap :
           a < b => IF Retreats(state, next) THEN snap[a] > snap[b]
                                             ELSE snap[a] < snap[b]
  BY SnapshotOrdered DEF NotifyInv
<1> HIDE DEF snap, registered
<1>6. deliveries' = deliveries
  BY <1>1 DEF Apply
<1>7. LogGrows /\ \A n : SameCalls(n)
  BY <1>0, <1>2, <1>6 DEF LogGrows, SameCalls, CallsFor
<1>8. CallsFor(new)' = {} /\ Called(new)' = {}
  <2>2. CallsFor(new)' = {}
    BY <1>0, <1>2, <1>6, <1>b DEF CallsFor
  <2> QED BY <2>2 DEF Called
<1>9. Upwards(new)' <=> ~ Retreats(state, next)
  BY <1>1, <1>2 DEF Upwards
<1>10. Directed'
  <2> SUFFICES ASSUME NEW n \in 1 .. new
               PROVE  Upwards(n)' <=> ~ Retreats(log'[n].from, log'[n].to)
    BY <1>2 DEF Directed
  <2>1. CASE n \in 1 .. Len(log)
    BY <1>2, <1>7, <2>1, SameDirection DEF NotifyInv, Directed
  <2>2. CASE n = new
    BY <1>2, <1>9, <2>2
  <2> QED BY <1>0, <1>2, <2>1, <2>2
<1>11. Due(frame)'
  <2>1. \A a, b \in DOMAIN frame.todo :
          a < b => Before(frame.n, frame.todo[a], frame.todo[b])'
    BY <1>4, <1>5, <1>9 DEF Before
  <2>2. Called(frame.n)' \cup ToCall(frame) = log'[frame.n].registered
    BY <1>2, <1>4, <1>5, <1>8 DEF ToCall
  <2> QED BY <1>0, <1>2, <1>4, <1>8, <2>1, <2>2 DEF Due, ToCall
<1>12. \A i \in DOMAIN stack' : stack'[i].op = "apply" =>
         \/ i = Len(below) + 1 /\ stack'[i] = frame
         \/ i \in DOMAIN stack /\ i <= Len(below) /\ stack[i] = stack'[i]
  BY <1>1, <1>3 DEF SameApplies
<1>13. FramesDue'
  <2> SUFFICES ASSUME NEW i \in DOMAIN stack', stack'[i].op = "apply"
               PROVE  Due(stack[i])'
    BY DEF FramesDue
  <2>1. CASE stack'[i] = frame
    BY <1>11, <2>1 DEF Due, Before, Upwards, Called, CallsFor, ToCall
  <2>2. CASE i \in DOMAIN stack /\ stack[i] = stack'[i]
    <3>1. PICK f : f = stack[i]
      OBVIOUS
    <3>2. Due(f)'
      BY <1>7, <2>2, <3>1, DueKept DEF NotifyInv, FramesDue
    <3> QED BY <2>2, <3>1, <3>2 DEF Due, Before, Upwards, Called, CallsFor, ToCall
  <2> QED BY <1>12, <2>1, <2>2
<1>14. OneFrameEach'
  <2> SUFFICES ASSUME NEW i \in DOMAIN stack', NEW j \in DOMAIN stack',
                      stack'[i].op = "apply", stack'[j].op = "apply",
                      stack'[i].n = stack'[j].n
               PROVE  i = j
    BY DEF OneFrameEach
  <2>1. \A l \in DOMAIN stack : stack[l].op = "apply" => stack[l].n # new
    BY <1>0, <1>2 DEF NotifyInv, FramesDue, Due
  <2> QED BY <1>4, <1>12, <2>1 DEF NotifyInv, OneFrameEach
<1>15. NoneAhead'
  BY <1>0, <1>2, <1>6, <1>b DEF NoneAhead
<1>16. Complete'
  <2> SUFFICES ASSUME NEW n \in 1 .. new, ~ InProgress(n)'
               PROVE  Called(n)' = log'[n].registered
    BY <1>2 DEF Complete
  <2>1. n # new
    BY <1>3, <1>4 DEF InProgress
  <2>2. ~ InProgress(n)
    BY <1>1, <1>3 DEF InProgress, SameApplies
  <2> QED BY <1>0, <1>2, <1>7, <2>1, <2>2, SameCalled DEF NotifyInv, Complete
<1>17. NotifiedInOrder'
  <2>1. ASSUME NEW j \in DOMAIN deliveries, NEW k \in DOMAIN deliveries, NEW n,
               j < k, deliveries[j].n = n, deliveries[k].n = n, n > 0
        PROVE  IF Upwards(n)' THEN deliveries[j].id < deliveries[k].id
                              ELSE deliveries[j].id > deliveries[k].id
    <3>1. n \in DOMAIN log
      BY <1>0, <1>2, <1>b, <2>1
    <3> QED BY <1>7, <2>1, <3>1, SameDirection DEF NotifyInv, NotifiedInOrder
  <2> QED BY <1>6, <2>1 DEF NotifiedInOrder, Upwards
<1> QED BY <1>10, <1>13, <1>14, <1>15, <1>16, <1>17 DEF NotifyInv


(* The elements of a sequence of which the first is taken. *)
LEMMA HeadTail ==
  ASSUME NEW S, NEW s \in Seq(S), s # <<>>
  PROVE  /\ Tail(s) \in Seq(S)
         /\ Head(s) \in S /\ 1 \in DOMAIN s /\ s[1] = Head(s)
         /\ \A a \in DOMAIN Tail(s) :
              a \in Nat /\ a + 1 \in DOMAIN s /\ 1 < a + 1 /\ Tail(s)[a] = s[a + 1]
         /\ \A a \in DOMAIN s :
              a = 1 \/ \E b \in DOMAIN Tail(s) : s[a] = Tail(s)[b]
<1>1. /\ Len(s) \in Nat \ {0} /\ DOMAIN s = 1 .. Len(s)
      /\ Tail(s) \in Seq(S) /\ Len(Tail(s)) = Len(s) - 1
      /\ \A i \in 1 .. Len(Tail(s)) : Tail(s)[i] = s[i + 1]
      /\ Head(s) \in S /\ s[1] = Head(s)
  BY EmptySeq, LenProperties, HeadTailProperties
<1>2. DOMAIN Tail(s) = 1 .. Len(s) - 1
  BY <1>1, LenProperties
<1>3. ASSUME NEW a \in 1 .. Len(s), a # 1
      PROVE  \E b \in DOMAIN Tail(s) : s[a] = Tail(s)[b]
  <2>1. a - 1 \in 1 .. Len(s) - 1 /\ (a - 1) + 1 = a
    BY <1>1, <1>3
  <2>2. Tail(s)[a - 1] = s[a]
    BY <1>1, <2>1
  <2> QED BY <1>2, <2>1, <2>2
<1> QED BY <1>1, <1>2, <1>3

(* A notification calls its next observer. *)
LEMMA NotifyStep ==
  ASSUME TypeOK, NotifyInv, Sorted', Notify
  PROVE  NotifyInv'
<1>0. PICK f \in Frames, L \in Nat \ {0} : f = Top /\ L = Len(stack) /\ f = stack[L]
  BY TopAndBelow DEF Notify, On, Top
<1>1. /\ f.op = "apply" /\ f.todo # <<>>
      /\ f \in [op : {"apply"}, event : States, n : Nat, todo : Seq(Nat)]
  BY <1>0, FrameShapes DEF Notify, On
<1>2. PICK id, rest : id = Head(f.todo) /\ rest = Tail(f.todo)
  OBVIOUS
<1>3. /\ rest \in Seq(Nat) /\ id \in Nat
      /\ 1 \in DOMAIN f.todo /\ f.todo[1] = id
      /\ \A a \in DOMAIN rest : a \in Nat /\ a + 1 \in DOMAIN f.todo /\ 1 < a + 1
                                /\ rest[a] = f.todo[a + 1]
      /\ ToCall(f) = {id} \cup {rest[a] : a \in DOMAIN rest}
  <2>1. f.todo \in Seq(Nat)
    BY <1>1
  <2>2. /\ Tail(f.todo) \in Seq(Nat)
        /\ Head(f.todo) \in Nat /\ 1 \in DOMAIN f.todo /\ f.todo[1] = Head(f.todo)
        /\ \A a \in DOMAIN Tail(f.todo) :
             a \in Nat /\ a + 1 \in DOMAIN f.todo /\ 1 < a + 1
             /\ Tail(f.todo)[a] = f.todo[a + 1]
        /\ \A a \in DOMAIN f.todo :
             a = 1 \/ \E b \in DOMAIN Tail(f.todo) : f.todo[a] = Tail(f.todo)[b]
    BY <1>1, <2>1, HeadTail
  <2>3. ToCall(f) \subseteq {id} \cup {rest[a] : a \in DOMAIN rest}
    <3>1. ASSUME NEW a \in DOMAIN f.todo
          PROVE  f.todo[a] \in {id} \cup {rest[b] : b \in DOMAIN rest}
      <4>1. CASE a = 1
        BY <1>2, <2>2, <4>1
      <4>2. CASE \E b \in DOMAIN Tail(f.todo) : f.todo[a] = Tail(f.todo)[b]
        BY <1>2, <4>2
      <4> QED BY <2>2, <3>1, <4>1, <4>2
    <3> QED BY <3>1 DEF ToCall
  <2>4. {id} \cup {rest[a] : a \in DOMAIN rest} \subseteq ToCall(f)
    <3>1. id \in ToCall(f)
      BY <1>2, <2>2 DEF ToCall
    <3>2. ASSUME NEW a \in DOMAIN rest PROVE rest[a] \in ToCall(f)
      <4>1. a + 1 \in DOMAIN f.todo /\ rest[a] = f.todo[a + 1]
        BY <1>2, <2>2
      <4> QED BY <4>1 DEF ToCall
    <3> QED BY <3>1, <3>2
  <2> QED BY <1>2, <2>2, <2>3, <2>4
<1>4. PICK g : g = [f EXCEPT !.todo = Tail(@)]
  OBVIOUS
<1>5. /\ g \in Frames /\ g.op = "apply" /\ g.n = f.n /\ g.todo = rest
  BY <1>1, <1>2, <1>3, <1>4 DEF Frames
<1>6. CallbackFrame(id, f.event) \in Frames /\ CallbackFrame(id, f.event).op # "apply"
  BY <1>1, <1>3 DEF CallbackFrame, Frames
<1>7. /\ DOMAIN stack = 1 .. L /\ DOMAIN stack' = 1 .. L + 1
      /\ \A i \in 1 .. L - 1 : stack'[i] = stack[i]
      /\ stack'[L] = g
      /\ stack'[L + 1] = CallbackFrame(id, f.event)
  <2>1. stack # <<>> /\ stack' = Below \o <<g, CallbackFrame(id, f.event)>>
    BY <1>0, <1>2, <1>4 DEF Notify, On
  <2> QED BY <1>0, <1>5, <1>6, <2>1, CalledBack
<1>8. PICK d : d = [id |-> id, event |-> f.event, n |-> f.n]
  OBVIOUS
<1>9. /\ d \in [id : Nat, event : States, n : Nat] /\ d.n = f.n /\ d.id = id
      /\ deliveries' = Append(deliveries, d)
      /\ log' = log
  BY <1>0, <1>1, <1>2, <1>3, <1>8 DEF Notify
<1>10. PICK last \in Nat : last = Len(deliveries) + 1
  BY LenProperties DEF TypeOK
<1>11. /\ DOMAIN deliveries = 1 .. last - 1
       /\ DOMAIN deliveries' = 1 .. last /\ deliveries'[last] = d
       /\ \A k \in DOMAIN deliveries : deliveries'[k] = deliveries[k]
       /\ \A n : n # d.n => SameCalls(n)
       /\ CallsFor(d.n)' = CallsFor(d.n) \cup {last}
       /\ Called(d.n)' = Called(d.n) \cup {d.id}
  BY <1>9, <1>10, Delivered
<1>12. LogGrows
  BY <1>9 DEF LogGrows
<1>13. Due(f)
  BY <1>0, <1>1, <1>7 DEF NotifyInv, FramesDue
<1>14. f.n \in DOMAIN log /\ f.n \in DOMAIN log' /\ f.n \in Nat \ {0}
  <2>1. f.n \in DOMAIN log
    BY <1>13 DEF Due
  <2> QED BY <1>9, <2>1, LenProperties DEF TypeOK
<1>15. \A k \in CallsFor(f.n) : Before(f.n, deliveries[k].id, id)
  BY <1>3, <1>13 DEF Due
<1>16. Directed'
  BY <1>9 DEF NotifyInv, Directed, Upwards, Retreats
<1>17. Due(g)'
  <2>1. \A a, b \in DOMAIN rest : a < b => Before(f.n, rest[a], rest[b])'
    <3> SUFFICES ASSUME NEW a \in DOMAIN rest, NEW b \in DOMAIN rest, a < b
                 PROVE  Before(f.n, rest[a], rest[b])'
      OBVIOUS
    <3>1. Before(f.n, f.todo[a + 1], f.todo[b + 1])
      BY <1>3, <1>13 DEF Due
    <3> QED BY <1>3, <1>12, <1>14, <3>1, SameDirection DEF Before
  <2>2. \A a \in DOMAIN rest : Before(f.n, id, rest[a])
    <3> SUFFICES ASSUME NEW a \in DOMAIN rest PROVE Before(f.n, id, rest[a])
      OBVIOUS
    <3>1. Before(f.n, f.todo[1], f.todo[a + 1])
      BY <1>3, <1>13 DEF Due
    <3> QED BY <1>3, <3>1
  <2>3. \A k \in CallsFor(f.n), a \in DOMAIN rest : Before(f.n, deliveries[k].id, rest[a])
    BY <1>3, <1>13 DEF Due
  <2>4. \A k \in CallsFor(f.n)', a \in DOMAIN rest :
          Before(f.n, deliveries[k].id, rest[a])'
    <3> SUFFICES ASSUME NEW k \in CallsFor(f.n)', NEW a \in DOMAIN rest
                 PROVE  Before(f.n, deliveries[k].id, rest[a])'
      OBVIOUS
    <3>1. PICK i : i = deliveries'[k].id
      OBVIOUS
    <3>2. Before(f.n, i, rest[a])
      <4>1. CASE k = last
        BY <1>9, <1>11, <2>2, <3>1, <4>1
      <4>2. CASE k \in CallsFor(f.n)
        BY <1>11, <2>3, <3>1, <4>2 DEF CallsFor
      <4> QED BY <1>9, <1>11, <4>1, <4>2
    <3> QED BY <1>12, <1>14, <3>1, <3>2, SameDirection DEF Before
  <2>5. Called(f.n)' \cup {rest[a] : a \in DOMAIN rest} = log'[f.n].registered
    BY <1>3, <1>9, <1>11, <1>13 DEF Due
  <2> QED BY <1>5, <1>14, <2>1, <2>4, <2>5 DEF Due, ToCall
<1>18. FramesDue'
  <2> SUFFICES ASSUME NEW i \in DOMAIN stack', stack'[i].op = "apply"
               PROVE  Due(stack[i])'
    BY DEF FramesDue
  <2>1. PICK h : h = stack'[i]
    OBVIOUS
  <2>2. Due(h)'
    <3>1. CASE i = L
      BY <1>7, <1>17, <2>1, <3>1
    <3>2. CASE i \in 1 .. L - 1
      <4>1. h = stack[i] /\ i \in DOMAIN stack /\ L \in DOMAIN stack /\ i # L
        BY <1>7, <2>1, <3>2
      <4>2. h.n # f.n
        BY <1>0, <1>1, <2>1, <4>1 DEF NotifyInv, OneFrameEach
      <4>3. Due(h)
        BY <2>1, <4>1 DEF NotifyInv, FramesDue
      <4> QED BY <1>9, <1>11, <1>12, <4>2, <4>3, DueKept
    <3> QED BY <1>6, <1>7, <3>1, <3>2
  <2> QED BY <2>1, <2>2 DEF Due, Before, Upwards, Called, CallsFor, ToCall
<1>19. \A i \in DOMAIN stack' : stack'[i].op = "apply" =>
         i \in DOMAIN stack /\ stack[i].op = "apply" /\ stack[i].n = stack'[i].n
  BY <1>0, <1>1, <1>5, <1>6, <1>7
<1>20. OneFrameEach'
  BY <1>19 DEF NotifyInv, OneFrameEach
<1>21. NoneAhead'
  <2>1. Len(log) \in Nat /\ f.n <= Len(log) /\ DOMAIN deliveries' = DOMAIN deliveries \cup {last}
    <3>1. Len(log) \in Nat /\ DOMAIN log = 1 .. Len(log)
      BY LenProperties DEF TypeOK
    <3>2. last \in Nat \ {0}
      BY <1>10, LenProperties DEF TypeOK
    <3> QED BY <1>11, <1>14, <3>1, <3>2
  <2> QED BY <1>9, <1>11, <2>1 DEF NotifyInv, NoneAhead
<1>22. Complete'
  <2>1. \A n : InProgress(n) => InProgress(n)'
    BY <1>0, <1>1, <1>5, <1>7 DEF InProgress
  <2>2. InProgress(f.n)
    BY <1>0, <1>1, <1>7 DEF InProgress
  <2>3. ASSUME NEW n \in DOMAIN log, ~ InProgress(n)' PROVE Called(n)' = log[n].registered
    <3>1. n # f.n /\ ~ InProgress(n)
      BY <2>1, <2>2, <2>3
    <3> QED BY <1>9, <1>11, <2>3, <3>1, SameCalled DEF NotifyInv, Complete
  <2> QED BY <1>9, <2>3 DEF Complete
<1>23. NotifiedInOrder'
  <2>1. ASSUME NEW j \in DOMAIN deliveries', NEW k \in DOMAIN deliveries', NEW n,
               j < k, deliveries'[j].n = n, deliveries'[k].n = n, n > 0
        PROVE  IF Upwards(n) THEN deliveries'[j].id < deliveries'[k].id
                             ELSE deliveries'[j].id > deliveries'[k].id
    <3>1. j \in DOMAIN deliveries /\ deliveries'[j] = deliveries[j]
      BY <1>11, <2>1
    <3>2. CASE k = last
      <4>1. n = f.n /\ j \in CallsFor(f.n) /\ deliveries'[k].id = id
        BY <1>9, <1>11, <2>1, <3>1, <3>2 DEF CallsFor
      <4> QED BY <1>15, <3>1, <4>1 DEF Before
    <3>3. CASE k # last
      <4>1. k \in DOMAIN deliveries /\ deliveries'[k] = deliveries[k]
        BY <1>11, <3>3
      <4> QED BY <2>1, <3>1, <4>1 DEF NotifyInv, NotifiedInOrder
    <3> QED BY <3>2, <3>3
  <2> QED BY <1>9, <2>1 DEF NotifiedInOrder, Upwards
<1> QED BY <1>16, <1>18, <1>20, <1>21, <1>22, <1>23 DEF NotifyInv


(* A notification ends when it has called everyone. *)
LEMMA ApplyDoneStep ==
  ASSUME TypeOK, NotifyInv, Sorted', ApplyDone
  PROVE  NotifyInv'
<1>0. PICK f \in Frames, L \in Nat \ {0} : f = Top /\ L = Len(stack) /\ f = stack[L]
  BY TopAndBelow DEF ApplyDone, On, Top
<1>1. f.op = "apply" /\ f.todo = <<>>
  BY <1>0 DEF ApplyDone, On
<1>2. /\ DOMAIN stack = 1 .. L /\ DOMAIN stack' = 1 .. L - 1
      /\ \A i \in 1 .. L - 1 : stack'[i] = stack[i]
  <2>1. stack # <<>> /\ stack' = Below
    BY DEF ApplyDone, On, Return
  <2>2. /\ Below \in Seq(Frames) /\ Len(Below) = L - 1
        /\ \A i \in 1 .. L - 1 : Below[i] = stack[i]
    BY <1>0, <2>1, TopAndBelow
  <2> QED BY <1>0, <2>1, <2>2, LenProperties DEF TypeOK
<1>3. log' = log /\ deliveries' = deliveries
  BY DEF ApplyDone, Return
<1>4. LogGrows /\ \A n : SameCalls(n)
  BY <1>3 DEF LogGrows, SameCalls, CallsFor
<1>5. Directed' /\ NoneAhead' /\ NotifiedInOrder'
  BY <1>3 DEF NotifyInv, Directed, NoneAhead, NotifiedInOrder, Upwards, Retreats
<1>6. \A i \in DOMAIN stack' : i \in DOMAIN stack /\ stack'[i] = stack[i]
  BY <1>0, <1>2
<1>7. FramesDue'
  BY <1>4, <1>6, DueKept DEF NotifyInv, FramesDue
<1>8. OneFrameEach'
  BY <1>6 DEF NotifyInv, OneFrameEach
<1>9. f.n \in DOMAIN log /\ Called(f.n) = log[f.n].registered
  <2>1. Due(f) /\ ToCall(f) = {}
    BY <1>0, <1>1, <1>2 DEF NotifyInv, FramesDue, ToCall
  <2> QED BY <2>1 DEF Due
<1>10. Complete'
  <2>1. ASSUME NEW n \in DOMAIN log, ~ InProgress(n)' PROVE Called(n)' = log[n].registered
    <3>1. CASE n = f.n
      BY <1>4, <1>9, <3>1, SameCalled
    <3>2. CASE n # f.n
      <4>1. ~ InProgress(n)
        BY <1>0, <1>2, <2>1, <3>2 DEF InProgress
      <4> QED BY <1>4, <2>1, <4>1, SameCalled DEF NotifyInv, Complete
    <3> QED BY <3>1, <3>2
  <2> QED BY <1>3, <2>1 DEF Complete
<1> QED BY <1>5, <1>7, <1>8, <1>10 DEF NotifyInv

(* Catching a new observer up is not part of a notification. *)
LEMMA ReplayStep ==
  ASSUME TypeOK, NotifyInv, Sorted', Replay
  PROVE  NotifyInv'
<1>0. PICK f \in Frames, L \in Nat \ {0} : f = Top /\ L = Len(stack) /\ f = stack[L]
  BY TopAndBelow DEF Replay, On, Top
<1>1. /\ f.op = "subscribe" /\ f.todo # <<>>
      /\ f \in [op : {"subscribe"}, id : Nat, todo : Seq(States)]
  BY <1>0, FrameShapes DEF Replay, On
<1>2. PICK event, rest : event = Head(f.todo) /\ rest = Tail(f.todo)
  OBVIOUS
<1>3. event \in States /\ rest \in Seq(States)
  <2>1. f.todo \in Seq(States)
    BY <1>1
  <2> QED BY <1>1, <1>2, <2>1, HeadTail
<1>4. PICK g : g = [f EXCEPT !.todo = Tail(@)]
  OBVIOUS
<1>5. g \in Frames /\ g.op = "subscribe"
  BY <1>1, <1>2, <1>3, <1>4 DEF Frames
<1>6. CallbackFrame(f.id, event) \in Frames /\ CallbackFrame(f.id, event).op # "apply"
  BY <1>1, <1>3 DEF CallbackFrame, Frames
<1>7. /\ DOMAIN stack = 1 .. L /\ DOMAIN stack' = 1 .. L + 1
      /\ \A i \in 1 .. L - 1 : stack'[i] = stack[i]
      /\ stack'[L] = g
      /\ stack'[L + 1] = CallbackFrame(f.id, event)
  <2>1. stack # <<>> /\ stack' = Below \o <<g, CallbackFrame(f.id, event)>>
    BY <1>0, <1>2, <1>4 DEF Replay, On
  <2> QED BY <1>0, <1>5, <1>6, <2>1, CalledBack
<1>8. SameApplies(stack, stack')
  BY <1>0, <1>1, <1>5, <1>6, <1>7 DEF SameApplies
<1>9. PICK d : d = [id |-> f.id, event |-> event, n |-> 0]
  OBVIOUS
<1>10. /\ d \in [id : Nat, event : States, n : Nat] /\ d.n = 0
       /\ deliveries' = Append(deliveries, d)
       /\ log' = log
  BY <1>0, <1>1, <1>2, <1>3, <1>9 DEF Replay
<1>11. PICK last \in Nat : last = Len(deliveries) + 1
  BY LenProperties DEF TypeOK
<1>12. /\ DOMAIN deliveries = 1 .. last - 1
       /\ DOMAIN deliveries' = 1 .. last /\ deliveries'[last] = d
       /\ \A k \in DOMAIN deliveries : deliveries'[k] = deliveries[k]
       /\ \A n : n # 0 => SameCalls(n)
  BY <1>10, <1>11, Delivered
<1>13. LogGrows /\ (\A n \in DOMAIN log : n # 0 /\ SameCalls(n))
  <2>1. Len(log) \in Nat /\ DOMAIN log = 1 .. Len(log)
    BY LenProperties DEF TypeOK
  <2> QED BY <1>10, <1>12, <2>1 DEF LogGrows
<1>14. Directed'
  BY <1>10 DEF NotifyInv, Directed, Upwards, Retreats
<1>15. FramesDue'
  <2>1. \A h : Due(h) => Due(h)'
    <3> SUFFICES ASSUME NEW h, Due(h) PROVE Due(h)'
      OBVIOUS
    <3>1. h.n \in DOMAIN log
      BY DEF Due
    <3> QED BY <1>13, <3>1, DueKept
  <2> QED BY <1>8, <2>1 DEF NotifyInv, SameApplies, FramesDue
<1>16. OneFrameEach'
  BY <1>8 DEF NotifyInv, SameApplies, OneFrameEach
<1>17. NoneAhead'
  <2>1. Len(log) \in Nat
    BY LenProperties DEF TypeOK
  <2>2. \A k \in DOMAIN deliveries' : k = last \/ k \in DOMAIN deliveries
    BY <1>12
  <2> QED BY <1>10, <1>12, <2>1, <2>2 DEF NotifyInv, NoneAhead
<1>18. Complete'
  <2>1. \A n : InProgress(n) => InProgress(n)'
    BY <1>8 DEF SameApplies, InProgress
  <2>2. ASSUME NEW n \in DOMAIN log, ~ InProgress(n)' PROVE Called(n)' = log[n].registered
    BY <1>13, <2>1, <2>2, SameCalled DEF NotifyInv, Complete
  <2> QED BY <1>10, <2>2 DEF Complete
<1>19. NotifiedInOrder'
  <2>1. \A k \in DOMAIN deliveries' : deliveries'[k].n > 0 =>
          k \in DOMAIN deliveries /\ deliveries'[k] = deliveries[k]
    BY <1>10, <1>12
  <2> QED BY <1>10, <2>1 DEF NotifyInv, NotifiedInOrder, Upwards
<1> QED BY <1>14, <1>15, <1>16, <1>17, <1>18, <1>19 DEF NotifyInv

-----------------------------------------------------------------------------
LEMMA NotifyInvStep ==
  ASSUME TypeOK, TypeOK', DestroyLeavesFromCreated, NotifyInv, [Next]_vars
  PROVE  NotifyInv'
<1>1. Sorted'
  BY SortedStep DEF NotifyInv
<1> QED BY <1>1, StepKinds, QuietStep, BeginsStep, NotifyStep, ApplyDoneStep, ReplayStep

LEMMA NotifyInvInit == Init => NotifyInv
<1> SUFFICES ASSUME Init PROVE NotifyInv
  OBVIOUS
<1>1. observers = <<>> /\ stack = <<>> /\ log = <<>> /\ deliveries = <<>>
  BY DEF Init
<1>2. DOMAIN <<>> = {} /\ Len(<<>>) = 0
  OBVIOUS
<1> QED BY <1>1, <1>2 DEF NotifyInv, Sorted, Directed, FramesDue, OneFrameEach,
                          NoneAhead, Complete, NotifiedInOrder

LEMMA Notified == Spec => []NotifyInv
<1>1. TypeOK /\ TypeOK' /\ DestroyLeavesFromCreated /\ NotifyInv /\ [Next]_vars
        => NotifyInv'
  BY NotifyInvStep
<1> QED BY <1>1, NotifyInvInit, TypeCorrect, DestroyCorrect, PTL DEF Spec

(* Observers are called in the order of their subscriptions by a transition *)
(* towards Resumed and in the opposite order by one towards Destroyed, with *)
(* whatever they and the owner call in between: the snapshot is ordered     *)
(* because the Vec is, ids being handed out in ascending order and an       *)
(* unsubscribe keeping the order of the rest.  (registry.rs 446-456)        *)
THEOREM NotificationsOrdered == Spec => []NotifiedInOrder
<1>1. NotifyInv => NotifiedInOrder
  BY DEF NotifyInv
<1> QED BY <1>1, Notified, PTL


(* The calls made for one transition are as many as the observers called,  *)
(* for none of them is called twice.                                       *)
LEMMA CalledOnce ==
  ASSUME TypeOK, NotifiedInOrder, NEW n \in Nat \ {0}
  PROVE  Cardinality(CallsFor(n)) = Cardinality(Called(n))
<1> DEFINE f == [k \in CallsFor(n) |-> deliveries[k].id]
<1>1. /\ deliveries \in Seq([id : Nat, event : States, n : Nat])
      /\ Len(deliveries) \in Nat /\ DOMAIN deliveries = 1 .. Len(deliveries)
  BY LenProperties DEF TypeOK
<1>2. \A k \in DOMAIN deliveries : deliveries[k] \in [id : Nat, event : States, n : Nat]
  BY <1>1, ElementOfSeq
<1>3. IsFiniteSet(CallsFor(n))
  <2>1. IsFiniteSet(1 .. Len(deliveries))
    BY <1>1, FS_Interval
  <2>2. CallsFor(n) \subseteq 1 .. Len(deliveries)
    BY <1>1 DEF CallsFor
  <2> QED BY <2>1, <2>2, FS_Subset
<1>4. ASSUME NEW j \in CallsFor(n), NEW k \in CallsFor(n),
             deliveries[j].id = deliveries[k].id
      PROVE  j = k
  <2>1. /\ j \in 1 .. Len(deliveries) /\ k \in 1 .. Len(deliveries)
        /\ deliveries[j].n = n /\ deliveries[k].n = n /\ n > 0
        /\ deliveries[j].id \in Nat /\ deliveries[k].id \in Nat
    BY <1>1, <1>2 DEF CallsFor
  <2>2. ASSUME NEW a \in {j, k}, NEW b \in {j, k}, a < b
        PROVE  deliveries[a].id # deliveries[b].id
    <3>1. IF Upwards(n) THEN deliveries[a].id < deliveries[b].id
                        ELSE deliveries[a].id > deliveries[b].id
      BY <1>1, <2>1, <2>2 DEF NotifiedInOrder
    <3> QED BY <2>1, <3>1
  <2> QED BY <1>1, <1>4, <2>1, <2>2
<1>5. f \in Bijection(CallsFor(n), Called(n))
  <2>1. f \in [CallsFor(n) -> Called(n)]
    BY DEF Called
  <2>2. \A a, b \in CallsFor(n) : f[a] = f[b] => a = b
    BY <1>4
  <2>3. \A t \in Called(n) : \E k \in CallsFor(n) : f[k] = t
    BY DEF Called
  <2> HIDE DEF f
  <2> QED BY <2>1, <2>2, <2>3 DEF Bijection, Injection, IsInjective, Surjection
<1> HIDE DEF f
<1> QED BY <1>3, <1>5, FS_Bijection DEF ExistsBijection

(* No observer is left out or called twice: when apply has returned for a  *)
(* transition it has called exactly the observers registered when it was   *)
(* applied, each once, although observers subscribe, unsubscribe and ask   *)
(* for transitions in between.  (registry.rs 113-117, 444-461)             *)
THEOREM EveryoneNotified == Spec => []EachNotifiedOnce
<1>1. TypeOK /\ NotifyInv => EachNotifiedOnce
  <2> SUFFICES ASSUME TypeOK, NotifyInv, NEW n \in DOMAIN log, ~ InProgress(n)
               PROVE  /\ {deliveries[k].id : k \in CallsFor(n)} = log[n].registered
                      /\ Cardinality(CallsFor(n)) = Cardinality(log[n].registered)
    BY DEF EachNotifiedOnce
  <2>1. n \in Nat \ {0}
    BY LenProperties DEF TypeOK
  <2>2. Called(n) = log[n].registered
    BY DEF NotifyInv, Complete
  <2>3. Cardinality(CallsFor(n)) = Cardinality(Called(n))
    BY <2>1, CalledOnce DEF NotifyInv
  <2> QED BY <2>2, <2>3 DEF Called
<1> QED BY <1>1, Notified, TypeCorrect, PTL


-----------------------------------------------------------------------------
(* Without observers that ask for transitions, the notification in progress *)
(* is of the latest transition, a walk runs inside nothing but the destroy  *)
(* that began it, and what a replay ends with is the state.                 *)
AppliesLatest ==
  \A i \in DOMAIN stack :
    stack[i].op = "apply" => stack[i].n = Len(log) /\ stack[i].event = state

Walks(f) == f.op \in {"move_to", "destroy"}

WalksOutermost ==
  \A j \in DOMAIN stack : Walks(stack[j]) =>
    /\ state # "Destroyed"
    /\ stack[j].op = "destroy" => j = 1
    /\ \A i \in 1 .. j - 1 : stack[i].op = "destroy"

ReplaysToState ==
  \A i \in DOMAIN stack : stack[i].op = "subscribe" /\ stack[i].todo # <<>> =>
    stack[i].todo[Len(stack[i].todo)] = state

Flat == AppliesLatest /\ WalksOutermost /\ ReplaysToState

LEMMA CatchUpEnds ==
  ASSUME NEW s \in States, CatchUp(s) # <<>>
  PROVE  CatchUp(s)[Len(CatchUp(s))] = s
<1>1. CASE s = "Destroyed"
  BY <1>1 DEF CatchUp
<1>2. CASE s # "Destroyed"
  <2> DEFINE all == <<"Created", "Started", "Resumed">>
  <2>1. CatchUp(s) = SubSeq(all, 1, Rank(s))
    BY <1>2 DEF CatchUp
  <2>2. \A i \in 1 .. 3 : all[i] \in States
    BY DEF States
  <2>3. \/ s = "Initialized" /\ Rank(s) = 0
        \/ s = "Created" /\ Rank(s) = 1 /\ all[1] = s
        \/ s = "Started" /\ Rank(s) = 2 /\ all[2] = s
        \/ s = "Resumed" /\ Rank(s) = 3 /\ all[3] = s
    BY <1>2 DEF Rank, States
  <2> HIDE DEF all
  <2>4. Rank(s) \in 0 .. 3
    BY <2>3
  <2>5. \A i \in 1 .. Rank(s) : all[i] \in States
    BY <2>2, <2>4
  <2>6. /\ SubSeq(all, 1, Rank(s)) \in Seq(States)
        /\ Len(SubSeq(all, 1, Rank(s))) = IF 1 <= Rank(s) THEN Rank(s) - 1 + 1 ELSE 0
        /\ \A i \in 1 .. Rank(s) - 1 + 1 : SubSeq(all, 1, Rank(s))[i] = all[1 + i - 1]
    BY <2>4, <2>5, SubSeqProperties
  <2>7. Rank(s) # 0
    BY <2>1, <2>4, <2>6, EmptySeq
  <2>8. /\ Len(CatchUp(s)) = Rank(s) /\ CatchUp(s)[Rank(s)] = all[Rank(s)]
    <3>1. /\ 1 <= Rank(s) /\ Rank(s) - 1 + 1 = Rank(s)
          /\ Rank(s) \in 1 .. Rank(s) - 1 + 1 /\ 1 + Rank(s) - 1 = Rank(s)
      BY <2>4, <2>7
    <3> QED BY <2>1, <2>6, <3>1
  <2> QED BY <2>3, <2>7, <2>8
<1> QED BY <1>1, <1>2

LEMMA TailEnds ==
  ASSUME NEW S, NEW s \in Seq(S), s # <<>>, Tail(s) # <<>>
  PROVE  Tail(s)[Len(Tail(s))] = s[Len(s)]
<1>1. /\ Len(s) \in Nat \ {0}
      /\ Tail(s) \in Seq(S) /\ Len(Tail(s)) = Len(s) - 1
      /\ \A i \in 1 .. Len(Tail(s)) : Tail(s)[i] = s[i + 1]
  BY EmptySeq, LenProperties, HeadTailProperties
<1>2. Len(Tail(s)) \in Nat \ {0}
  BY <1>1, EmptySeq, LenProperties
<1> QED BY <1>1, <1>2

LEMMA FlatApply ==
  ASSUME TypeOK, Flat, NEW next \in States, NEW below \in Seq(Frames), Apply(next, below),
         Len(below) <= Len(stack),
         \A i \in DOMAIN below : below[i] = stack[i] /\ Walks(below[i]),
         next = "Destroyed" => below = <<>>
  PROVE  Flat'
<1>0. PICK new \in Nat : new = Len(log) + 1
  BY LenProperties DEF TypeOK
<1>1. PICK frame : frame = ApplyFrame(next, new, Snapshot(state, next))
  OBVIOUS
<1>2. frame \in Frames /\ frame.op = "apply" /\ frame.n = new /\ frame.event = next
  <2>1. Snapshot(state, next) \in Seq(Nat)
    BY SnapshotType DEF TypeOK
  <2> QED BY <1>1, <2>1 DEF ApplyFrame, Frames
<1>3. Len(log') = new /\ state' = next
  BY <1>0, AppendProperties, ApplyType DEF Apply, TypeOK
<1>4. stack' = Append(below, frame)
  BY <1>0, <1>1 DEF Apply
<1>5. /\ Len(below) \in Nat /\ DOMAIN below = 1 .. Len(below)
      /\ DOMAIN stack' = 1 .. Len(below) + 1
      /\ \A i \in 1 .. Len(below) : stack'[i] = below[i]
      /\ stack'[Len(below) + 1] = frame
      /\ DOMAIN stack = 1 .. Len(stack) /\ Len(stack) \in Nat
      /\ below = <<>> => Len(below) = 0
  BY <1>2, <1>4, AppendProperties, LenProperties, EmptySeq DEF TypeOK
<1>6. \A i \in DOMAIN stack' :
        \/ i = Len(below) + 1
        \/ i \in DOMAIN below /\ i \in DOMAIN stack
           /\ stack'[i] = stack[i] /\ Walks(stack'[i])
  BY <1>5
<1>7. AppliesLatest'
  BY <1>2, <1>3, <1>5, <1>6 DEF AppliesLatest, Walks
<1>8. ReplaysToState'
  BY <1>2, <1>5, <1>6 DEF ReplaysToState, Walks
<1>9. ASSUME NEW j \in DOMAIN stack', Walks(stack'[j])
      PROVE  /\ state' # "Destroyed"
             /\ stack'[j].op = "destroy" => j = 1
             /\ \A i \in 1 .. j - 1 : stack'[i].op = "destroy"
  <2>1. j \in DOMAIN below /\ j \in DOMAIN stack /\ stack'[j] = stack[j]
    BY <1>2, <1>5, <1>6, <1>9 DEF Walks
  <2>2. state' # "Destroyed"
    BY <1>3, <1>5, <2>1
  <2>3. \A i \in 1 .. j - 1 : stack'[i] = stack[i]
    BY <1>5, <2>1
  <2> QED BY <1>9, <2>1, <2>2, <2>3 DEF Flat, WalksOutermost
<1>10. WalksOutermost'
  BY <1>9 DEF WalksOutermost, Walks
<1> QED BY <1>7, <1>8, <1>10 DEF Flat

LEMMA FlatReturns ==
  ASSUME TypeOK, Flat, stack # <<>>, NEW r, Return(r)
  PROVE  Flat'
<1>0. Len(stack) \in Nat /\ DOMAIN stack = 1 .. Len(stack)
  BY LenProperties DEF TypeOK
<1> USE DEF Flat
<1>1. /\ DOMAIN stack' = 1 .. Len(stack) - 1
      /\ \A i \in 1 .. Len(stack) - 1 : stack'[i] = stack[i]
      /\ log' = log /\ state' = state
  <2>1. stack' = Below /\ log' = log /\ state' = state
    BY DEF Return
  <2> QED BY <2>1, TopAndBelow, LenProperties
<1>2. \A j \in DOMAIN stack' : /\ j \in DOMAIN stack /\ stack'[j] = stack[j]
                               /\ \A i \in 1 .. j - 1 : stack'[i] = stack[i]
  BY <1>0, <1>1
<1>3. AppliesLatest' /\ ReplaysToState'
  BY <1>1, <1>2 DEF AppliesLatest, ReplaysToState
<1>4. WalksOutermost'
  BY <1>1, <1>2 DEF WalksOutermost, Walks
<1> QED BY <1>3, <1>4

LEMMA FlatStep ==
  ASSUME TypeOK, TypeOK', Reentrant = FALSE, Flat, [Next]_vars
  PROVE  Flat'
<1>0. /\ stack \in Seq(Frames) /\ state \in States
      /\ Len(stack) \in Nat /\ DOMAIN stack = 1 .. Len(stack)
  BY LenProperties DEF TypeOK
<1> USE DEF Flat
<1>1. ASSUME UNCHANGED <<stack, state, log>> PROVE Flat'
  BY <1>1 DEF AppliesLatest, WalksOutermost, Walks, ReplaysToState
<1>2. ASSUME UNCHANGED <<state, log>>, NEW s \in Seq(Frames), stack' = s,
             state # "Destroyed",
             \A i \in DOMAIN s : /\ Walks(s[i])
                                 /\ s[i].op = "destroy" => i = 1
                                 /\ \A h \in 1 .. i - 1 : s[h].op = "destroy"
      PROVE  Flat'
  <2>1. AppliesLatest' /\ ReplaysToState'
    BY <1>2 DEF AppliesLatest, ReplaysToState, Walks
  <2>2. WalksOutermost'
    BY <1>2 DEF WalksOutermost, Walks
  <2> QED BY <2>1, <2>2
<1>3. ASSUME NEW r, Return(r), stack # <<>> PROVE Flat'
  BY <1>3, FlatReturns
<1>4. ASSUME stack # <<>>, NEW g \in Frames, NEW c \in Frames,
             stack' = Below \o <<g, c>>, log' = log, state' = state,
             c.op = "callback", g.op = Top.op, g.op \in {"apply", "subscribe"},
             g.op = "apply" => g.n = Top.n /\ g.event = Top.event,
             g.op = "subscribe" /\ g.todo # <<>> =>
               Top.todo # <<>> /\ g.todo[Len(g.todo)] = Top.todo[Len(Top.todo)]
      PROVE  Flat'
  <2>1. /\ Len(stack) \in Nat \ {0} /\ DOMAIN stack' = 1 .. Len(stack) + 1
        /\ \A i \in 1 .. Len(stack) - 1 : stack'[i] = stack[i]
        /\ stack'[Len(stack)] = g /\ stack'[Len(stack) + 1] = c
    BY <1>4, CalledBack
  <2>2. Len(stack) \in DOMAIN stack /\ Top = stack[Len(stack)]
    BY <1>0, <2>1 DEF Top
  <2>3. \A i \in DOMAIN stack' :
          \/ i \in 1 .. Len(stack) - 1 /\ i \in DOMAIN stack /\ stack'[i] = stack[i]
          \/ i = Len(stack) /\ stack'[i] = g
          \/ i = Len(stack) + 1 /\ stack'[i] = c
    BY <1>0, <2>1
  <2>4. Top.op = "apply" => Top.n = Len(log) /\ Top.event = state
    BY <2>2 DEF AppliesLatest
  <2>5. Top.op = "subscribe" /\ Top.todo # <<>> => Top.todo[Len(Top.todo)] = state
    BY <2>2 DEF ReplaysToState
  <2>6. AppliesLatest'
    BY <1>4, <2>3, <2>4 DEF AppliesLatest
  <2>7. ReplaysToState'
    BY <1>4, <2>3, <2>5 DEF ReplaysToState
  <2>8. ASSUME NEW j \in DOMAIN stack', Walks(stack'[j])
        PROVE  /\ state' # "Destroyed"
               /\ stack'[j].op = "destroy" => j = 1
               /\ \A i \in 1 .. j - 1 : stack'[i].op = "destroy"
    <3>1. j \in 1 .. Len(stack) - 1 /\ j \in DOMAIN stack /\ stack'[j] = stack[j]
      BY <1>4, <2>3, <2>8 DEF Walks
    <3>2. \A i \in 1 .. j - 1 : stack'[i] = stack[i]
      BY <2>1, <3>1
    <3> QED BY <1>4, <2>8, <3>1, <3>2 DEF WalksOutermost
  <2>9. WalksOutermost'
    BY <2>8 DEF WalksOutermost, Walks
  <2> QED BY <2>6, <2>7, <2>9
<1>5. MayTransition => stack = <<>>
  BY DEF MayTransition
<1>6. \A i \in DOMAIN << >> : FALSE
  OBVIOUS
<1>7. ASSUME NEW next \in States, Apply(next, stack), stack = <<>> PROVE Flat'
  <2>1. <<>> \in Seq(Frames) /\ Len(<<>>) <= Len(stack) /\ Apply(next, <<>>)
    BY <1>0, <1>7
  <2> QED BY <1>6, <2>1, FlatApply
<1>8. ASSUME NEW r, Answer(r) PROVE Flat'
  BY <1>1, <1>8 DEF Answer
<1>9. ASSUME BeginDestroy, stack = <<>>, state # "Destroyed" PROVE Flat'
  <2>1. CASE Apply("Destroyed", stack)
    BY <1>7, <1>9, <2>1 DEF States
  <2>2. CASE /\ stack' = stack \o << DestroyFrame, MoveToFrame("Created") >>
             /\ UNCHANGED <<state, observers, nextId, ret, log, deliveries>>
    <3> DEFINE s == << DestroyFrame, MoveToFrame("Created") >>
    <3>1. DestroyFrame \in Frames /\ MoveToFrame("Created") \in Frames
      BY DEF DestroyFrame, MoveToFrame, Frames
    <3>2. stack' = s
      BY <1>9, <2>2
    <3>3. s \in Seq(Frames) /\ DOMAIN s = 1 .. 2 /\ s[1] = DestroyFrame
          /\ s[2] = MoveToFrame("Created")
      BY <3>1
    <3>4. s[1].op = "destroy" /\ s[2].op = "move_to"
      BY <3>3 DEF DestroyFrame, MoveToFrame
    <3> HIDE DEF s
    <3>5. \A i \in DOMAIN s : /\ Walks(s[i])
                              /\ s[i].op = "destroy" => i = 1
                              /\ \A h \in 1 .. i - 1 : s[h].op = "destroy"
      BY <3>3, <3>4 DEF Walks
    <3> QED BY <1>2, <1>9, <2>2, <3>2, <3>3, <3>5
  <2> QED BY <1>9, <2>1, <2>2 DEF BeginDestroy
<1>10. CASE StrictStep
  <2>1. ASSUME NEW from \in States, NEW to \in States, Step(from, to) PROVE Flat'
    BY <1>5, <1>7, <1>8, <2>1 DEF Step
  <2> QED BY <1>10, <2>1 DEF StrictStep, States
<1>11. CASE Destroy
  BY <1>5, <1>8, <1>9, <1>11 DEF Destroy
<1>12. CASE \E target \in States : MoveTo(target)
  <2>1. PICK target \in States : MoveTo(target)
    BY <1>12
  <2>2. stack = <<>>
    BY <1>5, <2>1 DEF MoveTo
  <2>3. CASE /\ state # "Destroyed"
             /\ target \notin {state, "Initialized", "Destroyed"}
             /\ stack' = Append(stack, MoveToFrame(target))
             /\ UNCHANGED <<state, observers, nextId, ret, log, deliveries>>
    <3> DEFINE s == << MoveToFrame(target) >>
    <3>1. MoveToFrame(target) \in Frames
      BY <2>3 DEF MoveToFrame, Frames, States
    <3>2. stack' = s
      BY <2>2, <2>3
    <3>3. s \in Seq(Frames) /\ DOMAIN s = 1 .. 1 /\ s[1] = MoveToFrame(target)
      BY <3>1
    <3>4. s[1].op = "move_to"
      BY <3>3 DEF MoveToFrame
    <3> HIDE DEF s
    <3>5. \A i \in DOMAIN s : /\ Walks(s[i])
                              /\ s[i].op = "destroy" => i = 1
                              /\ \A h \in 1 .. i - 1 : s[h].op = "destroy"
      BY <3>3, <3>4 DEF Walks
    <3> QED BY <1>2, <2>3, <3>2, <3>3, <3>5
  <2> QED BY <1>8, <1>9, <2>1, <2>2, <2>3 DEF MoveTo
<1>13. CASE Subscribe
  <2>1. PICK f : f = SubscribeFrame(nextId, CatchUp(state))
    OBVIOUS
  <2>2. /\ f \in Frames /\ f.op = "subscribe" /\ f.todo = CatchUp(state)
        /\ stack' = Append(stack, f)
        /\ log' = log /\ state' = state
    BY <1>13, <2>1, CatchUpType DEF Subscribe, SubscribeFrame, Frames, TypeOK
  <2>3. /\ DOMAIN stack' = 1 .. Len(stack) + 1
        /\ \A i \in 1 .. Len(stack) : stack'[i] = stack[i]
        /\ stack'[Len(stack) + 1] = f
    BY <1>0, <2>2, AppendProperties, LenProperties
  <2>4. \A i \in DOMAIN stack' :
          (i \in DOMAIN stack /\ stack'[i] = stack[i]) \/ i = Len(stack) + 1
    BY <1>0, <2>3
  <2>5. AppliesLatest'
    BY <2>2, <2>3, <2>4 DEF AppliesLatest
  <2>6. ReplaysToState'
    BY <1>0, <2>2, <2>3, <2>4, CatchUpEnds DEF ReplaysToState
  <2>7. ASSUME NEW j \in DOMAIN stack', Walks(stack'[j])
        PROVE  /\ state' # "Destroyed"
               /\ stack'[j].op = "destroy" => j = 1
               /\ \A i \in 1 .. j - 1 : stack'[i].op = "destroy"
    <3>1. j \in DOMAIN stack /\ stack'[j] = stack[j]
      BY <2>2, <2>3, <2>4, <2>7 DEF Walks
    <3>2. \A i \in 1 .. j - 1 : stack'[i] = stack[i]
      BY <1>0, <2>3, <3>1
    <3> QED BY <2>2, <2>7, <3>1, <3>2 DEF WalksOutermost
  <2>8. WalksOutermost'
    BY <2>7 DEF WalksOutermost, Walks
  <2> QED BY <2>5, <2>6, <2>8
<1>14. CASE \E id \in 0 .. nextId - 1 : Unsubscribe(id)
  BY <1>1, <1>14 DEF Unsubscribe
<1>15. CASE Notify
  <2>1. /\ stack # <<>> /\ Top \in Frames /\ Top.op = "apply" /\ Top.todo # <<>>
        /\ Top \in [op : {"apply"}, event : States, n : Nat, todo : Seq(Nat)]
    BY <1>15, TopAndBelow, FrameShapes DEF Notify, On
  <2>2. Head(Top.todo) \in Nat /\ Tail(Top.todo) \in Seq(Nat)
    BY <2>1, HeadTail
  <2>3. PICK g, c : g = [Top EXCEPT !.todo = Tail(@)] /\ c = CallbackFrame(Head(Top.todo), Top.event)
    OBVIOUS
  <2>4. /\ g \in Frames /\ g.op = "apply" /\ g.n = Top.n /\ g.event = Top.event
        /\ c \in Frames /\ c.op = "callback"
    BY <2>1, <2>2, <2>3 DEF Frames, CallbackFrame
  <2>5. stack' = Below \o <<g, c>> /\ log' = log /\ state' = state
    BY <1>15, <2>3 DEF Notify
  <2> QED BY <1>4, <2>1, <2>4, <2>5
<1>16. CASE ApplyDone
  BY <1>3, <1>16 DEF ApplyDone, On
<1>17. CASE FinishDestroy
  <2>1. stack # <<>> /\ Top.op = "destroy"
    BY <1>17 DEF FinishDestroy, On
  <2>2. CASE Apply("Destroyed", Below)
    <3>1. /\ Below \in Seq(Frames) /\ Len(stack) \in Nat \ {0}
          /\ DOMAIN Below = 1 .. Len(stack) - 1
          /\ \A i \in 1 .. Len(stack) - 1 : Below[i] = stack[i]
      BY <2>1, TopAndBelow, LenProperties
    <3>2. Len(stack) = 1
      BY <1>0, <2>1, <3>1 DEF WalksOutermost, Walks, Top
    <3>3. Below = <<>>
      BY <3>1, <3>2, TopAndBelow, <2>1, EmptySeq
    <3>4. Len(Below) <= Len(stack) /\ \A i \in DOMAIN Below : FALSE
      BY <3>1, <3>2, <3>3, TopAndBelow, <2>1
    <3> QED BY <2>2, <3>1, <3>3, <3>4, FlatApply DEF States
  <2> QED BY <1>3, <1>17, <2>1, <2>2 DEF FinishDestroy
<1>18. CASE MoveToRound
  <2>1. stack # <<>> /\ Top.op = "move_to" /\ Top \in Frames /\ Len(stack) \in Nat \ {0}
    BY <1>18, TopAndBelow DEF MoveToRound, On
  <2>2. CASE state \notin {Top.target, "Destroyed"} /\ Apply(Towards(Top.target), stack)
    <3>1. \A i \in DOMAIN stack : Walks(stack[i])
      BY <1>0, <2>1 DEF WalksOutermost, Walks, Top
    <3>2. Top.target \in {"Created", "Started", "Resumed"}
      BY <2>1, FrameShapes
    <3>3. Towards(Top.target) \in States \ {"Destroyed"}
      BY <1>0, <2>2, <3>2, TowardsAdjacent DEF States
    <3> QED BY <1>0, <2>2, <3>1, <3>3, FlatApply
  <2> QED BY <1>3, <1>18, <2>1, <2>2 DEF MoveToRound
<1>19. CASE Replay
  <2>1. /\ stack # <<>> /\ Top \in Frames /\ Top.op = "subscribe" /\ Top.todo # <<>>
        /\ Top \in [op : {"subscribe"}, id : Nat, todo : Seq(States)]
    BY <1>19, TopAndBelow, FrameShapes DEF Replay, On
  <2>2. Head(Top.todo) \in States /\ Tail(Top.todo) \in Seq(States)
    BY <2>1, HeadTail
  <2>3. PICK g, c : g = [Top EXCEPT !.todo = Tail(@)] /\ c = CallbackFrame(Top.id, Head(Top.todo))
    OBVIOUS
  <2>4. /\ g \in Frames /\ g.op = "subscribe" /\ g.todo = Tail(Top.todo)
        /\ c \in Frames /\ c.op = "callback"
    BY <2>1, <2>2, <2>3 DEF Frames, CallbackFrame
  <2>5. stack' = Below \o <<g, c>> /\ log' = log /\ state' = state
    BY <1>19, <2>3 DEF Replay
  <2>6. g.todo # <<>> => g.todo[Len(g.todo)] = Top.todo[Len(Top.todo)]
    <3>1. Top.todo \in Seq(States)
      BY <2>1
    <3> QED BY <2>1, <2>4, <3>1, TailEnds
  <2> QED BY <1>4, <2>1, <2>4, <2>5, <2>6
<1>20. CASE SubscribeDone
  BY <1>3, <1>20 DEF SubscribeDone, On
<1>21. CASE CallbackReturn
  BY <1>3, <1>21 DEF CallbackReturn, On
<1>22. CASE UNCHANGED vars
  BY <1>1, <1>22 DEF vars
<1> QED BY <1>10, <1>11, <1>12, <1>13, <1>14, <1>15, <1>16, <1>17, <1>18, <1>19, <1>20,
           <1>21, <1>22 DEF Next, Call, Components, Run


LEMMA InOrderStep ==
  ASSUME TypeOK, TypeOK', DestroyLeavesFromCreated, NotifyInv, Flat,
         InTransitionOrder, [Next]_vars
  PROVE  InTransitionOrder'
<1>1. CASE deliveries' = deliveries
  BY <1>1 DEF InTransitionOrder
<1>2. deliveries \in Seq([id : Nat, event : States, n : Nat])
      /\ Len(deliveries) \in Nat /\ DOMAIN deliveries = 1 .. Len(deliveries)
  BY LenProperties DEF TypeOK
<1>3. \A k \in DOMAIN deliveries : deliveries[k] \in [id : Nat, event : States, n : Nat]
  BY <1>2, ElementOfSeq
<1>4. PICK last \in Nat : last = Len(deliveries) + 1
  BY <1>2
<1>5. ASSUME NEW d \in [id : Nat, event : States, n : Nat],
             deliveries' = Append(deliveries, d),
             d.n > 0 => \A j \in DOMAIN deliveries :
                          deliveries[j].id = d.id => deliveries[j].n < d.n
      PROVE  InTransitionOrder'
  <2>1. /\ DOMAIN deliveries' = 1 .. last /\ deliveries'[last] = d
        /\ \A k \in DOMAIN deliveries : deliveries'[k] = deliveries[k]
    BY <1>4, <1>5, Delivered
  <2> SUFFICES ASSUME NEW j \in 1 .. last, NEW k \in 1 .. last, j < k,
                      deliveries'[j].id = deliveries'[k].id, deliveries'[k].n > 0
               PROVE  deliveries'[j].n < deliveries'[k].n
    BY <2>1 DEF InTransitionOrder
  <2>2. j \in DOMAIN deliveries /\ deliveries'[j] = deliveries[j]
    <3>1. j \in 1 .. last - 1
      OBVIOUS
    <3>2. last - 1 = Len(deliveries)
      BY <1>2, <1>4
    <3> QED BY <1>2, <2>1, <3>1, <3>2
  <2>3. CASE k = last
    BY <1>5, <2>1, <2>2, <2>3
  <2>4. CASE k # last
    <3>1. k \in DOMAIN deliveries /\ deliveries'[k] = deliveries[k]
      <4>1. k \in 1 .. last - 1
        BY <2>4
      <4>2. last - 1 = Len(deliveries)
        BY <1>2, <1>4
      <4> QED BY <1>2, <2>1, <4>1, <4>2
    <3> QED BY <2>2, <3>1 DEF InTransitionOrder
  <2> QED BY <2>3, <2>4
<1>6. CASE Notify
  <2>1. PICK f \in Frames : /\ f = Top /\ f = stack[Len(stack)] /\ f.op = "apply"
                            /\ f.todo # <<>> /\ Len(stack) \in DOMAIN stack
    BY <1>6, TopAndBelow, LenProperties DEF Notify, On, Top, TypeOK
  <2>2. f \in [op : {"apply"}, event : States, n : Nat, todo : Seq(Nat)]
    BY <2>1, FrameShapes
  <2>3. /\ Head(f.todo) \in Nat /\ 1 \in DOMAIN f.todo /\ f.todo[1] = Head(f.todo)
    BY <2>1, <2>2, HeadTail
  <2>4. PICK d : d = [id |-> Head(f.todo), event |-> f.event, n |-> f.n]
    OBVIOUS
  <2>5. /\ d \in [id : Nat, event : States, n : Nat] /\ d.n = f.n /\ d.id = f.todo[1]
        /\ deliveries' = Append(deliveries, d)
    BY <1>6, <2>1, <2>2, <2>3, <2>4 DEF Notify
  <2>6. Due(f) /\ f.n = Len(log)
    BY <2>1 DEF NotifyInv, FramesDue, Flat, AppliesLatest
  <2>7. ASSUME NEW j \in DOMAIN deliveries, deliveries[j].id = d.id
        PROVE  deliveries[j].n < d.n
    <3>1. deliveries[j].n \in Nat /\ deliveries[j].n <= Len(log)
          /\ deliveries[j].id \in Nat /\ Len(log) \in Nat
      BY <1>3, LenProperties DEF NotifyInv, NoneAhead, TypeOK
    <3>2. deliveries[j].n # f.n
      <4>1. j \in CallsFor(f.n) => Before(f.n, deliveries[j].id, f.todo[1])
        BY <2>3, <2>6 DEF Due
      <4>2. j \notin CallsFor(f.n)
        BY <2>5, <2>7, <3>1, <4>1 DEF Before
      <4> QED BY <4>2 DEF CallsFor
    <3> QED BY <2>5, <2>6, <3>1, <3>2
  <2> QED BY <1>5, <2>5, <2>7
<1>7. CASE Replay
  <2>1. PICK f \in Frames : f = Top /\ f.op = "subscribe" /\ f.todo # <<>>
    BY <1>7, TopAndBelow DEF Replay, On
  <2>2. f \in [op : {"subscribe"}, id : Nat, todo : Seq(States)]
    BY <2>1, FrameShapes
  <2>3. Head(f.todo) \in States
    BY <2>1, <2>2, HeadTail
  <2>4. PICK d : d = [id |-> f.id, event |-> Head(f.todo), n |-> 0]
    OBVIOUS
  <2>5. /\ d \in [id : Nat, event : States, n : Nat] /\ d.n = 0
        /\ deliveries' = Append(deliveries, d)
    BY <1>7, <2>1, <2>2, <2>3, <2>4 DEF Replay
  <2> QED BY <1>5, <2>5
<1> QED BY <1>1, <1>6, <1>7, StepKinds DEF Quiet, Begins, Apply, ApplyDone, Return

(* What the registry's documentation promises of all observers, that they  *)
(* are notified in transition order, holds of those that do not ask for    *)
(* transitions themselves, whatever else they call; the run                *)
(* registry_nested_order shows that it fails of the others.                *)
(* (registry.rs 113)                                                       *)
THEOREM FlatNotificationsInOrder ==
  ASSUME Reentrant = FALSE
  PROVE  Spec => []InTransitionOrder
<1>1. Init => Flat /\ InTransitionOrder
  <2>1. DOMAIN <<>> = {}
    OBVIOUS
  <2> QED BY <2>1 DEF Init, Flat, AppliesLatest, WalksOutermost, ReplaysToState, InTransitionOrder
<1>2. /\ TypeOK /\ TypeOK' /\ DestroyLeavesFromCreated /\ NotifyInv
      /\ Flat /\ InTransitionOrder /\ [Next]_vars
      => Flat' /\ InTransitionOrder'
  BY FlatStep, InOrderStep
<1> QED BY <1>1, <1>2, Notified, TypeCorrect, DestroyCorrect, PTL DEF Spec


-----------------------------------------------------------------------------
(* Where the call in progress will leave the state.                        *)
Goal ==
  IF stack = <<>> THEN state
  ELSE IF stack[1].op = "move_to" THEN stack[1].target
  ELSE IF stack[1].op = "destroy" THEN "Destroyed" ELSE state

(* No walk of destroy fails. *)
DestroyGoesOn == On("destroy") => ret = "Ok"

(* What a return to the frame below leaves. *)
LEMMA Returned ==
  ASSUME TypeOK, stack # <<>>, stack' = Below
  PROVE  /\ Len(stack) \in Nat \ {0} /\ Len(stack') = Len(stack) - 1
         /\ \A i \in 1 .. Len(stack) - 1 : stack'[i] = stack[i]
         /\ stack' = <<>> <=> Len(stack) = 1
<1>1. /\ Below \in Seq(Frames) /\ Len(Below) = Len(stack) - 1
      /\ \A i \in 1 .. Len(stack) - 1 : Below[i] = stack[i]
      /\ Len(stack) \in Nat \ {0}
  BY TopAndBelow
<1>2. Below = <<>> <=> Len(Below) = 0
  BY <1>1, EmptySeq
<1> QED BY <1>1, <1>2

LEMMA DestroyGoesOnStep ==
  ASSUME TypeOK, DestroyLeavesFromCreated, Flat, DestroyGoesOn, TypeOK', [Next]_vars,
         Reentrant = FALSE
  PROVE  DestroyGoesOn'
<1>0. stack \in Seq(Frames) /\ Len(stack) \in Nat /\ DOMAIN stack = 1 .. Len(stack)
  BY LenProperties DEF TypeOK
<1>1. ASSUME NEW s \in Seq(Frames), NEW f \in Frames, f.op # "destroy", stack' = Append(s, f)
      PROVE  DestroyGoesOn'
  <2>1. stack' # <<>> /\ stack'[Len(stack')] = f
    BY <1>1, AppendProperties, EmptySeq, LenProperties
  <2> QED BY <1>1, <2>1 DEF DestroyGoesOn, On, Top
<1>2. ASSUME stack # <<>>, NEW f \in Frames, NEW g \in Frames, g.op # "destroy",
             stack' = Below \o <<f, g>>
      PROVE  DestroyGoesOn'
  <2>1. Below \in Seq(Frames)
    BY <1>2, TopAndBelow
  <2>2. stack' # <<>> /\ stack'[Len(stack')] = g
    <3>1. ASSUME NEW s \in Seq(Frames)
          PROVE  s \o <<f, g>> # <<>> /\ (s \o <<f, g>>)[Len(s \o <<f, g>>)] = g
      BY <1>2, <3>1, PushedTwo
    <3> QED BY <1>2, <2>1, <3>1
  <2> QED BY <1>2, <2>2 DEF DestroyGoesOn, On, Top
<1>3. ASSUME NEW r, Return(r), stack # <<>>, Top.op = "move_to" => r = "Ok"
      PROVE  DestroyGoesOn'
  <2>1. stack' = Below /\ ret' = r
    BY <1>3 DEF Return
  <2>2. CASE Len(stack) = 1
    BY <1>3, <2>1, <2>2, Returned DEF DestroyGoesOn, On
  <2>3. CASE Len(stack) # 1
    <3>1. /\ Len(stack') = Len(stack) - 1 /\ Len(stack) - 1 \in 1 .. Len(stack) - 1
          /\ stack'[Len(stack')] = stack[Len(stack) - 1]
      BY <1>3, <2>1, <2>3, Returned
    <3>2. ASSUME stack[Len(stack) - 1].op = "destroy" PROVE r = "Ok"
      <4>1. stack[Len(stack)] = MoveToFrame("Created")
        BY <1>0, <3>1, <3>2 DEF DestroyLeavesFromCreated
      <4> QED BY <1>3, <4>1 DEF MoveToFrame, Top
    <3> QED BY <2>1, <3>1, <3>2 DEF DestroyGoesOn, On, Top
  <2> QED BY <2>2, <2>3
<1>4. ASSUME UserCode, UNCHANGED stack PROVE DestroyGoesOn'
  BY <1>4 DEF DestroyGoesOn, On, UserCode, Top
<1>5. ASSUME NEW next \in States, NEW below \in Seq(Frames), Apply(next, below)
      PROVE  DestroyGoesOn'
  <2>1. Len(log) \in Nat /\ Snapshot(state, next) \in Seq(Nat)
    BY SnapshotType, LenProperties DEF TypeOK
  <2>2. ApplyFrame(next, Len(log) + 1, Snapshot(state, next)) \in Frames
    BY <2>1 DEF ApplyFrame, Frames
  <2> QED BY <1>1, <1>5, <2>2 DEF Apply, ApplyFrame
<1>6. MayTransition => UserCode
  BY DEF MayTransition
<1>7. ASSUME BeginDestroy PROVE DestroyGoesOn'
  <2>1. CASE Apply("Destroyed", stack)
    BY <1>0, <1>5, <2>1 DEF States
  <2>2. CASE stack' = stack \o << DestroyFrame, MoveToFrame("Created") >>
    <3>1. DestroyFrame \in Frames /\ MoveToFrame("Created") \in Frames
      BY DEF DestroyFrame, MoveToFrame, Frames
    <3>2. /\ stack' # <<>> /\ Len(stack') = Len(stack) + 2
          /\ stack'[Len(stack) + 2] = MoveToFrame("Created")
      BY <1>0, <2>2, <3>1, PushedTwo
    <3> QED BY <3>2 DEF DestroyGoesOn, On, Top, MoveToFrame
  <2> QED BY <1>7, <2>1, <2>2 DEF BeginDestroy
<1>8. CASE StrictStep
  <2>1. ASSUME NEW from \in States, NEW to \in States, Step(from, to) PROVE DestroyGoesOn'
    BY <1>0, <1>4, <1>5, <1>6, <2>1 DEF Step, Answer
  <2> QED BY <1>8, <2>1 DEF StrictStep, States
<1>9. CASE Destroy
  BY <1>4, <1>6, <1>7, <1>9 DEF Destroy, Answer
<1>10. CASE \E target \in States : MoveTo(target)
  <2>1. PICK target \in States : MoveTo(target)
    BY <1>10
  <2>2. CASE /\ target \notin {state, "Initialized", "Destroyed"}
             /\ stack' = Append(stack, MoveToFrame(target))
    <3>1. MoveToFrame(target) \in Frames /\ MoveToFrame(target).op # "destroy"
      BY <2>2 DEF MoveToFrame, Frames, States
    <3> QED BY <1>0, <1>1, <2>2, <3>1
  <2> QED BY <1>4, <1>6, <1>7, <2>1, <2>2 DEF MoveTo, Answer
<1>11. CASE Subscribe
  <2>1. /\ SubscribeFrame(nextId, CatchUp(state)) \in Frames
        /\ SubscribeFrame(nextId, CatchUp(state)).op # "destroy"
    BY CatchUpType DEF SubscribeFrame, Frames, TypeOK
  <2> QED BY <1>0, <1>1, <1>11, <2>1 DEF Subscribe
<1>12. CASE \E id \in 0 .. nextId - 1 : Unsubscribe(id)
  BY <1>4, <1>12 DEF Unsubscribe
<1>13. CASE Notify
  <2>1. /\ stack # <<>> /\ Top \in Frames /\ Top.op = "apply" /\ Top.todo # <<>>
        /\ Top \in [op : {"apply"}, event : States, n : Nat, todo : Seq(Nat)]
    BY <1>13, TopAndBelow, FrameShapes DEF Notify, On
  <2>2. Head(Top.todo) \in Nat /\ Tail(Top.todo) \in Seq(Nat)
    BY <2>1, HeadTail
  <2>3. [Top EXCEPT !.todo = Tail(@)] \in Frames
    BY <2>1, <2>2 DEF Frames
  <2>4. /\ CallbackFrame(Head(Top.todo), Top.event) \in Frames
        /\ CallbackFrame(Head(Top.todo), Top.event).op # "destroy"
    BY <2>1, <2>2 DEF CallbackFrame, Frames
  <2> QED BY <1>2, <1>13, <2>1, <2>3, <2>4 DEF Notify
<1>14. CASE ApplyDone
  BY <1>3, <1>14 DEF ApplyDone, On
<1>15. CASE FinishDestroy
  <2>1. stack # <<>> /\ Top.op = "destroy" /\ ret = "Ok"
    BY <1>15 DEF FinishDestroy, On, DestroyGoesOn
  <2> QED BY <1>5, <1>15, <2>1, TopAndBelow DEF FinishDestroy, States
<1>16. CASE MoveToRound
  <2>1. stack # <<>> /\ Top.op = "move_to" /\ Top \in Frames
    BY <1>16, TopAndBelow DEF MoveToRound, On
  <2>2. state # "Destroyed"
    BY <1>0, <2>1, TopAndBelow DEF Flat, WalksOutermost, Walks, Top
  <2>3. Top.target \in {"Created", "Started", "Resumed"}
    BY <2>1, FrameShapes
  <2>4. state \notin {Top.target, "Destroyed"} => Towards(Top.target) \in States
    BY <2>3, TowardsAdjacent DEF States, TypeOK
  <2> QED BY <1>0, <1>3, <1>5, <1>16, <2>1, <2>2, <2>4 DEF MoveToRound
<1>17. CASE Replay
  <2>1. /\ stack # <<>> /\ Top \in Frames /\ Top.op = "subscribe" /\ Top.todo # <<>>
        /\ Top \in [op : {"subscribe"}, id : Nat, todo : Seq(States)]
    BY <1>17, TopAndBelow, FrameShapes DEF Replay, On
  <2>2. Head(Top.todo) \in States /\ Tail(Top.todo) \in Seq(States)
    BY <2>1, HeadTail
  <2>3. [Top EXCEPT !.todo = Tail(@)] \in Frames
    BY <2>1, <2>2 DEF Frames
  <2>4. /\ CallbackFrame(Top.id, Head(Top.todo)) \in Frames
        /\ CallbackFrame(Top.id, Head(Top.todo)).op # "destroy"
    BY <2>1, <2>2 DEF CallbackFrame, Frames
  <2> QED BY <1>2, <1>17, <2>1, <2>3, <2>4 DEF Replay
<1>18. CASE SubscribeDone
  BY <1>3, <1>18 DEF SubscribeDone, On
<1>19. CASE CallbackReturn
  BY <1>3, <1>19 DEF CallbackReturn, On
<1>20. CASE UNCHANGED vars
  BY <1>20 DEF vars, DestroyGoesOn, On, Top
<1> QED BY <1>8, <1>9, <1>10, <1>11, <1>12, <1>13, <1>14, <1>15, <1>16, <1>17, <1>18,
           <1>19, <1>20 DEF Next, Call, Components, Run


(* Once a call is made, the state it will leave is settled: observers that *)
(* do not ask for transitions cannot move it.                              *)
LEMMA GoalStep ==
  ASSUME TypeOK, TypeOK', Flat, DestroyGoesOn, Reentrant = FALSE,
         Components \/ Run \/ CallbackReturn \/ UNCHANGED vars
  PROVE  Goal' = Goal
<1>0. /\ stack \in Seq(Frames) /\ Len(stack) \in Nat /\ DOMAIN stack = 1 .. Len(stack)
      /\ stack = <<>> <=> Len(stack) = 0
  BY LenProperties, EmptySeq DEF TypeOK
<1>1. ASSUME UNCHANGED <<stack, state>> PROVE Goal' = Goal
  BY <1>1 DEF Goal
<1>2. ASSUME stack' # <<>>, stack # <<>>, stack'[1].op = stack[1].op,
             stack[1].op = "move_to" => stack'[1].target = stack[1].target,
             ~ Walks(stack[1]) => state' = state
      PROVE  Goal' = Goal
  BY <1>2 DEF Goal, Walks
<1>3. ASSUME NEW r, Return(r), stack # <<>>,
             Len(stack) = 1 => IF Top.op = "move_to" THEN state = Top.target
                                                     ELSE Top.op # "destroy"
      PROVE  Goal' = Goal
  <2>1. stack' = Below /\ state' = state
    BY <1>3 DEF Return
  <2>2. CASE Len(stack) = 1
    <3>1. stack' = <<>> /\ Top = stack[1]
      BY <1>3, <2>1, <2>2, Returned DEF Top
    <3> QED BY <1>3, <2>1, <2>2, <3>1 DEF Goal
  <2>3. CASE Len(stack) # 1
    <3>1. 1 \in 1 .. Len(stack) - 1
      BY <1>0, <1>3, <2>3
    <3>2. stack'[1] = stack[1] /\ stack' # <<>>
      BY <1>3, <2>1, <2>3, <3>1, Returned
    <3> QED BY <1>2, <1>3, <2>1, <3>2
  <2> QED BY <2>2, <2>3
<1>4. ASSUME stack # <<>>, NEW f \in Frames, NEW g \in Frames,
             stack' = Below \o <<f, g>>, state' = state,
             f.op = Top.op, ~ Walks(Top)
      PROVE  Goal' = Goal
  <2>1. /\ Len(stack) \in Nat \ {0}
        /\ \A i \in 1 .. Len(stack) - 1 : stack'[i] = stack[i]
        /\ stack'[Len(stack)] = f /\ DOMAIN stack' = 1 .. Len(stack) + 1
    BY <1>4, CalledBack
  <2>2. stack' # <<>>
    BY <2>1
  <2>3. CASE Len(stack) = 1
    <3>1. Top = stack[1] /\ stack'[1] = f
      BY <2>1, <2>3 DEF Top
    <3> QED BY <1>2, <1>4, <2>2, <3>1 DEF Walks
  <2>4. CASE Len(stack) # 1
    <3>a. 1 \in 1 .. Len(stack) - 1
      BY <1>0, <1>4, <2>4
    <3>1. stack'[1] = stack[1]
      BY <2>1, <3>a
    <3> QED BY <1>2, <1>4, <2>2, <3>1
  <2> QED BY <2>3, <2>4
<1>5. ASSUME NEW f \in Frames, stack' = Append(stack, f), state' = state, ~ Walks(f)
      PROVE  Goal' = Goal
  <2>1. /\ Len(stack') = Len(stack) + 1 /\ stack' # <<>>
        /\ \A i \in 1 .. Len(stack) : stack'[i] = stack[i]
        /\ stack'[Len(stack) + 1] = f
    BY <1>0, <1>5, AppendProperties, EmptySeq
  <2>2. CASE stack = <<>>
    <3>1. stack'[1] = f
      BY <1>0, <2>1, <2>2
    <3> QED BY <1>5, <2>1, <2>2, <3>1 DEF Goal, Walks
  <2>3. CASE stack # <<>>
    <3>1. 1 \in 1 .. Len(stack)
      BY <1>0, <2>3
    <3> QED BY <1>2, <1>5, <2>1, <2>3, <3>1
  <2> QED BY <2>2, <2>3
<1>6. CASE Subscribe
  <2>1. /\ SubscribeFrame(nextId, CatchUp(state)) \in Frames
        /\ ~ Walks(SubscribeFrame(nextId, CatchUp(state)))
    BY CatchUpType DEF SubscribeFrame, Frames, TypeOK, Walks
  <2> QED BY <1>5, <1>6, <2>1 DEF Subscribe
<1>7. CASE \E id \in 0 .. nextId - 1 : Unsubscribe(id)
  BY <1>1, <1>7 DEF Unsubscribe
<1>8. CASE Notify
  <2>1. /\ stack # <<>> /\ Top \in Frames /\ Top.op = "apply" /\ Top.todo # <<>>
        /\ Top \in [op : {"apply"}, event : States, n : Nat, todo : Seq(Nat)]
    BY <1>8, TopAndBelow, FrameShapes DEF Notify, On
  <2>2. Head(Top.todo) \in Nat /\ Tail(Top.todo) \in Seq(Nat)
    BY <2>1, HeadTail
  <2>3. PICK g : g = [Top EXCEPT !.todo = Tail(@)]
    OBVIOUS
  <2>4. g \in Frames /\ g.op = Top.op /\ ~ Walks(Top)
    BY <2>1, <2>2, <2>3 DEF Frames, Walks
  <2>5. CallbackFrame(Head(Top.todo), Top.event) \in Frames
    BY <2>1, <2>2 DEF CallbackFrame, Frames
  <2>6. stack' = Below \o <<g, CallbackFrame(Head(Top.todo), Top.event)>> /\ state' = state
    BY <1>8, <2>3 DEF Notify
  <2> QED BY <1>4, <2>1, <2>4, <2>5, <2>6
<1>9. CASE Replay
  <2>1. /\ stack # <<>> /\ Top \in Frames /\ Top.op = "subscribe" /\ Top.todo # <<>>
        /\ Top \in [op : {"subscribe"}, id : Nat, todo : Seq(States)]
    BY <1>9, TopAndBelow, FrameShapes DEF Replay, On
  <2>2. Head(Top.todo) \in States /\ Tail(Top.todo) \in Seq(States)
    BY <2>1, HeadTail
  <2>3. PICK g : g = [Top EXCEPT !.todo = Tail(@)]
    OBVIOUS
  <2>4. g \in Frames /\ g.op = Top.op /\ ~ Walks(Top)
    BY <2>1, <2>2, <2>3 DEF Frames, Walks
  <2>5. CallbackFrame(Top.id, Head(Top.todo)) \in Frames
    BY <2>1, <2>2 DEF CallbackFrame, Frames
  <2>6. stack' = Below \o <<g, CallbackFrame(Top.id, Head(Top.todo))>> /\ state' = state
    BY <1>9, <2>3 DEF Replay
  <2> QED BY <1>4, <2>1, <2>4, <2>5, <2>6
<1>10. CASE ApplyDone
  BY <1>3, <1>10 DEF ApplyDone, On
<1>11. CASE SubscribeDone
  BY <1>3, <1>11 DEF SubscribeDone, On
<1>12. CASE CallbackReturn
  BY <1>3, <1>12 DEF CallbackReturn, On
<1>13. CASE FinishDestroy
  <2>1. stack # <<>> /\ Top.op = "destroy" /\ ret = "Ok"
    BY <1>13 DEF FinishDestroy, On, DestroyGoesOn
  <2>2. Apply("Destroyed", Below)
    BY <1>13, <2>1 DEF FinishDestroy
  <2>3. Len(stack) = 1 /\ Top = stack[1]
    BY <1>0, <2>1 DEF Flat, WalksOutermost, Walks, Top
  <2>4. Below = <<>>
    <3>1. Below \in Seq(Frames) /\ Len(Below) = 0
      BY <2>1, <2>3, TopAndBelow
    <3> QED BY <3>1, EmptySeq
  <2>5. PICK f : f = ApplyFrame("Destroyed", Len(log) + 1, Snapshot(state, "Destroyed"))
    OBVIOUS
  <2>6. f.op = "apply" /\ stack' = <<f>> /\ state' = "Destroyed"
    BY <2>2, <2>4, <2>5 DEF Apply, ApplyFrame
  <2>7. stack' # <<>> /\ stack'[1] = f
    BY <2>6
  <2> QED BY <2>1, <2>3, <2>6, <2>7 DEF Goal
<1>14. CASE MoveToRound
  <2>1. stack # <<>> /\ Top.op = "move_to" /\ Top \in Frames /\ Len(stack) \in DOMAIN stack
    BY <1>0, <1>14, TopAndBelow DEF MoveToRound, On
  <2>2. state # "Destroyed"
    BY <2>1 DEF Flat, WalksOutermost, Walks, Top
  <2>3. Walks(stack[1])
    BY <1>0, <2>1 DEF Flat, WalksOutermost, Walks, Top
  <2>4. CASE state = Top.target /\ Return("Ok")
    BY <1>3, <2>1, <2>4
  <2>5. CASE state \notin {Top.target, "Destroyed"} /\ Apply(Towards(Top.target), stack)
    <3>1. Top.target \in {"Created", "Started", "Resumed"}
      BY <2>1, FrameShapes
    <3>2. PICK f : f = ApplyFrame(Towards(Top.target), Len(log) + 1,
                                 Snapshot(state, Towards(Top.target)))
      OBVIOUS
    <3>3. f \in Frames
      <4>1. /\ Towards(Top.target) \in States /\ Len(log) \in Nat
            /\ Snapshot(state, Towards(Top.target)) \in Seq(Nat)
        BY <2>5, <3>1, TowardsAdjacent, SnapshotType, LenProperties DEF States, TypeOK
      <4> QED BY <3>2, <4>1 DEF ApplyFrame, Frames
    <3>4. stack' = Append(stack, f)
      BY <2>5, <3>2 DEF Apply
    <3>5. stack' # <<>> /\ stack'[1] = stack[1]
      BY <1>0, <2>1, <3>3, <3>4, AppendProperties, EmptySeq
    <3> QED BY <1>2, <2>1, <2>3, <3>5
  <2> QED BY <1>14, <2>2, <2>4, <2>5 DEF MoveToRound
<1>15. CASE UNCHANGED vars
  BY <1>1, <1>15 DEF vars
<1> QED BY <1>6, <1>7, <1>8, <1>9, <1>10, <1>11, <1>12, <1>13, <1>14, <1>15
        DEF Components, Run

(* Where the calls of an owner lead. *)
LEMMA GoalOfApply ==
  ASSUME stack = <<>>, NEW next, Apply(next, stack)
  PROVE  Goal' = next
<1>1. PICK f : f = ApplyFrame(next, Len(log) + 1, Snapshot(state, next))
  OBVIOUS
<1>2. f.op = "apply" /\ stack' = <<f>> /\ state' = next
  BY <1>1 DEF Apply, ApplyFrame
<1>3. stack' # <<>> /\ stack'[1] = f
  BY <1>2
<1> QED BY <1>2, <1>3 DEF Goal

LEMMA GoalOfAnswer ==
  ASSUME stack = <<>>, NEW r, Answer(r)
  PROVE  Goal' = state
BY DEF Answer, Goal

LEMMA GoalOfBeginDestroy ==
  ASSUME stack = <<>>, BeginDestroy
  PROVE  Goal' = "Destroyed"
<1>1. CASE Apply("Destroyed", stack)
  BY <1>1, GoalOfApply
<1>2. CASE stack' = stack \o << DestroyFrame, MoveToFrame("Created") >>
  <2>1. stack' = << DestroyFrame, MoveToFrame("Created") >>
    BY <1>2
  <2>2. stack' # <<>> /\ stack'[1] = DestroyFrame
    BY <2>1
  <2> QED BY <2>2 DEF Goal, DestroyFrame
<1> QED BY <1>1, <1>2 DEF BeginDestroy

LEMMA GoalOfStep ==
  ASSUME stack = <<>>, NEW from, NEW to, Step(from, to)
  PROVE  Goal' = IF state = from /\ from # "Destroyed" THEN to ELSE state
BY GoalOfApply, GoalOfAnswer DEF Step, Apply

LEMMA GoalOfDestroy ==
  ASSUME stack = <<>>, Destroy
  PROVE  Goal' = "Destroyed"
BY GoalOfAnswer, GoalOfBeginDestroy DEF Destroy

LEMMA GoalOfMoveTo ==
  ASSUME stack = <<>>, NEW target \in States, MoveTo(target)
  PROVE  Goal' = IF state = "Destroyed" \/ target = "Initialized" THEN state ELSE target
<1>1. CASE /\ state # "Destroyed"
           /\ target \notin {state, "Initialized", "Destroyed"}
           /\ stack' = Append(stack, MoveToFrame(target))
  <2>1. stack' = << MoveToFrame(target) >>
    BY <1>1
  <2>2. stack' # <<>> /\ stack'[1] = MoveToFrame(target)
    BY <2>1
  <2> QED BY <1>1, <2>2 DEF Goal, MoveToFrame
<1> QED BY <1>1, GoalOfAnswer, GoalOfBeginDestroy DEF MoveTo


-----------------------------------------------------------------------------
(* Who observes, who is still to hear of the state, and who has.           *)
Observes(id) == \E i \in DOMAIN observers : observers[i] = id

Pending(f) == f.op \in {"apply", "subscribe"} /\ f.todo # <<>>

WillHear(id) ==
  \E i \in DOMAIN stack :
    \/ stack[i].op = "apply" /\ stack[i].todo # <<>> /\ id \in ToCall(stack[i])
    \/ stack[i].op = "subscribe" /\ stack[i].todo # <<>> /\ stack[i].id = id

Told == \A id \in Nat : Observes(id) => WillHear(id) \/ LastHeard(id) = state

(* Ids are used once they have been given. *)
IdsGiven ==
  /\ \A k \in DOMAIN deliveries : deliveries[k].id < nextId
  /\ \A n \in DOMAIN log : \A id \in log[n].registered : id < nextId
  /\ \A i \in DOMAIN stack : stack[i].op = "subscribe" => stack[i].id < nextId

(* Who has heard anything has heard something last. *)
HasLast ==
  \A id \in Nat : Heard(id) # {} => \E k \in Heard(id) : \A j \in Heard(id) : j <= k

LEMMA LastHeardStep ==
  ASSUME TypeOK, HasLast, NEW d \in [id : Nat, event : States, n : Nat],
         deliveries' = Append(deliveries, d)
  PROVE  /\ HasLast'
         /\ LastHeard(d.id)' = d.event
         /\ \A id \in Nat \ {d.id} : LastHeard(id)' = LastHeard(id)
<1>1. PICK last \in Nat \ {0} : last = Len(deliveries) + 1
  BY LenProperties DEF TypeOK
<1>2. /\ DOMAIN deliveries = 1 .. last - 1 /\ DOMAIN deliveries' = 1 .. last
      /\ deliveries'[last] = d
      /\ \A k \in DOMAIN deliveries : deliveries'[k] = deliveries[k]
  <2>1. /\ DOMAIN deliveries = 1 .. Len(deliveries) /\ Len(deliveries) \in Nat
        /\ DOMAIN deliveries' = 1 .. Len(deliveries) + 1
        /\ deliveries'[Len(deliveries) + 1] = d
        /\ \A k \in DOMAIN deliveries : deliveries'[k] = deliveries[k]
    BY Delivered
  <2>2. Len(deliveries) = last - 1
    BY <1>1, <2>1
  <2> QED BY <1>1, <2>1, <2>2
<1>3. Heard(d.id)' = Heard(d.id) \cup {last} /\ \A k \in Heard(d.id)' : k <= last
  BY <1>2 DEF Heard
<1>4. ASSUME NEW id \in Nat \ {d.id} PROVE Heard(id)' = Heard(id)
  BY <1>2, <1>4 DEF Heard
<1>5. HasLast'
  BY <1>3, <1>4 DEF HasLast
<1>6. LastHeard(d.id)' = d.event
  <2>1. \A k \in Heard(d.id)' : (\A j \in Heard(d.id)' : j <= k) <=> k = last
    <3>1. \A k \in Heard(d.id)' : k \in Nat
      BY <1>2 DEF Heard
    <3>2. last \in Heard(d.id)'
      BY <1>3
    <3>3. ASSUME NEW k \in Heard(d.id)', \A j \in Heard(d.id)' : j <= k PROVE k = last
      <4>1. last <= k /\ k <= last /\ k \in Nat
        BY <1>3, <3>1, <3>2, <3>3
      <4> QED BY <4>1
    <3> QED BY <1>3, <3>3
  <2>2. (CHOOSE k \in Heard(d.id)' : \A j \in Heard(d.id)' : j <= k) = last
    BY <1>3, <2>1
  <2> QED BY <1>2, <1>3, <2>2 DEF LastHeard
<1>7. ASSUME NEW id \in Nat \ {d.id} PROVE LastHeard(id)' = LastHeard(id)
  <2>1. CASE Heard(id) = {}
    BY <1>4, <2>1 DEF LastHeard
  <2>2. CASE Heard(id) # {}
    <3> DEFINE k == CHOOSE k \in Heard(id) : \A j \in Heard(id) : j <= k
    <3>1. k \in Heard(id)
      BY <2>2 DEF HasLast
    <3>2. LastHeard(id) = deliveries[k].event
      BY <2>2 DEF LastHeard
    <3>3. LastHeard(id)' = deliveries'[CHOOSE i \in Heard(id) : \A j \in Heard(id) : j <= i].event
      BY <1>4, <2>2 DEF LastHeard
    <3> HIDE DEF k
    <3>4. deliveries'[k] = deliveries[k]
      BY <1>2, <3>1 DEF Heard
    <3> QED BY <3>2, <3>3, <3>4 DEF k
  <2> QED BY <2>1, <2>2
<1> QED BY <1>5, <1>6, <1>7

(* The steps, as far as what observers hear goes: nobody is told anything  *)
(* and nobody's turn is taken away, or one of five things happens.         *)
Silent ==
  /\ UNCHANGED <<state, deliveries, log, nextId>>
  /\ \A i \in DOMAIN stack : Pending(stack[i]) =>
       \E j \in DOMAIN stack' : stack'[j] = stack[i]
  /\ \A i \in DOMAIN stack' : stack'[i].op = "subscribe" =>
       \E j \in DOMAIN stack : stack[j] = stack'[i]
  /\ \A id : Observes(id)' => Observes(id)

Applies ==
  \E next \in States, below \in Seq(Frames) :
    /\ Apply(next, below)
    /\ \A i \in DOMAIN below : \E j \in DOMAIN stack : stack[j] = below[i]

LEMMA TellKinds ==
  ASSUME TypeOK, [Next]_vars
  PROVE  Silent \/ Applies \/ Subscribe \/ Notify \/ Replay
<1>0. /\ stack \in Seq(Frames) /\ Len(stack) \in Nat /\ DOMAIN stack = 1 .. Len(stack)
      /\ observers \in Seq(Nat) /\ state \in States
  BY LenProperties DEF TypeOK
<1>1. ASSUME UNCHANGED <<state, deliveries, log, nextId, stack>>,
             \A id : Observes(id)' => Observes(id)
      PROVE  Silent
  BY <1>1 DEF Silent
<1>2. UNCHANGED observers => \A id : Observes(id)' => Observes(id)
  BY DEF Observes
<1>3. ASSUME NEW f \in Frames, f.op # "subscribe", stack' = Append(stack, f),
             UNCHANGED <<state, deliveries, log, nextId, observers>>
      PROVE  Silent
  <2>1. /\ DOMAIN stack' = 1 .. Len(stack) + 1
        /\ \A i \in 1 .. Len(stack) : stack'[i] = stack[i]
        /\ stack'[Len(stack) + 1] = f
    BY <1>0, <1>3, AppendProperties, LenProperties
  <2> QED BY <1>0, <1>2, <1>3, <2>1 DEF Silent
<1>4. ASSUME NEW r, Return(r), stack # <<>>, ~ Pending(Top),
             \A id : Observes(id)' => Observes(id)
      PROVE  Silent
  <2>1. /\ Len(stack) \in Nat \ {0} /\ Len(stack') = Len(stack) - 1
        /\ \A i \in 1 .. Len(stack) - 1 : stack'[i] = stack[i]
        /\ DOMAIN stack' = 1 .. Len(stack) - 1
    <3>1. stack' = Below
      BY <1>4 DEF Return
    <3> QED BY <1>4, <3>1, Returned, TopAndBelow, LenProperties
  <2>2. \A i \in DOMAIN stack : Pending(stack[i]) => i \in DOMAIN stack'
    BY <1>0, <1>4, <2>1 DEF Top
  <2> QED BY <1>0, <1>4, <2>1, <2>2 DEF Silent, Return
<1>5. ASSUME NEW next \in States, Apply(next, stack) PROVE Applies
  BY <1>0, <1>5 DEF Applies
<1>6. ASSUME BeginDestroy PROVE Silent \/ Applies
  <2>1. CASE Apply("Destroyed", stack)
    BY <1>5, <2>1 DEF States
  <2>2. CASE /\ stack' = stack \o << DestroyFrame, MoveToFrame("Created") >>
             /\ UNCHANGED <<state, observers, nextId, ret, log, deliveries>>
    <3>1. /\ DestroyFrame \in Frames /\ MoveToFrame("Created") \in Frames
          /\ DestroyFrame.op # "subscribe" /\ MoveToFrame("Created").op # "subscribe"
      BY DEF DestroyFrame, MoveToFrame, Frames
    <3>2. /\ stack' \in Seq(Frames)
          /\ Len(stack') = Len(stack) + 2
          /\ \A i \in 1 .. Len(stack) : stack'[i] = stack[i]
          /\ stack'[Len(stack) + 1] = DestroyFrame
          /\ stack'[Len(stack) + 2] = MoveToFrame("Created")
      BY <1>0, <2>2, <3>1, PushedTwo
    <3>3. DOMAIN stack' = 1 .. Len(stack) + 2
      BY <3>2, LenProperties
    <3> QED BY <1>0, <1>2, <2>2, <3>1, <3>2, <3>3 DEF Silent
  <2> QED BY <1>6, <2>1, <2>2 DEF BeginDestroy
<1>7. ASSUME NEW r, Answer(r) PROVE Silent
  BY <1>1, <1>2, <1>7 DEF Answer
<1>8. CASE StrictStep
  <2>1. ASSUME NEW from \in States, NEW to \in States, Step(from, to)
        PROVE  Silent \/ Applies
    BY <1>5, <1>7, <2>1 DEF Step
  <2> QED BY <1>8, <2>1 DEF StrictStep, States
<1>9. CASE Destroy
  BY <1>6, <1>7, <1>9 DEF Destroy
<1>10. CASE \E target \in States : MoveTo(target)
  <2>1. PICK target \in States : MoveTo(target)
    BY <1>10
  <2>2. CASE /\ target \notin {state, "Initialized", "Destroyed"}
             /\ stack' = Append(stack, MoveToFrame(target))
             /\ UNCHANGED <<state, observers, nextId, ret, log, deliveries>>
    <3>1. MoveToFrame(target) \in Frames /\ MoveToFrame(target).op # "subscribe"
      BY <2>2 DEF MoveToFrame, Frames, States
    <3> QED BY <1>3, <2>2, <3>1
  <2> QED BY <1>6, <1>7, <2>1, <2>2 DEF MoveTo
<1>11. CASE \E id \in 0 .. nextId - 1 : Unsubscribe(id)
  <2>1. PICK id \in 0 .. nextId - 1 : Unsubscribe(id)
    BY <1>11
  <2>2. \A i \in DOMAIN observers' : \E j \in DOMAIN observers : observers'[i] = observers[j]
    <3>1. CASE Without(id) = observers
      BY <2>1, <3>1 DEF Unsubscribe
    <3>2. ASSUME NEW at \in 1 .. Len(observers),
                 Len(Without(id)) = Len(observers) - 1,
                 Without(id) \in Seq(Nat),
                 \A i \in 1 .. Len(observers) - 1 :
                   Without(id)[i] = IF i < at THEN observers[i] ELSE observers[i + 1]
          PROVE  \A i \in DOMAIN observers' :
                   \E j \in DOMAIN observers : observers'[i] = observers[j]
      <4>1. /\ DOMAIN observers' = 1 .. Len(observers) - 1 /\ observers' = Without(id)
            /\ DOMAIN observers = 1 .. Len(observers) /\ Len(observers) \in Nat
        BY <1>0, <2>1, <3>2, LenProperties DEF Unsubscribe
      <4>2. ASSUME NEW i \in 1 .. Len(observers) - 1
            PROVE  \E j \in DOMAIN observers : Without(id)[i] = observers[j]
        <5>1. i \in DOMAIN observers /\ i + 1 \in DOMAIN observers
          BY <4>1
        <5> QED BY <3>2, <5>1
      <4> QED BY <4>1, <4>2
    <3> QED BY <1>0, <3>1, <3>2, WithoutElements
  <2>3. \A x : Observes(x)' => Observes(x)
    BY <2>2 DEF Observes
  <2> QED BY <1>1, <2>1, <2>3 DEF Unsubscribe
<1>12. CASE ApplyDone
  <2>1. \A id : Observes(id)' => Observes(id)
    BY <1>12 DEF ApplyDone, Observes
  <2> QED BY <1>4, <1>12, <2>1 DEF ApplyDone, On, Pending
<1>13. CASE FinishDestroy
  <2>1. stack # <<>> /\ Top.op = "destroy"
    BY <1>13 DEF FinishDestroy, On
  <2>2. CASE Return(ret) /\ UNCHANGED observers
    BY <1>2, <1>4, <2>1, <2>2 DEF Pending
  <2>3. CASE Apply("Destroyed", Below)
    <3>1. /\ Below \in Seq(Frames) /\ DOMAIN Below = 1 .. Len(stack) - 1
          /\ \A i \in 1 .. Len(stack) - 1 : Below[i] = stack[i]
      BY <2>1, TopAndBelow, LenProperties
    <3>2. \A i \in DOMAIN Below : \E j \in DOMAIN stack : stack[j] = Below[i]
      <4>1. \A i \in 1 .. Len(stack) - 1 : i \in 1 .. Len(stack)
        BY <1>0
      <4>2. \A i \in DOMAIN Below : i \in DOMAIN stack /\ stack[i] = Below[i]
        BY <1>0, <3>1, <4>1
      <4> QED BY <4>2
    <3> QED BY <2>3, <3>1, <3>2 DEF Applies, States
  <2> QED BY <1>13, <2>2, <2>3 DEF FinishDestroy
<1>14. CASE MoveToRound
  <2>1. stack # <<>> /\ Top.op = "move_to" /\ Top \in Frames
    BY <1>14, TopAndBelow DEF MoveToRound, On
  <2>2. Top.target \in {"Created", "Started", "Resumed"}
    BY <2>1, FrameShapes
  <2>3. state \notin {Top.target, "Destroyed"} => Towards(Top.target) \in States
    BY <1>0, <2>2, TowardsAdjacent DEF States
  <2> QED BY <1>2, <1>4, <1>5, <1>14, <2>1, <2>3 DEF MoveToRound, Pending
<1>15. CASE SubscribeDone
  BY <1>2, <1>4, <1>15 DEF SubscribeDone, On, Pending
<1>16. CASE CallbackReturn
  BY <1>2, <1>4, <1>16 DEF CallbackReturn, On, Pending
<1>17. CASE UNCHANGED vars
  BY <1>1, <1>2, <1>17 DEF vars
<1> QED BY <1>8, <1>9, <1>10, <1>11, <1>12, <1>13, <1>14, <1>15, <1>16, <1>17
        DEF Next, Call, Components, Run


LEMMA IdsGivenStep ==
  ASSUME TypeOK, TypeOK', NotifyInv, IdsGiven, [Next]_vars
  PROVE  IdsGiven'
<1>0. /\ nextId \in Nat /\ Len(log) \in Nat /\ DOMAIN log = 1 .. Len(log)
      /\ stack \in Seq(Frames) /\ Len(stack) \in Nat /\ DOMAIN stack = 1 .. Len(stack)
  BY LenProperties DEF TypeOK
<1>1. CASE Silent
  <2>1. ASSUME NEW i \in DOMAIN stack', stack'[i].op = "subscribe"
        PROVE  stack'[i].id < nextId'
    <3>1. PICK j \in DOMAIN stack : stack[j] = stack'[i]
      BY <1>1, <2>1 DEF Silent
    <3> QED BY <1>1, <2>1, <3>1 DEF Silent, IdsGiven
  <2> QED BY <1>1, <2>1 DEF Silent, IdsGiven
<1>2. CASE Applies
  <2>1. PICK next \in States, below \in Seq(Frames) :
          /\ Apply(next, below)
          /\ \A i \in DOMAIN below : \E j \in DOMAIN stack : stack[j] = below[i]
    BY <1>2 DEF Applies
  <2> DEFINE registered == {observers[i] : i \in DOMAIN observers}
  <2>2. \A n \in DOMAIN log' : \A id \in log'[n].registered : id < nextId
    <3> DEFINE rec == [from |-> state, to |-> next, registered |-> registered]
    <3>1. \A id \in registered : id < nextId
      BY DEF NotifyInv, Sorted
    <3>2. registered \in SUBSET Nat
      BY LenProperties, ElementOfSeq DEF TypeOK
    <3> HIDE DEF registered
    <3>3. log' = Append(log, rec)
         /\ rec \in [from : States, to : States, registered : SUBSET Nat]
      BY <2>1, <3>2 DEF Apply, registered, TypeOK
    <3>4. rec.registered = registered
      OBVIOUS
    <3> HIDE DEF rec
    <3>5. /\ DOMAIN log' = 1 .. Len(log) + 1
          /\ \A n \in 1 .. Len(log) : log'[n] = log[n]
          /\ log'[Len(log) + 1] = rec
      BY <3>3, AppendProperties, LenProperties DEF TypeOK
    <3> QED BY <1>0, <3>1, <3>4, <3>5 DEF IdsGiven
  <2>3. ASSUME NEW i \in DOMAIN stack', stack'[i].op = "subscribe"
        PROVE  stack'[i].id < nextId
    <3>1. PICK f : f = ApplyFrame(next, Len(log) + 1, Snapshot(state, next))
      OBVIOUS
    <3>2. f \in Frames /\ f.op = "apply"
      <4>1. Snapshot(state, next) \in Seq(Nat)
        BY SnapshotType DEF TypeOK
      <4> QED BY <1>0, <3>1, <4>1 DEF ApplyFrame, Frames
    <3>3. /\ DOMAIN stack' = 1 .. Len(below) + 1 /\ DOMAIN below = 1 .. Len(below)
          /\ Len(below) \in Nat
          /\ \A k \in 1 .. Len(below) : stack'[k] = below[k]
          /\ stack'[Len(below) + 1] = f
      BY <2>1, <3>1, <3>2, AppendProperties, LenProperties DEF Apply
    <3>4. i \in DOMAIN below /\ stack'[i] = below[i]
      BY <2>3, <3>2, <3>3
    <3>5. PICK j \in DOMAIN stack : stack[j] = below[i]
      BY <2>1, <3>4
    <3> QED BY <2>3, <3>4, <3>5 DEF IdsGiven
  <2> QED BY <2>1, <2>2, <2>3 DEF Apply, IdsGiven
<1>3. CASE Subscribe
  <2>1. PICK f : f = SubscribeFrame(nextId, CatchUp(state))
    OBVIOUS
  <2>2. f \in Frames /\ f.id = nextId /\ stack' = Append(stack, f) /\ nextId' = nextId + 1
    BY <1>3, <2>1, CatchUpType DEF Subscribe, SubscribeFrame, Frames, TypeOK
  <2>3. /\ DOMAIN stack' = 1 .. Len(stack) + 1
        /\ \A k \in 1 .. Len(stack) : stack'[k] = stack[k]
        /\ stack'[Len(stack) + 1] = f
    BY <1>0, <2>2, AppendProperties, LenProperties
  <2>4. \A i \in DOMAIN stack' : stack'[i].op = "subscribe" => stack'[i].id < nextId'
    <3> SUFFICES ASSUME NEW i \in DOMAIN stack', stack'[i].op = "subscribe"
                 PROVE  stack'[i].id < nextId'
      OBVIOUS
    <3>1. CASE i = Len(stack) + 1
      BY <1>0, <2>2, <2>3, <3>1
    <3>2. CASE i \in 1 .. Len(stack)
      <4>1. stack[i] \in Frames /\ stack[i].op = "subscribe" /\ stack'[i] = stack[i]
        BY <1>0, <2>3, <3>2, ElementOfSeq
      <4>2. stack[i].id \in Nat /\ stack[i].id < nextId
        BY <1>0, <3>2, <4>1, FrameShapes DEF IdsGiven
      <4> QED BY <1>0, <2>2, <4>1, <4>2
    <3> QED BY <2>3, <3>1, <3>2
  <2>5. \A k \in DOMAIN deliveries : deliveries[k].id \in Nat
    <3>1. \A k \in DOMAIN deliveries : deliveries[k] \in [id : Nat, event : States, n : Nat]
      BY LenProperties, ElementOfSeq DEF TypeOK
    <3> QED BY <3>1
  <2>6. \A n \in DOMAIN log : log[n].registered \subseteq Nat
    <3>1. \A n \in DOMAIN log :
            log[n] \in [from : States, to : States, registered : SUBSET Nat]
      BY LenProperties, ElementOfSeq DEF TypeOK
    <3> QED BY <3>1
  <2>7. deliveries' = deliveries /\ log' = log
    BY <1>3 DEF Subscribe
  <2>8. \A k \in DOMAIN deliveries : deliveries[k].id < nextId + 1
    BY <1>0, <2>5 DEF IdsGiven
  <2>9. \A n \in DOMAIN log : \A id \in log[n].registered : id < nextId + 1
    BY <1>0, <2>6 DEF IdsGiven
  <2> QED BY <2>2, <2>4, <2>7, <2>8, <2>9 DEF IdsGiven
<1>4. ASSUME NEW d \in [id : Nat, event : States, n : Nat],
             deliveries' = Append(deliveries, d), d.id < nextId,
             NEW f \in Frames, NEW g \in Frames, stack # <<>>,
             stack' = Below \o <<f, g>>, g.op # "subscribe",
             f.op = "subscribe" => f.id < nextId,
             UNCHANGED <<log, nextId>>
      PROVE  IdsGiven'
  <2>1. \A k \in DOMAIN deliveries' : deliveries'[k].id < nextId
    <3>1. /\ DOMAIN deliveries = 1 .. Len(deliveries) /\ Len(deliveries) \in Nat
          /\ DOMAIN deliveries' = 1 .. Len(deliveries) + 1
          /\ deliveries'[Len(deliveries) + 1] = d
          /\ \A k \in DOMAIN deliveries : deliveries'[k] = deliveries[k]
      BY <1>4, Delivered
    <3>2. \A k \in DOMAIN deliveries' : k \in DOMAIN deliveries \/ k = Len(deliveries) + 1
      BY <3>1
    <3> QED BY <1>4, <3>1, <3>2 DEF IdsGiven
  <2>2. ASSUME NEW i \in DOMAIN stack', stack'[i].op = "subscribe"
        PROVE  stack'[i].id < nextId
    <3>1. /\ DOMAIN stack' = 1 .. Len(stack) + 1
          /\ \A k \in 1 .. Len(stack) - 1 : stack'[k] = stack[k]
          /\ stack'[Len(stack)] = f /\ stack'[Len(stack) + 1] = g
      BY <1>4, CalledBack
    <3>2. i \in 1 .. Len(stack) - 1 \/ i = Len(stack) \/ i = Len(stack) + 1
      BY <1>0, <3>1
    <3>3. i \in 1 .. Len(stack) - 1 => i \in DOMAIN stack
      BY <1>0
    <3> QED BY <1>4, <2>2, <3>1, <3>2, <3>3 DEF IdsGiven
  <2> QED BY <1>4, <2>1, <2>2 DEF IdsGiven
<1>5. CASE Notify
  <2>1. PICK f \in Frames : f = Top /\ f = stack[Len(stack)] /\ f.op = "apply"
                            /\ f.todo # <<>> /\ Len(stack) \in DOMAIN stack /\ stack # <<>>
    BY <1>5, TopAndBelow, LenProperties DEF Notify, On, Top, TypeOK
  <2>2. f \in [op : {"apply"}, event : States, n : Nat, todo : Seq(Nat)]
    BY <2>1, FrameShapes
  <2>3. /\ Head(f.todo) \in Nat /\ Tail(f.todo) \in Seq(Nat)
        /\ 1 \in DOMAIN f.todo /\ f.todo[1] = Head(f.todo)
    BY <2>1, <2>2, HeadTail
  <2>4. PICK d, g, c : /\ d = [id |-> Head(f.todo), event |-> f.event, n |-> f.n]
                       /\ g = [f EXCEPT !.todo = Tail(@)]
                       /\ c = CallbackFrame(Head(f.todo), f.event)
    OBVIOUS
  <2>5. /\ d \in [id : Nat, event : States, n : Nat] /\ d.id = f.todo[1]
        /\ g \in Frames /\ g.op = "apply"
        /\ c \in Frames /\ c.op = "callback"
    BY <2>1, <2>2, <2>3, <2>4 DEF CallbackFrame, Frames
  <2>6. /\ deliveries' = Append(deliveries, d) /\ stack' = Below \o <<g, c>>
        /\ UNCHANGED <<log, nextId>>
    BY <1>5, <2>1, <2>4 DEF Notify
  <2>7. d.id < nextId
    <3>1. Due(f)
      BY <2>1 DEF NotifyInv, FramesDue
    <3>2. d.id \in ToCall(f)
      BY <2>3, <2>5 DEF ToCall
    <3>3. d.id \in log[f.n].registered /\ f.n \in DOMAIN log
      BY <3>1, <3>2 DEF Due
    <3> QED BY <3>3 DEF IdsGiven
  <2> QED BY <1>4, <2>1, <2>5, <2>6, <2>7
<1>6. CASE Replay
  <2>1. PICK f \in Frames : f = Top /\ f = stack[Len(stack)] /\ f.op = "subscribe"
                            /\ f.todo # <<>> /\ Len(stack) \in DOMAIN stack /\ stack # <<>>
    BY <1>6, TopAndBelow, LenProperties DEF Replay, On, Top, TypeOK
  <2>2. f \in [op : {"subscribe"}, id : Nat, todo : Seq(States)]
    BY <2>1, FrameShapes
  <2>3. Head(f.todo) \in States /\ Tail(f.todo) \in Seq(States)
    BY <2>1, <2>2, HeadTail
  <2>4. PICK d, g, c : /\ d = [id |-> f.id, event |-> Head(f.todo), n |-> 0]
                       /\ g = [f EXCEPT !.todo = Tail(@)]
                       /\ c = CallbackFrame(f.id, Head(f.todo))
    OBVIOUS
  <2>5. /\ d \in [id : Nat, event : States, n : Nat] /\ d.id = f.id
        /\ g \in Frames /\ g.op = "subscribe" /\ g.id = f.id
        /\ c \in Frames /\ c.op = "callback"
    BY <2>1, <2>2, <2>3, <2>4 DEF CallbackFrame, Frames
  <2>6. /\ deliveries' = Append(deliveries, d) /\ stack' = Below \o <<g, c>>
        /\ UNCHANGED <<log, nextId>>
    BY <1>6, <2>1, <2>4 DEF Replay
  <2>7. f.id < nextId
    BY <2>1 DEF IdsGiven
  <2> QED BY <1>4, <2>1, <2>5, <2>6, <2>7
<1> QED BY <1>1, <1>2, <1>3, <1>5, <1>6, TellKinds

LEMMA HasLastStep ==
  ASSUME TypeOK, HasLast, [Next]_vars
  PROVE  HasLast'
<1>1. CASE deliveries' = deliveries
  BY <1>1 DEF HasLast, Heard
<1>2. CASE Notify
  <2>1. stack # <<>> /\ Top \in Frames /\ Top.op = "apply" /\ Top.todo # <<>>
    BY <1>2, TopAndBelow DEF Notify, On
  <2>2. Top \in [op : {"apply"}, event : States, n : Nat, todo : Seq(Nat)]
    BY <2>1, FrameShapes
  <2>3. Head(Top.todo) \in Nat
    BY <2>1, <2>2, HeadTail
  <2>4. [id |-> Head(Top.todo), event |-> Top.event, n |-> Top.n]
          \in [id : Nat, event : States, n : Nat]
    BY <2>2, <2>3
  <2> QED BY <1>2, <2>4, LastHeardStep DEF Notify
<1>3. CASE Replay
  <2>1. stack # <<>> /\ Top \in Frames /\ Top.op = "subscribe" /\ Top.todo # <<>>
    BY <1>3, TopAndBelow DEF Replay, On
  <2>2. Top \in [op : {"subscribe"}, id : Nat, todo : Seq(States)]
    BY <2>1, FrameShapes
  <2>3. Head(Top.todo) \in States
    BY <2>1, <2>2, HeadTail
  <2>4. [id |-> Top.id, event |-> Head(Top.todo), n |-> 0]
          \in [id : Nat, event : States, n : Nat]
    BY <2>2, <2>3
  <2> QED BY <1>3, <2>4, LastHeardStep DEF Replay
<1> QED BY <1>1, <1>2, <1>3, TellKinds DEF Silent, Applies, Apply, Subscribe


LEMMA CatchUpEmpty ==
  ASSUME NEW s \in States, CatchUp(s) = <<>>
  PROVE  s \in {"Initialized", "Destroyed"}
<1> SUFFICES ASSUME s \in {"Created", "Started", "Resumed"} PROVE FALSE
  BY DEF States
<1> DEFINE all == <<"Created", "Started", "Resumed">>
<1>1. CatchUp(s) = SubSeq(all, 1, Rank(s))
  BY DEF CatchUp
<1>2. Rank(s) \in 1 .. 3
  BY DEF Rank
<1>3. \A i \in 1 .. 3 : all[i] \in States
  BY DEF States
<1> HIDE DEF all
<1>4. \A i \in 1 .. Rank(s) : all[i] \in States
  BY <1>2, <1>3
<1>5. Len(SubSeq(all, 1, Rank(s))) = IF 1 <= Rank(s) THEN Rank(s) - 1 + 1 ELSE 0
  BY <1>2, <1>4, SubSeqProperties
<1>6. Len(CatchUp(s)) # 0
  BY <1>1, <1>2, <1>5
<1> QED BY <1>6

(* A step that keeps the frames that have something to tell an observer,   *)
(* and what it has heard, keeps what it will know.                         *)
LEMMA StillTold ==
  ASSUME NEW id \in Nat, WillHear(id) \/ LastHeard(id) = state,
         \A i \in DOMAIN stack : Pending(stack[i]) =>
           \E j \in DOMAIN stack' : stack'[j] = stack[i],
         LastHeard(id)' = LastHeard(id), state' = state
  PROVE  WillHear(id)' \/ LastHeard(id)' = state'
<1>1. CASE WillHear(id)
  <2>1. PICK i \in DOMAIN stack :
          \/ stack[i].op = "apply" /\ stack[i].todo # <<>> /\ id \in ToCall(stack[i])
          \/ stack[i].op = "subscribe" /\ stack[i].todo # <<>> /\ stack[i].id = id
    BY <1>1 DEF WillHear
  <2>2. Pending(stack[i])
    BY <2>1 DEF Pending
  <2>3. PICK j \in DOMAIN stack' : stack'[j] = stack[i]
    BY <2>2
  <2>4. \/ /\ stack'[j].op = "apply" /\ stack'[j].todo # <<>>
           /\ id \in {stack'[j].todo[a] : a \in DOMAIN stack'[j].todo}
        \/ stack'[j].op = "subscribe" /\ stack'[j].todo # <<>> /\ stack'[j].id = id
    BY <2>1, <2>3 DEF ToCall
  <2> QED BY <2>4 DEF WillHear, ToCall
<1> QED BY <1>1

LEMMA ToldStep ==
  ASSUME TypeOK, TypeOK', NotifyInv, Flat, IdsGiven, HasLast, Told, Reentrant = FALSE,
         [Next]_vars
  PROVE  Told'
<1>0. /\ nextId \in Nat /\ state \in States
      /\ stack \in Seq(Frames) /\ Len(stack) \in Nat /\ DOMAIN stack = 1 .. Len(stack)
  BY LenProperties DEF TypeOK
<1>1. CASE Silent
  <2>1. ASSUME NEW id \in Nat, Observes(id)' PROVE WillHear(id)' \/ LastHeard(id)' = state'
    <3>1. LastHeard(id)' = LastHeard(id)
      BY <1>1 DEF Silent, LastHeard, Heard
    <3>2. WillHear(id) \/ LastHeard(id) = state
      BY <1>1, <2>1 DEF Silent, Told
    <3> QED BY <1>1, <3>1, <3>2, StillTold DEF Silent
  <2> QED BY <2>1 DEF Told
<1>2. CASE Applies
  <2>1. PICK next \in States, below \in Seq(Frames) : Apply(next, below)
    BY <1>2 DEF Applies
  <2>2. PICK f : f = ApplyFrame(next, Len(log) + 1, Snapshot(state, next))
    OBVIOUS
  <2>3. /\ Snapshot(state, next) \in Seq(Nat)
        /\ {Snapshot(state, next)[a] : a \in DOMAIN Snapshot(state, next)}
             = {observers[i] : i \in DOMAIN observers}
    BY SnapshotOrdered DEF NotifyInv
  <2>4. f \in Frames /\ f.op = "apply" /\ f.todo = Snapshot(state, next)
    <3>1. Len(log) + 1 \in Nat
      BY LenProperties DEF TypeOK
    <3> QED BY <2>2, <2>3, <3>1 DEF ApplyFrame, Frames
  <2>5. Len(below) + 1 \in DOMAIN stack' /\ stack'[Len(below) + 1] = f
    BY <2>1, <2>2, <2>4, AppendProperties, LenProperties DEF Apply
  <2>6. observers' = observers
    BY <2>1 DEF Apply
  <2>7. ASSUME NEW id \in Nat, Observes(id)' PROVE WillHear(id)'
    <3>1. id \in {observers[i] : i \in DOMAIN observers}
      BY <2>6, <2>7 DEF Observes
    <3>2. id \in {f.todo[a] : a \in DOMAIN f.todo} /\ f.todo \in Seq(Nat)
      BY <2>3, <2>4, <3>1
    <3>3. f.todo # <<>>
      BY <3>2, EmptySeq, LenProperties
    <3> QED BY <2>4, <2>5, <3>2, <3>3 DEF WillHear, ToCall
  <2> QED BY <2>7 DEF Told
<1>3. CASE Subscribe
  <2>1. PICK f : f = SubscribeFrame(nextId, CatchUp(state))
    OBVIOUS
  <2>2. /\ f \in Frames /\ f.op = "subscribe" /\ f.id = nextId /\ f.todo = CatchUp(state)
        /\ stack' = Append(stack, f) /\ UNCHANGED <<state, deliveries>>
    BY <1>0, <1>3, <2>1, CatchUpType DEF Subscribe, SubscribeFrame, Frames
  <2>3. /\ DOMAIN stack' = 1 .. Len(stack) + 1
        /\ \A k \in 1 .. Len(stack) : stack'[k] = stack[k]
        /\ stack'[Len(stack) + 1] = f
    BY <1>0, <2>2, AppendProperties, LenProperties
  <2>4. /\ observers \in Seq(Nat) /\ DOMAIN observers = 1 .. Len(observers)
        /\ Len(observers) \in Nat
    BY LenProperties DEF TypeOK
  <2>5. ASSUME NEW id \in Nat, Observes(id)' PROVE WillHear(id)' \/ LastHeard(id)' = state'
    <3>1. LastHeard(id)' = LastHeard(id)
      BY <2>2 DEF LastHeard, Heard
    <3>2. CASE Observes(id)
      <4>1. WillHear(id) \/ LastHeard(id) = state
        BY <3>2 DEF Told
      <4>2. \A i \in DOMAIN stack : i \in DOMAIN stack' /\ stack'[i] = stack[i]
        BY <1>0, <2>3
      <4> QED BY <2>2, <3>1, <4>1, <4>2, StillTold
    <3>3. CASE ~ Observes(id)
      <4>1. state # "Destroyed" /\ id = nextId
        <5>1. state # "Destroyed"
          BY <1>3, <2>5, <3>3 DEF Subscribe, Observes
        <5>2. observers' = Append(observers, nextId)
          BY <1>3, <5>1 DEF Subscribe
        <5>3. /\ DOMAIN observers' = 1 .. Len(observers) + 1
              /\ \A i \in 1 .. Len(observers) : observers'[i] = observers[i]
              /\ observers'[Len(observers) + 1] = nextId
          BY <1>0, <2>4, <5>2, AppendProperties, LenProperties
        <5>4. PICK i \in DOMAIN observers' : observers'[i] = id
          BY <2>5 DEF Observes
        <5>5. i \in DOMAIN observers \/ i = Len(observers) + 1
          BY <2>4, <5>3
        <5> QED BY <2>4, <3>3, <5>1, <5>3, <5>4, <5>5 DEF Observes
      <4>2. CASE CatchUp(state) # <<>>
        <5>1. Len(stack) + 1 \in DOMAIN stack'
          BY <1>0, <2>3
        <5> QED BY <2>2, <2>3, <4>1, <4>2, <5>1 DEF WillHear
      <4>3. CASE CatchUp(state) = <<>>
        <5>1. state = "Initialized"
          BY <1>0, <4>1, <4>3, CatchUpEmpty
        <5>2. Heard(nextId) = {}
          BY <1>0 DEF IdsGiven, Heard
        <5> QED BY <2>2, <3>1, <4>1, <5>1, <5>2 DEF LastHeard
      <4> QED BY <4>2, <4>3
    <3> QED BY <3>2, <3>3
  <2> QED BY <2>5 DEF Told
<1>4. CASE Notify
  <2>1. PICK f \in Frames : f = Top /\ f = stack[Len(stack)] /\ f.op = "apply"
                            /\ f.todo # <<>> /\ Len(stack) \in DOMAIN stack /\ stack # <<>>
    BY <1>4, TopAndBelow, LenProperties DEF Notify, On, Top, TypeOK
  <2>2. /\ f \in [op : {"apply"}, event : States, n : Nat, todo : Seq(Nat)]
        /\ f.event = state
    BY <2>1, FrameShapes DEF Flat, AppliesLatest
  <2>3. /\ Head(f.todo) \in Nat /\ Tail(f.todo) \in Seq(Nat)
        /\ 1 \in DOMAIN f.todo /\ f.todo[1] = Head(f.todo)
        /\ \A a \in DOMAIN f.todo :
             a = 1 \/ \E b \in DOMAIN Tail(f.todo) : f.todo[a] = Tail(f.todo)[b]
    BY <2>1, <2>2, HeadTail
  <2>4. PICK d, g, c : /\ d = [id |-> Head(f.todo), event |-> f.event, n |-> f.n]
                       /\ g = [f EXCEPT !.todo = Tail(@)]
                       /\ c = CallbackFrame(Head(f.todo), f.event)
    OBVIOUS
  <2>5. /\ d \in [id : Nat, event : States, n : Nat] /\ d.id = f.todo[1] /\ d.event = state
        /\ g \in Frames /\ g.op = "apply" /\ g.todo = Tail(f.todo)
        /\ c \in Frames
    BY <2>1, <2>2, <2>3, <2>4 DEF CallbackFrame, Frames
  <2>6. /\ deliveries' = Append(deliveries, d) /\ stack' = Below \o <<g, c>>
        /\ UNCHANGED <<state, observers>>
    BY <1>4, <2>1, <2>4 DEF Notify
  <2>7. /\ DOMAIN stack' = 1 .. Len(stack) + 1
        /\ \A k \in 1 .. Len(stack) - 1 : stack'[k] = stack[k]
        /\ stack'[Len(stack)] = g
    BY <2>1, <2>5, <2>6, CalledBack
  <2>8. /\ LastHeard(d.id)' = d.event
        /\ \A id \in Nat \ {d.id} : LastHeard(id)' = LastHeard(id)
    BY <2>5, <2>6, LastHeardStep
  <2>9. ASSUME NEW id \in Nat, Observes(id)' PROVE WillHear(id)' \/ LastHeard(id)' = state'
    <3>1. CASE id = d.id
      BY <2>5, <2>6, <2>8, <3>1
    <3>2. CASE id # d.id
      <4>1. LastHeard(id)' = LastHeard(id)
        BY <2>8, <3>2
      <4>2. Observes(id)
        BY <2>6, <2>9 DEF Observes
      <4>3. WillHear(id) \/ LastHeard(id) = state
        BY <4>2 DEF Told
      <4>4. CASE id \in ToCall(f)
        <5>1. PICK a \in DOMAIN f.todo : f.todo[a] = id
          BY <4>4 DEF ToCall
        <5>2. a # 1
          BY <2>5, <3>2, <5>1
        <5>3. PICK b \in DOMAIN g.todo : g.todo[b] = id
          BY <2>3, <2>5, <5>1, <5>2
        <5>4. g.todo # <<>>
          BY <2>3, <2>5, <5>3, EmptySeq, LenProperties
        <5>5. Len(stack) \in DOMAIN stack'
          BY <1>0, <2>1, <2>7
        <5>6. id \in {g.todo[i] : i \in DOMAIN g.todo}
          BY <5>3
        <5> QED BY <2>5, <2>7, <5>4, <5>5, <5>6 DEF WillHear, ToCall
      <4>5. CASE id \notin ToCall(f)
        <5>1. CASE WillHear(id)
          <6>1. PICK i \in DOMAIN stack :
                  \/ stack[i].op = "apply" /\ stack[i].todo # <<>> /\ id \in ToCall(stack[i])
                  \/ stack[i].op = "subscribe" /\ stack[i].todo # <<>> /\ stack[i].id = id
            BY <5>1 DEF WillHear
          <6>2. i # Len(stack)
            BY <2>1, <4>5, <6>1
          <6>3. i \in DOMAIN stack' /\ stack'[i] = stack[i]
            BY <1>0, <2>7, <6>2
          <6> QED BY <6>1, <6>3 DEF WillHear, ToCall
        <5>2. CASE LastHeard(id) = state
          BY <2>6, <4>1, <5>2
        <5> QED BY <4>3, <5>1, <5>2
      <4> QED BY <4>4, <4>5
    <3> QED BY <3>1, <3>2
  <2> QED BY <2>9 DEF Told
<1>5. CASE Replay
  <2>1. PICK f \in Frames : f = Top /\ f = stack[Len(stack)] /\ f.op = "subscribe"
                            /\ f.todo # <<>> /\ Len(stack) \in DOMAIN stack /\ stack # <<>>
    BY <1>5, TopAndBelow, LenProperties DEF Replay, On, Top, TypeOK
  <2>2. /\ f \in [op : {"subscribe"}, id : Nat, todo : Seq(States)]
        /\ f.todo[Len(f.todo)] = state
    BY <2>1, FrameShapes DEF Flat, ReplaysToState
  <2>3. /\ Head(f.todo) \in States /\ Tail(f.todo) \in Seq(States)
        /\ f.todo[1] = Head(f.todo)
    BY <2>1, <2>2, HeadTail
  <2>4. Tail(f.todo) = <<>> => Head(f.todo) = state
    <3>1. Len(f.todo) \in Nat \ {0} /\ Len(Tail(f.todo)) = Len(f.todo) - 1
      BY <2>1, <2>2, EmptySeq, LenProperties, HeadTailProperties
    <3>2. ASSUME Tail(f.todo) = <<>> PROVE Len(f.todo) = 1
      <4>1. Len(Tail(f.todo)) = 0
        BY <3>2, EmptySeq
      <4> QED BY <3>1, <4>1
    <3> QED BY <2>2, <2>3, <3>2
  <2>5. PICK d, g, c : /\ d = [id |-> f.id, event |-> Head(f.todo), n |-> 0]
                       /\ g = [f EXCEPT !.todo = Tail(@)]
                       /\ c = CallbackFrame(f.id, Head(f.todo))
    OBVIOUS
  <2>6. /\ d \in [id : Nat, event : States, n : Nat] /\ d.id = f.id
        /\ d.event = Head(f.todo)
        /\ g \in Frames /\ g.op = "subscribe" /\ g.id = f.id /\ g.todo = Tail(f.todo)
        /\ c \in Frames
    BY <2>1, <2>2, <2>3, <2>5 DEF CallbackFrame, Frames
  <2>7. /\ deliveries' = Append(deliveries, d) /\ stack' = Below \o <<g, c>>
        /\ UNCHANGED <<state, observers>>
    BY <1>5, <2>1, <2>5 DEF Replay
  <2>8. /\ DOMAIN stack' = 1 .. Len(stack) + 1
        /\ \A k \in 1 .. Len(stack) - 1 : stack'[k] = stack[k]
        /\ stack'[Len(stack)] = g
    BY <2>1, <2>6, <2>7, CalledBack
  <2>9. /\ LastHeard(d.id)' = d.event
        /\ \A id \in Nat \ {d.id} : LastHeard(id)' = LastHeard(id)
    BY <2>6, <2>7, LastHeardStep
  <2>10. ASSUME NEW id \in Nat, Observes(id)' PROVE WillHear(id)' \/ LastHeard(id)' = state'
    <3>1. CASE id = f.id /\ Tail(f.todo) = <<>>
      BY <2>4, <2>6, <2>7, <2>9, <3>1
    <3>2. CASE id = f.id /\ Tail(f.todo) # <<>>
      <4>1. Len(stack) \in DOMAIN stack'
        BY <1>0, <2>1, <2>8
      <4> QED BY <2>6, <2>8, <3>2, <4>1 DEF WillHear
    <3>3. CASE id # f.id
      <4>1. LastHeard(id)' = LastHeard(id)
        BY <2>6, <2>9, <3>3
      <4>2. Observes(id)
        BY <2>7, <2>10 DEF Observes
      <4>3. WillHear(id) \/ LastHeard(id) = state
        BY <4>2 DEF Told
      <4>4. CASE WillHear(id)
        <5>1. PICK i \in DOMAIN stack :
                \/ stack[i].op = "apply" /\ stack[i].todo # <<>> /\ id \in ToCall(stack[i])
                \/ stack[i].op = "subscribe" /\ stack[i].todo # <<>> /\ stack[i].id = id
          BY <4>4 DEF WillHear
        <5>2. i # Len(stack)
          BY <2>1, <3>3, <5>1
        <5>3. i \in DOMAIN stack' /\ stack'[i] = stack[i]
          BY <1>0, <2>8, <5>2
        <5> QED BY <5>1, <5>3 DEF WillHear, ToCall
      <4> QED BY <2>7, <4>1, <4>3, <4>4
    <3> QED BY <3>1, <3>2, <3>3
  <2> QED BY <2>10 DEF Told
<1> QED BY <1>1, <1>2, <1>3, <1>4, <1>5, TellKinds

LEMMA ToldInit == Init => IdsGiven /\ HasLast /\ Told
<1>1. DOMAIN <<>> = {}
  OBVIOUS
<1> QED BY <1>1 DEF Init, IdsGiven, HasLast, Told, Observes, Heard

LEMMA FlatInit == Init => Flat /\ DestroyGoesOn
<1>1. DOMAIN <<>> = {}
  OBVIOUS
<1> QED BY <1>1 DEF Init, Flat, AppliesLatest, WalksOutermost, ReplaysToState, DestroyGoesOn, On

(* What holds of a registry whose observers do not ask for transitions.    *)
FlatInv ==
  /\ TypeOK
  /\ DestroyLeavesFromCreated
  /\ NotifyInv
  /\ Flat
  /\ DestroyGoesOn
  /\ IdsGiven
  /\ HasLast
  /\ Told

LEMMA FlatRegistry ==
  ASSUME Reentrant = FALSE
  PROVE  Spec => []FlatInv
<1> DEFINE Rest == Flat /\ DestroyGoesOn /\ IdsGiven /\ HasLast /\ Told
<1>1. Init => Rest
  BY FlatInit, ToldInit
<1>2. /\ TypeOK /\ TypeOK' /\ DestroyLeavesFromCreated /\ NotifyInv /\ Rest /\ [Next]_vars
      => Rest'
  BY FlatStep, DestroyGoesOnStep, IdsGivenStep, HasLastStep, ToldStep
<1>3. TypeOK /\ DestroyLeavesFromCreated /\ NotifyInv /\ Rest => FlatInv
  BY DEF FlatInv
<1> QED BY <1>1, <1>2, <1>3, Notified, TypeCorrect, DestroyCorrect, PTL DEF Spec

(* Between two calls of the owner, every observer was last told the state  *)
(* the registry is in, whenever it subscribed, whatever it missed before   *)
(* and whoever subscribed or unsubscribed inside the notifications.        *)
(* (registry.rs 146-168, 444-466)                                          *)
EveryoneKnows ==
  stack = <<>> => \A i \in DOMAIN observers : LastHeard(observers[i]) = state

LEMMA ToldAll == TypeOK /\ Told => EveryoneKnows
<1> SUFFICES ASSUME TypeOK, Told, stack = <<>>, NEW i \in DOMAIN observers
             PROVE  LastHeard(observers[i]) = state
  BY DEF EveryoneKnows
<1>1. observers[i] \in Nat /\ Observes(observers[i])
  BY LenProperties, ElementOfSeq DEF TypeOK, Observes
<1>2. ~ WillHear(observers[i])
  BY DEF WillHear
<1> QED BY <1>1, <1>2 DEF Told

(* Everyone knows the state of a registry whose observers do not ask for   *)
(* transitions themselves: a subscriber is caught up with the states       *)
(* passed, and a notification leaves none of its snapshot out.             *)
(* (registry.rs 146-168, 444-466)                                          *)
THEOREM ObserversKnowTheState ==
  ASSUME Reentrant = FALSE
  PROVE  Spec => []EveryoneKnows
BY FlatRegistry, ToldAll, PTL DEF FlatInv

-----------------------------------------------------------------------------
(* A notification in progress is of the state its transition led to, the   *)
(* last transition led to the state, and none leads out of Destroyed.      *)
LogInv ==
  /\ log # <<>> => log[Len(log)].to = state
  /\ \A n \in DOMAIN log : log[n].to = "Destroyed" => state = "Destroyed"
  /\ \A i \in DOMAIN stack :
       stack[i].op = "apply" => stack[i].event = log[stack[i].n].to

RegistryInv ==
  TypeOK /\ DestroyLeavesFromCreated /\ NotifyInv /\ IdsGiven /\ LogInv

(* A step that calls an observer: the frame f on top becomes g, the call d *)
(* is recorded and runs above it.                                          *)
CallsOne(f, g, top, d) ==
  /\ f \in Frames /\ g \in Frames /\ g.op = f.op
  /\ top \in Nat \ {0} /\ top = Len(stack) /\ f = Top
  /\ DOMAIN stack = 1 .. top /\ stack[top] = f
  /\ DOMAIN stack' = 1 .. top + 1
  /\ \A i \in 1 .. top - 1 : stack'[i] = stack[i]
  /\ stack'[top] = g
  /\ stack'[top + 1].op = "callback" /\ stack'[top + 1].id = d.id
  /\ stack'[top + 1].event = d.event
  /\ d \in [id : Nat, event : States, n : Nat]
  /\ deliveries' = Append(deliveries, d)
  /\ UNCHANGED <<state, observers, nextId, ret, log>>

NotifyEffect(f, g, top, d) ==
  /\ CallsOne(f, g, top, d)
  /\ f.op = "apply" /\ f.n = g.n /\ f.event = g.event
  /\ d.n = f.n /\ d.event = f.event /\ d.id \in ToCall(f)

ReplayEffect(f, g, top, d) ==
  /\ CallsOne(f, g, top, d)
  /\ f.op = "subscribe" /\ g.id = f.id /\ d.id = f.id /\ d.n = 0
  /\ f.todo \in Seq(States) /\ f.todo # <<>>
  /\ d.event = Head(f.todo) /\ g.todo = Tail(f.todo)

LEMMA NotifyDoes ==
  ASSUME TypeOK, Notify
  PROVE  \E f, g, top, d : NotifyEffect(f, g, top, d)
<1>0. PICK f \in Frames, top \in Nat \ {0} :
        f = Top /\ top = Len(stack) /\ f = stack[top]
  BY TopAndBelow DEF Notify, On, Top
<1>1. /\ f.op = "apply" /\ f.todo # <<>>
      /\ f \in [op : {"apply"}, event : States, n : Nat, todo : Seq(Nat)]
  BY <1>0, FrameShapes DEF Notify, On
<1>2. /\ Tail(f.todo) \in Seq(Nat) /\ Head(f.todo) \in Nat
      /\ 1 \in DOMAIN f.todo /\ f.todo[1] = Head(f.todo)
  <2>1. f.todo \in Seq(Nat)
    BY <1>1
  <2> QED BY <1>1, <2>1, HeadTail
<1>3. PICK g, c, d : /\ g = [f EXCEPT !.todo = Tail(@)]
                     /\ c = CallbackFrame(Head(f.todo), f.event)
                     /\ d = [id |-> Head(f.todo), event |-> f.event, n |-> f.n]
  OBVIOUS
<1>4. g \in Frames /\ g.op = "apply" /\ g.n = f.n /\ g.event = f.event
  BY <1>1, <1>2, <1>3 DEF Frames
<1>5. /\ c \in Frames /\ c.op = "callback" /\ c.id = d.id /\ c.event = d.event
      /\ d \in [id : Nat, event : States, n : Nat] /\ d.n = f.n /\ d.event = f.event
  BY <1>1, <1>2, <1>3 DEF CallbackFrame, Frames
<1>6. /\ stack # <<>> /\ stack' = Below \o <<g, c>>
      /\ deliveries' = Append(deliveries, d)
      /\ UNCHANGED <<state, observers, nextId, ret, log>>
  BY <1>0, <1>3 DEF Notify, On
<1>7. /\ DOMAIN stack = 1 .. top /\ DOMAIN stack' = 1 .. top + 1
      /\ \A i \in 1 .. top - 1 : stack'[i] = stack[i]
      /\ stack'[top] = g /\ stack'[top + 1] = c
  BY <1>0, <1>4, <1>5, <1>6, CalledBack
<1>8. CallsOne(f, g, top, d)
  BY <1>0, <1>1, <1>4, <1>5, <1>6, <1>7 DEF CallsOne
<1>9. d.id \in ToCall(f)
  BY <1>2, <1>3 DEF ToCall
<1> QED BY <1>1, <1>4, <1>5, <1>8, <1>9 DEF NotifyEffect

LEMMA ReplayDoes ==
  ASSUME TypeOK, Replay
  PROVE  \E f, g, top, d : ReplayEffect(f, g, top, d)
<1>0. PICK f \in Frames, top \in Nat \ {0} :
        f = Top /\ top = Len(stack) /\ f = stack[top]
  BY TopAndBelow DEF Replay, On, Top
<1>1. /\ f.op = "subscribe" /\ f.todo # <<>>
      /\ f \in [op : {"subscribe"}, id : Nat, todo : Seq(States)]
  BY <1>0, FrameShapes DEF Replay, On
<1>2. Tail(f.todo) \in Seq(States) /\ Head(f.todo) \in States /\ f.todo \in Seq(States)
  <2>1. f.todo \in Seq(States)
    BY <1>1
  <2> QED BY <1>1, <2>1, HeadTail
<1>3. PICK g, c, d : /\ g = [f EXCEPT !.todo = Tail(@)]
                     /\ c = CallbackFrame(f.id, Head(f.todo))
                     /\ d = [id |-> f.id, event |-> Head(f.todo), n |-> 0]
  OBVIOUS
<1>4. g \in Frames /\ g.op = "subscribe" /\ g.id = f.id /\ g.todo = Tail(f.todo)
  BY <1>1, <1>2, <1>3 DEF Frames
<1>5. /\ c \in Frames /\ c.op = "callback" /\ c.id = d.id /\ c.event = d.event
      /\ d \in [id : Nat, event : States, n : Nat]
      /\ d.id = f.id /\ d.n = 0 /\ d.event = Head(f.todo)
  BY <1>1, <1>2, <1>3 DEF CallbackFrame, Frames
<1>6. /\ stack # <<>> /\ stack' = Below \o <<g, c>>
      /\ deliveries' = Append(deliveries, d)
      /\ UNCHANGED <<state, observers, nextId, ret, log>>
  BY <1>0, <1>3 DEF Replay, On
<1>7. /\ DOMAIN stack = 1 .. top /\ DOMAIN stack' = 1 .. top + 1
      /\ \A i \in 1 .. top - 1 : stack'[i] = stack[i]
      /\ stack'[top] = g /\ stack'[top + 1] = c
  BY <1>0, <1>4, <1>5, <1>6, CalledBack
<1>8. CallsOne(f, g, top, d)
  BY <1>0, <1>1, <1>4, <1>5, <1>6, <1>7 DEF CallsOne
<1> QED BY <1>1, <1>2, <1>4, <1>5, <1>8 DEF ReplayEffect

(* The registry's log stays true to the state. *)
LEMMA LogStep ==
  ASSUME TypeOK, TypeOK', DestroyLeavesFromCreated, NotifyInv, LogInv, [Next]_vars
  PROVE  LogInv'
<1>0. /\ log \in Seq([from : States, to : States, registered : SUBSET Nat])
      /\ Len(log) \in Nat /\ DOMAIN log = 1 .. Len(log)
      /\ \A i \in DOMAIN stack : stack[i].op = "apply" => stack[i].n \in DOMAIN log
  BY LenProperties DEF TypeOK, NotifyInv, FramesDue, Due
<1>1. ASSUME NEW next \in States, NEW below, Apply(next, below)
      PROVE  /\ log' # <<>> /\ state' = next /\ state # "Destroyed"
             /\ DOMAIN log' = 1 .. Len(log) + 1
             /\ Len(log') = Len(log) + 1
             /\ log'[Len(log) + 1].to = next
             /\ \A n \in DOMAIN log : log'[n] = log[n]
  <2> DEFINE t == [from |-> state, to |-> next,
                   registered |-> {observers[i] : i \in DOMAIN observers}]
  <2>1. t \in [from : States, to : States, registered : SUBSET Nat]
    BY LenProperties, ElementOfSeq DEF TypeOK
  <2>2. log' = Append(log, t) /\ state' = next /\ state # "Destroyed"
    BY <1>1 DEF Apply
  <2>3. t.to = next
    OBVIOUS
  <2> HIDE DEF t
  <2>4. /\ Len(log') = Len(log) + 1
        /\ \A n \in 1 .. Len(log) : log'[n] = log[n]
        /\ log'[Len(log) + 1] = t
        /\ DOMAIN log' = 1 .. Len(log) + 1
    BY <1>0, <2>1, <2>2, AppendProperties, LenProperties
  <2>5. log' # <<>>
    BY <1>0, <2>4
  <2> QED BY <1>0, <2>2, <2>3, <2>4, <2>5
<1>2. /\ log' # <<>> => log'[Len(log')].to = state'
      /\ \A n \in DOMAIN log' : log'[n].to = "Destroyed" => state' = "Destroyed"
  <2>1. CASE UNCHANGED <<log, state>>
    BY <2>1 DEF LogInv
  <2>2. CASE Applies
    <3>1. PICK next \in States, below \in Seq(Frames) : Apply(next, below)
      BY <2>2 DEF Applies
    <3>2. \A n \in DOMAIN log' : n \in DOMAIN log \/ n = Len(log) + 1
      BY <1>0, <1>1, <3>1
    <3> QED BY <1>1, <3>1, <3>2 DEF LogInv
  <2> QED BY <2>1, <2>2, TellKinds DEF Silent, Subscribe, Notify, Replay
<1>3. \A i \in DOMAIN stack' :
        stack'[i].op = "apply" => stack'[i].event = log'[stack'[i].n].to
  <2>1. CASE Quiet
    BY <2>1 DEF Quiet, SameApplies, LogInv
  <2>2. CASE Begins
    <3>1. PICK next \in States, below \in Seq(Frames) :
            Apply(next, below) /\ SameApplies(stack, below)
      BY <2>2 DEF Begins
    <3> DEFINE f == ApplyFrame(next, Len(log) + 1, Snapshot(state, next))
    <3>2. f \in Frames /\ f.op = "apply" /\ f.event = next /\ f.n = Len(log) + 1
      BY <1>0, SnapshotType DEF ApplyFrame, Frames, TypeOK
    <3>3. stack' = Append(below, f)
      BY <3>1 DEF Apply
    <3> HIDE DEF f
    <3>4. /\ DOMAIN stack' = 1 .. Len(below) + 1
          /\ DOMAIN below = 1 .. Len(below) /\ Len(below) \in Nat
          /\ \A i \in 1 .. Len(below) : stack'[i] = below[i]
          /\ stack'[Len(below) + 1] = f
      BY <3>2, <3>3, AppendProperties, LenProperties
    <3>5. ASSUME NEW i \in DOMAIN below, below[i].op = "apply"
          PROVE  below[i].event = log'[below[i].n].to
      <4>1. i \in DOMAIN stack /\ stack[i] = below[i]
        BY <3>1, <3>5 DEF SameApplies
      <4> QED BY <1>0, <1>1, <3>1, <3>5, <4>1 DEF LogInv
    <3>6. f.event = log'[f.n].to
      BY <1>1, <3>1, <3>2
    <3> QED BY <3>4, <3>5, <3>6
  <2>3. CASE Notify \/ Replay
    <3>1. PICK f, g, top, d :
            /\ CallsOne(f, g, top, d)
            /\ f.op = "apply" => f.n = g.n /\ f.event = g.event
      BY <2>3, NotifyDoes, ReplayDoes DEF NotifyEffect, ReplayEffect
    <3>2. ASSUME NEW i \in 1 .. top - 1, stack[i].op = "apply"
          PROVE  stack[i].event = log'[stack[i].n].to
      <4>1. i \in DOMAIN stack
        BY <3>1 DEF CallsOne
      <4> QED BY <3>1, <3>2, <4>1 DEF LogInv, CallsOne
    <3>3. f.op = "apply" => g.event = log'[g.n].to
      <4>1. top \in DOMAIN stack /\ stack[top] = f
        BY <3>1 DEF CallsOne
      <4> QED BY <3>1, <4>1 DEF LogInv, CallsOne
    <3>4. /\ DOMAIN stack' = 1 .. top + 1 /\ top \in Nat \ {0}
          /\ \A i \in 1 .. top - 1 : stack'[i] = stack[i]
          /\ stack'[top] = g /\ g.op = f.op /\ stack'[top + 1].op = "callback"
      BY <3>1 DEF CallsOne
    <3>5. \A i \in DOMAIN stack' : i \in 1 .. top - 1 \/ i = top \/ i = top + 1
      BY <3>4
    <3> QED BY <3>2, <3>3, <3>4, <3>5
  <2>4. CASE ApplyDone
    <3>1. /\ stack' = Below /\ log' = log /\ stack # <<>>
      BY <2>4 DEF ApplyDone, On, Return
    <3>2. \A i \in DOMAIN stack' : i \in DOMAIN stack /\ stack'[i] = stack[i]
      <4>1. /\ Below \in Seq(Frames) /\ Len(Below) = Len(stack) - 1
            /\ \A i \in 1 .. Len(stack) - 1 : Below[i] = stack[i]
            /\ Len(stack) \in Nat \ {0}
        BY <3>1, TopAndBelow
      <4>2. DOMAIN stack = 1 .. Len(stack) /\ DOMAIN Below = 1 .. Len(stack) - 1
        BY <4>1, LenProperties DEF TypeOK
      <4> QED BY <3>1, <4>1, <4>2
    <3> QED BY <3>1, <3>2 DEF LogInv
  <2> QED BY <2>1, <2>2, <2>3, <2>4, StepKinds
<1> QED BY <1>2, <1>3 DEF LogInv

LEMMA RegistryStep ==
  ASSUME RegistryInv, [Next]_vars
  PROVE  RegistryInv'
<1>1. TypeOK'
  BY TypeStep DEF RegistryInv
<1>2. DestroyLeavesFromCreated'
  BY <1>1, WalkStep DEF RegistryInv, WalkInv
<1>3. NotifyInv'
  BY <1>1, NotifyInvStep DEF RegistryInv
<1>4. IdsGiven'
  BY <1>1, IdsGivenStep DEF RegistryInv
<1>5. LogInv'
  BY <1>1, LogStep DEF RegistryInv
<1> QED BY <1>1, <1>2, <1>3, <1>4, <1>5 DEF RegistryInv

LEMMA LogGrowsStep ==
  ASSUME TypeOK, [Next]_vars
  PROVE  LogGrows
<1>1. CASE UNCHANGED log
  BY <1>1 DEF LogGrows
<1>2. CASE Applies
  <2>1. PICK t : log' = Append(log, t)
    BY <1>2 DEF Applies, Apply
  <2>2. \A n \in 1 .. Len(log) : n \in 1 .. Len(log) + 1 /\ log'[n] = log[n]
    BY <2>1, LenProperties DEF TypeOK
  <2>3. DOMAIN log' = 1 .. Len(log) + 1
    BY <2>1 DEF TypeOK
  <2> QED BY <2>2, <2>3, LenProperties DEF LogGrows, TypeOK
<1> QED BY <1>1, <1>2, TellKinds DEF Silent, Subscribe, Notify, Replay

(* Dropping another observer leaves this one. *)
LEMMA WithoutKeeps ==
  ASSUME observers \in Seq(Nat), NEW id, observers' = Without(id), NEW x, x # id,
         Observes(x)
  PROVE  Observes(x)'
<1>0. Len(observers) \in Nat /\ DOMAIN observers = 1 .. Len(observers)
  BY LenProperties
<1>1. CASE Without(id) = observers
  BY <1>1 DEF Observes
<1>2. ASSUME NEW at \in 1 .. Len(observers),
             observers[at] = id,
             Len(Without(id)) = Len(observers) - 1,
             Without(id) \in Seq(Nat),
             \A i \in 1 .. Len(observers) - 1 :
               Without(id)[i] = IF i < at THEN observers[i] ELSE observers[i + 1]
      PROVE  Observes(x)'
  <2>1. DOMAIN observers' = 1 .. Len(observers) - 1
    BY <1>2, LenProperties
  <2>2. PICK i \in 1 .. Len(observers) : observers[i] = x
    BY <1>0 DEF Observes
  <2>3. i # at
    BY <1>2, <2>2
  <2>4. CASE i < at
    <3>1. i \in 1 .. Len(observers) - 1
      BY <1>0, <2>4
    <3>2. observers'[i] = x
      BY <1>2, <2>2, <2>4, <3>1
    <3> QED BY <2>1, <3>1, <3>2 DEF Observes
  <2>5. CASE i > at
    <3>1. i - 1 \in 1 .. Len(observers) - 1 /\ ~ (i - 1 < at) /\ (i - 1) + 1 = i
      BY <1>0, <2>5
    <3>2. observers'[i - 1] = x
      BY <1>2, <2>2, <3>1
    <3> QED BY <2>1, <3>1, <3>2 DEF Observes
  <2> QED BY <1>0, <2>3, <2>4, <2>5
<1> QED BY <1>1, <1>2, WithoutElements

LEMMA AppendKeeps ==
  ASSUME observers \in Seq(Nat), NEW id \in Nat, observers' = Append(observers, id)
  PROVE  Observes(id)' /\ \A x : Observes(x) => Observes(x)'
<1>1. /\ Len(observers) \in Nat /\ DOMAIN observers = 1 .. Len(observers)
      /\ Append(observers, id) \in Seq(Nat)
      /\ Len(Append(observers, id)) = Len(observers) + 1
      /\ \A i \in 1 .. Len(observers) : Append(observers, id)[i] = observers[i]
      /\ Append(observers, id)[Len(observers) + 1] = id
  BY AppendProperties, LenProperties
<1>2. DOMAIN observers' = 1 .. Len(observers) + 1
  BY <1>1, LenProperties
<1>3. \A i \in 1 .. Len(observers) : i \in 1 .. Len(observers) + 1
  BY <1>1
<1>4. Len(observers) + 1 \in 1 .. Len(observers) + 1
  BY <1>1
<1> QED BY <1>1, <1>2, <1>3, <1>4 DEF Observes

(* Nothing but a notification or a replay calls an observer. *)
LEMMA NobodyCalled ==
  ASSUME TypeOK, [Next]_vars, UNCHANGED deliveries
  PROVE  Silent \/ Applies \/ Subscribe
<1>1. ASSUME NEW f, NEW g, NEW top, NEW d, CallsOne(f, g, top, d) PROVE FALSE
  <2>1. Len(deliveries') = Len(deliveries) + 1 /\ Len(deliveries) \in Nat
    BY <1>1, AppendProperties, LenProperties DEF CallsOne, TypeOK
  <2> QED BY <2>1
<1>2. ~ Notify /\ ~ Replay
  BY <1>1, NotifyDoes, ReplayDoes DEF NotifyEffect, ReplayEffect
<1> QED BY <1>2, TellKinds

=============================================================================
