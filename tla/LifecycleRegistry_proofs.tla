----------------------- MODULE LifecycleRegistry_proofs ---------------------
(***************************************************************************)
(* Proofs about LifecycleRegistry for every bound, reentrant or not.       *)
(***************************************************************************)
EXTENDS LifecycleRegistry, SequenceTheorems, WellFoundedInduction, TLAPS

(* What popping the stack leaves. *)
LEMMA Popped ==
  ASSUME NEW S, NEW s \in Seq(S), s # <<>>
  PROVE  /\ SubSeq(s, 1, Len(s) - 1) \in Seq(S)
         /\ Len(SubSeq(s, 1, Len(s) - 1)) = Len(s) - 1
         /\ \A i \in 1 .. Len(s) - 1 : SubSeq(s, 1, Len(s) - 1)[i] = s[i]
         /\ Len(s) \in Nat \ {0}
         /\ s[Len(s)] \in S
<1>1. Len(s) \in Nat \ {0}
  BY EmptySeq, LenProperties
<1>2. \A i \in 1 .. Len(s) - 1 : s[i] \in S
  BY <1>1, ElementOfSeq
<1>3. s[Len(s)] \in S
  BY <1>1, ElementOfSeq
<1>4. \A i \in 1 .. Len(s) - 1 : 1 + i - 1 = i
  BY <1>1
<1>5. /\ SubSeq(s, 1, Len(s) - 1) \in Seq(S)
      /\ Len(SubSeq(s, 1, Len(s) - 1)) =
           IF 1 <= Len(s) - 1 THEN (Len(s) - 1) - 1 + 1 ELSE 0
      /\ \A i \in 1 .. (Len(s) - 1) - 1 + 1 :
           SubSeq(s, 1, Len(s) - 1)[i] = s[1 + i - 1]
  BY <1>1, <1>2, SubSeqProperties
<1>6. (Len(s) - 1) - 1 + 1 = Len(s) - 1
  BY <1>1
<1> QED
  BY <1>1, <1>3, <1>4, <1>5, <1>6

(* What pushing two frames leaves. *)
LEMMA PushedTwo ==
  ASSUME NEW S, NEW s \in Seq(S), NEW f \in S, NEW g \in S
  PROVE  /\ s \o <<f, g>> \in Seq(S)
         /\ Len(s \o <<f, g>>) = Len(s) + 2
         /\ \A i \in 1 .. Len(s) : (s \o <<f, g>>)[i] = s[i]
         /\ (s \o <<f, g>>)[Len(s) + 1] = f
         /\ (s \o <<f, g>>)[Len(s) + 2] = g
         /\ s \o <<f, g>> # <<>>
<1>1. <<f, g>> \in Seq(S) /\ Len(<<f, g>>) = 2
  OBVIOUS
<1>2. Len(s) \in Nat
  BY LenProperties
<1>3. /\ s \o <<f, g>> \in Seq(S)
      /\ Len(s \o <<f, g>>) = Len(s) + 2
      /\ \A i \in 1 .. Len(s) + 2 : (s \o <<f, g>>)[i] =
                     IF i <= Len(s) THEN s[i] ELSE <<f, g>>[i - Len(s)]
  BY <1>1, ConcatProperties
<1>4. (s \o <<f, g>>)[Len(s) + 1] = f /\ (s \o <<f, g>>)[Len(s) + 2] = g
  BY <1>2, <1>3
<1>5. s \o <<f, g>> # <<>>
  BY <1>2, <1>3, EmptySeq
<1> QED
  BY <1>2, <1>3, <1>4, <1>5

(* Dropping an observer leaves a sequence of ids, and none of no one. *)
LEMMA WithoutType ==
  ASSUME observers \in Seq(Nat), NEW id
  PROVE  /\ Without(id) \in Seq(Nat)
         /\ observers = <<>> => Without(id) = <<>>
<1>1. DOMAIN observers = 1 .. Len(observers) /\ Len(observers) \in Nat
  BY LenProperties
<1>2. CASE \E i \in DOMAIN observers : observers[i] = id
  <2> DEFINE at == CHOOSE i \in DOMAIN observers : observers[i] = id
  <2>1. at \in 1 .. Len(observers)
    BY <1>1, <1>2
  <2>2. Without(id) = SubSeq(observers, 1, at - 1)
                        \o SubSeq(observers, at + 1, Len(observers))
    BY <1>2 DEF Without
  <2> HIDE DEF at
  <2>3. SubSeq(observers, 1, at - 1) \in Seq(Nat)
    BY <1>1, <2>1, ElementOfSeq, SubSeqProperties
  <2>4. SubSeq(observers, at + 1, Len(observers)) \in Seq(Nat)
    BY <1>1, <2>1, ElementOfSeq, SubSeqProperties
  <2>5. observers # <<>>
    BY <1>1, <2>1
  <2> QED
    BY <2>2, <2>3, <2>4, <2>5, ConcatProperties
<1>3. CASE ~ \E i \in DOMAIN observers : observers[i] = id
  BY <1>3 DEF Without
<1> QED
  BY <1>2, <1>3

(* A snapshot is a sequence of ids, whichever way it is ordered. *)
LEMMA SnapshotType ==
  ASSUME observers \in Seq(Nat), NEW from, NEW next
  PROVE  Snapshot(from, next) \in Seq(Nat)
<1>1. [i \in 1 .. Len(observers) |-> observers[Len(observers) + 1 - i]] \in Seq(Nat)
  OBVIOUS
<1> QED
  BY <1>1 DEF Snapshot

-----------------------------------------------------------------------------
(* The shapes a frame has, by the call it stands for. *)
LEMMA FrameShapes ==
  ASSUME NEW f \in Frames
  PROVE  /\ f.op = "apply" =>
              f \in [op : {"apply"}, event : States, n : Nat, todo : Seq(Nat)]
         /\ f.op = "move_to" =>
              f \in [op : {"move_to"}, target : {"Created", "Started", "Resumed"}]
         /\ f.op = "subscribe" =>
              f \in [op : {"subscribe"}, id : Nat, todo : Seq(States)]
         /\ f.op = "callback" =>
              f \in [op : {"callback"}, id : Nat, event : States]
  BY DEF Frames

(* Where a round of move_to goes: one rank nearer to its target, and never *)
(* to Initialized or Destroyed.                                            *)
LEMMA TowardsAdjacent ==
  ASSUME NEW target \in {"Created", "Started", "Resumed"},
         state \in States, state \notin {target, "Destroyed"}
  PROVE  /\ Towards(target) \in {"Created", "Started", "Resumed"}
         /\ \/ state = "Initialized" /\ Towards(target) = "Created"
            \/ state = "Created" /\ Towards(target) = "Started"
            \/ state = "Started" /\ Towards(target) = "Resumed"
            \/ state = "Resumed" /\ Towards(target) = "Started"
            \/ state = "Started" /\ Towards(target) = "Created"
<1>1. \A s \in States : Rank(s) = IF s = "Initialized" THEN 0
                                 ELSE IF s = "Created" THEN 1
                                 ELSE IF s = "Started" THEN 2
                                 ELSE IF s = "Resumed" THEN 3 ELSE 4
  BY DEF States, Rank
<1>2. FromRank(1) = "Created" /\ FromRank(2) = "Started" /\ FromRank(3) = "Resumed"
  BY DEF FromRank
<1> QED
  BY <1>1, <1>2 DEF Towards, States

(* apply keeps the types. *)
LEMMA ApplyType ==
  ASSUME TypeOK, NEW next \in States, NEW below \in Seq(Frames),
         Apply(next, below)
  PROVE  TypeOK'
<1> USE DEF TypeOK, Apply
<1>1. Snapshot(state, next) \in Seq(Nat)
  BY SnapshotType
<1>2. Len(log) + 1 \in Nat
  OBVIOUS
<1>3. ApplyFrame(next, Len(log) + 1, Snapshot(state, next)) \in Frames
  BY <1>1, <1>2 DEF ApplyFrame, Frames
<1>4. stack' \in Seq(Frames)
  BY <1>3, AppendProperties
<1>5. [from |-> state, to |-> next,
       registered |-> {observers[i] : i \in DOMAIN observers}]
         \in [from : States, to : States, registered : SUBSET Nat]
  BY LenProperties, ElementOfSeq
<1>6. log' \in Seq([from : States, to : States, registered : SUBSET Nat])
  BY <1>5, AppendProperties
<1> QED
  BY <1>4, <1>6

(* The stack below and the frame on top of it. *)
LEMMA TopAndBelow ==
  ASSUME TypeOK, stack # <<>>
  PROVE  /\ Top \in Frames
         /\ Below \in Seq(Frames)
         /\ Len(Below) = Len(stack) - 1
         /\ \A i \in 1 .. Len(stack) - 1 : Below[i] = stack[i]
         /\ Len(stack) \in Nat \ {0}
  BY Popped DEF TypeOK, Top, Below

(* Returning to the frame below keeps the types. *)
LEMMA ReturnType ==
  ASSUME TypeOK, NEW r \in Results, Return(r), stack # <<>>,
         observers' \in Seq(Nat)
  PROVE  TypeOK'
  BY TopAndBelow DEF TypeOK, Return

(* A call answered at once keeps the types. *)
LEMMA AnswerType ==
  ASSUME TypeOK, NEW r \in Results, Answer(r)
  PROVE  TypeOK'
  BY DEF TypeOK, Answer

(* destroy's walk is pushed with frames of its own. *)
LEMMA BeginDestroyType ==
  ASSUME TypeOK, BeginDestroy
  PROVE  TypeOK'
<1>1. CASE state = "Initialized" /\ Apply("Destroyed", stack)
  BY <1>1, ApplyType DEF TypeOK, States
<1>2. CASE /\ stack' = stack \o << DestroyFrame, MoveToFrame("Created") >>
           /\ UNCHANGED <<state, observers, nextId, ret, log, deliveries>>
  <2>1. DestroyFrame \in Frames /\ MoveToFrame("Created") \in Frames
    BY DEF DestroyFrame, MoveToFrame, Frames
  <2>2. stack' \in Seq(Frames)
    BY <1>2, <2>1, PushedTwo DEF TypeOK
  <2> QED
    BY <1>2, <2>2 DEF TypeOK
<1> QED
  BY <1>1, <1>2 DEF BeginDestroy

(* The states replayed to a new observer. *)
LEMMA CatchUpType ==
  ASSUME NEW s \in States
  PROVE  CatchUp(s) \in Seq(States)
<1>1. Rank(s) \in 0 .. 3 \/ s = "Destroyed"
  BY DEF Rank, States
<1>2. \A i \in 1 .. 3 : <<"Created", "Started", "Resumed">>[i] \in States
  BY DEF States
<1>3. CASE s = "Destroyed"
  BY <1>3, EmptySeq DEF CatchUp
<1>4. CASE s # "Destroyed"
  <2>1. CatchUp(s) = SubSeq(<<"Created", "Started", "Resumed">>, 1, Rank(s))
    BY <1>4 DEF CatchUp
  <2>2. Rank(s) \in 0 .. 3
    BY <1>1, <1>4
  <2>3. \A i \in 1 .. Rank(s) : <<"Created", "Started", "Resumed">>[i] \in States
    BY <1>2, <2>2
  <2> QED
    BY <2>1, <2>2, <2>3, SubSeqProperties
<1> QED
  BY <1>3, <1>4

(* Frames are put on the stack well formed, and move_to only ever walks    *)
(* towards Created, Started or Resumed.                                    *)
LEMMA TypeStep ==
  ASSUME TypeOK, [Next]_vars
  PROVE  TypeOK'
<1> USE DEF Results
<1>1. CASE StrictStep
  <2> SUFFICES ASSUME NEW from \in States, NEW to \in States, Step(from, to)
               PROVE  TypeOK'
    BY <1>1 DEF StrictStep, States
  <2> QED
    BY AnswerType, ApplyType DEF Step, TypeOK
<1>2. CASE Destroy
  BY <1>2, AnswerType, BeginDestroyType DEF Destroy
<1>3. CASE \E target \in States : MoveTo(target)
  <2>1. PICK target \in States : MoveTo(target)
    BY <1>3
  <2>2. CASE /\ target \notin {state, "Initialized", "Destroyed"}
             /\ stack' = Append(stack, MoveToFrame(target))
             /\ UNCHANGED <<state, observers, nextId, ret, log, deliveries>>
    <3>1. MoveToFrame(target) \in Frames
      BY <2>2 DEF MoveToFrame, Frames, States
    <3> QED
      BY <2>2, <3>1, AppendProperties DEF TypeOK
  <2> QED
    BY <2>1, <2>2, AnswerType, BeginDestroyType DEF MoveTo
<1>4. CASE Subscribe
  <2>1. SubscribeFrame(nextId, CatchUp(state)) \in Frames
    BY CatchUpType DEF SubscribeFrame, Frames, TypeOK
  <2>2. stack' \in Seq(Frames)
    BY <1>4, <2>1, AppendProperties DEF Subscribe, TypeOK
  <2>3. observers' \in Seq(Nat)
    BY <1>4, AppendProperties DEF Subscribe, TypeOK
  <2> QED
    BY <1>4, <2>2, <2>3 DEF Subscribe, TypeOK
<1>5. CASE \E id \in 0 .. nextId - 1 : Unsubscribe(id)
  BY <1>5, WithoutType DEF Unsubscribe, TypeOK
<1>6. CASE Notify
  <2>1. Top \in [op : {"apply"}, event : States, n : Nat, todo : Seq(Nat)]
    BY <1>6, TopAndBelow, FrameShapes DEF Notify, On
  <2>2. Head(Top.todo) \in Nat /\ Tail(Top.todo) \in Seq(Nat)
    BY <1>6, <2>1, HeadTailProperties DEF Notify
  <2>3. [Top EXCEPT !.todo = Tail(@)] \in Frames
    BY <2>1, <2>2 DEF Frames
  <2>4. CallbackFrame(Head(Top.todo), Top.event) \in Frames
    BY <2>1, <2>2 DEF CallbackFrame, Frames
  <2>5. stack' \in Seq(Frames)
    BY <1>6, <2>3, <2>4, TopAndBelow, PushedTwo DEF Notify, On
  <2>6. [id |-> Head(Top.todo), event |-> Top.event, n |-> Top.n]
          \in [id : Nat, event : States, n : Nat]
    BY <2>1, <2>2
  <2>7. deliveries' \in Seq([id : Nat, event : States, n : Nat])
    BY <1>6, <2>6, AppendProperties DEF Notify, TypeOK
  <2> QED
    BY <1>6, <2>5, <2>7 DEF Notify, TypeOK
<1>7. CASE ApplyDone
  <2>1. observers' \in Seq(Nat)
    BY <1>7, EmptySeq DEF ApplyDone, TypeOK
  <2> QED
    BY <1>7, <2>1, ReturnType DEF ApplyDone, On
<1>8. CASE FinishDestroy
  <2>1. CASE Return(ret) /\ UNCHANGED observers
    BY <1>8, <2>1, ReturnType DEF FinishDestroy, On, TypeOK
  <2>2. CASE Apply("Destroyed", Below)
    BY <1>8, <2>2, TopAndBelow, ApplyType DEF FinishDestroy, On, States
  <2> QED
    BY <1>8, <2>1, <2>2 DEF FinishDestroy
<1>9. CASE MoveToRound
  <2>1. Top.target \in {"Created", "Started", "Resumed"}
    BY <1>9, TopAndBelow, FrameShapes DEF MoveToRound, On
  <2>2. CASE /\ state \notin {Top.target, "Destroyed"}
             /\ Apply(Towards(Top.target), stack)
    <3>1. Towards(Top.target) \in States
      BY <2>1, <2>2, TowardsAdjacent DEF TypeOK, States
    <3> QED
      BY <2>2, <3>1, ApplyType DEF TypeOK
  <2> QED
    BY <1>9, <2>2, ReturnType DEF MoveToRound, On, TypeOK
<1>10. CASE Replay
  <2>1. Top \in [op : {"subscribe"}, id : Nat, todo : Seq(States)]
    BY <1>10, TopAndBelow, FrameShapes DEF Replay, On
  <2>2. Head(Top.todo) \in States /\ Tail(Top.todo) \in Seq(States)
    BY <1>10, <2>1, HeadTailProperties DEF Replay
  <2>3. [Top EXCEPT !.todo = Tail(@)] \in Frames
    BY <2>1, <2>2 DEF Frames
  <2>4. CallbackFrame(Top.id, Head(Top.todo)) \in Frames
    BY <2>1, <2>2 DEF CallbackFrame, Frames
  <2>5. stack' \in Seq(Frames)
    BY <1>10, <2>3, <2>4, TopAndBelow, PushedTwo DEF Replay, On
  <2>6. [id |-> Top.id, event |-> Head(Top.todo), n |-> 0]
          \in [id : Nat, event : States, n : Nat]
    BY <2>1, <2>2
  <2>7. deliveries' \in Seq([id : Nat, event : States, n : Nat])
    BY <1>10, <2>6, AppendProperties DEF Replay, TypeOK
  <2> QED
    BY <1>10, <2>5, <2>7 DEF Replay, TypeOK
<1>11. CASE SubscribeDone
  BY <1>11, ReturnType DEF SubscribeDone, On, TypeOK
<1>12. CASE CallbackReturn
  BY <1>12, ReturnType DEF CallbackReturn, On, TypeOK
<1>13. CASE UNCHANGED vars
  BY <1>13 DEF vars, TypeOK
<1> QED
  BY <1>1, <1>2, <1>3, <1>4, <1>5, <1>6, <1>7, <1>8, <1>9, <1>10, <1>11,
     <1>12, <1>13 DEF Next, Call, Components, Run

(* Every variable keeps its type: frames on the stack are well formed and  *)
(* move_to only ever walks towards Created, Started or Resumed.            *)
THEOREM TypeCorrect == Spec => []TypeOK
<1>1. Init => TypeOK
  BY EmptySeq DEF Init, TypeOK, States, Results
<1>2. TypeOK /\ [Next]_vars => TypeOK'
  BY TypeStep
<1> QED
  BY <1>1, <1>2, PTL DEF Spec

-----------------------------------------------------------------------------
(* The inductive invariant of the state walk: with the types, where a      *)
(* destroy stands on the stack.                                            *)
WalkInv == TypeOK /\ DestroyLeavesFromCreated

(* Pushing an apply frame on a stack whose top is no destroy, or replacing *)
(* a destroy by it, keeps every waiting destroy under its move_to.         *)
LEMMA ApplyKeepsWalk ==
  ASSUME WalkInv, NEW next \in States, NEW below \in Seq(Frames),
         Apply(next, below),
         \/ below = stack /\ ~ On("destroy")
         \/ below = Below /\ On("destroy")
  PROVE  DestroyLeavesFromCreated'
<1> DEFINE f == ApplyFrame(next, Len(log) + 1, Snapshot(state, next))
<1>1. f.op = "apply" /\ f \in Frames
  BY SnapshotType DEF ApplyFrame, Frames, WalkInv, TypeOK
<1> HIDE DEF f
<1>2. /\ stack' = Append(below, f)
      /\ Len(stack') = Len(below) + 1
      /\ \A i \in 1 .. Len(below) : stack'[i] = below[i]
      /\ stack'[Len(below) + 1] = f
  BY <1>1, AppendProperties DEF Apply, f
<1>3. ~ On("destroy")'
  BY <1>1, <1>2 DEF On, Top
<1>4. Len(below) \in Nat
  BY LenProperties
<1>5. ASSUME NEW i \in 1 .. Len(stack') - 1, stack'[i].op = "destroy"
      PROVE  stack'[i + 1] = MoveToFrame("Created")
  <2>1. i \in 1 .. Len(below) /\ below[i].op = "destroy"
    BY <1>2, <1>4, <1>5
  <2>2. CASE below = stack /\ ~ On("destroy")
    <3>1. stack # <<>> /\ i # Len(stack)
      BY <2>1, <2>2, EmptySeq DEF On, Top
    <3>2. i \in 1 .. Len(stack) - 1 /\ i + 1 \in 1 .. Len(stack)
      BY <2>1, <2>2, <3>1, <1>4
    <3>3. stack[i + 1] = MoveToFrame("Created")
      BY <2>1, <2>2, <3>2 DEF WalkInv, DestroyLeavesFromCreated
    <3> QED
      BY <1>2, <2>2, <3>2, <3>3
  <2>3. CASE below = Below /\ On("destroy")
    <3>1. /\ Len(stack) \in Nat \ {0}
          /\ Len(below) = Len(stack) - 1
          /\ \A j \in 1 .. Len(stack) - 1 : below[j] = stack[j]
      BY <2>3, TopAndBelow DEF On, WalkInv
    <3>2. i \in 1 .. Len(stack) - 1 /\ stack[i].op = "destroy"
      BY <2>1, <3>1
    <3>3. stack[i + 1] = MoveToFrame("Created")
      BY <3>2 DEF WalkInv, DestroyLeavesFromCreated
    <3>4. CASE i + 1 = Len(stack)
      BY <2>3, <3>3, <3>4 DEF On, Top, MoveToFrame
    <3>5. CASE i + 1 # Len(stack)
      <4>1. i + 1 \in 1 .. Len(stack) - 1 /\ i + 1 \in 1 .. Len(below)
        BY <3>1, <3>2, <3>5
      <4> QED
        BY <1>2, <3>1, <3>3, <4>1
    <3> QED
      BY <3>4, <3>5
  <2> QED
    BY <2>2, <2>3
<1> QED
  BY <1>3, <1>5 DEF DestroyLeavesFromCreated

(* Returning from a frame that is not the move_to of a destroy, or from    *)
(* the move_to of a destroy with Ok in Created.                            *)
LEMMA ReturnKeepsWalk ==
  ASSUME WalkInv, stack # <<>>, NEW r, Return(r),
         r = "Ok" /\ Top = MoveToFrame("Created") => state = "Created"
  PROVE  DestroyLeavesFromCreated'
<1>1. /\ Below \in Seq(Frames)
      /\ Len(Below) = Len(stack) - 1
      /\ \A i \in 1 .. Len(stack) - 1 : Below[i] = stack[i]
      /\ Len(stack) \in Nat \ {0}
  BY TopAndBelow DEF WalkInv
<1>2. stack' = Below /\ ret' = r /\ state' = state
  BY DEF Return
<1>3. ASSUME NEW i \in 1 .. Len(stack') - 1, stack'[i].op = "destroy"
      PROVE  stack'[i + 1] = MoveToFrame("Created")
  <2>1. i \in 1 .. Len(stack) - 1 /\ i + 1 \in 1 .. Len(stack) - 1
    BY <1>1, <1>2
  <2> QED
    BY <1>1, <1>2, <1>3, <2>1 DEF WalkInv, DestroyLeavesFromCreated
<1>4. ASSUME On("destroy")', ret' = "Ok"
      PROVE  state' = "Created"
  <2>1. stack' # <<>> /\ stack'[Len(stack')].op = "destroy"
    BY <1>4 DEF On, Top
  <2>2. Len(Below) \in Nat \ {0}
    BY <1>1, <1>2, <2>1, EmptySeq
  <2>3. Len(stack) - 1 \in 1 .. Len(stack) - 1
    BY <1>1, <2>2
  <2>4. stack[Len(stack) - 1].op = "destroy"
    BY <1>1, <1>2, <2>1, <2>3
  <2>5. stack[Len(stack) - 1 + 1] = MoveToFrame("Created")
    BY <2>3, <2>4 DEF WalkInv, DestroyLeavesFromCreated
  <2>6. Top = MoveToFrame("Created")
    BY <1>1, <2>5 DEF Top
  <2> QED
    BY <1>2, <1>4, <2>6
<1> QED
  BY <1>3, <1>4 DEF DestroyLeavesFromCreated

(* Pushing a frame that is no destroy on a stack whose top is none.        *)
LEMMA PushKeepsWalk ==
  ASSUME WalkInv, ~ On("destroy"), NEW f \in Frames, f.op # "destroy",
         stack' = Append(stack, f)
  PROVE  DestroyLeavesFromCreated'
<1>1. /\ Len(stack) \in Nat
      /\ Len(stack') = Len(stack) + 1
      /\ \A i \in 1 .. Len(stack) : stack'[i] = stack[i]
      /\ stack'[Len(stack) + 1] = f
  BY AppendProperties, LenProperties DEF WalkInv, TypeOK
<1>2. ~ On("destroy")'
  BY <1>1 DEF On, Top
<1>3. ASSUME NEW i \in 1 .. Len(stack') - 1, stack'[i].op = "destroy"
      PROVE  stack'[i + 1] = MoveToFrame("Created")
  <2>1. i \in 1 .. Len(stack) /\ stack[i].op = "destroy"
    BY <1>1, <1>3
  <2>2. i # Len(stack)
    BY <1>1, <2>1, EmptySeq DEF On, Top
  <2>3. i \in 1 .. Len(stack) - 1 /\ i + 1 \in 1 .. Len(stack)
    BY <1>1, <2>1, <2>2
  <2> QED
    BY <1>1, <2>1, <2>3 DEF WalkInv, DestroyLeavesFromCreated
<1> QED
  BY <1>2, <1>3 DEF DestroyLeavesFromCreated

(* Pushing a destroy with its move_to on a stack whose top is no destroy.  *)
LEMMA BeginDestroyKeepsWalk ==
  ASSUME WalkInv, ~ On("destroy"), BeginDestroy
  PROVE  DestroyLeavesFromCreated'
<1>1. CASE state = "Initialized" /\ Apply("Destroyed", stack)
  BY <1>1, ApplyKeepsWalk DEF WalkInv, TypeOK, States
<1>2. CASE stack' = stack \o << DestroyFrame, MoveToFrame("Created") >>
  <2>1. DestroyFrame \in Frames /\ MoveToFrame("Created") \in Frames
    BY DEF DestroyFrame, MoveToFrame, Frames
  <2>2. /\ Len(stack) \in Nat
        /\ Len(stack') = Len(stack) + 2
        /\ \A i \in 1 .. Len(stack) : stack'[i] = stack[i]
        /\ stack'[Len(stack) + 1] = DestroyFrame
        /\ stack'[Len(stack) + 2] = MoveToFrame("Created")
    BY <1>2, <2>1, PushedTwo, LenProperties DEF WalkInv, TypeOK
  <2>3. ~ On("destroy")'
    BY <2>2 DEF On, Top, MoveToFrame
  <2>4. ASSUME NEW i \in 1 .. Len(stack') - 1, stack'[i].op = "destroy"
        PROVE  stack'[i + 1] = MoveToFrame("Created")
    <3>1. CASE i = Len(stack) + 1
      BY <2>2, <3>1
    <3>2. CASE i # Len(stack) + 1
      <4>1. i \in 1 .. Len(stack) /\ stack[i].op = "destroy"
        BY <2>2, <2>4, <3>2
      <4>2. i # Len(stack)
        BY <2>2, <4>1, EmptySeq DEF On, Top
      <4>3. i \in 1 .. Len(stack) - 1 /\ i + 1 \in 1 .. Len(stack)
        BY <2>2, <4>1, <4>2
      <4> QED
        BY <2>2, <4>1, <4>3 DEF WalkInv, DestroyLeavesFromCreated
    <3> QED
      BY <3>1, <3>2
  <2> QED
    BY <2>3, <2>4 DEF DestroyLeavesFromCreated
<1> QED
  BY <1>1, <1>2 DEF BeginDestroy

(* Calling an observer from a loop over a snapshot. *)
LEMMA CallbackKeepsWalk ==
  ASSUME WalkInv, stack # <<>>, ~ On("destroy"), Top # MoveToFrame("Created"),
         NEW f \in Frames, f.op # "destroy",
         NEW g \in Frames, g.op # "destroy",
         stack' = Below \o << f, g >>
  PROVE  DestroyLeavesFromCreated'
<1>1. /\ Below \in Seq(Frames)
      /\ Len(Below) = Len(stack) - 1
      /\ \A i \in 1 .. Len(stack) - 1 : Below[i] = stack[i]
      /\ Len(stack) \in Nat \ {0}
  BY TopAndBelow DEF WalkInv
<1>2. /\ Len(stack') = Len(stack) + 1
      /\ \A i \in 1 .. Len(stack) - 1 : stack'[i] = stack[i]
      /\ stack'[Len(stack)] = f
      /\ stack'[Len(stack) + 1] = g
  <2>1. /\ Len(stack') = Len(Below) + 2
        /\ \A i \in 1 .. Len(Below) : stack'[i] = Below[i]
        /\ stack'[Len(Below) + 1] = f
        /\ stack'[Len(Below) + 2] = g
    <3>1. ASSUME NEW s \in Seq(Frames)
          PROVE  /\ Len(s \o <<f, g>>) = Len(s) + 2
                 /\ \A i \in 1 .. Len(s) : (s \o <<f, g>>)[i] = s[i]
                 /\ (s \o <<f, g>>)[Len(s) + 1] = f
                 /\ (s \o <<f, g>>)[Len(s) + 2] = g
      BY PushedTwo
    <3> QED
      BY <1>1, <3>1
  <2>2. Len(Below) + 1 = Len(stack) /\ Len(Below) + 2 = Len(stack) + 1
    BY <1>1
  <2>3. stack'[Len(stack)] = f /\ stack'[Len(stack) + 1] = g
    BY <2>1, <2>2
  <2>4. \A i \in 1 .. Len(stack) - 1 : stack'[i] = stack[i]
    BY <1>1, <2>1
  <2> QED
    BY <2>1, <2>2, <2>3, <2>4
<1>3. ~ On("destroy")'
  BY <1>1, <1>2 DEF On, Top
<1>4. ASSUME NEW i \in 1 .. Len(stack') - 1, stack'[i].op = "destroy"
      PROVE  stack'[i + 1] = MoveToFrame("Created")
  <2>1. i \in 1 .. Len(stack) - 1 /\ stack[i].op = "destroy"
    BY <1>1, <1>2, <1>4
  <2>2. stack[i + 1] = MoveToFrame("Created")
    BY <2>1 DEF WalkInv, DestroyLeavesFromCreated
  <2>3. i + 1 # Len(stack)
    BY <2>2 DEF Top
  <2>4. i + 1 \in 1 .. Len(stack) - 1
    BY <1>1, <2>1, <2>3
  <2> QED
    BY <1>2, <2>2, <2>4
<1> QED
  BY <1>3, <1>4 DEF DestroyLeavesFromCreated

(* Every step keeps the waiting destroys under their move_to. *)
LEMMA WalkStep == WalkInv /\ TypeOK' /\ [Next]_vars => DestroyLeavesFromCreated'
<1> SUFFICES ASSUME WalkInv, TypeOK', [Next]_vars
             PROVE  DestroyLeavesFromCreated'
  OBVIOUS
<1>1. UserCode => ~ On("destroy")
  BY DEF UserCode, On
<1>2. ASSUME NEW r, UserCode, Answer(r)
      PROVE  DestroyLeavesFromCreated'
  BY <1>1, <1>2 DEF Answer, WalkInv, DestroyLeavesFromCreated, On, Top
<1>3. CASE StrictStep
  <2> SUFFICES ASSUME NEW from \in States, NEW to \in States, Step(from, to)
               PROVE  DestroyLeavesFromCreated'
    BY <1>3 DEF StrictStep, States
  <2>1. UserCode /\ stack \in Seq(Frames)
    BY DEF Step, MayTransition, WalkInv, TypeOK
  <2> QED
    BY <1>1, <1>2, <2>1, ApplyKeepsWalk DEF Step
<1>4. CASE Destroy
  BY <1>1, <1>2, <1>4, BeginDestroyKeepsWalk DEF Destroy, MayTransition
<1>5. CASE \E target \in States : MoveTo(target)
  <2>1. PICK target \in States : MoveTo(target)
    BY <1>5
  <2>2. UserCode
    BY <2>1 DEF MoveTo, MayTransition
  <2>3. CASE /\ target \notin {state, "Initialized", "Destroyed"}
             /\ stack' = Append(stack, MoveToFrame(target))
    <3>1. MoveToFrame(target) \in Frames /\ MoveToFrame(target).op # "destroy"
      BY <2>3 DEF MoveToFrame, Frames, States
    <3> QED
      BY <1>1, <2>2, <2>3, <3>1, PushKeepsWalk
  <2> QED
    BY <1>1, <1>2, <2>1, <2>2, <2>3, BeginDestroyKeepsWalk DEF MoveTo
<1>6. CASE Subscribe
  <2>1. /\ SubscribeFrame(nextId, CatchUp(state)) \in Frames
        /\ SubscribeFrame(nextId, CatchUp(state)).op # "destroy"
    BY CatchUpType DEF SubscribeFrame, Frames, WalkInv, TypeOK
  <2> QED
    BY <1>1, <1>6, <2>1, PushKeepsWalk DEF Subscribe
<1>7. CASE \E id \in 0 .. nextId - 1 : Unsubscribe(id)
  BY <1>7 DEF Unsubscribe, WalkInv, DestroyLeavesFromCreated, On, Top
<1>8. CASE Notify
  <2>1. stack # <<>> /\ Top.op = "apply"
    BY <1>8 DEF Notify, On
  <2>2. Top \in [op : {"apply"}, event : States, n : Nat, todo : Seq(Nat)]
    BY <2>1, TopAndBelow, FrameShapes DEF WalkInv
  <2>3. Head(Top.todo) \in Nat /\ Tail(Top.todo) \in Seq(Nat)
    BY <1>8, <2>2, HeadTailProperties DEF Notify
  <2>4. /\ [Top EXCEPT !.todo = Tail(@)] \in Frames
        /\ [Top EXCEPT !.todo = Tail(@)].op = "apply"
        /\ CallbackFrame(Head(Top.todo), Top.event) \in Frames
        /\ CallbackFrame(Head(Top.todo), Top.event).op = "callback"
    BY <2>2, <2>3 DEF Frames, CallbackFrame
  <2>5. ~ On("destroy") /\ Top # MoveToFrame("Created")
    BY <2>1 DEF On, MoveToFrame
  <2> QED
    BY <1>8, <2>1, <2>4, <2>5, CallbackKeepsWalk DEF Notify
<1>9. CASE ApplyDone
  BY <1>9, ReturnKeepsWalk DEF ApplyDone, On, MoveToFrame
<1>10. CASE FinishDestroy
  <2>1. stack # <<>> /\ Top.op = "destroy" /\ On("destroy")
    BY <1>10 DEF FinishDestroy, On
  <2>2. CASE ret # "Ok" /\ Return(ret)
    BY <2>1, <2>2, ReturnKeepsWalk
  <2>3. CASE Apply("Destroyed", Below)
    <3>1. Below \in Seq(Frames)
      BY <2>1, TopAndBelow DEF WalkInv
    <3> QED
      BY <2>1, <2>3, <3>1, ApplyKeepsWalk DEF States
  <2> QED
    BY <1>10, <2>2, <2>3 DEF FinishDestroy
<1>11. CASE MoveToRound
  <2>1. stack # <<>> /\ Top.op = "move_to" /\ ~ On("destroy")
    BY <1>11 DEF MoveToRound, On
  <2>2. Top.target \in {"Created", "Started", "Resumed"}
    BY <2>1, TopAndBelow, FrameShapes DEF WalkInv
  <2>3. CASE /\ state \notin {Top.target, "Destroyed"}
             /\ Apply(Towards(Top.target), stack)
    <3>1. Towards(Top.target) \in States /\ stack \in Seq(Frames)
      BY <2>2, <2>3, TowardsAdjacent DEF WalkInv, TypeOK, States
    <3> QED
      BY <2>1, <2>3, <3>1, ApplyKeepsWalk
  <2>4. CASE state = Top.target /\ Return("Ok")
    BY <2>1, <2>4, ReturnKeepsWalk DEF MoveToFrame
  <2>5. CASE Return("AlreadyDestroyed")
    BY <2>1, <2>5, ReturnKeepsWalk
  <2> QED
    BY <1>11, <2>3, <2>4, <2>5 DEF MoveToRound
<1>12. CASE Replay
  <2>1. stack # <<>> /\ Top.op = "subscribe"
    BY <1>12 DEF Replay, On
  <2>2. Top \in [op : {"subscribe"}, id : Nat, todo : Seq(States)]
    BY <2>1, TopAndBelow, FrameShapes DEF WalkInv
  <2>3. Head(Top.todo) \in States /\ Tail(Top.todo) \in Seq(States)
    BY <1>12, <2>2, HeadTailProperties DEF Replay
  <2>4. /\ [Top EXCEPT !.todo = Tail(@)] \in Frames
        /\ [Top EXCEPT !.todo = Tail(@)].op = "subscribe"
        /\ CallbackFrame(Top.id, Head(Top.todo)) \in Frames
        /\ CallbackFrame(Top.id, Head(Top.todo)).op = "callback"
    BY <2>2, <2>3 DEF Frames, CallbackFrame
  <2>5. ~ On("destroy") /\ Top # MoveToFrame("Created")
    BY <2>1 DEF On, MoveToFrame
  <2> QED
    BY <1>12, <2>1, <2>4, <2>5, CallbackKeepsWalk DEF Replay
<1>13. CASE SubscribeDone
  BY <1>13, ReturnKeepsWalk DEF SubscribeDone, On, MoveToFrame
<1>14. CASE CallbackReturn
  BY <1>14, ReturnKeepsWalk DEF CallbackReturn, On, MoveToFrame
<1>15. CASE UNCHANGED vars
  BY <1>15 DEF vars, WalkInv, DestroyLeavesFromCreated, On, Top
<1> QED
  BY <1>3, <1>4, <1>5, <1>6, <1>7, <1>8, <1>9, <1>10, <1>11, <1>12, <1>13,
     <1>14, <1>15 DEF Next, Call, Components, Run

(* A destroy that goes on after its move_to finds the registry in Created: *)
(* the error of a move_to whose observers destroyed the registry is handed *)
(* on, and nothing runs between the last test of the loop and apply.       *)
THEOREM DestroyCorrect == Spec => []DestroyLeavesFromCreated
<1>1. Init => DestroyLeavesFromCreated
  BY EmptySeq DEF Init, DestroyLeavesFromCreated, On
<1>2. TypeOK /\ TypeOK' /\ DestroyLeavesFromCreated /\ [Next]_vars
        => DestroyLeavesFromCreated'
  BY WalkStep DEF WalkInv
<1> QED
  BY <1>1, <1>2, TypeCorrect, PTL DEF Spec

-----------------------------------------------------------------------------
(* The five strict steps are steps of the chain. *)
LEMMA StrictStepWalks == StrictStep => [Abstract!Next]_state
<1> SUFFICES ASSUME NEW from, NEW to, Step(from, to),
                    \/ from = "Initialized" /\ to = "Created"
                    \/ from = "Created" /\ to = "Started"
                    \/ from = "Started" /\ to = "Resumed"
                    \/ from = "Resumed" /\ to = "Started"
                    \/ from = "Started" /\ to = "Created"
             PROVE  [Abstract!Next]_state
  BY DEF StrictStep
<1>1. UNCHANGED state \/ (state = from /\ state' = to)
  BY DEF Step, Answer, Apply
<1> QED
  BY <1>1 DEF Abstract!Next, Abstract!Create, Abstract!Start, Abstract!Resume,
              Abstract!Pause, Abstract!Stop, Abstract!Trans

(* The registry implements the lifecycle's chain: every transition, strict *)
(* or through move_to and destroy, and whatever observers do while it is   *)
(* notified, is one step of Lifecycle, and every other step stutters.      *)
THEOREM RegistryImplementsLifecycle == Spec => WalksTheChain
<1>1. Init => Abstract!Init
  BY DEF Init, Abstract!Init
<1>2. WalkInv /\ [Next]_vars => [Abstract!Next]_state
  <2> SUFFICES ASSUME WalkInv, [Next]_vars PROVE [Abstract!Next]_state
    OBVIOUS
  <2>1. BeginDestroy => [Abstract!Next]_state
    BY DEF BeginDestroy, Apply, Abstract!Next, Abstract!Destroy, Abstract!Trans
  <2>2. CASE Destroy
    BY <2>1, <2>2 DEF Destroy, Answer
  <2>3. CASE \E target \in States : MoveTo(target)
    BY <2>1, <2>3 DEF MoveTo, Answer
  <2>4. CASE FinishDestroy
    <3>1. ret = "Ok" => state = "Created"
      BY <2>4 DEF FinishDestroy, WalkInv, DestroyLeavesFromCreated
    <3> QED
      BY <2>4, <3>1 DEF FinishDestroy, Return, Apply,
                        Abstract!Next, Abstract!Destroy, Abstract!Trans
  <2>5. CASE MoveToRound
    <3>1. Top.target \in {"Created", "Started", "Resumed"}
      BY <2>5, TopAndBelow, FrameShapes DEF MoveToRound, On, WalkInv
    <3>2. CASE /\ state \notin {Top.target, "Destroyed"}
               /\ Apply(Towards(Top.target), stack)
      <4>1. state' = Towards(Top.target)
        BY <3>2 DEF Apply
      <4>2. \/ state = "Initialized" /\ Towards(Top.target) = "Created"
            \/ state = "Created" /\ Towards(Top.target) = "Started"
            \/ state = "Started" /\ Towards(Top.target) = "Resumed"
            \/ state = "Resumed" /\ Towards(Top.target) = "Started"
            \/ state = "Started" /\ Towards(Top.target) = "Created"
        BY <3>1, <3>2, TowardsAdjacent DEF WalkInv, TypeOK
      <4> QED
        BY <4>1, <4>2 DEF Abstract!Next, Abstract!Create, Abstract!Start,
             Abstract!Resume, Abstract!Pause, Abstract!Stop, Abstract!Trans
    <3> QED
      BY <2>5, <3>2 DEF MoveToRound, Return
  <2>6. CASE \/ Subscribe \/ (\E id \in 0 .. nextId - 1 : Unsubscribe(id))
             \/ Notify \/ ApplyDone \/ Replay \/ SubscribeDone
             \/ CallbackReturn \/ UNCHANGED vars
    BY <2>6 DEF Subscribe, Unsubscribe, Notify, ApplyDone, Replay,
                SubscribeDone, CallbackReturn, Return, vars
  <2> QED
    BY <2>2, <2>3, <2>4, <2>5, <2>6, StrictStepWalks DEF Next, Call, Components, Run
<1>3. Spec => [](TypeOK /\ DestroyLeavesFromCreated)
  BY TypeCorrect, DestroyCorrect, PTL
<1> QED
  BY <1>1, <1>2, <1>3, PTL DEF Spec, WalksTheChain, Abstract!Spec, WalkInv

-----------------------------------------------------------------------------
(* A frame that notifies of Destroyed. *)
IsDestroying(f) == f.op = "apply" /\ f.event = "Destroyed"

(* A step that leaves the state, the observers and every frame notifying   *)
(* of Destroyed in place keeps what destruction has released released.     *)
LEMMA KeepsReleased ==
  ASSUME TypeOK, TypeOK', DestroyReleasesObservers,
         state' = state, observers' = observers,
         \A i \in 1 .. Len(stack) : IsDestroying(stack[i]) =>
           i \in 1 .. Len(stack') /\ IsDestroying(stack'[i])
  PROVE  DestroyReleasesObservers'
<1>1. DOMAIN stack = 1 .. Len(stack) /\ DOMAIN stack' = 1 .. Len(stack')
  BY LenProperties DEF TypeOK
<1> QED
  BY <1>1 DEF DestroyReleasesObservers, Destroying, IsDestroying

(* A transition either notifies of Destroyed or is none to Destroyed. *)
LEMMA ApplyKeepsReleased ==
  ASSUME TypeOK, TypeOK', NEW next \in States, NEW below \in Seq(Frames),
         Apply(next, below)
  PROVE  DestroyReleasesObservers'
<1> DEFINE f == ApplyFrame(next, Len(log) + 1, Snapshot(state, next))
<1>1. f.op = "apply" /\ f.event = next /\ f \in Frames
  BY SnapshotType DEF ApplyFrame, Frames, TypeOK
<1> HIDE DEF f
<1>2. stack' = Append(below, f) /\ state' = next
  BY DEF Apply, f
<1>3. Len(below) + 1 \in DOMAIN stack' /\ stack'[Len(below) + 1] = f
  BY <1>1, <1>2, AppendProperties, LenProperties
<1> QED
  BY <1>1, <1>2, <1>3 DEF DestroyReleasesObservers, Destroying

(* Returning from a frame that does not notify of Destroyed. *)
LEMMA ReturnKeepsReleased ==
  ASSUME TypeOK, TypeOK', DestroyReleasesObservers, stack # <<>>,
         NEW r, Return(r), UNCHANGED observers, ~ IsDestroying(Top)
  PROVE  DestroyReleasesObservers'
<1>1. /\ Len(Below) = Len(stack) - 1
      /\ \A i \in 1 .. Len(stack) - 1 : Below[i] = stack[i]
      /\ Len(stack) \in Nat \ {0}
  BY TopAndBelow
<1>2. ASSUME NEW i \in 1 .. Len(stack), IsDestroying(stack[i])
      PROVE  i \in 1 .. Len(stack') /\ IsDestroying(stack'[i])
  <2>1. i # Len(stack)
    BY <1>2 DEF Top
  <2>2. i \in 1 .. Len(stack) - 1
    BY <1>1, <2>1
  <2> QED
    BY <1>1, <1>2, <2>2 DEF Return
<1> QED
  BY <1>2, KeepsReleased DEF Return

(* Pushing a frame. *)
LEMMA PushKeepsReleased ==
  ASSUME TypeOK, TypeOK', DestroyReleasesObservers,
         state' = state, observers' = observers,
         NEW f \in Frames, stack' = Append(stack, f)
  PROVE  DestroyReleasesObservers'
<1>1. \A i \in 1 .. Len(stack) : i \in 1 .. Len(stack') /\ stack'[i] = stack[i]
  BY AppendProperties, LenProperties DEF TypeOK
<1> QED
  BY <1>1, KeepsReleased

(* Calling an observer from a loop over a snapshot. *)
LEMMA CallbackKeepsReleased ==
  ASSUME TypeOK, TypeOK', DestroyReleasesObservers, stack # <<>>,
         state' = state, observers' = observers,
         NEW f \in Frames, IsDestroying(Top) => IsDestroying(f),
         NEW g \in Frames, stack' = Below \o << f, g >>
  PROVE  DestroyReleasesObservers'
<1>1. /\ Below \in Seq(Frames)
      /\ Len(Below) = Len(stack) - 1
      /\ \A i \in 1 .. Len(stack) - 1 : Below[i] = stack[i]
      /\ Len(stack) \in Nat \ {0}
  BY TopAndBelow
<1>2. ASSUME NEW s \in Seq(Frames)
      PROVE  /\ Len(s \o <<f, g>>) = Len(s) + 2
             /\ \A i \in 1 .. Len(s) : (s \o <<f, g>>)[i] = s[i]
             /\ (s \o <<f, g>>)[Len(s) + 1] = f
  BY PushedTwo
<1>3. /\ Len(stack') = Len(Below) + 2
      /\ \A i \in 1 .. Len(Below) : stack'[i] = Below[i]
      /\ stack'[Len(Below) + 1] = f
  BY <1>1, <1>2
<1>4. Len(Below) + 1 = Len(stack)
  BY <1>1
<1>5. ASSUME NEW i \in 1 .. Len(stack), IsDestroying(stack[i])
      PROVE  i \in 1 .. Len(stack') /\ IsDestroying(stack'[i])
  <2>1. CASE i = Len(stack)
    BY <1>1, <1>3, <1>4, <1>5, <2>1 DEF Top
  <2>2. CASE i # Len(stack)
    <3>1. i \in 1 .. Len(stack) - 1
      BY <1>1, <2>2
    <3> QED
      BY <1>1, <1>3, <1>5, <3>1
  <2> QED
    BY <2>1, <2>2
<1> QED
  BY <1>5, KeepsReleased

(* A registry releases its observers when it is destroyed, and retains     *)
(* none that subscribes during or after the notification.                  *)
THEOREM DestroyReleases == Spec => []DestroyReleasesObservers
<1>1. Init => DestroyReleasesObservers
  BY DEF Init, DestroyReleasesObservers
<1>2. /\ TypeOK /\ TypeOK' /\ DestroyReleasesObservers /\ [Next]_vars
      => DestroyReleasesObservers'
  <2> SUFFICES ASSUME TypeOK, TypeOK', DestroyReleasesObservers, [Next]_vars
               PROVE  DestroyReleasesObservers'
    OBVIOUS
  <2>1. ASSUME NEW r, Answer(r)
        PROVE  DestroyReleasesObservers'
    BY <2>1 DEF Answer, DestroyReleasesObservers, Destroying
  <2>2. ASSUME BeginDestroy
        PROVE  DestroyReleasesObservers'
    <3>1. CASE Apply("Destroyed", stack)
      BY <3>1, ApplyKeepsReleased DEF TypeOK, States
    <3>2. CASE /\ stack' = stack \o << DestroyFrame, MoveToFrame("Created") >>
               /\ UNCHANGED <<state, observers, nextId, ret, log, deliveries>>
      <4>1. DestroyFrame \in Frames /\ MoveToFrame("Created") \in Frames
        BY DEF DestroyFrame, MoveToFrame, Frames
      <4>2. \A i \in 1 .. Len(stack) :
              i \in 1 .. Len(stack') /\ stack'[i] = stack[i]
        BY <3>2, <4>1, PushedTwo, LenProperties DEF TypeOK
      <4> QED
        BY <3>2, <4>2, KeepsReleased
    <3> QED
      BY <2>2, <3>1, <3>2 DEF BeginDestroy
  <2>3. CASE StrictStep
    <3> SUFFICES ASSUME NEW from \in States, NEW to \in States, Step(from, to)
                 PROVE  DestroyReleasesObservers'
      BY <2>3 DEF StrictStep, States
    <3> QED
      BY <2>1, ApplyKeepsReleased DEF Step, TypeOK
  <2>4. CASE Destroy
    BY <2>1, <2>2, <2>4 DEF Destroy
  <2>5. CASE \E target \in States : MoveTo(target)
    <3>1. PICK target \in States : MoveTo(target)
      BY <2>5
    <3>2. CASE /\ target \notin {state, "Initialized", "Destroyed"}
               /\ stack' = Append(stack, MoveToFrame(target))
               /\ UNCHANGED <<state, observers, nextId, ret, log, deliveries>>
      <4>1. MoveToFrame(target) \in Frames
        BY <3>2 DEF MoveToFrame, Frames, States
      <4> QED
        BY <3>2, <4>1, PushKeepsReleased
    <3> QED
      BY <2>1, <2>2, <3>1, <3>2 DEF MoveTo
  <2>6. CASE Subscribe
    <3>1. CASE state = "Destroyed"
      <4>1. SubscribeFrame(nextId, CatchUp(state)) \in Frames
        BY CatchUpType DEF SubscribeFrame, Frames, TypeOK
      <4> QED
        BY <2>6, <3>1, <4>1, PushKeepsReleased DEF Subscribe
    <3>2. CASE state # "Destroyed"
      BY <2>6, <3>2 DEF Subscribe, DestroyReleasesObservers
    <3> QED
      BY <3>1, <3>2
  <2>7. CASE \E id \in 0 .. nextId - 1 : Unsubscribe(id)
    BY <2>7, WithoutType DEF Unsubscribe, TypeOK, DestroyReleasesObservers,
                             Destroying
  <2>8. CASE Notify
    <3>1. stack # <<>>
      BY <2>8 DEF Notify, On
    <3>2. Top \in [op : {"apply"}, event : States, n : Nat, todo : Seq(Nat)]
      BY <2>8, TopAndBelow, FrameShapes DEF Notify, On
    <3>3. Head(Top.todo) \in Nat /\ Tail(Top.todo) \in Seq(Nat)
      BY <2>8, <3>2, HeadTailProperties DEF Notify
    <3>4. /\ [Top EXCEPT !.todo = Tail(@)] \in Frames
          /\ IsDestroying(Top) => IsDestroying([Top EXCEPT !.todo = Tail(@)])
          /\ CallbackFrame(Head(Top.todo), Top.event) \in Frames
      BY <3>2, <3>3 DEF Frames, CallbackFrame, IsDestroying
    <3> QED
      BY <2>8, <3>1, <3>4, CallbackKeepsReleased DEF Notify
  <2>9. CASE ApplyDone
    <3>1. stack # <<>> /\ Return("Ok")
      BY <2>9 DEF ApplyDone, On
    <3>2. CASE Top.event = "Destroyed"
      BY <2>9, <3>2 DEF ApplyDone, DestroyReleasesObservers
    <3>3. CASE Top.event # "Destroyed"
      BY <2>9, <3>1, <3>3, ReturnKeepsReleased DEF ApplyDone, IsDestroying
    <3> QED
      BY <3>2, <3>3
  <2>10. CASE FinishDestroy
    <3>1. stack # <<>> /\ Top.op = "destroy" /\ Below \in Seq(Frames)
      BY <2>10, TopAndBelow DEF FinishDestroy, On
    <3> QED
      BY <2>10, <3>1, ReturnKeepsReleased, ApplyKeepsReleased
         DEF FinishDestroy, IsDestroying, States
  <2>11. CASE MoveToRound
    <3>1. stack # <<>> /\ Top.op = "move_to"
      BY <2>11 DEF MoveToRound, On
    <3>2. CASE /\ state \notin {Top.target, "Destroyed"}
               /\ Apply(Towards(Top.target), stack)
      <4>1. Top.target \in {"Created", "Started", "Resumed"}
        BY <3>1, TopAndBelow, FrameShapes
      <4>2. Towards(Top.target) \in States /\ stack \in Seq(Frames)
        BY <3>2, <4>1, TowardsAdjacent DEF TypeOK, States
      <4> QED
        BY <3>2, <4>2, ApplyKeepsReleased
    <3> QED
      BY <2>11, <3>1, <3>2, ReturnKeepsReleased DEF MoveToRound, IsDestroying
  <2>12. CASE Replay
    <3>1. stack # <<>>
      BY <2>12 DEF Replay, On
    <3>2. Top \in [op : {"subscribe"}, id : Nat, todo : Seq(States)]
      BY <2>12, TopAndBelow, FrameShapes DEF Replay, On
    <3>3. Head(Top.todo) \in States /\ Tail(Top.todo) \in Seq(States)
      BY <2>12, <3>2, HeadTailProperties DEF Replay
    <3>4. /\ [Top EXCEPT !.todo = Tail(@)] \in Frames
          /\ ~ IsDestroying(Top)
          /\ CallbackFrame(Top.id, Head(Top.todo)) \in Frames
      BY <3>2, <3>3 DEF Frames, CallbackFrame, IsDestroying
    <3> QED
      BY <2>12, <3>1, <3>4, CallbackKeepsReleased DEF Replay
  <2>13. CASE SubscribeDone
    BY <2>13, ReturnKeepsReleased DEF SubscribeDone, On, IsDestroying
  <2>14. CASE CallbackReturn
    BY <2>14, ReturnKeepsReleased DEF CallbackReturn, On, IsDestroying
  <2>15. CASE UNCHANGED vars
    BY <2>15 DEF vars, DestroyReleasesObservers, Destroying
  <2> QED
    BY <2>3, <2>4, <2>5, <2>6, <2>7, <2>8, <2>9, <2>10, <2>11, <2>12, <2>13,
       <2>14, <2>15 DEF Next, Call, Components, Run
<1> QED
  BY <1>1, <1>2, TypeCorrect, PTL DEF Spec

-----------------------------------------------------------------------------
(* A frame that speaks of Destroyed only if the registry is destroyed.     *)
Honest(s) ==
  {f \in Frames :
     /\ f.op \in {"apply", "callback"} /\ f.event = "Destroyed" => s = "Destroyed"
     /\ f.op = "subscribe" => f.todo \in Seq(States \ {"Destroyed"})}

StackHonest == stack \in Seq(Honest(state))

(* Frames stay honest when the state moves on, Destroyed being the end.    *)
LEMMA HonestStays ==
  ASSUME NEW s, NEW t, s = t \/ s # "Destroyed", NEW frames \in Seq(Honest(s))
  PROVE  frames \in Seq(Honest(t))
<1>1. Honest(s) \subseteq Honest(t)
  BY DEF Honest
<1> QED
  BY <1>1, SeqMonotonic, ElementOfSeq

(* The replay leaves Destroyed out. *)
LEMMA CatchUpHonest ==
  ASSUME NEW s \in States
  PROVE  CatchUp(s) \in Seq(States \ {"Destroyed"})
<1>1. CASE s = "Destroyed"
  BY <1>1, EmptySeq DEF CatchUp
<1>2. CASE s # "Destroyed"
  <2>1. CatchUp(s) = SubSeq(<<"Created", "Started", "Resumed">>, 1, Rank(s))
    BY <1>2 DEF CatchUp
  <2>2. Rank(s) \in 0 .. 3
    BY <1>2 DEF Rank, States
  <2>3. \A i \in 1 .. 3 :
          <<"Created", "Started", "Resumed">>[i] \in States \ {"Destroyed"}
    BY DEF States
  <2>4. \A i \in 1 .. Rank(s) :
          <<"Created", "Started", "Resumed">>[i] \in States \ {"Destroyed"}
    BY <2>2, <2>3
  <2> QED
    BY <2>1, <2>2, <2>4, SubSeqProperties
<1> QED
  BY <1>1, <1>2

(* The stack and its top, with what is known of their frames.              *)
LEMMA HonestTop ==
  ASSUME StackHonest, stack # <<>>
  PROVE  /\ Top \in Honest(state)
         /\ Below \in Seq(Honest(state))
  BY Popped DEF StackHonest, Top, Below

(* A transition pushes a frame for the state it sets.                      *)
LEMMA ApplyKeepsHonest ==
  ASSUME TypeOK, NEW next \in States, NEW below \in Seq(Honest(state)),
         Apply(next, below)
  PROVE  StackHonest'
<1> DEFINE f == ApplyFrame(next, Len(log) + 1, Snapshot(state, next))
<1>1. f \in Frames /\ f.op = "apply" /\ f.event = next
  BY SnapshotType DEF ApplyFrame, Frames, TypeOK
<1> HIDE DEF f
<1>2. f \in Honest(next)
  BY <1>1 DEF Honest
<1>3. below \in Seq(Honest(next))
  BY HonestStays DEF Apply
<1>4. stack' = Append(below, f) /\ state' = next
  BY DEF Apply, f
<1> QED
  BY <1>2, <1>3, <1>4, AppendProperties DEF StackHonest

(* destroy puts frames on the stack that are honest from the start. *)
LEMMA BeginDestroyKeepsHonest ==
  ASSUME TypeOK, StackHonest, BeginDestroy
  PROVE  StackHonest'
<1>1. CASE Apply("Destroyed", stack)
  BY <1>1, ApplyKeepsHonest DEF StackHonest, States
<1>2. CASE /\ stack' = stack \o << DestroyFrame, MoveToFrame("Created") >>
           /\ UNCHANGED <<state, observers, nextId, ret, log, deliveries>>
  <2>1. DestroyFrame \in Honest(state) /\ MoveToFrame("Created") \in Honest(state)
    BY DEF DestroyFrame, MoveToFrame, Frames, Honest
  <2> QED
    BY <1>2, <2>1, PushedTwo DEF StackHonest
<1> QED
  BY <1>1, <1>2 DEF BeginDestroy

(* Nobody is told of Destroyed before the registry is destroyed.           *)
LEMMA HonestStep ==
  ASSUME TypeOK, StackHonest, [Next]_vars
  PROVE  StackHonest'
<1>1. ASSUME NEW r, Answer(r) PROVE StackHonest'
  BY <1>1 DEF Answer, StackHonest
<1>2. ASSUME NEW r, Return(r), stack # <<>> PROVE StackHonest'
  BY <1>2, HonestTop DEF Return, StackHonest
<1>3. CASE StrictStep
  <2> SUFFICES ASSUME NEW from \in States, NEW to \in States, Step(from, to)
               PROVE  StackHonest'
    BY <1>3 DEF StrictStep, States
  <2> QED
    BY <1>1, ApplyKeepsHonest DEF Step, StackHonest
<1>4. CASE Destroy
  BY <1>1, <1>4, BeginDestroyKeepsHonest DEF Destroy
<1>5. CASE \E target \in States : MoveTo(target)
  <2>1. PICK target \in States : MoveTo(target)
    BY <1>5
  <2>2. CASE /\ target \notin {state, "Initialized", "Destroyed"}
             /\ stack' = Append(stack, MoveToFrame(target))
             /\ UNCHANGED <<state, observers, nextId, ret, log, deliveries>>
    <3>1. MoveToFrame(target) \in Honest(state)
      BY <2>2 DEF MoveToFrame, Frames, States, Honest
    <3> QED
      BY <2>2, <3>1, AppendProperties DEF StackHonest
  <2> QED
    BY <1>1, <2>1, <2>2, BeginDestroyKeepsHonest DEF MoveTo
<1>6. CASE Subscribe
  <2>1. SubscribeFrame(nextId, CatchUp(state)) \in Honest(state)
    BY CatchUpType, CatchUpHonest DEF SubscribeFrame, Frames, TypeOK, Honest
  <2> QED
    BY <1>6, <2>1, AppendProperties DEF Subscribe, StackHonest
<1>7. CASE \E id \in 0 .. nextId - 1 : Unsubscribe(id)
  BY <1>7 DEF Unsubscribe, StackHonest
<1>8. CASE Notify
  <2>1. stack # <<>> /\ Top.op = "apply"
    BY <1>8 DEF Notify, On
  <2>2. Top \in Honest(state) /\ Below \in Seq(Honest(state))
    BY <2>1, HonestTop
  <2>3. Top \in [op : {"apply"}, event : States, n : Nat, todo : Seq(Nat)]
    BY <2>1, <2>2, FrameShapes DEF Honest
  <2>4. Head(Top.todo) \in Nat /\ Tail(Top.todo) \in Seq(Nat)
    BY <1>8, <2>3, HeadTailProperties DEF Notify
  <2>5. Top.event = "Destroyed" => state = "Destroyed"
    BY <2>1, <2>2 DEF Honest
  <2>6. /\ [Top EXCEPT !.todo = Tail(@)] \in Frames
        /\ [Top EXCEPT !.todo = Tail(@)].op = "apply"
        /\ [Top EXCEPT !.todo = Tail(@)].event = Top.event
        /\ CallbackFrame(Head(Top.todo), Top.event) \in Frames
        /\ CallbackFrame(Head(Top.todo), Top.event).op = "callback"
        /\ CallbackFrame(Head(Top.todo), Top.event).event = Top.event
    BY <2>3, <2>4 DEF Frames, CallbackFrame
  <2>7. /\ [Top EXCEPT !.todo = Tail(@)] \in Honest(state)
        /\ CallbackFrame(Head(Top.todo), Top.event) \in Honest(state)
    BY <2>5, <2>6 DEF Honest
  <2> QED
    BY <1>8, <2>2, <2>7, PushedTwo DEF Notify, StackHonest
<1>9. CASE ApplyDone
  BY <1>2, <1>9 DEF ApplyDone, On
<1>10. CASE FinishDestroy
  BY <1>2, <1>10, HonestTop, ApplyKeepsHonest DEF FinishDestroy, On, States
<1>11. CASE MoveToRound
  <2>1. stack # <<>> /\ Top.target \in {"Created", "Started", "Resumed"}
    BY <1>11, TopAndBelow, FrameShapes DEF MoveToRound, On
  <2>2. CASE /\ state \notin {Top.target, "Destroyed"}
             /\ Apply(Towards(Top.target), stack)
    <3>1. Towards(Top.target) \in States
      BY <2>1, <2>2, TowardsAdjacent DEF TypeOK, States
    <3> QED
      BY <2>2, <3>1, ApplyKeepsHonest DEF StackHonest
  <2> QED
    BY <1>2, <1>11, <2>1, <2>2 DEF MoveToRound
<1>12. CASE Replay
  <2>1. stack # <<>> /\ Top.op = "subscribe"
    BY <1>12 DEF Replay, On
  <2>2. Top \in Honest(state) /\ Below \in Seq(Honest(state))
    BY <2>1, HonestTop
  <2>3. Top \in [op : {"subscribe"}, id : Nat, todo : Seq(States)]
    BY <2>1, <2>2, FrameShapes DEF Honest
  <2>4. Top.todo \in Seq(States \ {"Destroyed"})
    BY <2>1, <2>2 DEF Honest
  <2>5. /\ Head(Top.todo) \in States \ {"Destroyed"}
        /\ Tail(Top.todo) \in Seq(States \ {"Destroyed"})
        /\ Tail(Top.todo) \in Seq(States)
    BY <1>12, <2>3, <2>4, HeadTailProperties DEF Replay
  <2>6. /\ [Top EXCEPT !.todo = Tail(@)] \in Frames
        /\ [Top EXCEPT !.todo = Tail(@)].op = "subscribe"
        /\ [Top EXCEPT !.todo = Tail(@)].todo = Tail(Top.todo)
        /\ CallbackFrame(Top.id, Head(Top.todo)) \in Frames
        /\ CallbackFrame(Top.id, Head(Top.todo)).op = "callback"
        /\ CallbackFrame(Top.id, Head(Top.todo)).event # "Destroyed"
    BY <2>3, <2>5 DEF Frames, CallbackFrame
  <2>7. /\ [Top EXCEPT !.todo = Tail(@)] \in Honest(state)
        /\ CallbackFrame(Top.id, Head(Top.todo)) \in Honest(state)
    BY <2>5, <2>6 DEF Honest
  <2> QED
    BY <1>12, <2>2, <2>7, PushedTwo DEF Replay, StackHonest
<1>13. CASE SubscribeDone
  BY <1>2, <1>13 DEF SubscribeDone, On
<1>14. CASE CallbackReturn
  BY <1>2, <1>14 DEF CallbackReturn, On
<1>15. CASE UNCHANGED vars
  BY <1>15 DEF vars, StackHonest
<1> QED
  BY <1>3, <1>4, <1>5, <1>6, <1>7, <1>8, <1>9, <1>10, <1>11, <1>12, <1>13,
     <1>14, <1>15 DEF Next, Call, Components, Run

-----------------------------------------------------------------------------
(* How many steps the calls in progress can still take by themselves.      *)

(* w[1] + ... + w[N] *)
SumOf(w, N) ==
  LET sum[n \in 0 .. N] == IF n = 0 THEN 0 ELSE sum[n - 1] + w[n]
  IN  sum[N]

(* The transitions of a move_to in a state that nobody moves meanwhile. *)
Distance(s, target) ==
  IF s = "Destroyed" THEN 0
  ELSE IF Rank(s) < Rank(target) THEN Rank(target) - Rank(s)
                                 ELSE Rank(s) - Rank(target)

(* A move_to under another one goes on from where that one ends, which is  *)
(* at most three transitions away.                                         *)
MovesLeft(frames, s, i) ==
  IF \E j \in DOMAIN frames : j > i /\ frames[j].op = "move_to" THEN 3
  ELSE Distance(s, frames[i].target)

WorkLeft(f, cost, moves) ==
  CASE f.op = "move_to" -> 1 + cost * moves
    [] f.op = "destroy" -> 1 + cost
    [] f.op \in {"apply", "subscribe"} -> 1 + 2 * Len(f.todo)
    [] OTHER -> 1

WorkByFrame(frames, s, cost) ==
  [i \in Nat |-> IF i \in DOMAIN frames
                 THEN WorkLeft(frames[i], cost, MovesLeft(frames, s, i)) ELSE 0]

WorkOf(frames, s, cost) == SumOf(WorkByFrame(frames, s, cost), Len(frames))

(* A transition pushes its apply, calls each observer and waits for it,    *)
(* and returns.                                                            *)
Cost == 2 * Len(observers) + 2

Remaining == WorkOf(stack, state, Cost)

(* Induction over the numbers: the library's theorem is about operators,   *)
(* this one about sets.                                                    *)
LEMMA NumbersInduction ==
  ASSUME NEW S, 0 \in S, \A n \in Nat : n \in S => n + 1 \in S
  PROVE  Nat \subseteq S
<1> DEFINE T == Nat \ S
           R == {p \in Nat \X Nat : p[1] < p[2]}
<1>1. IsWellFoundedOn(R, Nat)
  BY NatLessThanWellFounded DEF OpToRel
<1> SUFFICES ASSUME T # {} PROVE FALSE
  OBVIOUS
<1>2. \E x \in T : \A y \in T : ~ (<<y, x>> \in R)
  <2> HIDE DEF T, R
  <2>1. T \subseteq Nat
    BY DEF T
  <2> QED BY <1>1, <2>1, WFMin
<1>3. PICK x \in T : \A y \in T : ~ (y < x)
  BY <1>2
<1>4. x # 0 /\ x \in Nat
  OBVIOUS
<1>5. x - 1 \in Nat /\ x - 1 \notin T
  BY <1>3, <1>4
<1> QED
  BY <1>4, <1>5

IsSum(sum, w, N) == sum = [n \in 0 .. N |-> IF n = 0 THEN 0 ELSE sum[n - 1] + w[n]]

LEMMA SumExists ==
  ASSUME NEW w \in [Nat -> Nat], NEW N \in Nat
  PROVE  \E sum : IsSum(sum, w, N)
<1> DEFINE A == {m \in Nat : \E sum : IsSum(sum, w, m)}
<1>1. 0 \in A
  <2>1. IsSum([n \in 0 .. 0 |-> 0], w, 0)
    BY DEF IsSum
  <2> QED BY <2>1
<1>2. ASSUME NEW m \in Nat, m \in A
      PROVE  m + 1 \in A
  <2>1. PICK g : IsSum(g, w, m)
    BY <1>2
  <2> DEFINE h == [n \in 0 .. m + 1 |-> IF n = m + 1 THEN g[m] + w[m + 1] ELSE g[n]]
  <2>2. \A n \in 0 .. m : g[n] = IF n = 0 THEN 0 ELSE g[n - 1] + w[n]
    BY <2>1 DEF IsSum
  <2>3. ASSUME NEW n \in 0 .. m + 1
        PROVE  h[n] = IF n = 0 THEN 0 ELSE h[n - 1] + w[n]
    <3>1. CASE n = m + 1
      <4>1. h[n] = g[m] + w[m + 1] /\ h[n - 1] = g[m]
        BY <3>1
      <4> QED BY <3>1, <4>1
    <3>2. CASE n # m + 1
      <4>1. n \in 0 .. m /\ h[n] = g[n] /\ (n # 0 => h[n - 1] = g[n - 1])
        BY <3>2
      <4> QED BY <2>2, <4>1
    <3> QED BY <3>1, <3>2
  <2>4. h = [n \in 0 .. m + 1 |-> h[n]]
    OBVIOUS
  <2> HIDE DEF h
  <2>5. IsSum(h, w, m + 1)
    BY <2>3, <2>4 DEF IsSum
  <2> QED BY <2>5
<1> HIDE DEF A
<1>3. N \in A
  BY <1>1, <1>2, NumbersInduction
<1> QED BY <1>3 DEF A

LEMMA SumTyped ==
  ASSUME NEW w \in [Nat -> Nat], NEW N \in Nat, NEW sum, IsSum(sum, w, N),
         NEW n \in 0 .. N
  PROVE  sum[n] \in Nat
<1> DEFINE A == {m \in Nat : m <= N => sum[m] \in Nat}
<1>1. 0 \in A
  BY DEF IsSum
<1>2. ASSUME NEW m \in Nat, m \in A
      PROVE  m + 1 \in A
  <2> SUFFICES ASSUME m + 1 <= N PROVE sum[m + 1] \in Nat
    OBVIOUS
  <2>1. sum[m] \in Nat /\ w[m + 1] \in Nat
    BY <1>2
  <2>2. m + 1 \in 0 .. N /\ m + 1 # 0 /\ (m + 1) - 1 = m
    OBVIOUS
  <2>3. sum[m + 1] = sum[m] + w[m + 1]
    BY <2>2 DEF IsSum
  <2> QED BY <2>1, <2>3
<1> HIDE DEF A
<1>3. n \in A
  BY <1>1, <1>2, NumbersInduction
<1> QED BY <1>3 DEF A

(* Terms that are no greater have no greater a sum. *)
LEMMA SumsCompare ==
  ASSUME NEW w \in [Nat -> Nat], NEW v \in [Nat -> Nat], NEW N \in Nat, NEW M \in Nat,
         NEW f, IsSum(f, w, N), NEW g, IsSum(g, v, M),
         NEW n \in Nat, n <= N, n <= M, \A i \in 1 .. n : v[i] <= w[i]
  PROVE  g[n] <= f[n]
<1> DEFINE A == {m \in Nat : m <= n => g[m] <= f[m]}
<1>1. 0 \in A
  <2>1. f[0] = 0 /\ g[0] = 0
    BY DEF IsSum
  <2> QED BY <2>1
<1>2. ASSUME NEW m \in Nat, m \in A
      PROVE  m + 1 \in A
  <2> SUFFICES ASSUME m + 1 <= n PROVE g[m + 1] <= f[m + 1]
    OBVIOUS
  <2>1. /\ m \in 0 .. N /\ m \in 0 .. M /\ m + 1 \in 0 .. N /\ m + 1 \in 0 .. M
        /\ m + 1 # 0 /\ (m + 1) - 1 = m /\ m + 1 \in 1 .. n
    OBVIOUS
  <2>2. f[m + 1] = f[m] + w[m + 1] /\ g[m + 1] = g[m] + v[m + 1]
    BY <2>1 DEF IsSum
  <2>3. f[m] \in Nat /\ g[m] \in Nat
    BY <2>1, SumTyped
  <2>4. w[m + 1] \in Nat /\ v[m + 1] \in Nat /\ v[m + 1] <= w[m + 1]
    BY <2>1
  <2>5. g[m] <= f[m]
    BY <1>2
  <2> QED BY <2>2, <2>3, <2>4, <2>5
<1> HIDE DEF A
<1>3. n \in A
  BY <1>1, <1>2, NumbersInduction
<1> QED BY <1>3 DEF A

LEMMA SumIs ==
  ASSUME NEW w \in [Nat -> Nat], NEW N \in Nat
  PROVE  \E sum : IsSum(sum, w, N) /\ SumOf(w, N) = sum[N]
<1> DEFINE P(s) == s = [n \in 0 .. N |-> IF n = 0 THEN 0 ELSE s[n - 1] + w[n]]
<1>1. SumOf(w, N) = (CHOOSE s : P(s))[N]
  BY DEF SumOf
<1>2. \E s : P(s)
  BY SumExists DEF IsSum
<1> HIDE DEF P
<1>3. P(CHOOSE s : P(s))
  BY <1>2
<1>4. PICK s : P(s) /\ SumOf(w, N) = s[N]
  BY <1>1, <1>3
<1> QED BY <1>4 DEF P, IsSum

LEMMA SumIsNat ==
  ASSUME NEW w \in [Nat -> Nat], NEW N \in Nat
  PROVE  SumOf(w, N) \in Nat
<1>1. PICK sum : IsSum(sum, w, N) /\ SumOf(w, N) = sum[N]
  BY SumIs
<1>2. N \in 0 .. N
  OBVIOUS
<1> QED BY <1>1, <1>2, SumTyped

LEMMA SumMonotone ==
  ASSUME NEW w \in [Nat -> Nat], NEW v \in [Nat -> Nat], NEW N \in Nat,
         \A i \in 1 .. N : v[i] <= w[i]
  PROVE  SumOf(v, N) <= SumOf(w, N)
<1>1. PICK f : IsSum(f, w, N) /\ SumOf(w, N) = f[N]
  BY SumIs
<1>2. PICK g : IsSum(g, v, N) /\ SumOf(v, N) = g[N]
  BY SumIs
<1>3. N <= N /\ \A i \in 1 .. N : v[i] <= w[i]
  OBVIOUS
<1>4. IsSum(f, w, N) /\ IsSum(g, v, N)
  BY <1>1, <1>2
<1>5. g[N] <= f[N]
  BY ONLY <1>3, <1>4, SumsCompare, w \in [Nat -> Nat], v \in [Nat -> Nat], N \in Nat
<1> QED BY <1>1, <1>2, <1>5

LEMMA SumOfMore ==
  ASSUME NEW w \in [Nat -> Nat], NEW N \in Nat
  PROVE  SumOf(w, N + 1) = SumOf(w, N) + w[N + 1]
<1>1. PICK f : IsSum(f, w, N) /\ SumOf(w, N) = f[N]
  BY SumIs
<1>2. N + 1 \in Nat /\ N <= N + 1 /\ N <= N /\ N \in 0 .. N /\ N \in 0 .. N + 1
  OBVIOUS
<1> DEFINE M == N + 1
<1>3. PICK g : IsSum(g, w, M) /\ SumOf(w, M) = g[M]
  BY <1>2, SumIs
<1>4. \A i \in 1 .. N : w[i] <= w[i]
  OBVIOUS
<1>5. f[N] \in Nat /\ g[N] \in Nat
  BY <1>1, <1>2, <1>3, SumTyped
<1>6. M \in Nat /\ N <= M
  BY <1>2
<1>7. g[N] <= f[N] /\ f[N] <= g[N]
  <2> HIDE DEF M
  <2>1. g[N] <= f[N]
    BY <1>1, <1>2, <1>3, <1>4, <1>6, SumsCompare
  <2>2. f[N] <= g[N]
    BY <1>1, <1>2, <1>3, <1>4, <1>6, SumsCompare
  <2> QED BY <2>1, <2>2
<1>8. f[N] = g[N]
  BY <1>5, <1>7
<1>9. g[M] = g[N] + w[M]
  <2>1. N + 1 \in 0 .. N + 1 /\ N + 1 # 0 /\ (N + 1) - 1 = N
    OBVIOUS
  <2> QED BY <1>3, <2>1 DEF IsSum
<1> QED BY <1>1, <1>3, <1>8, <1>9

LEMMA DistanceBounds ==
  ASSUME NEW s \in States, NEW target \in {"Created", "Started", "Resumed"}
  PROVE  Distance(s, target) \in 0 .. 3
  BY DEF Distance, Rank, States

LEMMA MovesBounds ==
  ASSUME NEW frames \in Seq(Frames), NEW s \in States, NEW i \in DOMAIN frames,
         frames[i].op = "move_to"
  PROVE  MovesLeft(frames, s, i) \in 0 .. 3
<1>1. frames[i] \in Frames
  BY LenProperties, ElementOfSeq
<1>2. frames[i].target \in {"Created", "Started", "Resumed"}
  BY <1>1, FrameShapes
<1>3. 3 \in 0 .. 3
  OBVIOUS
<1> QED BY <1>2, <1>3, DistanceBounds DEF MovesLeft

(* Cheaper transitions, and fewer of them, are less work. *)
LEMMA FewerMoves ==
  ASSUME NEW c \in Nat, NEW d \in Nat, d <= c,
         NEW m \in 0 .. 3, NEW k \in 0 .. 3, k <= m
  PROVE  c * m \in Nat /\ d * k \in Nat /\ d * k <= c * m
<1>1. /\ c * 0 = 0 /\ c * 1 = c /\ c * 2 = c + c /\ c * 3 = c + c + c
      /\ d * 0 = 0 /\ d * 1 = d /\ d * 2 = d + d /\ d * 3 = d + d + d
  OBVIOUS
<1>2. (m = 0 \/ m = 1 \/ m = 2 \/ m = 3) /\ (k = 0 \/ k = 1 \/ k = 2 \/ k = 3)
  OBVIOUS
<1>3. c * m \in {0, c, c + c, c + c + c} /\ d * k \in {0, d, d + d, d + d + d}
  BY <1>1, <1>2
<1>4. CASE m = 0
  BY <1>1, <1>2, <1>4
<1>5. CASE m = 1
  BY <1>1, <1>2, <1>5
<1>6. CASE m = 2
  BY <1>1, <1>2, <1>6
<1>7. CASE m = 3
  BY <1>1, <1>2, <1>7
<1> QED BY <1>2, <1>4, <1>5, <1>6, <1>7

LEMMA FrameWork ==
  ASSUME NEW f \in Frames, NEW c \in Nat, NEW m, f.op = "move_to" => m \in 0 .. 3
  PROVE  WorkLeft(f, c, m) \in Nat \ {0}
<1>1. CASE f.op = "move_to"
  <2>1. WorkLeft(f, c, m) = 1 + c * m
    BY <1>1 DEF WorkLeft
  <2>2. c * m \in Nat
    BY <1>1, FewerMoves
  <2> QED BY <2>1, <2>2
<1>2. CASE f.op = "destroy"
  BY <1>2 DEF WorkLeft
<1>3. CASE f.op \in {"apply", "subscribe"}
  <2>1. Len(f.todo) \in Nat
    <3>1. f.todo \in Seq(Nat) \/ f.todo \in Seq(States)
      BY <1>3, FrameShapes
    <3> QED BY <3>1, LenProperties
  <2>2. WorkLeft(f, c, m) = 1 + 2 * Len(f.todo)
    BY <1>3 DEF WorkLeft
  <2> QED BY <2>1, <2>2
<1>4. CASE f.op \notin {"move_to", "destroy", "apply", "subscribe"}
  <2>1. WorkLeft(f, c, m) = 1
    BY <1>4 DEF WorkLeft
  <2> QED BY <2>1
<1> QED BY <1>1, <1>2, <1>3, <1>4

LEMMA WorkTyped ==
  ASSUME NEW frames \in Seq(Frames), NEW s \in States, NEW c \in Nat
  PROVE  /\ WorkByFrame(frames, s, c) \in [Nat -> Nat]
         /\ WorkOf(frames, s, c) \in Nat
<1>1. ASSUME NEW i \in DOMAIN frames
      PROVE  WorkLeft(frames[i], c, MovesLeft(frames, s, i)) \in Nat
  <2>1. frames[i] \in Frames
    BY LenProperties, ElementOfSeq
  <2> QED BY <2>1, MovesBounds, FrameWork
<1>2. WorkByFrame(frames, s, c) \in [Nat -> Nat]
  BY <1>1 DEF WorkByFrame
<1>3. Len(frames) \in Nat
  BY LenProperties
<1> QED BY <1>2, <1>3, SumIsNat DEF WorkOf

(* The work of the frames below the top one and of that one. *)
TopWork(frames, s, c) ==
  WorkLeft(frames[Len(frames)], c, Distance(s, frames[Len(frames)].target))

LEMMA WorkOnTop ==
  ASSUME NEW frames \in Seq(Frames), NEW s \in States, NEW c \in Nat,
         NEW n \in Nat, Len(frames) = n + 1
  PROVE  /\ SumOf(WorkByFrame(frames, s, c), n) \in Nat
         /\ TopWork(frames, s, c) \in Nat \ {0}
         /\ WorkOf(frames, s, c) = SumOf(WorkByFrame(frames, s, c), n) + TopWork(frames, s, c)
<1>1. DOMAIN frames = 1 .. n + 1
  BY LenProperties
<1>2. n + 1 \in DOMAIN frames /\ n + 1 \in Nat /\ \A j \in DOMAIN frames : ~ (j > n + 1)
  BY <1>1
<1>3. MovesLeft(frames, s, n + 1) = Distance(s, frames[n + 1].target)
  BY <1>2 DEF MovesLeft
<1>4. WorkByFrame(frames, s, c)[n + 1] = TopWork(frames, s, c)
  BY <1>2, <1>3 DEF WorkByFrame, TopWork
<1>5. TopWork(frames, s, c) \in Nat \ {0}
  <2>1. frames[n + 1] \in Frames
    BY <1>2, LenProperties, ElementOfSeq
  <2>2. frames[n + 1].op = "move_to" => MovesLeft(frames, s, n + 1) \in 0 .. 3
    BY <1>2, MovesBounds
  <2>3. WorkLeft(frames[n + 1], c, MovesLeft(frames, s, n + 1)) \in Nat \ {0}
    BY <2>1, <2>2, FrameWork
  <2> QED BY <1>3, <2>3 DEF TopWork
<1>6. WorkByFrame(frames, s, c) \in [Nat -> Nat]
  BY WorkTyped
<1>7. SumOf(WorkByFrame(frames, s, c), n) \in Nat
  BY <1>6, SumIsNat
<1>8. WorkOf(frames, s, c) =
        SumOf(WorkByFrame(frames, s, c), n) + WorkByFrame(frames, s, c)[n + 1]
  BY <1>6, SumOfMore DEF WorkOf
<1> QED BY <1>4, <1>5, <1>7, <1>8

(* What a step of the calls leaves of the frames below the top one: there  *)
(* is no more work in them than before.                                    *)
KeepsBelow(frames, later, s, t) ==
  /\ \A i \in DOMAIN frames : i < Len(frames) =>
       i \in DOMAIN later /\ later[i] = frames[i]
  /\ \/ frames[Len(frames)].op = "move_to"
     \/ /\ t \in {s, "Destroyed"}
        /\ \A j \in DOMAIN later : j >= Len(frames) => later[j].op # "move_to"

LEMMA NoMoreBelow ==
  ASSUME NEW frames \in Seq(Frames), NEW later \in Seq(Frames),
         NEW s \in States, NEW t \in States, NEW c \in Nat, NEW d \in Nat, d <= c,
         NEW n \in Nat, Len(frames) = n + 1, KeepsBelow(frames, later, s, t)
  PROVE  SumOf(WorkByFrame(later, t, d), n) <= SumOf(WorkByFrame(frames, s, c), n)
<1>1. DOMAIN frames = 1 .. n + 1
  BY LenProperties
<1>2. ASSUME NEW i \in 1 .. n
      PROVE  WorkByFrame(later, t, d)[i] <= WorkByFrame(frames, s, c)[i]
  <2>1. /\ i \in DOMAIN frames /\ i \in DOMAIN later /\ later[i] = frames[i]
        /\ i \in Nat /\ i < n + 1 /\ frames[i] \in Frames
    BY <1>1, ElementOfSeq DEF KeepsBelow
  <2>2. /\ WorkByFrame(later, t, d)[i] = WorkLeft(frames[i], d, MovesLeft(later, t, i))
        /\ WorkByFrame(frames, s, c)[i] = WorkLeft(frames[i], c, MovesLeft(frames, s, i))
    BY <2>1 DEF WorkByFrame
  <2>3. CASE frames[i].op = "move_to"
    <3>1. MovesLeft(later, t, i) \in 0 .. 3 /\ MovesLeft(frames, s, i) \in 0 .. 3
      BY <2>1, <2>3, MovesBounds
    <3>2. MovesLeft(later, t, i) <= MovesLeft(frames, s, i)
      <4>1. CASE \E j \in DOMAIN frames : j > i /\ frames[j].op = "move_to"
        <5>1. MovesLeft(frames, s, i) = 3
          BY <4>1 DEF MovesLeft
        <5> QED BY <3>1, <5>1
      <4>2. CASE ~ \E j \in DOMAIN frames : j > i /\ frames[j].op = "move_to"
        <5>1. n + 1 \in DOMAIN frames /\ n + 1 > i
          BY <1>1, <2>1
        <5>2. /\ t \in {s, "Destroyed"}
              /\ \A j \in DOMAIN later : j >= n + 1 => later[j].op # "move_to"
          BY <4>2, <5>1 DEF KeepsBelow
        <5>3. \A j \in DOMAIN later : j \in Nat
          BY LenProperties
        <5>4. \A j \in DOMAIN later : j < n + 1 /\ j > i =>
                j \in DOMAIN frames /\ later[j] = frames[j]
          BY <1>1, <2>1, <5>3 DEF KeepsBelow
        <5>5. ~ \E j \in DOMAIN later : j > i /\ later[j].op = "move_to"
          <6> SUFFICES ASSUME NEW j \in DOMAIN later, j > i, later[j].op = "move_to"
                       PROVE  FALSE
            OBVIOUS
          <6>1. j >= n + 1 \/ j < n + 1
            BY <5>3
          <6> QED BY <4>2, <5>2, <5>4, <6>1
        <5>6. /\ MovesLeft(frames, s, i) = Distance(s, frames[i].target)
              /\ MovesLeft(later, t, i) = Distance(t, frames[i].target)
          BY <2>1, <4>2, <5>5 DEF MovesLeft
        <5>7. MovesLeft(later, t, i) \in {MovesLeft(frames, s, i), 0}
          BY <5>2, <5>6 DEF Distance
        <5> QED BY <3>1, <5>7
      <4> QED BY <4>1, <4>2
    <3>3. /\ WorkLeft(frames[i], d, MovesLeft(later, t, i)) = 1 + d * MovesLeft(later, t, i)
          /\ WorkLeft(frames[i], c, MovesLeft(frames, s, i)) = 1 + c * MovesLeft(frames, s, i)
      BY <2>3 DEF WorkLeft
    <3>4. /\ c * MovesLeft(frames, s, i) \in Nat /\ d * MovesLeft(later, t, i) \in Nat
          /\ d * MovesLeft(later, t, i) <= c * MovesLeft(frames, s, i)
      BY <3>1, <3>2, FewerMoves
    <3> QED BY <2>2, <3>3, <3>4
  <2>4. CASE frames[i].op = "destroy"
    <3>1. /\ WorkLeft(frames[i], d, MovesLeft(later, t, i)) = 1 + d
          /\ WorkLeft(frames[i], c, MovesLeft(frames, s, i)) = 1 + c
      BY <2>4 DEF WorkLeft
    <3> QED BY <2>2, <3>1
  <2>5. CASE frames[i].op \notin {"move_to", "destroy"}
    <3>1. WorkLeft(frames[i], d, MovesLeft(later, t, i)) =
            WorkLeft(frames[i], c, MovesLeft(frames, s, i))
      BY <2>5 DEF WorkLeft
    <3>2. WorkLeft(frames[i], c, MovesLeft(frames, s, i)) \in Nat
      BY <2>1, <2>5, FrameWork
    <3> QED BY <2>2, <3>1, <3>2
  <2> QED BY <2>3, <2>4, <2>5
<1> QED BY <1>2, WorkTyped, SumMonotone

(* A step is progress if what it puts in the place of the top frame is     *)
(* less work than that frame was.                                          *)
LEMMA PopIsLess ==
  ASSUME NEW frames \in Seq(Frames), NEW later \in Seq(Frames),
         NEW s \in States, NEW t \in States, NEW c \in Nat, NEW d \in Nat, d <= c,
         NEW n \in Nat, Len(frames) = n + 1, KeepsBelow(frames, later, s, t),
         Len(later) = n
  PROVE  WorkOf(later, t, d) < WorkOf(frames, s, c)
<1>1. WorkOf(later, t, d) = SumOf(WorkByFrame(later, t, d), n)
  BY DEF WorkOf
<1>2. PICK below \in Nat, top \in Nat \ {0} :
        /\ SumOf(WorkByFrame(frames, s, c), n) = below
        /\ WorkOf(frames, s, c) = below + top
  <2>1. /\ SumOf(WorkByFrame(frames, s, c), n) \in Nat
        /\ TopWork(frames, s, c) \in Nat \ {0}
        /\ WorkOf(frames, s, c)
             = SumOf(WorkByFrame(frames, s, c), n) + TopWork(frames, s, c)
    BY ONLY WorkOnTop, frames \in Seq(Frames), s \in States, c \in Nat, n \in Nat,
       Len(frames) = n + 1
  <2> QED BY <2>1
<1>3. PICK left \in Nat : left = WorkOf(later, t, d)
  BY WorkTyped
<1>4. left <= below
  BY <1>1, <1>2, <1>3, NoMoreBelow
<1>5. left < below + top
  BY <1>4
<1> QED BY <1>2, <1>3, <1>5

LEMMA ReplacingIsLess ==
  ASSUME NEW frames \in Seq(Frames), NEW later \in Seq(Frames),
         NEW s \in States, NEW t \in States, NEW c \in Nat, NEW d \in Nat, d <= c,
         NEW n \in Nat, Len(frames) = n + 1, KeepsBelow(frames, later, s, t),
         Len(later) = n + 1, TopWork(later, t, d) < TopWork(frames, s, c)
  PROVE  WorkOf(later, t, d) < WorkOf(frames, s, c)
<1>1. PICK below \in Nat, top \in Nat \ {0} :
        /\ SumOf(WorkByFrame(frames, s, c), n) = below
        /\ TopWork(frames, s, c) = top
        /\ WorkOf(frames, s, c) = below + top
  <2>1. /\ SumOf(WorkByFrame(frames, s, c), n) \in Nat
        /\ TopWork(frames, s, c) \in Nat \ {0}
        /\ WorkOf(frames, s, c)
             = SumOf(WorkByFrame(frames, s, c), n) + TopWork(frames, s, c)
    BY ONLY WorkOnTop, frames \in Seq(Frames), s \in States, c \in Nat, n \in Nat,
       Len(frames) = n + 1
  <2> QED BY <2>1
<1>2. PICK left \in Nat, new \in Nat \ {0} :
        /\ SumOf(WorkByFrame(later, t, d), n) = left
        /\ TopWork(later, t, d) = new
        /\ WorkOf(later, t, d) = left + new
  <2>1. /\ SumOf(WorkByFrame(later, t, d), n) \in Nat
        /\ TopWork(later, t, d) \in Nat \ {0}
        /\ WorkOf(later, t, d)
             = SumOf(WorkByFrame(later, t, d), n) + TopWork(later, t, d)
    BY ONLY WorkOnTop, later \in Seq(Frames), t \in States, d \in Nat, n \in Nat,
       Len(later) = n + 1
  <2> QED BY <2>1
<1>3. left <= below
  BY <1>1, <1>2, NoMoreBelow
<1>4. new < top
  BY <1>1, <1>2
<1>5. left + new < below + top
  BY <1>3, <1>4
<1> QED BY <1>1, <1>2, <1>5

LEMMA PushIsLess ==
  ASSUME NEW frames \in Seq(Frames), NEW later \in Seq(Frames),
         NEW s \in States, NEW t \in States, NEW c \in Nat, NEW d \in Nat, d <= c,
         NEW n \in Nat, Len(frames) = n + 1, KeepsBelow(frames, later, s, t),
         Len(later) = n + 2, later[n + 2].op # "move_to",
         NEW rest \in Nat,
         rest = WorkLeft(later[n + 1], d, Distance(t, later[n + 1].target)),
         NEW new \in Nat, new = TopWork(later, t, d),
         rest + new < TopWork(frames, s, c)
  PROVE  WorkOf(later, t, d) < WorkOf(frames, s, c)
<1> DEFINE w == WorkByFrame(later, t, d)
<1>1. PICK below \in Nat, top \in Nat \ {0} :
        /\ SumOf(WorkByFrame(frames, s, c), n) = below
        /\ TopWork(frames, s, c) = top
        /\ WorkOf(frames, s, c) = below + top
  <2>1. /\ SumOf(WorkByFrame(frames, s, c), n) \in Nat
        /\ TopWork(frames, s, c) \in Nat \ {0}
        /\ WorkOf(frames, s, c)
             = SumOf(WorkByFrame(frames, s, c), n) + TopWork(frames, s, c)
    BY ONLY WorkOnTop, frames \in Seq(Frames), s \in States, c \in Nat, n \in Nat,
       Len(frames) = n + 1
  <2> QED BY <2>1
<1>2. PICK m \in Nat : m = n + 1
  OBVIOUS
<1>3. Len(later) = m + 1
  BY <1>2
<1>5. WorkOf(later, t, d) = SumOf(w, m) + new
  <2>1. WorkOf(later, t, d) = SumOf(w, m) + TopWork(later, t, d)
    BY <1>3, WorkOnTop
  <2> QED BY <2>1
<1>6. SumOf(w, m) = SumOf(w, n) + w[m]
  BY <1>2, WorkTyped, SumOfMore
<1>7. w[m] = rest
  <2>1. DOMAIN later = 1 .. n + 2
    BY LenProperties
  <2>2. m \in DOMAIN later /\ \A j \in DOMAIN later : j > m => j = n + 2
    BY <1>2, <2>1
  <2>3. MovesLeft(later, t, m) = Distance(t, later[m].target)
    BY <2>2 DEF MovesLeft
  <2> QED BY <1>2, <2>2, <2>3 DEF WorkByFrame
<1>8. PICK left \in Nat : left = SumOf(w, n)
  BY WorkTyped, SumIsNat
<1>9. left <= below
  BY <1>1, <1>8, NoMoreBelow
<1>10. rest + new < top
  BY <1>1
<1>11. (left + rest) + new < below + top
  BY <1>9, <1>10
<1> HIDE DEF w
<1>12. WorkOf(later, t, d) = (left + rest) + new
  BY <1>5, <1>6, <1>7, <1>8
<1> QED BY <1>1, <1>11, <1>12

-----------------------------------------------------------------------------
(* The work is a number, and fewer observers make a transition cheaper. *)
LEMMA CostTyped ==
  ASSUME NEW s \in Seq(Nat), NEW t \in Seq(Nat), t \in {s, <<>>}
  PROVE  /\ 2 * Len(s) + 2 \in Nat /\ 2 * Len(t) + 2 \in Nat
         /\ 2 * Len(t) + 2 <= 2 * Len(s) + 2
<1>1. PICK a \in Nat : a = Len(s)
  BY LenProperties
<1>2. PICK b \in Nat : b = Len(t)
  BY LenProperties
<1>3. b <= a
  <2>1. CASE t = s
    BY <1>1, <1>2, <2>1
  <2>2. CASE t = <<>>
    BY <1>1, <1>2, <2>2, EmptySeq
  <2> QED BY <2>1, <2>2
<1> QED BY <1>1, <1>2, <1>3

LEMMA RemainingTyped ==
  ASSUME TypeOK
  PROVE  Remaining \in Nat
  BY CostTyped, WorkTyped DEF TypeOK, Remaining, Cost

(* The stack, its top and what is below. *)
LEMMA TopFrame ==
  ASSUME TypeOK, stack # <<>>
  PROVE  \E n \in Nat :
           /\ stack \in Seq(Frames) /\ Len(stack) = n + 1 /\ DOMAIN stack = 1 .. n + 1
           /\ Top \in Frames /\ Top = stack[n + 1]
           /\ Below \in Seq(Frames) /\ Len(Below) = n /\ DOMAIN Below = 1 .. n
           /\ \A i \in 1 .. n : Below[i] = stack[i]
<1>1. PICK n \in Nat : Len(stack) = n + 1
  BY TopAndBelow
<1>2. stack \in Seq(Frames) /\ DOMAIN stack = 1 .. n + 1
  BY <1>1, LenProperties DEF TypeOK
<1>3. /\ Top \in Frames /\ Below \in Seq(Frames) /\ Len(Below) = n
      /\ \A i \in 1 .. n : Below[i] = stack[i]
  BY <1>1, TopAndBelow
<1>4. Top = stack[n + 1] /\ DOMAIN Below = 1 .. n
  BY <1>1, <1>3, LenProperties DEF Top
<1> QED BY <1>1, <1>2, <1>3, <1>4

LEMMA CostFalls ==
  ASSUME TypeOK, observers' \in {observers, <<>>}
  PROVE  Cost \in Nat /\ Cost' \in Nat /\ Cost' <= Cost
<1>1. observers \in Seq(Nat) /\ observers' \in Seq(Nat)
  BY EmptySeq DEF TypeOK
<1> QED BY <1>1, CostTyped DEF Cost

(* A frame returns to the one below. *)
LEMMA ReturnIsLess ==
  ASSUME TypeOK, TypeOK', stack # <<>>, NEW r, Return(r), observers' \in {observers, <<>>}
  PROVE  Remaining' < Remaining
<1>1. PICK n \in Nat :
           /\ stack \in Seq(Frames) /\ Len(stack) = n + 1 /\ DOMAIN stack = 1 .. n + 1
           /\ Below \in Seq(Frames) /\ Len(Below) = n /\ DOMAIN Below = 1 .. n
           /\ \A i \in 1 .. n : Below[i] = stack[i]
  BY TopFrame
<1>2. stack' = Below /\ state' = state /\ state \in States
  BY DEF Return, TypeOK
<1>3. KeepsBelow(stack, stack', state, state')
  BY <1>1, <1>2 DEF KeepsBelow
<1>4. Cost \in Nat /\ Cost' \in Nat /\ Cost' <= Cost
  BY CostFalls
<1> QED BY <1>1, <1>2, <1>3, <1>4, PopIsLess DEF Remaining

(* A loop over a snapshot calls the next observer. *)
LEMMA CallIsLess ==
  ASSUME TypeOK, TypeOK', stack # <<>>, Top.op \in {"apply", "subscribe"},
         Top.todo # <<>>, NEW rest \in Frames, NEW call \in Frames,
         rest.op = Top.op, rest.todo = Tail(Top.todo), call.op = "callback",
         stack' = Below \o <<rest, call>>, UNCHANGED <<state, observers>>
  PROVE  Remaining' < Remaining
<1>1. PICK n \in Nat :
           /\ stack \in Seq(Frames) /\ Len(stack) = n + 1 /\ DOMAIN stack = 1 .. n + 1
           /\ Top \in Frames /\ Top = stack[n + 1]
           /\ Below \in Seq(Frames) /\ Len(Below) = n /\ DOMAIN Below = 1 .. n
           /\ \A i \in 1 .. n : Below[i] = stack[i]
  BY TopFrame
<1>3. PICK left \in Nat \ {0} : left = Len(Top.todo) /\ Len(Tail(Top.todo)) = left - 1
  <2>1. Top.todo \in Seq(Nat) \/ Top.todo \in Seq(States)
    BY <1>1, FrameShapes
  <2>2. CASE Top.todo \in Seq(Nat)
    BY <2>2, EmptySeq, LenProperties, HeadTailProperties
  <2>3. CASE Top.todo \in Seq(States)
    BY <2>3, EmptySeq, LenProperties, HeadTailProperties
  <2> QED BY <2>1, <2>2, <2>3
<1>5. /\ stack' \in Seq(Frames) /\ Len(stack') = n + 2
      /\ stack'[n + 1] = rest /\ stack'[n + 2] = call
      /\ \A i \in 1 .. n : stack'[i] = stack[i]
  <2>1. /\ Below \o <<rest, call>> \in Seq(Frames)
        /\ Len(Below \o <<rest, call>>) = Len(Below) + 2
        /\ \A i \in 1 .. Len(Below) : (Below \o <<rest, call>>)[i] = Below[i]
        /\ (Below \o <<rest, call>>)[Len(Below) + 1] = rest
        /\ (Below \o <<rest, call>>)[Len(Below) + 2] = call
    <3>1. Below \in Seq(Frames)
      BY <1>1
    <3> QED BY ONLY <3>1, PushedTwo, rest \in Frames, call \in Frames
  <2> QED BY <1>1, <2>1
<1>6. DOMAIN stack' = 1 .. n + 2
  BY <1>5, LenProperties
<1>7. KeepsBelow(stack, stack', state, state')
  <2>1. \A i \in DOMAIN stack : i < n + 1 => i \in DOMAIN stack' /\ stack'[i] = stack[i]
    BY <1>1, <1>5, <1>6
  <2>2. ASSUME NEW j \in DOMAIN stack', j >= n + 1 PROVE stack'[j].op # "move_to"
    <3>1. j = n + 1 \/ j = n + 2
      BY <1>6, <2>2
    <3> QED BY <1>5, <3>1
  <2> QED BY <1>1, <2>1, <2>2 DEF KeepsBelow
<1>8. Cost \in Nat /\ Cost' = Cost /\ Cost <= Cost /\ state' = state /\ state \in States
  BY CostFalls DEF Cost, TypeOK
<1>9. \A c, m : /\ WorkLeft(Top, c, m) = 1 + 2 * left
                /\ WorkLeft(rest, c, m) = 1 + 2 * (left - 1)
                /\ WorkLeft(call, c, m) = 1
  BY <1>3 DEF WorkLeft
<1>10. /\ TopWork(stack, state, Cost) = 1 + 2 * left
       /\ TopWork(stack', state', Cost') = 1
       /\ WorkLeft(stack'[n + 1], Cost', Distance(state', stack'[n + 1].target))
            = 1 + 2 * (left - 1)
  BY <1>1, <1>5, <1>9 DEF TopWork
<1>11. PICK a \in Nat, b \in Nat, top \in Nat :
         /\ a = 1 + 2 * (left - 1) /\ b = 1 /\ top = 1 + 2 * left
         /\ a + b < top
  <2>1. /\ 1 + 2 * (left - 1) \in Nat /\ 1 \in Nat /\ 1 + 2 * left \in Nat
        /\ 1 + 2 * (left - 1) + 1 < 1 + 2 * left
    OBVIOUS
  <2> QED BY <2>1
<1>12. /\ stack \in Seq(Frames) /\ stack' \in Seq(Frames)
       /\ state \in States /\ state' \in States
       /\ Cost \in Nat /\ Cost' \in Nat /\ Cost' <= Cost
       /\ Len(stack) = n + 1 /\ Len(stack') = n + 2
       /\ KeepsBelow(stack, stack', state, state')
  BY <1>1, <1>5, <1>7, <1>8
<1>13. /\ stack'[n + 2].op # "move_to"
       /\ a = WorkLeft(stack'[n + 1], Cost', Distance(state', stack'[n + 1].target))
       /\ b = TopWork(stack', state', Cost')
       /\ a + b < TopWork(stack, state, Cost)
  BY <1>5, <1>10, <1>11
<1>14. WorkOf(stack', state', Cost') < WorkOf(stack, state, Cost)
  BY ONLY <1>12, <1>13, PushIsLess, n \in Nat, a \in Nat, b \in Nat
<1> QED BY <1>14 DEF Remaining

LEMMA SnapshotLen ==
  ASSUME observers \in Seq(Nat), NEW from, NEW next
  PROVE  Len(Snapshot(from, next)) = Len(observers)
<1>1. Len([i \in 1 .. Len(observers) |-> observers[Len(observers) + 1 - i]]) = Len(observers)
  OBVIOUS
<1> QED BY <1>1 DEF Snapshot

(* What apply puts on the stack, and the work in it. *)
LEMMA AppliedFrame ==
  ASSUME TypeOK, NEW next \in States, NEW below \in Seq(Frames), Apply(next, below)
  PROVE  \E f \in Frames, k \in Nat :
           /\ stack' = Append(below, f)
           /\ state' = next /\ state # "Destroyed" /\ Cost' = Cost
           /\ Cost = 2 * k + 2 /\ f.op = "apply"
           /\ \A c, m : WorkLeft(f, c, m) = 1 + 2 * k
<1> DEFINE f == ApplyFrame(next, Len(log) + 1, Snapshot(state, next))
<1>1. observers \in Seq(Nat) /\ Len(log) + 1 \in Nat
  BY LenProperties DEF TypeOK
<1>2. PICK k \in Nat : k = Len(observers)
  BY <1>1, LenProperties
<1>3. f \in Frames /\ f.op = "apply" /\ Len(f.todo) = k
  <2>1. Snapshot(state, next) \in Seq(Nat) /\ Len(Snapshot(state, next)) = k
    BY <1>1, <1>2, SnapshotType, SnapshotLen
  <2> QED BY <1>1, <2>1 DEF ApplyFrame, Frames
<1>4. stack' = Append(below, f) /\ state' = next /\ state # "Destroyed" /\ Cost' = Cost
  BY DEF Apply, Cost
<1> HIDE DEF f
<1>5. \A c, m : WorkLeft(f, c, m) = 1 + 2 * k
  BY <1>3 DEF WorkLeft
<1>6. Cost = 2 * k + 2
  BY <1>2 DEF Cost
<1> QED BY <1>2, <1>3, <1>4, <1>5, <1>6

(* destroy leaves the rest to the apply that is its tail call. *)
LEMMA DestroyIsLess ==
  ASSUME TypeOK, TypeOK', On("destroy"), Apply("Destroyed", Below)
  PROVE  Remaining' < Remaining
<1>1. PICK n \in Nat :
           /\ stack \in Seq(Frames) /\ Len(stack) = n + 1 /\ DOMAIN stack = 1 .. n + 1
           /\ Top \in Frames /\ Top = stack[n + 1]
           /\ Below \in Seq(Frames) /\ Len(Below) = n /\ DOMAIN Below = 1 .. n
           /\ \A i \in 1 .. n : Below[i] = stack[i]
  BY TopFrame DEF On
<1>2. PICK f \in Frames, k \in Nat :
           /\ stack' = Append(Below, f)
           /\ state' = "Destroyed" /\ state # "Destroyed" /\ Cost' = Cost
           /\ Cost = 2 * k + 2 /\ f.op = "apply"
           /\ \A c, m : WorkLeft(f, c, m) = 1 + 2 * k
  BY <1>1, AppliedFrame DEF States
<1>3. /\ stack' \in Seq(Frames) /\ Len(stack') = n + 1 /\ stack'[n + 1] = f
      /\ \A i \in 1 .. n : stack'[i] = stack[i]
  BY <1>1, <1>2, AppendProperties
<1>4. DOMAIN stack' = 1 .. n + 1
  BY <1>3, LenProperties
<1>5. KeepsBelow(stack, stack', state, state')
  <2>1. \A i \in DOMAIN stack : i < n + 1 => i \in DOMAIN stack' /\ stack'[i] = stack[i]
    BY <1>1, <1>3, <1>4
  <2>2. \A j \in DOMAIN stack' : j >= n + 1 => j = n + 1
    BY <1>4
  <2>3. \A j \in DOMAIN stack' : j >= n + 1 => stack'[j].op # "move_to"
    BY <1>2, <1>3, <2>2
  <2> QED BY <1>1, <1>2, <2>1, <2>3 DEF KeepsBelow
<1>6. Cost \in Nat /\ Cost' \in Nat /\ Cost' <= Cost /\ state \in States /\ state' \in States
  BY <1>2 DEF TypeOK
<1>7. TopWork(stack', state', Cost') = 1 + 2 * k
  BY <1>2, <1>3 DEF TopWork
<1>8. TopWork(stack, state, Cost) = 1 + (2 * k + 2)
  <2>1. stack[n + 1].op = "destroy"
    BY <1>1 DEF On
  <2> QED BY <1>1, <1>2, <2>1 DEF TopWork, WorkLeft
<1>9. 1 + 2 * k < 1 + (2 * k + 2)
  OBVIOUS
<1>10. TopWork(stack', state', Cost') < TopWork(stack, state, Cost)
  BY <1>7, <1>8, <1>9
<1>11. stack \in Seq(Frames) /\ Len(stack) = n + 1
  BY <1>1
<1>12. stack' \in Seq(Frames) /\ Len(stack') = n + 1
  BY <1>3
<1>13. WorkOf(stack', state', Cost') < WorkOf(stack, state, Cost)
  BY ONLY <1>5, <1>6, <1>10, <1>11, <1>12, ReplacingIsLess, n \in Nat
<1> QED BY <1>13 DEF Remaining

(* A round of move_to comes one transition nearer to its target. *)
LEMMA OneNearer ==
  ASSUME NEW target \in {"Created", "Started", "Resumed"},
         state \in States, state \notin {target, "Destroyed"}
  PROVE  /\ Distance(Towards(target), target) \in 0 .. 2
         /\ Distance(state, target) = Distance(Towards(target), target) + 1
<1>1. /\ Rank("Initialized") = 0 /\ Rank("Created") = 1
      /\ Rank("Started") = 2 /\ Rank("Resumed") = 3
      /\ FromRank(1) = "Created" /\ FromRank(2) = "Started" /\ FromRank(3) = "Resumed"
  BY DEF Rank, FromRank
<1>2. state \in {"Initialized", "Created", "Started", "Resumed"}
  BY DEF States
<1>3. CASE state = "Initialized"
  BY <1>1, <1>3 DEF Towards, Distance
<1>4. CASE state = "Created"
  BY <1>1, <1>4 DEF Towards, Distance
<1>5. CASE state = "Started"
  BY <1>1, <1>5 DEF Towards, Distance
<1>6. CASE state = "Resumed"
  BY <1>1, <1>6 DEF Towards, Distance
<1> QED BY <1>2, <1>3, <1>4, <1>5, <1>6

LEMMA MoveIsLess ==
  ASSUME TypeOK, TypeOK', On("move_to"), state # Top.target, state # "Destroyed",
         Apply(Towards(Top.target), stack)
  PROVE  Remaining' < Remaining
<1>1. PICK n \in Nat :
           /\ stack \in Seq(Frames) /\ Len(stack) = n + 1 /\ DOMAIN stack = 1 .. n + 1
           /\ Top \in Frames /\ Top = stack[n + 1]
  BY TopFrame DEF On
<1>2. PICK target \in {"Created", "Started", "Resumed"} :
        Top.target = target /\ stack[n + 1].op = "move_to" /\ stack[n + 1].target = target
  BY <1>1, FrameShapes DEF On
<1>3. state \in States /\ state' \in States /\ Towards(target) \in States
  BY <1>2, TowardsAdjacent DEF TypeOK, States
<1>4. PICK f \in Frames, k \in Nat :
           /\ stack' = Append(stack, f)
           /\ state' = Towards(target) /\ state # "Destroyed" /\ Cost' = Cost
           /\ Cost = 2 * k + 2 /\ f.op = "apply"
           /\ \A c, m : WorkLeft(f, c, m) = 1 + 2 * k
  BY <1>1, <1>2, <1>3, AppliedFrame
<1>5. /\ stack' \in Seq(Frames) /\ Len(stack') = n + 2
      /\ stack'[n + 2] = f /\ \A i \in 1 .. n + 1 : stack'[i] = stack[i]
  <2>1. /\ Append(stack, f) \in Seq(Frames) /\ Len(Append(stack, f)) = Len(stack) + 1
        /\ \A i \in 1 .. Len(stack) : Append(stack, f)[i] = stack[i]
        /\ Append(stack, f)[Len(stack) + 1] = f
    BY <1>1, AppendProperties
  <2>2. (n + 1) + 1 = n + 2
    OBVIOUS
  <2> QED BY <1>1, <1>4, <2>1, <2>2
<1>6. n + 1 \in 1 .. n + 1
  OBVIOUS
<1>7. KeepsBelow(stack, stack', state, state')
  <2>1. DOMAIN stack' = 1 .. n + 2
    BY <1>5, LenProperties
  <2>2. \A i \in DOMAIN stack : i \in DOMAIN stack' /\ stack'[i] = stack[i]
    BY <1>1, <1>5, <2>1
  <2> QED BY <1>1, <1>2, <2>2 DEF KeepsBelow
<1>8. PICK d \in 0 .. 2 : d = Distance(state', target) /\ Distance(state, target) = d + 1
  BY <1>2, <1>3, <1>4, OneNearer
<1>9. PICK c \in Nat : c = Cost
  BY <1>4
<1>10. c * d \in Nat /\ c * (d + 1) = c * d + c
  <2>1. d = 0 \/ d = 1 \/ d = 2
    OBVIOUS
  <2>2. c * 0 = 0 /\ c * 1 = c /\ c * 2 = c + c /\ c * 3 = c + c + c
    OBVIOUS
  <2> QED BY <2>1, <2>2
<1>11. TopWork(stack, state, Cost) = 1 + c * (d + 1)
  BY <1>1, <1>2, <1>8, <1>9 DEF TopWork, WorkLeft
<1>12. WorkLeft(stack'[n + 1], Cost', Distance(state', stack'[n + 1].target)) = 1 + c * d
  BY <1>2, <1>4, <1>5, <1>6, <1>8, <1>9 DEF WorkLeft
<1>13. TopWork(stack', state', Cost') = 1 + 2 * k
  BY <1>4, <1>5 DEF TopWork
<1>14. PICK a \in Nat, b \in Nat, top \in Nat :
         /\ a = 1 + c * d /\ b = 1 + 2 * k /\ top = 1 + c * (d + 1) /\ a + b < top
  <2>1. PICK e \in Nat : e = c * d
    BY <1>10
  <2>2. c = 2 * k + 2
    BY <1>4, <1>9
  <2>3. 1 + e \in Nat /\ 1 + 2 * k \in Nat /\ 1 + (e + c) \in Nat
    OBVIOUS
  <2>4. (1 + e) + (1 + 2 * k) < 1 + (e + c)
    BY <2>2
  <2> QED BY <1>10, <2>1, <2>3, <2>4
<1>15. /\ stack \in Seq(Frames) /\ stack' \in Seq(Frames)
       /\ state \in States /\ state' \in States
       /\ Cost \in Nat /\ Cost' \in Nat /\ Cost' <= Cost
       /\ Len(stack) = n + 1 /\ Len(stack') = n + 2
       /\ KeepsBelow(stack, stack', state, state')
  BY <1>1, <1>3, <1>4, <1>5, <1>7, <1>9
<1>16. /\ stack'[n + 2].op # "move_to"
       /\ a = WorkLeft(stack'[n + 1], Cost', Distance(state', stack'[n + 1].target))
       /\ b = TopWork(stack', state', Cost')
       /\ a + b < TopWork(stack, state, Cost)
  BY <1>4, <1>5, <1>11, <1>12, <1>13, <1>14
<1>17. WorkOf(stack', state', Cost') < WorkOf(stack, state, Cost)
  BY ONLY <1>15, <1>16, PushIsLess, n \in Nat, a \in Nat, b \in Nat
<1> QED BY <1>17 DEF Remaining

LEMMA RunsDown ==
  ASSUME TypeOK, TypeOK', Run \/ CallbackReturn
  PROVE  Remaining' < Remaining
<1>1. CASE Notify
  <2>1. stack # <<>> /\ Top \in [op : {"apply"}, event : States, n : Nat, todo : Seq(Nat)]
    BY <1>1, TopAndBelow, FrameShapes DEF Notify, On
  <2>2. Head(Top.todo) \in Nat /\ Tail(Top.todo) \in Seq(Nat)
    BY <1>1, <2>1, HeadTailProperties DEF Notify
  <2> DEFINE rest == [Top EXCEPT !.todo = Tail(@)]
             call == CallbackFrame(Head(Top.todo), Top.event)
  <2>3. rest \in Frames /\ rest.op = Top.op /\ rest.todo = Tail(Top.todo)
    BY <2>1, <2>2 DEF Frames
  <2>4. call \in Frames /\ call.op = "callback"
    BY <2>1, <2>2 DEF CallbackFrame, Frames
  <2>5. stack' = Below \o <<rest, call>> /\ UNCHANGED <<state, observers>>
    BY <1>1 DEF Notify
  <2> HIDE DEF rest, call
  <2> QED BY <1>1, <2>1, <2>3, <2>4, <2>5, CallIsLess DEF Notify
<1>2. CASE Replay
  <2>1. stack # <<>> /\ Top \in [op : {"subscribe"}, id : Nat, todo : Seq(States)]
    BY <1>2, TopAndBelow, FrameShapes DEF Replay, On
  <2>2. Head(Top.todo) \in States /\ Tail(Top.todo) \in Seq(States)
    BY <1>2, <2>1, HeadTailProperties DEF Replay
  <2> DEFINE rest == [Top EXCEPT !.todo = Tail(@)]
             call == CallbackFrame(Top.id, Head(Top.todo))
  <2>3. rest \in Frames /\ rest.op = Top.op /\ rest.todo = Tail(Top.todo)
    BY <2>1, <2>2 DEF Frames
  <2>4. call \in Frames /\ call.op = "callback"
    BY <2>1, <2>2 DEF CallbackFrame, Frames
  <2>5. stack' = Below \o <<rest, call>> /\ UNCHANGED <<state, observers>>
    BY <1>2 DEF Replay
  <2> HIDE DEF rest, call
  <2> QED BY <1>2, <2>1, <2>3, <2>4, <2>5, CallIsLess DEF Replay
<1>3. CASE ApplyDone \/ SubscribeDone \/ CallbackReturn
  BY <1>3, ReturnIsLess DEF ApplyDone, SubscribeDone, CallbackReturn, On
<1>4. CASE FinishDestroy
  BY <1>4, ReturnIsLess, DestroyIsLess DEF FinishDestroy, On
<1>5. CASE MoveToRound
  BY <1>5, ReturnIsLess, MoveIsLess DEF MoveToRound, On
<1> QED BY <1>1, <1>2, <1>3, <1>4, <1>5 DEF Run

(* No call of the registry can keep itself going, wherever in the nesting  *)
(* of calls and callbacks it is and whatever the bounds: each step of its  *)
(* own, and each return of an observer, takes from a number that is left,  *)
(* although move_to loops until the state it reads is its target and       *)
(* nested calls move that state away.  Only user code that calls the       *)
(* registry again adds to it, so that of finitely many calls every one     *)
(* returns.  (registry.rs 146-172, 188-220, 276-285, 436-466)              *)
THEOREM CallsRunDown ==
  Spec => /\ [](Remaining \in Nat)
          /\ [][Run \/ CallbackReturn => Remaining' < Remaining]_vars
<1>1. TypeOK => Remaining \in Nat
  BY RemainingTyped
<1>2. TypeOK /\ TypeOK' =>
        [Run \/ CallbackReturn => Remaining' < Remaining]_vars
  BY RunsDown
<1> QED BY <1>1, <1>2, TypeCorrect, PTL

=============================================================================
