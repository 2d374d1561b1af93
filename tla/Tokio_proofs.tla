----------------------------- MODULE Tokio_proofs ----------------------------
(***************************************************************************)
(* Proofs about the two parts of crates/essenty-lifecycle-tokio, for every *)
(* bound of the registry.  RepeatOnLifecycle, in every state in which the  *)
(* call finds the registry and for every min_state: first that blocks do   *)
(* not overlap, from the handles alone, then when a block is started,      *)
(* which takes what the registry tells the future and in which order.      *)
(* LifecycleScope, whatever the registry's owner and observers do and      *)
(* wherever they spawn.                                                    *)
(***************************************************************************)
EXTENDS RepeatOnLifecycle, LifecycleScope, LifecycleNotification_proofs

Lives == {"running", "aborted", "gone"}

(* The handles: a task that runs is in the slot of AbortOnDrop, one that   *)
(* was aborted is awaited or the future is over, and each of the two       *)
(* handles exists at one place of the loop only.                           *)
HandlesInv ==
  /\ phase \in Phases
  /\ blocks \in Seq(Lives)
  /\ child \in Nat /\ awaited \in Nat
  /\ child # 0 => phase = "recv" /\ child \in DOMAIN blocks
  /\ awaited # 0 => phase = "await" /\ awaited \in DOMAIN blocks
  /\ phase = "new" => blocks = <<>>
  /\ \A t \in DOMAIN blocks : blocks[t] = "running" => t = child
  /\ \A t \in DOMAIN blocks : blocks[t] = "aborted" => t = awaited \/ phase = "done"

(* What abort() makes of the tasks. *)
LEMMA AbortedTasks ==
  ASSUME NEW tasks \in Seq(Lives), NEW t \in {0} \cup DOMAIN tasks
  PROVE  /\ Aborted(tasks, t) \in Seq(Lives)
         /\ DOMAIN Aborted(tasks, t) = DOMAIN tasks
         /\ \A u \in DOMAIN tasks :
              Aborted(tasks, t)[u] =
                IF t # 0 /\ u = t /\ tasks[u] = "running" THEN "aborted" ELSE tasks[u]
<1>1. CASE t = 0 \/ tasks[t] # "running"
  BY <1>1 DEF Aborted
<1>2. CASE t # 0 /\ tasks[t] = "running"
  <2>1. Aborted(tasks, t) = [tasks EXCEPT ![t] = "aborted"]
    BY <1>2 DEF Aborted
  <2>2. t \in 1 .. Len(tasks) /\ DOMAIN tasks = 1 .. Len(tasks)
    BY <1>2, LenProperties
  <2> QED
    BY <1>2, <2>1, <2>2, ExceptSeq DEF Lives
<1> QED
  BY <1>1, <1>2

(* No step but those on the handles touches them. *)
LEMMA HandlesUntouched ==
  ASSUME HandlesInv, UNCHANGED loopVars
  PROVE  HandlesInv' /\ Block' = Block /\ phase' = phase
  BY DEF HandlesInv, Block, loopVars

(* The end of the future, by return or by drop, tells the block to leave. *)
LEMMA EndKeepsPromise ==
  ASSUME HandlesInv, phase # "done", End
  PROVE  HandlesInv' /\ Promise!End
<1>1. child \in {0} \cup DOMAIN blocks
  BY DEF HandlesInv
<1>2. /\ blocks' \in Seq(Lives)
      /\ DOMAIN blocks' = DOMAIN blocks
      /\ \A u \in DOMAIN blocks :
           blocks'[u] = IF child # 0 /\ u = child /\ blocks[u] = "running"
                        THEN "aborted" ELSE blocks[u]
  BY <1>1, AbortedTasks DEF End, HandlesInv
<1>3. phase' = "done" /\ child' = 0 /\ awaited' = 0
  BY DEF End
<1>4. \A u \in DOMAIN blocks' : blocks'[u] # "running"
  BY <1>2 DEF HandlesInv
<1>5. HandlesInv'
  BY <1>2, <1>3, <1>4 DEF HandlesInv, Phases
<1>6. CASE \E t \in DOMAIN blocks : blocks[t] = "running"
  <2>1. \E t \in DOMAIN blocks' : blocks'[t] = "aborted"
    BY <1>2, <1>6 DEF HandlesInv
  <2>2. Block = "in" /\ Block' = "leaving"
    BY <1>4, <1>6, <2>1 DEF Block
  <2> QED
    BY <1>3, <1>5, <2>2 DEF Promise!End
<1>7. CASE ~ \E t \in DOMAIN blocks : blocks[t] = "running"
  <2>1. \A t \in DOMAIN blocks : blocks'[t] = blocks[t]
    BY <1>2, <1>7
  <2>2. Block # "in" /\ Block' = Block
    BY <1>2, <1>7, <2>1 DEF Block
  <2> QED
    BY <1>3, <1>5, <2>2 DEF Promise!End
<1> QED
  BY <1>6, <1>7

(* stop_child tells the block to leave, if there is one in the slot. *)
LEMMA StopKeepsPromise ==
  ASSUME HandlesInv, phase = "recv", StopChild
  PROVE  HandlesInv' /\ (Promise!Tell \/ UNCHANGED <<Block, phase = "done">>)
<1>1. child \in {0} \cup DOMAIN blocks /\ awaited = 0
  BY DEF HandlesInv
<1>2. /\ blocks' \in Seq(Lives)
      /\ DOMAIN blocks' = DOMAIN blocks
      /\ \A u \in DOMAIN blocks :
           blocks'[u] = IF child # 0 /\ u = child /\ blocks[u] = "running"
                        THEN "aborted" ELSE blocks[u]
  BY <1>1, AbortedTasks DEF StopChild, HandlesInv
<1>3. phase' = "await" /\ child' = 0 /\ awaited' = child
  BY DEF StopChild
<1>4. \A u \in DOMAIN blocks' : blocks'[u] # "running"
  BY <1>2 DEF HandlesInv
<1>5. \A u \in DOMAIN blocks' : blocks'[u] = "aborted" => u = awaited'
  BY <1>1, <1>2, <1>3 DEF HandlesInv
<1>6. HandlesInv'
  BY <1>1, <1>2, <1>3, <1>4, <1>5 DEF HandlesInv, Phases
<1>7. CASE \E t \in DOMAIN blocks : blocks[t] = "running"
  <2>1. \E t \in DOMAIN blocks' : blocks'[t] = "aborted"
    BY <1>1, <1>2, <1>7 DEF HandlesInv
  <2>2. Block = "in" /\ Block' = "leaving"
    BY <1>4, <1>7, <2>1 DEF Block
  <2> QED
    BY <1>3, <1>6, <2>2 DEF Promise!Tell
<1>8. CASE ~ \E t \in DOMAIN blocks : blocks[t] = "running"
  <2>1. \A t \in DOMAIN blocks : blocks'[t] = blocks[t]
    BY <1>2, <1>8
  <2>2. Block' = Block
    BY <1>2, <1>8, <2>1 DEF Block
  <2> QED
    BY <1>3, <1>6, <2>2
<1> QED
  BY <1>7, <1>8

(* A block is entered only when the one before it is gone. *)
LEMMA SpawnKeepsPromise ==
  ASSUME HandlesInv, SpawnChild
  PROVE  HandlesInv' /\ Promise!Enter
<1>1. child = 0 /\ awaited = 0 /\ phase = "block"
  BY DEF HandlesInv, SpawnChild
<1>2. Block = "out"
  BY <1>1 DEF HandlesInv, Block
<1>3. Len(blocks) \in Nat /\ DOMAIN blocks = 1 .. Len(blocks)
  BY LenProperties DEF HandlesInv
<1>4. /\ blocks' \in Seq(Lives)
      /\ Len(blocks') = Len(blocks) + 1
      /\ DOMAIN blocks' = 1 .. Len(blocks) + 1
      /\ \A u \in 1 .. Len(blocks) : blocks'[u] = blocks[u]
      /\ blocks'[Len(blocks) + 1] = "running"
  BY AppendProperties DEF SpawnChild, HandlesInv, Lives
<1>5. child' = Len(blocks) + 1 /\ phase' = "recv" /\ awaited' = 0
  BY <1>1, <1>4 DEF SpawnChild
<1>6. \A u \in DOMAIN blocks' : blocks'[u] = "running" => u = child'
  BY <1>1, <1>3, <1>4, <1>5 DEF HandlesInv
<1>7. \A u \in DOMAIN blocks' : blocks'[u] # "aborted"
  BY <1>1, <1>3, <1>4, <1>5 DEF HandlesInv
<1>8. HandlesInv'
  BY <1>3, <1>4, <1>5, <1>6, <1>7 DEF HandlesInv, Phases
<1>9. Block' = "in"
  BY <1>3, <1>4 DEF Block
<1> QED
  BY <1>1, <1>2, <1>5, <1>8, <1>9 DEF Promise!Enter

(* When a task is gone, the block is out, or it was not the last to leave. *)
LEMMA LeaveKeepsPromise ==
  ASSUME HandlesInv, NEW t \in DOMAIN blocks, Leave(t)
  PROVE  HandlesInv' /\ (Promise!Left \/ UNCHANGED <<Block, phase = "done">>)
<1>1. UNCHANGED <<phase, child, awaited>>
  BY DEF Leave
<1>2. Len(blocks) \in Nat /\ DOMAIN blocks = 1 .. Len(blocks)
  BY LenProperties DEF HandlesInv
<1>3. /\ blocks' \in Seq(Lives)
      /\ DOMAIN blocks' = DOMAIN blocks
      /\ blocks'[t] = "gone"
      /\ \A u \in DOMAIN blocks : u # t => blocks'[u] = blocks[u]
  BY <1>2, ExceptSeq DEF Leave, HandlesInv, Lives
<1>4. HandlesInv'
  BY <1>1, <1>3 DEF HandlesInv
<1>5. CASE blocks[t] = "running"
  <2>1. t = child /\ awaited = 0 /\ phase = "recv"
    BY <1>2, <1>5 DEF HandlesInv
  <2>2. \A u \in DOMAIN blocks' : blocks'[u] \notin {"running", "aborted"}
    BY <1>2, <1>3, <2>1 DEF HandlesInv
  <2>3. Block = "in" /\ Block' = "out"
    BY <1>5, <2>2 DEF Block
  <2> QED
    BY <1>1, <1>4, <2>3 DEF Promise!Left
<1>6. CASE blocks[t] = "aborted"
  <2>1. child = 0
    BY <1>2, <1>6 DEF HandlesInv
  <2>2. \A u \in DOMAIN blocks : blocks[u] # "running"
    BY <1>2, <2>1 DEF HandlesInv
  <2>3. Block = "leaving"
    BY <1>6, <2>2 DEF Block
  <2>4. Block' \in {"leaving", "out"}
    BY <1>3, <2>2 DEF Block
  <2> QED
    BY <1>1, <1>4, <2>3, <2>4 DEF Promise!Left
<1> QED
  BY <1>5, <1>6, ElementOfSeq DEF Leave, HandlesInv, Lives

(* Every step of the future, of a task or of the registry keeps both. *)
LEMMA RepeatStep ==
  ASSUME HandlesInv, [RepeatNext]_repeatAll
  PROVE  HandlesInv' /\ [Promise!Next]_<<Block, phase = "done">>
<1> USE DEF Promise!Next
<1>1. CASE UNCHANGED loopVars
  BY <1>1, HandlesUntouched
<1>2. CASE FirstPoll
  <2>1. CASE End
    BY <1>2, <2>1, EndKeepsPromise DEF FirstPoll
  <2>2. CASE phase' = "recv" /\ UNCHANGED <<child, awaited, blocks>>
    <3>1. phase = "new" /\ blocks = <<>> /\ child = 0 /\ awaited = 0
      BY <1>2 DEF FirstPoll, HandlesInv
    <3>2. HandlesInv'
      BY <2>2, <3>1 DEF HandlesInv, Phases
    <3>3. Block' = Block
      BY <2>2 DEF Block
    <3> QED
      BY <2>2, <3>1, <3>2, <3>3
  <2> QED
    BY <1>2, <2>1, <2>2 DEF FirstPoll
<1>3. CASE Recv
  <2>1. phase = "recv"
    BY <1>3 DEF Recv
  <2>2. CASE StopChild
    BY <2>1, <2>2, StopKeepsPromise
  <2>3. CASE phase' \in {"recv", "block"} /\ UNCHANGED <<child, awaited, blocks>>
             /\ (phase' = "block" => child = 0)
    <3>1. HandlesInv'
      BY <2>1, <2>3 DEF HandlesInv, Phases
    <3>2. Block' = Block
      BY <2>3 DEF Block
    <3> QED
      BY <2>1, <2>3, <3>1, <3>2
  <2> QED
    BY <1>3, <2>1, <2>2, <2>3 DEF Recv
<1>4. CASE SpawnChild
  BY <1>4, SpawnKeepsPromise
<1>5. CASE Awaited
  <2>1. phase = "await"
    BY <1>5 DEF Awaited
  <2>2. CASE End
    BY <2>1, <2>2, EndKeepsPromise
  <2>3. CASE phase' = "recv" /\ awaited' = 0 /\ UNCHANGED <<child, blocks>>
    <3>1. \A t \in DOMAIN blocks : blocks[t] # "aborted"
      BY <1>5, <2>1, LenProperties DEF Awaited, HandlesInv
    <3>2. HandlesInv'
      BY <2>1, <2>3, <3>1 DEF HandlesInv, Phases
    <3>3. Block' = Block
      BY <2>3 DEF Block
    <3> QED
      BY <2>1, <2>3, <3>2, <3>3
  <2> QED
    BY <1>5, <2>2, <2>3 DEF Awaited
<1>6. CASE DropFuture
  BY <1>6, EndKeepsPromise DEF DropFuture
<1>7. CASE \E t \in DOMAIN blocks : Leave(t)
  BY <1>7, LeaveKeepsPromise
<1> QED
  BY <1>1, <1>2, <1>3, <1>4, <1>5, <1>6, <1>7 DEF RepeatNext, Poll, RunOn, repeatAll, repeatVars

(* repeat_on_lifecycle keeps the promise of RepeatBlock: whatever the      *)
(* registry and its other observers do, whenever tasks finish and wherever *)
(* the future is dropped, blocks do not overlap and the end leaves none    *)
(* that was not told to leave. (repeat.rs 14-40, 183-235)                  *)
THEOREM RepeatImplementsBlock == RepeatSpec => KeepsPromise
<1>1. RepeatInit => HandlesInv /\ Promise!Init
  <2> SUFFICES ASSUME RepeatInit PROVE HandlesInv /\ Promise!Init
    OBVIOUS
  <2>1. blocks = <<>> /\ phase = "new" /\ child = 0 /\ awaited = 0
    BY DEF RepeatInit
  <2>2. blocks \in Seq(Lives) /\ DOMAIN blocks = {}
    BY <2>1, EmptySeq
  <2>3. HandlesInv
    BY <2>1, <2>2 DEF HandlesInv, Phases
  <2>4. Block = "out"
    BY <2>2 DEF Block
  <2> QED
    BY <2>1, <2>3, <2>4 DEF Promise!Init
<1>2. HandlesInv /\ [RepeatNext]_repeatAll
        => HandlesInv' /\ [Promise!Next]_<<Block, phase = "done">>
  BY RepeatStep
<1> QED
  BY <1>1, <1>2, PTL DEF RepeatSpec, KeepsPromise, Promise!Spec

-----------------------------------------------------------------------------
(* The future's subscribe, while it replays, is the outermost call, with   *)
(* nothing but a call of the future's own observer above it.               *)
Mine(f) == f.op = "subscribe" /\ f.id = sub

Catching ==
  \A i \in DOMAIN stack : Mine(stack[i]) =>
    /\ i = 1 /\ Len(stack) <= 2
    /\ Len(stack) = 2 => stack[2].op = "callback" /\ stack[2].id = sub

(* The inbox holds the calls of the future's observer, replays first. *)
HoldsMine ==
  \A k \in DOMAIN deliveries : deliveries[k].id = sub =>
    \E j \in DOMAIN sent : sent[j] = deliveries[k]

OfTheLog ==
  \A j \in DOMAIN sent : sent[j].n > 0 =>
    sent[j].n \in DOMAIN log /\ sent[j].event = log[sent[j].n].to

ReplaysFirst ==
  /\ \A j, k \in DOMAIN sent : j < k /\ sent[k].n = 0 => sent[j].n = 0
  /\ Subscribing(sub) => \A j \in DOMAIN sent : sent[j].n = 0

Inbox ==
  /\ sent \in Seq([id : Nat, event : States, n : Nat])
  /\ taken \in 0 .. Len(sent)
  /\ sub \in -1 .. nextId - 1
  /\ phase = "new" => sub = -1 /\ sent = <<>> /\ taken = 0
  /\ phase \notin {"new", "done"} => sub # -1
  /\ HoldsMine /\ OfTheLog /\ ReplaysFirst

(* Once it is subscribed, the observer of a future that goes on takes part *)
(* in every transition, and before the first of them what it was replayed  *)
(* ends with the state.                                                    *)
TakesPart(n) == sub \in log[n].registered

ReplaysToLast ==
  \A i \in DOMAIN stack : Mine(stack[i]) /\ stack[i].todo # <<>> =>
    stack[i].todo[Len(stack[i].todo)] = state

HeardTheState ==
  \/ sent # <<>> /\ sent[Len(sent)].event = state
  \/ sent = <<>> /\ state = "Initialized"

CaughtUp ==
  /\ ReplaysToLast
  /\ (\A i \in DOMAIN stack : Mine(stack[i]) => stack[i].todo = <<>>) => HeardTheState

Follows ==
  phase \notin {"new", "done"} =>
    /\ minState # "Initialized"
    /\ state = "Destroyed" \/ Observes(sub)
    /\ (\E n \in DOMAIN log : TakesPart(n)) => TakesPart(Len(log))
    /\ (\A n \in DOMAIN log : ~ TakesPart(n)) => CaughtUp

(* What the loop has made of the events it took. *)
Active(k) == IsActive(sent[k].event, minState)

EntrySet == {k \in 1 .. taken : Active(k) /\ (k > 1 => ~ Active(k - 1))}

LoopInv ==
  /\ phase = "recv"  => (child # 0 <=> taken > 0 /\ Active(taken))
  /\ phase = "block" => taken \in EntrySet
  /\ phase = "await" => taken > 0 /\ ~ Active(taken)
  /\ phase = "block" => Len(blocks) + 1 = Entries
  /\ phase \in {"recv", "await"} => Len(blocks) = Entries

FutureInv == RegistryInv /\ Catching /\ Inbox /\ Follows /\ HandlesInv /\ LoopInv

-----------------------------------------------------------------------------
(* While the future subscribes, nobody but it runs. *)
LEMMA NobodyElse ==
  ASSUME TypeOK, Catching, Subscribing(sub)
  PROVE  /\ stack # <<>> /\ Len(stack) \in {1, 2}
         /\ DOMAIN stack = 1 .. Len(stack) /\ Mine(stack[1])
         /\ Len(stack) = 2 => stack[2].op = "callback" /\ stack[2].id = sub
         /\ ~ (UserCode /\ ~ InMine)
<1>1. Len(stack) \in Nat /\ DOMAIN stack = 1 .. Len(stack)
  BY LenProperties DEF TypeOK
<1>2. PICK i \in DOMAIN stack : Mine(stack[i])
  BY DEF Subscribing, Mine
<1>3. /\ i = 1 /\ Len(stack) <= 2
      /\ Len(stack) = 2 => stack[2].op = "callback" /\ stack[2].id = sub
  BY <1>2 DEF Catching
<1>4. Len(stack) \in {1, 2} /\ stack # <<>>
  BY <1>1, <1>2, <1>3
<1>5. ~ (UserCode /\ ~ InMine)
  BY <1>2, <1>3, <1>4 DEF UserCode, InMine, On, Top, Mine
<1> QED BY <1>1, <1>2, <1>3, <1>4, <1>5

(* The future drops its guard only where its owner could. *)
LEMMA EndUnsubscribes ==
  ASSUME TypeOK, Catching, Inbox, End, UserCode, ~ InMine
  PROVE  [Next]_vars
<1>1. UNCHANGED <<state, nextId, stack, ret, log, deliveries>> /\ observers' = Without(sub)
  BY DEF End
<1>2. CASE sub = -1
  <2>1. \A i \in DOMAIN observers : observers[i] # sub
    BY <1>2, LenProperties, ElementOfSeq DEF TypeOK
  <2>2. Without(sub) = observers
    BY <2>1 DEF Without
  <2> QED BY <1>1, <2>2 DEF vars
<1>3. CASE sub # -1
  <2>1. sub \in 0 .. nextId - 1
    BY <1>3 DEF Inbox, TypeOK
  <2>2. ~ Subscribing(sub)
    BY NobodyElse
  <2>3. Unsubscribe(sub)
    BY <1>1, <2>2 DEF Unsubscribe
  <2> QED BY <2>1, <2>3 DEF Next, Call, Components
<1> QED BY <1>2, <1>3

(* The steps of the future next to a registry. *)
LEMMA FutureSteps ==
  ASSUME TypeOK, Catching, Inbox, [RepeatNext]_repeatAll
  PROVE  /\ [Next]_vars
         /\ \/ UNCHANGED <<vars, minState, sub, sent>>
            \/ End /\ UserCode /\ ~ InMine
            \/ FirstPoll /\ Subscribe /\ sub' = nextId /\ phase' = "recv"
            \/ ~ InMine /\ RepeatOtherCall /\ UNCHANGED repeatVars
            \/ RunOn
<1>0. stack = <<>> => UserCode /\ ~ InMine
  BY DEF UserCode, InMine, On
<1>1. CASE Recv \/ SpawnChild \/ \E t \in DOMAIN blocks : Leave(t)
  BY <1>1 DEF Recv, SpawnChild, Leave, vars
<1>2. CASE FirstPoll
  BY <1>0, <1>2, EndUnsubscribes DEF FirstPoll, Next, Call, Components
<1>3. CASE Awaited
  BY <1>0, <1>3, EndUnsubscribes DEF Awaited, vars
<1>4. CASE DropFuture
  BY <1>4, EndUnsubscribes DEF DropFuture
<1>5. CASE ~ InMine /\ RepeatOtherCall /\ UNCHANGED repeatVars
  BY <1>5 DEF RepeatOtherCall, Next, Call, Components
<1>6. CASE RunOn
  BY <1>6 DEF RunOn, Next
<1>7. CASE UNCHANGED repeatAll
  BY <1>7 DEF repeatAll, repeatVars, loopVars, vars
<1> QED BY <1>1, <1>2, <1>3, <1>4, <1>5, <1>6, <1>7 DEF RepeatNext, Poll

(* No later subscription is the future's. *)
LEMMA NoneComes ==
  ASSUME RegistryInv, sub \in -1 .. nextId - 1, ~ Subscribing(sub), [Next]_vars,
         UNCHANGED sub
  PROVE  ~ Subscribing(sub)'
<1>0. TypeOK /\ nextId \in Nat
  BY DEF RegistryInv, TypeOK
<1>1. CASE Silent
  BY <1>1 DEF Silent, Subscribing
<1>2. CASE Applies
  <2>1. PICK next \in States, below \in Seq(Frames) :
          /\ Apply(next, below)
          /\ \A i \in DOMAIN below : \E j \in DOMAIN stack : stack[j] = below[i]
    BY <1>2 DEF Applies
  <2> DEFINE f == ApplyFrame(next, Len(log) + 1, Snapshot(state, next))
  <2>2. f \in Frames /\ f.op = "apply"
    BY <1>0, SnapshotType, LenProperties DEF ApplyFrame, Frames, TypeOK
  <2>3. stack' = Append(below, f)
    BY <2>1 DEF Apply
  <2> HIDE DEF f
  <2>4. /\ DOMAIN stack' = 1 .. Len(below) + 1
        /\ DOMAIN below = 1 .. Len(below) /\ Len(below) \in Nat
        /\ \A i \in 1 .. Len(below) : stack'[i] = below[i]
        /\ stack'[Len(below) + 1] = f
    BY <2>2, <2>3, AppendProperties, LenProperties
  <2> QED BY <2>1, <2>2, <2>4 DEF Subscribing
<1>3. CASE Subscribe
  <2> DEFINE f == SubscribeFrame(nextId, CatchUp(state))
  <2>1. f \in Frames /\ f.op = "subscribe" /\ f.id = nextId
    BY <1>0, CatchUpType DEF SubscribeFrame, Frames, TypeOK
  <2>2. stack' = Append(stack, f)
    BY <1>3 DEF Subscribe
  <2> HIDE DEF f
  <2>3. /\ DOMAIN stack' = 1 .. Len(stack) + 1
        /\ DOMAIN stack = 1 .. Len(stack) /\ Len(stack) \in Nat
        /\ \A i \in 1 .. Len(stack) : stack'[i] = stack[i]
        /\ stack'[Len(stack) + 1] = f
    BY <1>0, <2>1, <2>2, AppendProperties, LenProperties DEF TypeOK
  <2> QED BY <1>0, <2>1, <2>3 DEF Subscribing
<1>4. CASE Notify \/ Replay
  <2>1. PICK f, g, top, d :
          /\ CallsOne(f, g, top, d)
          /\ f.op = "subscribe" => g.id = f.id
    BY <1>0, <1>4, NotifyDoes, ReplayDoes DEF NotifyEffect, ReplayEffect
  <2>2. ASSUME NEW i \in 1 .. top + 1, stack'[i].op = "subscribe", stack'[i].id = sub
        PROVE  FALSE
    <3>0. top \in Nat /\ stack'[top + 1].op = "callback"
      BY <2>1 DEF CallsOne
    <3>1. i \in 1 .. top
      <4>1. i # top + 1
        BY <2>2, <3>0
      <4> QED BY <3>0, <4>1
    <3>2. i \in DOMAIN stack /\ stack[i].op = "subscribe" /\ stack[i].id = sub
      <4>1. i \in DOMAIN stack /\ stack[top] = f /\ stack'[top] = g /\ g.op = f.op
        BY <2>1, <3>1 DEF CallsOne
      <4>2. CASE i = top
        BY <2>1, <2>2, <4>1, <4>2
      <4>3. CASE i # top
        <5>1. i \in 1 .. top - 1
          BY <3>0, <3>1, <4>3
        <5>2. stack'[i] = stack[i]
          BY <2>1, <5>1 DEF CallsOne
        <5> QED BY <2>2, <4>1, <5>2
      <4> QED BY <4>2, <4>3
    <3> QED BY <3>2 DEF Subscribing
  <2> QED BY <2>1, <2>2 DEF Subscribing, CallsOne
<1> QED BY <1>0, <1>1, <1>2, <1>3, <1>4, TellKinds

(* The calls of the registry run on while the future subscribes. *)
LEMMA CatchingRunsOn ==
  ASSUME TypeOK, Catching, Subscribing(sub), RunOn
  PROVE  Catching'
<1>1. /\ stack # <<>> /\ Len(stack) \in {1, 2}
      /\ DOMAIN stack = 1 .. Len(stack) /\ Mine(stack[1])
      /\ Len(stack) = 2 => stack[2].op = "callback" /\ stack[2].id = sub
      /\ UNCHANGED sub
  BY NobodyElse DEF RunOn, loopVars
<1>2. CASE Replay
  <2>1. PICK f, g, top, d :
          CallsOne(f, g, top, d) /\ f.op = "subscribe" /\ g.id = f.id /\ d.id = f.id
    BY <1>2, ReplayDoes DEF ReplayEffect
  <2>2. top = Len(stack) /\ stack[top].op = "subscribe"
    BY <2>1 DEF CallsOne
  <2>3. top = 1
    BY <1>1, <2>2
  <2>4. /\ DOMAIN stack' = 1 .. 2 /\ stack'[1] = g /\ f = stack[1]
        /\ stack'[2].op = "callback" /\ stack'[2].id = d.id
    BY <2>1, <2>3 DEF CallsOne
  <2>5. Len(stack') = 2
    BY <2>4, LenProperties, TypeStep DEF RunOn, Next, TypeOK
  <2> QED BY <1>1, <2>1, <2>4, <2>5 DEF Catching, Mine
<1>3. CASE SubscribeDone \/ CallbackReturn
  <2>1. stack' = Below
    BY <1>3 DEF SubscribeDone, CallbackReturn, Return
  <2>2. /\ Below \in Seq(Frames) /\ Len(Below) = Len(stack) - 1
        /\ \A i \in 1 .. Len(stack) - 1 : Below[i] = stack[i]
    BY <1>1, TopAndBelow
  <2>3. DOMAIN stack' = 1 .. Len(stack) - 1
    BY <2>1, <2>2, LenProperties
  <2>4. \A i \in DOMAIN stack' : i = 1
    BY <1>1, <2>3
  <2>5. Len(stack') <= 1
    BY <1>1, <2>1, <2>2
  <2> QED BY <2>4, <2>5 DEF Catching
<1> QED BY <1>1, <1>2, <1>3
        DEF RunOn, Run, Notify, ApplyDone, FinishDestroy, MoveToRound, On, Top, Mine

LEMMA CatchingStep ==
  ASSUME RegistryInv, Catching, Inbox, [RepeatNext]_repeatAll
  PROVE  /\ Catching'
         /\ UNCHANGED sub /\ Subscribing(sub)' => Subscribing(sub)
<1>0. TypeOK
  BY DEF RegistryInv
<1>1. [Next]_vars
  BY <1>0, FutureSteps
<1>2. UNCHANGED sub /\ ~ Subscribing(sub) => ~ Subscribing(sub)'
  BY <1>1, NoneComes DEF Inbox
<1>3. CASE UNCHANGED sub /\ ~ Subscribing(sub)
  BY <1>2, <1>3 DEF Catching, Subscribing, Mine
<1>4. CASE UNCHANGED <<vars, sub>>
  <2>1. stack' = stack /\ sub' = sub
    BY <1>4 DEF vars
  <2> QED BY <1>2, <2>1 DEF Catching, Mine
<1>5. CASE Subscribing(sub) /\ RunOn
  BY <1>0, <1>5, CatchingRunsOn
<1>6. CASE FirstPoll /\ Subscribe /\ sub' = nextId
  <2> DEFINE f == SubscribeFrame(nextId, CatchUp(state))
  <2>1. f \in Frames
    BY <1>0, CatchUpType DEF SubscribeFrame, Frames, TypeOK
  <2>2. stack' = Append(stack, f) /\ stack = <<>>
    BY <1>6 DEF Subscribe, FirstPoll
  <2> HIDE DEF f
  <2>3. Len(stack') = 1 /\ DOMAIN stack' = 1 .. 1
    BY <1>0, <2>1, <2>2, AppendProperties, LenProperties, EmptySeq DEF TypeOK
  <2>4. \A i \in DOMAIN stack' : i = 1
    BY <2>3
  <2> QED BY <1>2, <2>3, <2>4 DEF Catching, Mine
<1>7. Subscribing(sub) => stack # <<>> /\ ~ (UserCode /\ ~ InMine)
  BY <1>0, NobodyElse
<1>8. RepeatOtherCall => UserCode
  BY DEF RepeatOtherCall, StrictStep, Step, Destroy, MoveTo, MayTransition, Subscribe,
         Unsubscribe
<1>9. CASE UNCHANGED sub
  BY <1>0, <1>2, <1>3, <1>4, <1>5, <1>7, <1>8, <1>9, FutureSteps DEF FirstPoll
<1>10. CASE sub' # sub
  BY <1>0, <1>6, <1>10, FutureSteps DEF RunOn, loopVars, repeatVars, End
<1> QED BY <1>2, <1>9, <1>10

-----------------------------------------------------------------------------
(* What a step does to the place in the loop. *)
LEMMA PhaseSteps ==
  ASSUME [RepeatNext]_repeatAll
  PROVE  /\ \/ taken' = taken
            \/ taken' = taken + 1 /\ taken < Len(sent) /\ UNCHANGED sent
         /\ phase' = "new" => UNCHANGED <<phase, sub, taken>>
         /\ phase' \notin {"new", "done"} =>
              \/ phase \notin {"new", "done"} /\ UNCHANGED <<sub, minState>>
              \/ /\ FirstPoll /\ Subscribe /\ sub' = nextId
                 /\ phase = "new" /\ minState # "Initialized" /\ state # "Destroyed"
                 /\ UNCHANGED <<minState, sent>>
<1>1. CASE Recv \/ SpawnChild \/ \E t \in DOMAIN blocks : Leave(t)
  BY <1>1 DEF Recv, SpawnChild, Leave, StopChild
<1>2. CASE FirstPoll
  BY <1>2 DEF FirstPoll, End
<1>3. CASE Awaited
  BY <1>3 DEF Awaited, End
<1>4. CASE DropFuture
  BY <1>4 DEF DropFuture, End
<1>5. CASE UNCHANGED loopVars
  BY <1>5 DEF loopVars
<1> QED BY <1>1, <1>2, <1>3, <1>4, <1>5
        DEF RepeatNext, Poll, RunOn, repeatAll, repeatVars

(* What the future's observer sends, if it is called. *)
LEMMA SentStep ==
  ASSUME TypeOK, RunOn
  PROVE  \/ UNCHANGED <<deliveries, sent>>
         \/ \E f, g, top, d :
              /\ NotifyEffect(f, g, top, d) \/ ReplayEffect(f, g, top, d)
              /\ sent' = IF d.id = sub THEN Append(sent, d) ELSE sent
<1>1. CASE UNCHANGED deliveries
  BY <1>1 DEF RunOn
<1>2. CASE Notify \/ Replay
  <2>1. PICK f, g, top, d : NotifyEffect(f, g, top, d) \/ ReplayEffect(f, g, top, d)
    BY <1>2, NotifyDoes, ReplayDoes
  <2>2. /\ d \in [id : Nat, event : States, n : Nat]
        /\ deliveries' = Append(deliveries, d)
    BY <2>1 DEF NotifyEffect, ReplayEffect, CallsOne
  <2>3. /\ Len(deliveries') = Len(deliveries) + 1 /\ Len(deliveries) \in Nat
        /\ deliveries'[Len(deliveries) + 1] = d
    BY <2>2, AppendProperties, LenProperties DEF TypeOK
  <2>4. deliveries' # deliveries /\ deliveries'[Len(deliveries')] = d
    BY <2>3
  <2> QED BY <2>1, <2>4 DEF RunOn
<1> QED BY <1>1, <1>2 DEF RunOn, Run, ApplyDone, FinishDestroy, MoveToRound, Apply, Return,
                       SubscribeDone, CallbackReturn

(* What one more call does to the inbox. *)
LEMMA InboxGrows ==
  ASSUME Inbox, NEW d \in [id : Nat, event : States, n : Nat], sent' = Append(sent, d)
  PROVE  \E last \in Nat \ {0} :
           /\ sent' \in Seq([id : Nat, event : States, n : Nat])
           /\ Len(sent) = last - 1 /\ Len(sent') = last
           /\ DOMAIN sent = 1 .. last - 1 /\ DOMAIN sent' = 1 .. last
           /\ sent'[last] = d
           /\ \A j \in DOMAIN sent : j \in DOMAIN sent' /\ j # last /\ sent'[j] = sent[j]
           /\ \A j \in DOMAIN sent' : j = last \/ j \in DOMAIN sent
<1> DEFINE S == [id : Nat, event : States, n : Nat]
<1>1. sent \in Seq(S) /\ d \in S
  BY DEF Inbox
<1> HIDE DEF S
<1>2. /\ sent' \in Seq(S) /\ Len(sent') = Len(sent) + 1 /\ Len(sent) \in Nat
      /\ \A j \in 1 .. Len(sent) : sent'[j] = sent[j]
      /\ sent'[Len(sent) + 1] = d
  BY <1>1, AppendProperties, LenProperties
<1>3. DOMAIN sent = 1 .. Len(sent) /\ DOMAIN sent' = 1 .. Len(sent) + 1
  BY <1>1, <1>2, LenProperties
<1>4. PICK last \in Nat \ {0} : last = Len(sent) + 1
  BY <1>2
<1>5. Len(sent) = last - 1
  BY <1>2, <1>4
<1>6. /\ Len(sent') = last /\ DOMAIN sent = 1 .. last - 1 /\ DOMAIN sent' = 1 .. last
      /\ sent'[last] = d
  BY <1>2, <1>3, <1>4, <1>5
<1>7. \A j \in 1 .. last - 1 : j \in 1 .. last /\ j # last
  BY <1>4
<1>8. \A j \in 1 .. last : j = last \/ j \in 1 .. last - 1
  BY <1>4
<1>9. \A j \in DOMAIN sent : j \in DOMAIN sent' /\ j # last /\ sent'[j] = sent[j]
  BY <1>2, <1>3, <1>6, <1>7
<1> QED BY <1>2, <1>5, <1>6, <1>8, <1>9 DEF S

(* A call for the future is in its inbox, another leaves it as it was. *)
LEMMA InboxRunsOn ==
  ASSUME RegistryInv, Catching, Inbox, RunOn, Subscribing(sub)' => Subscribing(sub)
  PROVE  /\ sent' \in Seq([id : Nat, event : States, n : Nat])
         /\ Len(sent) <= Len(sent')
         /\ sub = -1 => sent' = sent
         /\ HoldsMine' /\ OfTheLog' /\ ReplaysFirst'
<1>0. TypeOK /\ sub' = sub
  BY DEF RegistryInv, RunOn, loopVars
<1>1. LogGrows
  BY <1>0, LogGrowsStep DEF RunOn, Next
<1>2. Len(sent) \in Nat
  BY LenProperties DEF Inbox
<1>3. CASE UNCHANGED <<deliveries, sent>>
  BY <1>0, <1>1, <1>2, <1>3
     DEF Inbox, HoldsMine, OfTheLog, ReplaysFirst, LogGrows
<1>4. ASSUME NEW f, NEW g, NEW top, NEW d,
             NotifyEffect(f, g, top, d) \/ ReplayEffect(f, g, top, d),
             sent' = IF d.id = sub THEN Append(sent, d) ELSE sent
      PROVE  /\ sent' \in Seq([id : Nat, event : States, n : Nat])
             /\ Len(sent) <= Len(sent')
             /\ sub = -1 => sent' = sent
             /\ HoldsMine' /\ OfTheLog' /\ ReplaysFirst'
  <2>1. /\ CallsOne(f, g, top, d) /\ d \in [id : Nat, event : States, n : Nat]
        /\ deliveries' = Append(deliveries, d) /\ d.id \in Nat /\ d.n \in Nat
    BY <1>4 DEF NotifyEffect, ReplayEffect, CallsOne
  <2>2. PICK at : /\ DOMAIN deliveries' = DOMAIN deliveries \cup {at}
                  /\ deliveries'[at] = d
                  /\ \A k \in DOMAIN deliveries : deliveries'[k] = deliveries[k]
    <3>1. PICK last \in Nat : last = Len(deliveries) + 1
      BY LenProperties, <1>0 DEF TypeOK
    <3>2. /\ DOMAIN deliveries = 1 .. Len(deliveries) /\ DOMAIN deliveries' = 1 .. last
          /\ deliveries'[last] = d
          /\ \A k \in DOMAIN deliveries : deliveries'[k] = deliveries[k]
      BY <1>0, <2>1, <3>1, Delivered
    <3>3. 1 .. last = 1 .. Len(deliveries) \cup {last}
      BY <1>0, <3>1, LenProperties DEF TypeOK
    <3> QED BY <3>2, <3>3
  <2>3. CASE d.id # sub
    <3>1. sent' = sent
      BY <1>4, <2>3
    <3>2. HoldsMine'
      BY <1>0, <2>2, <2>3, <3>1 DEF Inbox, HoldsMine
    <3> QED BY <1>0, <1>1, <1>2, <3>1, <3>2 DEF Inbox, OfTheLog, ReplaysFirst, LogGrows
  <2>4. CASE d.id = sub
    <3>1. sent' = Append(sent, d)
      BY <1>4, <2>4
    <3>2. PICK last \in Nat \ {0} :
            /\ sent' \in Seq([id : Nat, event : States, n : Nat])
            /\ Len(sent) = last - 1 /\ Len(sent') = last
            /\ DOMAIN sent = 1 .. last - 1 /\ DOMAIN sent' = 1 .. last
            /\ sent'[last] = d
            /\ \A j \in DOMAIN sent : j \in DOMAIN sent' /\ j # last /\ sent'[j] = sent[j]
            /\ \A j \in DOMAIN sent' : j = last \/ j \in DOMAIN sent
      BY <2>1, <3>1, InboxGrows
    <3>3. HoldsMine'
      <4> SUFFICES ASSUME NEW k \in DOMAIN deliveries', deliveries'[k].id = sub
                   PROVE  \E j \in DOMAIN sent' : sent'[j] = deliveries'[k]
        BY <1>0 DEF HoldsMine
      <4>1. CASE k = at
        BY <2>2, <3>2, <4>1
      <4>2. CASE k \in DOMAIN deliveries
        <5>1. PICK j \in DOMAIN sent : sent[j] = deliveries[k]
          BY <2>2, <4>2 DEF Inbox, HoldsMine
        <5> QED BY <2>2, <3>2, <4>2, <5>1
      <4> QED BY <2>2, <4>1, <4>2
    <3>4. d.n > 0 => d.n \in DOMAIN log /\ d.event = log[d.n].to
      <4>1. CASE NotifyEffect(f, g, top, d)
        <5>1. top \in DOMAIN stack /\ stack[top] = f /\ f.op = "apply"
          BY <4>1 DEF NotifyEffect, CallsOne
        <5>2. f.n \in DOMAIN log /\ f.event = log[f.n].to
          BY <5>1 DEF RegistryInv, NotifyInv, FramesDue, Due, LogInv
        <5> QED BY <4>1, <5>2 DEF NotifyEffect
      <4>2. CASE ReplayEffect(f, g, top, d)
        BY <4>2 DEF ReplayEffect
      <4> QED BY <1>4, <4>1, <4>2
    <3>5. OfTheLog'
      <4> SUFFICES ASSUME NEW j \in DOMAIN sent', sent'[j].n > 0
                   PROVE  sent'[j].n \in DOMAIN log' /\ sent'[j].event = log'[sent'[j].n].to
        BY DEF OfTheLog
      <4>1. CASE j = last
        <5>1. d.n \in DOMAIN log /\ d.event = log[d.n].to
          BY <3>2, <3>4, <4>1
        <5> QED BY <1>1, <3>2, <4>1, <5>1 DEF LogGrows
      <4>2. CASE j \in DOMAIN sent
        <5>1. sent'[j] = sent[j]
          BY <3>2, <4>2
        <5>2. sent[j].n \in DOMAIN log /\ sent[j].event = log[sent[j].n].to
          BY <4>2, <5>1 DEF Inbox, OfTheLog
        <5> QED BY <1>1, <5>1, <5>2 DEF LogGrows
      <4> QED BY <3>2, <4>1, <4>2
    <3>6. d.n = 0 \/ ~ Subscribing(sub)
      <4>1. CASE NotifyEffect(f, g, top, d)
        <5>1. Subscribing(sub) => On("subscribe") \/ On("callback")
          BY <1>0, NobodyElse DEF On, Top, Mine
        <5> QED BY <4>1, <5>1 DEF NotifyEffect, CallsOne, On
      <4> QED BY <1>4, <4>1 DEF ReplayEffect
    <3>7. d.n = 0 => Subscribing(sub)
      <4>1. CASE ReplayEffect(f, g, top, d)
        BY <2>4, <4>1 DEF ReplayEffect, CallsOne, Subscribing
      <4>2. CASE NotifyEffect(f, g, top, d)
        <5>1. top \in DOMAIN stack /\ stack[top] = f /\ f.op = "apply"
          BY <4>2 DEF NotifyEffect, CallsOne
        <5>2. f.n \in DOMAIN log
          BY <5>1 DEF RegistryInv, NotifyInv, FramesDue, Due
        <5>3. f.n # 0
          BY <1>0, <5>2, LenProperties DEF TypeOK
        <5> QED BY <4>2, <5>3 DEF NotifyEffect
      <4> QED BY <1>4, <4>1, <4>2
    <3>8. ReplaysFirst'
      <4>1. ASSUME NEW j \in DOMAIN sent', NEW k \in DOMAIN sent', j < k, sent'[k].n = 0
            PROVE  sent'[j].n = 0
        <5>1. j \in DOMAIN sent
          BY <3>2, <4>1
        <5>2. CASE k = last
          BY <3>2, <3>7, <4>1, <5>1, <5>2 DEF Inbox, ReplaysFirst
        <5>3. CASE k \in DOMAIN sent
          BY <3>2, <4>1, <5>1, <5>3 DEF Inbox, ReplaysFirst
        <5> QED BY <3>2, <5>2, <5>3
      <4>2. ASSUME Subscribing(sub)', NEW j \in DOMAIN sent' PROVE sent'[j].n = 0
        BY <3>2, <3>6, <4>2 DEF Inbox, ReplaysFirst
      <4> QED BY <4>1, <4>2 DEF ReplaysFirst
    <3> QED BY <1>2, <2>1, <2>4, <3>2, <3>3, <3>5, <3>8
  <2> QED BY <2>3, <2>4
<1> QED BY <1>0, <1>3, <1>4, SentStep

LEMMA InboxStep ==
  ASSUME RegistryInv, Catching, Inbox, [RepeatNext]_repeatAll
  PROVE  Inbox' /\ (sub' = sub => Len(sent) <= Len(sent'))
<1>0. TypeOK /\ nextId \in Nat
  BY DEF RegistryInv, TypeOK
<1>1. [Next]_vars /\ LogGrows
  BY <1>0, FutureSteps, LogGrowsStep
<1>2. UNCHANGED sub /\ Subscribing(sub)' => Subscribing(sub)
  BY CatchingStep
<1>3. /\ Len(sent) \in Nat /\ taken \in Nat /\ taken <= Len(sent)
      /\ sent \in Seq([id : Nat, event : States, n : Nat])
  BY LenProperties DEF Inbox
<1>4. CASE UNCHANGED <<deliveries, sub, sent>>
  <2>1. HoldsMine' /\ OfTheLog' /\ ReplaysFirst'
    BY <1>1, <1>2, <1>4 DEF Inbox, HoldsMine, OfTheLog, ReplaysFirst, LogGrows
  <2>2. taken' \in 0 .. Len(sent')
    BY <1>3, <1>4, PhaseSteps
  <2>3. nextId' \in {nextId, nextId + 1}
    BY <1>0, <1>1, TellKinds DEF Silent, Applies, Apply, Subscribe, Notify, Replay
  <2>4. sub' \in -1 .. nextId' - 1
    <3>1. PICK id, old, new : id = sub /\ old = nextId /\ new = nextId'
      OBVIOUS
    <3>2. old \in Nat /\ new \in {old, old + 1} /\ id \in -1 .. old - 1
      BY <1>0, <2>3, <3>1 DEF Inbox
    <3>3. id \in -1 .. new - 1
      BY <3>2
    <3> QED BY <1>4, <3>1, <3>3
  <2>5. phase' = "new" => sub' = -1 /\ sent' = <<>> /\ taken' = 0
    BY <1>4, PhaseSteps DEF Inbox
  <2>6. phase' \notin {"new", "done"} => sub' # -1
    BY <1>0, <1>4, PhaseSteps DEF Inbox
  <2> QED BY <1>3, <1>4, <2>1, <2>2, <2>4, <2>5, <2>6 DEF Inbox
<1>5. CASE RunOn
  <2>1. /\ sent' \in Seq([id : Nat, event : States, n : Nat])
        /\ Len(sent) <= Len(sent')
        /\ sub = -1 => sent' = sent
        /\ HoldsMine' /\ OfTheLog' /\ ReplaysFirst'
    BY <1>2, <1>5, InboxRunsOn DEF RunOn, loopVars
  <2>2. /\ UNCHANGED loopVars /\ Len(sent') \in Nat
    BY <1>5, <2>1, LenProperties DEF RunOn
  <2>3. UNCHANGED nextId
    BY <1>5 DEF RunOn, Run, Notify, ApplyDone, FinishDestroy, MoveToRound, Apply, Return,
                Replay, SubscribeDone, CallbackReturn
  <2> QED BY <1>3, <2>1, <2>2, <2>3 DEF Inbox, loopVars
<1>6. CASE FirstPoll /\ Subscribe /\ sub' = nextId /\ phase' = "recv"
  <2>1. /\ phase = "new" /\ sent = <<>> /\ taken = 0 /\ sub = -1
        /\ sent' = <<>> /\ taken' = 0
        /\ nextId' = nextId + 1 /\ UNCHANGED deliveries
    BY <1>6 DEF FirstPoll, Subscribe, Inbox, End
  <2>2. /\ DOMAIN sent' = {} /\ Len(sent') = 0
        /\ sent' \in Seq([id : Nat, event : States, n : Nat])
    BY <2>1
  <2>3. \A k \in DOMAIN deliveries' : deliveries'[k].id # sub'
    <3>1. \A k \in DOMAIN deliveries : deliveries[k].id < nextId /\ deliveries[k].id \in Nat
      <4>1. \A k \in DOMAIN deliveries : deliveries[k] \in [id : Nat, event : States, n : Nat]
        BY <1>0, LenProperties, ElementOfSeq DEF TypeOK
      <4> QED BY <4>1 DEF RegistryInv, IdsGiven
    <3> QED BY <1>0, <1>6, <2>1, <3>1
  <2>4. HoldsMine' /\ OfTheLog' /\ ReplaysFirst'
    BY <2>2, <2>3 DEF HoldsMine, OfTheLog, ReplaysFirst
  <2> QED BY <1>0, <1>6, <2>1, <2>2, <2>4 DEF Inbox
<1>7. CASE End /\ UserCode /\ ~ InMine
  BY <1>4, <1>7 DEF End
<1>8. CASE ~ InMine /\ RepeatOtherCall /\ UNCHANGED repeatVars
  <2>1. UNCHANGED deliveries
    BY <1>8 DEF RepeatOtherCall, StrictStep, Step, Destroy, BeginDestroy, MoveTo, Answer,
                Apply, Subscribe, Unsubscribe
  <2> QED BY <1>4, <1>8, <2>1 DEF repeatVars, loopVars
<1>9. CASE UNCHANGED <<vars, minState, sub, sent>>
  BY <1>4, <1>9 DEF vars
<1> QED BY <1>0, <1>5, <1>6, <1>7, <1>8, <1>9, FutureSteps

-----------------------------------------------------------------------------
(* Nobody but the future takes its observer off a live registry. *)
LEMMA StaysSubscribed ==
  ASSUME RegistryInv, state = "Destroyed" \/ Observes(sub), UNCHANGED sub,
         \/ UNCHANGED vars
         \/ ~ InMine /\ RepeatOtherCall
         \/ RunOn
  PROVE  state' = "Destroyed" \/ Observes(sub)'
<1>0. TypeOK /\ observers \in Seq(Nat) /\ nextId \in Nat
  BY DEF RegistryInv, TypeOK
<1>1. [Next]_vars
  BY DEF RepeatOtherCall, RunOn, Next, Call, Components
<1>2. state = "Destroyed" => state' = "Destroyed"
  BY <1>0, <1>1, TellKinds DEF Silent, Applies, Apply, Subscribe, Notify, Replay
<1>3. CASE ApplyDone
  <2>1. stack # <<>> /\ Top.op = "apply" /\ Top = stack[Len(stack)]
        /\ (Top.event # "Destroyed" => observers' = observers)
    BY <1>3 DEF ApplyDone, On, Top
  <2>2. Len(stack) \in DOMAIN stack
    BY <1>0, <2>1, TopAndBelow, LenProperties DEF TypeOK
  <2>3. CASE Top.event = "Destroyed"
    <3>1. Top.n \in DOMAIN log /\ log[Top.n].to = "Destroyed"
      BY <2>1, <2>2, <2>3 DEF RegistryInv, NotifyInv, FramesDue, Due, LogInv
    <3> QED BY <1>2, <3>1 DEF RegistryInv, LogInv
  <2> QED BY <1>2, <2>1, <2>3 DEF Observes
<1>4. CASE UNCHANGED observers
  BY <1>2, <1>4 DEF Observes
<1>5. CASE Subscribe
  BY <1>0, <1>2, <1>4, <1>5, AppendKeeps DEF Subscribe
<1>6. CASE \E id \in 0 .. nextId - 1 : id # sub /\ Unsubscribe(id)
  BY <1>0, <1>2, <1>6, WithoutKeeps DEF Unsubscribe
<1>7. CASE StrictStep \/ Destroy \/ \E target \in States : MoveTo(target)
  <2>1. UNCHANGED observers
    BY <1>7 DEF StrictStep, Step, Destroy, BeginDestroy, MoveTo, Answer, Apply
  <2> QED BY <1>4, <2>1
<1>8. CASE Notify \/ FinishDestroy \/ MoveToRound \/ Replay \/ SubscribeDone \/ CallbackReturn
  <2>1. UNCHANGED observers
    BY <1>8 DEF Notify, FinishDestroy, MoveToRound, Apply, Replay, SubscribeDone,
                CallbackReturn
  <2> QED BY <1>4, <2>1
<1> QED BY <1>3, <1>4, <1>5, <1>6, <1>7, <1>8 DEF RepeatOtherCall, RunOn, Run, vars

(* What the future was caught up with stays so until a transition takes    *)
(* its observer in.                                                        *)
LEMMA CaughtUpStays ==
  ASSUME RegistryInv, Catching, Inbox, CaughtUp, UNCHANGED <<sub, sent>>,
         \/ Silent
         \/ Subscribe
         \/ \E f, g, top, d : /\ NotifyEffect(f, g, top, d) \/ ReplayEffect(f, g, top, d)
                              /\ d.id # sub
  PROVE  CaughtUp'
<1>0. TypeOK /\ nextId \in Nat /\ sub < nextId
  BY DEF RegistryInv, TypeOK, Inbox
<1>1. CASE Silent
  <2>1. ASSUME NEW i \in DOMAIN stack', Mine(stack'[i])
        PROVE  \E j \in DOMAIN stack : stack[j] = stack'[i] /\ Mine(stack[j])
    BY <1>1, <2>1 DEF Silent, Mine
  <2>2. ASSUME NEW i \in DOMAIN stack, Mine(stack[i]), stack[i].todo # <<>>
        PROVE  \E j \in DOMAIN stack' : stack'[j] = stack[i]
    BY <1>1, <2>2 DEF Silent, Mine, Pending
  <2>3. UNCHANGED state
    BY <1>1 DEF Silent
  <2>4. ReplaysToLast'
    BY <2>1, <2>3 DEF CaughtUp, ReplaysToLast, Mine
  <2>5. HeardTheState => HeardTheState'
    BY <2>3 DEF HeardTheState
  <2> QED BY <2>2, <2>4, <2>5 DEF CaughtUp, Mine
<1>2. CASE Subscribe
  <2> DEFINE f == SubscribeFrame(nextId, CatchUp(state))
  <2>1. f \in Frames /\ f.id = nextId
    BY <1>0, CatchUpType DEF SubscribeFrame, Frames, TypeOK
  <2>2. stack' = Append(stack, f) /\ UNCHANGED state
    BY <1>2 DEF Subscribe
  <2> HIDE DEF f
  <2>3. /\ DOMAIN stack' = 1 .. Len(stack) + 1
        /\ DOMAIN stack = 1 .. Len(stack) /\ Len(stack) \in Nat
        /\ \A i \in 1 .. Len(stack) : stack'[i] = stack[i]
        /\ stack'[Len(stack) + 1] = f
    BY <1>0, <2>1, <2>2, AppendProperties, LenProperties DEF TypeOK
  <2>4. f.id # sub
    BY <1>0, <2>1
  <2>5. \A i \in DOMAIN stack' : Mine(stack'[i]) => i \in DOMAIN stack /\ stack'[i] = stack[i]
    BY <2>3, <2>4 DEF Mine
  <2>6. \A i \in DOMAIN stack : i \in DOMAIN stack' /\ stack'[i] = stack[i]
    BY <2>3
  <2>7. HeardTheState => HeardTheState'
    BY <2>2 DEF HeardTheState
  <2> QED BY <2>2, <2>5, <2>6, <2>7 DEF CaughtUp, ReplaysToLast, Mine
<1>3. ASSUME NEW f, NEW g, NEW top, NEW d,
             NotifyEffect(f, g, top, d) \/ ReplayEffect(f, g, top, d), d.id # sub
      PROVE  CaughtUp'
  <2>1. CallsOne(f, g, top, d) /\ ~ Mine(f) /\ ~ Mine(g)
    BY <1>3 DEF NotifyEffect, ReplayEffect, CallsOne, Mine
  <2>2. UNCHANGED state /\ ~ Mine(stack'[top + 1])
    BY <2>1 DEF CallsOne, Mine
  <2>3. \A i \in DOMAIN stack' : Mine(stack'[i]) => i \in DOMAIN stack /\ stack'[i] = stack[i]
    <3> SUFFICES ASSUME NEW i \in DOMAIN stack', Mine(stack'[i])
                 PROVE  i \in DOMAIN stack /\ stack'[i] = stack[i]
      OBVIOUS
    <3>1. i \in 1 .. top - 1
      BY <2>1, <2>2 DEF CallsOne
    <3> QED BY <2>1, <3>1 DEF CallsOne
  <2>4. \A i \in DOMAIN stack : Mine(stack[i]) => i \in DOMAIN stack' /\ stack'[i] = stack[i]
    <3> SUFFICES ASSUME NEW i \in DOMAIN stack, Mine(stack[i])
                 PROVE  i \in DOMAIN stack' /\ stack'[i] = stack[i]
      OBVIOUS
    <3>1. i \in 1 .. top - 1
      BY <2>1 DEF CallsOne
    <3> QED BY <2>1, <3>1 DEF CallsOne
  <2>5. HeardTheState => HeardTheState'
    BY <2>2 DEF HeardTheState
  <2> QED BY <2>2, <2>3, <2>4, <2>5 DEF CaughtUp, ReplaysToLast, Mine
<1> QED BY <1>1, <1>2, <1>3

(* The replay of the future's own subscription ends with the state. *)
LEMMA CaughtUpByReplay ==
  ASSUME RegistryInv, Catching, Inbox, CaughtUp, UNCHANGED sub,
         NEW f, NEW g, NEW top, NEW d, ReplayEffect(f, g, top, d), d.id = sub,
         sent' = Append(sent, d)
  PROVE  CaughtUp'
<1>1. /\ CallsOne(f, g, top, d) /\ UNCHANGED state
      /\ Mine(f) /\ Mine(g) /\ top \in DOMAIN stack /\ stack[top] = f
      /\ f.todo \in Seq(States) /\ f.todo # <<>>
      /\ d.event = Head(f.todo) /\ g.todo = Tail(f.todo)
  BY DEF ReplayEffect, CallsOne, Mine
<1>2. /\ top = 1 /\ DOMAIN stack' = 1 .. 2 /\ stack'[1] = g /\ ~ Mine(stack'[2])
  <2>1. top = 1
    BY <1>1 DEF Catching
  <2>2. 1 + 1 = 2
    OBVIOUS
  <2> QED BY <1>1, <2>1, <2>2 DEF CallsOne, Mine
<1>3. \A i \in DOMAIN stack' : Mine(stack'[i]) => i = 1
  BY <1>2
<1>4. f.todo[Len(f.todo)] = state
  BY <1>1 DEF CaughtUp, ReplaysToLast
<1>5. ReplaysToLast'
  <2>1. g.todo # <<>> => g.todo[Len(g.todo)] = state
    BY <1>1, <1>4, TailEnds
  <2> QED BY <1>1, <1>2, <1>3, <2>1 DEF ReplaysToLast, Mine
<1>6. ASSUME g.todo = <<>> PROVE HeardTheState'
  <2>1. Len(f.todo) = 1
    <3>1. PICK todo \in Seq(States) : todo = f.todo
      BY <1>1
    <3>2. /\ Len(todo) \in Nat /\ Len(Tail(todo)) = Len(todo) - 1
          /\ Len(Tail(todo)) = 0
      BY <1>1, <1>6, <3>1, HeadTailProperties, LenProperties, EmptySeq
    <3> QED BY <3>1, <3>2
  <2>2. d.event = state
    BY <1>1, <1>4, <2>1, HeadTailProperties
  <2>3. d \in [id : Nat, event : States, n : Nat]
    BY <1>1 DEF CallsOne
  <2>4. PICK last \in Nat \ {0} : Len(sent') = last /\ sent'[last] = d
    BY <2>3, InboxGrows
  <2>5. sent' # <<>>
    BY <2>4
  <2> QED BY <1>1, <2>2, <2>4, <2>5 DEF HeardTheState
<1>7. 1 \in DOMAIN stack' /\ g.op = "subscribe" /\ g.id = sub'
  BY <1>1, <1>2 DEF Mine
<1> QED BY <1>2, <1>5, <1>6, <1>7 DEF CaughtUp, Mine

(* A transition takes in everyone who is subscribed. *)
LEMMA TakenIn ==
  ASSUME TypeOK, Applies, Observes(sub), UNCHANGED sub
  PROVE  TakesPart(Len(log))' /\ Len(log') \in DOMAIN log'
<1> DEFINE all == {observers[i] : i \in DOMAIN observers}
<1>1. PICK next \in States :
        log' = Append(log, [from |-> state, to |-> next, registered |-> all])
  BY DEF Applies, Apply
<1>2. sub \in all
  BY DEF Observes
<1>3. all \in SUBSET Nat
  BY LenProperties, ElementOfSeq DEF TypeOK
<1> HIDE DEF all
<1>4. PICK t : t = [from |-> state, to |-> next, registered |-> all]
  OBVIOUS
<1>5. t \in [from : States, to : States, registered : SUBSET Nat] /\ sub \in t.registered
  BY <1>2, <1>3, <1>4 DEF TypeOK
<1>6. PICK new \in Nat : new = Len(log) + 1
  BY LenProperties DEF TypeOK
<1>7. Len(log') = new /\ log'[new] = t /\ DOMAIN log' = 1 .. new
  BY <1>1, <1>4, <1>5, <1>6, AppendProperties, LenProperties DEF TypeOK
<1>8. new \in 1 .. new
  BY <1>6, LenProperties DEF TypeOK
<1> QED BY <1>5, <1>7, <1>8 DEF TakesPart

(* The first poll subscribes. *)
LEMMA FollowsFrom ==
  ASSUME RegistryInv, Inbox, FirstPoll, Subscribe, sub' = nextId, phase = "new",
         minState # "Initialized", state # "Destroyed", UNCHANGED <<minState, sent>>
  PROVE  Follows'
<1>0. TypeOK /\ nextId \in Nat /\ state \in States
  BY DEF RegistryInv, TypeOK
<1>1. Observes(sub)'
  <2>1. observers' = Append(observers, nextId)
    BY DEF Subscribe
  <2> QED BY <1>0, <2>1, AppendKeeps DEF TypeOK, Observes
<1>2. \A n \in DOMAIN log' : ~ TakesPart(n)'
  <2>1. UNCHANGED log
    BY DEF Subscribe
  <2>2. \A n \in DOMAIN log : nextId \notin log[n].registered
    BY <1>0 DEF RegistryInv, IdsGiven
  <2> QED BY <2>1, <2>2 DEF TakesPart
<1>3. UNCHANGED state /\ sent' = <<>>
  BY DEF Subscribe, Inbox
<1>4. PICK f : f = SubscribeFrame(nextId, CatchUp(state))
  OBVIOUS
<1>5. /\ f \in Frames /\ f.op = "subscribe" /\ f.id = sub' /\ f.todo = CatchUp(state)
  BY <1>0, <1>4, CatchUpType DEF SubscribeFrame, Frames, TypeOK
<1>6. DOMAIN stack' = {1} /\ stack'[1] = f
  <2>1. stack = <<>> /\ stack' = Append(stack, f)
    BY <1>4 DEF FirstPoll, Subscribe
  <2>2. stack' = <<f>>
    BY <2>1
  <2> QED BY <2>2
<1>7. ReplaysToLast'
  BY <1>0, <1>3, <1>5, <1>6, CatchUpEnds DEF ReplaysToLast, Mine
<1>8. f.todo = <<>> => HeardTheState'
  BY <1>0, <1>3, <1>5, CatchUpEmpty DEF HeardTheState
<1>9. CaughtUp'
  BY <1>5, <1>6, <1>7, <1>8 DEF CaughtUp, Mine
<1> QED BY <1>1, <1>2, <1>9 DEF Follows

LEMMA FollowsStep ==
  ASSUME RegistryInv, Catching, Inbox, Follows, [RepeatNext]_repeatAll
  PROVE  Follows'
<1> SUFFICES ASSUME phase' \notin {"new", "done"} PROVE Follows'
  BY DEF Follows
<1>0. TypeOK
  BY DEF RegistryInv
<1>1. [Next]_vars /\ LogGrows
  BY <1>0, FutureSteps, LogGrowsStep
<1>2. CASE /\ FirstPoll /\ Subscribe /\ sub' = nextId
           /\ phase = "new" /\ minState # "Initialized" /\ state # "Destroyed"
           /\ UNCHANGED <<minState, sent>>
  BY <1>2, FollowsFrom
<1>3. CASE phase \notin {"new", "done"} /\ UNCHANGED <<sub, minState>>
  <2>1. \/ UNCHANGED <<vars, sub, sent>>
        \/ ~ InMine /\ RepeatOtherCall /\ UNCHANGED repeatVars
        \/ RunOn
    BY <1>0, <1>3, FutureSteps DEF End, FirstPoll
  <2>2. minState' # "Initialized" /\ (state = "Destroyed" \/ Observes(sub))
    BY <1>3 DEF Follows
  <2>3. state' = "Destroyed" \/ Observes(sub)'
    <3>1. \/ UNCHANGED vars
          \/ ~ InMine /\ RepeatOtherCall
          \/ RunOn
      BY <2>1
    <3> QED BY <1>3, <2>2, <3>1, StaysSubscribed
  <2>4. Applies => TakesPart(Len(log))' /\ Len(log') \in DOMAIN log'
    BY <1>0, <1>3, <2>2, TakenIn DEF Applies, Apply
  <2>5. (\E n \in DOMAIN log' : TakesPart(n)') => TakesPart(Len(log))'
    <3>1. CASE UNCHANGED log
      BY <1>3, <3>1 DEF Follows, TakesPart
    <3> QED BY <1>0, <1>1, <2>4, <3>1, TellKinds DEF Silent, Subscribe, Notify, Replay
  <2>6. ASSUME \A n \in DOMAIN log' : ~ TakesPart(n)' PROVE CaughtUp'
    <3>1. ~ Applies
      BY <2>4, <2>6 DEF TakesPart
    <3>2. \A n \in DOMAIN log : ~ TakesPart(n)
      BY <1>1, <1>3, <2>6 DEF LogGrows, TakesPart
    <3>3. CaughtUp
      BY <1>3, <3>2 DEF Follows
    <3>4. CASE UNCHANGED <<deliveries, sent>>
      BY <1>0, <1>1, <1>3, <3>1, <3>3, <3>4, NobodyCalled, CaughtUpStays
    <3>5. ASSUME NEW f, NEW g, NEW top, NEW d,
                 NotifyEffect(f, g, top, d) \/ ReplayEffect(f, g, top, d),
                 sent' = IF d.id = sub THEN Append(sent, d) ELSE sent
          PROVE  CaughtUp'
      <4>1. CASE d.id # sub
        BY <1>3, <3>3, <3>5, <4>1, CaughtUpStays
      <4>2. CASE d.id = sub /\ ReplayEffect(f, g, top, d)
        BY <1>3, <3>3, <3>5, <4>2, CaughtUpByReplay
      <4>3. CASE d.id = sub /\ NotifyEffect(f, g, top, d)
        <5>1. top \in DOMAIN stack /\ stack[top] = f /\ f.op = "apply"
          BY <4>3 DEF NotifyEffect, CallsOne
        <5>2. f.n \in DOMAIN log /\ ToCall(f) \subseteq log[f.n].registered
          BY <5>1 DEF RegistryInv, NotifyInv, FramesDue, Due
        <5>3. TakesPart(f.n)
          BY <4>3, <5>2 DEF NotifyEffect, TakesPart
        <5> QED BY <3>2, <5>2, <5>3
      <4> QED BY <3>5, <4>1, <4>2, <4>3
    <3>6. CASE RunOn
      BY <1>0, <3>4, <3>5, <3>6, SentStep
    <3>7. CASE ~ InMine /\ RepeatOtherCall /\ UNCHANGED repeatVars
      <4>1. UNCHANGED deliveries
        BY <3>7 DEF RepeatOtherCall, StrictStep, Step, Destroy, BeginDestroy, MoveTo, Answer,
                    Apply, Subscribe, Unsubscribe
      <4> QED BY <3>4, <3>7, <4>1 DEF repeatVars
    <3>8. CASE UNCHANGED <<vars, sub, sent>>
      BY <3>4, <3>8 DEF vars
    <3> QED BY <2>1, <3>6, <3>7, <3>8
  <2> QED BY <2>2, <2>3, <2>5, <2>6 DEF Follows
<1> QED BY <1>2, <1>3, PhaseSteps

-----------------------------------------------------------------------------
(* The inbox is only added to. *)
LEMMA SentGrows ==
  ASSUME TypeOK, Catching, Inbox, [RepeatNext]_repeatAll
  PROVE  \A k \in 1 .. Len(sent) : sent'[k] = sent[k]
<1>1. CASE UNCHANGED sent
  BY <1>1
<1>2. CASE RunOn
  <2>1. ASSUME NEW d \in [id : Nat, event : States, n : Nat], sent' = Append(sent, d)
        PROVE  \A k \in 1 .. Len(sent) : sent'[k] = sent[k]
    <3>1. DOMAIN sent = 1 .. Len(sent)
      BY LenProperties DEF Inbox
    <3> QED BY <2>1, <3>1, InboxGrows
  <2>2. CASE \E f, g, top, d :
               /\ NotifyEffect(f, g, top, d) \/ ReplayEffect(f, g, top, d)
               /\ sent' = IF d.id = sub THEN Append(sent, d) ELSE sent
    BY <1>1, <2>1, <2>2 DEF NotifyEffect, ReplayEffect, CallsOne
  <2> QED BY <1>1, <1>2, <2>2, SentStep
<1>3. RunOn \/ UNCHANGED sent
  BY FutureSteps DEF FirstPoll, End, repeatVars
<1> QED BY <1>1, <1>2, <1>3

(* The number of entries depends on what was taken only. *)
LEMMA SameEntries ==
  ASSUME Inbox, UNCHANGED <<taken, minState>>,
         \A k \in 1 .. Len(sent) : sent'[k] = sent[k]
  PROVE  /\ \A k \in 1 .. taken : Active(k)' = Active(k)
         /\ EntrySet' = EntrySet /\ Entries' = Entries
<1>1. taken \in Nat /\ \A k \in 1 .. taken : k \in 1 .. Len(sent)
  BY LenProperties DEF Inbox
<1>2. \A k \in 1 .. taken : Active(k)' = Active(k)
  BY <1>1 DEF Active, IsActive
<1>3. \A k \in 1 .. taken : k > 1 => k - 1 \in 1 .. taken
  BY <1>1
<1>4. EntrySet' = EntrySet
  BY <1>2, <1>3 DEF EntrySet
<1>5. Entries = Cardinality(EntrySet)
  BY DEF Entries, EntrySet, Active
<1>6. Entries' = Cardinality(EntrySet')
  BY DEF Entries, EntrySet, Active
<1> QED BY <1>2, <1>4, <1>5, <1>6

(* One more event is an entry if it is active and the one before was not. *)
LEMMA OneMoreEntry ==
  ASSUME Inbox, NEW new, new = taken + 1, taken' = new, UNCHANGED <<sent, minState>>
  PROVE  /\ new \in Nat /\ new > 0
         /\ Active(taken)' = Active(new)
         /\ Entries \in Nat
         /\ ~ Active(new) \/ (taken > 0 /\ Active(taken)) => Entries' = Entries
         /\ Active(new) /\ ~ (taken > 0 /\ Active(taken)) =>
              Entries' = Entries + 1 /\ (taken \in EntrySet)'
<1>1. taken \in Nat /\ new \in Nat /\ new > 0
  BY DEF Inbox
<1>2. /\ IsFiniteSet(EntrySet) /\ new \notin EntrySet
      /\ Cardinality(EntrySet) \in Nat
      /\ Cardinality(EntrySet \cup {new}) = Cardinality(EntrySet) + 1
  <2>1. IsFiniteSet(1 .. taken) /\ EntrySet \subseteq 1 .. taken
    BY <1>1, FS_Interval DEF EntrySet
  <2>2. IsFiniteSet(EntrySet)
    BY <2>1, FS_Subset
  <2>3. new \notin EntrySet
    BY <1>1, <2>1
  <2> QED BY <2>2, <2>3, FS_AddElement, FS_CardinalityType
<1>3. /\ 1 .. new = 1 .. taken \cup {new}
      /\ new > 1 <=> taken > 0
      /\ new - 1 = taken
  BY <1>1
<1>4. EntrySet' = {k \in 1 .. new : Active(k) /\ (k > 1 => ~ Active(k - 1))}
  BY DEF EntrySet, Active
<1>5. Entries = Cardinality(EntrySet)
  BY DEF Entries, EntrySet, Active
<1>6. Entries' = Cardinality(EntrySet')
  BY DEF Entries, EntrySet, Active
<1>7. Active(taken)' = Active(new)
  BY DEF Active
<1>8. CASE Active(new) /\ ~ (taken > 0 /\ Active(taken))
  <2>1. EntrySet' = EntrySet \cup {new}
    BY <1>3, <1>4, <1>8 DEF EntrySet
  <2> QED BY <1>1, <1>2, <1>5, <1>6, <1>7, <1>8, <2>1
<1>9. CASE ~ Active(new) \/ (taken > 0 /\ Active(taken))
  <2>1. EntrySet' = EntrySet
    BY <1>3, <1>4, <1>9 DEF EntrySet
  <2> QED BY <1>1, <1>2, <1>5, <1>6, <1>7, <1>9, <2>1
<1> QED BY <1>8, <1>9

(* abort() spawns nothing. *)
LEMMA AbortedLen ==
  ASSUME NEW tasks \in Seq(Lives), NEW t \in {0} \cup DOMAIN tasks
  PROVE  Len(Aborted(tasks, t)) = Len(tasks)
<1>1. CASE t = 0 \/ tasks[t] # "running"
  BY <1>1 DEF Aborted
<1>2. CASE t # 0 /\ tasks[t] = "running"
  <2>1. Aborted(tasks, t) = [tasks EXCEPT ![t] = "aborted"]
    BY <1>2 DEF Aborted
  <2>2. t \in 1 .. Len(tasks) /\ "aborted" \in Lives
    BY <1>2, LenProperties DEF Lives
  <2> QED
    BY <2>1, <2>2, ExceptSeq
<1> QED
  BY <1>1, <1>2

(* The loop keeps in step with what it takes. *)
LEMMA LoopStep ==
  ASSUME TypeOK, Catching, Inbox, HandlesInv, LoopInv, [RepeatNext]_repeatAll
  PROVE  LoopInv'
<1>0. /\ taken \in Nat /\ child \in {0} \cup DOMAIN blocks
      /\ \A k \in 1 .. Len(sent) : sent'[k] = sent[k]
  BY SentGrows DEF Inbox, HandlesInv
<1>1. CASE End
  BY <1>1 DEF End, LoopInv
<1>2. ASSUME UNCHANGED <<taken, minState>>
      PROVE  /\ taken > 0 => Active(taken)' = Active(taken)
             /\ (taken \in EntrySet)' = (taken \in EntrySet) /\ Entries' = Entries
  <2>1. taken > 0 => taken \in 1 .. taken
    BY <1>0
  <2>2. taken > 0 => Active(taken)' = Active(taken)
    BY <1>0, <1>2, <2>1, SameEntries DEF Active
  <2> QED BY <1>0, <1>2, <2>2, SameEntries
<1>3. CASE FirstPoll /\ ~ End
  <2>1. phase = "new" /\ phase' = "recv" /\ UNCHANGED <<taken, minState, child, blocks>>
    BY <1>3 DEF FirstPoll
  <2>2. taken = 0 /\ child = 0 /\ blocks = <<>>
    BY <2>1 DEF Inbox, HandlesInv
  <2>3. EntrySet' = {}
    <3>1. 1 .. 0 = {}
      OBVIOUS
    <3> QED BY <2>1, <2>2, <3>1 DEF EntrySet
  <2>4. Entries' = 0
    <3>1. Entries' = Cardinality(EntrySet')
      BY DEF Entries, EntrySet, Active
    <3> QED BY <2>3, <3>1, FS_EmptySet
  <2>5. Len(blocks') = 0
    BY <2>1, <2>2
  <2> QED BY <2>1, <2>2, <2>4, <2>5 DEF LoopInv
<1>4. CASE Recv
  <2>1. PICK new : new = taken + 1
    OBVIOUS
  <2>2. /\ phase = "recv" /\ taken' = new /\ UNCHANGED <<sent, minState>>
        /\ child # 0 <=> taken > 0 /\ Active(taken)
        /\ Len(blocks) = Entries
    BY <1>4, <2>1 DEF Recv, LoopInv
  <2>3. /\ new \in Nat /\ new > 0
        /\ Active(taken)' = Active(new)
        /\ Entries \in Nat
        /\ ~ Active(new) \/ (taken > 0 /\ Active(taken)) => Entries' = Entries
        /\ Active(new) /\ ~ (taken > 0 /\ Active(taken)) =>
             Entries' = Entries + 1 /\ (taken \in EntrySet)'
    BY <2>1, <2>2, OneMoreEntry
  <2>4. CASE Active(new) /\ child = 0 /\ phase' = "block" /\ UNCHANGED blocks
    BY <2>2, <2>3, <2>4 DEF LoopInv
  <2>5. CASE Active(new) /\ child # 0 /\ UNCHANGED <<phase, child, blocks>>
    BY <2>2, <2>3, <2>5 DEF LoopInv
  <2>6. CASE ~ Active(new) /\ StopChild
    <3>1. phase' = "await" /\ Len(blocks') = Len(blocks)
      BY <1>0, <2>6, AbortedLen DEF StopChild, HandlesInv
    <3> QED BY <2>2, <2>3, <2>6, <3>1 DEF LoopInv
  <2> QED BY <1>4, <2>1, <2>4, <2>5, <2>6 DEF Recv, Active
<1>5. CASE SpawnChild
  <2>1. /\ phase = "block" /\ phase' = "recv" /\ UNCHANGED <<taken, minState>>
        /\ blocks' = Append(blocks, "running") /\ child' = Len(blocks')
    BY <1>5 DEF SpawnChild
  <2>2. Len(blocks') = Len(blocks) + 1 /\ Len(blocks) \in Nat
    BY <2>1, AppendProperties, LenProperties DEF HandlesInv, Lives
  <2>3. taken \in EntrySet /\ Len(blocks) + 1 = Entries
    BY <2>1 DEF LoopInv
  <2>4. taken > 0 /\ Active(taken)
    BY <1>0, <2>3 DEF EntrySet
  <2> QED BY <1>2, <2>1, <2>2, <2>3, <2>4 DEF LoopInv
<1>6. CASE Awaited /\ ~ End
  <2>1. phase = "await" /\ phase' = "recv" /\ UNCHANGED <<taken, minState, child, blocks>>
    BY <1>6 DEF Awaited
  <2>2. child = 0 /\ ~ Active(taken) /\ taken > 0 /\ Len(blocks) = Entries
    BY <2>1 DEF HandlesInv, LoopInv
  <2> QED BY <1>2, <2>1, <2>2 DEF LoopInv
<1>7. CASE \E t \in DOMAIN blocks : Leave(t)
  <2>1. PICK t \in DOMAIN blocks : Leave(t)
    BY <1>7
  <2>2. t \in 1 .. Len(blocks) /\ "gone" \in Lives
    BY LenProperties DEF HandlesInv, Lives
  <2>3. Len(blocks') = Len(blocks) /\ UNCHANGED <<phase, taken, minState, child>>
    BY <2>1, <2>2, ExceptSeq DEF Leave, HandlesInv
  <2> QED BY <1>2, <2>3 DEF LoopInv
<1>8. CASE UNCHANGED loopVars
  <2>1. UNCHANGED <<phase, taken, minState, child, blocks>>
    BY <1>8 DEF loopVars
  <2> QED BY <1>2, <2>1 DEF LoopInv
<1> QED BY <1>1, <1>3, <1>4, <1>5, <1>6, <1>7, <1>8
        DEF RepeatNext, Poll, DropFuture, RunOn, repeatAll, repeatVars

-----------------------------------------------------------------------------
LEMMA FutureInit == RepeatInit => FutureInv
<1> SUFFICES ASSUME RepeatInit PROVE FutureInv
  OBVIOUS
<1>1. /\ state \in States /\ observers = <<>> /\ nextId = 0 /\ stack = <<>>
      /\ ret = "Ok" /\ log = <<>> /\ deliveries = <<>>
      /\ phase = "new" /\ sub = -1 /\ sent = <<>> /\ taken = 0
      /\ child = 0 /\ awaited = 0 /\ blocks = <<>>
  BY RepeatAssumption DEF RepeatInit
<1>2. DOMAIN <<>> = {} /\ Len(<<>>) = 0
  OBVIOUS
<1>3. TypeOK
  BY <1>1, EmptySeq DEF TypeOK, Results
<1>4. DestroyLeavesFromCreated
  <2>1. \A i \in 1 .. Len(stack) - 1 : FALSE
    BY <1>1, <1>2
  <2> QED BY <1>1, <2>1 DEF DestroyLeavesFromCreated, On
<1>5. NotifyInv
  BY <1>1, <1>2 DEF NotifyInv, Sorted, Directed, FramesDue, OneFrameEach,
                    NoneAhead, Complete, NotifiedInOrder
<1>6. IdsGiven /\ LogInv
  BY <1>1, <1>2 DEF IdsGiven, LogInv
<1>7. Catching /\ Follows
  BY <1>1, <1>2 DEF Catching, Follows
<1>8. Inbox
  BY <1>1, <1>2, EmptySeq DEF Inbox, HoldsMine, OfTheLog, ReplaysFirst
<1>9. HandlesInv
  BY <1>1, <1>2, EmptySeq DEF HandlesInv, Phases
<1>10. LoopInv
  BY <1>1 DEF LoopInv
<1> QED BY <1>3, <1>4, <1>5, <1>6, <1>7, <1>8, <1>9, <1>10 DEF FutureInv, RegistryInv

LEMMA FutureStep == FutureInv /\ [RepeatNext]_repeatAll => FutureInv'
<1> SUFFICES ASSUME FutureInv, [RepeatNext]_repeatAll PROVE FutureInv'
  OBVIOUS
<1>0. RegistryInv /\ TypeOK /\ Catching /\ Inbox /\ Follows /\ HandlesInv /\ LoopInv
  BY DEF FutureInv, RegistryInv
<1>1. RegistryInv'
  BY <1>0, FutureSteps, RegistryStep
<1>2. Catching'
  BY <1>0, CatchingStep
<1>3. Inbox'
  BY <1>0, InboxStep
<1>4. Follows'
  BY <1>0, FollowsStep
<1>5. HandlesInv'
  BY <1>0, RepeatStep
<1>6. LoopInv'
  BY <1>0, LoopStep
<1> QED BY <1>1, <1>2, <1>3, <1>4, <1>5, <1>6 DEF FutureInv

LEMMA FutureCorrect == RepeatSpec => []FutureInv
BY FutureInit, FutureStep, PTL DEF RepeatSpec

(* The factory is called once for each time the lifecycle enters the       *)
(* active states, as the inbox tells it, whatever the pace of the registry *)
(* and of the tasks: an active event finds a child iff the one before was  *)
(* active too, and a child that returned keeps its place in the slot.      *)
(* (repeat.rs 46-49, 210-235)                                              *)
THEOREM BlockPerEntry == RepeatSpec => []OneBlockPerEntry
<1>1. FutureInv => OneBlockPerEntry
  BY DEF FutureInv, LoopInv, OneBlockPerEntry
<1> QED BY <1>1, FutureCorrect, PTL

(* What is in the channel was sent by the future's observer.               *)
Mail == minState \in States /\ \A j \in DOMAIN sent : sent[j].id = sub

LEMMA MailStep ==
  ASSUME FutureInv, Mail, [RepeatNext]_repeatAll
  PROVE  Mail'
<1>0. TypeOK /\ Catching /\ Inbox
  BY DEF FutureInv, RegistryInv
<1>1. minState' = minState
  BY DEF RepeatNext, Poll, FirstPoll, Recv, SpawnChild, Awaited, End, DropFuture,
         Leave, RunOn, repeatAll, repeatVars, loopVars
<1>2. CASE UNCHANGED <<sub, sent>>
  BY <1>1, <1>2 DEF Mail
<1>3. CASE FirstPoll /\ sub' = nextId
  <2>1. sent = <<>> /\ sent' = sent
    BY <1>0, <1>3 DEF FirstPoll, Inbox, End
  <2> QED BY <1>1, <2>1 DEF Mail
<1>4. CASE RunOn
  <2>1. sub' = sub
    BY <1>4 DEF RunOn, loopVars
  <2>2. ASSUME NEW f, NEW g, NEW top, NEW d,
               NotifyEffect(f, g, top, d) \/ ReplayEffect(f, g, top, d),
               d.id = sub, sent' = Append(sent, d)
        PROVE  Mail'
    <3>1. d \in [id : Nat, event : States, n : Nat]
      BY <2>2 DEF NotifyEffect, ReplayEffect, CallsOne
    <3>2. PICK last : /\ sent'[last] = d
                      /\ \A j \in DOMAIN sent : sent'[j] = sent[j]
                      /\ \A j \in DOMAIN sent' : j = last \/ j \in DOMAIN sent
      BY <1>0, <2>2, <3>1, InboxGrows
    <3> QED BY <1>1, <2>1, <2>2, <3>2 DEF Mail
  <2> QED BY <1>0, <1>2, <1>4, <2>1, <2>2, SentStep
<1> QED BY <1>0, <1>2, <1>3, <1>4, FutureSteps DEF End, repeatVars, loopVars

(* The variables of the future have their types, at every await of the     *)
(* loop and wherever it is dropped: a child is in the slot of AbortOnDrop  *)
(* only while the loop waits for an event, no more events are taken than   *)
(* were sent, and those were sent by the future's own observer.            *)
(* (repeat.rs 14-40, 202-235)                                              *)
THEOREM FutureTyped == RepeatSpec => []RepeatTypeOK
<1>1. RepeatInit => Mail
  BY RepeatAssumption DEF RepeatInit, Mail
<1>2. FutureInv /\ Mail /\ [RepeatNext]_repeatAll => Mail'
  BY MailStep
<1>3. FutureInv /\ Mail => RepeatTypeOK
  <2> SUFFICES ASSUME FutureInv, Mail PROVE RepeatTypeOK
    OBVIOUS
  <2>1. Inbox /\ HandlesInv
    BY DEF FutureInv
  <2>2. sent \in Seq([id : {sub}, event : States, n : Nat])
    <3>1. /\ sent \in Seq([id : Nat, event : States, n : Nat])
          /\ Len(sent) \in Nat /\ DOMAIN sent = 1 .. Len(sent)
      BY <2>1, LenProperties DEF Inbox
    <3>2. ASSUME NEW j \in 1 .. Len(sent)
          PROVE  sent[j] \in [id : {sub}, event : States, n : Nat]
      <4>1. sent[j] \in [id : Nat, event : States, n : Nat] /\ sent[j].id = sub
        BY <3>1, <3>2, ElementOfSeq DEF Mail
      <4> QED BY <4>1
    <3>3. PICK last \in Nat : last = Len(sent)
      BY <3>1
    <3>4. sent \in [1 .. last -> [id : {sub}, event : States, n : Nat]]
      <4>1. sent = [j \in 1 .. last |-> sent[j]]
        BY <3>1, <3>3
      <4> QED BY <3>2, <3>3, <4>1
    <3> DEFINE R == [id : {sub}, event : States, n : Nat]
    <3>5. sent \in [1 .. last -> R]
      BY <3>4
    <3> HIDE DEF R
    <3>6. sent \in Seq(R)
      BY <3>5, SeqDef
    <3> QED BY <3>6 DEF R
  <2>3. blocks \in Seq(Lives) /\ Len(blocks) \in Nat /\ DOMAIN blocks = 1 .. Len(blocks)
    BY <2>1, LenProperties DEF HandlesInv
  <2>4. child \in 0 .. Len(blocks) /\ awaited \in 0 .. Len(blocks)
    BY <2>1, <2>3 DEF HandlesInv
  <2>5. phase \in Phases /\ (child # 0 => phase = "recv")
    BY <2>1 DEF HandlesInv
  <2>6. sub \in -1 .. nextId - 1 /\ taken \in 0 .. Len(sent)
    BY <2>1 DEF Inbox
  <2>7. minState \in States
    BY DEF Mail
  <2> QED BY <2>2, <2>3, <2>4, <2>5, <2>6, <2>7 DEF RepeatTypeOK, Lives
<1> QED BY <1>1, <1>2, <1>3, FutureCorrect, FutureInit, FutureStep, PTL DEF RepeatSpec

(* The last event that has been sent is the state of the registry, if the  *)
(* future's observer heard the transitions in their order.                 *)
LEMMA LastIsState ==
  ASSUME FutureInv, phase = "recv", stack = <<>>, HeardInOrder
  PROVE  \/ sent # <<>> /\ sent[Len(sent)].event = state
         \/ sent = <<>> /\ state = "Initialized"
<1>0. /\ TypeOK /\ Inbox /\ Follows
      /\ DOMAIN <<>> = {}
      /\ Len(log) \in Nat /\ DOMAIN log = 1 .. Len(log)
      /\ Len(sent) \in Nat /\ DOMAIN sent = 1 .. Len(sent)
      /\ \A j \in DOMAIN sent : sent[j].n \in Nat
  <2>1. /\ TypeOK /\ Inbox /\ Follows
        /\ DOMAIN <<>> = {}
    BY DEF FutureInv, RegistryInv
  <2>2. Len(log) \in Nat /\ DOMAIN log = 1 .. Len(log)
    BY <2>1, LenProperties DEF TypeOK
  <2>3. Len(sent) \in Nat /\ DOMAIN sent = 1 .. Len(sent)
    BY <2>1, LenProperties DEF Inbox
  <2>4. \A j \in DOMAIN sent : sent[j].n \in Nat
    <3>1. \A j \in DOMAIN sent : sent[j] \in [id : Nat, event : States, n : Nat]
      BY <2>1, <2>3, ElementOfSeq DEF Inbox
    <3> QED BY <3>1
  <2> QED BY <2>1, <2>2, <2>3, <2>4
<1>1. CASE \A n \in DOMAIN log : ~ TakesPart(n)
  BY <1>0, <1>1 DEF Follows, CaughtUp, HeardTheState
<1>2. CASE \E n \in DOMAIN log : TakesPart(n)
  <2>1. PICK last : last = Len(log)
    OBVIOUS
  <2>2. TakesPart(last) /\ last \in DOMAIN log /\ log # <<>> /\ last > 0
    BY <1>0, <1>2, <2>1 DEF Follows
  <2>3. Called(last) = log[last].registered
    BY <1>0, <2>2 DEF FutureInv, RegistryInv, NotifyInv, Complete, InProgress
  <2>4. PICK at \in DOMAIN deliveries : deliveries[at].id = sub /\ deliveries[at].n = last
    BY <2>2, <2>3 DEF TakesPart, Called, CallsFor
  <2>5. PICK j \in DOMAIN sent : sent[j] = deliveries[at]
    BY <1>0, <2>4 DEF Inbox, HoldsMine
  <2>6. sent[j].n = last
    BY <2>4, <2>5
  <2>7. PICK k : k = Len(sent)
    OBVIOUS
  <2>8. k \in DOMAIN sent /\ j <= k /\ sent # <<>>
    BY <1>0, <2>5, <2>7
  <2>9. ~ j < k
    <3> SUFFICES ASSUME j < k PROVE FALSE
      OBVIOUS
    <3>1. sent[k].n # 0
      BY <1>0, <2>2, <2>6, <2>8 DEF Inbox, ReplaysFirst
    <3>2. sent[k].n > 0
      BY <1>0, <2>8, <3>1
    <3>3. last < sent[k].n
      BY <2>6, <2>8, <3>2 DEF HeardInOrder
    <3>4. sent[k].n \in DOMAIN log
      BY <1>0, <2>8, <3>2 DEF Inbox, OfTheLog
    <3> QED BY <1>0, <2>1, <3>3, <3>4
  <2>10. j = k
    BY <1>0, <2>8, <2>9
  <2>11. sent[k].event = log[last].to
    BY <1>0, <2>2, <2>6, <2>8, <2>10 DEF Inbox, OfTheLog
  <2>12. log[last].to = state
    BY <2>1, <2>2 DEF FutureInv, RegistryInv, LogInv
  <2> QED BY <2>7, <2>8, <2>11, <2>12
<1> QED BY <1>1, <1>2

(* When no call of the registry is in progress and the loop has taken all  *)
(* that was sent, there is a child iff the lifecycle is active: whatever   *)
(* the future missed before it subscribed was replayed to it, and each     *)
(* transition since has reached its inbox.  (repeat.rs 42-49, 199-235;     *)
(* registry.rs 108-115, 446-456)                                           *)
THEOREM ChildFollows == RepeatSpec => []ChildFollowsLifecycle
<1>1. FutureInv => ChildFollowsLifecycle
  <2> SUFFICES ASSUME FutureInv, phase = "recv", stack = <<>>, taken = Len(sent),
                      HeardInOrder
               PROVE  (child # 0) = IsActive(state, minState)
    BY DEF ChildFollowsLifecycle
  <2>1. child # 0 <=> taken > 0 /\ Active(taken)
    BY DEF FutureInv, LoopInv
  <2>2. CASE sent # <<>> /\ sent[Len(sent)].event = state
    <3>1. taken > 0
      BY <2>2, EmptySeq, LenProperties DEF FutureInv, Inbox
    <3>2. sent[taken].event = state
      BY <2>2
    <3>3. child # 0 <=> IsActive(state, minState)
      BY <2>1, <3>1, <3>2 DEF Active
    <3> QED BY <3>3 DEF IsActive
  <2>3. CASE sent = <<>> /\ state = "Initialized"
    <3>1. taken = 0
      BY <2>3
    <3>2. minState # "Initialized"
      BY DEF FutureInv, Follows
    <3>3. Rank("Initialized") = 0 /\ Rank(minState) \in 1 .. 4
      BY <3>2 DEF Rank
    <3>4. child = 0
      BY <2>1, <3>1
    <3> QED BY <2>3, <3>3, <3>4 DEF IsActive
  <2> QED BY <2>2, <2>3, LastIsState
<1> QED BY <1>1, FutureCorrect, PTL

(* Destroyed is the last event that the loop takes, and it stops the child. *)
TakesTheEnd ==
  \A j \in 1 .. taken :
    sent[j].event = "Destroyed" => j = taken /\ phase \in {"await", "done"}

LEMMA TakesTheEndStep ==
  ASSUME FutureInv, TakesTheEnd, [RepeatNext]_repeatAll
  PROVE  TakesTheEnd'
<1>0. TypeOK /\ Catching /\ Inbox
  BY DEF FutureInv, RegistryInv
<1>1. /\ taken \in Nat /\ \A j \in 1 .. taken : j \in 1 .. Len(sent)
      /\ \A j \in 1 .. Len(sent) : sent'[j] = sent[j]
  BY <1>0, SentGrows, LenProperties DEF Inbox
<1>2. \A j \in 1 .. taken : sent'[j] = sent[j]
  BY <1>1
<1>3. CASE taken' = taken /\ (phase \in {"await", "done"} => phase' \in {"await", "done"})
  BY <1>2, <1>3 DEF TakesTheEnd
<1>4. CASE Recv
  <2>1. PICK new : new = taken + 1
    OBVIOUS
  <2>2. /\ phase = "recv" /\ taken' = new /\ UNCHANGED sent
        /\ ~ IsActive(sent[new].event, minState) => phase' = "await"
    BY <1>4, <2>1 DEF Recv, StopChild
  <2>3. \A j \in 1 .. new : j = new \/ j \in 1 .. taken
    BY <1>1, <2>1
  <2>4. \A j \in 1 .. taken : sent[j].event # "Destroyed"
    BY <2>2 DEF TakesTheEnd
  <2> QED BY <2>2, <2>3, <2>4 DEF TakesTheEnd, IsActive
<1>5. CASE Awaited /\ ~ End
  <2>1. taken' = taken /\ Taken # "Destroyed"
    BY <1>5 DEF Awaited
  <2>2. \A j \in 1 .. taken : sent[j].event # "Destroyed"
    BY <2>1 DEF TakesTheEnd, Taken
  <2> QED BY <1>2, <2>1, <2>2 DEF TakesTheEnd
<1>6. CASE FirstPoll
  BY <1>3, <1>6 DEF FirstPoll, End
<1>7. CASE End
  BY <1>3, <1>7 DEF End
<1>8. CASE SpawnChild \/ \E t \in DOMAIN blocks : Leave(t)
  BY <1>3, <1>8 DEF SpawnChild, Leave
<1>9. CASE UNCHANGED loopVars
  BY <1>3, <1>9 DEF loopVars
<1> QED BY <1>4, <1>5, <1>6, <1>7, <1>8, <1>9
        DEF RepeatNext, Poll, DropFuture, RunOn, repeatAll, repeatVars

(* A future that goes on has been told the state of the registry, by the   *)
(* replay or by the call of the last transition, be it in order or not.    *)
LEMMA ToldTheState ==
  ASSUME FutureInv, phase \notin {"new", "done"}, stack = <<>>, state # "Initialized"
  PROVE  \E j \in DOMAIN sent : sent[j].event = state
<1>0. /\ TypeOK /\ Inbox /\ Follows
      /\ Len(log) \in Nat /\ DOMAIN log = 1 .. Len(log)
      /\ Len(sent) \in Nat /\ DOMAIN sent = 1 .. Len(sent)
  <2>1. TypeOK /\ Inbox /\ Follows
    BY DEF FutureInv, RegistryInv
  <2> QED BY <2>1, LenProperties DEF TypeOK, Inbox
<1>1. CASE \A n \in DOMAIN log : ~ TakesPart(n)
  <2>1. HeardTheState
    BY <1>0, <1>1 DEF Follows, CaughtUp
  <2>2. sent # <<>> /\ sent[Len(sent)].event = state
    BY <2>1 DEF HeardTheState
  <2>3. PICK k : k = Len(sent)
    OBVIOUS
  <2>4. k \in DOMAIN sent
    BY <1>0, <2>2, <2>3
  <2> QED BY <2>2, <2>3, <2>4
<1>2. CASE \E n \in DOMAIN log : TakesPart(n)
  <2>1. PICK last : last = Len(log)
    OBVIOUS
  <2>2. TakesPart(last) /\ last \in DOMAIN log /\ log # <<>> /\ last > 0
    BY <1>0, <1>2, <2>1 DEF Follows
  <2>3. Called(last) = log[last].registered
    BY <1>0, <2>2 DEF FutureInv, RegistryInv, NotifyInv, Complete, InProgress
  <2>4. PICK at \in DOMAIN deliveries : deliveries[at].id = sub /\ deliveries[at].n = last
    BY <2>2, <2>3 DEF TakesPart, Called, CallsFor
  <2>5. PICK j \in DOMAIN sent : sent[j] = deliveries[at]
    BY <1>0, <2>4 DEF Inbox, HoldsMine
  <2>6. sent[j].n = last
    BY <2>4, <2>5
  <2>7. sent[j].event = log[last].to
    BY <1>0, <2>2, <2>6 DEF Inbox, OfTheLog
  <2>8. log[last].to = state
    BY <2>1, <2>2 DEF FutureInv, RegistryInv, LogInv
  <2> QED BY <2>7, <2>8
<1> QED BY <1>1, <1>2

(* Destruction cannot pass a future by.  Between the calls of a destroyed  *)
(* registry, a future that has not returned has Destroyed before it in its *)
(* inbox, or is at the await behind which it returns: whatever it heard in *)
(* which order, and whatever it was doing then.  DestructionEnds needs of  *)
(* the executor only that it polls the future and that the aborted block   *)
(* leaves.  (repeat.rs 48-49, 210-235)                                     *)
THEOREM EndIsOnItsWay ==
  RepeatSpec =>
    [](state = "Destroyed" /\ stack = <<>> /\ phase \notin {"new", "done"} =>
         \E j \in DOMAIN sent :
           /\ sent[j].event = "Destroyed"
           /\ j > taken \/ (j = taken /\ phase = "await"))
<1>1. RepeatInit => TakesTheEnd
  <2>1. \A j \in 1 .. 0 : FALSE
    OBVIOUS
  <2> QED BY <2>1 DEF RepeatInit, TakesTheEnd
<1>2. FutureInv /\ TakesTheEnd /\ [RepeatNext]_repeatAll => TakesTheEnd'
  BY TakesTheEndStep
<1>3. FutureInv /\ TakesTheEnd =>
        (state = "Destroyed" /\ stack = <<>> /\ phase \notin {"new", "done"} =>
           \E j \in DOMAIN sent :
             /\ sent[j].event = "Destroyed"
             /\ j > taken \/ (j = taken /\ phase = "await"))
  <2> SUFFICES ASSUME FutureInv, TakesTheEnd, state = "Destroyed", stack = <<>>,
                      phase \notin {"new", "done"}
               PROVE  \E j \in DOMAIN sent :
                        /\ sent[j].event = "Destroyed"
                        /\ j > taken \/ (j = taken /\ phase = "await")
    OBVIOUS
  <2>1. PICK j \in DOMAIN sent : sent[j].event = "Destroyed"
    BY ToldTheState
  <2>2. j \in Nat /\ j > 0 /\ taken \in Nat
    BY LenProperties DEF FutureInv, Inbox
  <2>3. j > taken \/ j \in 1 .. taken
    BY <2>2
  <2> QED BY <2>1, <2>3 DEF TakesTheEnd
<1> QED BY <1>1, <1>2, <1>3, FutureCorrect, FutureInit, FutureStep, PTL DEF RepeatSpec

-----------------------------------------------------------------------------
(* The scope's observer is one of the registry's. *)
ScopeTypes ==
  /\ nextId \in Nat
  /\ scope \in {"none", "open", "dropped"}
  /\ scope = "none" => aborter = -1
  /\ scope # "none" => aborter \in 0 .. nextId - 1

(* What the scope does to the registry is what any user of it may do.      *)
LEMMA ScopeStepIsNext ==
  ASSUME ScopeTypes, [ScopeNext]_scopeAll
  PROVE  [Next]_vars
<1>1. CASE WithHandle
  BY <1>1 DEF WithHandle, Next, Call, Components
<1>2. CASE Spawn
  BY <1>2 DEF Spawn, vars
<1>3. CASE CleanUp
  BY <1>3 DEF CleanUp, InAborter, Next, CallbackReturn
<1>4. CASE DropScope
  <2>1. aborter \in 0 .. nextId - 1
    BY <1>4 DEF DropScope, InHand, ScopeTypes
  <2>2. Unsubscribe(aborter)
    BY <1>4 DEF DropScope, InHand, Unsubscribe
  <2> QED
    BY <2>1, <2>2 DEF Next, Call, Components
<1>5. CASE \E t \in DOMAIN work : Finish(t)
  BY <1>5 DEF Finish, vars
<1>6. CASE ScopeOtherCall \/ CallbackReturn
  BY <1>6 DEF ScopeOtherCall, Next, Call, Components
<1>7. CASE Run
  BY <1>7 DEF Next
<1>8. CASE UNCHANGED scopeAll
  BY <1>8 DEF scopeAll
<1> QED
  BY <1>1, <1>2, <1>3, <1>4, <1>5, <1>6, <1>7, <1>8 DEF ScopeNext

(* Ids are given out one after the other. *)
LEMMA IdsGrow ==
  ASSUME [Next]_vars
  PROVE  nextId' \in {nextId, nextId + 1}
  BY DEF Next, Call, Components, Run, StrictStep, Step, Destroy, BeginDestroy,
         MoveTo, Subscribe, Unsubscribe, Notify, ApplyDone, FinishDestroy,
         MoveToRound, Replay, SubscribeDone, CallbackReturn, Apply, Answer,
         Return, vars

(* Every step of the scope and around it keeps its place in the registry. *)
LEMMA ScopeTypesStep ==
  ASSUME ScopeTypes, [ScopeNext]_scopeAll
  PROVE  ScopeTypes'
<1>1. nextId' \in {nextId, nextId + 1}
  BY ScopeStepIsNext, IdsGrow
<1>2. CASE WithHandle
  BY <1>2 DEF WithHandle, Subscribe, ScopeTypes
<1>3. CASE scope' \in {scope, "dropped"} /\ aborter' = aborter /\ scope # "none"
  BY <1>1, <1>3 DEF ScopeTypes
<1>4. CASE UNCHANGED <<scope, aborter>>
  BY <1>1, <1>4 DEF ScopeTypes
<1> QED
  BY <1>2, <1>3, <1>4 DEF ScopeNext, Spawn, CleanUp, DropScope, InHand,
                          Finish, scopeVars, scopeAll

(* Whatever holds of the registry in general holds of one with a scope.    *)
THEOREM ScopeUsesRegistry == ScopeSpec => Spec
<1>1. ScopeInit => Init /\ ScopeTypes
  BY DEF ScopeInit, Init, ScopeTypes
<1>2. ScopeTypes /\ [ScopeNext]_scopeAll => ScopeTypes' /\ [Next]_vars
  BY ScopeTypesStep, ScopeStepIsNext
<1> QED
  BY <1>1, <1>2, PTL DEF ScopeSpec, Spec

(* What is known of the registry and of the scope's place in it.           *)
Ground == TypeOK /\ StackHonest /\ ScopeTypes

(* These facts hold next to a scope, the registry's by ScopeUsesRegistry.  *)
LEMMA GroundHolds == ScopeSpec => []Ground
<1>1. ScopeInit => ScopeTypes /\ StackHonest
  BY EmptySeq DEF ScopeInit, Init, ScopeTypes, StackHonest
<1>2. ScopeTypes /\ [ScopeNext]_scopeAll => ScopeTypes'
  BY ScopeTypesStep
<1>3. TypeOK /\ StackHonest /\ ScopeTypes /\ [ScopeNext]_scopeAll => StackHonest'
  BY ScopeStepIsNext, HonestStep
<1> QED
  BY <1>1, <1>2, <1>3, ScopeUsesRegistry, TypeCorrect, PTL DEF ScopeSpec, Ground

-----------------------------------------------------------------------------
(* Every task that runs is tracked, and in an open scope on a live         *)
(* lifecycle every one that has not finished runs.                         *)
Owned ==
  /\ work \in Seq({"running", "aborted", "gone"})
  /\ tracked \subseteq DOMAIN work
  /\ scope # "open" => tracked = {}
  /\ scope = "none" => work = <<>>
  /\ \A t \in DOMAIN work : work[t] = "running" => t \in tracked
  /\ TracksTheUnfinished

(* Aborting what is tracked aborts what runs. *)
LEMMA AbortAllKeepsOwned ==
  ASSUME Owned, AbortAll, scope # "none",
         scope' = "dropped" \/ (scope' = scope /\ state' = "Destroyed")
  PROVE  Owned'
<1>1. /\ Len(work) \in Nat /\ DOMAIN work = 1 .. Len(work)
      /\ \A t \in 1 .. Len(work) : work[t] \in {"running", "aborted", "gone"}
  BY LenProperties, ElementOfSeq DEF Owned
<1>2. /\ work' = [t \in 1 .. Len(work) |->
                    IF t \in tracked /\ Unfinished(t) THEN "aborted" ELSE work[t]]
      /\ tracked' = {}
  BY <1>1 DEF AbortAll
<1>3. work' \in Seq({"running", "aborted", "gone"})
  BY <1>1, <1>2
<1>4. \A t \in DOMAIN work' : work'[t] # "running"
  BY <1>1, <1>2 DEF Owned, Unfinished
<1> QED
  BY <1>2, <1>3, <1>4 DEF Owned, TracksTheUnfinished

(* Every step keeps the tasks owned. *)
LEMMA OwnedStep ==
  ASSUME Ground, Owned, [ScopeNext]_scopeAll
  PROVE  Owned'
<1>1. /\ Len(work) \in Nat /\ DOMAIN work = 1 .. Len(work)
      /\ \A t \in 1 .. Len(work) : work[t] \in {"running", "aborted", "gone"}
  BY LenProperties, ElementOfSeq DEF Owned
<1>2. state = "Destroyed" => state' = "Destroyed"
  <2>1. [Next]_vars
    BY ScopeStepIsNext DEF Ground
  <2> QED
    BY <2>1 DEF Next, Call, Components, Run, StrictStep, Step, Destroy,
       BeginDestroy, MoveTo, Subscribe, Unsubscribe, Notify, ApplyDone,
       FinishDestroy, MoveToRound, Replay, SubscribeDone, CallbackReturn,
       Apply, Answer, Return, vars
<1>3. CASE UNCHANGED scopeVars
  <2>1. UNCHANGED <<scope, tracked, work>>
    BY <1>3 DEF scopeVars
  <2> QED
    BY <1>2, <2>1 DEF Owned, TracksTheUnfinished, Unfinished
<1>4. CASE WithHandle
  <2>1. work = <<>> /\ work' = work /\ tracked' = {} /\ scope' = "open"
    BY <1>4 DEF WithHandle, Owned
  <2> QED
    BY <2>1, EmptySeq DEF Owned, TracksTheUnfinished
<1>5. CASE Spawn
  <2>1. /\ work' \in Seq({"running", "aborted", "gone"})
        /\ Len(work') = Len(work) + 1
        /\ DOMAIN work' = 1 .. Len(work) + 1
        /\ \A t \in 1 .. Len(work) : work'[t] = work[t]
        /\ work'[Len(work) + 1] = "running"
    BY <1>5, AppendProperties DEF Spawn, Owned
  <2>2. /\ scope = "open" /\ scope' = "open" /\ state # "Destroyed"
        /\ tracked' = {t \in tracked : Unfinished(t)} \cup {Len(work) + 1}
    BY <1>5, <2>1 DEF Spawn, InHand
  <2>3. tracked' \subseteq DOMAIN work'
    BY <1>1, <2>1, <2>2 DEF Owned
  <2>4. \A t \in DOMAIN work' : work'[t] # "gone" =>
                                  t \in tracked' /\ work'[t] = "running"
    BY <1>1, <2>1, <2>2 DEF Owned, TracksTheUnfinished, Unfinished
  <2> QED
    BY <2>1, <2>2, <2>3, <2>4 DEF Owned, TracksTheUnfinished, Unfinished
<1>6. CASE CleanUp
  <2>1. CASE Top.event = "Destroyed"
    <3>1. Top \in Honest(state) /\ Top.op = "callback" /\ stack # <<>>
      BY <1>6, HonestTop DEF CleanUp, InAborter, On, Ground
    <3>2. state = "Destroyed" /\ state' = "Destroyed"
      BY <1>2, <2>1, <3>1 DEF Honest
    <3>3. scope # "none"
      <4>1. Top.id \in Nat
        BY <3>1, FrameShapes DEF Honest
      <4>2. Top.id = aborter
        BY <1>6 DEF CleanUp, InAborter
      <4> QED
        BY <4>1, <4>2 DEF Ground, ScopeTypes
    <3> QED
      BY <1>6, <2>1, <3>2, <3>3, AbortAllKeepsOwned DEF CleanUp
  <2>2. CASE Top.event # "Destroyed"
    BY <1>2, <1>6, <2>2 DEF CleanUp, Owned, TracksTheUnfinished, Unfinished
  <2> QED
    BY <2>1, <2>2
<1>7. CASE DropScope
  BY <1>7, AbortAllKeepsOwned DEF DropScope, InHand
<1>8. CASE \E t \in DOMAIN work : Finish(t)
  <2>1. PICK t \in DOMAIN work : Finish(t)
    BY <1>8
  <2>2. /\ work' \in Seq({"running", "aborted", "gone"})
        /\ DOMAIN work' = DOMAIN work
        /\ work'[t] = "gone"
        /\ \A u \in DOMAIN work : u # t => work'[u] = work[u]
    BY <1>1, <2>1, ExceptSeq DEF Finish, Owned
  <2>3. UNCHANGED <<scope, tracked, state>>
    BY <2>1 DEF Finish, vars
  <2>4. scope # "none"
    BY <1>1, <2>1 DEF Owned
  <2> QED
    BY <2>2, <2>3, <2>4 DEF Owned, TracksTheUnfinished, Unfinished
<1> QED
  BY <1>3, <1>4, <1>5, <1>6, <1>7, <1>8 DEF ScopeNext, scopeAll

(* Until its lifecycle is destroyed, an open scope holds every task that   *)
(* has not finished, and cancels none: spawning drops the handles of       *)
(* finished tasks only, and the observer of do_on_destroy hears nothing    *)
(* but Destroyed for the end. (scope.rs 135-136, 231-237)                  *)
THEOREM ScopeTracks == ScopeSpec => []TracksTheUnfinished
<1>1. ScopeInit => Owned
  BY EmptySeq DEF ScopeInit, Owned, TracksTheUnfinished
<1>2. Ground /\ Owned /\ [ScopeNext]_scopeAll => Owned'
  BY OwnedStep
<1>3. Owned => TracksTheUnfinished
  BY DEF Owned
<1> QED
  BY <1>1, <1>2, <1>3, GroundHolds, PTL DEF ScopeSpec

(* The variables of the scope have their types: its observer's id is one   *)
(* that was given out, it has handles of its own tasks only, and none      *)
(* unless it is open. (scope.rs 20-34, 226-248)                            *)
THEOREM ScopeTyped == ScopeSpec => []ScopeTypeOK
<1>1. ScopeInit => Owned
  BY EmptySeq DEF ScopeInit, Owned, TracksTheUnfinished
<1>2. Ground /\ Owned /\ [ScopeNext]_scopeAll => Owned'
  BY OwnedStep
<1>3. Ground /\ Owned => ScopeTypeOK
  BY DEF Ground, ScopeTypes, Owned, ScopeTypeOK
<1> QED
  BY <1>1, <1>2, <1>3, GroundHolds, PTL DEF ScopeSpec

-----------------------------------------------------------------------------
(* Who is in a sequence of ids. *)
Members(s) == {s[j] : j \in DOMAIN s}

(* A frame that has still to tell the observer a of Destroyed. *)
Tells(f, a) == IsDestroying(f) /\ a \in Members(f.todo)

(* The scope's observer is being told of Destroyed or will be. *)
AborterPending ==
  \/ \E i \in 1 .. Len(stack) : Tells(stack[i], aborter)
  \/ /\ Len(stack) > 1
     /\ IsDestroying(stack[Len(stack) - 1])
     /\ Top = CallbackFrame(aborter, "Destroyed")

(* An open scope's observer is subscribed, and once the lifecycle is       *)
(* destroyed there is nothing left to abort or the observer comes to it.   *)
AborterDue ==
  scope = "open" =>
    IF state = "Destroyed" THEN tracked = {} \/ AborterPending
    ELSE aborter \in Members(observers)

(* Cutting one position out of a sequence keeps the others. *)
LEMMA CutOut ==
  ASSUME NEW s \in Seq(Nat), NEW at \in 1 .. Len(s),
         NEW i \in 1 .. Len(s), i # at
  PROVE  s[i] \in Members(SubSeq(s, 1, at - 1) \o SubSeq(s, at + 1, Len(s)))
<1> DEFINE l == SubSeq(s, 1, at - 1)
           r == SubSeq(s, at + 1, Len(s))
<1>1. Len(s) \in Nat
  BY LenProperties
<1>2. l \in Seq(Nat) /\ Len(l) = at - 1 /\ \A k \in 1 .. at - 1 : l[k] = s[k]
  <2>1. \A k \in 1 .. at - 1 : s[k] \in Nat /\ 1 + k - 1 = k
    BY <1>1, ElementOfSeq
  <2>2. /\ l \in Seq(Nat)
        /\ Len(l) = IF 1 <= at - 1 THEN at - 1 - 1 + 1 ELSE 0
        /\ \A k \in 1 .. at - 1 - 1 + 1 : l[k] = s[1 + k - 1]
    <3>1. 1 \in Int /\ at - 1 \in Int /\ \A k \in 1 .. at - 1 : s[k] \in Nat
      BY <1>1, <2>1
    <3> QED BY <3>1, SubSeqProperties
  <2> HIDE DEF l
  <2>3. at - 1 - 1 + 1 = at - 1
    BY <1>1
  <2> QED
    BY <1>1, <2>1, <2>2, <2>3
<1>3. /\ r \in Seq(Nat) /\ Len(r) = Len(s) - at
      /\ \A k \in 1 .. Len(s) - at : r[k] = s[at + k]
  <2>1. \A k \in at + 1 .. Len(s) : s[k] \in Nat
    BY <1>1, ElementOfSeq
  <2>2. /\ r \in Seq(Nat)
        /\ Len(r) = IF at + 1 <= Len(s) THEN Len(s) - (at + 1) + 1 ELSE 0
        /\ \A k \in 1 .. Len(s) - (at + 1) + 1 : r[k] = s[(at + 1) + k - 1]
    <3>1. at + 1 \in Int /\ Len(s) \in Int
      BY <1>1
    <3> QED BY <2>1, <3>1, SubSeqProperties
  <2> HIDE DEF r
  <2>3. Len(s) - (at + 1) + 1 = Len(s) - at
    BY <1>1
  <2>4. Len(r) = Len(s) - at
    BY <1>1, <2>2
  <2>5. \A k \in 1 .. Len(s) - at : (at + 1) + k - 1 = at + k
    BY <1>1
  <2> QED
    BY <2>2, <2>3, <2>4, <2>5
<1> HIDE DEF l, r
<1>4. /\ DOMAIN (l \o r) = 1 .. Len(s) - 1
      /\ \A k \in 1 .. Len(s) - 1 :
           (l \o r)[k] = IF k <= at - 1 THEN l[k] ELSE r[k - (at - 1)]
  <2>1. Len(l) + Len(r) = Len(s) - 1
    BY <1>1, <1>2, <1>3
  <2>2. /\ l \o r \in Seq(Nat)
        /\ Len(l \o r) = Len(s) - 1
        /\ \A k \in 1 .. Len(s) - 1 :
             (l \o r)[k] = IF k <= at - 1 THEN l[k] ELSE r[k - (at - 1)]
    <3>1. /\ l \o r \in Seq(Nat)
          /\ Len(l \o r) = Len(l) + Len(r)
          /\ \A k \in 1 .. Len(l) + Len(r) :
               (l \o r)[k] = IF k <= Len(l) THEN l[k] ELSE r[k - Len(l)]
      BY <1>2, <1>3, ConcatProperties
    <3> QED
      BY <1>2, <2>1, <3>1
  <2> QED
    BY <2>2, LenProperties
<1>5. CASE i < at
  <2>1. i \in 1 .. Len(s) - 1 /\ i \in 1 .. at - 1
    BY <1>1, <1>5
  <2>2. (l \o r)[i] = s[i]
    BY <1>2, <1>4, <2>1
  <2> QED
    BY <1>4, <2>1, <2>2 DEF Members, l, r
<1>6. CASE i > at
  <2>1. /\ i - 1 \in 1 .. Len(s) - 1 /\ ~ (i - 1 <= at - 1)
        /\ i - 1 - (at - 1) \in 1 .. Len(s) - at
        /\ at + (i - 1 - (at - 1)) = i
    BY <1>1, <1>6
  <2>2. (l \o r)[i - 1] = s[i]
    BY <1>3, <1>4, <2>1
  <2> QED
    BY <1>4, <2>1, <2>2 DEF Members, l, r
<1> QED
  BY <1>1, <1>5, <1>6

(* Whoever is not the first is among the others. *)
LEMMA TailMembers ==
  ASSUME NEW s \in Seq(Nat), s # <<>>, NEW a \in Members(s), Head(s) # a
  PROVE  a \in Members(Tail(s))
<1>1. /\ Len(s) \in Nat /\ DOMAIN s = 1 .. Len(s)
      /\ Tail(s) \in Seq(Nat) /\ Len(Tail(s)) = Len(s) - 1
      /\ \A i \in 1 .. Len(Tail(s)) : Tail(s)[i] = s[i + 1]
      /\ Head(s) = s[1]
  BY HeadTailProperties, LenProperties
<1>2. DOMAIN Tail(s) = 1 .. Len(s) - 1
  BY <1>1, LenProperties
<1>3. PICK i \in 1 .. Len(s) : s[i] = a
  BY <1>1 DEF Members
<1>4. i - 1 \in 1 .. Len(s) - 1 /\ i - 1 + 1 = i
  BY <1>1, <1>3
<1>5. Tail(s)[i - 1] = a
  BY <1>1, <1>3, <1>4
<1> QED
  BY <1>2, <1>4, <1>5 DEF Members

(* Removing one observer removes no other. *)
LEMMA WithoutKeepsMember ==
  ASSUME observers \in Seq(Nat), NEW id, NEW a \in Members(observers), id # a
  PROVE  a \in Members(Without(id))
<1>1. DOMAIN observers = 1 .. Len(observers)
  BY LenProperties
<1>2. CASE \E i \in DOMAIN observers : observers[i] = id
  <2> DEFINE at == CHOOSE i \in DOMAIN observers : observers[i] = id
  <2>1. at \in 1 .. Len(observers) /\ observers[at] = id
    BY <1>1, <1>2
  <2>2. Without(id) = SubSeq(observers, 1, at - 1)
                        \o SubSeq(observers, at + 1, Len(observers))
    BY <1>2 DEF Without
  <2> HIDE DEF at
  <2>3. PICK i \in 1 .. Len(observers) : observers[i] = a
    BY <1>1 DEF Members
  <2> QED
    BY <2>1, <2>2, <2>3, CutOut
<1>3. CASE ~ \E i \in DOMAIN observers : observers[i] = id
  BY <1>3 DEF Without
<1> QED
  BY <1>2, <1>3

(* A snapshot has everybody who is subscribed. *)
LEMMA SnapshotHas ==
  ASSUME observers \in Seq(Nat), NEW from, NEW next
  PROVE  Members(observers) \subseteq Members(Snapshot(from, next))
<1>1. DOMAIN observers = 1 .. Len(observers) /\ Len(observers) \in Nat
  BY LenProperties
<1>2. CASE Retreats(from, next)
  <2> DEFINE s == [k \in 1 .. Len(observers) |-> observers[Len(observers) + 1 - k]]
  <2>1. Snapshot(from, next) = s
    BY <1>2 DEF Snapshot
  <2>2. ASSUME NEW i \in 1 .. Len(observers)
        PROVE  observers[i] \in Members(s)
    <3>1. /\ Len(observers) + 1 - i \in 1 .. Len(observers)
          /\ Len(observers) + 1 - (Len(observers) + 1 - i) = i
      BY <1>1, <2>2
    <3>2. s[Len(observers) + 1 - i] = observers[i]
      BY <3>1
    <3> QED
      BY <3>1, <3>2 DEF Members
  <2> HIDE DEF s
  <2>3. Members(observers) \subseteq Members(s)
    BY <1>1, <2>2 DEF Members
  <2> QED
    BY <2>1, <2>3
<1>3. CASE ~ Retreats(from, next)
  BY <1>3 DEF Snapshot
<1> QED
  BY <1>2, <1>3

-----------------------------------------------------------------------------
(* A step in which neither the scope nor the registry's state changes, no  *)
(* observer is lost and every frame that tells the scope's observer stays. *)
LEMMA KeepsDue ==
  ASSUME Ground, TypeOK', AborterDue, ~ InAborter,
         UNCHANGED <<state, scope, aborter, tracked>>,
         state # "Destroyed" => Members(observers) \subseteq Members(observers'),
         \A i \in 1 .. Len(stack) : Tells(stack[i], aborter) =>
           i \in 1 .. Len(stack') /\ Tells(stack'[i], aborter)
  PROVE  AborterDue'
<1>1. CASE scope = "open" /\ state = "Destroyed" /\ AborterPending
  <2>1. ASSUME Len(stack) > 1, Top = CallbackFrame(aborter, "Destroyed")
        PROVE  FALSE
    <3>1. stack # <<>>
      BY <2>1, EmptySeq DEF Ground, TypeOK
    <3>2. Top.op = "callback" /\ Top.id = aborter
      BY <2>1 DEF CallbackFrame
    <3> QED
      BY <3>1, <3>2 DEF InAborter, On
  <2>2. PICK i \in 1 .. Len(stack) : Tells(stack[i], aborter)
    BY <1>1, <2>1 DEF AborterPending
  <2>3. i \in 1 .. Len(stack') /\ Tells(stack'[i], aborter')
    BY <2>2
  <2>4. AborterPending'
    BY <2>3 DEF AborterPending, Tells, IsDestroying
  <2> QED
    BY <1>1, <2>4 DEF AborterDue
<1> QED
  BY <1>1 DEF AborterDue

(* A transition to Destroyed takes the scope's observer into its snapshot. *)
LEMMA ApplyKeepsDue ==
  ASSUME Ground, TypeOK', AborterDue, UNCHANGED <<scope, aborter, tracked>>,
         NEW next \in States, NEW below \in Seq(Frames), Apply(next, below)
  PROVE  AborterDue'
<1> DEFINE f == ApplyFrame(next, Len(log) + 1, Snapshot(state, next))
<1>1. f \in Frames /\ f.op = "apply" /\ f.event = next
      /\ f.todo = Snapshot(state, next)
  BY SnapshotType DEF ApplyFrame, Frames, Ground, TypeOK
<1> HIDE DEF f
<1>2. stack' = Append(below, f) /\ state # "Destroyed" /\ state' = next
      /\ observers' = observers
  BY DEF Apply, f
<1>3. CASE scope = "open"
  <2>1. aborter \in Members(observers)
    BY <1>2, <1>3 DEF AborterDue
  <2>2. aborter \in Members(f.todo)
    BY <1>1, <2>1, SnapshotHas DEF Ground, TypeOK
  <2>3. CASE next = "Destroyed"
    <3>1. Tells(f, aborter)
      BY <1>1, <2>2, <2>3 DEF Tells, IsDestroying
    <3>2. Len(below) + 1 \in 1 .. Len(stack') /\ stack'[Len(below) + 1] = f
      BY <1>1, <1>2, AppendProperties, LenProperties
    <3>3. Tells(stack'[Len(below) + 1], aborter')
      BY <3>1, <3>2
    <3>4. AborterPending'
      BY <3>2, <3>3 DEF AborterPending, Tells, IsDestroying
    <3> QED
      BY <1>2, <2>3, <3>4 DEF AborterDue
  <2>4. CASE next # "Destroyed"
    BY <1>2, <2>1, <2>4 DEF AborterDue
  <2> QED
    BY <2>3, <2>4
<1> QED
  BY <1>3 DEF AborterDue

(* Returning from a frame that has nothing to tell the scope's observer.   *)
LEMMA ReturnKeepsDue ==
  ASSUME Ground, TypeOK', AborterDue, ~ InAborter, stack # <<>>,
         UNCHANGED <<scope, aborter, tracked>>, NEW r, Return(r),
         ~ Tells(Top, aborter), state = "Destroyed" \/ observers' = observers
  PROVE  AborterDue'
<1>1. /\ Len(Below) = Len(stack) - 1
      /\ \A i \in 1 .. Len(stack) - 1 : Below[i] = stack[i]
      /\ Len(stack) \in Nat \ {0}
  BY TopAndBelow DEF Ground
<1>2. ASSUME NEW i \in 1 .. Len(stack), Tells(stack[i], aborter)
      PROVE  i \in 1 .. Len(stack') /\ Tells(stack'[i], aborter)
  <2>1. i # Len(stack)
    BY <1>2 DEF Top
  <2>2. i \in 1 .. Len(stack) - 1
    BY <1>1, <2>1
  <2> QED
    BY <1>1, <1>2, <2>2 DEF Return
<1> QED
  BY <1>2, KeepsDue DEF Return

(* Pushing a frame. *)
LEMMA PushKeepsDue ==
  ASSUME Ground, TypeOK', AborterDue, ~ InAborter,
         UNCHANGED <<state, scope, aborter, tracked>>,
         NEW f \in Frames, stack' = Append(stack, f),
         state = "Destroyed" \/ observers' = observers
           \/ \E id \in Nat : observers' = Append(observers, id)
  PROVE  AborterDue'
<1>1. \A i \in 1 .. Len(stack) : i \in 1 .. Len(stack') /\ stack'[i] = stack[i]
  BY AppendProperties, LenProperties DEF Ground, TypeOK
<1>2. state # "Destroyed" => Members(observers) \subseteq Members(observers')
  <2>1. DOMAIN observers = 1 .. Len(observers)
    BY LenProperties DEF Ground, TypeOK
  <2>2. ASSUME NEW id \in Nat, observers' = Append(observers, id)
        PROVE  \A i \in 1 .. Len(observers) :
                 i \in DOMAIN observers' /\ observers'[i] = observers[i]
    BY <2>2, AppendProperties, LenProperties DEF Ground, TypeOK
  <2> QED
    BY <2>1, <2>2 DEF Members
<1> QED
  BY <1>1, <1>2, KeepsDue

(* A step of the scope's environment, by the frames it touches. *)
LEMMA RunKeepsDue ==
  ASSUME Ground, TypeOK', AborterDue, Run,
         UNCHANGED <<scope, aborter, tracked>>
  PROVE  AborterDue'
<1>1. TypeOK /\ StackHonest
  BY DEF Ground
<1>2. ~ InAborter
  BY DEF Run, Notify, ApplyDone, FinishDestroy, MoveToRound, Replay,
         SubscribeDone, InAborter, On
<1>3. CASE Notify
  <2>1. stack # <<>> /\ Top.op = "apply"
    BY <1>3 DEF Notify, On
  <2>2. /\ Below \in Seq(Frames) /\ Len(Below) = Len(stack) - 1
        /\ \A i \in 1 .. Len(stack) - 1 : Below[i] = stack[i]
        /\ Len(stack) \in Nat \ {0}
        /\ Top \in [op : {"apply"}, event : States, n : Nat, todo : Seq(Nat)]
    BY <1>1, <2>1, TopAndBelow, FrameShapes
  <2> DEFINE f == [Top EXCEPT !.todo = Tail(@)]
             g == CallbackFrame(Head(Top.todo), Top.event)
  <2>3. Head(Top.todo) \in Nat /\ Tail(Top.todo) \in Seq(Nat)
    BY <1>3, <2>2, HeadTailProperties DEF Notify
  <2>4. /\ f \in Frames /\ g \in Frames
        /\ f.op = "apply" /\ f.event = Top.event /\ f.todo = Tail(Top.todo)
    BY <2>2, <2>3 DEF Frames, CallbackFrame
  <2>5. stack' = Below \o <<f, g>> /\ UNCHANGED <<state, observers>>
    BY <1>3 DEF Notify
  <2>6. g = CallbackFrame(Head(Top.todo), Top.event)
    OBVIOUS
  <2> HIDE DEF f, g
  <2>7. /\ Len(stack') = Len(Below) + 2
        /\ \A i \in 1 .. Len(Below) : stack'[i] = Below[i]
        /\ stack'[Len(Below) + 1] = f
        /\ stack'[Len(Below) + 2] = g
    <3>1. ASSUME NEW s \in Seq(Frames)
          PROVE  /\ Len(s \o <<f, g>>) = Len(s) + 2
                 /\ \A i \in 1 .. Len(s) : (s \o <<f, g>>)[i] = s[i]
                 /\ (s \o <<f, g>>)[Len(s) + 1] = f
                 /\ (s \o <<f, g>>)[Len(s) + 2] = g
      BY <2>4, PushedTwo
    <3> QED
      BY <2>2, <2>5, <3>1
  <2>8. /\ Len(stack') = Len(stack) + 1
        /\ \A i \in 1 .. Len(stack) - 1 : stack'[i] = stack[i]
        /\ stack'[Len(stack)] = f
        /\ stack'[Len(stack) + 1] = g
    BY <2>2, <2>7
  <2>9. CASE IsDestroying(Top) /\ Head(Top.todo) = aborter
    <3>1. Top' = CallbackFrame(aborter', "Destroyed")
      BY <2>2, <2>6, <2>8, <2>9 DEF Top, IsDestroying
    <3>2. IsDestroying(stack'[Len(stack') - 1]) /\ Len(stack') > 1
      <4>1. Len(stack') - 1 = Len(stack) /\ Len(stack') > 1
        BY <2>2, <2>8
      <4>2. IsDestroying(f)
        BY <2>4, <2>9 DEF IsDestroying
      <4> QED
        BY <2>8, <4>1, <4>2
    <3>3. AborterPending'
      BY <3>1, <3>2 DEF AborterPending, IsDestroying
    <3>4. state' = "Destroyed"
      BY <2>1, <2>5, <2>9, HonestTop, <1>1 DEF Honest, IsDestroying
    <3> QED
      BY <3>3, <3>4 DEF AborterDue
  <2>10. CASE ~ (IsDestroying(Top) /\ Head(Top.todo) = aborter)
    <3>1. Tells(Top, aborter) => Tells(f, aborter)
      <4> SUFFICES ASSUME Tells(Top, aborter) PROVE Tells(f, aborter)
        OBVIOUS
      <4>1. Top.todo \in Seq(Nat) /\ Top.todo # <<>>
        BY <1>3, <2>2 DEF Notify
      <4>2. aborter \in Members(Top.todo) /\ Head(Top.todo) # aborter
        BY <2>10 DEF Tells
      <4>3. aborter \in Members(Tail(Top.todo))
        BY <4>1, <4>2, TailMembers
      <4> QED
        BY <2>4, <4>3 DEF Tells, IsDestroying
    <3>2. ASSUME NEW i \in 1 .. Len(stack), Tells(stack[i], aborter)
          PROVE  i \in 1 .. Len(stack') /\ Tells(stack'[i], aborter)
      <4>1. CASE i = Len(stack)
        BY <2>2, <2>8, <3>1, <3>2, <4>1 DEF Top
      <4>2. CASE i # Len(stack)
        <5>1. i \in 1 .. Len(stack) - 1 /\ i \in 1 .. Len(stack) + 1
          BY <2>2, <4>2
        <5> QED
          BY <2>8, <3>2, <5>1
      <4> QED
        BY <4>1, <4>2
    <3> QED
      BY <1>2, <2>5, <3>2, KeepsDue
  <2> QED
    BY <2>9, <2>10
<1>4. CASE ApplyDone
  <2>1. stack # <<>> /\ Top.op = "apply" /\ Top.todo = <<>> /\ Return("Ok")
    BY <1>4 DEF ApplyDone, On
  <2>2. ~ Tells(Top, aborter)
    <3>1. DOMAIN Top.todo = {}
      BY <2>1, EmptySeq
    <3> QED
      BY <3>1 DEF Tells, Members
  <2>3. Top.event = "Destroyed" => state = "Destroyed"
    BY <1>1, <2>1, HonestTop DEF Honest
  <2>4. state = "Destroyed" \/ observers' = observers
    BY <1>4, <2>3 DEF ApplyDone
  <2> QED
    BY <1>2, <2>1, <2>2, <2>4, ReturnKeepsDue
<1>5. CASE FinishDestroy
  <2>1. /\ stack # <<>> /\ Below \in Seq(Frames) /\ ~ Tells(Top, aborter)
        /\ "Destroyed" \in States
    BY <1>1, <1>5, TopAndBelow DEF FinishDestroy, On, Tells, IsDestroying, States
  <2>2. CASE Return(ret) /\ UNCHANGED observers
    BY <1>2, <2>1, <2>2, ReturnKeepsDue
  <2>3. CASE Apply("Destroyed", Below)
    BY <2>1, <2>3, ApplyKeepsDue
  <2> QED
    BY <1>5, <2>2, <2>3 DEF FinishDestroy
<1>6. CASE MoveToRound
  <2>1. stack # <<>> /\ Top.op = "move_to"
    BY <1>6 DEF MoveToRound, On
  <2>2. ~ Tells(Top, aborter) /\ Top.target \in {"Created", "Started", "Resumed"}
    BY <1>1, <2>1, TopAndBelow, FrameShapes DEF Tells, IsDestroying
  <2>3. CASE /\ state \notin {Top.target, "Destroyed"}
             /\ Apply(Towards(Top.target), stack)
    <3>1. Towards(Top.target) \in States /\ stack \in Seq(Frames)
      BY <1>1, <2>2, <2>3, TowardsAdjacent DEF TypeOK, States
    <3> QED
      BY <2>3, <3>1, ApplyKeepsDue
  <2>4. ASSUME NEW r, Return(r), UNCHANGED observers
        PROVE  AborterDue'
    BY <1>2, <2>1, <2>2, <2>4, ReturnKeepsDue
  <2> QED
    BY <1>6, <2>3, <2>4 DEF MoveToRound
<1>7. CASE Replay
  <2>1. stack # <<>> /\ Top.op = "subscribe"
    BY <1>7 DEF Replay, On
  <2>2. /\ Below \in Seq(Frames) /\ Len(Below) = Len(stack) - 1
        /\ \A i \in 1 .. Len(stack) - 1 : Below[i] = stack[i]
        /\ Len(stack) \in Nat \ {0}
        /\ Top \in [op : {"subscribe"}, id : Nat, todo : Seq(States)]
    BY <1>1, <2>1, TopAndBelow, FrameShapes
  <2> DEFINE f == [Top EXCEPT !.todo = Tail(@)]
             g == CallbackFrame(Top.id, Head(Top.todo))
  <2>3. Head(Top.todo) \in States /\ Tail(Top.todo) \in Seq(States)
    BY <1>7, <2>2, HeadTailProperties DEF Replay
  <2>4. f \in Frames /\ g \in Frames
    BY <2>2, <2>3 DEF Frames, CallbackFrame
  <2>5. stack' = Below \o <<f, g>> /\ UNCHANGED <<state, observers>>
    BY <1>7 DEF Replay
  <2> HIDE DEF f, g
  <2>6. /\ Len(stack') = Len(Below) + 2
        /\ \A i \in 1 .. Len(Below) : stack'[i] = Below[i]
    BY <2>2, <2>4, <2>5, PushedTwo
  <2>7. ASSUME NEW i \in 1 .. Len(stack), Tells(stack[i], aborter)
        PROVE  i \in 1 .. Len(stack') /\ Tells(stack'[i], aborter)
    <3>1. i # Len(stack)
      BY <2>1, <2>7 DEF Tells, IsDestroying, Top
    <3>2. i \in 1 .. Len(stack) - 1
      BY <2>2, <3>1
    <3> QED
      BY <2>2, <2>6, <2>7, <3>2
  <2> QED
    BY <1>2, <2>5, <2>7, KeepsDue
<1>8. CASE SubscribeDone
  <2>1. stack # <<>> /\ Return("Ok") /\ UNCHANGED observers /\ ~ Tells(Top, aborter)
    BY <1>8 DEF SubscribeDone, On, Tells, IsDestroying
  <2> QED
    BY <1>2, <2>1, ReturnKeepsDue
<1> QED
  BY <1>3, <1>4, <1>5, <1>6, <1>7, <1>8 DEF Run

(* What the owner and the observers do, and their return. *)
LEMMA CallKeepsDue ==
  ASSUME Ground, TypeOK', AborterDue, ~ InAborter,
         ScopeOtherCall \/ CallbackReturn,
         UNCHANGED <<scope, aborter, tracked>>
  PROVE  AborterDue'
<1>1. TypeOK /\ "Destroyed" \in States /\ stack \in Seq(Frames)
  BY DEF Ground, TypeOK, States
<1>2. ASSUME NEW r, Answer(r) PROVE AborterDue'
  BY <1>2 DEF Answer, AborterDue, AborterPending, Tells, IsDestroying, Members, Top
<1>3. ASSUME BeginDestroy PROVE AborterDue'
  <2>1. CASE Apply("Destroyed", stack)
    BY <1>1, <2>1, ApplyKeepsDue
  <2>2. CASE /\ stack' = stack \o << DestroyFrame, MoveToFrame("Created") >>
             /\ UNCHANGED <<state, observers, nextId, ret, log, deliveries>>
    <3>1. DestroyFrame \in Frames /\ MoveToFrame("Created") \in Frames
      BY DEF DestroyFrame, MoveToFrame, Frames
    <3>2. \A i \in 1 .. Len(stack) :
            i \in 1 .. Len(stack') /\ stack'[i] = stack[i]
      BY <1>1, <2>2, <3>1, PushedTwo, LenProperties
    <3> QED
      BY <2>2, <3>2, KeepsDue
  <2> QED
    BY <1>3, <2>1, <2>2 DEF BeginDestroy
<1>4. CASE StrictStep
  <2> SUFFICES ASSUME NEW from \in States, NEW to \in States, Step(from, to)
               PROVE  AborterDue'
    BY <1>4 DEF StrictStep, States
  <2> QED
    BY <1>1, <1>2, ApplyKeepsDue DEF Step
<1>5. CASE Destroy
  BY <1>2, <1>3, <1>5 DEF Destroy
<1>6. CASE \E target \in States : MoveTo(target)
  <2>1. PICK target \in States : MoveTo(target)
    BY <1>6
  <2>2. CASE /\ target \notin {state, "Initialized", "Destroyed"}
             /\ stack' = Append(stack, MoveToFrame(target))
             /\ UNCHANGED <<state, observers, nextId, ret, log, deliveries>>
    <3>1. MoveToFrame(target) \in Frames
      BY <2>2 DEF MoveToFrame, Frames, States
    <3> QED
      BY <2>2, <3>1, PushKeepsDue
  <2> QED
    BY <1>2, <1>3, <2>1, <2>2 DEF MoveTo
<1>7. CASE Subscribe
  <2>1. SubscribeFrame(nextId, CatchUp(state)) \in Frames /\ nextId \in Nat
    BY <1>1, CatchUpType DEF SubscribeFrame, Frames, TypeOK
  <2> QED
    BY <1>7, <2>1, PushKeepsDue DEF Subscribe
<1>8. CASE \E id \in 0 .. nextId - 1 : id # aborter /\ Unsubscribe(id)
  <2>1. PICK id : id # aborter /\ Unsubscribe(id)
    BY <1>8
  <2>2. CASE scope = "open" /\ state # "Destroyed"
    <3>1. aborter \in Members(Without(id))
      BY <1>1, <2>1, <2>2, WithoutKeepsMember DEF AborterDue, TypeOK
    <3> QED
      BY <2>1, <2>2, <3>1 DEF Unsubscribe, AborterDue
  <2>3. CASE ~ (scope = "open" /\ state # "Destroyed")
    BY <2>1, <2>3 DEF Unsubscribe, AborterDue, AborterPending, Tells, IsDestroying,
                      Members, Top
  <2> QED
    BY <2>2, <2>3
<1>9. CASE CallbackReturn
  <2>1. stack # <<>> /\ Return("Ok") /\ UNCHANGED observers /\ ~ Tells(Top, aborter)
    BY <1>9 DEF CallbackReturn, On, Tells, IsDestroying
  <2> QED
    BY <2>1, ReturnKeepsDue
<1> QED
  BY <1>4, <1>5, <1>6, <1>7, <1>8, <1>9 DEF ScopeOtherCall

(* The scope's own steps: it subscribes its observer, and what it tracks   *)
(* is gone once that observer has heard of Destroyed or the scope is       *)
(* dropped; nothing is spawned on a destroyed lifecycle.                   *)
LEMMA DueStep ==
  ASSUME Ground, TypeOK', Owned, AborterDue, [ScopeNext]_scopeAll
  PROVE  AborterDue'
<1>1. CASE WithHandle
  <2>1. tracked' = {} /\ aborter' = nextId
    BY <1>1 DEF WithHandle, Owned
  <2>2. CASE state # "Destroyed"
    <3>1. observers' = Append(observers, nextId) /\ nextId \in Nat
          /\ observers \in Seq(Nat)
      BY <1>1, <2>2 DEF WithHandle, Subscribe, Ground, TypeOK
    <3>2. /\ Len(observers) + 1 \in DOMAIN observers'
          /\ observers'[Len(observers) + 1] = nextId
      BY <3>1, AppendProperties, LenProperties
    <3> QED
      BY <2>1, <3>2 DEF AborterDue, Members
  <2>3. CASE state = "Destroyed"
    BY <1>1, <2>1, <2>3 DEF WithHandle, Subscribe, AborterDue
  <2> QED
    BY <2>2, <2>3
<1>2. CASE Spawn
  BY <1>2 DEF Spawn, AborterDue, Members, vars
<1>3. CASE CleanUp
  <2>1. stack # <<>> /\ Top.op = "callback" /\ Top.id = aborter /\ Return("Ok")
        /\ UNCHANGED <<state, observers, scope, aborter>>
    BY <1>3 DEF CleanUp, InAborter, On, Return
  <2>2. CASE Top.event = "Destroyed"
    <3>1. state = "Destroyed"
      BY <2>1, <2>2, HonestTop DEF Ground, Honest
    <3>2. tracked' = {}
      BY <1>3, <2>2 DEF CleanUp, AbortAll
    <3> QED
      BY <2>1, <3>1, <3>2 DEF AborterDue
  <2>3. CASE Top.event # "Destroyed"
    <3>1. tracked' = tracked
      BY <1>3, <2>3 DEF CleanUp
    <3>2. /\ Len(Below) = Len(stack) - 1
          /\ \A i \in 1 .. Len(stack) - 1 : Below[i] = stack[i]
          /\ Len(stack) \in Nat \ {0}
      BY <2>1, TopAndBelow DEF Ground
    <3>3. Top # CallbackFrame(aborter, "Destroyed")
      BY <2>3 DEF CallbackFrame
    <3>4. ASSUME NEW i \in 1 .. Len(stack), Tells(stack[i], aborter)
          PROVE  i \in 1 .. Len(stack') /\ Tells(stack'[i], aborter')
      <4>1. i # Len(stack)
        BY <2>1, <3>4 DEF Top, Tells, IsDestroying
      <4>2. i \in 1 .. Len(stack) - 1
        BY <3>2, <4>1
      <4> QED
        BY <2>1, <3>2, <3>4, <4>2 DEF Return
    <3>5. AborterPending => AborterPending'
      BY <3>3, <3>4 DEF AborterPending, Tells, IsDestroying, Members
    <3> QED
      BY <2>1, <3>1, <3>5 DEF AborterDue, Members
  <2> QED
    BY <2>2, <2>3
<1>4. CASE DropScope
  BY <1>4 DEF DropScope, AborterDue
<1>5. CASE UNCHANGED <<vars, scope, aborter, tracked>>
  BY <1>5 DEF vars, AborterDue, AborterPending, Tells, IsDestroying, Members, Top
<1>6. CASE ~ InAborter /\ (ScopeOtherCall \/ CallbackReturn) /\ UNCHANGED scopeVars
  BY <1>6, CallKeepsDue DEF scopeVars
<1>7. CASE Run /\ UNCHANGED scopeVars
  BY <1>7, RunKeepsDue DEF scopeVars
<1> QED
  BY <1>1, <1>2, <1>3, <1>4, <1>5, <1>6, <1>7
     DEF ScopeNext, Finish, scopeAll, scopeVars

(* No task that was spawned through a scope runs on, not told to stop,     *)
(* once the scope is dropped or its lifecycle's destruction is over: the   *)
(* scope's observer is in the snapshot of that notification, whatever the  *)
(* other observers do, and nothing is spawned after it. (scope.rs 26-27)   *)
THEOREM ScopeEndsTasks == ScopeSpec => []NoTaskOutlivesScope
<1>1. ScopeInit => Owned /\ AborterDue
  BY EmptySeq DEF ScopeInit, Owned, TracksTheUnfinished, AborterDue
<1>2. Ground /\ Ground' /\ Owned /\ AborterDue /\ [ScopeNext]_scopeAll
        => Owned' /\ AborterDue'
  BY OwnedStep, DueStep DEF Ground
<1>3. Ground /\ Owned /\ AborterDue => NoTaskOutlivesScope
  <2> SUFFICES ASSUME Ground, Owned, AborterDue,
                      scope = "open", state = "Destroyed", ~ Destroying
               PROVE  tracked = {}
    BY DEF NoTaskOutlivesScope, Owned
  <2>1. \A i \in 1 .. Len(stack) : ~ IsDestroying(stack[i])
    BY LenProperties DEF Destroying, IsDestroying, Ground, TypeOK
  <2>2. Len(stack) \in Nat
    BY LenProperties DEF Ground, TypeOK
  <2>3. ~ AborterPending
    <3>1. Len(stack) > 1 => Len(stack) - 1 \in 1 .. Len(stack)
      BY <2>2
    <3> QED
      BY <2>1, <3>1 DEF AborterPending, Tells
  <2> QED
    BY <2>3 DEF AborterDue
<1> QED
  BY <1>1, <1>2, <1>3, GroundHolds, PTL DEF ScopeSpec

=============================================================================
