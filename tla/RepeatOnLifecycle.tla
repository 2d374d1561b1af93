-------------------------- MODULE RepeatOnLifecycle -------------------------
(***************************************************************************)
(* crates/essenty-lifecycle-tokio/src/repeat.rs: one call of               *)
(* repeat_on_lifecycle on a registry that other code drives at the same    *)
(* time.                                                                   *)
(*                                                                         *)
(* The future is polled on the thread of the registry, between its calls   *)
(* (stack = <<>>); the registry in turn runs between two polls, whenever   *)
(* the future waits.  The child tasks run on their own.  The inbox is what *)
(* the future's observer has sent and the loop has not yet taken.          *)
(*                                                                         *)
(* tokio is external: abort() takes effect some time later, at a point     *)
(* where the child awaits, and a JoinHandle is ready once the task is      *)
(* gone.  repeat_on_lifecycle and repeat_on_lifecycle_local differ only in *)
(* how a child is spawned, which is not seen here.                         *)
(***************************************************************************)
EXTENDS LifecycleRegistry, Integers

CONSTANTS
  StartStates,  \* the states in which the call may find the registry
  MinStates     \* the arguments min_state that a caller may pass

ASSUME RepeatAssumption ==
  StartStates \subseteq States /\ MinStates \subseteq States

VARIABLES
  minState,  \* argument of the call
  phase,     \* where run_repeat is
  sub,       \* the id of _subscription, -1 before it exists
  sent,      \* history: the calls of the observer, which sends the event
  taken,     \* how many events recv has returned
  child,     \* the handle in AbortOnDrop, 0 for None
  awaited,   \* the handle stop_child has taken and awaits, 0 for none
  blocks     \* the child tasks ever spawned

loopVars   == <<minState, phase, sub, taken, child, awaited, blocks>>
repeatVars == <<loopVars, sent>>
repeatAll  == <<vars, repeatVars>>

\* "new" before the first poll; "recv" in the loop, waiting for an event;
\* "block" inside the factory; "await" in stop_child; "done" returned or dropped
Phases == {"new", "recv", "block", "await", "done"}

Taken == sent[taken].event

ActiveByRank(s, min) == Rank(s) >= Rank(min)  \* mutant of IsActive

IsActive(s, min) == s # "Destroyed" /\ Rank(s) >= Rank(min)

Aborted(tasks, t) ==
  IF t = 0 \/ tasks[t] # "running" THEN tasks
  ELSE [tasks EXCEPT ![t] = "aborted"]

-----------------------------------------------------------------------------
(* The registry is found in some state, without observers. *)
RepeatInit ==
  /\ state \in StartStates
  /\ observers = <<>> /\ nextId = 0 /\ stack = <<>> /\ ret = "Ok"
  /\ log = <<>> /\ deliveries = <<>>
  /\ minState \in MinStates
  /\ phase = "new" /\ sub = -1 /\ sent = <<>> /\ taken = 0
  /\ child = 0 /\ awaited = 0 /\ blocks = <<>>

(* The future ends, by return or by drop: AbortOnDrop aborts the child in  *)
(* its slot, a handle that is awaited is detached, _subscription removes   *)
(* the observer.                                                           *)
End ==
  /\ phase' = "done"
  /\ blocks' = Aborted(blocks, child)
  /\ child' = 0 /\ awaited' = 0
  /\ observers' = Without(sub)
  /\ UNCHANGED <<state, nextId, stack, ret, log, deliveries,
                 minState, sub, sent, taken>>

(* run_repeat up to its loop; it returns early for Initialized, which is   *)
(* not a valid min_state, and for a destroyed registry.  The second test   *)
(* for Destroyed cannot succeed: the replay only sends.                    *)
FirstPoll ==
  /\ phase = "new" /\ stack = <<>>
  /\ \/ (minState = "Initialized" \/ state = "Destroyed") /\ End
     \/ /\ minState # "Initialized" /\ state # "Destroyed"
        /\ Subscribe
        /\ sub' = nextId /\ phase' = "recv"
        /\ UNCHANGED <<minState, sent, taken, child, awaited, blocks>>

StopInPlace ==  \* mutant of StopChild: the handle stays in the slot
  /\ blocks' = Aborted(blocks, child)
  /\ awaited' = child
  /\ child' = child
  /\ phase' = "await"

StopUnawaited ==  \* mutant of StopChild: the termination is not awaited
  /\ blocks' = Aborted(blocks, child)
  /\ awaited' = 0
  /\ child' = 0
  /\ phase' = "await"

(* stop_child up to its await.  With an empty slot it is a no-op.          *)
StopChild ==
  /\ blocks' = Aborted(blocks, child)
  /\ awaited' = child
  /\ child' = 0
  /\ phase' = "await"

RecvLatest ==  \* mutant of Recv: a watch channel, that keeps the last state
  /\ phase = "recv" /\ stack = <<>>
  /\ taken < Len(sent)
  /\ taken' = Len(sent)
  /\ LET event == sent[taken'].event IN
     \/ IsActive(event, minState) /\ child = 0
        /\ phase' = "block" /\ UNCHANGED <<child, awaited, blocks>>
     \/ IsActive(event, minState) /\ child # 0
        /\ UNCHANGED <<phase, child, awaited, blocks>>
     \/ ~ IsActive(event, minState) /\ StopChild
  /\ UNCHANGED <<vars, minState, sub, sent>>

RecvUntilDestroyed ==  \* mutant of Recv: only Destroyed stops the child
  /\ phase = "recv" /\ stack = <<>>
  /\ taken < Len(sent)
  /\ taken' = taken + 1
  /\ LET event == sent[taken'].event IN
     \/ IsActive(event, minState) /\ child = 0
        /\ phase' = "block" /\ UNCHANGED <<child, awaited, blocks>>
     \/ event # "Destroyed" /\ (IsActive(event, minState) => child # 0)
        /\ UNCHANGED <<phase, child, awaited, blocks>>
     \/ event = "Destroyed" /\ StopChild
  /\ UNCHANGED <<vars, minState, sub, sent>>

(* One event of the loop: an active state calls the factory unless there   *)
(* is a child, finished or not; any other state stops the child.           *)
Recv ==
  /\ phase = "recv" /\ stack = <<>>
  /\ taken < Len(sent)
  /\ taken' = taken + 1
  /\ LET event == sent[taken'].event IN
     \/ IsActive(event, minState) /\ child = 0
        /\ phase' = "block" /\ UNCHANGED <<child, awaited, blocks>>
     \/ IsActive(event, minState) /\ child # 0
        /\ UNCHANGED <<phase, child, awaited, blocks>>
     \/ ~ IsActive(event, minState) /\ StopChild
  /\ UNCHANGED <<vars, minState, sub, sent>>

(* The factory, which is user code, has returned: the child is spawned.    *)
SpawnChild ==
  /\ phase = "block" /\ stack = <<>>
  /\ blocks' = Append(blocks, "running")
  /\ child' = Len(blocks')
  /\ phase' = "recv"
  /\ UNCHANGED <<vars, minState, sub, sent, taken, awaited>>

(* The await of stop_child is over: back to the loop, or after Destroyed   *)
(* the end.                                                                *)
Awaited ==
  /\ phase = "await" /\ stack = <<>>
  /\ awaited # 0 => blocks[awaited] = "gone"
  /\ \/ Taken = "Destroyed" /\ End
     \/ /\ Taken # "Destroyed"
        /\ phase' = "recv" /\ awaited' = 0
        /\ UNCHANGED <<vars, minState, sub, sent, taken, child, blocks>>

(* The future's observer only sends. *)
InMine == On("callback") /\ Top.id = sub

(* External cancellation, by the owner or by an observer, while the future *)
(* is not being polled; and a panic of the factory or of the spawn.        *)
DropFuture ==
  /\ UserCode /\ ~ InMine
  /\ \/ phase \in {"new", "recv", "await"}
     \/ phase = "block" /\ stack = <<>>
  /\ End

(* A child returns by itself, or the abort reaches it. *)
Leave(t) ==
  /\ blocks[t] # "gone"
  /\ blocks' = [blocks EXCEPT ![t] = "gone"]
  /\ UNCHANGED <<vars, minState, phase, sub, sent, taken, child, awaited>>

Poll == FirstPoll \/ Recv \/ SpawnChild \/ Awaited

(* What the registry's owner and its other observers do meanwhile.  They    *)
(* leave the future one of the MaxObservers subscriptions.                 *)
RepeatOtherCall ==
  \/ StrictStep
  \/ Destroy
  \/ \E target \in States : MoveTo(target)
  \/ Subscribe /\ (phase = "new" => nextId + 1 < MaxObservers)
  \/ \E id \in 0 .. nextId - 1 : id # sub /\ Unsubscribe(id)

(* The calls of the registry run on; the future's observer sends what it   *)
(* is called with into the inbox.                                          *)
RunOn ==
  /\ Run \/ CallbackReturn
  /\ LET call == deliveries'[Len(deliveries')] IN
     sent' = IF deliveries' # deliveries /\ call.id = sub THEN Append(sent, call)
                                                         ELSE sent
  /\ UNCHANGED loopVars

RepeatNext ==
  \/ Poll
  \/ DropFuture
  \/ \E t \in DOMAIN blocks : Leave(t)
  \/ ~ InMine /\ RepeatOtherCall /\ UNCHANGED repeatVars
  \/ RunOn

RepeatSpec == RepeatInit /\ [][RepeatNext]_repeatAll

(* The executor polls a future that can go on, a call of the registry runs *)
(* on, and an aborted task reaches a point where it awaits.                *)
RepeatFairness ==
  /\ WF_repeatAll(Poll)
  /\ WF_repeatAll(RunOn)
  /\ WF_repeatAll(\E t \in DOMAIN blocks : blocks[t] = "aborted" /\ Leave(t))

RepeatFairSpec == RepeatSpec /\ RepeatFairness

-----------------------------------------------------------------------------
(* The variables of the future have their types: there is a child in the   *)
(* slot only while the loop waits for an event, and what is in the channel *)
(* comes from the future's own observer. (repeat.rs 14-40)                 *)
RepeatTypeOK ==
  /\ minState \in States
  /\ phase \in Phases
  /\ sub \in -1 .. nextId - 1
  /\ sent \in Seq([id : {sub}, event : States, n : Nat])
  /\ taken \in 0 .. Len(sent)
  /\ child \in 0 .. Len(blocks)
  /\ child # 0 => phase = "recv"
  /\ awaited \in 0 .. Len(blocks)
  /\ blocks \in Seq({"running", "aborted", "gone"})

(* Where the block that is repeated stands: the one task that is alive.    *)
Block == IF \E t \in DOMAIN blocks : blocks[t] = "running" THEN "in"
         ELSE IF \E t \in DOMAIN blocks : blocks[t] = "aborted" THEN "leaving"
         ELSE "out"

(* However fast the lifecycle moves, whoever finishes when, and wherever   *)
(* the future is dropped: the block is never entered before the last one   *)
(* has left, and the end of the repetition leaves none behind that was not *)
(* told to leave.  (repeat.rs 14-40, 216-234)                              *)
Promise == INSTANCE RepeatBlock WITH block <- Block, ended <- phase = "done"

KeepsPromise == Promise!Spec

(* The factory is called anew on each entry into the active states, as the *)
(* inbox tells them, and on no other occasion: a burst of transitions      *)
(* loses no restart, and a block that returned by itself is not started    *)
(* again before the lifecycle has fallen below.  (repeat.rs 46-49, 199-201)*)
Entries ==
  Cardinality({k \in 1 .. taken :
    /\ IsActive(sent[k].event, minState)
    /\ k > 1 => ~ IsActive(sent[k - 1].event, minState)})

OneBlockPerEntry ==
  phase \in {"recv", "await"} => Len(blocks) = Entries

(* Once everything has been taken, there is a child iff the lifecycle is   *)
(* active, provided that the future's observer heard the transitions in    *)
(* their order, which a transition nested in an observer before it undoes. *)
(* (repeat.rs 42-49; registry.rs 113)                                      *)
HeardInOrder ==
  \A j, k \in DOMAIN sent :
    j < k /\ sent[k].n > 0 => sent[j].n < sent[k].n

ChildFollowsLifecycle ==
  /\ phase = "recv" /\ stack = <<>> /\ taken = Len(sent)
  /\ HeardInOrder
  => (child # 0) = IsActive(state, minState)

(* "destruction ends repetition permanently" (repeat.rs 48-49): the future *)
(* of a destroyed registry returns, and its last block leaves.             *)
DestructionEnds ==
  state = "Destroyed" /\ phase # "new" ~>
    phase = "done" /\ \A t \in DOMAIN blocks : blocks[t] = "gone"

=============================================================================
