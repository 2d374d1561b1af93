------------------------ MODULE BackDispatcher_proofs -------------------------
(***************************************************************************)
(* Proofs about BackDispatcher, for every set of priorities and of         *)
(* positions, every number of handlers and every number of commands a      *)
(* callback queues.                                                        *)
(***************************************************************************)
EXTENDS BackDispatcher, SequenceTheorems, FiniteSetTheorems, TLAPS

(* A task with another one put in front.                                   *)
LEMMA Prefixed ==
  ASSUME NEW S, NEW rest \in Seq(S), NEW task
  PROVE  /\ << task >> \o rest # <<>>
         /\ Head(<< task >> \o rest) = task
         /\ Tail(<< task >> \o rest) = rest
         /\ task \in S => << task >> \o rest \in Seq(S)
<1> DEFINE T == S \cup {task}
<1>1. rest \in Seq(T) /\ << task >> \in Seq(T) /\ Len(<< task >>) = 1
  BY SeqMonotonic
<1>2. /\ << task >> \o rest \in Seq(T)
      /\ Len(<< task >> \o rest) = 1 + Len(rest)
      /\ \A i \in 1 .. 1 + Len(rest) :
           (<< task >> \o rest)[i] = IF i <= 1 THEN << task >>[i] ELSE rest[i - 1]
  BY <1>1, ConcatProperties
<1>3. Len(rest) \in Nat
  BY LenProperties
<1>4. << task >> \o rest # <<>>
  BY <1>2, <1>3, EmptySeq
<1>5. Head(<< task >> \o rest) = task
  BY <1>2, <1>3, <1>4
<1>6. /\ Tail(<< task >> \o rest) \in Seq(T)
      /\ Len(Tail(<< task >> \o rest)) = Len(rest)
      /\ \A i \in 1 .. Len(rest) :
           Tail(<< task >> \o rest)[i] = (<< task >> \o rest)[i + 1]
  BY <1>2, <1>3, <1>4, HeadTailProperties
<1>7. \A i \in 1 .. Len(rest) : Tail(<< task >> \o rest)[i] = rest[i]
  BY <1>2, <1>3, <1>6
<1>8. Tail(<< task >> \o rest) = rest
  BY <1>1, <1>6, <1>7, SeqEqual
<1>9. ASSUME task \in S PROVE << task >> \o rest \in Seq(S)
  BY <1>9, ConcatProperties
<1> QED
  BY <1>4, <1>5, <1>8, <1>9

(* One task alone. *)
LEMMA Alone ==
  ASSUME NEW task
  PROVE  /\ << task >> # <<>>
         /\ Head(<< task >>) = task
         /\ Tail(<< task >>) = <<>>
         /\ \A S : task \in S => << task >> \in Seq(S)
  OBVIOUS

(* Two tasks put in front. *)
LEMMA PrefixedTwo ==
  ASSUME NEW S, NEW rest \in Seq(S), NEW first, NEW second \in S
  PROVE  /\ << first, second >> \o rest = << first >> \o (<< second >> \o rest)
         /\ << second >> \o rest \in Seq(S)
<1> DEFINE T == S \cup {first}
<1>1. /\ rest \in Seq(T) /\ << first >> \in Seq(T) /\ << second >> \in Seq(T)
  BY SeqMonotonic
<1>2. << first, second >> = << first >> \o << second >>
  <2>1. /\ << first >> \o << second >> \in Seq(T)
        /\ Len(<< first >> \o << second >>) = 2
        /\ (<< first >> \o << second >>)[1] = first
        /\ (<< first >> \o << second >>)[2] = second
    BY <1>1, ConcatProperties
  <2>2. << first, second >> \in Seq(T) /\ Len(<< first, second >>) = 2
    OBVIOUS
  <2>3. \A i \in 1 .. 2 : << first, second >>[i] = (<< first >> \o << second >>)[i]
    BY <2>1
  <2> HIDE DEF T
  <2> QED
    BY <2>1, <2>2, <2>3, SeqEqual
<1> QED
  BY <1>1, <1>2, ConcatAssociative, Prefixed

-----------------------------------------------------------------------------
(* The winner is one of the enabled handlers: they are finitely many and   *)
(* Beats orders them, so that one beats all the others.                    *)
(* (dispatcher.rs 401-412)                                                 *)
LEMMA WinnerEnabled ==
  ASSUME Registered \subseteq Ids, entries \in [Registered -> Entry], Enabled # {}
  PROVE  Winner \in Enabled
<1>1. Enabled \subseteq Ids /\ Ids \subseteq Nat
  <2>1. Enabled \subseteq Ids
    BY DEF Enabled
  <2> QED
    BY <2>1, DispatcherAssumption DEF Ids
<1>2. \A id \in Enabled : entries[id].priority \in Nat
  BY DispatcherAssumption DEF Enabled, Entry
<1>3. IsFiniteSet(Enabled)
  <2>1. IsFiniteSet(Ids)
    BY DispatcherAssumption, FS_Interval DEF Ids
  <2> QED
    BY <1>1, <2>1, FS_Subset
<1> DEFINE Above(id) == {other \in Enabled : ~ Beats(id, other)}
           Aboves    == {Above(id) : id \in Enabled}
<1>4. Aboves \subseteq FiniteSubsetsOf(Enabled)
  BY <1>3, FS_FiniteSubsetsOfFinite
<1>5. \E least \in Aboves : \A above \in Aboves :
        ~ (<<above, least>> \in StrictSubsetOrdering(Enabled))
  <2>1. PICK id \in Enabled : TRUE
    OBVIOUS
  <2>2. Above(id) \in Aboves
    OBVIOUS
  <2> HIDE DEF Aboves
  <2> QED
    BY <1>4, <2>2, FS_StrictSubsetOrderingWellFounded, WFMin
<1>6. PICK id \in Enabled : \A other \in Enabled :
        ~ (<<Above(other), Above(id)>> \in StrictSubsetOrdering(Enabled))
  BY <1>5
<1>7. ASSUME NEW other \in Enabled, ~ Beats(id, other)
      PROVE  FALSE
  <2>1. Beats(other, id)
    BY <1>1, <1>2, <1>7 DEF Beats
  <2>2. ASSUME NEW third \in Enabled, Beats(id, third)
        PROVE  Beats(other, third)
    <3>1. /\ id \in Nat /\ other \in Nat /\ third \in Nat
          /\ entries[id].priority \in Nat
          /\ entries[other].priority \in Nat
          /\ entries[third].priority \in Nat
      BY <1>1, <1>2
    <3> QED
      BY <2>1, <2>2, <3>1 DEF Beats
  <2>3. other \in Above(id) /\ other \notin Above(other)
    BY <1>1, <1>7 DEF Beats
  <2>4. <<Above(other), Above(id)>> \in StrictSubsetOrdering(Enabled)
    BY <1>1, <1>2, <2>2, <2>3 DEF StrictSubsetOrdering
  <2> QED
    BY <1>6, <2>4
<1>8. \E best \in Enabled : \A other \in Enabled : Beats(best, other)
  BY <1>6, <1>7
<1> QED
  BY <1>8 DEF Winner

(* Who gets the next event is registered, and enabled unless it owns the   *)
(* gesture already.                                                        *)
LEMMA OwnerOrWinnerKnown ==
  ASSUME TypeOK, OwnerOrWinner # None, active # None => active \in Registered
  PROVE  /\ OwnerOrWinner \in Registered
         /\ OwnerOrWinner \in Ids
         /\ active = None => entries[OwnerOrWinner].enabled
<1>1. CASE active # None
  BY <1>1 DEF OwnerOrWinner, TypeOK
<1>2. CASE active = None
  <2>1. Winner # None /\ Enabled # {} /\ OwnerOrWinner = Winner
    BY <1>2 DEF OwnerOrWinner, Winner
  <2>2. Winner \in Enabled
    BY <2>1, WinnerEnabled DEF TypeOK
  <2> QED
    BY <1>2, <2>1, <2>2 DEF Enabled, TypeOK
<1> QED
  BY <1>1, <1>2

-----------------------------------------------------------------------------
(* The inductive invariant.                                                *)

(* A task that may wait behind another one: nobody is called, and an entry *)
(* is removed only while nobody owns the gesture.                          *)
Waiting(owner) ==
  {task \in Command \cup [op : {"remove"}, id : Ids]
                    \cup [op : {"progress"}] \cup [op : {"notify"}] :
     task.op = "remove" => owner = None}

QueueInOrder ==
  todo # <<>> => /\ Next1.op = "remove" => active = None
                 /\ Rest \in Seq(Waiting(active))

(* A registration queued by a callback is reconciled before the call ends. *)
Settles(tasks) ==
  \A i \in DOMAIN tasks : tasks[i].op = "register" =>
    \E j \in DOMAIN tasks : i < j /\ tasks[j].op = "notify"

AggregateKept ==
  /\ Settles(todo)
  /\ \/ hasEnabled = CanHandle(entries)
     \/ \E i \in DOMAIN todo : todo[i].op = "notify"
  /\ \A l \in DOMAIN listeners :
       listeners[l].value = hasEnabled /\ listeners[l].parity = hasEnabled

(* What the delivery at the head of the queue means for the claim.         *)
Ending == Doing("deliver") /\ Next1.phase \in {"Cancelled", "Invoked"}
Starting == Doing("deliver") /\ Next1.phase = "Started"

ClaimKept ==
  /\ Ending => active = None
  /\ Starting => Next1.id = active /\ Next1.start = startEvent
  /\ active # None => told[active] = startEvent \/ Starting
  /\ serial => \A id \in Ids : told[id] # None =>
                 id = active \/ (Ending /\ id = Next1.id)

(* All that the invariant says of the claim. *)
ClaimInv == ClaimKept /\ ClaimConsistent /\ DeliveriesAreDue

IInv == TypeOK /\ QueueInOrder /\ AggregateKept /\ ClaimInv

-----------------------------------------------------------------------------
(* Types.                                                                  *)

(* What a task holds, by its kind. *)
LEMMA TaskShapes ==
  ASSUME NEW task \in Task
  PROVE  /\ task.op \in {"register", "unregister", "set_enabled", "deliver",
                         "callback", "remove", "progress", "notify"}
         /\ task.op = "register" =>
              task.id \in Ids /\ task.entry \in Entry
         /\ task.op = "unregister" => task.id \in Ids
         /\ task.op = "set_enabled" => task.id \in Ids /\ task.enabled \in BOOLEAN
         /\ task.op = "deliver" =>
              /\ task.id \in Ids /\ task.phase \in Phases
              /\ task.start \in Positions \cup {None}
         /\ task.op = "callback" =>
              task \in [op : {"callback"}, id : Ids, pending : Seq(Command)]
         /\ task.op = "remove" => task.id \in Ids
  BY DEF Task, Command

(* What the dispatcher puts in the queue. *)
LEMMA TasksTyped ==
  /\ Command \subseteq Task
  /\ [op |-> "progress"] \in Task /\ [op |-> "notify"] \in Task
  /\ \A id \in Ids : [op |-> "remove", id |-> id] \in Task
  /\ \A id \in Ids, phase \in Phases, start \in Positions \cup {None} :
       Deliver(id, phase, start) \in Task
  /\ \A id \in Ids, pending \in Seq(Command) :
       [op |-> "callback", id |-> id, pending |-> pending] \in Task
  BY DEF Task, Deliver

(* The head of the queue and what waits behind it. *)
LEMMA QueueSplit ==
  ASSUME TypeOK, todo # <<>>
  PROVE  Next1 \in Task /\ Rest \in Seq(Task)
  BY HeadTailProperties DEF TypeOK, Next1, Rest

(* The type of the entries, and what insertion, removal and a change of one *)
(* entry make of them.                                                      *)
EntriesOK(es) == DOMAIN es \subseteq Ids /\ es \in [DOMAIN es -> Entry]

(* An entry is inserted or replaced. *)
LEMMA WithTyped ==
  ASSUME EntriesOK(entries), NEW id \in Ids, NEW entry \in Entry
  PROVE  EntriesOK(With(id, entry)) /\ DOMAIN With(id, entry) = Registered \cup {id}
  BY DEF EntriesOK, With, Registered

(* An entry is removed. *)
LEMMA DroppingTyped ==
  ASSUME EntriesOK(entries), NEW id
  PROVE  EntriesOK(Dropping(id)) /\ DOMAIN Dropping(id) = Registered \ {id}
  BY DEF EntriesOK, Dropping, Registered

(* One field of an entry is set; a priority does not matter to the aggregate. *)
LEMMA ChangedTyped ==
  ASSUME EntriesOK(entries), NEW id \in Registered,
         NEW enabled \in BOOLEAN, NEW priority \in Priorities
  PROVE  /\ EntriesOK([entries EXCEPT ![id].enabled = enabled])
         /\ DOMAIN [entries EXCEPT ![id].enabled = enabled] = Registered
         /\ EntriesOK([entries EXCEPT ![id].priority = priority])
         /\ DOMAIN [entries EXCEPT ![id].priority = priority] = Registered
         /\ CanHandle([entries EXCEPT ![id].priority = priority])
              = CanHandle(entries)
<1>1. entries[id] \in Entry
  BY DEF EntriesOK, Registered
<1>2. /\ [entries[id] EXCEPT !.enabled = enabled] \in Entry
      /\ [entries[id] EXCEPT !.priority = priority] \in Entry
      /\ [entries[id] EXCEPT !.priority = priority].enabled = entries[id].enabled
  BY <1>1 DEF Entry
<1> QED
  BY <1>2 DEF EntriesOK, Registered, CanHandle

(* The type of the aggregate and its listeners. *)
AggregateOK ==
  /\ DOMAIN listeners \subseteq 0 .. MaxListeners - 1
  /\ listeners \in [DOMAIN listeners -> [value : BOOLEAN, parity : BOOLEAN]]
  /\ hasEnabled \in BOOLEAN

(* A reconciliation keeps it. *)
LEMMA ReconcileTyped ==
  ASSUME AggregateOK, NEW es, Reconcile(es)
  PROVE  AggregateOK'
<1>1. CanHandle(es) \in BOOLEAN
  BY DEF CanHandle
<1> QED
  BY <1>1 DEF AggregateOK, Reconcile

(* TypeOK in three parts. *)
LEMMA TypeParts ==
  TypeOK <=> /\ EntriesOK(entries) /\ AggregateOK
             /\ active \in Ids \cup {None} /\ inFlight \in BOOLEAN
             /\ startEvent \in Positions \cup {None}
             /\ serial \in BOOLEAN /\ nextId \in Nat /\ nextListener \in Nat
             /\ todo \in Seq(Task) /\ told \in [Ids -> Positions \cup {None}]
  BY DEF TypeOK, EntriesOK, AggregateOK, Registered

(* unregister keeps the types, whatever is left to do after it. *)
LEMMA UnregisterTyped ==
  ASSUME TypeOK, NEW id \in Ids, NEW rest \in Seq(Task), UnregisterThen(id, rest)
  PROVE  /\ EntriesOK(entries)' /\ AggregateOK' /\ todo' \in Seq(Task)
         /\ active' \in Ids \cup {None} /\ UNCHANGED <<inFlight, startEvent>>
<1> USE TypeParts
<1>1. CASE /\ id \notin Registered
           /\ todo' = rest
           /\ UNCHANGED <<entries, claim, aggregate>>
  BY <1>1 DEF EntriesOK, AggregateOK, claim, aggregate
<1>2. CASE /\ active' = None
           /\ todo' = << Deliver(id, "Cancelled", None), [op |-> "remove", id |-> id] >>
                        \o rest
           /\ UNCHANGED <<entries, inFlight, startEvent, aggregate>>
  <2>1. /\ Deliver(id, "Cancelled", None) \in Task
        /\ [op |-> "remove", id |-> id] \in Task
    BY TasksTyped DEF Phases
  <2>2. todo' \in Seq(Task)
    BY <1>2, <2>1, Prefixed, PrefixedTwo
  <2> QED
    BY <1>2, <2>2 DEF EntriesOK, AggregateOK, aggregate
<1>3. CASE /\ entries' = Dropping(id)
           /\ Reconcile(entries')
           /\ todo' = rest
           /\ UNCHANGED claim
  BY <1>3, DroppingTyped, ReconcileTyped DEF EntriesOK, claim
<1> QED
  BY <1>1, <1>2, <1>3 DEF UnregisterThen

(* set_enabled keeps the types. *)
LEMMA SetEnabledTyped ==
  ASSUME TypeOK, NEW id \in Ids, NEW enabled \in BOOLEAN, NEW rest \in Seq(Task),
         SetEnabledThen(id, enabled, rest)
  PROVE  /\ EntriesOK(entries)' /\ AggregateOK' /\ todo' \in Seq(Task)
         /\ UNCHANGED claim
<1> USE TypeParts
<1>1. CASE id \in Registered
  <2>1. PICK priority \in Priorities : priority = entries[id].priority
    BY <1>1 DEF EntriesOK, Entry, Registered
  <2>2. EntriesOK([entries EXCEPT ![id].enabled = enabled])
    BY <1>1, <2>1, ChangedTyped
  <2> QED
    BY <1>1, <2>2, ReconcileTyped DEF SetEnabledThen, EntriesOK
<1>2. CASE id \notin Registered
  BY <1>2 DEF SetEnabledThen, EntriesOK, AggregateOK, aggregate
<1> QED
  BY <1>1, <1>2 DEF SetEnabledThen

(* A gesture leaves a queue of at most two tasks of its own.               *)
LEMMA GestureTyped ==
  ASSUME TypeOK,
         \/ Back \/ PredictiveProgress \/ PredictiveCancel \/ PredictiveInvoke
         \/ \E position \in Positions : PredictiveStart(position)
  PROVE  /\ todo' \in Seq(Task) /\ active' \in Ids \cup {None}
         /\ inFlight' \in BOOLEAN /\ startEvent' \in Positions \cup {None}
         /\ UNCHANGED <<entries, nextId, listeners, nextListener, hasEnabled, told>>
<1> USE TypeParts
<1>1. Winner # None => Winner \in Ids
  <2>1. Winner # None => Enabled # {}
    BY DEF Winner
  <2>2. Winner # None => Winner \in Enabled
    BY <2>1, WinnerEnabled DEF TypeOK
  <2> QED
    BY <2>2 DEF Enabled, Registered, EntriesOK
<1>2. OwnerOrWinner \in Ids \cup {None}
  BY <1>1 DEF OwnerOrWinner
<1>3. ASSUME NEW id \in Ids \cup {None}, NEW phase \in Phases,
             NEW start \in Positions \cup {None}, DispatchTo(id, phase, start)
      PROVE  todo' \in Seq(Task)
  <2>1. id # None => Deliver(id, phase, start) \in Task
    BY TasksTyped
  <2> QED
    BY <1>3, <2>1, Alone, EmptySeq DEF DispatchTo
<1>4. CASE Back
  BY <1>2, <1>3, <1>4 DEF Back, Gesture, Over, Phases
<1>5. CASE PredictiveProgress
  <2>1. [op |-> "progress"] \in Task /\ << [op |-> "progress"] >> \in Seq(Task)
    BY TasksTyped, Alone
  <2>2. ASSUME OwnerOrWinner # None
        PROVE  << Deliver(OwnerOrWinner, "Started", startEvent), [op |-> "progress"] >>
                 \in Seq(Task)
    <3>1. Deliver(OwnerOrWinner, "Started", startEvent) \in Task
      BY <1>2, <2>2, TasksTyped DEF Phases
    <3> QED
      BY <2>1, <3>1
  <2> QED
    BY <1>2, <1>5, <2>1, <2>2 DEF PredictiveProgress, Gesture
<1>6. CASE PredictiveCancel
  BY <1>3, <1>6 DEF PredictiveCancel, Gesture, Over, Phases
<1>7. CASE PredictiveInvoke
  BY <1>2, <1>3, <1>7 DEF PredictiveInvoke, Gesture, Over, Phases
<1>8. CASE \E position \in Positions : PredictiveStart(position)
  BY <1>1, <1>3, <1>8, EmptySeq DEF PredictiveStart, Gesture, Over, Phases
<1> QED
  BY <1>4, <1>5, <1>6, <1>7, <1>8

(* Every variable keeps its type. *)
LEMMA TypeStep ==
  ASSUME TypeOK, [Next]_vars
  PROVE  TypeOK'
<1> USE TypeParts
<1> USE DEF claim, aggregate
<1>1. ASSUME NEW entry \in Entry, Register(entry), UNCHANGED serial PROVE TypeOK'
  <2>1. nextId \in Ids
    BY <1>1, DispatcherAssumption DEF Register, Ids
  <2>2. EntriesOK(With(nextId, entry))
    BY <2>1, WithTyped
  <2>3. EntriesOK(entries)' /\ AggregateOK'
    BY <1>1, <2>2, ReconcileTyped DEF Register, EntriesOK
  <2> QED
    BY <1>1, <2>3 DEF Register, TypeOK, EntriesOK, AggregateOK, Registered
<1>2. ASSUME NEW id \in Ids, Unregister(id), UNCHANGED serial PROVE TypeOK'
  <2>1. UnregisterThen(id, <<>>) /\ <<>> \in Seq(Task)
    BY <1>2 DEF Unregister
  <2> QED
    BY <1>2, <2>1, UnregisterTyped
       DEF Unregister, TypeOK, EntriesOK, AggregateOK, Registered
<1>3. ASSUME NEW id \in Ids, NEW enabled \in BOOLEAN, SetEnabled(id, enabled),
             UNCHANGED serial
      PROVE  TypeOK'
  <2>1. SetEnabledThen(id, enabled, <<>>) /\ <<>> \in Seq(Task)
    BY <1>3 DEF SetEnabled
  <2> QED
    BY <1>3, <2>1, SetEnabledTyped
       DEF SetEnabled, TypeOK, EntriesOK, AggregateOK, Registered
<1>4. ASSUME NEW id \in Ids, NEW priority \in Priorities, SetPriority(id, priority),
             UNCHANGED serial
      PROVE  TypeOK'
  <2>1. EntriesOK([entries EXCEPT ![id].priority = priority])
    BY <1>4, ChangedTyped DEF SetPriority
  <2> QED
    BY <1>4, <2>1 DEF SetPriority, TypeOK, EntriesOK, AggregateOK, Registered
<1>5. ASSUME AddListener, UNCHANGED serial PROVE TypeOK'
  <2>1. nextListener \in 0 .. MaxListeners - 1
    BY <1>5, DispatcherAssumption DEF AddListener
  <2>2. AggregateOK'
    BY <1>5, <2>1 DEF AddListener, AggregateOK
  <2> QED
    BY <1>5, <2>2 DEF AddListener, TypeOK, EntriesOK, AggregateOK, Registered
<1>6. ASSUME NEW l, RemoveListener(l), UNCHANGED serial PROVE TypeOK'
  <2>1. AggregateOK'
    BY <1>6 DEF RemoveListener, AggregateOK
  <2> QED
    BY <1>6, <2>1 DEF RemoveListener, TypeOK, EntriesOK, AggregateOK, Registered
<1>7. ASSUME \/ Back \/ PredictiveProgress \/ PredictiveCancel \/ PredictiveInvoke
             \/ \E position \in Positions : PredictiveStart(position),
             UNCHANGED serial
      PROVE  TypeOK'
  BY <1>7, GestureTyped DEF TypeOK, EntriesOK, AggregateOK, Registered
<1>8. ASSUME todo # <<>>
      PROVE  Next1 \in Task /\ Rest \in Seq(Task)
  BY <1>8, QueueSplit
<1>9. ASSUME Remove, UNCHANGED serial PROVE TypeOK'
  <2>1. EntriesOK(entries)' /\ AggregateOK'
    BY <1>9, DroppingTyped, ReconcileTyped DEF Remove, EntriesOK
  <2> QED
    BY <1>8, <1>9, <2>1 DEF Remove, Doing, TypeOK, EntriesOK, AggregateOK, Registered
<1>10. ASSUME Progress, UNCHANGED serial PROVE TypeOK'
  <2>1. active # None => Deliver(active, "Progressed", None) \in Task
    BY TasksTyped DEF Phases
  <2>2. todo' \in Seq(Task)
    <3>1. CASE active = None
      BY <1>8, <1>10, <3>1, ConcatEmptySeq DEF Progress, Doing
    <3>2. CASE active # None
      BY <1>8, <1>10, <2>1, <3>2, Prefixed DEF Progress, Doing
    <3> QED
      BY <3>1, <3>2
  <2> QED
    BY <1>10, <2>2 DEF Progress, TypeOK, EntriesOK, AggregateOK, Registered
<1>11. ASSUME CallHandler, UNCHANGED serial PROVE TypeOK'
  <2>1. /\ Next1 \in Task /\ Next1.op = "deliver" /\ Rest \in Seq(Task)
        /\ Next1.id \in Ids /\ Next1.start \in Positions \cup {None}
    BY <1>8, <1>11, TaskShapes DEF CallHandler, Doing
  <2>2. /\ [op |-> "callback", id |-> Next1.id, pending |-> <<>>] \in Task
        /\ [op |-> "notify"] \in Task
    BY <2>1, TasksTyped, EmptySeq
  <2>3. todo' \in Seq(Task)
    <3>1. CASE todo' = << [op |-> "callback", id |-> Next1.id, pending |-> <<>>] >>
                          \o Rest
      BY <2>1, <2>2, <3>1, Prefixed
    <3>2. CASE todo' = << [op |-> "notify"] >> \o Rest
      BY <2>1, <2>2, <3>2, Prefixed
    <3> QED
      BY <1>11, <3>1, <3>2 DEF CallHandler
  <2>4. told' \in [Ids -> Positions \cup {None}]
    BY <1>11, <2>1 DEF CallHandler
  <2> QED
    BY <1>11, <2>3, <2>4 DEF CallHandler, TypeOK, EntriesOK, AggregateOK, Registered
<1>12. ASSUME Doing("callback")
       PROVE  /\ Next1 \in [op : {"callback"}, id : Ids, pending : Seq(Command)]
              /\ Rest \in Seq(Task)
  BY <1>8, <1>12, TaskShapes DEF Doing
<1>13. ASSUME HandlerReturns, UNCHANGED serial PROVE TypeOK'
  <2>1. Next1.pending \in Seq(Task) /\ Rest \in Seq(Task)
    BY <1>12, <1>13, TasksTyped, SeqMonotonic DEF HandlerReturns
  <2>2. << [op |-> "notify"] >> \in Seq(Task)
    BY TasksTyped, Alone
  <2>3. todo' \in Seq(Task)
    BY <1>13, <2>1, <2>2, ConcatProperties DEF HandlerReturns
  <2> QED
    BY <1>13, <2>3 DEF HandlerReturns, TypeOK, EntriesOK, AggregateOK, Registered
<1>14. ASSUME RunRegister, UNCHANGED serial PROVE TypeOK'
  <2>1. Next1.id \in Ids /\ Next1.entry \in Entry /\ Rest \in Seq(Task)
    BY <1>8, <1>14, TaskShapes DEF RunRegister, Doing
  <2>2. EntriesOK(With(Next1.id, Next1.entry))
    BY <2>1, WithTyped
  <2> QED
    BY <1>14, <2>1, <2>2 DEF RunRegister, TypeOK, EntriesOK, AggregateOK, Registered
<1>15. ASSUME RunUnregister, UNCHANGED serial PROVE TypeOK'
  <2>1. Next1.id \in Ids /\ Rest \in Seq(Task)
    BY <1>8, <1>15, TaskShapes DEF RunUnregister, Doing
  <2> QED
    BY <1>15, <2>1, UnregisterTyped
       DEF RunUnregister, TypeOK, EntriesOK, AggregateOK, Registered
<1>16. ASSUME RunSetEnabled, UNCHANGED serial PROVE TypeOK'
  <2>1. Next1.id \in Ids /\ Next1.enabled \in BOOLEAN /\ Rest \in Seq(Task)
    BY <1>8, <1>16, TaskShapes DEF RunSetEnabled, Doing
  <2> QED
    BY <1>16, <2>1, SetEnabledTyped
       DEF RunSetEnabled, TypeOK, EntriesOK, AggregateOK, Registered
<1>17. ASSUME NotifyEnabledChanged, UNCHANGED serial PROVE TypeOK'
  <2>1. AggregateOK'
    BY <1>17, ReconcileTyped DEF NotifyEnabledChanged
  <2> QED
    BY <1>8, <1>17, <2>1
       DEF NotifyEnabledChanged, Doing, TypeOK, EntriesOK, AggregateOK, Registered
<1>18. ASSUME NEW command \in Command, Queue(command), UNCHANGED serial PROVE TypeOK'
  <2>1. [Next1 EXCEPT !.pending = Append(@, command)] \in Task
    <3>1. Append(Next1.pending, command) \in Seq(Command)
      BY <1>12, <1>18, AppendProperties DEF Queue
    <3>2. [Next1 EXCEPT !.pending = Append(@, command)]
            \in [op : {"callback"}, id : Ids, pending : Seq(Command)]
      BY <1>12, <1>18, <3>1 DEF Queue
    <3> QED
      BY <3>2 DEF Task
  <2>2. todo' \in Seq(Task)
    BY <1>12, <1>18, <2>1, Prefixed DEF Queue
  <2> QED
    BY <1>18, <2>2 DEF Queue, TypeOK, EntriesOK, AggregateOK, Registered
<1>19. CASE UNCHANGED vars
  BY <1>19 DEF vars, TypeOK, EntriesOK, AggregateOK, Registered
<1>20. CASE Call /\ UNCHANGED serial
  BY <1>20, <1>1, <1>2, <1>3, <1>4, <1>5, <1>6, <1>7 DEF Call
<1>21. CASE Run /\ UNCHANGED serial
  BY <1>21, <1>9, <1>10, <1>11, <1>13, <1>14, <1>15, <1>16, <1>17 DEF Run
<1> QED
  BY <1>18, <1>19, <1>20, <1>21 DEF Next, TypeOK, EntriesOK, AggregateOK, Registered

(* The dispatcher begins well typed. *)
LEMMA DispatcherInit ==
  ASSUME Init
  PROVE  TypeOK
<1>1. DOMAIN <<>> = {} /\ \A S : <<>> \in [{} -> S]
  OBVIOUS
<1>2. told \in [Ids -> Positions \cup {None}]
  BY DEF Init
<1> QED
  BY <1>1, <1>2, EmptySeq DEF Init, TypeOK, Registered

(* Every variable keeps its type; in particular the winner a gesture goes  *)
(* to is a handler, whatever priorities the handlers have been given.      *)
(* (dispatcher.rs 401-412)                                                 *)
THEOREM DispatcherTyped == Spec => []TypeOK
<1>1. Init => TypeOK
  BY DispatcherInit
<1>2. TypeOK /\ [Next]_vars => TypeOK'
  BY TypeStep
<1> QED
  BY <1>1, <1>2, PTL DEF Spec

-----------------------------------------------------------------------------
(* The order of the queue.                                                 *)

(* What may wait. *)
LEMMA WaitingTasks ==
  ASSUME NEW owner
  PROVE  /\ Waiting(owner) \subseteq Waiting(None)
         /\ Waiting(owner) \subseteq Task
         /\ Command \subseteq Waiting(owner)
         /\ [op |-> "progress"] \in Waiting(owner)
         /\ [op |-> "notify"] \in Waiting(owner)
         /\ \A id \in Ids : [op |-> "remove", id |-> id] \in Waiting(None)
         /\ \A task \in Waiting(owner) : task.op \notin {"deliver", "callback"}
  BY DEF Waiting, Task, Command

(* No handler is being called, and none will be by the next step. *)
Quiet == todo \in Seq(Waiting(active))

(* A quiet queue is in order. *)
LEMMA QuietInOrder ==
  ASSUME Quiet'
  PROVE  QueueInOrder' /\ ~ Doing("deliver")' /\ ~ Doing("callback")'
<1>1. ASSUME todo' # <<>>
      PROVE  Next1' \in Waiting(active') /\ Rest' \in Seq(Waiting(active'))
  BY <1>1, HeadTailProperties DEF Quiet, Next1, Rest
<1> QED
  BY <1>1, WaitingTasks DEF QueueInOrder, Doing, Waiting

(* A task other than a removal is put in front of those that wait. *)
LEMMA FrontInOrder ==
  ASSUME NEW task, task.op # "remove", NEW rest \in Seq(Waiting(active')),
         todo' = << task >> \o rest
  PROVE  QueueInOrder' /\ todo' # <<>> /\ Next1' = task
  BY Prefixed DEF QueueInOrder, Next1, Rest

(* What is behind the head may come next, whoever gives up the gesture.    *)
LEMMA RestWaits ==
  ASSUME QueueInOrder, todo # <<>>
  PROVE  Rest \in Seq(Waiting(active)) /\ Rest \in Seq(Waiting(None))
  BY WaitingTasks, SeqMonotonic DEF QueueInOrder

(* The ways a step can go on: with the queue quiet and the claim as it was *)
QuietStep ==
  /\ ~ Doing("deliver")
  /\ Quiet'
  /\ UNCHANGED <<claim, told>>
  /\ active \in Registered => active' \in Registered'

(* ... by cancelling the owner, which is about to be removed,              *)
CancelStep(rest) ==
  /\ ~ Doing("deliver")
  /\ active \in Registered /\ active' = None
  /\ todo' = << Deliver(active, "Cancelled", None) >>
               \o (<< [op |-> "remove", id |-> active] >> \o rest)
  /\ UNCHANGED <<entries, inFlight, startEvent, told>>

(* ... by telling the owner of progress,                                   *)
ProgressStep ==
  /\ ~ Doing("deliver")
  /\ active # None
  /\ todo' = << Deliver(active, "Progressed", None) >> \o Rest
  /\ UNCHANGED <<entries, claim, told>>

(* ... or by queueing a command.                                           *)
QueueStep ==
  /\ Doing("callback") /\ Doing("callback")'
  /\ Rest' = Rest
  /\ UNCHANGED <<entries, claim, told>>

Gestures ==
  \/ Back \/ PredictiveProgress \/ PredictiveCancel \/ PredictiveInvoke
  \/ \E position \in Positions : PredictiveStart(position)

(* unregister is quiet unless it cancels the owner. *)
LEMMA UnregisterKinds ==
  ASSUME TypeOK, ~ Doing("deliver"), NEW id \in Ids,
         NEW rest \in Seq(Waiting(active)), UnregisterThen(id, rest), UNCHANGED told
  PROVE  \/ QuietStep
         \/ CancelStep(rest) /\ UNCHANGED aggregate
<1>1. CASE /\ id \notin Registered
           /\ todo' = rest
           /\ UNCHANGED <<entries, claim, aggregate>>
  BY <1>1 DEF QuietStep, Quiet, claim, Registered
<1>2. CASE /\ id \in Registered /\ active = id
           /\ active' = None
           /\ todo' = << Deliver(id, "Cancelled", None), [op |-> "remove", id |-> id] >>
                        \o rest
           /\ UNCHANGED <<entries, inFlight, startEvent, aggregate>>
  <2>1. rest \in Seq(Waiting(None)) /\ [op |-> "remove", id |-> id] \in Waiting(None)
    BY WaitingTasks, SeqMonotonic
  <2>2. todo' = << Deliver(id, "Cancelled", None) >>
                  \o (<< [op |-> "remove", id |-> id] >> \o rest)
    BY <1>2, <2>1, PrefixedTwo
  <2> QED
    BY <1>2, <2>2 DEF CancelStep
<1>3. CASE /\ id \in Registered /\ active # id
           /\ entries' = Dropping(id)
           /\ Reconcile(entries')
           /\ todo' = rest
           /\ UNCHANGED claim
  BY <1>3, DroppingTyped, TypeParts DEF QuietStep, Quiet, claim, Registered
<1> QED
  BY <1>1, <1>2, <1>3 DEF UnregisterThen

(* set_enabled is quiet, the owner of a gesture keeps it also when disabled. *)
LEMMA SetEnabledQuiet ==
  ASSUME TypeOK, ~ Doing("deliver"), NEW id, NEW enabled,
         NEW rest \in Seq(Waiting(active)), SetEnabledThen(id, enabled, rest),
         UNCHANGED told
  PROVE  QuietStep
  BY DEF SetEnabledThen, QuietStep, Quiet, claim, Registered

(* Every step is one of these, a gesture event, or the call of a handler.  *)
LEMMA StepKinds ==
  ASSUME TypeOK, QueueInOrder, [Next]_vars
  PROVE  \/ QuietStep
         \/ \E rest \in Seq(Waiting(active)) : CancelStep(rest)
         \/ ProgressStep /\ todo # <<>>
         \/ QueueStep
         \/ Gestures \/ CallHandler
         \/ UNCHANGED vars
<1> USE DEF claim, aggregate
<1> DEFINE Kinds == \/ QuietStep
                    \/ \E rest \in Seq(Waiting(active)) : CancelStep(rest)
<1>1. Idle => ~ Doing("deliver") /\ todo \in Seq(Waiting(active))
  BY DEF Idle, Doing
<1>2. <<>> \in Seq(Waiting(active))
  OBVIOUS
<1>3. todo # <<>> => Rest \in Seq(Waiting(active))
  BY RestWaits
<1>4. ASSUME NEW entry \in Entry, Register(entry) PROVE QuietStep
  <2>1. nextId \in Ids
    BY <1>4, DispatcherAssumption, TypeParts DEF Register, Ids
  <2>2. Registered' = Registered \cup {nextId}
    BY <1>4, <2>1, WithTyped, TypeParts DEF Register, Registered
  <2> QED
    BY <1>1, <1>4, <2>2 DEF Register, QuietStep, Quiet
<1>5. ASSUME NEW id \in Ids, Unregister(id) PROVE Kinds
  BY <1>1, <1>2, <1>5, UnregisterKinds DEF Unregister
<1>6. ASSUME NEW id \in Ids, NEW enabled \in BOOLEAN, SetEnabled(id, enabled)
      PROVE  QuietStep
  BY <1>1, <1>2, <1>6, SetEnabledQuiet DEF SetEnabled
<1>7. ASSUME NEW id \in Ids, NEW priority \in Priorities, SetPriority(id, priority)
      PROVE  QuietStep
  BY <1>1, <1>7 DEF SetPriority, QuietStep, Quiet, Registered
<1>8. CASE AddListener
  BY <1>1, <1>8 DEF AddListener, QuietStep, Quiet, Registered
<1>9. ASSUME NEW l, RemoveListener(l) PROVE QuietStep
  BY <1>1, <1>9 DEF RemoveListener, QuietStep, Quiet, Registered
<1>10. CASE Remove
  <2>1. todo # <<>> /\ Next1.op = "remove" /\ active = None
    BY <1>10 DEF Remove, Doing, QueueInOrder
  <2>2. None \notin Registered
    BY DispatcherAssumption DEF TypeOK, Ids
  <2> QED
    BY <1>3, <1>10, <2>1, <2>2 DEF Remove, QuietStep, Quiet, Doing
<1>11. CASE Progress
  <2>1. CASE active = None
    BY <1>3, <1>11, <2>1, ConcatEmptySeq
       DEF Progress, QuietStep, Quiet, Doing, Registered
  <2>2. CASE active # None
    BY <1>11, <2>2 DEF Progress, ProgressStep, Doing
  <2> QED
    BY <2>1, <2>2
<1>12. CASE HandlerReturns
  <2>1. Next1.pending \in Seq(Command) /\ Rest \in Seq(Waiting(active))
    BY <1>3, <1>12, QueueSplit, TaskShapes DEF HandlerReturns, Doing
  <2>2. Next1.pending \in Seq(Waiting(active))
    BY <2>1, WaitingTasks, SeqMonotonic
  <2>3. << [op |-> "notify"] >> \in Seq(Waiting(active))
    BY WaitingTasks, Alone
  <2>4. todo' \in Seq(Waiting(active))
    BY <1>12, <2>1, <2>2, <2>3, ConcatProperties DEF HandlerReturns
  <2> QED
    BY <1>12, <2>4 DEF HandlerReturns, QuietStep, Quiet, Doing, Registered
<1>13. CASE RunRegister
  <2>1. Next1.id \in Ids /\ Next1.entry \in Entry /\ Rest \in Seq(Waiting(active))
    BY <1>3, <1>13, QueueSplit, TaskShapes DEF RunRegister, Doing
  <2>2. Registered' = Registered \cup {Next1.id}
    BY <1>13, <2>1, WithTyped, TypeParts DEF RunRegister, Registered
  <2> QED
    BY <1>13, <2>1, <2>2 DEF RunRegister, QuietStep, Quiet, Doing
<1>14. CASE RunUnregister
  <2>1. Next1.id \in Ids /\ Rest \in Seq(Waiting(active)) /\ ~ Doing("deliver")
    BY <1>3, <1>14, QueueSplit, TaskShapes DEF RunUnregister, Doing
  <2> QED
    BY <1>14, <2>1, UnregisterKinds DEF RunUnregister
<1>15. CASE RunSetEnabled
  <2>1. Rest \in Seq(Waiting(active)) /\ ~ Doing("deliver")
    BY <1>3, <1>15 DEF RunSetEnabled, Doing
  <2> QED
    BY <1>15, <2>1, SetEnabledQuiet DEF RunSetEnabled
<1>16. CASE NotifyEnabledChanged
  BY <1>3, <1>16 DEF NotifyEnabledChanged, QuietStep, Quiet, Doing, Registered
<1>17. ASSUME NEW command \in Command, Queue(command) PROVE QueueStep
  <2>1. Rest \in Seq(Waiting(active))
    BY <1>3, <1>17 DEF Queue, Doing
  <2>2. /\ todo' # <<>>
        /\ Head(todo') = [Next1 EXCEPT !.pending = Append(@, command)]
        /\ Tail(todo') = Rest
    BY <1>17, <2>1, Prefixed DEF Queue
  <2>3. Next1.op = "callback"
        /\ Next1 \in [op : {"callback"}, id : Ids, pending : Seq(Command)]
    BY <1>17, QueueSplit, TaskShapes DEF Queue, Doing
  <2>4. Head(todo').op = "callback"
    BY <2>2, <2>3
  <2> QED
    BY <1>17, <2>2, <2>3, <2>4 DEF Queue, QueueStep, Doing, Next1, Rest
<1>18. CASE Call
  BY <1>18, <1>4, <1>5, <1>6, <1>7, <1>8, <1>9 DEF Call, Gestures
<1>19. CASE Run
  BY <1>19, <1>10, <1>11, <1>12, <1>13, <1>14, <1>15, <1>16 DEF Run, Progress, Doing
<1> QED
  BY <1>17, <1>18, <1>19 DEF Next

-----------------------------------------------------------------------------
(* The claim on the gesture.                                               *)

(* With no delivery at the head, what is said of the claim is about the    *)
(* owner and the history alone.                                            *)
LEMMA Calm ==
  ASSUME ~ Doing("deliver")',
         active' # None => inFlight' /\ active' \in Registered',
         inFlight' <=> startEvent' # None,
         active' # None => told'[active'] = startEvent',
         serial' => \A id \in Ids : told'[id] # None => id = active'
  PROVE  ClaimInv'
  BY DEF ClaimInv, ClaimKept, ClaimConsistent, DeliveriesAreDue, Ending, Starting

(* ... and conversely. *)
LEMMA CalmMeans ==
  ASSUME ~ Doing("deliver"), ClaimInv
  PROVE  /\ active # None => inFlight /\ active \in Registered
         /\ inFlight <=> startEvent # None
         /\ active # None => told[active] = startEvent /\ told[active] # None
         /\ serial => \A id \in Ids : told[id] # None => id = active
  BY DEF ClaimInv, ClaimKept, ClaimConsistent, Ending, Starting

(* A queue that starts with a delivery to id. *)
LEMMA FrontDelivery ==
  ASSUME NEW id, NEW phase, NEW start, NEW rest \in Seq(Waiting(active')),
         todo' = << Deliver(id, phase, start) >> \o rest
  PROVE  /\ QueueInOrder' /\ Doing("deliver")'
         /\ Next1'.id = id /\ Next1'.phase = phase /\ Next1'.start = start
<1>1. Deliver(id, phase, start).op = "deliver"
  BY DEF Deliver
<1>2. QueueInOrder' /\ todo' # <<>> /\ Next1' = Deliver(id, phase, start)
  BY <1>1, FrontInOrder
<1> QED
  BY <1>2 DEF Deliver, Doing

(* A delivery alone in the queue. *)
LEMMA OneDelivery ==
  ASSUME NEW id, NEW phase, NEW start, todo' = << Deliver(id, phase, start) >>
  PROVE  /\ QueueInOrder' /\ Doing("deliver")'
         /\ Next1'.id = id /\ Next1'.phase = phase /\ Next1'.start = start
<1>1. <<>> \in Seq(Waiting(active'))
  OBVIOUS
<1>2. << Deliver(id, phase, start) >> \o <<>> = << Deliver(id, phase, start) >>
  OBVIOUS
<1> QED
  BY <1>1, <1>2, FrontDelivery

(* The gesture events: start, progress, cancel, invoke and a plain back.    *)
LEMMA GestureClaims ==
  ASSUME TypeOK, ClaimInv, Gestures, UNCHANGED serial
  PROVE  QueueInOrder' /\ ClaimInv'
<1> USE DEF Gesture, Over
<1>1. Idle /\ ~ Doing("deliver") /\ Registered' = Registered
  BY DEF Gestures, Back, PredictiveProgress, PredictiveCancel, PredictiveInvoke,
         PredictiveStart, Idle, Doing, Registered
<1>2. /\ active # None => inFlight /\ active \in Registered
      /\ inFlight <=> startEvent # None
      /\ active # None => told[active] = startEvent /\ told[active] # None
      /\ serial => \A id \in Ids : told[id] # None => id = active
  BY <1>1, CalmMeans
<1>3. ASSUME todo' = <<>> PROVE QueueInOrder' /\ ~ Doing("deliver")'
  BY <1>3 DEF QueueInOrder, Doing
<1>4. OwnerOrWinner # None =>
        /\ OwnerOrWinner \in Registered /\ OwnerOrWinner \in Ids
        /\ active = None => entries[OwnerOrWinner].enabled
  BY <1>2, OwnerOrWinnerKnown
(* The end of a gesture, or of none: the owner or the winner is told.      *)
<1>5. ASSUME NEW id \in Ids \cup {None}, NEW phase \in {"Cancelled", "Invoked"},
             Over, DispatchTo(id, phase, None), UNCHANGED <<entries, told>>,
             id # None => id \in Registered,
             active # None => id = active,
             phase = "Cancelled" => id = active,
             id # None /\ active = None => entries[id].enabled
      PROVE  QueueInOrder' /\ ClaimInv'
  <2>1. CASE id = None
    <3>1. todo' = <<>> /\ active = None
      BY <1>5, <2>1 DEF DispatchTo
    <3>2. serial' => \A other \in Ids : told'[other] = None
      BY <1>2, <1>5, <3>1, DispatcherAssumption DEF Ids
    <3> QED
      BY <1>3, <1>5, <3>1, <3>2, Calm
  <2>2. CASE id # None
    <3>1. todo' = << Deliver(id, phase, None) >>
      BY <1>5, <2>2 DEF DispatchTo
    <3>2. /\ QueueInOrder' /\ Doing("deliver")'
          /\ Next1'.id = id /\ Next1'.phase = phase
      BY <3>1, OneDelivery
    <3>3. ClaimKept'
      BY <1>2, <1>5, <3>2, DispatcherAssumption DEF ClaimKept, Ending, Starting, Ids
    <3>4. ClaimConsistent'
      BY <1>5 DEF ClaimConsistent
    <3>5. DeliveriesAreDue'
      BY <1>2, <1>5, <2>2, <3>2 DEF DeliveriesAreDue, Registered
    <3> QED
      BY <3>2, <3>3, <3>4, <3>5 DEF ClaimInv
  <2> QED
    BY <2>1, <2>2
<1>6. CASE Back \/ PredictiveInvoke
  <2>1. OwnerOrWinner \in Ids \cup {None} /\ (active # None => OwnerOrWinner = active)
    BY <1>4 DEF OwnerOrWinner
  <2> QED
    BY <1>2, <1>4, <1>5, <1>6, <2>1 DEF Back, PredictiveInvoke
<1>7. CASE PredictiveCancel
  <2>1. active \in Ids \cup {None}
    BY DEF TypeOK
  <2> QED
    BY <1>2, <1>5, <1>7, <2>1 DEF PredictiveCancel
<1>8. ASSUME NEW position \in Positions, PredictiveStart(position)
      PROVE  QueueInOrder' /\ ClaimInv'
  <2>1. CASE Winner = None
    <3>1. Over /\ todo' = <<>> /\ UNCHANGED told
      BY <1>8, <2>1 DEF PredictiveStart
    <3>2. serial => active = None
      BY <1>2, <1>8 DEF PredictiveStart
    <3>3. serial' => \A id \in Ids : told'[id] # None => id = active'
      BY <1>2, <3>1, <3>2
    <3> QED
      BY <1>3, <3>1, <3>3, Calm
  <2>2. CASE Winner # None
    <3>1. /\ inFlight' = TRUE /\ active' = Winner /\ startEvent' = position
          /\ todo' = << Deliver(Winner, "Started", position) >>
          /\ UNCHANGED <<entries, told>>
      BY <1>8, <2>2 DEF PredictiveStart, DispatchTo
    <3>2. Winner \in Registered /\ Winner \in Ids /\ entries[Winner].enabled
      BY <2>2, WinnerEnabled DEF Winner, Enabled, TypeOK
    <3>3. /\ QueueInOrder' /\ Doing("deliver")' /\ Next1'.id = Winner
          /\ Next1'.phase = "Started" /\ Next1'.start = position
      BY <3>1, OneDelivery
    <3>4. serial => \A id \in Ids : told[id] = None
      BY <1>2, <1>8, DispatcherAssumption DEF PredictiveStart, Ids
    <3>5. ClaimKept'
      BY <3>1, <3>3, <3>4 DEF ClaimKept, Ending, Starting
    <3>6. ClaimConsistent'
      BY <1>1, <3>1, <3>2, DispatcherAssumption DEF ClaimConsistent
    <3>7. DeliveriesAreDue'
      BY <1>1, <3>1, <3>2, <3>3 DEF DeliveriesAreDue
    <3> QED
      BY <3>3, <3>5, <3>6, <3>7 DEF ClaimInv
  <2> QED
    BY <2>1, <2>2
(* The winner takes over a gesture whose owner has gone. *)
<1>9. CASE PredictiveProgress
  <2>1. /\ inFlight /\ active' = OwnerOrWinner
        /\ UNCHANGED <<inFlight, startEvent, entries, told>>
    BY <1>9 DEF PredictiveProgress
  <2>2. CASE active = None /\ active' # None
    <3>1. todo' = << Deliver(active', "Started", startEvent), [op |-> "progress"] >>
      BY <1>9, <2>2 DEF PredictiveProgress
    <3>2. PICK rest \in Seq(Waiting(active')) : rest = << [op |-> "progress"] >>
      BY WaitingTasks, Alone
    <3>3. todo' = << Deliver(active', "Started", startEvent) >> \o rest
      BY <3>1, <3>2
    <3>4. /\ QueueInOrder' /\ Doing("deliver")' /\ Next1'.id = active'
          /\ Next1'.phase = "Started" /\ Next1'.start = startEvent
      BY <3>2, <3>3, FrontDelivery
    <3>5. ClaimKept'
      BY <1>2, <2>1, <2>2, <3>4, DispatcherAssumption
         DEF ClaimKept, Ending, Starting, Ids
    <3>6. ClaimConsistent'
      BY <1>1, <1>2, <1>4, <2>1 DEF ClaimConsistent
    <3>7. DeliveriesAreDue'
      BY <1>1, <1>4, <2>1, <2>2, <3>4 DEF DeliveriesAreDue
    <3> QED
      BY <3>4, <3>5, <3>6, <3>7 DEF ClaimInv
  <2>3. CASE ~ (active = None /\ active' # None)
    <3>1. todo' = << [op |-> "progress"] >> /\ active' = active
      BY <1>9, <2>1, <2>3 DEF PredictiveProgress, OwnerOrWinner
    <3>2. Quiet'
      BY <3>1, WaitingTasks, Alone DEF Quiet
    <3>3. QueueInOrder' /\ ~ Doing("deliver")'
      BY <3>2, QuietInOrder
    <3> QED
      BY <1>1, <1>2, <2>1, <3>1, <3>3, Calm
  <2> QED
    BY <2>2, <2>3
<1> QED
  BY <1>6, <1>7, <1>8, <1>9 DEF Gestures

(* The handler at the head of the queue is called: it is registered, so    *)
(* that it hears of the event, and the history follows.                    *)
LEMMA CallClaims ==
  ASSUME TypeOK, QueueInOrder, ClaimInv, CallHandler, UNCHANGED serial
  PROVE  QueueInOrder' /\ ClaimInv'
<1> USE DEF claim
<1>1. /\ todo # <<>> /\ Doing("deliver") /\ Next1.id \in Registered
      /\ Next1.phase = "Cancelled" => told[Next1.id] # None
      /\ Next1.phase = "Progressed" => told[Next1.id] = startEvent
  BY DEF CallHandler, Doing, ClaimInv, DeliveriesAreDue
<1>2. /\ Next1.id \in Ids /\ Next1.phase \in Phases
      /\ told \in [Ids -> Positions \cup {None}]
  BY <1>1, QueueSplit, TaskShapes DEF Doing, TypeOK
<1>3. /\ todo' = << [op |-> "callback", id |-> Next1.id, pending |-> <<>>] >> \o Rest
      /\ told' = [told EXCEPT ![Next1.id] =
                    CASE Next1.phase = "Started"    -> Next1.start
                      [] Next1.phase = "Progressed" -> @
                      [] OTHER                      -> None]
      /\ UNCHANGED <<serial, entries, claim>>
  BY <1>1 DEF CallHandler
<1>4. QueueInOrder' /\ ~ Doing("deliver")'
  <2>1. Rest \in Seq(Waiting(active'))
    BY <1>1, <1>3, RestWaits
  <2>2. QueueInOrder' /\ todo' # <<>>
        /\ Next1' = [op |-> "callback", id |-> Next1.id, pending |-> <<>>]
    BY <1>3, <2>1, FrontInOrder
  <2> QED
    BY <2>2 DEF Doing
<1>5. /\ active # None => inFlight /\ active \in Registered
      /\ inFlight <=> startEvent # None
  BY DEF ClaimInv, ClaimConsistent
<1>6. Registered' = Registered
  BY <1>3 DEF Registered
<1>7. CASE Next1.phase = "Started"
  <2>1. Next1.id = active /\ Next1.start = startEvent /\ told'[active] = startEvent
    BY <1>1, <1>2, <1>3, <1>7 DEF ClaimInv, ClaimKept, Starting
  <2>2. serial' => \A id \in Ids : told'[id] # None => id = active'
    BY <1>1, <1>2, <1>3, <1>7, <2>1 DEF ClaimInv, ClaimKept, Ending
  <2> QED
    BY <1>3, <1>4, <1>5, <1>6, <2>1, <2>2, Calm
<1>8. CASE Next1.phase = "Progressed"
  <2>1. told' = told
    BY <1>2, <1>3, <1>8
  <2> QED
    BY <1>3, <1>4, <1>5, <1>6, <1>8, <2>1, Calm
       DEF ClaimInv, ClaimKept, Starting, Ending
<1>9. CASE Next1.phase \in {"Cancelled", "Invoked"}
  <2>1. active = None
    BY <1>1, <1>9 DEF ClaimInv, ClaimKept, Ending
  <2>2. told'[Next1.id] = None /\ \A id \in Ids \ {Next1.id} : told'[id] = told[id]
    BY <1>2, <1>3, <1>9
  <2>3. serial' => \A id \in Ids : told'[id] # None => id = active'
    BY <1>3, <2>2 DEF ClaimInv, ClaimKept
  <2> QED
    BY <1>3, <1>4, <1>5, <1>6, <2>1, <2>3, Calm
<1> QED
  BY <1>2, <1>7, <1>8, <1>9 DEF Phases

(* Whatever a step does, the claim stays consistent and the next delivery  *)
(* is due.                                                                 *)
LEMMA ClaimStep ==
  ASSUME TypeOK, QueueInOrder, ClaimInv, [Next]_vars
  PROVE  QueueInOrder' /\ ClaimInv'
<1> USE DEF claim
<1>1. UNCHANGED serial
  BY DEF Next, vars
<1>2. CASE QuietStep
  <2>1. QueueInOrder' /\ ~ Doing("deliver")'
    BY <1>2, QuietInOrder DEF QuietStep
  <2> QED
    BY <1>1, <1>2, <2>1, CalmMeans, Calm DEF QuietStep
<1>3. ASSUME NEW rest \in Seq(Waiting(active)), CancelStep(rest)
      PROVE  QueueInOrder' /\ ClaimInv'
  <2>1. active # None /\ active \in Ids
    BY <1>3, DispatcherAssumption DEF CancelStep, TypeOK, Ids
  <2>2. << [op |-> "remove", id |-> active] >> \o rest \in Seq(Waiting(active'))
    <3>1. rest \in Seq(Waiting(None)) /\ [op |-> "remove", id |-> active] \in Waiting(None)
      BY <2>1, WaitingTasks, SeqMonotonic
    <3>2. << [op |-> "remove", id |-> active] >> \o rest \in Seq(Waiting(None))
      BY <3>1, Prefixed
    <3> QED
      BY <1>3, <3>2 DEF CancelStep
  <2>3. /\ QueueInOrder' /\ Doing("deliver")' /\ Next1'.id = active
        /\ Next1'.phase = "Cancelled"
    BY <1>3, <2>2, FrontDelivery DEF CancelStep
  <2>4. /\ inFlight <=> startEvent # None
        /\ told[active] # None
        /\ serial => \A id \in Ids : told[id] # None => id = active
    BY <1>3, <2>1, CalmMeans DEF CancelStep
  <2>5. ClaimKept' /\ ClaimConsistent' /\ DeliveriesAreDue'
    BY <1>1, <1>3, <2>3, <2>4
       DEF CancelStep, ClaimKept, ClaimConsistent, DeliveriesAreDue, Ending, Starting,
           Registered
  <2> QED
    BY <2>3, <2>5 DEF ClaimInv
<1>4. CASE ProgressStep /\ todo # <<>>
  <2>1. Rest \in Seq(Waiting(active'))
    BY <1>4, RestWaits DEF ProgressStep
  <2>2. todo' = << Deliver(active, "Progressed", None) >> \o Rest
    BY <1>4 DEF ProgressStep
  <2>3. /\ QueueInOrder' /\ Doing("deliver")' /\ Next1'.id = active
        /\ Next1'.phase = "Progressed"
    BY <2>1, <2>2, FrontDelivery
  <2>4. /\ inFlight /\ active \in Registered /\ startEvent # None
        /\ told[active] = startEvent /\ told[active] # None
        /\ serial => \A id \in Ids : told[id] # None => id = active
    BY <1>4, CalmMeans DEF ProgressStep
  <2>5. ClaimKept' /\ ClaimConsistent' /\ DeliveriesAreDue'
    BY <1>1, <1>4, <2>3, <2>4
       DEF ProgressStep, ClaimKept, ClaimConsistent, DeliveriesAreDue, Ending, Starting,
           Registered
  <2> QED
    BY <2>3, <2>5 DEF ClaimInv
<1>5. CASE QueueStep
  <2>1. ~ Doing("deliver") /\ ~ Doing("deliver")'
    BY <1>5 DEF QueueStep, Doing
  <2>2. QueueInOrder'
    BY <1>5 DEF QueueStep, QueueInOrder, Doing
  <2>3. Registered' = Registered
    BY <1>5 DEF QueueStep, Registered
  <2> QED
    BY <1>1, <1>5, <2>1, <2>2, <2>3, CalmMeans, Calm DEF QueueStep
<1>6. CASE Gestures
  BY <1>1, <1>6, GestureClaims
<1>7. CASE CallHandler
  BY <1>1, <1>7, CallClaims
<1>8. CASE UNCHANGED vars
  BY <1>8 DEF vars, QueueInOrder, ClaimInv, ClaimKept, ClaimConsistent,
              DeliveriesAreDue, Ending, Starting, Doing, Next1, Rest, Registered
<1> QED
  BY <1>2, <1>3, <1>4, <1>5, <1>6, <1>7, <1>8, StepKinds

-----------------------------------------------------------------------------
(* The aggregate the listeners know.                                       *)

(* A reconciliation is in the queue. *)
Notifying(tasks) == \E i \in DOMAIN tasks : tasks[i].op = "notify"

(* Each listener knows the aggregate, and its calls alternated. *)
ListenersKnow == \A l \in DOMAIN listeners :
  listeners[l].value = hasEnabled /\ listeners[l].parity = hasEnabled

(* A reconciliation brings the listeners to the aggregate of the entries.  *)
LEMMA ReconcileTells ==
  ASSUME AggregateOK, ListenersKnow, NEW es, Reconcile(es)
  PROVE  hasEnabled' = CanHandle(es) /\ ListenersKnow'
<1>1. CanHandle(es) \in BOOLEAN /\ hasEnabled \in BOOLEAN
  BY DEF CanHandle, AggregateOK
<1> QED
  BY <1>1 DEF Reconcile, ListenersKnow

(* What is left when a task is done. *)
LEMMA RestSettles ==
  ASSUME NEW tasks \in Seq(Task), tasks # <<>>, Settles(tasks)
  PROVE  /\ Settles(Tail(tasks))
         /\ Head(tasks).op = "register" => Notifying(Tail(tasks))
         /\ Notifying(tasks) => Head(tasks).op = "notify" \/ Notifying(Tail(tasks))
<1>1. /\ DOMAIN tasks = 1 .. Len(tasks) /\ Len(tasks) \in Nat \ {0}
      /\ DOMAIN Tail(tasks) = 1 .. Len(tasks) - 1
      /\ \A i \in 1 .. Len(tasks) - 1 : Tail(tasks)[i] = tasks[i + 1]
      /\ Head(tasks) = tasks[1]
  <2>1. Len(tasks) \in Nat \ {0} /\ Tail(tasks) \in Seq(Task)
    BY EmptySeq, HeadTailProperties
  <2>2. Len(Tail(tasks)) = Len(tasks) - 1
    BY HeadTailProperties
  <2> QED
    BY <2>1, <2>2, LenProperties, HeadTailProperties
<1>2. ASSUME NEW j \in DOMAIN tasks, 1 < j
      PROVE  j - 1 \in DOMAIN Tail(tasks) /\ Tail(tasks)[j - 1] = tasks[j]
  BY <1>1, <1>2
<1>3. Settles(Tail(tasks))
  <2> SUFFICES ASSUME NEW i \in DOMAIN Tail(tasks), Tail(tasks)[i].op = "register"
               PROVE  \E j \in DOMAIN Tail(tasks) :
                        i < j /\ Tail(tasks)[j].op = "notify"
    BY DEF Settles
  <2>1. i + 1 \in DOMAIN tasks /\ tasks[i + 1].op = "register" /\ i \in Nat
    BY <1>1
  <2>2. PICK j \in DOMAIN tasks : i + 1 < j /\ tasks[j].op = "notify"
    BY <2>1 DEF Settles
  <2>3. 1 < j /\ j \in Nat /\ i < j - 1
    BY <1>1, <2>1, <2>2
  <2> QED
    BY <1>2, <2>2, <2>3
<1>4. ASSUME Head(tasks).op = "register" PROVE Notifying(Tail(tasks))
  <2>1. 1 \in DOMAIN tasks /\ tasks[1].op = "register"
    BY <1>1, <1>4
  <2>2. PICK j \in DOMAIN tasks : 1 < j /\ tasks[j].op = "notify"
    BY <2>1 DEF Settles
  <2> QED
    BY <1>2, <2>2 DEF Notifying
<1>5. ASSUME Notifying(tasks), Head(tasks).op # "notify" PROVE Notifying(Tail(tasks))
  <2>1. PICK j \in DOMAIN tasks : tasks[j].op = "notify"
    BY <1>5 DEF Notifying
  <2>2. 1 < j
    BY <1>1, <1>5, <2>1
  <2> QED
    BY <1>2, <2>1, <2>2 DEF Notifying
<1> QED
  BY <1>3, <1>4, <1>5

(* A queue that settles with another one, or a task that is not a          *)
(* registration, in front.                                                 *)
LEMMA FrontSettles ==
  ASSUME NEW first \in Seq(Task), NEW rest \in Seq(Task), Settles(rest),
         Settles(first)
  PROVE  /\ Settles(first \o rest)
         /\ Notifying(first) \/ Notifying(rest) => Notifying(first \o rest)
<1>1. /\ first \o rest \in Seq(Task) /\ Len(first) \in Nat /\ Len(rest) \in Nat
      /\ DOMAIN first = 1 .. Len(first) /\ DOMAIN rest = 1 .. Len(rest)
      /\ DOMAIN (first \o rest) = 1 .. Len(first) + Len(rest)
      /\ \A i \in 1 .. Len(first) + Len(rest) :
           (first \o rest)[i] = IF i <= Len(first) THEN first[i] ELSE rest[i - Len(first)]
  BY ConcatProperties, LenProperties
<1>2. ASSUME NEW j \in DOMAIN rest
      PROVE  /\ j + Len(first) \in DOMAIN (first \o rest)
             /\ (first \o rest)[j + Len(first)] = rest[j]
  BY <1>1
<1>3. ASSUME NEW j \in DOMAIN first
      PROVE  j \in DOMAIN (first \o rest) /\ (first \o rest)[j] = first[j]
  BY <1>1
<1>4. ASSUME NEW i \in DOMAIN (first \o rest), (first \o rest)[i].op = "register"
      PROVE  \E j \in DOMAIN (first \o rest) :
               i < j /\ (first \o rest)[j].op = "notify"
  <2>1. CASE i <= Len(first)
    <3>1. i \in DOMAIN first /\ first[i].op = "register"
      BY <1>1, <1>4, <2>1
    <3>2. PICK j \in DOMAIN first : i < j /\ first[j].op = "notify"
      BY <3>1 DEF Settles
    <3> QED
      BY <1>3, <3>2
  <2>2. CASE ~ (i <= Len(first))
    <3>1. i - Len(first) \in DOMAIN rest /\ rest[i - Len(first)].op = "register"
      BY <1>1, <1>4, <2>2
    <3>2. PICK j \in DOMAIN rest : i - Len(first) < j /\ rest[j].op = "notify"
      BY <3>1 DEF Settles
    <3>3. i < j + Len(first)
      BY <1>1, <3>2
    <3> QED
      BY <1>2, <3>2, <3>3
  <2> QED
    BY <2>1, <2>2
<1>5. Settles(first \o rest)
  BY <1>4 DEF Settles
<1>6. Notifying(first) => Notifying(first \o rest)
  BY <1>3 DEF Notifying
<1>7. Notifying(rest) => Notifying(first \o rest)
  BY <1>2 DEF Notifying
<1> QED
  BY <1>5, <1>6, <1>7

(* A single task settles unless it is a registration. *)
LEMMA AloneSettles ==
  ASSUME NEW task \in Task, task.op # "register"
  PROVE  /\ << task >> \in Seq(Task) /\ Settles(<< task >>)
         /\ task.op = "notify" => Notifying(<< task >>)
         /\ Settles(<<>>)
  BY DEF Settles, Notifying

(* The commands of a callback, with the reconciliation behind them.        *)
LEMMA CommandsSettle ==
  ASSUME NEW pending \in Seq(Task)
  PROVE  /\ pending \o << [op |-> "notify"] >> \in Seq(Task)
         /\ Settles(pending \o << [op |-> "notify"] >>)
         /\ Notifying(pending \o << [op |-> "notify"] >>)
<1> DEFINE tasks == pending \o << [op |-> "notify"] >>
<1>1. << [op |-> "notify"] >> \in Seq(Task) /\ Len(<< [op |-> "notify"] >>) = 1
  BY TasksTyped, Alone
<1>2. /\ tasks \in Seq(Task) /\ Len(pending) \in Nat
      /\ DOMAIN tasks = 1 .. Len(pending) + 1
      /\ tasks[Len(pending) + 1].op = "notify"
  BY <1>1, ConcatProperties, LenProperties
<1> HIDE DEF tasks
<1>3. \A i \in DOMAIN tasks : tasks[i].op = "register" => i < Len(pending) + 1
  BY <1>2
<1>4. Settles(tasks) /\ Notifying(tasks)
  BY <1>2, <1>3 DEF Settles, Notifying
<1> QED
  BY <1>2, <1>4 DEF tasks

(* A change of the entries that is reconciled, with `tasks` left to do.    *)
LEMMA Reconciled ==
  ASSUME TypeOK, ListenersKnow, Reconcile(entries'), Settles(todo')
  PROVE  AggregateKept'
<1>1. hasEnabled' = CanHandle(entries)' /\ ListenersKnow'
  BY ReconcileTells, TypeParts DEF CanHandle
<1> QED
  BY <1>1 DEF AggregateKept, ListenersKnow

(* A step that leaves the aggregate and the entries alone and drops no     *)
(* reconciliation.                                                         *)
LEMMA Unreconciled ==
  ASSUME AggregateKept, CanHandle(entries)' = CanHandle(entries),
         UNCHANGED aggregate, Settles(todo'), Notifying(todo) => Notifying(todo')
  PROVE  AggregateKept'
  BY DEF AggregateKept, Notifying, aggregate

(* unregister keeps the aggregate, whatever is left to do after it. *)
LEMMA UnregisterAggregate ==
  ASSUME TypeOK, AggregateKept, NEW id \in Ids, NEW rest \in Seq(Task),
         UnregisterThen(id, rest), Settles(rest), Notifying(todo) => Notifying(rest)
  PROVE  AggregateKept'
<1>1. CASE todo' = rest /\ UNCHANGED <<entries, aggregate>>
  BY <1>1, Unreconciled DEF CanHandle
<1>2. CASE /\ todo' = << Deliver(id, "Cancelled", None),
                         [op |-> "remove", id |-> id] >> \o rest
           /\ UNCHANGED <<entries, aggregate>>
  <2>1. /\ Deliver(id, "Cancelled", None) \in Task
        /\ Deliver(id, "Cancelled", None).op = "deliver"
        /\ [op |-> "remove", id |-> id] \in Task
    BY TasksTyped DEF Phases, Deliver
  <2>2. /\ << [op |-> "remove", id |-> id] >> \o rest \in Seq(Task)
        /\ Settles(<< [op |-> "remove", id |-> id] >> \o rest)
        /\ Notifying(rest) => Notifying(<< [op |-> "remove", id |-> id] >> \o rest)
    BY <2>1, AloneSettles, FrontSettles, Prefixed
  <2>3. PICK more \in Seq(Task) : more = << [op |-> "remove", id |-> id] >> \o rest
    BY <2>2
  <2>4. todo' = << Deliver(id, "Cancelled", None) >> \o more
    BY <1>2, <2>1, <2>3, PrefixedTwo
  <2>5. Settles(todo') /\ (Notifying(more) => Notifying(todo'))
    BY <2>1, <2>2, <2>3, <2>4, AloneSettles, FrontSettles
  <2> QED
    BY <1>2, <2>2, <2>3, <2>5, Unreconciled DEF CanHandle
<1>3. CASE Reconcile(entries') /\ todo' = rest
  BY <1>3, Reconciled DEF AggregateKept, ListenersKnow
<1> QED
  BY <1>1, <1>2, <1>3 DEF UnregisterThen

(* set_enabled keeps the aggregate. *)
LEMMA SetEnabledAggregate ==
  ASSUME TypeOK, AggregateKept, NEW id, NEW enabled, NEW rest,
         SetEnabledThen(id, enabled, rest), Settles(rest),
         Notifying(todo) => Notifying(rest)
  PROVE  AggregateKept'
<1>1. CASE id \in Registered
  BY <1>1, Reconciled DEF SetEnabledThen, AggregateKept, ListenersKnow
<1>2. CASE id \notin Registered
  BY <1>2, Unreconciled DEF SetEnabledThen, CanHandle
<1> QED
  BY <1>1, <1>2

(* Whatever a step does, the listeners know the aggregate that was         *)
(* reconciled last, and a registration that is not reconciled yet will be. *)
LEMMA AggregateStep ==
  ASSUME TypeOK, AggregateKept, [Next]_vars
  PROVE  AggregateKept'
<1> USE DEF aggregate
<1>1. ListenersKnow /\ Settles(todo)
  BY DEF AggregateKept, ListenersKnow
<1>2. Settles(<<>>) /\ <<>> \in Seq(Task)
  BY DEF Settles
<1>3. ASSUME todo # <<>>
      PROVE  /\ Next1 \in Task /\ Rest \in Seq(Task) /\ Settles(Rest)
             /\ Next1.op = "register" => Notifying(Rest)
             /\ Next1.op # "notify" /\ Notifying(todo) => Notifying(Rest)
  BY <1>1, <1>3, QueueSplit, RestSettles DEF TypeOK, Next1, Rest
<1>4. Idle => Settles(<<>>) /\ (Notifying(todo) => Notifying(<<>>))
  BY <1>2 DEF Idle
<1>5. ASSUME NEW entry \in Entry, Register(entry) PROVE AggregateKept'
  BY <1>1, <1>5, Reconciled DEF Register
<1>6. ASSUME NEW id \in Ids, Unregister(id) PROVE AggregateKept'
  BY <1>2, <1>4, <1>6, UnregisterAggregate DEF Unregister
<1>7. ASSUME NEW id \in Ids, NEW enabled \in BOOLEAN, SetEnabled(id, enabled)
      PROVE  AggregateKept'
  BY <1>4, <1>7, SetEnabledAggregate DEF SetEnabled
<1>8. ASSUME NEW id \in Ids, NEW priority \in Priorities, SetPriority(id, priority)
      PROVE  AggregateKept'
  <2>1. PICK enabled \in BOOLEAN : TRUE
    OBVIOUS
  <2>2. CanHandle([entries EXCEPT ![id].priority = priority]) = CanHandle(entries)
    BY <1>8, <2>1, ChangedTyped, TypeParts DEF SetPriority
  <2>3. CanHandle(entries)' = CanHandle(entries)
    BY <1>8, <2>2 DEF SetPriority, CanHandle
  <2> QED
    BY <1>1, <1>8, <2>3, Unreconciled DEF SetPriority
<1>9. CASE AddListener
  <2>1. UNCHANGED <<entries, hasEnabled, todo>> /\ ListenersKnow'
    BY <1>1, <1>9 DEF AddListener, ListenersKnow
  <2> QED
    BY <2>1 DEF AggregateKept, ListenersKnow, CanHandle
<1>10. ASSUME NEW l, RemoveListener(l) PROVE AggregateKept'
  <2>1. UNCHANGED <<entries, hasEnabled, todo>> /\ ListenersKnow'
    BY <1>1, <1>10 DEF RemoveListener, ListenersKnow
  <2> QED
    BY <2>1 DEF AggregateKept, ListenersKnow, CanHandle
<1>11. CASE Gestures
  <2>1. UNCHANGED <<entries, aggregate>> /\ ~ Notifying(todo)
    BY <1>11 DEF Gestures, Back, PredictiveProgress, PredictiveCancel,
                 PredictiveInvoke, PredictiveStart, Gesture, Idle, Notifying
  <2>2. \A i \in DOMAIN todo' : todo'[i].op # "register"
    BY <1>11 DEF Gestures, Back, PredictiveProgress, PredictiveCancel,
                 PredictiveInvoke, PredictiveStart, Gesture, DispatchTo, Deliver
  <2>3. Settles(todo')
    BY <2>2 DEF Settles
  <2> QED
    BY <2>1, <2>3, Unreconciled DEF CanHandle
<1>12. CASE Remove
  BY <1>1, <1>3, <1>12, Reconciled DEF Remove, Doing
<1>13. CASE Progress
  <2>1. /\ todo # <<>> /\ Next1.op = "progress"
        /\ UNCHANGED <<entries, aggregate>>
    BY <1>13 DEF Progress, Doing
  <2>2. CASE active = None
    <3>1. todo' = Rest
      BY <1>3, <1>13, <2>1, <2>2, ConcatEmptySeq DEF Progress
    <3> QED
      BY <1>3, <2>1, <3>1, Unreconciled DEF CanHandle
  <2>3. CASE active # None
    <3>1. todo' = << Deliver(active, "Progressed", None) >> \o Rest
      BY <1>13, <2>3 DEF Progress
    <3>2. /\ Deliver(active, "Progressed", None) \in Task
          /\ Deliver(active, "Progressed", None).op = "deliver"
      BY <2>3, TasksTyped DEF Phases, Deliver, TypeOK
    <3>3. Settles(todo') /\ (Notifying(Rest) => Notifying(todo'))
      BY <1>3, <2>1, <3>1, <3>2, AloneSettles, FrontSettles
    <3> QED
      BY <1>3, <2>1, <3>3, Unreconciled DEF CanHandle
  <2> QED
    BY <2>2, <2>3
<1>14. CASE CallHandler
  <2>1. /\ todo # <<>> /\ Next1.op = "deliver" /\ Next1.id \in Ids
        /\ UNCHANGED <<entries, aggregate>>
    BY <1>3, <1>14, TaskShapes DEF CallHandler, Doing
  <2>2. PICK task \in Task : /\ task.op \in {"callback", "notify"}
                             /\ todo' = << task >> \o Rest
    <3>1. /\ [op |-> "callback", id |-> Next1.id, pending |-> <<>>] \in Task
          /\ [op |-> "notify"] \in Task
      BY <2>1, TasksTyped, EmptySeq
    <3> QED
      BY <1>14, <3>1 DEF CallHandler
  <2>3. Settles(todo') /\ (Notifying(Rest) => Notifying(todo'))
    BY <1>3, <2>1, <2>2, AloneSettles, FrontSettles
  <2> QED
    BY <1>3, <2>1, <2>3, Unreconciled DEF CanHandle
<1>15. CASE HandlerReturns
  <2>1. /\ todo # <<>> /\ Next1.op = "callback"
        /\ UNCHANGED <<entries, aggregate>>
    BY <1>15 DEF HandlerReturns, Doing
  <2>2. Next1.pending \in Seq(Task)
    BY <1>3, <2>1, TaskShapes, TasksTyped, SeqMonotonic
  <2>3. Settles(todo') /\ Notifying(todo')
    BY <1>3, <1>15, <2>1, <2>2, CommandsSettle, FrontSettles DEF HandlerReturns
  <2> QED
    BY <2>1, <2>3, Unreconciled DEF CanHandle
<1>16. CASE RunRegister
  <2>1. /\ todo' = Rest /\ Settles(Rest) /\ Notifying(Rest)
        /\ UNCHANGED aggregate
    BY <1>3, <1>16 DEF RunRegister, Doing
  <2> QED
    BY <1>1, <2>1 DEF AggregateKept, ListenersKnow, Notifying
<1>17. CASE RunUnregister
  <2>1. Next1.id \in Ids
    BY <1>3, <1>17, TaskShapes DEF RunUnregister, Doing
  <2> QED
    BY <1>3, <1>17, <2>1, UnregisterAggregate DEF RunUnregister, Doing
<1>18. CASE RunSetEnabled
  BY <1>3, <1>18, SetEnabledAggregate DEF RunSetEnabled, Doing
<1>19. CASE NotifyEnabledChanged
  <2>1. Reconcile(entries') /\ Settles(todo')
    BY <1>3, <1>19 DEF NotifyEnabledChanged, Doing
  <2> QED
    BY <1>1, <2>1, Reconciled
<1>20. ASSUME NEW command \in Command, Queue(command) PROVE AggregateKept'
  <2>1. /\ todo # <<>> /\ Next1.op = "callback"
        /\ UNCHANGED <<entries, aggregate>>
    BY <1>20 DEF Queue, Doing
  <2>2. PICK task \in Task : /\ task.op = "callback"
                             /\ todo' = << task >> \o Rest
    <3>1. Next1 \in [op : {"callback"}, id : Ids, pending : Seq(Command)]
      BY <1>3, <2>1, TaskShapes
    <3>2. Append(Next1.pending, command) \in Seq(Command)
      BY <3>1, AppendProperties
    <3>3. /\ [Next1 EXCEPT !.pending = Append(@, command)] \in Task
          /\ [Next1 EXCEPT !.pending = Append(@, command)].op = "callback"
      BY <3>1, <3>2 DEF Task
    <3> QED
      BY <1>20, <3>3 DEF Queue
  <2>3. Settles(todo') /\ (Notifying(Rest) => Notifying(todo'))
    BY <1>3, <2>1, <2>2, AloneSettles, FrontSettles
  <2> QED
    BY <1>3, <2>1, <2>3, Unreconciled DEF CanHandle
<1>21. CASE UNCHANGED vars
  BY <1>1, <1>21, Unreconciled DEF vars, CanHandle
<1>22. CASE Call
  BY <1>22, <1>5, <1>6, <1>7, <1>8, <1>9, <1>10, <1>11 DEF Call, Gestures
<1>23. CASE Run
  BY <1>23, <1>12, <1>13, <1>14, <1>15, <1>16, <1>17, <1>18, <1>19 DEF Run
<1> QED
  BY <1>20, <1>21, <1>22, <1>23 DEF Next

-----------------------------------------------------------------------------
(* The inductive invariant holds throughout. *)
LEMMA DispatcherInv == Spec => []IInv
<1>1. Init => IInv
  <2> SUFFICES ASSUME Init PROVE IInv
    OBVIOUS
  <2>1. /\ todo = <<>> /\ active = None /\ inFlight = FALSE /\ startEvent = None
        /\ DOMAIN listeners = {} /\ hasEnabled = FALSE /\ Registered = {}
        /\ \A id \in Ids : told[id] = None
    BY DEF Init, Registered
  <2>2. QueueInOrder /\ AggregateKept
    <3>1. QueueInOrder /\ Settles(todo) /\ ~ CanHandle(entries)
      BY <2>1 DEF QueueInOrder, Settles, CanHandle, Registered
    <3> QED
      BY <2>1, <3>1 DEF AggregateKept, CanHandle
  <2>3. ClaimKept /\ ClaimConsistent /\ DeliveriesAreDue
    BY <2>1 DEF ClaimKept, ClaimConsistent, DeliveriesAreDue, Ending, Starting, Doing
  <2> QED
    BY <2>2, <2>3, DispatcherInit DEF IInv, ClaimInv
<1>2. IInv /\ [Next]_vars => IInv'
  BY TypeStep, ClaimStep, AggregateStep DEF IInv
<1> QED
  BY <1>1, <1>2, PTL DEF Spec

(* The claim is consistent at every moment, whatever the handlers' commands *)
(* remove or disable between a gesture's events.                            *)
(* (dispatcher.rs 201-216, 260-365)                                         *)
THEOREM ClaimStaysConsistent == Spec => []ClaimConsistent
<1>1. IInv => ClaimConsistent
  BY DEF IInv, ClaimInv
<1> QED
  BY <1>1, DispatcherInv, PTL

(* Every event a handler hears is due to it: nobody who was unregistered   *)
(* while the call was under way is called, and nobody is told of progress  *)
(* or of a cancellation without the start. (dispatcher.rs 201-229, 317-383) *)
THEOREM DeliveriesStayDue == Spec => []DeliveriesAreDue
<1>1. IInv => DeliveriesAreDue
  BY DEF IInv, ClaimInv
<1> QED
  BY <1>1, DispatcherInv, PTL

(* With a host that ends its gestures, nobody but the owner is left waiting *)
(* for the end of one. (dispatcher.rs 198-216, 260-365)                     *)
THEOREM NobodyLeftInGesture == Spec => []OnlyOwnerInGesture
<1>1. IInv => OnlyOwnerInGesture
  <2> SUFFICES ASSUME IInv, Idle, serial
               PROVE  {id \in Ids : told[id] # None} = {active} \ {None}
    BY DEF OnlyOwnerInGesture
  <2>1. ~ Doing("deliver") /\ ClaimInv
    BY DEF IInv, Idle, Doing
  <2>2. /\ active # None => told[active] # None
        /\ \A id \in Ids : told[id] # None => id = active
    BY <2>1, CalmMeans
  <2> QED
    BY <2>2, DispatcherAssumption DEF IInv, TypeOK, Ids
<1> QED
  BY <1>1, DispatcherInv, PTL

(* The listeners know the aggregate between calls, and no call of one told  *)
(* it what it knew already. (dispatcher.rs 183-196, 397-399)                *)
THEOREM ListenersStayInStep == Spec => []ListenersInStep
<1>1. IInv => ListenersInStep
  BY DEF IInv, AggregateKept, ListenersInStep, Idle
<1> QED
  BY <1>1, DispatcherInv, PTL

=============================================================================
