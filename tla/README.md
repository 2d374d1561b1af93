# Essenty: specifications, model checking and proofs

This directory holds the TLA+ models of Essenty, a Rust port of the Essenty
component-lifecycle library, the TLC configurations that check them and the
TLAPS proofs about them. Paths below are relative to the repository; crate
paths leave out the leading `crates/`.

## 1. Inventory of the system

Everything in the core crates is single-threaded (`Rc`, `RefCell`, `&mut self`).
What makes it hard is reentrancy: user callbacks run in the middle of
operations and change the structure that is being walked. The adapters add
asynchrony: a channel and a child task (tokio), a second thread with a queue of
closures (Android), browser and Apple events in orders the core does not choose.

| component | state | operations | interacts with | hard behaviour | what makes it correct |
|---|---|---|---|---|---|
| `LifecycleRegistry` (`essenty-lifecycle/src/registry.rs`) | state, observer list, next id | `create start resume pause stop destroy move_to subscribe unsubscribe`, drop of a `Subscription` | calls observers, which call it again | nested transitions, loops that re-read the state, snapshots, destruction inside a notification | the state walks the chain; each notification is complete, once each, in order; destruction releases everybody; every call returns |
| `do_on_*` helpers (same file) | per helper: previous delivery, fired flag, id slot | `do_on_create ... do_on_destroy`, `_once` forms | observers of the registry, call user code | fire during replay before the id is known, nested in their own callback | fires exactly for its transitions; one-shots once and released |
| `BackDispatcher` (`essenty-back-handler/src/dispatcher.rs`) | entries, gesture claim, start event, listeners, aggregate | `register unregister set_enabled set_priority back predictive_*`, listeners, `BackCommands` | calls handlers, which queue commands | commands that remove the running handler, nested cancellations, takeover of a gesture | claim consistent, no event to removed handlers, start before progress, listeners in step |
| `StateKeeper` (`essenty-state-keeper/src/keeper.rs`) | restored bytes, providers | `register* unregister consume_* save` | providers at save time, storage of the host | failed decode after consumption, aborted save, restart between consume and save | nothing saved is lost or restored twice over restarts |
| `InstanceKeeper` (`essenty-instance-keeper/src/keeper.rs`) | retained `Rc`s, destroyed flag | `get_or_create get put remove destroy clear destroy_all` | owned by `Runtime` | type mismatch restores, reuse after destruction | one instance per key and life; nothing retained after the scope ended |
| `Runtime` (`essenty/src/runtime.rs`) | the four above | `dispatch(PlatformEvent)` | maps platform events to the four | early return when one part fails | instances are released exactly with the lifecycle |
| `LifecycleScope` (`essenty-lifecycle-tokio/src/scope.rs`) | abort handles, destroy subscription | `spawn spawn_local`, `Drop` | registry, tokio tasks | destruction and drop against spawn, prune of finished tasks | no tracked task survives the scope or the lifecycle |
| `repeat_on_lifecycle` (`essenty-lifecycle-tokio/src/repeat.rs`) | inbox, child handle | the loop of `run_repeat`, `AbortOnDrop` | registry deliveries, child task | bursts of transitions while an aborted child is awaited, external cancellation | children never overlap; a child runs only if the last delivery is active; ends with destruction |
| `AndroidBackHandler` (`essenty-android/src/back_handler/platform.rs`) | registration slot, `registered` flag, event channel, quarantine | `attach close synchronize_enabled_state drain_callbacks`, `Drop`, Java closures `install`, `uninstall`, proxy callbacks | `BackDispatcher`, Java main thread | two threads, stale flag, install over install, drop during a gesture | one platform registration iff a handler is enabled, eventually; none leaked |
| Android lifecycle / state adapters (`essenty-android/src/{lifecycle,native_activity,native_state,state_keeper}.rs`) | registry, saved-state envelope | activity events, encode / decode | registry, `StateKeeper` | event orders, damaged envelopes | state follows the activity; what is decoded is what was encoded |
| Android configuration (`essenty-android/src/native_config.rs`) | none | reads through JNI | - | - | - |
| Web adapters (`essenty-web/src`) | registry, storage area | visibility, page hide / show, history, `BrowserStorage` | registry, `StateKeeper`, browser | page cache, snapshot written key by key | the loaded snapshot is one that was saved, per namespace |
| Apple adapters (`essenty-apple/src`) | registry, notification tokens | scene and application notifications | registry | notification orders | state follows the scene |

Examples, `experiments/` and the facade crates re-export or demonstrate and have
no logic of their own. `PROJECT.json` lists the hazards of this code line by
line, with the properties that cover them or the reason nothing does, and says
of each component which modules model it and what of it they leave out.

## 2. Plan

Most important behaviour first; what is not marked is done.

1. `LifecycleState`, `Lifecycle` (abstract), `LifecycleRegistry`: checked, the
   main invariants and the refinement proved (`LifecycleRegistry_proofs`).
2. `TransitionHelpers`, on top of `LifecycleRegistry`.
3. `BackDispatcher`.
4. `ObserverGuards`: who owns subscriptions, on top of `LifecycleRegistry`.
5. `RepeatBlock` (abstract), `RepeatOnLifecycle`, `LifecycleScope`: checked, the
   refinement and the safety of the scope proved.
6. `AndroidBack`: the Rust thread, the Java queue and the channel.
7. `StateKeeper` with `BrowserStorage`, a storing host that restarts; `StateCodecs`.
8. `AppleHost`, `WebHost`, `AndroidHost`, `RuntimeHost`: each composes an adapter
   with a registry and the platform that drives it.
9. Proofs: the dispatcher (`BackDispatcher_proofs`), the Android back handler
   (`AndroidBack_proofs`), the notifications (`LifecycleNotification_proofs`),
   the blocks of `repeat_on_lifecycle` and the scope (`Tokio_proofs`), the
   lifecycle adapters and the `Runtime` (`Hosts_proofs`), the saved state of a
   page and the codecs (`SavedState_proofs`), the helpers
   (`TransitionHelpers_proofs`).
10. Open: the web history and the `NativeKey` strategy of old Android versions.

No module uses a `RECURSIVE` operator: the loops of the codecs are recursive
functions, which the proofs can unfold.

## 3. The modules

| module | stands for | builds on |
|---|---|---|
| `LifecycleState`, `Lifecycle` | states and ranks; the abstract lifecycle | - |
| `LifecycleRegistry`, `_proofs` | the registry and its observers | `LifecycleState`; implements `Lifecycle` |
| `LifecycleNotification_proofs` | what observers are told | `LifecycleRegistry_proofs` |
| `TransitionHelpers`, `_proofs` | `do_on_*` | `LifecycleRegistry` |
| `ObserverGuards` | ownership of `Subscription`s | `LifecycleRegistry` |
| `RepeatBlock` | what `repeat_on_lifecycle` promises | - |
| `RepeatOnLifecycle` | the future of `repeat_on_lifecycle` | `LifecycleRegistry`; implements `RepeatBlock` |
| `LifecycleScope` | a task scope | `LifecycleRegistry` |
| `Tokio_proofs` | the two above | `LifecycleNotification_proofs` |
| `BackDispatcher`, `_proofs` | the back dispatcher | - |
| `AndroidBack`, `_proofs` | the platform registration of the dispatcher | - |
| `AndroidHost`, `AppleHost`, `WebHost` | lifecycle adapters with their platform | `LifecycleRegistry` |
| `RuntimeHost` | `Runtime` and `InstanceKeeper` | `LifecycleRegistry` |
| `Hosts_proofs` | the four hosts above | `LifecycleNotification_proofs` |
| `StateKeeper`, `BrowserStorage` | saved state in a page and the browser's storage | - |
| `StateCodecs` | the envelope and the hexadecimal form | - |
| `SavedState_proofs` | the two above | `BrowserStorage`, `StateCodecs` |

The `MC*` modules put several small instances of one subject behind a variable
`scenario` that the first state chooses and no step changes, so that one run
checks, say, a long sequence without reentrancy and a short one with it. Where a
scenario needs other bounds than the configuration gives, the MC module
instantiates the specification again with those.

### LifecycleState, Lifecycle
`LifecycleState` has the states, `rank` and `from_rank` of `state.rs`.
`Lifecycle` is the abstract specification: one variable and the six steps of the
chain Initialized - Created - Started - Resumed, with Destroyed reachable from
Initialized and Created only.

### LifecycleRegistry
`state`, `observers` and `nextId` are the fields of `RegistryInner`. Because an
observer may call the registry from inside a notification, the model has the
call `stack`: a frame for `apply` (with the rest of its observer snapshot),
`move_to`, `destroy`, `subscribe` (with the rest of its replay) and for each
running observer. `ret` is the `Result` of the call that returned last, which
`destroy` tests after its `move_to`. A method is split exactly where it calls
something: `Apply` - `Notify`* - `ApplyDone`, `MoveTo` - `MoveToRound`*,
`Destroy` - `FinishDestroy`, `Subscribe` - `Replay`* - `SubscribeDone`. Any
method may be called whenever user code runs, that is with an empty stack or an
observer on top. `log` and `deliveries` are history variables.

Observers have no payload: what an observer does is chosen anew at each step,
which includes every behaviour of every closure.

### TransitionHelpers
Adds the cells of the helpers' closures (`previous`, `fired`, `id_slot`) per
observer id and the user code a closure runs. A call of a helper's observer is
first the closure, which returns (`Ignore`) or fires (`Fire`, in one step with
the unsubscription of a one-shot). From then on its frame is in `firing`: user
code runs in it, which may call the registry again until `UserReturn`. `Arm` is
the rest of `on_transition` after `subscribe` has returned. A `do_on_destroy` on
a destroyed registry runs its callback before it subscribes; `late` remembers
the depth at which each of these calls stands, until `SubscribeInert`. `Room`
keeps the bound on subscriptions for them.

### ObserverGuards
Adds the guards themselves: those `inHand` of user code and those `captured` by
a closure when it was subscribed. A closure lives as long as the `Vec`, a
snapshot on the stack or a running call has an `Rc` of it (`Alive`). A removal
drops closures in the middle of a `borrow_mut` (`InBorrow`), a return does so
outside of one (`LetGo`), in which case the guards of the closure unsubscribe in
turn. `panicked` records that a borrow met a borrow; nothing happens after it.

### RepeatOnLifecycle, RepeatBlock
One future next to a registry that other code drives. The future is polled
between the calls of the registry. `sent` records what the future's observer has
put into the channel, in the step in which the registry calls it (`RunOn`); the
loop has `taken` a prefix of it, the rest is in the channel. `phase` is the await at which `run_repeat` stands, and
the future may be dropped at each of them. `blocks` are the child tasks, which
run, are aborted and go by themselves: `abort()` only takes effect when a task
awaits, so that `stop_child` waits (`awaited`). `RepeatBlock` is what a caller
relies on: one block at a time, told to leave and gone before the next is
entered, none entered or left alone after the end.

### LifecycleScope
The scope's `do_on_destroy` observer is one of the registry's (`aborter`), and
spawning may come from inside any notification. Tracking prunes the handles of
finished tasks; `AbortAll` is the closure's and `Drop`'s.

### BackDispatcher
The dispatcher is called through `&mut self`, so that handlers cannot call it;
they queue `BackCommand`s, which `dispatch_to` runs after the handler has
returned and which may deliver further events. `todo` is the continuation of
the call in progress: tasks to deliver an event, run a command, remove an entry
after its cancellation (`Remove`), go on with a progress event (`Progress`) and
reconcile the listeners. `told` is a history variable: the start event a handler
has been given and not yet seen the end of. `serial` tells whether the host
starts a gesture only when none is in flight, which the Android platform does and
the API does not enforce; it is chosen at the start.

### AndroidBack
Two threads. `pc` says where the Rust event loop is in `drain_callbacks`,
`synchronize_enabled_state` (which loads the flag, stores it and posts a task in
three steps, so that the Java thread may come in between) or `close` (which
blocks until its task has answered). `tasks` is the queue of
`run_on_java_main_thread`; each closure is one action of the Java thread:
`Install`, `Uninstall`, `Teardown`. The Rust thread never touches the `slot`, so
splitting the closures further would show nothing. `registered`, `channel` and
`retries` (`UNREGISTER_RETRY`) are shared; a proxy can be several times in the
list of retries, whose order does not matter, so that it is kept as a count per
handler. `platform` is Android's side: the set of proxies registered, of which
the newest is on top; the user's gestures call the proxy on top, between the
closures. `failedOver` is a history variable: an install failed while the slot
was taken. `patient` tells whether the host lets Java finish and
drains before it acts. The dispatcher is reduced to `can_handle` and
`has_active_gesture`, the two things the adapter asks of it.

What Android does with its own calls is not in this repository and is assumed:
closures and callbacks run one at a time on the Java thread, the closures in the
order they were posted; an unregister that is rejected leaves the proxy
registered; a gesture stays with the proxy that got its start. A callback of a
proxy that its slot no longer holds may have its effect or none.

### AppleHost, WebHost, AndroidHost
Each has the external platform as variables with its own legal moves (launch,
front and background; visibility, page cache and the queue of page events; the
Activity's states and Back keys), the adapter's handlers as calls of the
registry, and components that subscribe at any time. The assumptions about the
platforms are in the header of each module.

### RuntimeHost
`dispatch` calls `move_to`, which runs observers, and only when that has
returned `Ok` for Destroyed ends the instance keeper. `instances` tells apart
what is retained by its type only.

### StateKeeper, BrowserStorage
`StateKeeper` is what was restored and not consumed, and the providers, whose
outcome (a value, nothing, an error) is free at each save. `BrowserStorage` puts
a page around it: it loads, consumes, registers, saves, and the save writes key
by key (`stale` keys first, then the `unset` ones), any of which may fail and
between any of which the page may be reloaded or killed. A second component
saves into the same storage area under another namespace.

### StateCodecs
`Encode` and the decoder are functions over byte sequences, CRC-32 included
(checked against the check value of its standard). A word of the checksum is the
set of its one bits. A length that is read has four bytes, of which the last is
zero for everything that fits; one that does not is any number beyond all
lengths (`Beyond`). The loop over the records is `Decoded`, the state of the
decoder after so many rounds; a count that is too large for the bytes ends in an
error within as many rounds as there are bytes (`Rounds`). The platform cuts what
it keeps, changes a byte of it or extends it by one.

### Mutants
Definitions marked `\* mutant` restate one definition with a plausible mistake
(a lost guard, an off-by-one, a changed order). Nothing uses them; putting one
in the place of the original must make the property named in `PROJECT.json`
fail, which shows that the property depends on that piece of code.

## 4. What the runs check

| run | bounds | distinct states | shows |
|---|---|---|---|
| `registry_safety` | 2 observers, 4 transitions, reentrant | 3.0 M | type invariant; destruction releases every observer; each notification reaches everybody registered exactly once and in order; refinement of `Lifecycle` |
| `registry_nested_order` | 2 observers, 2 transitions, reentrant | violation | see section 6 |
| `guards_twice` | 2 observers, 3 transitions, reentrant | violation | see section 6 |
| `helpers` | all 10 kinds, 4 transitions, not reentrant; one-shots and `do_on_destroy`, 3 transitions, reentrant; 1 helper of any kind, 6 transitions, reentrant | 3.4 M | a helper that hears transitions in order fires exactly for those it reports; one-shots fire at most once and are released; destruction is reported once |
| `helpers_nested_stop` | `do_on_stop`, 3 transitions, reentrant | violation | see section 6 |
| `back` | 3 handlers, 1 command per callback, any host; 2 handlers, 2 listeners, 2 commands, serial host | 2.3 M | the claim is consistent; every delivery is due: to a registered handler, enabled or in its own gesture, after its start; who was told Started is told the end; listeners in step |
| `android_back` | 2 handlers, 3 toggles; 2 gestures, 2 rejections, 1 failure with a patient host; 1 gesture and 1 rejection or 1 failure with any; fair | 0.48 M | slots hold registered proxies; the flag agrees with the slot once both threads are done; what Android still has and no slot holds is in the list of retries; the registration follows the dispatcher; `close` returns |
| `android_overwrite` | 1 handler, 3 toggles | violation | see section 6 |
| `android_drop` | 1 handler, 1 gesture | violation | see section 6 |
| `tokio` | 4 transitions by the owner, 2 reentrant; 2 tasks; fair | 0.7 M | blocks follow the lifecycle and one is entered for each entry into the active states; refinement of `RepeatBlock`; destruction ends the repetition; the scope tracks what is unfinished and nothing survives it; every call of the registry returns |
| `adapters` | Apple, web: 2 observers, 6 transitions; Android: 1 observer, 6 transitions, 2 presses; `Runtime`: 1 observer, 4 transitions, reentrant; storage: 2 keys, 3 saves; codecs: up to 2 of 3 keys, envelopes of at most 34 bytes | 1.3 M | observers end up where the platform is; listeners are removed and never called after their owner; a Back press is acted upon once; instances are kept exactly until destruction; what is stored is a mixture of old and new entries at worst, the next good save replaces it, and what nobody consumed survives; what is decoded is what was encoded |
| `storage_namespaces` | 2 namespaces, one inside the other | violation | see section 6 |

Bounds are in guards of user code, platforms or tasks to come, never of the code
under test. `MaxTransitions` stops user code from asking for transitions once so
many were applied (calls in progress go on, so `log` may grow beyond it); four
suffice for two nested transitions inside a destroying walk. A destroy overtaken
by a nested destroy and a helper moved back and forth by its own callback take
longer sequences and one observer. `MaxObservers` and `MaxHandlers` bound
subscriptions and registrations: two observers are needed for order and for one
interfering with the other, three handlers for an owner, a taker-over and a
bystander. `MaxCommands` bounds the commands of one callback; cancellations run
further callbacks, so sequences of commands are longer. `MaxListeners` bounds
the listeners ever added. `Reentrant` tells whether observers may ask for
transitions; they may always subscribe and unsubscribe. `MaxTasks`: two spawned
tasks are needed for one that is pruned and one that must not be. `MaxPresses`:
two presses of Back, so that the second meets what the first has left.
`MaxSaves`: three saves, so that one may fail after one that was good and be
repaired by the third. `MaxEnvelopeBytes` is 34 instead of the code's limit, at
which some of the `Snapshots` fit and others are too large. `Alphabet` has the
bytes that damage leaves: zero, a version, the byte in which the magic words
differ, and one that is not ASCII; the proofs are for every alphabet. In
`AndroidBack`, three toggles are enough for an answer to overtake a newer request, and a second
handler meets what the first has left. Deadlock is not checked: user code may
stop calling at any time, and once the bounds are used up nothing is left to do.

Fairness. `RepeatFairness` of `tokio`: a future that can go on is polled, which
is what its waker is for; a call of the registry that has begun is executed by
the thread that made it, and observers return; an aborted task reaches an await.
Nobody need call the registry, and a block that is not aborted may run for ever.
`EveryCallReturns` rests on the bound on transitions: an observer that counters
every step of `move_to` for ever does keep it from returning. What the property
excludes is that the registry loops by itself. `Fairness` of `AndroidBack`
assumes that the host drains in each round of its event loop, as
`drain_callbacks` is meant to be used and as its waker asks for; that a method
which has begun goes on; that the Java thread runs what is posted; and that the
user lifts the finger. Nobody has to toggle, close or drop.

## 5. What is proved

For every value of the constants, from the named assumptions of the modules only
(the bounds are natural numbers, the switches Boolean, sets of states are sets of
states, `None` is no handler, keys are sequences of characters) and from what a
theorem itself assumes, which is said below. TLC has checked each inductive
invariant before it was proved.

`LifecycleRegistry_proofs`:

- `TypeCorrect`: `Spec => []TypeOK`. The type of the stack needs facts about the
  frames (what a snapshot and a replay hold, what `Below` and `Top` are), which
  are lemmas.
- `DestroyCorrect`: `Spec => []DestroyLeavesFromCreated`. The inductive
  invariant `WalkInv` is the type invariant with the property itself: a `destroy`
  frame that is not on top has `move_to(Created)` directly above it, and one on
  top with `ret = "Ok"` is only uncovered by the round of `move_to` that found
  the state equal to Created, with no call in between. It is the strengthening
  that the next theorem needs and no run's property.
- `RegistryImplementsLifecycle`: `Spec => WalksTheChain`. Every `Apply` is a
  step of the chain: the strict methods test their source, a round of `move_to`
  goes one rank towards a target other than Initialized and Destroyed (so never
  back to Initialized), and `destroy` applies Destroyed from Initialized or, by
  `WalkInv`, from Created.
- `DestroyReleases`: `Spec => []DestroyReleasesObservers`, inductive together
  with the type invariant: as long as a frame that notifies of Destroyed is on
  the stack, at whatever depth, nothing is claimed; the frame leaves the stack
  only in `ApplyDone`, which clears the observers, and no `Subscribe` in
  Destroyed adds one.
- `CallsRunDown`: in every step of `Run` and in every `CallbackReturn` the number
  `Remaining` falls, which is what `EveryCallReturns` rests on. It adds up the
  frames on the stack: what is left of a snapshot, counted twice (the call and
  its return), the transitions a `move_to` still needs at `Cost` each, and a
  transition for `destroy`. Nested calls move the state, but a `move_to` under
  another one goes on from where that one ends, so that it counts three
  transitions until it is the innermost, and its distance to the target from then
  on (`MovesLeft`, `NoMoreBelow`). The sum is compared term by term by induction
  (`SumsCompare`, with `NumbersInduction`).

`LifecycleNotification_proofs`:

- `NotificationsOrdered`: `Spec => []NotifiedInOrder`, and `EveryoneNotified`:
  `Spec => []EachNotifiedOnce`. Both from `NotifyInv`: the observers are sorted
  by id (`Sorted`), and an `apply` frame is `Due`: what it has called and what it
  has still to call are those registered when its transition was applied, what is
  still to come lies beyond what was called, in the direction of the transition,
  and no other frame works for the same transition. That nobody is called twice
  then follows from the order; `CalledOnce` turns it into the cardinalities of
  `EachNotifiedOnce` by a bijection.
- `FlatNotificationsInOrder`: `Spec => []InTransitionOrder`, assuming
  `Reentrant = FALSE`. The run `registry_nested_order` refutes it without the
  assumption. `Flat` says what it buys: the only transition in progress is the
  last one.
- `ObserversKnowTheState`: `Spec => []EveryoneKnows`, with the same assumption:
  between calls everybody registered was last told the current state, however
  late it came. `Told` follows each observer: it is still in a snapshot or a
  replay that ends with the current state, or it has heard it last.

`Hosts_proofs`. Each host with its platform implements `Spec` (`AppleImplements`
and so on), so that the theorems above hold in it. The central idea is `Goal`:
the state that the calls in progress will leave behind, read off the outermost
frame. A host's invariant relates it to the platform at every moment, and
`ObserversKnowTheState` carries it to the observers when the calls have returned.
The lifecycle adapters assume `Reentrant = FALSE`, which says that the platform
calls them between calls and that components leave transitions to the platform.

- `ApplicationFollowed`: `AppleSpec => []ObserversFollowApplication`, and
  `StopsJustified`: `AppleSpec => StopsOnlyWhenAway`, from `AppleInv`
  (`Goal = Expected` while the adapter is attached).
- `PageFollowed`: `WebSpec => []ObserversFollowPage`, and `ListenersAreOwned`:
  `WebSpec => []ListenersOwned`, from `WebInv`, which says which events may be
  queued in which state of the page; nothing is said of the goal while a change
  of visibility or a `pagehide` is on its way.
- `ActivityFollowed`: `AndroidSpec => []ObserversFollowActivity`, from
  `Goal = TargetOf(lastCallback)`, and `PressesAct`: `AndroidSpec =>
  []PressActsOnce`: who has the Down of a press is who can take its Up.
- `InstancesRetained`: `RuntimeSpec => []RetainedUntilDestroyed`, reentrant or
  not. `RuntimeInv` follows a destruction asked for by `dispatch`: it stays the
  outermost call until it has returned `Ok`, unless a component has destroyed
  the lifecycle by itself (`aside`).

`BackDispatcher_proofs`, with the inductive invariant `TypeOK /\ QueueInOrder /\
AggregateKept /\ ClaimInv` on the continuation `todo`:

- `DispatcherTyped`, `ClaimStaysConsistent`, `DeliveriesStayDue`,
  `NobodyLeftInGesture` and `ListenersStayInStep`: the run's five invariants. What
  makes them inductive is an order on the tasks that wait (`QueueInOrder`): only
  the task at the head may deliver or remove, a cancellation is delivered to an
  owner that has already been given up, and behind it comes what may run without
  an owner. `ClaimKept` says what a delivery at the head means for the claim, and
  `AggregateKept` that a registration made by a command is followed by a
  reconciliation before the call ends.

`AndroidBack_proofs`:

- `AndroidTyped`, `NothingUnregisteredTwice` (`SlotIsRegistered`),
  `FlagIsRight` (`FlagTracksSlot`) and `NoProxyIsLost` (`LeftoversAreRetried`),
  for any host, the last one about a patient one. The inductive invariant says
  what the queued tasks promise: flag and slot agree, or somebody is on the way
  to set them (`AgreesSoon`); earlier handlers' installs run before anything of
  the open handler (`InstallsFirst`); there is one teardown and the Rust thread
  waits for it (`Closes`); a patient host has at most one request queued
  (`OneRequest`), and what Android has is the open handler's, to be retried, or
  about to go (`Accounted`).
- `CloseIsAnswered`: what `CloseReturns` rests on. While the Rust thread waits in
  `close`, the teardown of its handler is queued, and no other (`Answering`, with
  `Closes`).

`SavedState_proofs`, first about `BrowserStorage`, for namespaces that are `Apart`, which means that no key
of the other component begins with the page's prefix. `ColonsSetApart` derives
this from the concatenation of sequences, for namespaces that differ and have no
colon in them; `storage_namespaces` shows what may happen otherwise.

- `GoodSaveReplaces` (`SaveReplaces`), `UnconsumedStays`
  (`UnconsumedSurvives`), `NothingElseIsStored` (`EntriesOldOrNew`): in the
  middle of a save, what is neither to be removed nor to be set is as in its
  snapshot (`Writing`), and what nobody consumed is still to be consumed, in the
  storage and in the snapshot on its way there (`Kept`).
- `ColonFreeNamespaces`: `StorageSpec => []OtherIntact` if neither namespace has
  a colon: the check that the code could make.

and about `StateCodecs`, for every set of snapshots with distinct keys, every
limit below 2^24 bytes and every alphabet. `CodecInv` says what may be kept, and
everything else is about the functions.

- `SavedIsRestored`: `CodecSpec => []RoundTrip`, and `DamageIsDetected`:
  `CodecSpec => []DamageDetected`. The records of a snapshot end where `End` says
  (`RecordsAre`, `EndIs`), and while the bytes agree with the payload, each round
  of the decoder goes from one end to the next or, if the bytes are used up,
  into an error (`RoundIs`, `DecodedIs`). So the decoder accepts what agrees with
  the payload and is as long, and nothing that is shorter or longer
  (`DecodeRecordsIs`): a cut or an extension is found by the lengths alone. A
  changed byte of the payload is found by the checksum: a shift is injective,
  because the polynomial has bit 31 and a shifted word has not
  (`CrcShiftInjective`), so that two states that differ once differ ever after
  (`CrcTellsChange`), and their bytes differ too (`WordBytesInjective`).
  The induction theorems of the library have an operator as a parameter, which
  the provers cannot instantiate. These proofs go by `NatSetInduction`, about a
  set of numbers with zero and the successor of each member (from the least
  member of the rest, `WFMin`), and define recursive functions by
  `RecursionExists`, whose parameter is a function (`Recursive`).

`Tokio_proofs`, about `RepeatOnLifecycle`:

- `FutureTyped`: `RepeatSpec => []RepeatTypeOK`. That nothing is in the slot
  unless the loop waits for an event, and that no more is taken than was sent,
  comes from `HandlesInv` and `LoopInv` below; that what was sent are events, from
  the registry's own types (`Mail`).
- `RepeatImplementsBlock`: `RepeatSpec => KeepsPromise`. The inductive invariant
  `HandlesInv` says where the handles are: a block that runs untold is the one in
  the slot, one that was told to leave and is not yet gone is the one awaited
  (until the future has ended), and the phase says which handle there is. The
  registry enters only through what its steps leave alone, so that the theorem
  holds for every order of deliveries.
- `BlockPerEntry`: `RepeatSpec => []OneBlockPerEntry`, and `ChildFollows`:
  `RepeatSpec => []ChildFollowsLifecycle`, from `FutureInv`. The loop is simple:
  `LoopInv` relates the handle and the number of blocks to the prefix it has
  taken, at each await. What the channel holds is the harder half. `Catching`: as
  long as the future's own `subscribe` replays, nobody else runs, so that its
  replay comes before every notification (`Inbox`). `Follows`: until a transition
  takes the observer in, what was replayed ends with the state (`CaughtUp`);
  once one has, every later one does, because nobody else can drop the guard and
  a registry only lets go of its observers when it is destroyed. With `Complete`
  of `LifecycleNotification_proofs` (who was registered is called) the last
  transition is in the channel, and nothing may come after it if the observer
  heard the transitions in order (`LastIsState`).
- `EndIsOnItsWay`: what `DestructionEnds` rests on. A future that goes on has been
  told the state of the registry, if perhaps not last (`ToldTheState`, from
  `Follows`, `HoldsMine` and `Complete`; no order is assumed), and the loop takes
  nothing after Destroyed (`TakesTheEnd`).

and about `LifecycleScope`:

- `ScopeUsesRegistry`: `ScopeSpec => Spec`, which makes the theorems above hold
  next to a scope.
- `ScopeTyped`: `ScopeSpec => []ScopeTypeOK`.
- `ScopeTracks`: `ScopeSpec => []TracksTheUnfinished`. The strengthening
  (`Owned`) adds that in any scope a task that runs is tracked. That the closure
  does not abort before the state is Destroyed rests on `StackHonest`: frames
  speak of Destroyed only when the registry is.
- `ScopeEndsTasks`: `ScopeSpec => []NoTaskOutlivesScope`. `AborterDue` says why
  the closure cannot be missed: as long as an open scope tracks anything, its
  observer is subscribed, or it is in the snapshot of a notification of
  Destroyed, or it is being called. The proof follows the observer from the list
  into the snapshot (`SnapshotHas`), through the snapshot (`TailMembers`) and up
  to its call.

`TransitionHelpers_proofs`. Towards the registry a helper is a user like any
other (`HelperRegistry`), with one exception that keeps the registry's invariant
too: `on_transition` may unsubscribe its observer before the call has returned to
user code (`Releases`). `CellsInv` joins that invariant with where the helpers
stand on the call stack: no two calls subscribe the same observer (`Apart`), a
helper knows its id exactly when its own subscribe has returned (`Armed`), and
below every late `do_on_destroy` stands a frame of user code (`LateCalls`).

- `HelperTypes`: `HelperSpec => []HelperTypeOK`.
- `OneShotsFireOnce`: `HelperSpec => []OneShotFiresOnce`, reentrant or not. The
  step that fires is the one that sets `fired`, which no other step resets; a
  one-shot that has fired is either still being subscribed, so that `Arm` will
  release it, or released, and nobody subscribes an observer a second time
  (`OneShots`).
- `DestroyIsReportedOnce`: `HelperSpec => []DestroyReportedOnce`, reentrant or
  not. The transition to Destroyed is the last of the log and no replay speaks
  of it (`Ends`); an observer is told of it at most once (`EndToldOnce`, from the
  order within a notification), and a helper that was told either has its
  closure on the stack or has fired (`EndsOnce`). When all calls have returned,
  `Complete` says that those told are those registered.

- `HelpersReportExactly`: `HelperSpec => []HelpersExact`, reentrant or not, along
  a chain of invariants. A closure looks at what it is told before anything else
  happens (`Unlooked`), so that its `previous` is the event of the last call it
  has looked at (`Recalls`), and it has fired once for every call that says `to`
  and came after one that says `from` (`Tally`; a one-shot for the first). The
  other half says which calls those are. A helper is registered at the
  transitions from its subscription on without a gap, each of which begins where
  the one before ended, the first in the state in which it subscribed
  (`Registrations`); the replay is the states up to that one, in their order
  (`ReplaysDue`). When all calls have returned, `Complete` adds that each of these
  transitions was heard, and the proviso of the property that they were heard in
  order: a helper told of a transition then remembers the state where it began
  (`RemembersFrom`), one replayed a state remembers the state before it on the
  chain (`RemembersReplay`), and `CountMatches` counts both by a bijection.
- `CalmHelpersReportExactly`: `HelperSpec => []AllExact`, assuming
  `Reentrant = FALSE`: `HelpersExact` without its proviso, which this assumption
  makes true of every helper. A
  transition then runs inside nothing but the walk it belongs to, which is
  `Flat`, so that none is applied while anybody is subscribing (`NotYet`): a
  helper hears its replay before any transition (`ReplaysAhead`), and the
  transitions in their order (`Calm`).
- `CalmHelpersFireForReasons`: `HelperSpec => []OnlyReported`, and
  `CalmStopsAreStops`: `HelperSpec => []StopOnlyAfterStop`, with the same
  assumption and at every moment, not only between calls. The second is what the
  documentation of `do_on_stop` says, and what `helpers_nested_stop` refutes
  without the assumption.

What the proofs found in the models: `HelpersExact` was false beyond the bounds of
its run, for a helper whose own callback asks for transitions in the middle of the
replay (section 6), which its proviso now excludes and the run reaches;
`FlagTracksSlot` was not inductive, and
false for a host that is not patient when an install fails (section 6); three
`CASE` expressions of the hosts (`Initial`, `Expected`, `PageState`) had arms that
overlap, whose value TLA+ leaves open although TLC takes the first; they are
conditionals now. `DamageDetected` was false for one byte that no configuration
used: the fourth, changed to that of the other magic word, turns an envelope
into a legacy snapshot, which has no checksum (what was the checksum is then read
as part of the count and of a length, and is refused unless it happens to fit). `RoundTrip` was false for a legacy
snapshot longer than the limit, which earlier releases may have written and the
decoder refuses. Both properties name the exception now.

Only model-checked: all liveness (`EveryCallReturns`, `DestructionEnds`,
`CloseReturns`, `FollowsEnabled`), which is out of reach of the prover here. Of the
first three the safety half is proved (`CallsRunDown`, `EndIsOnItsWay`,
`CloseIsAnswered`): that what is waited for is on its way and what runs gets
nearer to its end. What is left to TLC is that fairness then brings it about.

## 6. Where code and documentation disagree

- `registry_nested_order`: `registry.rs:113` promises notifications "in
  transition order". An observer that asks for a transition while it is being
  notified makes the observers after it in the snapshot hear the nested
  transition first and the outer one last; they end with a stale state.
- `helpers_nested_stop`: the documentation of `do_on_stop` (`registry.rs:345-347`)
  says that a forward transition does not trigger it. With the order above, a
  helper is told Started and then the outdated Created, and fires although no
  Started -> Created transition took place.

  These two come from the same design; `docs/SEMANTIC_COMPATIBILITY.md` lists
  reentrant order as an open point. `HelpersExact` (run `helpers`) shows that
  helpers are right as long as they hear transitions in order. (A repeating
  helper can put them out of order by itself: when its callback, called in the
  replay, asks for transitions, it hears of them before the rest of the replay,
  loses track of the state and misses the next transition. The proof of
  `HelpersExact` found this; its condition `HeardOrdered` excludes it.)
  `ChildFollowsLifecycle` carries the same condition: a block of
  `repeat_on_lifecycle` may otherwise run, or stay out, against the lifecycle.
- `guards_twice`: `docs/PUBLIC_API_AUDIT.md:155` says that there are no panics on
  public paths. `Subscription::remove` (`registry.rs:66`), `unsubscribe` (`:172`)
  and the end of a destruction (`:463`) drop closures while the registry is
  mutably borrowed. When such a closure owns a `Subscription` of the same
  registry, its drop borrows the registry again and panics. Moving the removed
  entries out of the borrow before they are dropped would avoid it.
- `android_overwrite`: `platform.rs:110-111` says the adapter owns the proxy
  "until unregister succeeds". A handler is enabled, disabled and enabled again
  before Java runs. The answer of the uninstall clears the flag (`:566`) after
  the newer request has set it; the next synchronization therefore queues a
  second install behind the first, and the second one overwrites the slot
  (`:533`). Android keeps both proxies, the first of them for good.
  `FlagTracksSlot` and `FollowsEnabled` hold all the same: flag and slot agree
  in the end, what is wrong is what the slot has lost. (One exception came out of
  the proof of `FlagTracksSlot`: when that second install fails, it clears the
  flag and leaves the slot as it is, taken. `failedOver` remembers this, and both
  properties make an exception for it.) With a host that waits
  for Java nothing is lost (`LeftoversAreRetried` in `android_back`).
- `android_drop`: `docs/ANDROID.md:44-45` says that dropping during an owned
  gesture defers unregister until the terminal callback. When that callback has
  already put its event into the channel and the event is not drained yet, drop
  still sees the gesture (`:362`) and posts nothing, and no further terminal
  callback comes. The proxy stays with Android until a later handler's install
  goes through the list of retries.
- `storage_namespaces`: `browser_storage.rs:43-44` says that a save replaces the
  contents of its namespace. `StorageKey` ends a namespace with a colon
  (`storage.rs:45`) and does not keep one out of it, so that the keys of "a:b"
  begin with the prefix of "a": a save into "a" removes them, and a load of "a"
  takes them in.

One more thing the model shows and the documentation does not deny: a component
that destroys the lifecycle itself makes a later `Runtime::dispatch` of
Destroyed fail in `move_to`, and the instance keeper is then not ended by it
(`aside` in `RuntimeHost`; `RetainedUntilDestroyed` claims nothing there).

## 7. Not modelled

- `essenty-android/src/native_config.rs` reads the platform's configuration
  through JNI, field by field; it keeps no state and no step depends on another.
- The experiments, examples and facade crates.
- The web history (`history.rs`, `browser_history.rs`), which forwards popstate
  to one call of the back dispatcher, and the back and save events of `Runtime`,
  each of which is one call of a modelled component.
- Registry: overflow of `u64` ids, `Debug`, panics in callbacks, what a closure
  puts into cells of its own after it was subscribed (`ObserverGuards` has what
  it captured).
- Dispatcher: the Boolean results and the floating-point progress values.
- Android back handler: the `NativeKey` strategy of old API levels (which
  registers nothing), `take_error`, the counter of callbacks, progress events,
  the JNI calls by which a callback reads its event and their failures, and two
  handlers open at the same time. A gesture whose proxy is unregistered before
  its start is drained may never get an end in the dispatcher; whether it does is
  up to Android.
- Instance keeper: which `Rc` of its type a key retains.
- State: keys beyond ASCII in the envelope, two tabs writing the same storage
  area at the same time, and what a quota does to a single write beyond
  rejecting it.
- Apple: the Objective-C plumbing, the order of AppKit's own notifications
  (assumed, see `AppleHost`) and attaching from inside a notification.
