------------------------- MODULE AndroidBack_proofs -------------------------
(***************************************************************************)
(* The invariants of AndroidBack, for every number of handlers and every   *)
(* bound.  The inductive invariant says what a task still queued on the    *)
(* Java thread promises of the flag and of the slot it will act on.        *)
(***************************************************************************)
EXTENDS AndroidBack, TLAPS

(* A task for the handler is queued. *)
Pending(h) == \E i \in DOMAIN tasks : tasks[i].handler = h

(* An uninstall of the handler is queued. *)
Leaving(h) == \E i \in DOMAIN tasks : tasks[i].op = "uninstall" /\ tasks[i].handler = h

Agrees(h) == registered[h] <=> slot[h] # None

(* What a slot holds is a proxy of its handler. *)
OwnProxy == \A h \in Handlers : slot[h] # None => slot[h].handler = h

(* Nothing has happened to handlers not attached yet, and one that is open *)
(* has been.                                                               *)
Fresh ==
  /\ \A h \in Handlers : h > cur =>
       slot[h] = None /\ ~ registered[h] /\ retries[h] = 0 /\ ~ Pending(h)
  /\ \A p \in platform : p.handler <= cur
  /\ touching # None => touching.handler <= cur
  /\ open => cur # 0
  /\ pc # "idle" => open

(* The installs that earlier handlers left behind run before anything of   *)
(* the open one.                                                           *)
InstallsFirst ==
  open => \A i \in DOMAIN tasks :
    tasks[i].op = "install" /\ tasks[i].handler # cur =>
      /\ slot[cur] = None /\ retries[cur] = 0
      /\ \A j \in DOMAIN tasks : j < i => tasks[j].handler # cur

(* The Rust thread waits for the one teardown there is. *)
Closes ==
  /\ \A i \in DOMAIN tasks : tasks[i].op = "close" => pc = "close" /\ tasks[i].handler = cur
  /\ \A i, j \in DOMAIN tasks : tasks[i].op = "close" /\ tasks[j].op = "close" => i = j

(* Flag and slot say the same, or somebody is on the way to set them. *)
AgreesSoon == open /\ cur \notin failedOver => Agrees(cur) \/ pc = "post" \/ Pending(cur)

(* A patient host has asked for one thing at most, and for that because    *)
(* the flag said otherwise.                                                *)
OneRequest ==
  /\ open => \A i, j \in DOMAIN tasks :
       tasks[i].handler = cur /\ tasks[j].handler = cur => i = j
  /\ open /\ Pending(cur) /\ pc # "close" =>
       (registered[cur] <=> enabled) /\ pc \notin {"store", "post"}
  /\ \A i \in DOMAIN tasks : tasks[i].op = "install" =>
       /\ open /\ tasks[i].handler = cur /\ enabled /\ slot[cur] = None
       /\ ~ closed /\ pc # "close"
  /\ pc \in {"store", "post"} => ~ closed /\ (enabled => slot[cur] = None)
  /\ pc = "post" => (registered[cur] <=> enabled)
  /\ closed => slot[cur] = None

(* What Android has belongs to the open handler or is about to go. *)
Accounted ==
  \A p \in platform :
    (open /\ p.handler = cur) \/ retries[p.handler] > 0 \/ Leaving(p.handler)

PatientInv ==
  patient =>
    /\ OneRequest
    /\ failedOver = {}
    /\ OwnedUntilUnregistered
    /\ Accounted

IInv ==
  /\ TypeOK
  /\ SlotIsRegistered
  /\ OwnProxy
  /\ Fresh
  /\ InstallsFirst
  /\ Closes
  /\ AgreesSoon
  /\ PatientInv

-----------------------------------------------------------------------------
(* The queue of the Java thread, one task longer or shorter. *)

LEMMA Appended ==
  ASSUME NEW s \in Seq(Task), NEW t \in Task, NEW u, u = Append(s, t)
  PROVE  /\ u \in Seq(Task) /\ u # <<>>
         /\ DOMAIN u = 1 .. Len(s) + 1 /\ DOMAIN s = 1 .. Len(s) /\ Len(s) \in Nat
         /\ \A i \in DOMAIN s : i \in DOMAIN u /\ u[i] = s[i] /\ i # Len(s) + 1
         /\ u[Len(s) + 1] = t
         /\ \A i \in DOMAIN u : i \in DOMAIN s \/ i = Len(s) + 1
  OBVIOUS

LEMMA Shifted ==
  ASSUME NEW s \in Seq(Task), s # <<>>, NEW u, u = Tail(s)
  PROVE  /\ u \in Seq(Task)
         /\ Head(s) = s[1] /\ 1 \in DOMAIN s /\ Head(s) \in Task
         /\ DOMAIN s = 1 .. Len(s) /\ Len(s) \in Nat
         /\ \A i \in DOMAIN u : i \in Nat /\ i + 1 \in DOMAIN s /\ u[i] = s[i + 1]
         /\ \A i \in DOMAIN s : i # 1 => i - 1 \in DOMAIN u /\ u[i - 1] = s[i]
  OBVIOUS

(* Every step appends a task, takes the first one or leaves them alone. *)
LEMMA PostDoes ==
  ASSUME TypeOK, NEW op \in {"install", "uninstall", "close"}, NEW h \in Handlers,
         Post(op, h)
  PROVE  /\ tasks' \in Seq(Task) /\ tasks' # <<>>
         /\ DOMAIN tasks' = 1 .. Len(tasks) + 1 /\ DOMAIN tasks = 1 .. Len(tasks)
         /\ Len(tasks) \in Nat
         /\ \A i \in DOMAIN tasks :
              i \in DOMAIN tasks' /\ tasks'[i] = tasks[i] /\ i # Len(tasks) + 1
         /\ tasks'[Len(tasks) + 1] = [op |-> op, handler |-> h]
         /\ \A i \in DOMAIN tasks' : i \in DOMAIN tasks \/ i = Len(tasks) + 1
<1>1. tasks \in Seq(Task) /\ [op |-> op, handler |-> h] \in Task
  BY DEF TypeOK, Task
<1> QED BY <1>1, Appended DEF Post

LEMMA PostedTask ==
  ASSUME TypeOK, NEW op \in {"install", "uninstall", "close"}, NEW h \in Handlers,
         Post(op, h), NEW i \in DOMAIN tasks'
  PROVE  \/ i \in DOMAIN tasks /\ tasks'[i] = tasks[i]
         \/ /\ i \notin DOMAIN tasks /\ i = Len(tasks) + 1
            /\ tasks'[i].op = op /\ tasks'[i].handler = h
<1>1. CASE i \in DOMAIN tasks
  BY <1>1, PostDoes
<1>2. CASE i \notin DOMAIN tasks
  <2>1. i = Len(tasks) + 1
    BY <1>2, PostDoes
  <2>2. tasks'[i] = [op |-> op, handler |-> h]
    BY <2>1, PostDoes
  <2> QED BY <1>2, <2>1, <2>2
<1> QED BY <1>1, <1>2

LEMMA RunDoes ==
  ASSUME TypeOK, NEW op, Running(op), tasks' = Tail(tasks)
  PROVE  /\ tasks' \in Seq(Task)
         /\ Head(tasks) = tasks[1] /\ 1 \in DOMAIN tasks /\ tasks[1] \in Task
         /\ tasks[1].op = op /\ tasks[1].handler \in Handlers
         /\ DOMAIN tasks = 1 .. Len(tasks) /\ Len(tasks) \in Nat
         /\ \A i \in DOMAIN tasks' :
              i \in Nat /\ i + 1 \in DOMAIN tasks /\ tasks'[i] = tasks[i + 1]
         /\ \A i \in DOMAIN tasks :
              i # 1 => i - 1 \in DOMAIN tasks' /\ tasks'[i - 1] = tasks[i]
<1>1. tasks \in Seq(Task) /\ tasks # <<>> /\ Head(tasks).op = op
  BY DEF TypeOK, Running
<1>2. /\ tasks' \in Seq(Task)
      /\ Head(tasks) = tasks[1] /\ 1 \in DOMAIN tasks /\ Head(tasks) \in Task
      /\ DOMAIN tasks = 1 .. Len(tasks) /\ Len(tasks) \in Nat
      /\ \A i \in DOMAIN tasks' :
           i \in Nat /\ i + 1 \in DOMAIN tasks /\ tasks'[i] = tasks[i + 1]
      /\ \A i \in DOMAIN tasks :
           i # 1 => i - 1 \in DOMAIN tasks' /\ tasks'[i - 1] = tasks[i]
  BY <1>1, Shifted
<1> QED BY <1>1, <1>2 DEF Task

LEMMA NothingQueued == <<>> \in Seq(Task) /\ <<>> \in Seq(Events)
OBVIOUS

LEMMA HandlersAreNumbers ==
  /\ MaxHandlers \in Nat /\ MaxHandlers # 0
  /\ Handlers = 1 .. MaxHandlers
  /\ \A h \in Handlers : h \in Nat /\ h # 0 /\ h <= MaxHandlers
BY AndroidAssumption DEF Handlers

LEMMA SpendTyped ==
  ASSUME TypeOK, NEW what \in {"toggles", "gestures", "rejections", "failures"}, Spend(what)
  PROVE  budget' \in [{"toggles", "gestures", "rejections", "failures"} -> Nat]
BY DEF TypeOK, Spend

(* An install, as the invariants see it: `gone` are the slots the list of  *)
(* retries got emptied.                                                    *)
InstallEffect(h, gone, fails) ==
  /\ Running("install") /\ h = Head(tasks).handler /\ tasks' = Tail(tasks)
  /\ budget' \in [{"toggles", "gestures", "rejections", "failures"} -> Nat]
  /\ \A i \in gone : slot[i] # None /\ retries[i] > 0
  /\ retries' \in [Handlers -> Nat]
  /\ \A i \in Handlers :
       /\ retries'[i] <= retries[i]
       /\ i \notin gone /\ slot[i] # None => retries'[i] = retries[i]
  /\ registered' = [registered EXCEPT ![h] = ~ fails]
  /\ slot' = IF fails
             THEN [i \in Handlers |-> IF i \in gone THEN None ELSE slot[i]]
             ELSE [i \in Handlers |-> IF i = h THEN [handler |-> h, n |-> made]
                                      ELSE IF i \in gone THEN None ELSE slot[i]]
  /\ platform' = IF fails THEN platform \ {slot[i] : i \in gone}
                 ELSE (platform \ {slot[i] : i \in gone})
                        \cup {[handler |-> h, n |-> made]}
  /\ made' = IF fails THEN made ELSE made + 1
  /\ failedOver' = IF fails /\ h \notin gone /\ slot[h] # None
                   THEN failedOver \cup {h} ELSE failedOver
  /\ UNCHANGED <<host, pc, channel, touching>>

LEMMA InstallDoes ==
  ASSUME TypeOK, Install
  PROVE  \E h \in Handlers, gone \in SUBSET Handlers, fails \in BOOLEAN :
           InstallEffect(h, gone, fails)
<1> DEFINE h == Head(tasks).handler
<1>0. h \in Handlers /\ Running("install") /\ tasks' = Tail(tasks)
  BY RunDoes DEF Install
<1>1. PICK kept \in [Handlers -> 0 .. budget.rejections],
           rejections \in 0 .. budget.rejections, fails \in BOOLEAN :
        LET left  == [i \in Handlers |-> IF i \in Emptied(kept) THEN None ELSE slot[i]]
            others == platform \ {slot[i] : i \in Emptied(kept)}
            proxy == [handler |-> h, n |-> made]
        IN
        /\ Rejected(kept)
        /\ fails => budget.failures > 0
        /\ budget' = [budget EXCEPT !.rejections = @ - rejections,
                                    !.failures = IF fails THEN @ - 1 ELSE @]
        /\ retries' = kept
        /\ registered' = [registered EXCEPT ![h] = ~ fails]
        /\ slot' = IF fails THEN left ELSE [left EXCEPT ![h] = proxy]
        /\ platform' = IF fails THEN others ELSE others \cup {proxy}
        /\ made' = IF fails THEN made ELSE made + 1
        /\ failedOver' = IF fails /\ left[h] # None THEN failedOver \cup {h} ELSE failedOver
  BY DEF Install
<1> DEFINE gone == Emptied(kept)
<1>2. gone \in SUBSET Handlers
  BY DEF Emptied
<1>3. budget \in [{"toggles", "gestures", "rejections", "failures"} -> Nat]
      /\ retries \in [Handlers -> Nat]
  BY DEF TypeOK
<1>4. budget' \in [{"toggles", "gestures", "rejections", "failures"} -> Nat]
  <2>1. budget["rejections"] - rejections \in Nat
    BY <1>3
  <2>2. fails => budget["failures"] - 1 \in Nat
    BY <1>1, <1>3
  <2>3. budget' = [budget EXCEPT !["rejections"] = @ - rejections,
                                 !["failures"] = IF fails THEN @ - 1 ELSE @]
    BY <1>1
  <2>4. budget' = [x \in {"toggles", "gestures", "rejections", "failures"} |->
                     IF x = "rejections" THEN budget["rejections"] - rejections
                     ELSE IF x = "failures" /\ fails THEN budget["failures"] - 1
                     ELSE budget[x]]
    BY <1>3, <2>3
  <2> QED BY <1>3, <2>1, <2>2, <2>4
<1>5. kept \in [Handlers -> Nat]
  BY <1>1, <1>3
<1>6. \A i \in gone : slot[i] # None /\ retries[i] > 0
  BY <1>3, <1>5 DEF Emptied
<1>7. \A i \in Handlers :
        /\ kept[i] <= retries[i]
        /\ i \notin gone /\ slot[i] # None => kept[i] = retries[i]
  BY <1>1, <1>3, <1>5 DEF Emptied, Rejected
<1>8. slot' = IF fails
              THEN [i \in Handlers |-> IF i \in gone THEN None ELSE slot[i]]
              ELSE [i \in Handlers |-> IF i = h THEN [handler |-> h, n |-> made]
                                       ELSE IF i \in gone THEN None ELSE slot[i]]
  BY <1>0, <1>1
<1>9. failedOver' = IF fails /\ h \notin gone /\ slot[h] # None
                    THEN failedOver \cup {h} ELSE failedOver
  BY <1>0, <1>1
<1>10. UNCHANGED <<host, pc, channel, touching>>
  BY DEF Install
<1> HIDE DEF gone, h
<1> QED BY <1>0, <1>1, <1>2, <1>4, <1>5, <1>6, <1>7, <1>8, <1>9, <1>10 DEF gone, h, InstallEffect

(* An unregister call, accepted (`done`) or rejected. *)
LEMMA UnregisterDoes ==
  ASSUME TypeOK, NEW h \in Handlers, UnregisterSlot(h)
  PROVE  \E done \in BOOLEAN :
           /\ budget' \in [{"toggles", "gestures", "rejections", "failures"} -> Nat]
           /\ ~ done => slot[h] # None
           /\ registered' = [registered EXCEPT ![h] = ~ done]
           /\ retries' = [retries EXCEPT ![h] = IF done THEN 0 ELSE @ + 1]
           /\ slot' = IF done THEN [slot EXCEPT ![h] = None] ELSE slot
           /\ platform' = IF done THEN platform \ {slot[h]} ELSE platform
<1>1. CASE slot[h] # None /\ Spend("rejections")
           /\ registered' = [registered EXCEPT ![h] = TRUE]
           /\ retries' = [retries EXCEPT ![h] = @ + 1]
           /\ UNCHANGED <<slot, platform>>
  <2>1. budget' \in [{"toggles", "gestures", "rejections", "failures"} -> Nat]
    BY <1>1, SpendTyped
  <2> WITNESS FALSE \in BOOLEAN
  <2> QED BY <1>1, <2>1
<1>2. CASE /\ registered' = [registered EXCEPT ![h] = FALSE]
           /\ retries' = [retries EXCEPT ![h] = 0]
           /\ slot' = [slot EXCEPT ![h] = None]
           /\ platform' = platform \ {slot[h]}
           /\ UNCHANGED budget
  <2>1. budget' \in [{"toggles", "gestures", "rejections", "failures"} -> Nat]
    BY <1>2 DEF TypeOK
  <2> WITNESS TRUE \in BOOLEAN
  <2> QED BY <1>2, <2>1
<1> QED BY <1>1, <1>2 DEF UnregisterSlot

(* The two tasks that unregister, with what each does besides. *)
RemovalEffect(h, done) ==
  /\ \/ /\ Running("uninstall") /\ UNCHANGED <<closed, pc>>
     \/ /\ Running("close") /\ pc' = "idle"
        /\ closed' = (closed \/ ~ registered'[cur])
  /\ h = Head(tasks).handler /\ tasks' = Tail(tasks)
  /\ budget' \in [{"toggles", "gestures", "rejections", "failures"} -> Nat]
  /\ ~ done => slot[h] # None
  /\ registered' = [registered EXCEPT ![h] = ~ done]
  /\ retries' = [retries EXCEPT ![h] = IF done THEN 0 ELSE @ + 1]
  /\ slot' = IF done THEN [slot EXCEPT ![h] = None] ELSE slot
  /\ platform' = IF done THEN platform \ {slot[h]} ELSE platform
  /\ UNCHANGED <<cur, open, enabled, gesture, channel, made, touching>>

LEMMA RemovalDoes ==
  ASSUME TypeOK, Uninstall \/ Teardown
  PROVE  \E h \in Handlers, done \in BOOLEAN :
           RemovalEffect(h, done)
<1> DEFINE h == Head(tasks).handler
<1>1. h \in Handlers
  BY RunDoes DEF Uninstall, Teardown
<1>2. UnregisterSlot(h)
  BY DEF Uninstall, Teardown
<1>3. /\ \/ Running("uninstall") /\ UNCHANGED <<closed, pc>>
         \/ /\ Running("close") /\ pc' = "idle"
            /\ closed' = (closed \/ ~ registered'[cur])
      /\ tasks' = Tail(tasks)
      /\ UNCHANGED <<cur, open, enabled, gesture, channel, made, touching>>
  BY DEF Uninstall, Teardown, host
<1> HIDE DEF h
<1>4. PICK done \in BOOLEAN :
        /\ budget' \in [{"toggles", "gestures", "rejections", "failures"} -> Nat]
        /\ ~ done => slot[h] # None
        /\ registered' = [registered EXCEPT ![h] = ~ done]
        /\ retries' = [retries EXCEPT ![h] = IF done THEN 0 ELSE @ + 1]
        /\ slot' = IF done THEN [slot EXCEPT ![h] = None] ELSE slot
        /\ platform' = IF done THEN platform \ {slot[h]} ELSE platform
  BY <1>1, <1>2, UnregisterDoes
<1> WITNESS h \in Handlers
<1> WITNESS done \in BOOLEAN
<1> QED BY <1>3, <1>4 DEF h, RemovalEffect

(* The callbacks of a proxy send an event, or have the proxy of a handler  *)
(* that is gone unregistered.                                              *)
LEMMA CallbackDoes ==
  ASSUME TypeOK, NEW p \in Proxy, NEW event \in Events, Callback(p, event)
  PROVE  /\ channel' \in Seq(Events)
         /\ \/ UNCHANGED tasks
            \/ ~ (open /\ p.handler = cur) /\ Post("uninstall", p.handler)
<1>1. channel \in Seq(Events)
  BY DEF TypeOK
<1>2. Append(channel, event) \in Seq(Events)
  BY <1>1
<1>3. \/ channel' = Append(channel, event) /\ UNCHANGED tasks
      \/ /\ ~ (open /\ p.handler = cur) /\ UNCHANGED channel
         /\ (UNCHANGED tasks \/ Post("uninstall", p.handler))
      \/ UNCHANGED <<channel, tasks>>
  BY Zenon DEF Callback
<1> QED BY <1>1, <1>2, <1>3

LEMMA UserDoes ==
  ASSUME TypeOK, \A p \in platform : p.handler <= cur,
         touching # None => touching.handler <= cur, User
  PROVE  /\ UNCHANGED <<host, pc, registered, retries, slot, platform, made, failedOver>>
         /\ budget' \in [{"toggles", "gestures", "rejections", "failures"} -> Nat]
         /\ channel' \in Seq(Events)
         /\ touching' \in platform \cup {None}
         /\ \/ UNCHANGED tasks
            \/ \E h \in Handlers :
                 h <= cur /\ ~ (open /\ h = cur) /\ Post("uninstall", h)
<1>0. platform \subseteq Proxy /\ \A p \in Proxy : p.handler \in Handlers
  BY DEF TypeOK, Proxy
<1>1. CASE TouchDown
  <2>1. PICK p \in platform : touching' = p /\ Callback(p, "Started")
    BY <1>1 DEF TouchDown
  <2>2. /\ channel' \in Seq(Events)
        /\ \/ UNCHANGED tasks
           \/ ~ (open /\ p.handler = cur) /\ Post("uninstall", p.handler)
    BY <1>0, <2>1, CallbackDoes DEF Events
  <2>3. budget' \in [{"toggles", "gestures", "rejections", "failures"} -> Nat]
    BY <1>1, SpendTyped DEF TouchDown
  <2> QED BY <1>0, <1>1, <2>1, <2>2, <2>3 DEF TouchDown, User
<1>2. CASE Press
  <2>1. PICK p \in platform : Callback(p, "Invoked")
    BY <1>2 DEF Press
  <2>2. /\ channel' \in Seq(Events)
        /\ \/ UNCHANGED tasks
           \/ ~ (open /\ p.handler = cur) /\ Post("uninstall", p.handler)
    BY <1>0, <2>1, CallbackDoes DEF Events
  <2>3. budget' \in [{"toggles", "gestures", "rejections", "failures"} -> Nat]
    BY <1>2, SpendTyped DEF Press
  <2> QED BY <1>0, <1>2, <2>1, <2>2, <2>3 DEF Press, User, java
<1>3. CASE TouchUp
  <2>1. touching \in Proxy
    BY <1>3 DEF TouchUp, TypeOK
  <2>2. PICK event \in Events : Callback(touching, event)
    BY <1>3 DEF TouchUp, Events
  <2>3. /\ channel' \in Seq(Events)
        /\ \/ UNCHANGED tasks
           \/ ~ (open /\ touching.handler = cur) /\ Post("uninstall", touching.handler)
    BY <2>1, <2>2, CallbackDoes
  <2>4. budget' \in [{"toggles", "gestures", "rejections", "failures"} -> Nat]
    BY <1>3 DEF TouchUp, TypeOK
  <2> QED BY <1>0, <1>3, <2>1, <2>3, <2>4 DEF TouchUp, User
<1> QED BY <1>1, <1>2, <1>3 DEF User

LEMMA RustKeeps ==
  ASSUME Rust
  PROVE  UNCHANGED <<slot, platform, made, touching, failedOver>>
BY Zenon DEF Rust, Attach, Toggle, BeginDrain, BeginSynchronize, DrainOne, DrainDone, Load,
   Store, PostTask, Close, Drop, java

-----------------------------------------------------------------------------
LEMMA InitHolds == Init => IInv
<1> SUFFICES ASSUME Init PROVE IInv
  OBVIOUS
<1>1. TypeOK
  <2>1. budget \in [{"toggles", "gestures", "rejections", "failures"} -> Nat]
    BY AndroidAssumption DEF Init
  <2>2. registered \in [Handlers -> BOOLEAN]
    BY Zenon DEF Init
  <2>3. retries \in [Handlers -> Nat] /\ slot \in [Handlers -> Proxy \cup {None}]
    BY DEF Init
  <2>4. channel \in Seq(Events) /\ tasks \in Seq(Task)
    BY NothingQueued DEF Init
  <2>5. cur \in 0 .. MaxHandlers
    BY HandlersAreNumbers DEF Init
  <2>6. open \in BOOLEAN /\ closed \in BOOLEAN /\ enabled \in BOOLEAN /\ gesture \in BOOLEAN
    BY Zenon DEF Init
  <2> QED BY <2>1, <2>2, <2>3, <2>4, <2>5, <2>6 DEF Init, TypeOK
<1>2. SlotIsRegistered /\ OwnProxy /\ Fresh
  BY HandlersAreNumbers DEF Init, SlotIsRegistered, OwnProxy, Fresh, Pending
<1>3. InstallsFirst /\ Closes /\ AgreesSoon
  BY DEF Init, InstallsFirst, Closes, AgreesSoon
<1>4. PatientInv
  BY DEF Init, PatientInv, OneRequest, OwnedUntilUnregistered, Accounted
<1> QED BY <1>1, <1>2, <1>3, <1>4 DEF IInv

(* Every action keeps the types. *)
LEMMA TypeStep == IInv /\ [Next]_vars => TypeOK'
<1> SUFFICES ASSUME IInv, [Next]_vars PROVE TypeOK'
  OBVIOUS
<1> USE HandlersAreNumbers
<1>0. TypeOK /\ patient' = patient /\ patient \in BOOLEAN
  BY DEF IInv, TypeOK, Next, vars
<1>1. CASE Rust
  <2>0. UNCHANGED <<slot, platform, made, touching, failedOver>>
    BY <1>1, RustKeeps
  <2>1. CASE \E canHandle \in BOOLEAN : Attach(canHandle)
    <3>1. PICK canHandle \in BOOLEAN : Attach(canHandle)
      BY <2>1
    <3>2. cur' \in Handlers /\ cur' = cur + 1
      BY <1>0, <3>1 DEF Attach, TypeOK
    <3>3. tasks' \in Seq(Task)
      BY <1>0, <3>1, <3>2, PostDoes DEF Attach, TypeOK
    <3>6. /\ patient' \in BOOLEAN /\ open' \in BOOLEAN /\ closed' \in BOOLEAN
          /\ enabled' \in BOOLEAN /\ gesture' \in BOOLEAN
      BY Zenon, <1>0, <3>1 DEF Attach
    <3>4. /\ cur' \in 0 .. MaxHandlers
          /\ channel' \in Seq(Events) /\ retries' \in [Handlers -> Nat]
          /\ pc' = pc /\ budget' = budget
      BY <1>0, <3>1, <3>2, NothingQueued DEF Attach, TypeOK, java
    <3>5. registered' \in [Handlers -> BOOLEAN]
      BY <1>0, <3>1 DEF Attach, TypeOK
    <3> QED BY <1>0, <2>0, <3>3, <3>4, <3>5, <3>6 DEF TypeOK
  <2>2. CASE Toggle
    <3>1. budget' \in [{"toggles", "gestures", "rejections", "failures"} -> Nat]
      BY <1>0, <2>2, SpendTyped DEF Toggle
    <3> QED BY <1>0, <2>0, <2>2, <3>1 DEF Toggle, TypeOK
  <2>3. CASE BeginDrain \/ BeginSynchronize \/ DrainDone \/ Load
    BY <1>0, <2>0, <2>3 DEF BeginDrain, BeginSynchronize, DrainDone, Load, TypeOK, host
  <2>4. CASE DrainOne
    BY <1>0, <2>0, <2>4 DEF DrainOne, TypeOK
  <2>5. CASE Store
    BY <1>0, <2>0, <2>5 DEF Store, TypeOK, host
  <2>6. CASE PostTask \/ Close
    <3>1. cur \in Handlers
      BY <1>0, <2>6 DEF PostTask, Close, HostActs, IInv, Fresh, TypeOK
    <3>2. tasks' \in Seq(Task)
      BY <1>0, <2>6, <3>1, PostDoes DEF PostTask, Close
    <3> QED BY <1>0, <2>0, <2>6, <3>2 DEF PostTask, Close, TypeOK, java, host
  <2>7. CASE Drop
    <3>1. cur \in Handlers
      BY <1>0, <2>7 DEF Drop, HostActs, IInv, Fresh, TypeOK
    <3>2. tasks' \in Seq(Task)
      BY <1>0, <2>7, <3>1, PostDoes DEF Drop, TypeOK
    <3>3. retries' \in [Handlers -> Nat]
      BY <1>0, <2>7, <3>1 DEF Drop, TypeOK
    <3> QED BY <1>0, <2>0, <2>7, <3>2, <3>3, NothingQueued DEF Drop, TypeOK, java
  <2> QED BY <1>1, <2>1, <2>2, <2>3, <2>4, <2>5, <2>6, <2>7 DEF Rust
<1>6. CASE Install
  <2>1. PICK h \in Handlers, gone \in SUBSET Handlers, fails \in BOOLEAN :
          InstallEffect(h, gone, fails)
    BY <1>0, <1>6, InstallDoes
  <2>2. tasks' \in Seq(Task)
    BY <1>0, <2>1, RunDoes DEF InstallEffect
  <2>3. [handler |-> h, n |-> made] \in Proxy
    BY <1>0 DEF TypeOK, Proxy
  <2>4. slot' \in [Handlers -> Proxy \cup {None}]
    BY <1>0, <2>1, <2>3 DEF TypeOK, InstallEffect
  <2>5. platform' \subseteq Proxy
    BY <1>0, <2>1, <2>3 DEF TypeOK, InstallEffect
  <2>6. made' \in Nat
    BY <1>0, <2>1 DEF TypeOK, InstallEffect
  <2>8. failedOver' \subseteq Handlers
    BY <1>0, <2>1 DEF TypeOK, InstallEffect
  <2>7. registered' \in [Handlers -> BOOLEAN]
    BY <1>0, <2>1 DEF TypeOK, InstallEffect
  <2> QED BY <1>0, <2>1, <2>2, <2>4, <2>5, <2>6, <2>7, <2>8 DEF TypeOK, host, InstallEffect
<1>7. CASE (Uninstall \/ Teardown) /\ UNCHANGED failedOver
  <2>1. PICK h \in Handlers, done \in BOOLEAN : RemovalEffect(h, done)
    BY <1>0, <1>7, RemovalDoes
  <2>2. tasks' \in Seq(Task)
    BY <1>0, <2>1, RunDoes DEF RemovalEffect
  <2>3. retries' \in [Handlers -> Nat]
    <3>1. retries \in [Handlers -> Nat]
      BY <1>0 DEF TypeOK
    <3>2. retries' = [retries EXCEPT ![h] = 0] \/ retries' = [retries EXCEPT ![h] = @ + 1]
      BY <2>1 DEF RemovalEffect
    <3> QED BY <3>1, <3>2
  <2>6. slot' \in [Handlers -> Proxy \cup {None}]
    <3>1. slot \in [Handlers -> Proxy \cup {None}]
      BY <1>0 DEF TypeOK
    <3>2. slot' = [slot EXCEPT ![h] = None] \/ slot' = slot
      BY <2>1 DEF RemovalEffect
    <3> QED BY <3>1, <3>2
  <2>5. registered' \in [Handlers -> BOOLEAN]
    BY <1>0, <2>1 DEF TypeOK, RemovalEffect
  <2>4. closed' \in BOOLEAN /\ pc' \in {"idle", "drain", "load", "store", "post", "close"}
    BY <1>0, <2>1 DEF TypeOK, RemovalEffect
  <2> QED BY <1>0, <1>7, <2>1, <2>2, <2>3, <2>4, <2>5, <2>6 DEF TypeOK, RemovalEffect
<1>8. CASE User
  <2>1. /\ UNCHANGED <<host, pc, registered, retries, slot, platform, made, failedOver>>
        /\ budget' \in [{"toggles", "gestures", "rejections", "failures"} -> Nat]
        /\ channel' \in Seq(Events)
        /\ touching' \in platform \cup {None}
        /\ \/ UNCHANGED tasks
           \/ \E h \in Handlers : Post("uninstall", h)
    BY <1>0, <1>8, UserDoes DEF IInv, Fresh
  <2>2. tasks' \in Seq(Task)
    BY <1>0, <2>1, PostDoes DEF TypeOK
  <2> QED BY <1>0, <2>1, <2>2 DEF TypeOK, host
<1>9. CASE UNCHANGED vars
  BY <1>0, <1>9 DEF TypeOK, vars, host, java
<1> QED BY <1>1, <1>6, <1>7, <1>8, <1>9 DEF Next, Java

-----------------------------------------------------------------------------
(* The slots.  Only tasks touch them; what is taken out of the platform is *)
(* taken out of the one slot that held it.                                 *)
LEMMA SlotStep == IInv /\ [Next]_vars => SlotIsRegistered' /\ OwnProxy'
<1> SUFFICES ASSUME IInv, [Next]_vars PROVE SlotIsRegistered' /\ OwnProxy'
  OBVIOUS
<1>0. /\ TypeOK /\ SlotIsRegistered /\ OwnProxy
      /\ slot \in [Handlers -> Proxy \cup {None}]
  BY DEF IInv, TypeOK
<1>1. CASE UNCHANGED <<slot, platform>>
  BY <1>0, <1>1 DEF SlotIsRegistered, OwnProxy
<1>2. CASE Install
  <2>1. PICK h \in Handlers, gone \in SUBSET Handlers, fails \in BOOLEAN :
          InstallEffect(h, gone, fails)
    BY <1>0, <1>2, InstallDoes
  <2> DEFINE proxy == [handler |-> h, n |-> made]
  <2>2. proxy.handler = h
    OBVIOUS
  <2>3. ASSUME NEW i \in Handlers, slot'[i] # None
        PROVE  slot'[i] \in platform' /\ slot'[i].handler = i
    <3>1. CASE i = h /\ ~ fails
      BY <2>1, <3>1 DEF InstallEffect
    <3>2. CASE ~ (i = h /\ ~ fails)
      <4>1. i \notin gone /\ slot'[i] = slot[i]
        BY <2>1, <2>3, <3>2 DEF InstallEffect
      <4>2. \A j \in gone : slot[j] # slot[i]
        BY <1>0, <2>1, <2>3, <4>1 DEF InstallEffect, OwnProxy
      <4> QED BY <1>0, <2>1, <2>3, <4>1, <4>2 DEF InstallEffect, SlotIsRegistered, OwnProxy
    <3> QED BY <3>1, <3>2
  <2> QED BY <2>3 DEF SlotIsRegistered, OwnProxy
<1>3. CASE Uninstall \/ Teardown
  <2>1. PICK h \in Handlers, done \in BOOLEAN : RemovalEffect(h, done)
    BY <1>0, <1>3, RemovalDoes
  <2>2. ASSUME NEW i \in Handlers, slot'[i] # None
        PROVE  slot'[i] \in platform' /\ slot'[i].handler = i
    <3>1. slot'[i] = slot[i] /\ (done => i # h)
      BY <1>0, <2>1, <2>2 DEF RemovalEffect
    <3>2. done /\ slot[h] # None => slot[h] # slot[i]
      BY <1>0, <2>2, <3>1 DEF OwnProxy
    <3>3. slot[i] \in platform /\ slot[i].handler = i
      BY <1>0, <2>2, <3>1 DEF SlotIsRegistered, OwnProxy
    <3> QED BY <2>1, <2>2, <3>1, <3>2, <3>3 DEF RemovalEffect
  <2> QED BY <2>2 DEF SlotIsRegistered, OwnProxy
<1>4. User => UNCHANGED <<slot, platform>>
  BY <1>0, UserDoes DEF IInv, Fresh
<1> QED BY <1>1, <1>2, <1>3, <1>4, RustKeeps DEF Next, Java, vars, java

-----------------------------------------------------------------------------
(* What Rust does to the queue of tasks: it posts for the open handler. *)
LEMMA RustPosts ==
  ASSUME TypeOK, Fresh, Rust
  PROVE  \/ UNCHANGED tasks
         \/ cur' \in Handlers /\ \E op \in {"install", "uninstall", "close"} : Post(op, cur')
<1>1. CASE \E canHandle \in BOOLEAN : Attach(canHandle)
  <2>1. PICK canHandle \in BOOLEAN : Attach(canHandle)
    BY <1>1
  <2>2. cur' \in Handlers
    BY <2>1, HandlersAreNumbers DEF Attach, TypeOK
  <2>3. UNCHANGED tasks \/ Post("install", cur')
    BY <2>1 DEF Attach
  <2> QED BY <2>2, <2>3
<1>2. CASE Toggle \/ BeginDrain \/ BeginSynchronize \/ DrainOne \/ DrainDone \/ Load \/ Store
  BY <1>2 DEF Toggle, BeginDrain, BeginSynchronize, DrainOne, DrainDone, Load, Store
<1>3. CASE PostTask \/ Close \/ Drop
  <2>1. cur' = cur /\ cur \in Handlers
    BY <1>3, HandlersAreNumbers DEF PostTask, Close, Drop, host, Fresh, TypeOK
  <2>2. UNCHANGED tasks \/ \E op \in {"install", "uninstall", "close"} : Post(op, cur)
    BY <1>3 DEF PostTask, Close, Drop
  <2> QED BY <2>1, <2>2
<1> QED BY <1>1, <1>2, <1>3 DEF Rust

(* A handler has a task queued in the next state if it had one before, or  *)
(* if one is posted for it.                                                *)
LEMMA PendingPosted ==
  ASSUME TypeOK, NEW op \in {"install", "uninstall", "close"}, NEW h \in Handlers,
         Post(op, h), NEW g
  PROVE  Pending(g)' <=> Pending(g) \/ g = h
<1>1. /\ \A i \in DOMAIN tasks : i \in DOMAIN tasks' /\ tasks'[i] = tasks[i]
      /\ DOMAIN tasks' = 1 .. Len(tasks) + 1 /\ Len(tasks) \in Nat
      /\ tasks'[Len(tasks) + 1] = [op |-> op, handler |-> h]
      /\ \A i \in DOMAIN tasks' : i \in DOMAIN tasks \/ i = Len(tasks) + 1
  BY Zenon, PostDoes
<1>2. Len(tasks) + 1 \in DOMAIN tasks' /\ tasks'[Len(tasks) + 1].handler = h
  BY <1>1
<1> QED BY <1>1, <1>2 DEF Pending

LEMMA PendingRun ==
  ASSUME TypeOK, NEW op, Running(op), tasks' = Tail(tasks), NEW g
  PROVE  /\ Pending(g)' => Pending(g)
         /\ Pending(g) /\ g # tasks[1].handler => Pending(g)'
<1>1. /\ \A i \in DOMAIN tasks' : i + 1 \in DOMAIN tasks /\ tasks'[i] = tasks[i + 1]
      /\ \A i \in DOMAIN tasks :
           i # 1 => i - 1 \in DOMAIN tasks' /\ tasks'[i - 1] = tasks[i]
  BY RunDoes
<1>2. Pending(g)' => Pending(g)
  BY <1>1 DEF Pending
<1>3. Pending(g) /\ g # tasks[1].handler => Pending(g)'
  BY <1>1 DEF Pending
<1> QED BY <1>2, <1>3

LEMMA FreshStep == IInv /\ [Next]_vars => Fresh'
<1> SUFFICES ASSUME IInv, [Next]_vars PROVE Fresh'
  OBVIOUS
<1> USE HandlersAreNumbers
<1>0. TypeOK /\ Fresh
  BY DEF IInv
<1>1. CASE Rust
  <2>0. UNCHANGED <<slot, platform, touching>>
    BY <1>1, RustKeeps
  <2>1. cur' \in Nat /\ cur \in Nat /\ cur <= cur' /\ (open' => cur' # 0) /\ (pc' # "idle" => open')
    <3>1. CASE \E canHandle \in BOOLEAN : Attach(canHandle)
      BY <1>0, <3>1 DEF Attach, HostActs, TypeOK
    <3>2. CASE ~ \E canHandle \in BOOLEAN : Attach(canHandle)
      BY <1>0, <1>1, <3>2 DEF Fresh, TypeOK, Rust, Toggle, BeginDrain, BeginSynchronize,
         DrainOne, DrainDone, Load, Store, PostTask, Close, Drop, HostActs, host
    <3> QED BY <3>1, <3>2
  <2>2. ASSUME NEW h \in Handlers, h > cur'
        PROVE  slot'[h] = None /\ ~ registered'[h] /\ retries'[h] = 0 /\ ~ Pending(h)'
    <3>0. h > cur /\ h # cur'
      BY <2>1, <2>2
    <3>1. slot'[h] = None
      BY <1>0, <2>0, <3>0 DEF Fresh
    <3>2. registered'[h] = registered[h]
      BY <1>0, <1>1, <3>0 DEF TypeOK, Rust, Attach, Toggle, BeginDrain, BeginSynchronize,
         DrainOne, DrainDone, Load, Store, PostTask, Close, Drop, host
    <3>3. retries'[h] = retries[h]
      BY <1>0, <1>1, <3>0 DEF TypeOK, Rust, Attach, Toggle, BeginDrain, BeginSynchronize,
         DrainOne, DrainDone, Load, Store, PostTask, Close, Drop, host
    <3>4. ~ Pending(h)'
      <4>1. ~ Pending(h)
        BY <1>0, <3>0 DEF Fresh
      <4>2. CASE UNCHANGED tasks
        BY <4>1, <4>2 DEF Pending
      <4>3. CASE cur' \in Handlers
                 /\ \E op \in {"install", "uninstall", "close"} : Post(op, cur')
        BY <1>0, <3>0, <4>1, <4>3, PendingPosted
      <4> QED BY <1>0, <1>1, <4>2, <4>3, RustPosts
    <3> QED BY <1>0, <3>0, <3>1, <3>2, <3>3, <3>4 DEF Fresh
  <2>3. \A p \in platform' : p.handler <= cur'
    BY <1>0, <2>0, <2>1 DEF Fresh, TypeOK, Proxy
  <2>4. touching' # None => touching'.handler <= cur'
    BY <1>0, <2>0, <2>1 DEF Fresh, TypeOK, Proxy
  <2> QED BY <2>1, <2>2, <2>3, <2>4 DEF Fresh
<1>2. CASE Install
  <2>1. PICK h \in Handlers, gone \in SUBSET Handlers, fails \in BOOLEAN :
          InstallEffect(h, gone, fails)
    BY <1>0, <1>2, InstallDoes
  <2>2. h <= cur
    <3>1. 1 \in DOMAIN tasks /\ h = tasks[1].handler
      BY <1>0, <2>1, RunDoes DEF InstallEffect
    <3>2. Pending(h)
      BY <3>1 DEF Pending
    <3>3. ~ (h > cur)
      BY <1>0, <3>2 DEF Fresh
    <3> QED BY <1>0, <3>3 DEF TypeOK
  <2>3. ASSUME NEW i \in Handlers, i > cur
        PROVE  slot'[i] = None /\ ~ registered'[i] /\ retries'[i] = 0 /\ ~ Pending(i)'
    <3>1. i # h /\ slot[i] = None /\ ~ registered[i] /\ retries[i] = 0 /\ ~ Pending(i)
      BY <1>0, <2>2, <2>3 DEF Fresh, TypeOK
    <3>2. slot'[i] = None /\ ~ registered'[i] /\ retries'[i] = 0
      BY <1>0, <2>1, <3>1 DEF InstallEffect, TypeOK
    <3>3. ~ Pending(i)'
      BY <1>0, <2>1, <3>1, PendingRun DEF InstallEffect
    <3> QED BY <3>2, <3>3
  <2>4. \A p \in platform' : p.handler <= cur
    BY <1>0, <2>1, <2>2 DEF InstallEffect, Fresh
  <2> QED BY <1>0, <2>1, <2>3, <2>4 DEF InstallEffect, Fresh, host
<1>3. CASE Uninstall \/ Teardown
  <2>1. PICK h \in Handlers, done \in BOOLEAN : RemovalEffect(h, done)
    BY <1>0, <1>3, RemovalDoes
  <2>2. h <= cur
    <3>1. 1 \in DOMAIN tasks /\ h = tasks[1].handler
      BY <1>0, <2>1, RunDoes DEF RemovalEffect
    <3>2. Pending(h)
      BY <3>1 DEF Pending
    <3>3. ~ (h > cur)
      BY <1>0, <3>2 DEF Fresh
    <3> QED BY <1>0, <3>3 DEF TypeOK
  <2>3. ASSUME NEW i \in Handlers, i > cur
        PROVE  slot'[i] = None /\ ~ registered'[i] /\ retries'[i] = 0 /\ ~ Pending(i)'
    <3>1. i # h /\ slot[i] = None /\ ~ registered[i] /\ retries[i] = 0 /\ ~ Pending(i)
      BY <1>0, <2>2, <2>3 DEF Fresh, TypeOK
    <3>2. slot'[i] = None /\ ~ registered'[i] /\ retries'[i] = 0
      BY <1>0, <2>1, <3>1 DEF RemovalEffect, TypeOK
    <3>3. ~ Pending(i)'
      BY <1>0, <2>1, <3>1, PendingRun DEF RemovalEffect
    <3> QED BY <3>2, <3>3
  <2>4. \A p \in platform' : p.handler <= cur
    BY <1>0, <2>1 DEF RemovalEffect, Fresh
  <2> QED BY <1>0, <2>1, <2>3, <2>4 DEF RemovalEffect, Fresh
<1>4. CASE User
  <2>1. /\ UNCHANGED <<host, pc, registered, retries, slot, platform>>
        /\ touching' \in platform \cup {None}
        /\ UNCHANGED tasks \/ \E h \in Handlers : h <= cur /\ Post("uninstall", h)
    BY <1>0, <1>4, UserDoes DEF Fresh
  <2>2. \A h \in Handlers : h > cur => ~ Pending(h)'
    <3>1. CASE UNCHANGED tasks
      BY <1>0, <3>1 DEF Fresh, Pending
    <3>2. CASE \E h \in Handlers : h <= cur /\ Post("uninstall", h)
      <4>1. PICK h \in Handlers : h <= cur /\ Post("uninstall", h)
        BY <3>2
      <4>2. \A g \in Handlers : Pending(g)' <=> Pending(g) \/ g = h
        BY <1>0, <4>1, PendingPosted
      <4>3. \A g \in Handlers : g > cur => g # h
        BY <1>0, <4>1 DEF TypeOK
      <4> QED BY <1>0, <4>2, <4>3 DEF Fresh
    <3> QED BY <2>1, <3>1, <3>2
  <2> QED BY <1>0, <2>1, <2>2 DEF Fresh, host
<1>5. CASE UNCHANGED vars
  BY <1>0, <1>5 DEF Fresh, Pending, vars, host, java
<1> QED BY <1>1, <1>2, <1>3, <1>4, <1>5 DEF Next, Java

-----------------------------------------------------------------------------
LEMMA ClosesStep == IInv /\ [Next]_vars => Closes'
<1> SUFFICES ASSUME IInv, [Next]_vars PROVE Closes'
  OBVIOUS
<1> USE HandlersAreNumbers
<1>0. TypeOK /\ Fresh /\ Closes
  BY DEF IInv
<1>1. CASE \E canHandle \in BOOLEAN : Attach(canHandle)
  <2>1. PICK canHandle \in BOOLEAN : Attach(canHandle)
    BY <1>1
  <2>2. pc = "idle" /\ \A i \in DOMAIN tasks : tasks[i].op # "close"
    BY <1>0, <2>1 DEF Attach, HostActs, Closes
  <2>3. \A i \in DOMAIN tasks' : tasks'[i].op # "close"
    <3>1. CASE UNCHANGED tasks
      BY <2>2, <3>1
    <3>2. CASE cur' \in Handlers /\ Post("install", cur')
      BY <1>0, <2>2, <3>2, PostedTask
    <3>3. cur' \in Handlers
      BY <1>0, <2>1 DEF Attach, TypeOK
    <3> QED BY <2>1, <3>1, <3>2, <3>3 DEF Attach
  <2> QED BY <2>3 DEF Closes
<1>2. CASE Toggle \/ BeginDrain \/ BeginSynchronize \/ DrainOne \/ DrainDone \/ Load \/ Store
  <2>1. UNCHANGED <<tasks, cur>> /\ (pc = "close" => pc' = "close")
    BY <1>0, <1>2 DEF Toggle, BeginDrain, BeginSynchronize, DrainOne, DrainDone, Load, Store,
       HostActs, host
  <2> QED BY <1>0, <2>1 DEF Closes
<1>3. CASE PostTask \/ Drop
  <2>1. pc # "close" /\ cur \in Handlers
    BY <1>0, <1>3 DEF PostTask, Drop, HostActs, Fresh, TypeOK
  <2>2. \A i \in DOMAIN tasks : tasks[i].op # "close"
    BY <1>0, <2>1 DEF Closes
  <2>3. UNCHANGED tasks \/ Post("install", cur) \/ Post("uninstall", cur)
    BY <1>3 DEF PostTask, Drop
  <2>4. \A i \in DOMAIN tasks' : tasks'[i].op # "close"
    BY <1>0, <2>1, <2>2, <2>3, PostedTask
  <2> QED BY <2>4 DEF Closes
<1>4. CASE Close
  <2>1. pc = "idle" /\ cur \in Handlers /\ Post("close", cur) /\ pc' = "close" /\ cur' = cur
    BY <1>0, <1>4 DEF Close, HostActs, Fresh, TypeOK, host
  <2>2. \A i \in DOMAIN tasks : tasks[i].op # "close"
    BY <1>0, <2>1 DEF Closes
  <2>3. /\ \A i \in DOMAIN tasks : tasks'[i] = tasks[i]
        /\ tasks'[Len(tasks) + 1] = [op |-> "close", handler |-> cur]
        /\ \A i \in DOMAIN tasks' : i \in DOMAIN tasks \/ i = Len(tasks) + 1
    BY <1>0, <2>1, PostDoes
  <2>4. \A i \in DOMAIN tasks' : tasks'[i].op = "close" => i = Len(tasks) + 1
    BY <2>2, <2>3
  <2> QED BY <2>1, <2>3, <2>4 DEF Closes
<1>5. CASE Install
  <2>1. Running("install") /\ tasks' = Tail(tasks) /\ UNCHANGED <<host, pc>>
    BY <1>5 DEF Install
  <2>2. \A i \in DOMAIN tasks' : i + 1 \in DOMAIN tasks /\ tasks'[i] = tasks[i + 1] /\ i \in Nat
    BY <1>0, <2>1, RunDoes
  <2> QED BY <1>0, <2>1, <2>2 DEF Closes, host
<1>6. CASE Uninstall
  <2>1. Running("uninstall") /\ tasks' = Tail(tasks) /\ UNCHANGED <<host, pc>>
    BY <1>6 DEF Uninstall
  <2>2. \A i \in DOMAIN tasks' : i + 1 \in DOMAIN tasks /\ tasks'[i] = tasks[i + 1] /\ i \in Nat
    BY <1>0, <2>1, RunDoes
  <2> QED BY <1>0, <2>1, <2>2 DEF Closes, host
<1>7. CASE Teardown
  <2>1. Running("close") /\ tasks' = Tail(tasks)
    BY <1>7 DEF Teardown
  <2>2. /\ 1 \in DOMAIN tasks /\ tasks[1].op = "close"
        /\ \A i \in DOMAIN tasks' : i + 1 \in DOMAIN tasks /\ tasks'[i] = tasks[i + 1] /\ i \in Nat
    BY <1>0, <2>1, RunDoes
  <2>3. \A i \in DOMAIN tasks' : i + 1 # 1
    BY <1>0, <2>1, RunDoes
  <2>4. \A i \in DOMAIN tasks' : tasks'[i].op # "close"
    BY <1>0, <2>2, <2>3 DEF Closes
  <2> QED BY <2>4 DEF Closes
<1>8. CASE User
  <2>1. /\ UNCHANGED <<host, pc>>
        /\ UNCHANGED tasks \/ \E h \in Handlers : Post("uninstall", h)
    BY <1>0, <1>8, UserDoes DEF Fresh
  <2>2. CASE UNCHANGED tasks
    BY <1>0, <2>1, <2>2 DEF Closes, host
  <2>3. CASE \E h \in Handlers : Post("uninstall", h)
    <3>1. \A i \in DOMAIN tasks' :
            (i \in DOMAIN tasks /\ tasks'[i] = tasks[i]) \/ tasks'[i].op = "uninstall"
      BY <1>0, <2>3, PostedTask
    <3> QED BY <1>0, <2>1, <3>1 DEF Closes, host
  <2> QED BY <2>1, <2>2, <2>3
<1>9. CASE UNCHANGED vars
  BY <1>0, <1>9 DEF Closes, vars, host
<1> QED BY <1>1, <1>2, <1>3, <1>4, <1>5, <1>6, <1>7, <1>8, <1>9 DEF Next, Rust, Java

-----------------------------------------------------------------------------
LEMMA InstallsFirstStep == IInv /\ [Next]_vars => InstallsFirst'
<1> SUFFICES ASSUME IInv, [Next]_vars, open' PROVE InstallsFirst'
  BY DEF InstallsFirst
<1> USE HandlersAreNumbers
<1>0. TypeOK /\ Fresh /\ InstallsFirst
  BY DEF IInv
<1>1. SUFFICES ASSUME NEW i \in DOMAIN tasks',
                      tasks'[i].op = "install", tasks'[i].handler # cur'
               PROVE  /\ slot'[cur'] = None /\ retries'[cur'] = 0
                      /\ \A j \in DOMAIN tasks' : j < i => tasks'[j].handler # cur'
  BY DEF InstallsFirst
<1>2. CASE \E canHandle \in BOOLEAN : Attach(canHandle)
  <2>1. PICK canHandle \in BOOLEAN : Attach(canHandle)
    BY <1>2
  <2>2. cur' \in Handlers /\ cur' > cur /\ slot' = slot /\ retries' = retries
    BY <1>0, <2>1 DEF Attach, TypeOK, java
  <2>3. slot[cur'] = None /\ retries[cur'] = 0 /\ ~ Pending(cur')
    BY <1>0, <2>2 DEF Fresh
  <2>4. CASE UNCHANGED tasks
    BY <2>2, <2>3, <2>4 DEF Pending
  <2>5. CASE Post("install", cur')
    <3>1. i \in DOMAIN tasks /\ i <= Len(tasks)
      BY <1>0, <1>1, <2>2, <2>5, PostedTask, PostDoes
    <3>2. ASSUME NEW j \in DOMAIN tasks', j < i PROVE tasks'[j].handler # cur'
      <4>1. j \in DOMAIN tasks /\ tasks'[j] = tasks[j]
        BY <1>0, <2>2, <2>5, <3>1, <3>2, PostedTask, PostDoes
      <4> QED BY <2>3, <4>1 DEF Pending
    <3> QED BY <2>2, <2>3, <3>2
  <2> QED BY <2>1, <2>4, <2>5 DEF Attach
<1>3. CASE Toggle \/ BeginDrain \/ BeginSynchronize \/ DrainOne \/ DrainDone \/ Load \/ Store
  <2>1. UNCHANGED <<tasks, cur, open, slot, retries>>
    BY <1>3 DEF Toggle, BeginDrain, BeginSynchronize, DrainOne, DrainDone, Load, Store,
       host, java
  <2> QED BY <1>0, <1>1, <2>1 DEF InstallsFirst
<1>4. CASE PostTask \/ Close
  <2>0. open /\ UNCHANGED <<cur, open, slot, retries>>
    BY <1>0, <1>4 DEF PostTask, Close, Fresh, host, java
  <2>1. cur \in Handlers /\ UNCHANGED <<cur, open, slot, retries>>
    BY <1>0, <2>0 DEF Fresh, TypeOK
  <2>2. PICK op \in {"install", "uninstall", "close"} : Post(op, cur)
    BY <1>4 DEF PostTask, Close
  <2>3. i \in DOMAIN tasks /\ tasks'[i] = tasks[i] /\ i <= Len(tasks)
    BY <1>0, <1>1, <2>1, <2>2, PostedTask, PostDoes
  <2>4. /\ slot[cur] = None /\ retries[cur] = 0
        /\ \A j \in DOMAIN tasks : j < i => tasks[j].handler # cur
    BY <1>0, <1>1, <2>1, <2>3 DEF InstallsFirst
  <2>5. ASSUME NEW j \in DOMAIN tasks', j < i PROVE tasks'[j].handler # cur'
    <3>1. j \in DOMAIN tasks /\ tasks'[j] = tasks[j]
      BY <1>0, <2>1, <2>2, <2>3, <2>5, PostedTask, PostDoes
    <3> QED BY <2>1, <2>4, <2>5, <3>1
  <2> QED BY <2>1, <2>4, <2>5
<1>5. CASE Drop
  BY <1>5 DEF Drop
<1>6. CASE Install \/ Uninstall \/ Teardown
  <2>1. PICK op \in {"install", "uninstall", "close"} : Running(op) /\ tasks' = Tail(tasks)
    BY <1>6 DEF Install, Uninstall, Teardown
  <2>2. cur' = cur /\ open
    BY <1>6 DEF Install, Uninstall, Teardown, host
  <2>3. i + 1 \in DOMAIN tasks /\ tasks'[i] = tasks[i + 1] /\ 1 \in DOMAIN tasks
        /\ i \in Nat /\ 1 < i + 1 /\ Head(tasks) = tasks[1]
    BY <1>0, <1>1, <2>1, RunDoes
  <2>4. /\ slot[cur] = None /\ retries[cur] = 0
        /\ \A j \in DOMAIN tasks : j < i + 1 => tasks[j].handler # cur
    BY <1>0, <1>1, <2>2, <2>3 DEF InstallsFirst
  <2>5. tasks[1].handler # cur
    BY <2>3, <2>4
  <2>6. \A j \in DOMAIN tasks' : j < i => tasks'[j].handler # cur'
    <3>1. \A j \in DOMAIN tasks' :
            j \in Nat /\ j + 1 \in DOMAIN tasks /\ tasks'[j] = tasks[j + 1]
      BY <1>0, <2>1, RunDoes
    <3> QED BY <2>2, <2>3, <2>4, <3>1
  <2>7. cur \in Handlers
    BY <1>0, <2>2 DEF Fresh, TypeOK
  <2>8. CASE Install
    <3>1. PICK h \in Handlers, gone \in SUBSET Handlers, fails \in BOOLEAN :
            InstallEffect(h, gone, fails)
      BY <1>0, <2>8, InstallDoes
    <3>2. h # cur
      BY <2>3, <2>5, <3>1 DEF InstallEffect
    <3>3. slot'[cur] = None
      BY <2>4, <2>7, <3>1, <3>2 DEF InstallEffect
    <3>4. retries'[cur] = 0
      BY <1>0, <2>4, <2>7, <3>1 DEF InstallEffect
    <3> QED BY <2>2, <2>6, <3>3, <3>4
  <2>9. CASE Uninstall \/ Teardown
    <3>1. PICK h \in Handlers, done \in BOOLEAN : RemovalEffect(h, done)
      BY <1>0, <2>9, RemovalDoes
    <3>2. h # cur
      BY <2>3, <2>5, <3>1 DEF RemovalEffect
    <3>3. slot'[cur] = None /\ retries'[cur] = 0
      BY <1>0, <2>4, <2>7, <3>1, <3>2 DEF RemovalEffect, TypeOK
    <3> QED BY <2>2, <2>6, <3>3
  <2> QED BY <1>6, <2>8, <2>9
<1>7. CASE User
  <2>1. /\ UNCHANGED <<host, retries, slot>>
        /\ UNCHANGED tasks \/ \E h \in Handlers : Post("uninstall", h)
    BY <1>0, <1>7, UserDoes DEF Fresh
  <2>2. CASE UNCHANGED tasks
    BY <1>0, <1>1, <2>1, <2>2 DEF InstallsFirst, host
  <2>3. CASE \E h \in Handlers : Post("uninstall", h)
    <3>1. PICK h \in Handlers : Post("uninstall", h)
      BY <2>3
    <3>2. i \in DOMAIN tasks /\ tasks'[i] = tasks[i] /\ i <= Len(tasks)
      BY <1>0, <1>1, <3>1, PostedTask, PostDoes
    <3>3. /\ slot[cur] = None /\ retries[cur] = 0
          /\ \A j \in DOMAIN tasks : j < i => tasks[j].handler # cur
      BY <1>0, <1>1, <2>1, <3>2 DEF InstallsFirst, host
    <3>4. ASSUME NEW j \in DOMAIN tasks', j < i PROVE tasks'[j].handler # cur'
      <4>1. j \in DOMAIN tasks /\ tasks'[j] = tasks[j]
        BY <1>0, <3>1, <3>2, <3>4, PostedTask, PostDoes
      <4> QED BY <2>1, <3>3, <3>4, <4>1 DEF host
    <3> QED BY <2>1, <3>3, <3>4 DEF host
  <2> QED BY <2>1, <2>2, <2>3
<1>8. CASE UNCHANGED vars
  BY <1>0, <1>1, <1>8 DEF InstallsFirst, vars, host, java
<1> QED BY <1>2, <1>3, <1>4, <1>5, <1>6, <1>7, <1>8 DEF Next, Rust, Java

(* Whoever takes a task of the open handler from the queue leaves flag and *)
(* slot agreed; what runs for another handler touches neither.             *)
LEMMA AgreesStep == IInv /\ [Next]_vars => AgreesSoon'
<1> SUFFICES ASSUME IInv, [Next]_vars, open', cur' \notin failedOver'
             PROVE  Agrees(cur)' \/ pc' = "post" \/ Pending(cur)'
  BY DEF AgreesSoon
<1> USE HandlersAreNumbers
<1>0. TypeOK /\ Fresh /\ InstallsFirst /\ Closes /\ AgreesSoon
  BY DEF IInv
<1>1. CASE \E canHandle \in BOOLEAN : Attach(canHandle)
  <2>1. PICK canHandle \in BOOLEAN : Attach(canHandle)
    BY <1>1
  <2>2. cur' \in Handlers /\ cur' > cur /\ slot' = slot
    BY <1>0, <2>1 DEF Attach, TypeOK, java
  <2>3. CASE canHandle
    <3>1. Post("install", cur')
      BY <2>1, <2>3 DEF Attach
    <3>2. tasks'[Len(tasks) + 1] = [op |-> "install", handler |-> cur']
          /\ Len(tasks) + 1 \in DOMAIN tasks'
      BY <1>0, <2>2, <3>1, PostDoes
    <3>3. Pending(cur)'
      BY <3>2 DEF Pending
    <3> QED BY <3>3
  <2>4. CASE ~ canHandle
    <3>1. registered' = registered
      BY <2>1, <2>4 DEF Attach
    <3> QED BY <1>0, <2>2, <3>1 DEF Agrees, Fresh
  <2> QED BY <2>3, <2>4
<1>2. CASE /\ Toggle \/ BeginDrain \/ BeginSynchronize \/ DrainOne \/ DrainDone \/ Load
           /\ UNCHANGED failedOver
  <2>1. pc # "post" /\ UNCHANGED <<tasks, cur, open, slot, registered>>
    BY <1>2 DEF Toggle, BeginDrain, BeginSynchronize, DrainOne, DrainDone, Load, HostActs,
       host, java
  <2> QED BY <1>0, <1>2, <2>1 DEF AgreesSoon, Agrees, Pending
<1>3. CASE Store
  BY <1>3 DEF Store
<1>4. CASE PostTask \/ Close
  <2>0. open /\ cur' = cur
    BY <1>0, <1>4 DEF PostTask, Close, Fresh, host
  <2>1. cur \in Handlers /\ cur' = cur
    BY <1>0, <2>0 DEF Fresh, TypeOK
  <2>2. PICK op \in {"install", "uninstall", "close"} : Post(op, cur)
    BY <1>4 DEF PostTask, Close
  <2>3. tasks'[Len(tasks) + 1] = [op |-> op, handler |-> cur]
        /\ Len(tasks) + 1 \in DOMAIN tasks'
    BY <1>0, <2>1, <2>2, PostDoes
  <2>4. Pending(cur)'
    BY <2>1, <2>3 DEF Pending
  <2> QED BY <2>4
<1>5. CASE Drop
  BY <1>5 DEF Drop
<1>6. CASE Install
  <2>1. PICK h \in Handlers, gone \in SUBSET Handlers, fails \in BOOLEAN :
          InstallEffect(h, gone, fails)
    BY <1>0, <1>6, InstallDoes
  <2>2. /\ UNCHANGED <<cur, open, pc>> /\ cur \notin failedOver /\ open
        /\ Running("install") /\ tasks' = Tail(tasks)
    BY <2>1 DEF InstallEffect, host
  <2>3. 1 \in DOMAIN tasks /\ tasks[1].op = "install" /\ h = tasks[1].handler
    BY <1>0, <2>1, <2>2, RunDoes DEF InstallEffect
  <2>4. cur \in Handlers
    BY <1>0, <2>2 DEF Fresh, TypeOK
  <2>5. CASE h = cur
    <3>1. CASE ~ fails
      <4>1. [handler |-> h, n |-> made] # None
        BY <1>0, NoneAssumption DEF TypeOK, Proxy
      <4>2. slot'[cur] # None /\ registered'[cur]
        BY <1>0, <2>1, <2>4, <2>5, <3>1, <4>1 DEF InstallEffect, TypeOK
      <4> QED BY <2>2, <4>2 DEF Agrees
    <3>2. CASE fails
      <4>1. cur \in gone \/ slot[cur] = None
        BY <2>1, <2>2, <2>5, <3>2 DEF InstallEffect
      <4>2. slot'[cur] = None /\ ~ registered'[cur]
        BY <1>0, <2>1, <2>4, <2>5, <3>2, <4>1 DEF InstallEffect, TypeOK
      <4> QED BY <2>2, <4>2 DEF Agrees
    <3> QED BY <3>1, <3>2
  <2>6. CASE h # cur
    <3>1. slot[cur] = None
      BY <1>0, <2>2, <2>3, <2>6 DEF InstallsFirst
    <3>2. slot'[cur] = None /\ registered'[cur] = registered[cur]
      BY <1>0, <2>1, <2>4, <2>6, <3>1 DEF InstallEffect, TypeOK
    <3>3. Pending(cur) => Pending(cur)'
      BY <1>0, <2>2, <2>3, <2>6, PendingRun
    <3>4. Agrees(cur) => Agrees(cur)'
      BY <2>2, <3>1, <3>2 DEF Agrees
    <3>5. Agrees(cur) \/ pc = "post" \/ Pending(cur)
      BY <1>0, <2>2 DEF AgreesSoon
    <3> QED BY <2>2, <3>3, <3>4, <3>5
  <2> QED BY <2>5, <2>6
<1>7. CASE (Uninstall \/ Teardown) /\ UNCHANGED failedOver
  <2>1. PICK h \in Handlers, done \in BOOLEAN : RemovalEffect(h, done)
    BY <1>0, <1>7, RemovalDoes
  <2>2. UNCHANGED <<cur, open>> /\ cur \notin failedOver /\ open /\ tasks' = Tail(tasks)
    BY <1>7, <2>1 DEF RemovalEffect
  <2>3. PICK op \in {"uninstall", "close"} : Running(op)
    BY <2>1 DEF RemovalEffect
  <2>4. 1 \in DOMAIN tasks /\ h = tasks[1].handler /\ tasks[1].op = op
    BY <1>0, <2>1, <2>2, <2>3, RunDoes DEF RemovalEffect
  <2>5. cur \in Handlers
    BY <1>0, <2>2 DEF Fresh, TypeOK
  <2>6. CASE h = cur
    <3>1. slot'[cur] # None <=> registered'[cur]
      BY <1>0, <2>1, <2>5, <2>6 DEF RemovalEffect, TypeOK
    <3> QED BY <2>2, <3>1 DEF Agrees
  <2>7. CASE h # cur
    <3>1. slot'[cur] = slot[cur] /\ registered'[cur] = registered[cur]
      BY <1>0, <2>1, <2>5, <2>7 DEF RemovalEffect, TypeOK
    <3>2. Pending(cur) => Pending(cur)'
      BY <1>0, <2>2, <2>3, <2>4, <2>7, PendingRun
    <3>3. Agrees(cur) => Agrees(cur)'
      BY <2>2, <3>1 DEF Agrees
    <3>4. pc = "post" => pc' = "post"
      BY <1>0, <2>1, <2>4 DEF RemovalEffect, Closes, Running
    <3>5. Agrees(cur) \/ pc = "post" \/ Pending(cur)
      BY <1>0, <2>2 DEF AgreesSoon
    <3> QED BY <3>2, <3>3, <3>4, <3>5
  <2> QED BY <2>6, <2>7
<1>8. CASE User
  <2>1. /\ UNCHANGED <<host, pc, registered, slot, failedOver>>
        /\ UNCHANGED tasks \/ \E h \in Handlers : Post("uninstall", h)
    BY <1>0, <1>8, UserDoes DEF Fresh
  <2>2. Pending(cur) => Pending(cur)'
    <3>1. CASE UNCHANGED tasks
      BY <2>1, <3>1 DEF Pending, host
    <3>2. CASE \E h \in Handlers : Post("uninstall", h)
      <4>1. \A i \in DOMAIN tasks : i \in DOMAIN tasks' /\ tasks'[i] = tasks[i]
        BY <1>0, <3>2, PostDoes
      <4> QED BY <2>1, <4>1 DEF Pending, host
    <3> QED BY <2>1, <3>1, <3>2
  <2> QED BY <1>0, <2>1, <2>2 DEF AgreesSoon, Agrees, host
<1>9. CASE UNCHANGED vars
  BY <1>0, <1>9 DEF AgreesSoon, Agrees, Pending, vars, host, java
<1> QED BY <1>1, <1>2, <1>3, <1>4, <1>5, <1>6, <1>7, <1>8, <1>9 DEF Next, Rust, Java

-----------------------------------------------------------------------------
(* With a patient host: what is queued for the open handler is one task,   *)
(* and an install only for an empty slot.                                  *)
LEMMA OneRequestStep == IInv /\ [Next]_vars /\ patient => OneRequest'
<1> SUFFICES ASSUME IInv, [Next]_vars, patient PROVE OneRequest'
  OBVIOUS
<1> USE HandlersAreNumbers
<1>0. TypeOK /\ Fresh /\ Closes /\ AgreesSoon /\ OneRequest /\ failedOver = {}
  BY DEF IInv, PatientInv
<1>a. HostActs => tasks = <<>> /\ pc = "idle"
  BY DEF HostActs
<1>b. tasks = <<>> => DOMAIN tasks = {} /\ Len(tasks) = 0
  OBVIOUS
<1>1. CASE \E canHandle \in BOOLEAN : Attach(canHandle)
  <2>1. PICK canHandle \in BOOLEAN : Attach(canHandle)
    BY <1>1
  <2>2. cur' \in Handlers /\ cur' > cur /\ slot' = slot
    BY <1>0, <2>1 DEF Attach, TypeOK, java
  <2>3. slot'[cur'] = None /\ ~ closed' /\ open' /\ pc' = "idle" /\ DOMAIN tasks = {}
        /\ (enabled' <=> canHandle)
    BY <1>0, <1>a, <1>b, <2>1, <2>2 DEF Attach, Fresh
  <2>4. CASE canHandle
    <3>1. registered'[cur'] /\ Post("install", cur')
      BY <1>0, <2>1, <2>2, <2>4 DEF Attach, TypeOK
    <3>2. \A i \in DOMAIN tasks' : i = Len(tasks) + 1 /\ tasks'[i].handler = cur'
      BY <1>0, <2>2, <2>3, <3>1, PostedTask
    <3> QED BY <2>3, <2>4, <3>1, <3>2 DEF OneRequest
  <2>5. CASE ~ canHandle
    <3>1. tasks' = tasks
      BY <2>1, <2>5 DEF Attach
    <3> QED BY <2>3, <3>1 DEF OneRequest, Pending
  <2> QED BY <2>4, <2>5
<1>2. CASE Toggle
  <2>1. UNCHANGED <<cur, open, closed, pc, registered, tasks, slot>>
    BY <1>2 DEF Toggle, java
  <2>2. DOMAIN tasks = {} /\ pc \notin {"store", "post"}
    BY <1>2, <1>a, <1>b DEF Toggle
  <2> QED BY <1>0, <2>1, <2>2 DEF OneRequest, Pending
<1>3. CASE BeginDrain \/ BeginSynchronize \/ DrainOne \/ DrainDone
  <2>1. /\ UNCHANGED <<cur, open, closed, enabled, registered, tasks, slot>>
        /\ pc # "close" /\ pc' \in {"drain", "load"}
    BY <1>3, <1>a DEF BeginDrain, BeginSynchronize, DrainOne, DrainDone, host, java
  <2> QED BY <1>0, <2>1 DEF OneRequest, Pending
<1>4. CASE Load
  <2>1. UNCHANGED <<cur, open, closed, enabled, registered, tasks, slot>> /\ pc = "load"
    BY <1>4 DEF Load, host, java
  <2>2. CASE pc' = "idle"
    BY <1>0, <2>1, <2>2 DEF OneRequest, Pending
  <2>3. CASE pc' # "idle"
    <3>1. pc' = "store" /\ ~ closed /\ registered[cur] # enabled
      BY <1>4, <2>3 DEF Load
    <3>2. open /\ cur \in Handlers
      BY <1>0, <2>1 DEF Fresh, TypeOK
    <3>3. registered[cur] \in BOOLEAN /\ enabled \in BOOLEAN
      BY <1>0, <3>2 DEF TypeOK
    <3>4. ~ (registered[cur] <=> enabled)
      BY <3>1, <3>3
    <3>5. ~ Pending(cur)
      BY <1>0, <2>1, <3>2, <3>4 DEF OneRequest
    <3>6. registered[cur] <=> slot[cur] # None
      BY <1>0, <2>1, <3>2, <3>5 DEF AgreesSoon, Agrees
    <3>7. enabled => slot[cur] = None
      BY <3>4, <3>6
    <3> QED BY <1>0, <2>1, <3>1, <3>5, <3>7 DEF OneRequest, Pending
  <2> QED BY <2>2, <2>3
<1>5. CASE Store
  <2>1. UNCHANGED <<cur, open, closed, enabled, tasks, slot>> /\ pc = "store" /\ pc' = "post"
    BY <1>5 DEF Store, host, java
  <2>2. open /\ cur \in Handlers
    BY <1>0, <2>1 DEF Fresh, TypeOK
  <2>3. registered'[cur] = enabled
    BY <1>0, <1>5, <2>2 DEF Store, TypeOK
  <2>4. ~ Pending(cur)
    BY <1>0, <2>1, <2>2 DEF OneRequest
  <2> QED BY <1>0, <2>1, <2>3, <2>4 DEF OneRequest, Pending
<1>6. CASE PostTask
  <2>1. UNCHANGED <<cur, open, closed, enabled, registered, slot>> /\ pc = "post" /\ pc' = "idle"
    BY <1>6 DEF PostTask, host, java
  <2>2. open /\ cur \in Handlers
    BY <1>0, <2>1 DEF Fresh, TypeOK
  <2>3. ~ Pending(cur) /\ ~ closed /\ (enabled => slot[cur] = None)
        /\ (registered[cur] <=> enabled)
    BY <1>0, <2>1, <2>2 DEF OneRequest
  <2>4. PICK op \in {"install", "uninstall"} : Post(op, cur) /\ (op = "install" => enabled)
    BY <1>6 DEF PostTask
  <2>5. \A i \in DOMAIN tasks' :
          \/ i \in DOMAIN tasks /\ tasks'[i] = tasks[i]
          \/ i = Len(tasks) + 1 /\ tasks'[i].op = op /\ tasks'[i].handler = cur
    BY <1>0, <2>2, <2>4, PostedTask
  <2>6. \A i, j \in DOMAIN tasks' :
          tasks'[i].handler = cur /\ tasks'[j].handler = cur => i = j
    BY <2>3, <2>5 DEF Pending
  <2>7. \A i \in DOMAIN tasks' : tasks'[i].op = "install" =>
          open /\ tasks'[i].handler = cur /\ enabled /\ slot[cur] = None /\ ~ closed
    BY <1>0, <2>2, <2>3, <2>4, <2>5 DEF OneRequest
  <2> QED BY <1>0, <2>1, <2>3, <2>6, <2>7 DEF OneRequest
<1>7. CASE Close
  <2>1. /\ UNCHANGED <<cur, open, closed, enabled, registered, slot>>
        /\ pc' = "close" /\ DOMAIN tasks = {} /\ open /\ Post("close", cur)
    BY <1>7, <1>a, <1>b DEF Close, host, java
  <2>2. cur \in Handlers
    BY <1>0, <2>1 DEF Fresh, TypeOK
  <2>3. \A i \in DOMAIN tasks' : i = Len(tasks) + 1 /\ tasks'[i].op = "close"
    BY <1>0, <2>1, <2>2, PostedTask
  <2> QED BY <1>0, <2>1, <2>3 DEF OneRequest
<1>8. CASE Drop
  <2>1. /\ UNCHANGED <<cur, closed, enabled, registered, slot, pc>>
        /\ pc = "idle" /\ DOMAIN tasks = {} /\ open /\ ~ open'
        /\ (UNCHANGED tasks \/ Post("uninstall", cur))
    BY <1>8, <1>a, <1>b DEF Drop, java
  <2>2. cur \in Handlers
    BY <1>0, <2>1 DEF Fresh, TypeOK
  <2>3. \A i \in DOMAIN tasks' : tasks'[i].op = "uninstall"
    BY <1>0, <2>1, <2>2, PostedTask
  <2> QED BY <1>0, <2>1, <2>3 DEF OneRequest
<1>9. CASE Install
  <2>1. Running("install") /\ tasks' = Tail(tasks) /\ UNCHANGED <<host, pc>>
    BY <1>9 DEF Install
  <2>2. /\ 1 \in DOMAIN tasks /\ tasks[1].op = "install"
        /\ \A i \in DOMAIN tasks' :
             i \in Nat /\ i + 1 \in DOMAIN tasks /\ i + 1 # 1 /\ tasks'[i] = tasks[i + 1]
    BY <1>0, <2>1, RunDoes
  <2>3. open /\ tasks[1].handler = cur /\ ~ closed /\ pc # "close"
    BY <1>0, <2>2 DEF OneRequest
  <2>4. \A i \in DOMAIN tasks' : tasks'[i].handler # cur
    BY <1>0, <2>2, <2>3 DEF OneRequest
  <2>5. \A i \in DOMAIN tasks' : tasks'[i].op # "install"
    BY <1>0, <2>2, <2>4 DEF OneRequest
  <2>6. pc \notin {"store", "post"}
    BY <1>0, <2>2, <2>3 DEF OneRequest, Pending
  <2> QED BY <2>1, <2>3, <2>4, <2>5, <2>6 DEF OneRequest, Pending, host
<1>10. CASE Uninstall \/ Teardown
  <2>1. PICK h \in Handlers, done \in BOOLEAN : RemovalEffect(h, done)
    BY <1>0, <1>10, RemovalDoes
  <2>2. PICK op \in {"uninstall", "close"} : Running(op) /\ tasks' = Tail(tasks)
    BY <2>1 DEF RemovalEffect
  <2>3. /\ 1 \in DOMAIN tasks /\ tasks[1].op = op /\ h = tasks[1].handler
        /\ \A i \in DOMAIN tasks' :
             i \in Nat /\ i + 1 \in DOMAIN tasks /\ i + 1 # 1 /\ tasks'[i] = tasks[i + 1]
    BY <1>0, <2>1, <2>2, RunDoes DEF RemovalEffect
  <2>4. UNCHANGED <<cur, open, enabled>>
    BY <2>1 DEF RemovalEffect
  <2>5. slot[cur] = None => slot'[cur] = None
    BY <1>0, <2>1 DEF RemovalEffect, TypeOK
  <2>6. \A i, j \in DOMAIN tasks' : i + 1 = j + 1 => i = j
    BY <2>3
  <2>7. open => \A i, j \in DOMAIN tasks' :
          tasks'[i].handler = cur /\ tasks'[j].handler = cur => i = j
    BY <1>0, <2>3, <2>6 DEF OneRequest
  <2>8. open /\ Pending(cur)' => Pending(cur) /\ h # cur
    BY <1>0, <2>3, <2>4 DEF OneRequest, Pending
  <2>9. h # cur => registered'[cur] = registered[cur]
    BY <1>0, <2>1 DEF RemovalEffect, TypeOK
  <2>10. CASE Running("uninstall") /\ UNCHANGED <<closed, pc>>
    <3>1. open /\ Pending(cur)' /\ pc # "close" =>
            (registered'[cur] <=> enabled) /\ pc \notin {"store", "post"}
      BY <1>0, <2>8, <2>9 DEF OneRequest
    <3>2. \A i \in DOMAIN tasks' : tasks'[i].op = "install" =>
            /\ open /\ tasks'[i].handler = cur /\ enabled /\ slot'[cur] = None
            /\ ~ closed /\ pc # "close"
      BY <1>0, <2>3, <2>5 DEF OneRequest
    <3>3. pc \in {"store", "post"} => ~ closed /\ (enabled => slot'[cur] = None)
      BY <1>0, <2>5 DEF OneRequest
    <3>4. pc = "post" => (registered'[cur] <=> enabled)
      <4>1. pc = "post" => open /\ h # cur
        BY <1>0, <2>3 DEF Fresh, OneRequest, Pending
      <4> QED BY <1>0, <2>9, <4>1 DEF OneRequest
    <3>5. closed => slot'[cur] = None
      BY <1>0, <2>5 DEF OneRequest
    <3> QED BY <2>4, <2>7, <2>10, <3>1, <3>2, <3>3, <3>4, <3>5 DEF OneRequest
  <2>11. CASE Running("close") /\ pc' = "idle" /\ closed' = (closed \/ ~ registered'[cur])
    <3>1. tasks[1].op = "close"
      BY <1>0, <2>2, <2>11, RunDoes
    <3>2. pc = "close" /\ h = cur /\ open
      BY <1>0, <2>3, <3>1 DEF Closes, Fresh
    <3>3. ~ Pending(cur)'
      BY <2>8, <3>2
    <3>4. \A i \in DOMAIN tasks' : tasks'[i].op # "install"
      BY <1>0, <2>3, <3>2 DEF OneRequest
    <3>5. closed' => slot'[cur] = None
      <4>1. ~ registered'[cur] => slot'[cur] = None
        BY <1>0, <2>1, <3>2 DEF RemovalEffect, TypeOK
      <4> QED BY <1>0, <2>5, <2>11, <4>1 DEF OneRequest
    <3> QED BY <2>4, <2>7, <2>11, <3>3, <3>4, <3>5 DEF OneRequest
  <2> QED BY <2>1, <2>10, <2>11 DEF RemovalEffect
<1>11. CASE User
  <2>1. /\ UNCHANGED <<host, pc, registered, slot>>
        /\ UNCHANGED tasks \/ \E h \in Handlers : ~ (open /\ h = cur) /\ Post("uninstall", h)
    BY <1>0, <1>11, UserDoes DEF Fresh
  <2>2. CASE UNCHANGED tasks
    BY <1>0, <2>1, <2>2 DEF OneRequest, Pending, host
  <2>3. CASE \E h \in Handlers : ~ (open /\ h = cur) /\ Post("uninstall", h)
    <3>1. PICK h \in Handlers : ~ (open /\ h = cur) /\ Post("uninstall", h)
      BY <2>3
    <3>2. \A i \in DOMAIN tasks' :
            \/ i \in DOMAIN tasks /\ tasks'[i] = tasks[i]
            \/ tasks'[i].op = "uninstall" /\ tasks'[i].handler = h
      BY <1>0, <3>1, PostedTask
    <3>3. open /\ Pending(cur)' => Pending(cur)
      BY <2>1, <3>1, <3>2 DEF Pending, host
    <3> QED BY <1>0, <2>1, <3>1, <3>2, <3>3 DEF OneRequest, host
  <2> QED BY <2>1, <2>2, <2>3
<1>12. CASE UNCHANGED vars
  BY <1>0, <1>12 DEF OneRequest, Pending, vars, host, java
<1> QED BY <1>1, <1>2, <1>3, <1>4, <1>5, <1>6, <1>7, <1>8, <1>9, <1>10, <1>11, <1>12
        DEF Next, Rust, Java

-----------------------------------------------------------------------------
(* With a patient host: an install finds its slot empty, so none is lost.  *)
LEMMA OwnedStep ==
  IInv /\ [Next]_vars /\ patient => OwnedUntilUnregistered' /\ failedOver' = {}
<1> SUFFICES ASSUME IInv, [Next]_vars, patient
             PROVE  OwnedUntilUnregistered' /\ failedOver' = {}
  OBVIOUS
<1>0. /\ TypeOK /\ Fresh /\ OwnProxy /\ SlotIsRegistered /\ OneRequest
      /\ failedOver = {} /\ OwnedUntilUnregistered
      /\ \A p \in platform : p.handler \in Handlers
  BY DEF IInv, PatientInv, TypeOK, Proxy
<1>1. CASE UNCHANGED <<slot, platform, failedOver>>
  BY <1>0, <1>1 DEF OwnedUntilUnregistered
<1>2. CASE Install
  <2>1. PICK h \in Handlers, gone \in SUBSET Handlers, fails \in BOOLEAN :
          InstallEffect(h, gone, fails)
    BY <1>0, <1>2, InstallDoes
  <2>2. 1 \in DOMAIN tasks /\ tasks[1].op = "install" /\ h = tasks[1].handler
    BY <1>0, <2>1, RunDoes DEF InstallEffect
  <2>3. h = cur /\ slot[h] = None
    BY <1>0, <2>2 DEF OneRequest
  <2>4. failedOver' = {}
    BY <1>0, <2>1, <2>3 DEF InstallEffect
  <2> DEFINE proxy == [handler |-> h, n |-> made]
  <2>5. ASSUME NEW p \in platform' PROVE slot'[p.handler] = p
    <3>1. CASE ~ fails /\ p = proxy
      <4>1. p.handler = h
        BY <3>1
      <4> QED BY <2>1, <3>1, <4>1 DEF InstallEffect
    <3>2. CASE p \in platform \ {slot[i] : i \in gone}
      <4>1. slot[p.handler] = p /\ p.handler \in Handlers /\ p.handler \notin gone
        BY <1>0, <3>2 DEF OwnedUntilUnregistered
      <4>2. p # None
        BY <1>0, <3>2, NoneAssumption DEF TypeOK
      <4>3. p.handler # h
        BY <2>3, <4>1, <4>2
      <4> QED BY <2>1, <4>1, <4>3 DEF InstallEffect
    <3> QED BY <2>1, <2>5, <3>1, <3>2 DEF InstallEffect
  <2> QED BY <2>4, <2>5 DEF OwnedUntilUnregistered
<1>3. CASE (Uninstall \/ Teardown) /\ UNCHANGED failedOver
  <2>1. PICK h \in Handlers, done \in BOOLEAN : RemovalEffect(h, done)
    BY <1>0, <1>3, RemovalDoes
  <2>2. ASSUME NEW p \in platform' PROVE slot'[p.handler] = p
    <3>1. p \in platform /\ slot[p.handler] = p /\ p.handler \in Handlers
      BY <1>0, <2>1, <2>2 DEF RemovalEffect, OwnedUntilUnregistered
    <3>2. done => p.handler # h
      BY <2>1, <2>2, <3>1 DEF RemovalEffect
    <3> QED BY <1>0, <2>1, <3>1, <3>2 DEF RemovalEffect, TypeOK
  <2> QED BY <1>0, <1>3, <2>2 DEF OwnedUntilUnregistered
<1>4. User => UNCHANGED <<slot, platform, failedOver>>
  BY <1>0, UserDoes DEF Fresh
<1> QED BY <1>1, <1>2, <1>3, <1>4, RustKeeps DEF Next, Java, vars, java

(* With a patient host: what is left with Android has someone to take it   *)
(* away, the open handler, the list of retries or an uninstall queued.     *)
LEMMA AccountedStep == IInv /\ [Next]_vars /\ patient => Accounted'
<1> SUFFICES ASSUME IInv, [Next]_vars, patient, NEW p \in platform'
             PROVE  \/ open' /\ p.handler = cur'
                    \/ retries'[p.handler] > 0
                    \/ Leaving(p.handler)'
  BY DEF Accounted
<1> USE HandlersAreNumbers
<1>0. /\ TypeOK /\ Fresh /\ Closes /\ OwnProxy /\ SlotIsRegistered /\ OneRequest
      /\ OwnedUntilUnregistered /\ Accounted
      /\ retries \in [Handlers -> Nat]
  BY DEF IInv, PatientInv, TypeOK
<1>a. p \in platform => /\ p.handler \in Handlers /\ p # None /\ slot[p.handler] = p
                        /\ \/ open /\ p.handler = cur
                           \/ retries[p.handler] > 0
                           \/ Leaving(p.handler)
  BY <1>0, NoneAssumption DEF TypeOK, Proxy, OwnedUntilUnregistered, Accounted
<1>b. \A g : \A op \in {"install", "uninstall", "close"}, h \in Handlers :
        Post(op, h) => /\ Leaving(g) => Leaving(g)'
                       /\ op = "uninstall" => Leaving(h)'
  <2> SUFFICES ASSUME NEW g, NEW op \in {"install", "uninstall", "close"},
                      NEW h \in Handlers, Post(op, h)
               PROVE  (Leaving(g) => Leaving(g)') /\ (op = "uninstall" => Leaving(h)')
    OBVIOUS
  <2>1. /\ \A i \in DOMAIN tasks : i \in DOMAIN tasks' /\ tasks'[i] = tasks[i]
        /\ Len(tasks) + 1 \in DOMAIN tasks'
        /\ tasks'[Len(tasks) + 1] = [op |-> op, handler |-> h]
    BY <1>0, PostDoes
  <2> QED BY <2>1 DEF Leaving
<1>c. UNCHANGED tasks => \A g : Leaving(g) => Leaving(g)'
  BY DEF Leaving
<1>1. CASE \E canHandle \in BOOLEAN : Attach(canHandle)
  <2>1. PICK canHandle \in BOOLEAN : Attach(canHandle)
    BY <1>1
  <2>2. p \in platform /\ ~ open /\ retries' = retries /\ cur' \in Handlers
    BY <1>0, <2>1 DEF Attach, TypeOK, java
  <2>3. UNCHANGED tasks \/ Post("install", cur')
    BY <2>1 DEF Attach
  <2> QED BY <1>a, <1>b, <1>c, <2>2, <2>3
<1>2. CASE Toggle \/ BeginDrain \/ BeginSynchronize \/ DrainOne \/ DrainDone \/ Load \/ Store
  <2>1. p \in platform /\ UNCHANGED <<cur, open, retries, tasks>>
    BY <1>2 DEF Toggle, BeginDrain, BeginSynchronize, DrainOne, DrainDone, Load, Store,
       host, java
  <2> QED BY <1>a, <1>c, <2>1
<1>3. CASE PostTask \/ Close
  <2>1. p \in platform /\ UNCHANGED <<cur, open, retries>> /\ open
    BY <1>0, <1>3 DEF PostTask, Close, Fresh, host, java
  <2>2. cur \in Handlers
    BY <1>0, <2>1 DEF Fresh, TypeOK
  <2>3. \E op \in {"install", "uninstall", "close"} : Post(op, cur)
    BY <1>3 DEF PostTask, Close
  <2> QED BY <1>a, <1>b, <2>1, <2>2, <2>3
<1>4. CASE Drop
  <2>1. p \in platform /\ open /\ cur \in Handlers
    BY <1>0, <1>4 DEF Drop, Fresh, TypeOK, java
  <2>2. CASE closed
    <3>1. p.handler # cur /\ UNCHANGED <<retries, tasks>>
      BY <1>0, <1>4, <1>a, <2>1, <2>2 DEF Drop, OneRequest
    <3> QED BY <1>a, <1>c, <2>1, <3>1
  <2>3. CASE ~ closed /\ ~ gesture
    <3>1. Post("uninstall", cur) /\ UNCHANGED retries
      BY <1>4, <2>3 DEF Drop
    <3> QED BY <1>a, <1>b, <2>1, <3>1
  <2>4. CASE ~ closed /\ gesture
    <3>1. retries' = [retries EXCEPT ![cur] = @ + 1] /\ UNCHANGED tasks
      BY <1>4, <2>4 DEF Drop
    <3>2. retries'[p.handler] >= retries[p.handler] /\ retries'[cur] > 0
          /\ retries[p.handler] \in Nat /\ retries'[p.handler] \in Nat
      BY <1>0, <1>a, <2>1, <3>1
    <3> QED BY <1>a, <1>c, <2>1, <3>1, <3>2
  <2> QED BY <1>0, <2>2, <2>3, <2>4
<1>5. ASSUME NEW op \in {"install", "uninstall", "close"}, Running(op), tasks' = Tail(tasks),
             NEW g, Leaving(g)
      PROVE  Leaving(g)' \/ (op = "uninstall" /\ g = Head(tasks).handler)
  <2>1. /\ Head(tasks) = tasks[1] /\ tasks[1].op = op
        /\ \A i \in DOMAIN tasks :
             i # 1 => i - 1 \in DOMAIN tasks' /\ tasks'[i - 1] = tasks[i]
    BY <1>0, <1>5, RunDoes
  <2> QED BY <1>5, <2>1 DEF Leaving
<1>6. CASE Install
  <2>1. PICK h \in Handlers, gone \in SUBSET Handlers, fails \in BOOLEAN :
          InstallEffect(h, gone, fails)
    BY <1>0, <1>6, InstallDoes
  <2>2. 1 \in DOMAIN tasks /\ tasks[1].op = "install" /\ h = tasks[1].handler
        /\ Running("install") /\ tasks' = Tail(tasks)
    BY <1>0, <2>1, RunDoes DEF InstallEffect
  <2>3. open /\ h = cur /\ UNCHANGED <<cur, open>>
    BY <1>0, <2>1, <2>2 DEF OneRequest, InstallEffect, host
  <2>4. CASE p = [handler |-> h, n |-> made]
    BY <2>3, <2>4
  <2>5. CASE p \in platform \ {slot[i] : i \in gone}
    <3>1. p.handler \notin gone /\ slot[p.handler] # None /\ p.handler \in Handlers
      BY <1>a, <2>5
    <3>2. retries'[p.handler] = retries[p.handler]
      BY <2>1, <3>1 DEF InstallEffect
    <3>3. Leaving(p.handler) => Leaving(p.handler)'
      BY <1>5, <2>2
    <3> QED BY <1>a, <2>3, <2>5, <3>2, <3>3
  <2> QED BY <2>1, <2>4, <2>5 DEF InstallEffect
<1>7. CASE Uninstall \/ Teardown
  <2>1. PICK h \in Handlers, done \in BOOLEAN : RemovalEffect(h, done)
    BY <1>0, <1>7, RemovalDoes
  <2>2. PICK op \in {"uninstall", "close"} : Running(op) /\ tasks' = Tail(tasks)
    BY <2>1 DEF RemovalEffect
  <2>3. h = Head(tasks).handler /\ UNCHANGED <<cur, open>> /\ p \in platform
    BY <2>1 DEF RemovalEffect
  <2>4. done => p.handler # h
    BY <1>a, <2>1, <2>3 DEF RemovalEffect
  <2>5. CASE p.handler = h
    <3>1. retries'[h] > 0
      BY <1>0, <2>1, <2>4, <2>5 DEF RemovalEffect
    <3> QED BY <2>5, <3>1
  <2>6. CASE p.handler # h
    <3>1. retries'[p.handler] = retries[p.handler]
      BY <1>0, <1>a, <2>1, <2>3, <2>6 DEF RemovalEffect
    <3>2. Leaving(p.handler) => Leaving(p.handler)'
      BY <1>5, <2>2, <2>3, <2>6
    <3> QED BY <1>a, <2>3, <3>1, <3>2
  <2> QED BY <2>5, <2>6
<1>8. CASE User
  <2>1. /\ UNCHANGED <<host, retries, platform>>
        /\ UNCHANGED tasks \/ \E h \in Handlers : Post("uninstall", h)
    BY <1>0, <1>8, UserDoes DEF Fresh
  <2> QED BY <1>a, <1>b, <1>c, <2>1 DEF host
<1>9. CASE UNCHANGED vars
  BY <1>9, <1>a, <1>c DEF vars, host, java
<1> QED BY <1>1, <1>2, <1>3, <1>4, <1>6, <1>7, <1>8, <1>9 DEF Next, Rust, Java

-----------------------------------------------------------------------------
LEMMA IInvStep == IInv /\ [Next]_vars => IInv'
<1> SUFFICES ASSUME IInv, [Next]_vars PROVE IInv'
  OBVIOUS
<1>1. TypeOK' /\ SlotIsRegistered' /\ OwnProxy' /\ Fresh'
  BY TypeStep, SlotStep, FreshStep
<1>2. InstallsFirst' /\ Closes' /\ AgreesSoon'
  BY InstallsFirstStep, ClosesStep, AgreesStep
<1>3. patient' = patient
  BY DEF Next, vars
<1>4. PatientInv'
  BY <1>3, OneRequestStep, OwnedStep, AccountedStep DEF PatientInv
<1> QED BY <1>1, <1>2, <1>4 DEF IInv

(* The inductive invariant holds in every state of every behavior. *)
THEOREM AndroidInvariant == Spec => []IInv
<1>1. IInv /\ [Next]_vars => IInv'
  BY IInvStep
<1> QED BY <1>1, InitHolds, PTL DEF Spec

(* The types hold for every number of handlers and every bound. *)
THEOREM AndroidTyped == Spec => []TypeOK
<1>1. IInv => TypeOK
  BY DEF IInv
<1> QED BY <1>1, AndroidInvariant, PTL

(* Whatever the two threads and the user do, in any order, and whichever   *)
(* calls Android rejects, a proxy is not unregistered twice: a slot is     *)
(* taken only as long as Android has its proxy.  (platform.rs 215-225,     *)
(* 554-562, 606-625)                                                       *)
THEOREM NothingUnregisteredTwice == Spec => []SlotIsRegistered
<1>1. IInv => SlotIsRegistered
  BY DEF IInv
<1> QED BY <1>1, AndroidInvariant, PTL

(* However the requests of the event loop and the answers of the Java      *)
(* thread overtake each other, the flag is right when both are done; a     *)
(* patient host never makes the install that could put it wrong.           *)
(* (platform.rs 265-295, 530-543, 564-586)                                 *)
THEOREM FlagIsRight == Spec => []FlagTracksSlot
<1>1. IInv => FlagTracksSlot
  <2> SUFFICES ASSUME IInv PROVE FlagTracksSlot
    OBVIOUS
  <2>1. patient => failedOver = {}
    BY DEF IInv, PatientInv
  <2>2. ASSUME pc = "idle", tasks = <<>>, open, cur \notin failedOver
        PROVE  registered[cur] <=> slot[cur] # None
    <3>1. ~ Pending(cur)
      BY <2>2 DEF Pending
    <3> QED BY <2>2, <3>1 DEF IInv, AgreesSoon, Agrees
  <2> QED BY <2>1, <2>2 DEF FlagTracksSlot
<1> QED BY <1>1, AndroidInvariant, PTL

(* With a patient host no registration is lost: each proxy Android has is  *)
(* the open handler's, or the list of retries or an uninstall will take it *)
(* away.  (platform.rs 192-196, 362-368, 569-578, 606-625)                 *)
THEOREM NoProxyIsLost == Spec => []LeftoversAreRetried
<1>1. IInv => LeftoversAreRetried
  <2> SUFFICES ASSUME IInv, patient
               PROVE  /\ OwnedUntilUnregistered
                      /\ pc = "idle" /\ tasks = <<>> =>
                           \A p \in platform :
                             (open /\ p.handler = cur) \/ retries[p.handler] > 0
    BY DEF LeftoversAreRetried
  <2>1. tasks = <<>> => \A h : ~ Leaving(h)
    BY DEF Leaving
  <2> QED BY <2>1 DEF IInv, PatientInv, Accounted
<1> QED BY <1>1, AndroidInvariant, PTL

-----------------------------------------------------------------------------
(* The Rust thread waits only for a teardown that is queued. *)
Answering ==
  pc = "close" =>
    \E i \in DOMAIN tasks : tasks[i] = [op |-> "close", handler |-> cur]

LEMMA AnsweringStep == IInv /\ Answering /\ [Next]_vars => Answering'
<1> SUFFICES ASSUME IInv, Answering, [Next]_vars, pc' = "close" PROVE Answering'
  BY DEF Answering
<1>0. TypeOK /\ Fresh /\ Closes
  BY DEF IInv
<1>1. ASSUME pc = "close", UNCHANGED cur,
             \A i \in DOMAIN tasks : tasks[i].op = "close" =>
               \E j \in DOMAIN tasks' : tasks'[j] = tasks[i]
      PROVE  Answering'
  <2>1. PICK i \in DOMAIN tasks : tasks[i] = [op |-> "close", handler |-> cur]
    BY <1>1 DEF Answering
  <2>2. tasks[i].op = "close"
    BY <2>1
  <2>3. PICK j \in DOMAIN tasks' : tasks'[j] = tasks[i]
    BY <1>1, <2>2
  <2> QED BY <1>1, <2>1, <2>3 DEF Answering
<1>2. CASE Close
  <2>1. Post("close", cur) /\ cur \in Handlers /\ cur' = cur
    BY <1>0, <1>2, HandlersAreNumbers DEF Close, HostActs, Fresh, TypeOK, host
  <2>2. /\ tasks'[Len(tasks) + 1] = [op |-> "close", handler |-> cur]
        /\ DOMAIN tasks' = 1 .. Len(tasks) + 1 /\ Len(tasks) \in Nat
    BY <1>0, <2>1, PostDoes
  <2> QED BY <2>1, <2>2 DEF Answering
<1>3. CASE (\E canHandle \in BOOLEAN : Attach(canHandle)) \/ Toggle \/ BeginDrain
           \/ BeginSynchronize \/ DrainOne \/ DrainDone \/ Load \/ Store \/ PostTask
           \/ Drop
  \* the Rust thread does nothing of this while it waits
  BY <1>0, <1>3 DEF Attach, Toggle, BeginDrain, BeginSynchronize, DrainOne, DrainDone,
     Load, Store, PostTask, Drop, HostActs
<1>4. CASE Install \/ Uninstall
  <2>1. PICK op \in {"install", "uninstall"} : Running(op)
    BY <1>4 DEF Install, Uninstall
  <2>2. tasks' = Tail(tasks) /\ UNCHANGED <<cur, pc>>
    BY <1>4 DEF Install, Uninstall, host
  <2>3. /\ tasks[1].op = op
        /\ \A i \in DOMAIN tasks :
             i # 1 => i - 1 \in DOMAIN tasks' /\ tasks'[i - 1] = tasks[i]
    BY <1>0, <2>1, <2>2, RunDoes
  <2>4. \A i \in DOMAIN tasks : tasks[i].op = "close" => i # 1
    BY <2>1, <2>3
  <2> QED BY <1>1, <2>2, <2>3, <2>4
<1>5. CASE Teardown
  BY <1>5 DEF Teardown
<1>6. CASE User
  <2>1. /\ UNCHANGED <<host, pc>>
        /\ UNCHANGED tasks \/ \E h \in Handlers : Post("uninstall", h)
    BY <1>0, <1>6, UserDoes DEF Fresh
  <2>2. \A i \in DOMAIN tasks : i \in DOMAIN tasks' /\ tasks'[i] = tasks[i]
    BY <1>0, <2>1, PostDoes
  <2> QED BY <1>1, <2>1, <2>2 DEF host
<1>7. CASE UNCHANGED vars
  BY <1>1, <1>7 DEF vars, host
<1> QED BY <1>2, <1>3, <1>4, <1>5, <1>6, <1>7 DEF Next, Rust, Java

(* What close blocks on is there: as long as the Rust thread waits, the    *)
(* Java thread has the teardown of that handler queued, and this one only. *)
(* Whatever runs before it, or is posted meanwhile by gestures, does not   *)
(* take its place; CloseReturns then needs of the scheduling only that the *)
(* Java thread runs its tasks.  (platform.rs 247-258)                      *)
THEOREM CloseIsAnswered ==
  Spec => [](pc = "close" =>
               \E i \in DOMAIN tasks :
                 /\ tasks[i] = [op |-> "close", handler |-> cur]
                 /\ \A j \in DOMAIN tasks : tasks[j].op = "close" => j = i)
<1>1. Init => Answering
  BY DEF Init, Answering
<1>2. IInv /\ Answering /\ [Next]_vars => Answering'
  BY AnsweringStep
<1>3. IInv /\ Answering =>
        (pc = "close" =>
           \E i \in DOMAIN tasks :
             /\ tasks[i] = [op |-> "close", handler |-> cur]
             /\ \A j \in DOMAIN tasks : tasks[j].op = "close" => j = i)
  <2> SUFFICES ASSUME IInv, Answering, pc = "close"
               PROVE  \E i \in DOMAIN tasks :
                        /\ tasks[i] = [op |-> "close", handler |-> cur]
                        /\ \A j \in DOMAIN tasks : tasks[j].op = "close" => j = i
    OBVIOUS
  <2>1. PICK i \in DOMAIN tasks : tasks[i] = [op |-> "close", handler |-> cur]
    BY DEF Answering
  <2>2. tasks[i].op = "close"
    BY <2>1
  <2>3. \A j \in DOMAIN tasks : tasks[j].op = "close" => j = i
    BY <2>2 DEF IInv, Closes
  <2> QED BY <2>1, <2>3
<1> QED BY <1>1, <1>2, <1>3, AndroidInvariant, PTL DEF Spec

=============================================================================
