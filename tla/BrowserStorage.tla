---------------------------- MODULE BrowserStorage --------------------------
(***************************************************************************)
(* crates/essenty-web/src/wasm/browser_storage.rs with storage.rs: a page  *)
(* whose StateKeeper is loaded from and saved to one namespace of the      *)
(* browser's storage, next to another component of the page that keeps its *)
(* state in a namespace of its own.                                        *)
(*                                                                         *)
(* Web Storage has no transactions: a save is a series of operations, each *)
(* of which the browser may reject, and the page may be reloaded or killed *)
(* between any two of them.  Keys and namespaces are sequences of          *)
(* characters, as their concatenation is what separates the namespaces.    *)
(* The hexadecimal form of the bytes is the subject of StateCodecs.        *)
(***************************************************************************)
EXTENDS StateKeeper, Sequences

CONSTANTS
  Namespace,       \* StorageKey::namespace of the page's storage
  OtherNamespace,  \* and that of the other component
  OtherKey,        \* the key the other component saves
  OwnKeys,         \* the keys that components of the page use
  MaxSaves         \* bound: number of saves

VARIABLES
  storage,   \* the browser's storage area, by qualified key
  tab,       \* "down", "ready" or "saving"
  stale,     \* qualified keys that save has still to remove
  unset,     \* keys that save has still to set
  job,       \* the snapshot that is or was written last
  result,    \* Result of the last save
  saves,     \* number of saves so far, which tells their bytes apart
  other,     \* history: what the other component has saved last
  found,     \* history: what the page found when it was loaded
  settled,   \* history: keys consumed by the page or supplied to one of its saves
  durable,   \* history: the namespace after the last save that returned Ok
  tried      \* history: the snapshots that were written at since then

history     == <<other, found, settled, durable, tried>>
storageVars == <<storage, tab, stale, unset, job, result, saves, history>>
browserVars == <<keeperVars, storageVars>>

(* StorageKey::prefix and qualified, without the leading "essenty:". *)
Prefix(namespace) == Append(namespace, ":")

Qualified(namespace, key) == Prefix(namespace) \o key

QualifiedKeys == {Qualified(Namespace, k) : k \in Keys}
                   \cup {Qualified(OtherNamespace, OtherKey)}

HasPrefix(q) ==
  /\ Len(q) >= Len(Prefix(Namespace))
  /\ SubSeq(q, 1, Len(Prefix(Namespace))) = Prefix(Namespace)

Stripped(q) == SubSeq(q, Len(Prefix(Namespace)) + 1, Len(q))

(* Keys has every key that a load of Namespace may come across. *)
ASSUME StorageAssumption ==
  /\ {Namespace, OtherNamespace, OtherKey} \cup Keys \subseteq Seq(STRING)
  /\ OwnKeys \subseteq Keys
  /\ \A q \in QualifiedKeys : HasPrefix(q) => Stripped(q) \in Keys
  /\ MaxSaves \in Nat

(* load: the entries whose qualified key has the prefix. *)
Load == [k \in Keys |->
           IF \E q \in QualifiedKeys : HasPrefix(q) /\ Stripped(q) = k
           THEN storage[CHOOSE q \in QualifiedKeys : HasPrefix(q) /\ Stripped(q) = k]
           ELSE None]

-----------------------------------------------------------------------------
StorageInit ==
  /\ restored = Nothing /\ providers = NoProvider
  /\ storage = [q \in QualifiedKeys |-> None]
  /\ tab = "down" /\ stale = {} /\ unset = {}
  /\ job = Nothing /\ result = "None" /\ saves = 0
  /\ other = None /\ found = Nothing /\ settled = {}
  /\ durable = Nothing /\ tried = {}

(* load_keeper in a new page. *)
LoadKeeper ==
  /\ tab = "down"
  /\ WithRestored(Load)
  /\ tab' = "ready"
  /\ found' = Load
  /\ settled' = {}
  /\ UNCHANGED <<storage, stale, unset, job, result, saves, other, durable, tried>>

(* Components of the page use the keeper. *)
UseKeeper ==
  /\ tab = "ready"
  /\ \E k \in OwnKeys :
       \/ Register(k) /\ UNCHANGED settled
       \/ RegisterValue(k) /\ UNCHANGED settled
       \/ RegisterOptional(k) /\ UNCHANGED settled
       \/ RegisterOptionalValue(k) /\ UNCHANGED settled
       \/ Unregister(k) /\ UNCHANGED settled
       \/ Consume(k) /\ settled' = settled \cup {k}
  /\ UNCHANGED <<storage, tab, stale, unset, job, result, saves,
                 other, found, durable, tried>>

NothingStale(snapshot) == {}  \* mutant of Stale: absent keys stay

EverythingStale(snapshot) ==  \* mutant of Stale: the namespace is cleared first
  {q \in QualifiedKeys : storage[q] # None /\ HasPrefix(q)}

(* The first loop of save: what is stored under the prefix and is not in   *)
(* the snapshot.                                                           *)
Stale(snapshot) ==
  {q \in QualifiedKeys :
     storage[q] # None /\ HasPrefix(q) /\ snapshot[Stripped(q)] = None}

(* save_keeper: the keeper's snapshot first; with it save begins. *)
SaveKeeper ==
  /\ tab = "ready"
  /\ saves < MaxSaves
  /\ saves' = saves + 1
  /\ \E answers \in Answers :
       \/ /\ Aborts(answers)
          /\ result' = "State"
          /\ UNCHANGED <<tab, job, stale, unset, settled, tried>>
       \/ /\ ~ Aborts(answers)
          /\ LET snapshot == Saved(answers, saves') IN
             /\ tab' = "saving"
             /\ job' = snapshot
             /\ stale' = Stale(snapshot)
             /\ unset' = {k \in Keys : snapshot[k] # None}
             /\ tried' = tried \cup {snapshot}
          /\ settled' = settled \cup {k \in Keys : answers[k] = "some"}
          /\ result' = "None"
  /\ UNCHANGED <<keeperVars, storage, other, found, durable>>

RemoveStale ==
  /\ tab = "saving"
  /\ \E q \in stale :
       /\ storage' = [storage EXCEPT ![q] = None]
       /\ stale' = stale \ {q}
  /\ UNCHANGED <<keeperVars, tab, unset, job, result, saves, history>>

(* The last loop; the order of the keys is left open. *)
SetItem ==
  /\ tab = "saving" /\ stale = {}
  /\ \E k \in unset :
       /\ storage' = [storage EXCEPT ![Qualified(Namespace, k)] = job[k]]
       /\ unset' = unset \ {k}
  /\ UNCHANGED <<keeperVars, tab, stale, job, result, saves, history>>

SaveReturn ==
  /\ tab = "saving" /\ stale = {} /\ unset = {}
  /\ tab' = "ready"
  /\ result' = "Ok"
  /\ durable' = Load
  /\ tried' = {}
  /\ UNCHANGED <<keeperVars, storage, stale, unset, job, saves, other, found, settled>>

(* The browser rejects an operation of the save: `?` returns, what has     *)
(* been done stays.                                                        *)
AccessError ==
  /\ tab = "saving"
  /\ tab' = "ready"
  /\ stale' = {} /\ unset' = {}
  /\ result' = "Access"
  /\ UNCHANGED <<keeperVars, storage, job, saves, history>>

(* The page is reloaded or killed, in the middle of a save or not. *)
PageGone ==
  /\ tab # "down"
  /\ tab' = "down"
  /\ WithRestored(Nothing)
  /\ stale' = {} /\ unset' = {}
  /\ result' = "None"
  /\ UNCHANGED <<storage, job, saves, history>>

(* The other component saves: a set_item of its own, never inside a save   *)
(* of this one, since both run on the page's thread.                       *)
OtherSaves ==
  /\ tab # "saving"
  /\ saves < MaxSaves
  /\ saves' = saves + 1
  /\ other' = saves'
  /\ storage' = [storage EXCEPT ![Qualified(OtherNamespace, OtherKey)] = saves']
  /\ UNCHANGED <<keeperVars, tab, stale, unset, job, result, found, settled,
                 durable, tried>>

StorageNext ==
  \/ LoadKeeper \/ UseKeeper
  \/ SaveKeeper \/ RemoveStale \/ SetItem \/ SaveReturn \/ AccessError
  \/ PageGone
  \/ OtherSaves

StorageSpec == StorageInit /\ [][StorageNext]_browserVars

-----------------------------------------------------------------------------
(* "Save replaces the contents of this namespace, including removal of     *)
(* keys absent from the new snapshot" (browser_storage.rs 43-44): once a   *)
(* save has returned Ok the next page loads exactly its snapshot, whatever *)
(* the rejected or interrupted saves before it had left.                   *)
SaveReplaces == result = "Ok" => Load = job

(* Restored state that the page has neither consumed nor supplied anew is  *)
(* in the storage as it was found, at every moment and through every       *)
(* save, failed or not, with optional providers that decline and providers *)
(* that come and go. (keeper.rs 133-134, 186-187, 223-227)                 *)
UnconsumedSurvives ==
  tab # "down" =>
    \A k \in Keys \ settled :
      found[k] # None => storage[Qualified(Namespace, k)] = found[k]

(* "a failed write may leave a partial snapshot" (browser_storage.rs       *)
(* 45-46), and no worse: each entry is that of the last successful save or *)
(* of one tried since, so that none is missing which all of them have, and *)
(* a save that its providers aborted leaves no trace.                      *)
EntriesOldOrNew ==
  \A k \in Keys : Load[k] \in {durable[k]} \cup {s[k] : s \in tried}

(* What one component saves in its namespace is not touched by the saves   *)
(* of another (storage.rs 14-15, "hosts namespace them per component").    *)
OtherIntact == storage[Qualified(OtherNamespace, OtherKey)] = other

=============================================================================
