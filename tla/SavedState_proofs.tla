--------------------------- MODULE SavedState_proofs --------------------------
(***************************************************************************)
(* What becomes of saved state outside the process.                        *)
(*                                                                         *)
(* What BrowserStorage promises, for every set of keys, every number of    *)
(* saves and every two namespaces that are Apart: which they are whenever  *)
(* they differ and have no colon in them (ColonsSetApart), and which the   *)
(* code does not check.                                                    *)
(*                                                                         *)
(* And what the codecs of StateCodecs promise, for every snapshot, every   *)
(* limit and every damage to one byte or to the length of what is kept.    *)
(***************************************************************************)
EXTENDS BrowserStorage, StateCodecs, SequenceTheorems, WellFoundedInduction, TLAPS

Own(k) == Qualified(Namespace, k)

OtherEntry == Qualified(OtherNamespace, OtherKey)

(* The other component's entry is not taken for one of the page's.         *)
Apart == ~ HasPrefix(OtherEntry)

-----------------------------------------------------------------------------
(* Keys qualified with a namespace.                                        *)

(* The colon is a string, which the provers have to be told.               *)
Chars == STRING \cup {":"}

LEMMA CharsTyped ==
  /\ Namespace \in Seq(Chars) /\ OtherNamespace \in Seq(Chars)
  /\ OtherKey \in Seq(Chars)
  /\ \A k \in Keys : k \in Seq(Chars)
<1>1. STRING \subseteq Chars
  BY DEF Chars
<1>2. \A s \in Seq(STRING) : s \in Seq(Chars)
  BY <1>1, SeqMonotonic
<1> QED
  BY <1>2, StorageAssumption

(* The prefix of a namespace is the namespace with a colon behind it.      *)
LEMMA PrefixIs ==
  ASSUME NEW n \in Seq(Chars)
  PROVE  /\ Prefix(n) \in Seq(Chars)
         /\ Len(Prefix(n)) = Len(n) + 1
         /\ \A i \in 1 .. Len(n) : Prefix(n)[i] = n[i]
         /\ Prefix(n)[Len(n) + 1] = ":"
<1>1. ":" \in Chars
  BY DEF Chars
<1> QED
  BY <1>1, AppendProperties DEF Prefix

(* A qualified key begins with its prefix, and without it is the key.      *)
LEMMA OwnIs ==
  ASSUME NEW k \in Keys
  PROVE  /\ Own(k) \in QualifiedKeys
         /\ HasPrefix(Own(k))
         /\ Stripped(Own(k)) = k
<1> DEFINE p == Prefix(Namespace)
           n == Len(p)
           m == Len(k)
<1>1. p \in Seq(Chars) /\ n \in Nat /\ n > 0 /\ k \in Seq(Chars) /\ m \in Nat
  BY PrefixIs, CharsTyped, LenProperties
<1>2. /\ p \o k \in Seq(Chars)
      /\ Len(p \o k) = n + m
      /\ \A i \in 1 .. n + m : (p \o k)[i] = IF i <= n THEN p[i] ELSE k[i - n]
  BY <1>1, ConcatProperties
<1>3. SubSeq(p \o k, 1, n) = p
  <2>1. 1 \in 1 .. n /\ n \in 1 .. n
    BY <1>1
  <2> HIDE DEF p
  <2>2. SubSeq(p \o k, 1, n) = SubSeq(p, 1, n)
    BY <1>1, <2>1, SubSeqOfConcat1
  <2> QED
    BY <1>1, <2>2, SubSeqFull
<1>4. SubSeq(p \o k, n + 1, n + m) = k
  <2> HIDE DEF p, n, m
  <2>1. CASE m = 0
    <3>1. k = << >>
      BY <1>1, <2>1, EmptySeq DEF m
    <3> QED
      BY <1>1, <2>1, <3>1, SubSeqEmpty
  <2>2. CASE m # 0
    <3>1. n + 1 \in n + 1 .. n + m /\ n + m \in n + 1 .. n + m
      BY <1>1, <2>2
    <3>2. SubSeq(p \o k, n + 1, n + m) = SubSeq(k, n + 1 - n, n + m - n)
      BY <1>1, <3>1, SubSeqOfConcat2 DEF n, m
    <3>3. n + 1 - n = 1 /\ n + m - n = m
      BY <1>1
    <3> QED
      BY <1>1, <3>2, <3>3, SubSeqFull DEF m
  <2> QED
    BY <2>1, <2>2
<1>5. Own(k) = p \o k
  BY DEF Own, Qualified
<1>6. Own(k) \in QualifiedKeys
  BY DEF Own, QualifiedKeys
<1> HIDE DEF p, n, m
<1>7. HasPrefix(Own(k))
  BY <1>1, <1>2, <1>3, <1>5 DEF HasPrefix, p, n
<1>8. Stripped(Own(k)) = k
  BY <1>2, <1>4, <1>5 DEF Stripped, p, n
<1> QED
  BY <1>6, <1>7, <1>8

(* Keys differ as soon as their qualified forms do, and the other          *)
(* component's is none of them; what a load takes for a key is stored      *)
(* under its qualified form.                                               *)
LEMMA OwnInjective ==
  ASSUME NEW k \in Keys, NEW l \in Keys, Own(k) = Own(l)
  PROVE  k = l
BY OwnIs

LEMMA OtherIsOther ==
  ASSUME Apart
  PROVE  /\ OtherEntry \in QualifiedKeys
         /\ \A k \in Keys : Own(k) # OtherEntry
         /\ \A q \in QualifiedKeys :
              HasPrefix(q) => \E k \in Keys : q = Own(k)
BY OwnIs DEF Apart, QualifiedKeys, OtherEntry, Own

LEMMA LoadIs ==
  ASSUME Apart
  PROVE  Load = [k \in Keys |-> storage[Own(k)]]
<1>1. ASSUME NEW k \in Keys
      PROVE  /\ \E q \in QualifiedKeys : HasPrefix(q) /\ Stripped(q) = k
             /\ (CHOOSE q \in QualifiedKeys : HasPrefix(q) /\ Stripped(q) = k)
                  = Own(k)
  <2> DEFINE c == CHOOSE q \in QualifiedKeys : HasPrefix(q) /\ Stripped(q) = k
  <2>1. \E q \in QualifiedKeys : HasPrefix(q) /\ Stripped(q) = k
    BY OwnIs
  <2>2. c \in QualifiedKeys /\ HasPrefix(c) /\ Stripped(c) = k
    BY <2>1
  <2> HIDE DEF c
  <2>3. PICK l \in Keys : c = Own(l)
    BY <2>2, OtherIsOther
  <2>4. l = k
    BY <2>2, <2>3, OwnIs
  <2> QED
    BY <2>1, <2>3, <2>4 DEF c
<1> QED
  BY <1>1 DEF Load


(* Namespaces that differ and have no colon in them are apart, whatever    *)
(* the key.                                                                *)
LEMMA ColonsSetApart ==
  ASSUME Namespace # OtherNamespace,
         \A i \in 1 .. Len(Namespace) : Namespace[i] # ":",
         \A i \in 1 .. Len(OtherNamespace) : OtherNamespace[i] # ":"
  PROVE  Apart
<1> DEFINE p == Prefix(Namespace)
           o == Prefix(OtherNamespace)
           a == Len(Namespace)
           b == Len(OtherNamespace)
<1> SUFFICES ASSUME HasPrefix(OtherEntry)
             PROVE  FALSE
  BY DEF Apart
<1>1. /\ p \in Seq(Chars) /\ Len(p) = a + 1 /\ a \in Nat
      /\ \A i \in 1 .. a : p[i] = Namespace[i]
      /\ p[a + 1] = ":"
  BY PrefixIs, CharsTyped, LenProperties
<1>2. /\ o \in Seq(Chars) /\ Len(o) = b + 1 /\ b \in Nat
      /\ \A i \in 1 .. b : o[i] = OtherNamespace[i]
      /\ o[b + 1] = ":"
  BY PrefixIs, CharsTyped, LenProperties
<1> HIDE DEF p, o
<1>3. OtherEntry = o \o OtherKey
  BY DEF OtherEntry, Qualified, o
<1>4. /\ OtherEntry \in Seq(Chars)
      /\ Len(OtherEntry) \in Nat
      /\ Len(OtherEntry) >= b + 1
      /\ \A i \in 1 .. b + 1 : OtherEntry[i] = o[i]
  BY <1>2, <1>3, CharsTyped, ConcatProperties, LenProperties
<1>5. /\ Len(OtherEntry) >= a + 1
      /\ \A i \in 1 .. a + 1 : OtherEntry[i] = p[i]
  <2>1. /\ Len(OtherEntry) >= a + 1
        /\ SubSeq(OtherEntry, 1, a + 1) = p
    BY <1>1 DEF HasPrefix, p
  <2>2. \A i \in 1 .. a + 1 : OtherEntry[i] \in Chars
    BY <1>1, <1>4, <2>1, ElementOfSeq
  <2>3. \A i \in 1 .. a + 1 - 1 + 1 :
          SubSeq(OtherEntry, 1, a + 1)[i] = OtherEntry[1 + i - 1]
    BY <1>1, <2>2, SubSeqProperties
  <2> QED
    BY <1>1, <2>1, <2>3
<1>6. CASE b < a
  <2>1. OtherEntry[b + 1] = ":" /\ OtherEntry[b + 1] = p[b + 1]
    BY <1>1, <1>2, <1>4, <1>5, <1>6
  <2>2. p[b + 1] = Namespace[b + 1] /\ b + 1 \in 1 .. a
    BY <1>1, <1>2, <1>6
  <2> QED
    BY <2>1, <2>2
<1>7. CASE a < b
  <2>1. OtherEntry[a + 1] = ":" /\ OtherEntry[a + 1] = o[a + 1]
    BY <1>1, <1>2, <1>4, <1>5, <1>7
  <2>2. o[a + 1] = OtherNamespace[a + 1] /\ a + 1 \in 1 .. b
    BY <1>1, <1>2, <1>7
  <2> QED
    BY <2>1, <2>2
<1>8. CASE a = b
  <2>1. \A i \in 1 .. a : Namespace[i] = OtherNamespace[i]
    BY <1>1, <1>2, <1>4, <1>5, <1>8
  <2> QED
    BY <1>8, <2>1, CharsTyped, SeqEqual
<1> QED
  BY <1>1, <1>2, <1>6, <1>7, <1>8

-----------------------------------------------------------------------------
(* The inductive invariant.                                                *)

(* Bytes are the number of the save that wrote them.                       *)
Bytes    == Nat \cup {None}
Contents == [Keys -> Bytes]

StorageTypes ==
  /\ storage \in [QualifiedKeys -> Bytes]
  /\ restored \in Contents
  /\ providers \in [Keys -> SUBSET Outcomes]
  /\ tab \in {"down", "ready", "saving"}
  /\ stale \subseteq QualifiedKeys /\ unset \subseteq Keys
  /\ job \in Contents
  /\ saves \in Nat
  /\ other \in Bytes
  /\ found \in Contents
  /\ settled \subseteq Keys
  /\ durable \in Contents

(* A save has no result yet; it removes nothing but entries that its       *)
(* snapshot leaves out, and what it has neither to remove nor to set is    *)
(* as in the snapshot.                                                     *)
Writing ==
  tab = "saving" =>
    /\ result = "None"
    /\ job \in tried
    /\ \A q \in stale : \E k \in Keys : q = Own(k) /\ job[k] = None
    /\ \A k \in Keys :
         storage[Own(k)] = job[k] \/ k \in unset \/ Own(k) \in stale

(* SaveReplaces and EntriesOldOrNew, of the entries themselves.            *)
Replaced == result = "Ok" => \A k \in Keys : storage[Own(k)] = job[k]

OldOrNew ==
  \A k \in Keys :
    storage[Own(k)] = durable[k] \/ \E s \in tried : storage[Own(k)] = s[k]

(* What nobody consumed or supplied anew is still to be consumed, in the   *)
(* storage, and in the snapshot on its way there.                          *)
Kept ==
  tab # "down" =>
    \A k \in Keys \ settled :
      found[k] # None =>
        /\ restored[k] = found[k]
        /\ storage[Own(k)] = found[k]
        /\ tab = "saving" => job[k] = found[k]

StorageInv ==
  /\ StorageTypes /\ Writing /\ Replaced /\ OldOrNew /\ Kept /\ OtherIntact


LEMMA NothingTyped == Nothing \in Contents /\ None \in Bytes
BY DEF Nothing, Contents, Bytes

LEMMA StorageStarts == StorageInit => StorageInv
<1> SUFFICES ASSUME StorageInit
             PROVE  StorageInv
  OBVIOUS
<1> USE DEF StorageInit
<1>1. StorageTypes
  <2>1. NoProvider \in [Keys -> SUBSET Outcomes]
    BY DEF NoProvider
  <2> QED
    BY <2>1, NothingTyped DEF StorageTypes
<1>2. Writing /\ Replaced /\ Kept
  BY DEF Writing, Replaced, Kept
<1>3. OldOrNew
  BY OwnIs DEF OldOrNew, Nothing
<1>4. OtherIntact
  BY DEF OtherIntact, QualifiedKeys
<1> QED
  BY <1>1, <1>2, <1>3, <1>4 DEF StorageInv

(* What a step leaves alone as long as it does not touch the storage.      *)
LEMMA OtherUntouched ==
  ASSUME OtherIntact, UNCHANGED <<storage, other>>
  PROVE  OtherIntact'
BY DEF OtherIntact

LEMMA LoadKeeps ==
  ASSUME Apart, StorageInv, LoadKeeper
  PROVE  StorageInv'
<1> USE DEF StorageInv, LoadKeeper, WithRestored
<1>1. Load \in Contents /\ \A k \in Keys : Load[k] = storage[Own(k)]
  BY LoadIs, OwnIs DEF StorageTypes, Contents
<1>2. StorageTypes'
  <2>1. NoProvider \in [Keys -> SUBSET Outcomes]
    BY DEF NoProvider
  <2> QED
    BY <1>1, <2>1 DEF StorageTypes, QualifiedKeys
<1>3. Writing'
  BY DEF Writing
<1>4. Replaced' /\ OldOrNew'
  BY DEF Replaced, OldOrNew, Own
<1>5. Kept'
  BY <1>1 DEF Kept, Own
<1> QED
  BY <1>2, <1>3, <1>4, <1>5, OtherUntouched

(* Components register and unregister providers, which no part of the      *)
(* invariant speaks of, or consume, which settles the key.                 *)
LEMMA UseKeeps ==
  ASSUME StorageInv, UseKeeper
  PROVE  StorageInv'
<1> USE DEF StorageInv
<1>1. PICK k \in Keys :
        \/ /\ \/ \E outcomes \in SUBSET Outcomes : RegisterAs(k, outcomes)
              \/ Unregister(k)
           /\ UNCHANGED settled
        \/ Consume(k) /\ settled' = settled \cup {k}
  BY StorageAssumption
     DEF UseKeeper, Register, RegisterValue, RegisterOptional,
         RegisterOptionalValue, Outcomes
<1>2. /\ tab = "ready"
      /\ UNCHANGED <<storage, tab, stale, unset, job, result, saves, other,
                     found, durable, tried>>
  BY DEF UseKeeper
<1>3. /\ \A l \in Keys \ settled' : restored'[l] = restored[l] /\ l \notin settled
      /\ restored' \in Contents
      /\ providers' \in [Keys -> SUBSET Outcomes]
      /\ settled' \subseteq Keys
  <2>1. CASE \E outcomes \in SUBSET Outcomes : RegisterAs(k, outcomes) /\ UNCHANGED settled
    BY <2>1 DEF RegisterAs, StorageTypes
  <2>2. CASE Unregister(k) /\ UNCHANGED settled
    BY <2>2 DEF Unregister, StorageTypes
  <2>3. CASE Consume(k) /\ settled' = settled \cup {k}
    BY <2>3, NothingTyped DEF Consume, StorageTypes, Contents
  <2> QED
    BY <1>1, <2>1, <2>2, <2>3
<1>4. StorageTypes'
  BY <1>2, <1>3 DEF StorageTypes, QualifiedKeys
<1>5. Writing' /\ Replaced' /\ OldOrNew'
  BY <1>2 DEF Writing, Replaced, OldOrNew, Own
<1>6. Kept'
  BY <1>2, <1>3 DEF Kept, Own
<1> QED
  BY <1>2, <1>4, <1>5, <1>6, OtherUntouched


(* The keeper's snapshot has what was restored and is not supplied anew.   *)
LEMMA SavedIs ==
  ASSUME StorageTypes, NEW answers \in Answers, NEW bytes \in Nat
  PROVE  /\ Saved(answers, bytes) \in Contents
         /\ \A k \in Keys :
              answers[k] # "some" => Saved(answers, bytes)[k] = restored[k]
BY DEF Saved, StorageTypes, Contents, Bytes

LEMMA SaveKeeps ==
  ASSUME Apart, StorageInv, SaveKeeper
  PROVE  StorageInv'
<1> USE DEF StorageInv
<1>1. /\ tab = "ready" /\ saves' = saves + 1 /\ saves' \in Nat
      /\ UNCHANGED <<restored, providers, storage, other, found, durable>>
  BY DEF SaveKeeper, keeperVars, StorageTypes
<1>2. PICK answers \in Answers :
        \/ /\ Aborts(answers)
           /\ result' = "State"
           /\ UNCHANGED <<tab, job, stale, unset, settled, tried>>
        \/ /\ tab' = "saving"
           /\ job' = Saved(answers, saves')
           /\ stale' = Stale(Saved(answers, saves'))
           /\ unset' = {k \in Keys : Saved(answers, saves')[k] # None}
           /\ tried' = tried \cup {Saved(answers, saves')}
           /\ settled' = settled \cup {k \in Keys : answers[k] = "some"}
           /\ result' = "None"
  BY DEF SaveKeeper
<1>3. CASE UNCHANGED <<tab, job, stale, unset, settled, tried>> /\ result' = "State"
  <2>1. StorageTypes'
    BY <1>1, <1>3 DEF StorageTypes, QualifiedKeys
  <2>2. Writing' /\ Replaced' /\ OldOrNew' /\ Kept'
    BY <1>1, <1>3 DEF Writing, Replaced, OldOrNew, Kept, Own
  <2> QED
    BY <1>1, <2>1, <2>2, OtherUntouched
<1>4. ASSUME NEW snapshot \in Contents,
             \A k \in Keys : answers[k] # "some" => snapshot[k] = restored[k],
             tab' = "saving", job' = snapshot, stale' = Stale(snapshot),
             unset' = {k \in Keys : snapshot[k] # None},
             tried' = tried \cup {snapshot},
             settled' = settled \cup {k \in Keys : answers[k] = "some"},
             result' = "None"
      PROVE  StorageInv'
  <2>1. StorageTypes'
    BY <1>1, <1>4 DEF StorageTypes, QualifiedKeys, Stale
  <2>2. Writing'
    <3>1. job' \in tried' /\ result' = "None"
      BY <1>4
    <3>2. ASSUME NEW q \in stale'
          PROVE  \E k \in Keys : q = Own(k) /\ snapshot[k] = None
      <4>1. q \in QualifiedKeys /\ HasPrefix(q) /\ snapshot[Stripped(q)] = None
        BY <1>4, <3>2 DEF Stale
      <4> QED
        BY <4>1, OtherIsOther, OwnIs
    <3>3. ASSUME NEW k \in Keys
          PROVE  storage[Own(k)] = snapshot[k] \/ k \in unset' \/ Own(k) \in stale'
      BY <1>4, OwnIs DEF Stale
    <3> QED
      BY <1>1, <1>4, <3>1, <3>2, <3>3 DEF Writing, Own
  <2>3. Replaced'
    BY <1>4 DEF Replaced
  <2>4. OldOrNew'
    BY <1>1, <1>4 DEF OldOrNew, Own
  <2>5. Kept'
    BY <1>1, <1>4 DEF Kept, Own
  <2> QED
    BY <1>1, <2>1, <2>2, <2>3, <2>4, <2>5, OtherUntouched
<1> QED
  BY <1>1, <1>2, <1>3, <1>4, SavedIs

(* Removing an entry that the snapshot leaves out makes it as in the       *)
(* snapshot, in which nothing unconsumed is left out.                      *)
LEMMA RemoveKeeps ==
  ASSUME Apart, StorageInv, RemoveStale
  PROVE  StorageInv'
<1> USE DEF StorageInv
<1>1. /\ tab = "saving" /\ result = "None" /\ job \in tried
      /\ UNCHANGED <<restored, providers, tab, unset, job, result, saves, other,
                     found, settled, durable, tried>>
  BY DEF RemoveStale, keeperVars, history, Writing
<1>2. PICK q \in stale : /\ storage' = [storage EXCEPT ![q] = None]
                         /\ stale' = stale \ {q}
  BY DEF RemoveStale
<1>3. PICK g \in Keys : q = Own(g) /\ job[g] = None
  BY <1>1, <1>2 DEF Writing
<1>4. /\ storage'[Own(g)] = None
      /\ \A k \in Keys : k # g => storage'[Own(k)] = storage[Own(k)]
      /\ storage'[OtherEntry] = storage[OtherEntry]
  BY <1>2, <1>3, OwnIs, OwnInjective, OtherIsOther DEF StorageTypes
<1>5. StorageTypes'
  <2>1. storage' \in [QualifiedKeys -> Bytes]
    BY <1>2, NothingTyped DEF StorageTypes
  <2> QED
    BY <1>1, <1>2, <2>1 DEF StorageTypes, QualifiedKeys
<1>6. Writing'
  <2>1. \A k \in Keys : storage'[Own(k)] = job[k] \/ k \in unset \/ Own(k) \in stale'
    BY <1>1, <1>2, <1>3, <1>4, OwnInjective DEF Writing
  <2> QED
    BY <1>1, <1>2, <2>1 DEF Writing, Own
<1>7. Replaced'
  BY <1>1 DEF Replaced
<1>8. OldOrNew'
  BY <1>1, <1>3, <1>4 DEF OldOrNew, Own
<1>9. Kept'
  BY <1>1, <1>3, <1>4 DEF Kept, Own
<1>10. OtherIntact'
  BY <1>1, <1>4 DEF OtherIntact, OtherEntry
<1> QED
  BY <1>5, <1>6, <1>7, <1>8, <1>9, <1>10

LEMMA SetKeeps ==
  ASSUME Apart, StorageInv, SetItem
  PROVE  StorageInv'
<1> USE DEF StorageInv
<1>1. /\ tab = "saving" /\ result = "None" /\ job \in tried
      /\ UNCHANGED <<restored, providers, tab, stale, job, result, saves, other,
                     found, settled, durable, tried>>
  BY DEF SetItem, keeperVars, history, Writing
<1>2. PICK g \in unset : /\ storage' = [storage EXCEPT ![Own(g)] = job[g]]
                         /\ unset' = unset \ {g}
  BY DEF SetItem, Own
<1>3. g \in Keys
  BY <1>2 DEF StorageTypes
<1>4. /\ storage'[Own(g)] = job[g]
      /\ \A k \in Keys : k # g => storage'[Own(k)] = storage[Own(k)]
      /\ storage'[OtherEntry] = storage[OtherEntry]
  BY <1>2, <1>3, OwnIs, OwnInjective, OtherIsOther DEF StorageTypes
<1>5. StorageTypes'
  <2>1. job[g] \in Bytes
    BY <1>3 DEF StorageTypes, Contents
  <2>2. storage' \in [QualifiedKeys -> Bytes]
    BY <1>2, <2>1 DEF StorageTypes
  <2> QED
    BY <1>1, <1>2, <2>2 DEF StorageTypes, QualifiedKeys
<1>6. Writing'
  <2>1. \A k \in Keys : storage'[Own(k)] = job[k] \/ k \in unset' \/ Own(k) \in stale
    BY <1>1, <1>2, <1>4 DEF Writing
  <2> QED
    BY <1>1, <2>1 DEF Writing, Own
<1>7. Replaced'
  BY <1>1 DEF Replaced
<1>8. OldOrNew'
  BY <1>1, <1>4 DEF OldOrNew, Own
<1>9. Kept'
  BY <1>1, <1>4 DEF Kept, Own
<1>10. OtherIntact'
  BY <1>1, <1>4 DEF OtherIntact, OtherEntry
<1> QED
  BY <1>5, <1>6, <1>7, <1>8, <1>9, <1>10


(* With nothing left to remove or to set all is as in the snapshot, which  *)
(* the next load therefore finds.                                          *)
LEMMA ReturnKeeps ==
  ASSUME Apart, StorageInv, SaveReturn
  PROVE  StorageInv'
<1> USE DEF StorageInv, SaveReturn, keeperVars
<1>1. Load \in Contents /\ \A k \in Keys : Load[k] = storage[Own(k)]
  BY LoadIs, OwnIs DEF StorageTypes, Contents
<1>2. StorageTypes'
  BY <1>1 DEF StorageTypes, QualifiedKeys
<1>3. Writing'
  BY DEF Writing
<1>4. Replaced'
  BY DEF Replaced, Writing, Own
<1>5. OldOrNew'
  BY <1>1 DEF OldOrNew, Own
<1>6. Kept'
  BY DEF Kept, Own
<1> QED
  BY <1>2, <1>3, <1>4, <1>5, <1>6, OtherUntouched

(* A save that is given up, by the browser or with its page, leaves the    *)
(* entries as they are.                                                    *)
LEMMA LeaveKeeps ==
  ASSUME StorageInv, AccessError \/ PageGone
  PROVE  StorageInv'
<1> USE DEF StorageInv
<1>1. /\ tab' \in {"ready", "down"} /\ result' \in {"Access", "None"}
      /\ tab' # "down" => tab # "down" /\ restored' = restored
      /\ stale' = {} /\ unset' = {}
      /\ UNCHANGED <<storage, job, saves, other, found, settled, durable, tried>>
  BY DEF AccessError, PageGone, keeperVars, history
<1>2. restored' \in Contents /\ providers' \in [Keys -> SUBSET Outcomes]
  <2>1. NoProvider \in [Keys -> SUBSET Outcomes]
    BY DEF NoProvider
  <2> QED
    BY <2>1, NothingTyped
       DEF AccessError, PageGone, keeperVars, WithRestored, StorageTypes
<1>3. StorageTypes'
  BY <1>1, <1>2 DEF StorageTypes, QualifiedKeys
<1>4. Writing' /\ Replaced' /\ OldOrNew'
  BY <1>1 DEF Writing, Replaced, OldOrNew, Own
<1>5. Kept'
  BY <1>1 DEF Kept, Own
<1> QED
  BY <1>1, <1>3, <1>4, <1>5, OtherUntouched

LEMMA OtherKeeps ==
  ASSUME Apart, StorageInv, OtherSaves
  PROVE  StorageInv'
<1> USE DEF StorageInv
<1>1. /\ tab # "saving" /\ saves' = saves + 1 /\ other' = saves'
      /\ storage' = [storage EXCEPT ![OtherEntry] = saves']
      /\ UNCHANGED <<restored, providers, tab, stale, unset, job, result, found,
                     settled, durable, tried>>
  BY DEF OtherSaves, OtherEntry, keeperVars
<1>2. saves' \in Nat /\ saves' \in Bytes
  BY <1>1 DEF StorageTypes, Bytes
<1>3. /\ \A k \in Keys : storage'[Own(k)] = storage[Own(k)]
      /\ storage'[OtherEntry] = saves'
  BY <1>1, OwnIs, OtherIsOther DEF StorageTypes
<1>4. StorageTypes'
  <2>1. storage' \in [QualifiedKeys -> Bytes]
    BY <1>1, <1>2 DEF StorageTypes
  <2> QED
    BY <1>1, <1>2, <2>1 DEF StorageTypes, QualifiedKeys
<1>5. Writing' /\ Replaced' /\ OldOrNew' /\ Kept'
  BY <1>1, <1>3 DEF Writing, Replaced, OldOrNew, Kept, Own
<1>6. OtherIntact'
  BY <1>1, <1>3 DEF OtherIntact, OtherEntry
<1> QED
  BY <1>4, <1>5, <1>6

(* Every step keeps the invariant.                                         *)
LEMMA StorageSteps ==
  ASSUME Apart, StorageInv, [StorageNext]_browserVars
  PROVE  StorageInv'
<1>1. CASE StorageNext
  BY <1>1, LoadKeeps, UseKeeps, SaveKeeps, RemoveKeeps, SetKeeps, ReturnKeeps,
     LeaveKeeps, OtherKeeps
     DEF StorageNext
<1>2. CASE UNCHANGED browserVars
  <2>1. UNCHANGED <<restored, providers, storage, tab, stale, unset, job, result,
                    saves, other, found, settled, durable, tried>>
    BY <1>2 DEF browserVars, keeperVars, storageVars, history
  <2> QED
    BY <2>1 DEF StorageInv, StorageTypes, QualifiedKeys, Writing, Replaced,
                OldOrNew, Kept, OtherIntact, Own
<1> QED
  BY <1>1, <1>2

-----------------------------------------------------------------------------
(* The theorems.                                                           *)

(* The invariant is one of every behaviour, if the namespaces are apart.   *)
THEOREM StorageInvariant ==
  ASSUME Apart
  PROVE  StorageSpec => []StorageInv
<1>1. Apart /\ StorageInv /\ [StorageNext]_browserVars => StorageInv'
  BY StorageSteps
<1>2. StorageInit => StorageInv
  BY StorageStarts
<1>3. StorageInv /\ [StorageNext]_browserVars => StorageInv'
  BY <1>1
<1> QED
  BY <1>2, <1>3, PTL DEF StorageSpec

(* A save that returned Ok is what the next page loads, whatever rejected  *)
(* and interrupted saves had left before it (browser_storage.rs 43-44).    *)
THEOREM GoodSaveReplaces ==
  ASSUME Apart
  PROVE  StorageSpec => []SaveReplaces
<1>1. StorageInv => SaveReplaces
  <2> SUFFICES ASSUME StorageInv, result = "Ok"
               PROVE  Load = job
    BY DEF SaveReplaces
  <2>1. job = [k \in Keys |-> job[k]]
    BY DEF StorageInv, StorageTypes, Contents
  <2>2. \A k \in Keys : storage[Own(k)] = job[k]
    BY DEF StorageInv, Replaced
  <2> QED
    BY <2>1, <2>2, LoadIs
<1> QED
  BY <1>1, StorageInvariant, PTL

(* What the page neither consumed nor supplied anew stays in the storage   *)
(* as it was found, through saves that fail, are interrupted or go through *)
(* (keeper.rs 133-134, 186-187, 223-227).                                  *)
THEOREM UnconsumedStays ==
  ASSUME Apart
  PROVE  StorageSpec => []UnconsumedSurvives
<1>1. StorageInv => UnconsumedSurvives
  BY DEF StorageInv, Kept, UnconsumedSurvives, Own
<1> QED
  BY <1>1, StorageInvariant, PTL

(* A partial save mixes entries of the last good snapshot with entries of  *)
(* those tried since, and has no others (browser_storage.rs 45-46).        *)
THEOREM NothingElseIsStored ==
  ASSUME Apart
  PROVE  StorageSpec => []EntriesOldOrNew
<1>1. StorageInv => EntriesOldOrNew
  BY LoadIs DEF StorageInv, OldOrNew, EntriesOldOrNew
<1> QED
  BY <1>1, StorageInvariant, PTL

(* A component's saves leave those of another alone, as long as both keep  *)
(* colons out of their namespaces (storage.rs 14-15); the code lets them   *)
(* in, and storage_namespaces shows what happens then.                     *)
THEOREM ColonFreeNamespaces ==
  ASSUME Namespace # OtherNamespace,
         \A i \in 1 .. Len(Namespace) : Namespace[i] # ":",
         \A i \in 1 .. Len(OtherNamespace) : OtherNamespace[i] # ":"
  PROVE  StorageSpec => []OtherIntact
<1>1. StorageInv => OtherIntact
  BY DEF StorageInv
<1>2. StorageSpec => []StorageInv
  BY ColonsSetApart, StorageInvariant
<1> QED
  BY <1>1, <1>2, PTL

-----------------------------------------------------------------------------
(* Induction over data.  The induction theorems of the library are about   *)
(* operators; these two are about sets and functions.                      *)

(* A set with 0 in it and the successors of its numbers has all numbers.   *)
LEMMA NatSetInduction ==
  ASSUME NEW S, 0 \in S, \A n \in Nat : n \in S => n + 1 \in S
  PROVE  Nat \subseteq S
<1> DEFINE T == Nat \ S
           R == {p \in Nat \X Nat : p[1] < p[2]}
<1>1. IsWellFoundedOn(R, Nat)
  BY NatLessThanWellFounded DEF OpToRel
<1> SUFFICES ASSUME T # {} PROVE FALSE
  OBVIOUS
<1>2. \E x \in T : \A y \in T : ~ (<<y, x>> \in R)
  <2> HIDE DEF T, R
  <2>1. T \subseteq Nat
    BY DEF T
  <2> QED BY <1>1, <2>1, WFMin
<1>3. PICK x \in T : \A y \in T : ~ (y < x)
  BY <1>2
<1>4. x # 0 /\ x \in Nat
  OBVIOUS
<1>5. x - 1 \in Nat /\ x - 1 \notin T
  BY <1>3, <1>4
<1> QED
  BY <1>4, <1>5

(* The function of the numbers up to N with this value at 0 and this step. *)
Recursive(g, N, S, base, step) ==
  /\ g \in [0 .. N -> S]
  /\ g[0] = base
  /\ \A n \in 1 .. N : g[n] = step[<<g[n - 1], n>>]

LEMMA RecursionExists ==
  ASSUME NEW N \in Nat, NEW S, NEW base \in S,
         NEW step \in [S \X (1 .. N) -> S]
  PROVE  \E g : Recursive(g, N, S, base, step)
<1> DEFINE Good(g, m) == /\ g \in [0 .. m -> S]
                         /\ g[0] = base
                         /\ \A n \in 1 .. m : g[n] = step[<<g[n - 1], n>>]
           A == {m \in Nat : m <= N => \E g : Good(g, m)}
<1>1. 0 \in A
  <2>1. Good([n \in 0 .. 0 |-> base], 0)
    OBVIOUS
  <2> QED
    BY <2>1
<1>2. ASSUME NEW m \in Nat, m \in A
      PROVE  m + 1 \in A
  <2> SUFFICES ASSUME m + 1 <= N PROVE \E g : Good(g, m + 1)
    OBVIOUS
  <2>1. PICK g : Good(g, m)
    BY <1>2
  <2> DEFINE h == [n \in 0 .. m + 1 |-> IF n = m + 1 THEN step[<<g[m], m + 1>>] ELSE g[n]]
  <2>2. g[m] \in S /\ m + 1 \in 1 .. N
    BY <2>1
  <2>3. step[<<g[m], m + 1>>] \in S
    BY <2>2
  <2>4. h \in [0 .. m + 1 -> S]
    BY <2>1, <2>3
  <2>5. ASSUME NEW n \in 1 .. m + 1
        PROVE  h[n] = step[<<h[n - 1], n>>]
    <3>1. CASE n = m + 1
      <4>1. h[n - 1] = g[m] /\ n - 1 = m
        BY <3>1
      <4>2. h[n] = step[<<g[m], m + 1>>]
        BY <3>1
      <4> QED
        BY <3>1, <4>1, <4>2
    <3>2. CASE n # m + 1
      <4>1. n \in 1 .. m /\ h[n] = g[n] /\ h[n - 1] = g[n - 1]
        BY <3>2
      <4>2. g[n] = step[<<g[n - 1], n>>]
        BY <4>1, <2>1
      <4> QED
        BY <4>1, <4>2
    <3> QED
      BY <3>1, <3>2
  <2>6. h[0] = base
    BY <2>1
  <2>7. Good(h, m + 1)
    BY <2>4, <2>5, <2>6
  <2> QED
    BY <2>7
<1>3. Nat \subseteq A
  <2> HIDE DEF A
  <2> QED
    BY <1>1, <1>2, NatSetInduction
<1>4. PICK g : Good(g, N)
  <2>1. N \in A
    BY <1>3
  <2> QED
    BY <2>1
<1> QED
  BY <1>4 DEF Recursive

-----------------------------------------------------------------------------
(* The hexadecimal text.                                                   *)

(* A text of digits in pairs is read as bytes, of which it is the text.    *)
LEMMA ReadIsWritten ==
  ASSUME NEW text \in Seq(Nat), DecodeBytes(text) # Err
  PROVE  EncodeBytes(DecodeBytes(text)) = text
<1> DEFINE n == Len(text)
           bytes == [i \in 1 .. n \div 2 |-> 16 * text[2 * i - 1] + text[2 * i]]
<1>1. n \in Nat /\ n % 2 = 0 /\ \A i \in 1 .. n : text[i] \in 0 .. 15
  <2>1. n \in Nat /\ DOMAIN text = 1 .. n
    BY LenProperties
  <2>2. (n % 2 # 1) /\ \A i \in 1 .. n : ~ (text[i] > 15)
    BY <2>1 DEF DecodeBytes
  <2>3. \A i \in 1 .. n : text[i] \in Nat
    BY ElementOfSeq
  <2>4. n % 2 = 0
    BY <2>1, <2>2
  <2>5. ASSUME NEW i \in 1 .. n
        PROVE  text[i] \in 0 .. 15
    <3>1. PICK c \in Nat : c = text[i]
      BY <2>3
    <3>2. ~ (c > 15)
      BY <2>2, <3>1
    <3>3. c \in 0 .. 15
      BY <3>2
    <3> QED
      BY <3>1, <3>3
  <2> QED
    BY <2>1, <2>4, <2>5
<1>2. DecodeBytes(text) = bytes
  BY DEF DecodeBytes
<1>3. \A i \in 1 .. n \div 2 : 2 * i - 1 \in 1 .. n /\ 2 * i \in 1 .. n
  BY <1>1
<1>4. \A i \in 1 .. n \div 2 : bytes[i] \in Nat
  <2> SUFFICES ASSUME NEW i \in 1 .. n \div 2 PROVE bytes[i] \in Nat
    OBVIOUS
  <2>1. PICK a \in Nat : a = text[2 * i - 1]
    BY <1>1, <1>3
  <2>2. PICK b \in Nat : b = text[2 * i]
    BY <1>1, <1>3
  <2>3. bytes[i] = 16 * a + b
    BY <2>1, <2>2
  <2>4. 16 * a + b \in Nat
    OBVIOUS
  <2> HIDE DEF bytes
  <2> QED
    BY <2>3, <2>4
<1>5. bytes \in Seq(Nat) /\ Len(bytes) = n \div 2
  BY <1>1, <1>4
<1>6. EncodeBytes(bytes) = [i \in 1 .. n |->
        IF i % 2 = 1 THEN bytes[(i + 1) \div 2] \div 16 ELSE bytes[i \div 2] % 16]
  BY <1>1, <1>5 DEF EncodeBytes
<1>7. ASSUME NEW i \in 1 .. n
      PROVE  (IF i % 2 = 1 THEN bytes[(i + 1) \div 2] \div 16
                           ELSE bytes[i \div 2] % 16) = text[i]
  <2>1. CASE i % 2 = 1
    <3>1. PICK k \in 1 .. n \div 2 : i = 2 * k - 1
      <4>1. n \in Nat /\ n % 2 = 0
        BY <1>1
      <4> HIDE DEF n, bytes
      <4>2. (i + 1) \div 2 \in 1 .. n \div 2 /\ i = 2 * ((i + 1) \div 2) - 1
        BY <2>1, <4>1
      <4> QED
        BY <4>2
    <3>2. (i + 1) \div 2 = k
      BY <3>1
    <3>3. PICK a \in 0 .. 15 : a = text[i]
      BY <1>1
    <3>4. PICK b \in 0 .. 15 : b = text[2 * k]
      BY <1>1, <1>3
    <3>5. bytes[k] = 16 * a + b
      BY <3>1, <3>3, <3>4
    <3>6. (16 * a + b) \div 16 = a
      <4> HIDE DEF n, bytes
      <4> QED
        OBVIOUS
    <3> QED
      BY <2>1, <3>2, <3>3, <3>5, <3>6
  <2>2. CASE i % 2 # 1
    <3>1. PICK k \in 1 .. n \div 2 : i = 2 * k
      <4>1. i \div 2 \in 1 .. n \div 2 /\ i = 2 * (i \div 2)
        BY <1>1, <2>2
      <4> QED
        BY <4>1
    <3>2. i \div 2 = k
      BY <3>1
    <3>3. PICK a \in 0 .. 15 : a = text[2 * k - 1]
      BY <1>1, <1>3
    <3>4. PICK b \in 0 .. 15 : b = text[i]
      BY <1>1
    <3>5. bytes[k] = 16 * a + b
      BY <3>1, <3>3, <3>4
    <3>6. (16 * a + b) % 16 = b
      <4> HIDE DEF n, bytes
      <4> QED
        OBVIOUS
    <3> QED
      BY <2>2, <3>2, <3>4, <3>5, <3>6
  <2> QED
    BY <2>1, <2>2
<1>8. text = [i \in 1 .. n |-> text[i]]
  BY LenProperties
<1>9. [i \in 1 .. n |-> IF i % 2 = 1 THEN bytes[(i + 1) \div 2] \div 16
                                     ELSE bytes[i \div 2] % 16]
        = [i \in 1 .. n |-> text[i]]
  BY <1>7
<1> QED
  BY <1>2, <1>6, <1>8, <1>9

(* What encode_bytes writes is a text of digits, which is read as it was.  *)
LEMMA WrittenIsRead ==
  ASSUME NEW bytes \in Seq(Byte)
  PROVE  /\ EncodeBytes(bytes) \in Seq(Nat)
         /\ DecodeBytes(EncodeBytes(bytes)) = bytes
<1> DEFINE n == Len(bytes)
           text == EncodeBytes(bytes)
<1>1. n \in Nat /\ \A i \in 1 .. n : bytes[i] \in 0 .. 255
  BY LenProperties, ElementOfSeq DEF Byte
<1>2. text = [i \in 1 .. 2 * n |->
        IF i % 2 = 1 THEN bytes[(i + 1) \div 2] \div 16 ELSE bytes[i \div 2] % 16]
  BY DEF EncodeBytes
<1>3. ASSUME NEW i \in 1 .. 2 * n
      PROVE  text[i] \in 0 .. 15
  <2>1. CASE i % 2 = 1
    <3>1. (i + 1) \div 2 \in 1 .. n
      BY <1>1, <2>1
    <3>2. PICK b \in 0 .. 255 : b = bytes[(i + 1) \div 2]
      BY <1>1, <3>1
    <3>3. text[i] = b \div 16
      BY <1>2, <2>1, <3>2
    <3>4. b \div 16 \in 0 .. 15
      OBVIOUS
    <3> QED
      BY <3>3, <3>4
  <2>2. CASE i % 2 # 1
    <3>1. i \div 2 \in 1 .. n
      BY <1>1, <2>2
    <3>2. PICK b \in 0 .. 255 : b = bytes[i \div 2]
      BY <1>1, <3>1
    <3>3. text[i] = b % 16
      BY <1>2, <2>2, <3>2
    <3>4. b % 16 \in 0 .. 15
      OBVIOUS
    <3> QED
      BY <3>3, <3>4
  <2> QED
    BY <2>1, <2>2
<1>4. text \in Seq(Nat) /\ Len(text) = 2 * n /\ DOMAIN text = 1 .. 2 * n
  <2>1. text \in [1 .. 2 * n -> Nat]
    <3>1. \A i \in 1 .. 2 * n : text[i] \in Nat
      <4> HIDE DEF text, n
      <4>1. 0 .. 15 \subseteq Nat
        OBVIOUS
      <4> QED
        BY <1>3, <4>1
    <3> QED
      BY <1>2, <3>1
  <2>2. 2 * n \in Nat
    BY <1>1
  <2> HIDE DEF text, n
  <2> QED
    BY <2>1, <2>2
<1>5. Len(text) % 2 = 0 /\ Len(text) \div 2 = n
  BY <1>1, <1>4
<1>6. DecodeBytes(text) = [i \in 1 .. n |-> 16 * text[2 * i - 1] + text[2 * i]]
  <2>1. \A i \in DOMAIN text : ~ (text[i] > 15)
    <3> SUFFICES ASSUME NEW i \in DOMAIN text PROVE ~ (text[i] > 15)
      OBVIOUS
    <3>1. PICK c \in 0 .. 15 : c = text[i]
      BY <1>3, <1>4
    <3>2. ~ (c > 15)
      OBVIOUS
    <3> QED
      BY <3>1, <3>2
  <2>2. ~ (Len(text) % 2 = 1)
    BY <1>5
  <2> QED
    BY <2>1, <2>2, <1>5 DEF DecodeBytes
<1>7. ASSUME NEW i \in 1 .. n
      PROVE  16 * text[2 * i - 1] + text[2 * i] = bytes[i]
  <2>1. PICK b \in 0 .. 255 : b = bytes[i]
    BY <1>1
  <2>2. 2 * i - 1 \in 1 .. 2 * n /\ (2 * i - 1) % 2 = 1 /\ ((2 * i - 1) + 1) \div 2 = i
    BY <1>1
  <2>3. 2 * i \in 1 .. 2 * n /\ (2 * i) % 2 = 0 /\ (2 * i) \div 2 = i
    BY <1>1
  <2>4. text[2 * i - 1] = b \div 16
    BY <1>2, <2>1, <2>2
  <2>5. text[2 * i] = b % 16
    BY <1>2, <2>1, <2>3
  <2>6. 16 * (b \div 16) + (b % 16) = b
    OBVIOUS
  <2> QED
    BY <2>1, <2>4, <2>5, <2>6
<1>8. bytes = [i \in 1 .. n |-> bytes[i]]
  BY LenProperties
<1>9. [i \in 1 .. n |-> 16 * text[2 * i - 1] + text[2 * i]] = [i \in 1 .. n |-> bytes[i]]
  BY <1>7
<1> QED
  BY <1>4, <1>6, <1>8, <1>9
-----------------------------------------------------------------------------
(* The checksum.                                                           *)

Word == SUBSET (0 .. 31)

LEMMA XorWords ==
  ASSUME NEW a \in Word, NEW b \in Word
  PROVE  Xor(a, b) \in Word
BY DEF Xor, Word

LEMMA XorInjective ==
  ASSUME NEW a, NEW b, NEW c, Xor(a, c) = Xor(b, c)
  PROVE  a = b
<1> SUFFICES ASSUME NEW x PROVE x \in a <=> x \in b
  OBVIOUS
<1>1. x \in Xor(a, c) <=> x \in Xor(b, c)
  OBVIOUS
<1>2. x \in Xor(a, c) <=> ~ (x \in a <=> x \in c)
  BY DEF Xor
<1>3. x \in Xor(b, c) <=> ~ (x \in b <=> x \in c)
  BY DEF Xor
<1> QED
  BY <1>1, <1>2, <1>3

LEMMA XorCommutes ==
  ASSUME NEW a, NEW b
  PROVE  Xor(a, b) = Xor(b, a)
BY DEF Xor

LEMMA ShiftedIn ==
  ASSUME NEW a \in Word, NEW i \in 1 .. 31
  PROVE  i - 1 \in ShiftRight(a) <=> i \in a
BY DEF ShiftRight, Word

LEMMA ShiftedWord ==
  ASSUME NEW a \in Word
  PROVE  ShiftRight(a) \subseteq 0 .. 30
BY DEF ShiftRight, Word

LEMMA CrcShiftWord ==
  ASSUME NEW a \in Word
  PROVE  CrcShift(a) \in Word
<1>1. ShiftRight(a) \in Word
  BY ShiftedWord DEF Word
<1>2. Polynomial \in Word
  BY DEF Polynomial, Word
<1> QED
  BY <1>1, <1>2, XorWords DEF CrcShift

(* The highest bit of the polynomial tells whether it was mixed in.        *)
LEMMA CrcShiftInjective ==
  ASSUME NEW a \in Word, NEW b \in Word, CrcShift(a) = CrcShift(b)
  PROVE  a = b
<1>1. \A w \in Word : 31 \in CrcShift(w) <=> 0 \in w
  <2> SUFFICES ASSUME NEW w \in Word PROVE 31 \in CrcShift(w) <=> 0 \in w
    OBVIOUS
  <2>1. 31 \notin ShiftRight(w)
    BY ShiftedWord
  <2>2. 31 \in Polynomial
    BY DEF Polynomial
  <2> QED
    BY <2>1, <2>2 DEF CrcShift, Xor
<1>2. 0 \in a <=> 0 \in b
  BY <1>1
<1>3. ShiftRight(a) = ShiftRight(b)
  BY <1>2, XorInjective DEF CrcShift
<1>4. \A i \in 1 .. 31 : i \in a <=> i \in b
  BY <1>3, ShiftedIn
<1>5. \A i \in 0 .. 31 : i \in a <=> i \in b
  BY <1>2, <1>4
<1> QED
  BY <1>5 DEF Word

LEMMA CrcFourShiftsInjective ==
  ASSUME NEW a \in Word, NEW b \in Word
  PROVE  /\ CrcFourShifts(a) \in Word
         /\ CrcFourShifts(a) = CrcFourShifts(b) => a = b
<1> DEFINE two(w) == CrcShift(CrcShift(w))
<1>1. \A w \in Word : two(w) \in Word
  BY CrcShiftWord
<1>2. \A v, w \in Word : two(v) = two(w) => v = w
  BY CrcShiftWord, CrcShiftInjective
<1>3. \A w : CrcFourShifts(w) = two(two(w))
  BY DEF CrcFourShifts
<1> HIDE DEF two
<1> QED
  BY <1>1, <1>2, <1>3

(* A byte is the sum of its bits.                                          *)
LEMMA ByteIsItsBits ==
  ASSUME NEW a \in Byte
  PROVE  a = (a % 2) + 2 * ((a \div 2) % 2) + 4 * ((a \div 4) % 2)
               + 8 * ((a \div 8) % 2) + 16 * ((a \div 16) % 2)
               + 32 * ((a \div 32) % 2) + 64 * ((a \div 64) % 2)
               + 128 * ((a \div 128) % 2)
<1>1. \A x \in Nat : x = 2 * (x \div 2) + (x % 2)
  OBVIOUS
<1>2. a \in Nat /\ a < 256
  BY DEF Byte
<1>3. /\ (a \div 2) \div 2 = a \div 4
      /\ (a \div 4) \div 2 = a \div 8
      /\ (a \div 8) \div 2 = a \div 16
      /\ (a \div 16) \div 2 = a \div 32
      /\ (a \div 32) \div 2 = a \div 64
      /\ (a \div 64) \div 2 = a \div 128
  BY <1>2
<1>4. (a \div 128) % 2 = a \div 128
  BY <1>2
<1>5. /\ a = 2 * (a \div 2) + (a % 2)
      /\ a \div 2 = 2 * (a \div 4) + ((a \div 2) % 2)
      /\ a \div 4 = 2 * (a \div 8) + ((a \div 4) % 2)
      /\ a \div 8 = 2 * (a \div 16) + ((a \div 8) % 2)
      /\ a \div 16 = 2 * (a \div 32) + ((a \div 16) % 2)
      /\ a \div 32 = 2 * (a \div 64) + ((a \div 32) % 2)
      /\ a \div 64 = 2 * (a \div 128) + ((a \div 64) % 2)
  BY <1>2, <1>3
<1> QED
  BY <1>2, <1>4, <1>5

LEMMA BitsInjective ==
  ASSUME NEW a \in Byte, NEW b \in Byte, BitsOf(a) = BitsOf(b)
  PROVE  a = b
<1>1. \A i \in 0 .. 7 : (a \div Weight[i + 1]) % 2 = 1 <=> (b \div Weight[i + 1]) % 2 = 1
  BY DEF BitsOf
<1>2. /\ a % 2 = 1 <=> b % 2 = 1
      /\ (a \div 2) % 2 = 1 <=> (b \div 2) % 2 = 1
      /\ (a \div 4) % 2 = 1 <=> (b \div 4) % 2 = 1
      /\ (a \div 8) % 2 = 1 <=> (b \div 8) % 2 = 1
      /\ (a \div 16) % 2 = 1 <=> (b \div 16) % 2 = 1
      /\ (a \div 32) % 2 = 1 <=> (b \div 32) % 2 = 1
      /\ (a \div 64) % 2 = 1 <=> (b \div 64) % 2 = 1
      /\ (a \div 128) % 2 = 1 <=> (b \div 128) % 2 = 1
  BY <1>1 DEF Weight, Byte
<1>3. \A x \in Nat : x % 2 \in {0, 1}
  OBVIOUS
<1>4. /\ a % 2 = b % 2
      /\ (a \div 2) % 2 = (b \div 2) % 2
      /\ (a \div 4) % 2 = (b \div 4) % 2
      /\ (a \div 8) % 2 = (b \div 8) % 2
      /\ (a \div 16) % 2 = (b \div 16) % 2
      /\ (a \div 32) % 2 = (b \div 32) % 2
      /\ (a \div 64) % 2 = (b \div 64) % 2
      /\ (a \div 128) % 2 = (b \div 128) % 2
  BY <1>2, <1>3 DEF Byte
<1> QED
  BY <1>4, ByteIsItsBits

LEMMA BitsWord ==
  ASSUME NEW a
  PROVE  BitsOf(a) \in Word
BY DEF BitsOf, Word

(* A byte makes different words of different words, and of one word so do  *)
(* different bytes.                                                        *)
LEMMA CrcByteInjective ==
  ASSUME NEW a \in Byte, NEW v \in Word
  PROVE  /\ CrcByte(a) \in [Word -> Word]
         /\ \A w \in Word : CrcByte(a)[v] = CrcByte(a)[w] => v = w
         /\ \A b \in Byte : CrcByte(a)[v] = CrcByte(b)[v] => a = b
<1> DEFINE eight(w) == CrcFourShifts(CrcFourShifts(w))
<1>1. \A w \in Word : eight(w) \in Word
  BY CrcFourShiftsInjective
<1>2. \A x, w \in Word : eight(x) = eight(w) => x = w
  BY CrcFourShiftsInjective
<1>3. \A c, w : w \in Word => CrcByte(c)[w] = eight(Xor(w, BitsOf(c)))
  BY DEF CrcByte, Word
<1>4. CrcByte(a) = [w \in Word |-> eight(Xor(w, BitsOf(a)))]
  BY DEF CrcByte, Word
<1>5. \A c, w : w \in Word => Xor(w, BitsOf(c)) \in Word
  BY BitsWord, XorWords
<1> HIDE DEF eight
<1>6. CrcByte(a) \in [Word -> Word]
  BY <1>1, <1>4, <1>5
<1>7. ASSUME NEW w \in Word, CrcByte(a)[v] = CrcByte(a)[w] PROVE v = w
  BY <1>2, <1>3, <1>5, <1>7, XorInjective
<1>8. ASSUME NEW b \in Byte, CrcByte(a)[v] = CrcByte(b)[v] PROVE a = b
  <2>1. Xor(v, BitsOf(a)) = Xor(v, BitsOf(b))
    BY <1>2, <1>3, <1>5, <1>8
  <2>2. BitsOf(a) = BitsOf(b)
    BY <2>1, XorInjective, XorCommutes
  <2> QED
    BY <2>2, BitsInjective
<1> QED
  BY <1>6, <1>7, <1>8

(* The checksum is computed byte for byte.                                 *)
LEMMA CrcAfterIs ==
  ASSUME NEW s \in Seq(Byte)
  PROVE  /\ CrcAfter(s) \in [0 .. Len(s) -> Word]
         /\ CrcAfter(s)[0] = 0 .. 31
         /\ \A n \in 1 .. Len(s) : CrcAfter(s)[n] = CrcByte(s[n])[CrcAfter(s)[n - 1]]
<1> DEFINE N == Len(s)
           P(h) == h = [n \in 0 .. N |-> IF n = 0 THEN 0 .. 31 ELSE CrcByte(s[n])[h[n - 1]]]
           base == 0 .. 31
           step == [p \in Word \X (1 .. N) |-> CrcByte(s[p[2]])[p[1]]]
<1>1. N \in Nat /\ \A n \in 1 .. N : s[n] \in Byte
  BY LenProperties, ElementOfSeq
<1>2. base \in Word
  BY DEF Word
<1>3. step \in [Word \X (1 .. N) -> Word]
  <2>1. \A w \in Word, n \in 1 .. N : CrcByte(s[n])[w] \in Word
    BY <1>1, CrcByteInjective
  <2> QED
    BY <2>1
<1>4. PICK g \in [0 .. N -> Word] :
        g[0] = base /\ \A n \in 1 .. N : g[n] = step[<<g[n - 1], n>>]
  <2> HIDE DEF step, N, base, Word
  <2>1. N \in Nat
    BY <1>1
  <2>2. \E g : Recursive(g, N, Word, base, step)
    BY <2>1, <1>2, <1>3, RecursionExists
  <2> QED
    BY <2>2 DEF Recursive
<1>5. \A n \in 1 .. N : step[<<g[n - 1], n>>] = CrcByte(s[n])[g[n - 1]]
  <2>1. \A n \in 1 .. N : n - 1 \in 0 .. N
    BY <1>1
  <2>2. \A n \in 1 .. N : g[n - 1] \in Word
    BY <1>4, <2>1
  <2> QED
    BY <2>2
<1>6. P(g)
  <2>1. \A n \in 0 .. N : g[n] = IF n = 0 THEN 0 .. 31 ELSE CrcByte(s[n])[g[n - 1]]
    <3> SUFFICES ASSUME NEW n \in 0 .. N
                 PROVE  g[n] = IF n = 0 THEN 0 .. 31 ELSE CrcByte(s[n])[g[n - 1]]
      OBVIOUS
    <3>1. CASE n = 0
      BY <1>4, <3>1
    <3>2. CASE n # 0
      <4>1. n \in 1 .. N
        BY <1>1, <3>2
      <4>2. g[n] = step[<<g[n - 1], n>>] /\ step[<<g[n - 1], n>>] = CrcByte(s[n])[g[n - 1]]
        BY <1>4, <1>5, <4>1
      <4> HIDE DEF step
      <4> QED
        BY <3>2, <4>2
    <3> QED
      BY <3>1, <3>2
  <2>2. g = [n \in 0 .. N |-> g[n]]
    BY <1>4
  <2> HIDE DEF step
  <2> QED
    BY <2>1, <2>2
<1>7. CrcAfter(s) = CHOOSE h : P(h)
  BY DEF CrcAfter
<1>8. P(CrcAfter(s))
  <2> HIDE DEF P
  <2> QED
    BY <1>6, <1>7
<1> DEFINE f == CrcAfter(s)
<1>9. /\ f[0] = 0 .. 31
      /\ \A n \in 1 .. N : f[n] = CrcByte(s[n])[f[n - 1]]
      /\ f = [n \in 0 .. N |-> f[n]]
  <2> HIDE DEF f
  <2>1. f = [n \in 0 .. N |-> IF n = 0 THEN 0 .. 31 ELSE CrcByte(s[n])[f[n - 1]]]
    BY <1>8 DEF f
  <2>2. \A n \in 0 .. N : f[n] = IF n = 0 THEN 0 .. 31 ELSE CrcByte(s[n])[f[n - 1]]
    BY <2>1
  <2>3. f = [n \in 0 .. N |-> f[n]]
    BY <2>1
  <2>4. 0 \in 0 .. N /\ \A n \in 1 .. N : n \in 0 .. N /\ n # 0
    BY <1>1
  <2> QED
    BY <2>2, <2>3, <2>4
<1>10. \A n \in 0 .. N : f[n] \in Word
  <2> DEFINE A == {n \in Nat : n <= N => f[n] \in Word}
  <2>1. 0 \in A
    BY <1>2, <1>9
  <2>2. ASSUME NEW n \in Nat, n \in A PROVE n + 1 \in A
    <3> SUFFICES ASSUME n + 1 <= N PROVE f[n + 1] \in Word
      OBVIOUS
    <3>1. f[n] \in Word /\ n + 1 \in 1 .. N /\ (n + 1) - 1 = n
      BY <2>2, <1>1
    <3>2. f[n + 1] = CrcByte(s[n + 1])[f[n]]
      BY <3>1, <1>9
    <3> QED
      BY <3>1, <3>2, <1>1, CrcByteInjective
  <2>3. Nat \subseteq A
    <3> HIDE DEF A
    <3> QED
      BY <2>1, <2>2, NatSetInduction
  <2> QED
    BY <1>1, <2>3
<1> HIDE DEF f
<1>11. f \in [0 .. N -> Word]
  BY <1>9, <1>10
<1> QED
  BY <1>9, <1>11 DEF f

(* The checksums of two texts that differ in one byte differ.              *)
LEMMA CrcTellsChange ==
  ASSUME NEW s \in Seq(Byte), NEW t \in Seq(Byte), Len(s) = Len(t),
         NEW i \in 1 .. Len(s), s[i] # t[i],
         \A j \in 1 .. Len(s) : j # i => s[j] = t[j]
  PROVE  Crc32(s) # Crc32(t)
<1> DEFINE N == Len(s)
           f == CrcAfter(s)
           g == CrcAfter(t)
           A == {n \in Nat : n <= N => (f[n] = g[n] <=> n < i)}
<1>1. N \in Nat /\ \A n \in 1 .. N : s[n] \in Byte /\ t[n] \in Byte
  BY LenProperties, ElementOfSeq
<1>2. /\ \A n \in 0 .. N : f[n] \in Word /\ g[n] \in Word
      /\ f[0] = g[0]
      /\ \A n \in 1 .. N : /\ f[n] = CrcByte(s[n])[f[n - 1]]
                           /\ g[n] = CrcByte(t[n])[g[n - 1]]
  <2> HIDE DEF f, g, N
  <2> QED
    BY CrcAfterIs DEF f, g, N
<1>3. 0 \in A
  BY <1>2
<1>4. ASSUME NEW n \in Nat, n \in A PROVE n + 1 \in A
  <2> HIDE DEF f, g
  <2> SUFFICES ASSUME n + 1 <= N PROVE f[n + 1] = g[n + 1] <=> n + 1 < i
    OBVIOUS
  <2>1. n + 1 \in 1 .. N /\ n \in 0 .. N /\ (f[n] = g[n] <=> n < i)
    BY <1>1, <1>4
  <2>2. /\ f[n + 1] = CrcByte(s[n + 1])[f[n]]
        /\ g[n + 1] = CrcByte(t[n + 1])[g[n]]
    BY <1>2, <2>1
  <2>3. f[n] \in Word /\ g[n] \in Word /\ s[n + 1] \in Byte /\ t[n + 1] \in Byte
    BY <1>1, <1>2, <2>1
  <2>4. CASE n + 1 < i
    <3>1. s[n + 1] = t[n + 1] /\ f[n] = g[n]
      BY <2>1, <2>4
    <3> QED
      BY <2>2, <2>4, <3>1
  <2>5. CASE n + 1 = i
    <3>1. s[n + 1] # t[n + 1] /\ f[n] = g[n]
      BY <2>1, <2>5
    <3>2. f[n + 1] # g[n + 1]
      BY <2>2, <2>3, <3>1, CrcByteInjective
    <3> QED
      BY <2>5, <3>2
  <2>6. CASE n + 1 > i
    <3>1. s[n + 1] = t[n + 1] /\ f[n] # g[n]
      BY <2>1, <2>6
    <3>2. f[n + 1] # g[n + 1]
      <4>1. PICK c \in Byte : c = s[n + 1]
        BY <2>3
      <4>2. f[n + 1] = CrcByte(c)[f[n]] /\ g[n + 1] = CrcByte(c)[g[n]]
        BY <2>2, <3>1, <4>1
      <4>3. \A w \in Word : CrcByte(c)[f[n]] = CrcByte(c)[w] => f[n] = w
        BY <2>3, CrcByteInjective
      <4> QED
        BY <2>3, <3>1, <4>2, <4>3
    <3> QED
      BY <2>6, <3>2
  <2> QED
    BY <2>4, <2>5, <2>6
<1>5. Nat \subseteq A
  <2> HIDE DEF A
  <2> QED
    BY <1>3, <1>4, NatSetInduction
<1>6. f[N] # g[N]
  BY <1>1, <1>5
<1>7. f[N] \in Word /\ g[N] \in Word
  BY <1>1, <1>2
<1> HIDE DEF f, g
<1>8. (0 .. 31) \ f[N] # (0 .. 31) \ g[N]
  BY <1>6, <1>7 DEF Word
<1> QED
  BY <1>8 DEF Crc32, f, g

(* Four bytes tell every word from every other.                            *)
LEMMA ByteOfInjective ==
  ASSUME NEW v \in Word, NEW w \in Word, NEW n \in 0 .. 3, ByteOf(v, n) = ByteOf(w, n)
  PROVE  \A i \in 0 .. 7 : 8 * n + i \in v <=> 8 * n + i \in w
<1>1. \A u \in Word : ByteOf(u, n) =
           (IF 8 * n + 0 \in u THEN 1 ELSE 0) + (IF 8 * n + 1 \in u THEN 2 ELSE 0)
         + (IF 8 * n + 2 \in u THEN 4 ELSE 0) + (IF 8 * n + 3 \in u THEN 8 ELSE 0)
         + (IF 8 * n + 4 \in u THEN 16 ELSE 0) + (IF 8 * n + 5 \in u THEN 32 ELSE 0)
         + (IF 8 * n + 6 \in u THEN 64 ELSE 0) + (IF 8 * n + 7 \in u THEN 128 ELSE 0)
  BY DEF ByteOf, Weight
<1>2. /\ 8 * n + 0 \in v <=> 8 * n + 0 \in w
      /\ 8 * n + 1 \in v <=> 8 * n + 1 \in w
      /\ 8 * n + 2 \in v <=> 8 * n + 2 \in w
      /\ 8 * n + 3 \in v <=> 8 * n + 3 \in w
      /\ 8 * n + 4 \in v <=> 8 * n + 4 \in w
      /\ 8 * n + 5 \in v <=> 8 * n + 5 \in w
      /\ 8 * n + 6 \in v <=> 8 * n + 6 \in w
      /\ 8 * n + 7 \in v <=> 8 * n + 7 \in w
  BY <1>1
<1> QED
  BY <1>2

LEMMA WordBytesInjective ==
  ASSUME NEW v \in Word, NEW w \in Word, WordBytes(v) = WordBytes(w)
  PROVE  v = w
<1>1. \A n \in 0 .. 3 : ByteOf(v, n) = ByteOf(w, n)
  BY DEF WordBytes
<1>2. ASSUME NEW j \in 0 .. 31 PROVE j \in v <=> j \in w
  <2>1. PICK n \in 0 .. 3 : \E i \in 0 .. 7 : j = 8 * n + i
    <3>1. j \div 8 \in 0 .. 3 /\ j % 8 \in 0 .. 7 /\ j = 8 * (j \div 8) + (j % 8)
      OBVIOUS
    <3> QED
      BY <3>1
  <2> QED
    BY <1>1, <2>1, ByteOfInjective
<1> QED
  BY <1>2 DEF Word

LEMMA WordBytesTyped ==
  ASSUME NEW w \in Word
  PROVE  /\ WordBytes(w) \in Seq(Byte)
         /\ Len(WordBytes(w)) = 4
<1>1. \A n \in 0 .. 3 : ByteOf(w, n) \in Byte
  BY DEF ByteOf, Weight, Byte
<1> QED
  BY <1>1 DEF WordBytes

LEMMA Crc32Typed ==
  ASSUME NEW s \in Seq(Byte)
  PROVE  Crc32(s) \in Word
BY DEF Crc32, Word
-----------------------------------------------------------------------------
(* Snapshots and the bytes of their payload.                               *)

Entry == Seq(0 .. 127) \X Seq(Byte)

LEMMA SnapshotTyped ==
  ASSUME NEW s \in Snapshots
  PROVE  /\ s \in Seq(Entry) /\ Len(s) \in Nat /\ DOMAIN s = 1 .. Len(s)
         /\ \A i \in 1 .. Len(s) : s[i] \in Entry
         /\ \A i, j \in 1 .. Len(s) : s[i][1] = s[j][1] => i = j
<1>1. s \in Seq(Entry) /\ \A i, j \in DOMAIN s : s[i][1] = s[j][1] => i = j
  BY CodecAssumption DEF Entry
<1> HIDE DEF Entry
<1> QED
  BY <1>1, LenProperties, ElementOfSeq

LEMMA EntryTyped ==
  ASSUME NEW e \in Entry
  PROVE  /\ e[1] \in Seq(Nat) /\ e[2] \in Seq(Nat)
         /\ Len(e[1]) \in Nat /\ Len(e[2]) \in Nat
         /\ e = <<e[1], e[2]>>
         /\ \A i \in 1 .. Len(e[1]) : e[1][i] \in 0 .. 127
         /\ \A i \in 1 .. Len(e[2]) : e[2][i] \in Byte
<1>1. e[1] \in Seq(0 .. 127) /\ e[2] \in Seq(Byte) /\ e = <<e[1], e[2]>>
  BY DEF Entry
<1>2. 0 .. 127 \subseteq Nat /\ Byte \subseteq Nat
  BY DEF Byte
<1>3. e[1] \in Seq(Nat) /\ e[2] \in Seq(Nat)
  BY <1>1, <1>2, SeqMonotonic
<1>4. Len(e[1]) \in Nat /\ Len(e[2]) \in Nat
  BY <1>3, LenProperties
<1>5. \A i \in 1 .. Len(e[1]) : e[1][i] \in 0 .. 127
  BY <1>1, ElementOfSeq
<1>6. \A i \in 1 .. Len(e[2]) : e[2][i] \in Byte
  BY <1>1, ElementOfSeq
<1> QED
  BY <1>1, <1>3, <1>4, <1>5, <1>6

LEMMA Le32Typed ==
  ASSUME NEW n \in Nat
  PROVE  /\ Le32(n) \in Seq(Nat) /\ Len(Le32(n)) = 4
         /\ n < Beyond => \A i \in 1 .. 4 : Le32(n)[i] \in Byte
<1>1. /\ n % 256 \in Byte /\ (n \div 256) % 256 \in Byte
      /\ (n \div (256 * 256)) % 256 \in Byte /\ n \div Beyond \in Nat
      /\ n < Beyond => n \div Beyond = 0
  BY DEF Byte, Beyond
<1>2. Byte \subseteq Nat /\ 0 \in Byte
  BY DEF Byte
<1> QED
  BY <1>1, <1>2 DEF Le32

(* A record is its two lengths, the key and the value.                     *)
LEMMA RecordIs ==
  ASSUME NEW e \in Entry
  PROVE  LET K == Len(e[1])
             V == Len(e[2])
             r == Record(e)
         IN /\ r \in Seq(Nat) /\ Len(r) = 8 + K + V
            /\ \A i \in 1 .. 4 : r[i] = Le32(K)[i] /\ r[4 + i] = Le32(V)[i]
            /\ \A i \in 1 .. K : r[8 + i] = e[1][i]
            /\ \A i \in 1 .. V : r[8 + K + i] = e[2][i]
<1> DEFINE K == Len(e[1])
           V == Len(e[2])
           a == Le32(K) \o Le32(V)
           b == a \o e[1]
           r == b \o e[2]
<1>1. K \in Nat /\ V \in Nat /\ e[1] \in Seq(Nat) /\ e[2] \in Seq(Nat)
  BY EntryTyped
<1>2. /\ Le32(K) \in Seq(Nat) /\ Len(Le32(K)) = 4
      /\ Le32(V) \in Seq(Nat) /\ Len(Le32(V)) = 4
  BY <1>1, Le32Typed
<1> HIDE DEF K, V
<1>3. /\ a \in Seq(Nat) /\ Len(a) = 8
      /\ \A i \in 1 .. 8 : a[i] = IF i <= 4 THEN Le32(K)[i] ELSE Le32(V)[i - 4]
  <2>1. /\ a \in Seq(Nat) /\ Len(a) = Len(Le32(K)) + Len(Le32(V))
        /\ \A i \in 1 .. Len(Le32(K)) + Len(Le32(V)) :
             a[i] = IF i <= Len(Le32(K)) THEN Le32(K)[i] ELSE Le32(V)[i - Len(Le32(K))]
    BY <1>2, ConcatProperties
  <2> HIDE DEF a
  <2> QED
    BY <1>2, <2>1
<1> HIDE DEF a
<1>4. /\ b \in Seq(Nat) /\ Len(b) = 8 + K
      /\ \A i \in 1 .. 8 + K : b[i] = IF i <= 8 THEN a[i] ELSE e[1][i - 8]
  <2>1. /\ b \in Seq(Nat) /\ Len(b) = Len(a) + Len(e[1])
        /\ \A i \in 1 .. Len(a) + Len(e[1]) :
             b[i] = IF i <= Len(a) THEN a[i] ELSE e[1][i - Len(a)]
    BY <1>1, <1>3, ConcatProperties
  <2> HIDE DEF b
  <2> QED
    BY <1>1, <1>3, <2>1 DEF K
<1> HIDE DEF b
<1>5. /\ r \in Seq(Nat) /\ Len(r) = 8 + K + V
      /\ \A i \in 1 .. 8 + K + V : r[i] = IF i <= 8 + K THEN b[i] ELSE e[2][i - (8 + K)]
  <2>1. /\ r \in Seq(Nat) /\ Len(r) = Len(b) + Len(e[2])
        /\ \A i \in 1 .. Len(b) + Len(e[2]) :
             r[i] = IF i <= Len(b) THEN b[i] ELSE e[2][i - Len(b)]
    BY <1>1, <1>4, ConcatProperties
  <2> HIDE DEF r
  <2> QED
    BY <1>1, <1>4, <2>1 DEF V
<1> HIDE DEF r
<1>6. ASSUME NEW i \in 1 .. 4
      PROVE  r[i] = Le32(K)[i] /\ r[4 + i] = Le32(V)[i]
  <2>1. /\ i \in 1 .. 8 /\ 4 + i \in 1 .. 8 /\ ~ (4 + i <= 4) /\ (4 + i) - 4 = i
        /\ i \in 1 .. 8 + K /\ 4 + i \in 1 .. 8 + K
        /\ i \in 1 .. 8 + K + V /\ 4 + i \in 1 .. 8 + K + V
        /\ i <= 4 /\ i <= 8 /\ 4 + i <= 8 /\ i <= 8 + K /\ 4 + i <= 8 + K
    BY <1>1
  <2>2. a[i] = Le32(K)[i] /\ a[4 + i] = Le32(V)[i]
    BY <1>3, <2>1
  <2>3. b[i] = a[i] /\ b[4 + i] = a[4 + i]
    BY <1>4, <2>1
  <2>4. r[i] = b[i] /\ r[4 + i] = b[4 + i]
    BY <1>5, <2>1
  <2> QED
    BY <2>2, <2>3, <2>4
<1>7. ASSUME NEW i \in 1 .. K
      PROVE  r[8 + i] = e[1][i]
  <2>1. /\ 8 + i \in 1 .. 8 + K /\ 8 + i \in 1 .. 8 + K + V
        /\ ~ (8 + i <= 8) /\ (8 + i) - 8 = i /\ 8 + i <= 8 + K
    BY <1>1
  <2>2. b[8 + i] = e[1][i]
    BY <1>4, <2>1
  <2>3. r[8 + i] = b[8 + i]
    BY <1>5, <2>1
  <2> QED
    BY <2>2, <2>3
<1>8. ASSUME NEW i \in 1 .. V
      PROVE  r[8 + K + i] = e[2][i]
  <2>1. /\ 8 + K + i \in 1 .. 8 + K + V
        /\ ~ (8 + K + i <= 8 + K) /\ (8 + K + i) - (8 + K) = i
    BY <1>1
  <2> QED
    BY <1>5, <2>1
<1>9. Record(e) = r
  BY DEF Record, r, b, a, K, V
<1> QED
  BY <1>5, <1>6, <1>7, <1>8, <1>9 DEF K, V

LEMMA RecordsAre ==
  ASSUME NEW s \in Snapshots
  PROVE  /\ Records(s) \in [0 .. Len(s) -> Seq(Nat)]
         /\ Records(s)[0] = <<>>
         /\ \A n \in 1 .. Len(s) : Records(s)[n] = Records(s)[n - 1] \o Record(s[n])
<1> DEFINE N == Len(s)
           P(h) == h = [n \in 0 .. N |-> IF n = 0 THEN <<>> ELSE h[n - 1] \o Record(s[n])]
           base == <<>>
           step == [p \in Seq(Nat) \X (1 .. N) |-> p[1] \o Record(s[p[2]])]
<1>1. N \in Nat /\ \A n \in 1 .. N : Record(s[n]) \in Seq(Nat)
  BY SnapshotTyped, RecordIs
<1>2. base \in Seq(Nat)
  OBVIOUS
<1>3. step \in [Seq(Nat) \X (1 .. N) -> Seq(Nat)]
  <2>1. \A w \in Seq(Nat), n \in 1 .. N : w \o Record(s[n]) \in Seq(Nat)
    BY <1>1, ConcatProperties
  <2> QED
    BY <2>1
<1>4. PICK g \in [0 .. N -> Seq(Nat)] :
        g[0] = base /\ \A n \in 1 .. N : g[n] = step[<<g[n - 1], n>>]
  <2> HIDE DEF step, N, base
  <2>1. N \in Nat
    BY <1>1
  <2>2. \E g : Recursive(g, N, Seq(Nat), base, step)
    BY <2>1, <1>2, <1>3, RecursionExists
  <2> QED
    BY <2>2 DEF Recursive
<1>5. \A n \in 1 .. N : step[<<g[n - 1], n>>] = g[n - 1] \o Record(s[n])
  <2>1. \A n \in 1 .. N : n - 1 \in 0 .. N
    BY <1>1
  <2>2. \A n \in 1 .. N : g[n - 1] \in Seq(Nat)
    BY <1>4, <2>1
  <2> QED
    BY <2>2
<1>6. P(g)
  <2>1. \A n \in 0 .. N : g[n] = IF n = 0 THEN <<>> ELSE g[n - 1] \o Record(s[n])
    <3> HIDE DEF step
    <3>1. \A n \in 0 .. N : n # 0 => n \in 1 .. N
      BY <1>1
    <3>2. g[0] = <<>>
      BY <1>4
    <3>3. \A n \in 1 .. N : g[n] = g[n - 1] \o Record(s[n])
      BY <1>4, <1>5
    <3> QED
      BY <3>1, <3>2, <3>3
  <2>2. g = [n \in 0 .. N |-> g[n]]
    BY <1>4
  <2> HIDE DEF step
  <2> QED
    BY <2>1, <2>2
<1>7. Records(s) = CHOOSE h : P(h)
  BY DEF Records
<1>8. P(Records(s))
  <2> HIDE DEF P
  <2> QED
    BY <1>6, <1>7
<1> DEFINE f == Records(s)
<1>9. /\ f[0] = <<>>
      /\ \A n \in 1 .. N : f[n] = f[n - 1] \o Record(s[n])
      /\ f = [n \in 0 .. N |-> f[n]]
  <2> HIDE DEF f
  <2>1. f = [n \in 0 .. N |-> IF n = 0 THEN <<>> ELSE f[n - 1] \o Record(s[n])]
    BY <1>8 DEF f
  <2>2. \A n \in 0 .. N : f[n] = IF n = 0 THEN <<>> ELSE f[n - 1] \o Record(s[n])
    BY <2>1
  <2>3. f = [n \in 0 .. N |-> f[n]]
    BY <2>1
  <2>4. 0 \in 0 .. N /\ \A n \in 1 .. N : n \in 0 .. N /\ n # 0
    BY <1>1
  <2> QED
    BY <2>2, <2>3, <2>4
<1>10. \A n \in 0 .. N : f[n] \in Seq(Nat)
  <2> DEFINE A == {n \in Nat : n <= N => f[n] \in Seq(Nat)}
  <2>1. 0 \in A
    BY <1>2, <1>9
  <2>2. ASSUME NEW n \in Nat, n \in A PROVE n + 1 \in A
    <3> SUFFICES ASSUME n + 1 <= N PROVE f[n + 1] \in Seq(Nat)
      OBVIOUS
    <3>1. f[n] \in Seq(Nat) /\ n + 1 \in 1 .. N /\ (n + 1) - 1 = n
      BY <2>2, <1>1
    <3>2. f[n + 1] = f[n] \o Record(s[n + 1])
      BY <3>1, <1>9
    <3> QED
      BY <3>1, <3>2, <1>1, ConcatProperties
  <2>3. Nat \subseteq A
    <3> HIDE DEF A
    <3> QED
      BY <2>1, <2>2, NatSetInduction
  <2> QED
    BY <1>1, <2>3
<1> HIDE DEF f
<1>11. f \in [0 .. N -> Seq(Nat)]
  BY <1>9, <1>10
<1> QED
  BY <1>9, <1>11 DEF f
(* Where record n ends in the payload, behind the count of the records.    *)
End(s, n) == 4 + Len(Records(s)[n])

(* Each record begins where the one before it ends.                        *)
LEMMA EndIs ==
  ASSUME NEW s \in Snapshots
  PROVE  /\ \A n \in 0 .. Len(s) : End(s, n) \in Nat
         /\ End(s, 0) = 4
         /\ \A n \in 1 .. Len(s) :
              End(s, n) = End(s, n - 1) + 8 + Len(s[n][1]) + Len(s[n][2])
<1> DEFINE N == Len(s)
           f == Records(s)
<1>1. N \in Nat
  BY SnapshotTyped
<1>2. /\ \A n \in 0 .. N : f[n] \in Seq(Nat)
      /\ f[0] = <<>>
      /\ \A n \in 1 .. N : f[n] = f[n - 1] \o Record(s[n])
  BY RecordsAre
<1> HIDE DEF f
<1>3. \A n \in 0 .. N : Len(f[n]) \in Nat
  BY <1>2, LenProperties
<1>4. Len(f[0]) = 0
  BY <1>2
<1>5. ASSUME NEW n \in 1 .. N
      PROVE  Len(f[n]) = Len(f[n - 1]) + 8 + Len(s[n][1]) + Len(s[n][2])
  <2>1. n - 1 \in 0 .. N
    BY <1>1
  <2>2. s[n] \in Entry
    BY SnapshotTyped
  <2>3. /\ Record(s[n]) \in Seq(Nat)
        /\ Len(Record(s[n])) = 8 + Len(s[n][1]) + Len(s[n][2])
        /\ Len(s[n][1]) \in Nat /\ Len(s[n][2]) \in Nat
    BY <2>2, RecordIs, EntryTyped
  <2>4. Len(f[n - 1] \o Record(s[n])) = Len(f[n - 1]) + Len(Record(s[n]))
    BY <1>2, <2>1, <2>3, ConcatProperties
  <2>5. Len(f[n - 1]) \in Nat
    BY <1>3, <2>1
  <2>6. PICK x \in Nat : x = Len(f[n - 1])
    BY <2>5
  <2>7. PICK k \in Nat : k = Len(s[n][1])
    BY <2>3
  <2>8. PICK v \in Nat : v = Len(s[n][2])
    BY <2>3
  <2>9. x + (8 + k + v) = x + 8 + k + v
    OBVIOUS
  <2>10. Len(f[n]) = x + (8 + k + v)
    BY <1>2, <2>3, <2>4, <2>6, <2>7, <2>8
  <2> QED
    BY <2>6, <2>7, <2>8, <2>9, <2>10
<1>6. ASSUME NEW n \in 1 .. N
      PROVE  End(s, n) = End(s, n - 1) + 8 + Len(s[n][1]) + Len(s[n][2])
  <2>1. n - 1 \in 0 .. N /\ n \in 0 .. N
    BY <1>1
  <2>2. s[n] \in Entry
    BY SnapshotTyped
  <2>3. Len(s[n][1]) \in Nat /\ Len(s[n][2]) \in Nat
    BY <2>2, EntryTyped
  <2>4. PICK x \in Nat : x = Len(f[n - 1])
    BY <1>3, <2>1
  <2>5. PICK y \in Nat : y = Len(f[n])
    BY <1>3, <2>1
  <2>6. End(s, n) = 4 + y /\ End(s, n - 1) = 4 + x
    BY <2>4, <2>5 DEF End, f
  <2>7. PICK k \in Nat : k = Len(s[n][1])
    BY <2>3
  <2>8. PICK v \in Nat : v = Len(s[n][2])
    BY <2>3
  <2>9. y = x + 8 + k + v
    BY <1>5, <2>4, <2>5, <2>7, <2>8
  <2>10. 4 + y = (4 + x) + 8 + k + v
    BY <2>9
  <2> QED
    BY <2>6, <2>7, <2>8, <2>10
<1>7. \A n \in 0 .. N : End(s, n) \in Nat
  BY <1>3 DEF End, f
<1>8. End(s, 0) = 4
  BY <1>4 DEF End, f
<1> QED
  BY <1>6, <1>7, <1>8

(* The records before record n are where they were, and every record takes *)
(* eight bytes or more.                                                    *)
LEMMA RecordsGrow ==
  ASSUME NEW s \in Snapshots, NEW n \in 0 .. Len(s), NEW m \in Nat, n + m <= Len(s)
  PROVE  /\ End(s, n + m) >= End(s, n) + 8 * m
         /\ \A i \in 1 .. Len(Records(s)[n]) : Records(s)[n + m][i] = Records(s)[n][i]
<1> DEFINE N == Len(s)
           f == Records(s)
           A == {k \in Nat : n + k <= N =>
                   /\ End(s, n + k) >= End(s, n) + 8 * k
                   /\ \A i \in 1 .. Len(f[n]) : f[n + k][i] = f[n][i]}
<1>1. N \in Nat /\ n \in Nat
  BY SnapshotTyped
<1>2. /\ \A k \in 0 .. N : f[k] \in Seq(Nat)
      /\ \A k \in 1 .. N : f[k] = f[k - 1] \o Record(s[k])
  BY RecordsAre
<1>3. 0 \in A
  <2>1. End(s, n) \in Nat /\ n + 0 = n
    BY <1>1, EndIs
  <2> QED
    BY <2>1
<1>4. ASSUME NEW k \in Nat, k \in A
      PROVE  k + 1 \in A
  <2> SUFFICES ASSUME n + (k + 1) <= N
               PROVE  /\ End(s, n + (k + 1)) >= End(s, n) + 8 * (k + 1)
                      /\ \A i \in 1 .. Len(f[n]) : f[n + (k + 1)][i] = f[n][i]
    OBVIOUS
  <2>1. PICK j \in 1 .. N : j = n + (k + 1) /\ j - 1 = n + k /\ j - 1 \in 0 .. N
    <3>1. /\ n + (k + 1) \in 1 .. N
          /\ (n + (k + 1)) - 1 = n + k /\ (n + (k + 1)) - 1 \in 0 .. N
      BY <1>1
    <3> QED
      BY <3>1
  <2>2. /\ End(s, j - 1) >= End(s, n) + 8 * k
        /\ \A i \in 1 .. Len(f[n]) : f[j - 1][i] = f[n][i]
    BY <1>1, <1>4, <2>1
  <2>3. s[j] \in Entry
    BY SnapshotTyped
  <2>4. Record(s[j]) \in Seq(Nat) /\ Len(s[j][1]) \in Nat /\ Len(s[j][2]) \in Nat
    BY <2>3, RecordIs, EntryTyped
  <2>5. End(s, j - 1) \in Nat /\ End(s, n) \in Nat
    BY <2>1, EndIs
  <2>6. End(s, j) = End(s, j - 1) + 8 + Len(s[j][1]) + Len(s[j][2])
    BY EndIs
  <2>7. End(s, j) >= End(s, n) + 8 * (k + 1)
    <3>1. PICK x \in Nat : x = End(s, j - 1)
      BY <2>5
    <3>2. PICK y \in Nat : y = End(s, n)
      BY <2>5
    <3>3. PICK a \in Nat : a = Len(s[j][1])
      BY <2>4
    <3>4. PICK b \in Nat : b = Len(s[j][2])
      BY <2>4
    <3>5. End(s, j) = x + 8 + a + b
      BY <2>6, <3>1, <3>3, <3>4
    <3>6. x >= y + 8 * k
      BY <2>2, <3>1, <3>2
    <3>7. x + 8 + a + b >= y + 8 * (k + 1)
      BY <3>6
    <3> QED
      BY <3>2, <3>5, <3>7
  <2> HIDE DEF f
  <2>8. ASSUME NEW i \in 1 .. Len(f[n])
        PROVE  f[j][i] = f[n][i]
    <3>1. Len(f[n]) \in Nat /\ Len(f[j - 1]) \in Nat /\ Len(Record(s[j])) \in Nat
      BY <1>2, <2>1, <2>4, LenProperties
    <3>2. Len(f[n]) <= Len(f[j - 1])
      <4>1. End(s, n) = 4 + Len(f[n]) /\ End(s, j - 1) = 4 + Len(f[j - 1])
        BY DEF End, f
      <4>2. PICK x \in Nat : x = Len(f[n])
        BY <3>1
      <4>3. PICK y \in Nat : y = Len(f[j - 1])
        BY <3>1
      <4>4. 4 + y >= 4 + x + 8 * k
        BY <2>2, <4>1, <4>2, <4>3
      <4>5. x <= y
        BY <4>4
      <4> QED
        BY <4>2, <4>3, <4>5
    <3>3. \A l \in 1 .. Len(f[j - 1]) + Len(Record(s[j])) :
            (f[j - 1] \o Record(s[j]))[l]
              = IF l <= Len(f[j - 1]) THEN f[j - 1][l] ELSE Record(s[j])[l - Len(f[j - 1])]
      <4>1. f[j - 1] \in Seq(Nat)
        BY <1>2, <2>1
      <4>2. Record(s[j]) \in Seq(Nat)
        BY <2>4
      <4> QED
        BY <4>1, <4>2, ConcatProperties
    <3>4. i \in 1 .. Len(f[j - 1]) + Len(Record(s[j])) /\ i <= Len(f[j - 1])
      <4>1. PICK x \in Nat : x = Len(f[n])
        BY <3>1
      <4>2. PICK y \in Nat : y = Len(f[j - 1])
        BY <3>1
      <4>3. PICK z \in Nat : z = Len(Record(s[j]))
        BY <3>1
      <4>4. x <= y /\ i \in 1 .. x
        BY <3>2, <4>1, <4>2
      <4>5. i \in 1 .. y + z /\ i <= y
        BY <4>4
      <4> QED
        BY <4>2, <4>3, <4>5
    <3>5. (f[j - 1] \o Record(s[j]))[i] = f[j - 1][i]
      BY <3>3, <3>4
    <3>6. f[j] = f[j - 1] \o Record(s[j])
      BY <1>2
    <3> QED
      BY <2>2, <3>5, <3>6
  <2> QED
    BY <2>1, <2>7, <2>8
<1>5. Nat \subseteq A
  <2> HIDE DEF A
  <2> QED
    BY <1>3, <1>4, NatSetInduction
<1> QED
  BY <1>5

(* The payload is the count and then the records, one behind the other.    *)
LEMMA PayloadIs ==
  ASSUME NEW s \in Snapshots
  PROVE  LET N == Len(s)
             p == Payload(s)
         IN /\ p \in Seq(Nat) /\ Len(p) \in Nat
            /\ Len(p) = End(s, N)
            /\ \A i \in 1 .. 4 : p[i] = Le32(N)[i]
            /\ \A n \in 0 .. N : End(s, n) <= Len(p) /\ End(s, n) >= 4 + 8 * n
            /\ \A n \in 1 .. N : \A i \in 1 .. Len(Record(s[n])) :
                 p[End(s, n - 1) + i] = Record(s[n])[i]
<1> DEFINE N == Len(s)
           f == Records(s)
           p == Payload(s)
<1>1. N \in Nat
  BY SnapshotTyped
<1>2. /\ \A k \in 0 .. N : f[k] \in Seq(Nat)
      /\ \A k \in 1 .. N : f[k] = f[k - 1] \o Record(s[k])
  BY RecordsAre
<1>3. Le32(N) \in Seq(Nat) /\ Len(Le32(N)) = 4
  BY <1>1, Le32Typed
<1>4. f[N] \in Seq(Nat) /\ Len(f[N]) \in Nat
  BY <1>1, <1>2, LenProperties
<1>5. p = Le32(N) \o f[N]
  BY DEF Payload
<1> HIDE DEF f, p
<1>6. /\ p \in Seq(Nat)
      /\ Len(p) = 4 + Len(f[N])
      /\ \A i \in 1 .. 4 + Len(f[N]) : p[i] = IF i <= 4 THEN Le32(N)[i] ELSE f[N][i - 4]
  <2>1. /\ Le32(N) \o f[N] \in Seq(Nat)
        /\ Len(Le32(N) \o f[N]) = Len(Le32(N)) + Len(f[N])
        /\ \A i \in 1 .. Len(Le32(N)) + Len(f[N]) :
             (Le32(N) \o f[N])[i] = IF i <= Len(Le32(N)) THEN Le32(N)[i] ELSE f[N][i - Len(Le32(N))]
    BY <1>3, <1>4, ConcatProperties
  <2> QED
    BY <1>3, <1>5, <2>1
<1>7. Len(p) = End(s, N)
  BY <1>6 DEF End, f
<1>8. \A i \in 1 .. 4 : p[i] = Le32(N)[i]
  <2>1. PICK L \in Nat : L = Len(f[N])
    BY <1>4
  <2>2. \A i \in 1 .. 4 : i \in 1 .. 4 + L /\ i <= 4
    OBVIOUS
  <2> QED
    BY <1>6, <2>1, <2>2
<1>9. ASSUME NEW n \in 0 .. N
      PROVE  End(s, n) <= Len(p) /\ End(s, n) >= 4 + 8 * n
  <2>1. End(s, n) \in Nat /\ End(s, N) \in Nat /\ End(s, 0) = 4
    BY <1>1, EndIs
  <2>2. PICK m \in Nat : n + m = N
    <3>1. N - n \in Nat /\ n + (N - n) = N
      BY <1>1
    <3> QED
      BY <3>1
  <2>3. End(s, n + m) >= End(s, n) + 8 * m
    BY <2>2, RecordsGrow
  <2>4. End(s, 0 + n) >= End(s, 0) + 8 * n
    <3>1. 0 \in 0 .. N /\ n \in Nat /\ 0 + n <= N
      BY <1>1
    <3> QED
      BY <3>1, RecordsGrow
  <2>5. 0 + n = n
    OBVIOUS
  <2> QED
    BY <1>7, <2>1, <2>2, <2>3, <2>4, <2>5
<1>10. ASSUME NEW n \in 1 .. N, NEW i \in 1 .. Len(Record(s[n]))
       PROVE  p[End(s, n - 1) + i] = Record(s[n])[i]
  <2>1. n - 1 \in 0 .. N /\ n \in 0 .. N
    BY <1>1
  <2>2. s[n] \in Entry
    BY SnapshotTyped
  <2>3. Record(s[n]) \in Seq(Nat) /\ Len(Record(s[n])) \in Nat
    BY <2>2, RecordIs, LenProperties
  <2>4. f[n - 1] \in Seq(Nat) /\ Len(f[n - 1]) \in Nat /\ f[n] \in Seq(Nat) /\ Len(f[n]) \in Nat
    BY <1>2, <2>1, LenProperties
  <2>5. /\ Len(f[n - 1] \o Record(s[n])) = Len(f[n - 1]) + Len(Record(s[n]))
        /\ \A l \in 1 .. Len(f[n - 1]) + Len(Record(s[n])) :
             (f[n - 1] \o Record(s[n]))[l]
               = IF l <= Len(f[n - 1]) THEN f[n - 1][l] ELSE Record(s[n])[l - Len(f[n - 1])]
    BY <2>3, <2>4, ConcatProperties
  <2>6. PICK x \in Nat : x = Len(f[n - 1])
    BY <2>4
  <2>7. x + i \in 1 .. Len(f[n]) /\ f[n][x + i] = Record(s[n])[i]
    <3>1. f[n] = f[n - 1] \o Record(s[n])
      BY <1>2
    <3>2. x + i \in 1 .. x + Len(Record(s[n])) /\ ~ (x + i <= x) /\ (x + i) - x = i
      BY <2>3
    <3> QED
      BY <2>5, <2>6, <3>1, <3>2
  <2>8. f[N][x + i] = f[n][x + i]
    <3>1. PICK m \in Nat : n + m = N
      <4>1. N - n \in Nat /\ n + (N - n) = N
        BY <1>1
      <4> QED
        BY <4>1
    <3>2. \A l \in 1 .. Len(Records(s)[n]) : Records(s)[n + m][l] = Records(s)[n][l]
      <4>1. n + m <= Len(s)
        BY <1>1, <3>1
      <4> QED
        BY <2>1, <4>1, RecordsGrow
    <3> QED
      BY <2>7, <3>1, <3>2 DEF f
  <2>9. Len(f[n]) <= Len(f[N])
    <3>1. End(s, n) <= Len(p)
      BY <1>9, <2>1
    <3>2. End(s, n) = 4 + Len(f[n])
      BY DEF End, f
    <3> QED
      BY <1>4, <1>6, <2>4, <3>1, <3>2
  <2>10. 4 + x + i \in 1 .. 4 + Len(f[N]) /\ ~ (4 + x + i <= 4) /\ (4 + x + i) - 4 = x + i
    BY <1>4, <2>4, <2>7, <2>9
  <2>11. p[4 + x + i] = f[N][x + i]
    BY <1>6, <2>10
  <2>12. End(s, n - 1) = 4 + x
    BY <2>6 DEF End, f
  <2> QED
    BY <2>7, <2>8, <2>11, <2>12
<1>11. Len(p) \in Nat
  BY <1>4, <1>6
<1> QED
  BY <1>6, <1>7, <1>8, <1>9, <1>10, <1>11 DEF p
-----------------------------------------------------------------------------
(* The decoder.                                                            *)

(* Taking succeeds as long as the bytes last.                              *)
LEMMA TakeIs ==
  ASSUME NEW bytes \in Seq(Nat), NEW c \in Nat, NEW l \in Nat
  PROVE  /\ c + l > Len(bytes) => Take(bytes, c, l) = Err
         /\ c + l <= Len(bytes) =>
              LET t == Take(bytes, c, l) IN
              /\ t \in Seq(Nat) /\ t # Err /\ Len(t) = l
              /\ \A i \in 1 .. l : t[i] = bytes[c + i]
<1>1. PICK n \in Nat : n = Len(bytes)
  BY LenProperties
<1>2. ASSUME c + l > n
      PROVE  Take(bytes, c, l) = Err
  <2>1. l > n - c
    BY <1>2
  <2> QED
    BY <1>1, <2>1 DEF Take
<1>3. ASSUME c + l <= n
      PROVE  LET t == Take(bytes, c, l) IN
             /\ t \in Seq(Nat) /\ t # Err /\ Len(t) = l
             /\ \A i \in 1 .. l : t[i] = bytes[c + i]
  <2> DEFINE t == SubSeq(bytes, c + 1, c + l)
  <2>1. ~ (l > n - c)
    BY <1>3
  <2>2. Take(bytes, c, l) = t
    BY <1>1, <2>1 DEF Take
  <2>3. \A i \in c + 1 .. c + l : bytes[i] \in Nat
    <3>1. \A i \in c + 1 .. c + l : i \in 1 .. n
      BY <1>3
    <3> QED
      BY <1>1, <3>1, ElementOfSeq
  <2>4. c + 1 \in Int /\ c + l \in Int
    OBVIOUS
  <2>5. /\ t \in Seq(Nat)
        /\ Len(t) = IF c + 1 <= c + l THEN (c + l) - (c + 1) + 1 ELSE 0
        /\ \A i \in 1 .. (c + l) - (c + 1) + 1 : t[i] = bytes[(c + 1) + i - 1]
    BY <2>3, <2>4, SubSeqProperties
  <2>6. /\ (IF c + 1 <= c + l THEN (c + l) - (c + 1) + 1 ELSE 0) = l
        /\ (c + l) - (c + 1) + 1 = l
        /\ \A i \in 1 .. l : (c + 1) + i - 1 = c + i
    OBVIOUS
  <2>7. Len(t) = l /\ \A i \in 1 .. l : t[i] = bytes[c + i]
    BY <2>5, <2>6
  <2>8. t # Err
    BY <2>5, CodecAssumption
  <2> QED
    BY <2>2, <2>5, <2>7, <2>8
<1> QED
  BY <1>1, <1>2, <1>3

(* A number is read back where it was written, as far as the bytes reach.  *)
LEMMA ReadIs ==
  ASSUME NEW bytes \in Seq(Nat), NEW c \in Nat, NEW n \in Nat,
         \A i \in 1 .. 4 : c + i <= Len(bytes) => bytes[c + i] = Le32(n)[i]
  PROVE  /\ c + 4 > Len(bytes) => ReadU32(bytes, c) = Err
         /\ c + 4 <= Len(bytes) => ReadU32(bytes, c) = IF n < Beyond THEN n ELSE Beyond
<1>1. CASE c + 4 > Len(bytes)
  BY <1>1, TakeIs DEF ReadU32
<1>2. CASE c + 4 <= Len(bytes)
  <2> DEFINE b == Take(bytes, c, 4)
  <2>1. b # Err /\ \A i \in 1 .. 4 : b[i] = bytes[c + i]
    BY <1>2, TakeIs
  <2>2. \A i \in 1 .. 4 : c + i <= Len(bytes)
    <3>1. PICK m \in Nat : m = Len(bytes)
      BY LenProperties
    <3>2. \A i \in 1 .. 4 : c + i <= m
      BY <1>2, <3>1
    <3> QED
      BY <3>1, <3>2
  <2>3. /\ b[1] = n % 256 /\ b[2] = (n \div 256) % 256
        /\ b[3] = (n \div (256 * 256)) % 256 /\ b[4] = n \div Beyond
    BY <2>1, <2>2 DEF Le32
  <2>4. ReadU32(bytes, c) = IF n \div Beyond # 0 THEN Beyond
                            ELSE (n % 256) + 256 * ((n \div 256) % 256)
                                   + 256 * 256 * ((n \div (256 * 256)) % 256)
    <3>1. ReadU32(bytes, c) = IF b = Err THEN Err
                              ELSE IF b[4] # 0 THEN Beyond
                              ELSE b[1] + 256 * b[2] + 256 * 256 * b[3]
      BY DEF ReadU32
    <3> HIDE DEF b
    <3> QED
      BY <2>1, <2>3, <3>1
  <2>5. n < Beyond <=> n \div Beyond = 0
    BY DEF Beyond
  <2>6. ASSUME n < Beyond
        PROVE  (n % 256) + 256 * ((n \div 256) % 256)
                 + 256 * 256 * ((n \div (256 * 256)) % 256) = n
    <3>1. n = 256 * (n \div 256) + (n % 256)
      OBVIOUS
    <3>2. n \div 256 = 256 * ((n \div 256) \div 256) + ((n \div 256) % 256)
      OBVIOUS
    <3>3. (n \div 256) \div 256 = n \div (256 * 256)
      OBVIOUS
    <3>4. (n \div (256 * 256)) % 256 = n \div (256 * 256)
      BY <2>6 DEF Beyond
    <3> QED
      BY <3>1, <3>2, <3>3, <3>4
  <2>7. ReadU32(bytes, c) = IF n < Beyond THEN n ELSE Beyond
    <3>1. CASE n < Beyond
      <4>1. n \div Beyond = 0
        BY <2>5, <3>1
      <4> QED
        BY <2>4, <2>6, <3>1, <4>1
    <3>2. CASE ~ (n < Beyond)
      <4>1. n \div Beyond # 0
        BY <2>5, <3>2
      <4> QED
        BY <2>4, <3>2, <4>1
    <3> QED
      BY <3>1, <3>2
  <2>8. ~ (c + 4 > Len(bytes))
    <3>1. PICK m \in Nat : m = Len(bytes)
      BY LenProperties
    <3>2. ~ (c + 4 > m)
      BY <1>2, <3>1
    <3> QED
      BY <3>1, <3>2
  <2> QED
    BY <2>7, <2>8
<1>3. Len(bytes) \in Nat
  BY LenProperties
<1> QED
  BY <1>1, <1>2, <1>3

(* The decoder behind the first n records. *)
At(s, n) == [cursor |-> End(s, n), restored |-> {s[i] : i \in 1 .. n}]

LEMMA AtTyped ==
  ASSUME NEW s \in Snapshots, NEW n \in 0 .. Len(s)
  PROVE  At(s, n) # Err
<1>1. End(s, n) \in Nat
  BY EndIs
<1>2. \A i \in 1 .. n : s[i] \in Seq(Nat) \X Seq(Nat)
  <2>1. \A i \in 1 .. n : i \in 1 .. Len(s)
    BY SnapshotTyped
  <2>2. \A i \in 1 .. n : s[i] \in Entry
    BY <2>1, SnapshotTyped
  <2>3. \A e \in Entry : e \in Seq(Nat) \X Seq(Nat)
    BY EntryTyped
  <2> QED
    BY <2>2, <2>3
<1>3. At(s, n) \in Cursors
  BY <1>1, <1>2 DEF At, Cursors
<1> QED
  BY <1>3, CodecAssumption

(* These bytes are those of the payload, except that they may end sooner   *)
(* or later.                                                               *)
Agrees(bytes, p) == \A i \in 1 .. Len(bytes) : i <= Len(p) => bytes[i] = p[i]

(* Each round of the loop finds the record that is next, or that the bytes *)
(* do not last.                                                            *)
LEMMA RoundIs ==
  ASSUME NEW s \in Snapshots, NEW bytes \in Seq(Nat), Agrees(bytes, Payload(s)),
         Len(bytes) < Beyond, NEW n \in 1 .. Len(s), End(s, n - 1) <= Len(bytes)
  PROVE  DecodeRecord(bytes, At(s, n - 1))
           = IF End(s, n) <= Len(bytes) THEN At(s, n) ELSE Err
<1> DEFINE p == Payload(s)
           r == Record(s[n])
           at == At(s, n - 1)
<1>1. n \in Nat /\ n - 1 \in 0 .. Len(s) /\ n \in 0 .. Len(s) /\ Len(s) \in Nat
  BY SnapshotTyped
<1>2. PICK c \in Nat : c = End(s, n - 1)
  BY <1>1, EndIs
<1>3. s[n] \in Entry
  BY SnapshotTyped
<1>4. PICK key \in Seq(Nat) : key = s[n][1]
  BY <1>3, EntryTyped
<1>5. PICK value \in Seq(Nat) : value = s[n][2]
  BY <1>3, EntryTyped
<1>6. PICK K \in Nat : K = Len(key)
  BY LenProperties
<1>7. PICK V \in Nat : V = Len(value)
  BY LenProperties
<1>8. PICK L \in Nat : L = Len(bytes)
  BY LenProperties
<1>9. /\ Len(r) = 8 + K + V
      /\ \A i \in 1 .. 4 : r[i] = Le32(K)[i] /\ r[4 + i] = Le32(V)[i]
      /\ \A i \in 1 .. K : r[8 + i] = key[i]
      /\ \A i \in 1 .. V : r[8 + K + i] = value[i]
  BY <1>3, <1>4, <1>5, <1>6, <1>7, RecordIs
<1>10. End(s, n) = c + 8 + K + V
  BY <1>2, <1>4, <1>5, <1>6, <1>7, EndIs
<1>11. ASSUME NEW i \in 1 .. 8 + K + V, c + i <= L
       PROVE  bytes[c + i] = r[i]
  <2>1. p[c + i] = r[i]
    <3>1. i \in 1 .. Len(Record(s[n]))
      BY <1>9
    <3>2. Payload(s)[End(s, n - 1) + i] = Record(s[n])[i]
      BY <3>1, PayloadIs
    <3> QED
      BY <1>2, <3>2
  <2>2. PICK P \in Nat : P = Len(p) /\ c + 8 + K + V <= P
    BY <1>1, <1>10, PayloadIs
  <2>3. c + i \in 1 .. L /\ c + i <= P
    BY <1>11, <2>2
  <2> QED
    BY <1>8, <2>1, <2>2, <2>3 DEF Agrees
<1>12. at # Err /\ at.cursor = c /\ at.restored = {s[i] : i \in 1 .. n - 1}
  BY <1>1, <1>2, AtTyped DEF At
<1> DEFINE least(x) == IF x < Beyond THEN x ELSE Beyond
<1>13. /\ c + 4 > L => ReadU32(bytes, c) = Err
       /\ c + 4 <= L => ReadU32(bytes, c) = least(K)
  <2>1. \A i \in 1 .. 4 : c + i <= Len(bytes) => bytes[c + i] = Le32(K)[i]
    <3>1. \A i \in 1 .. 4 : i \in 1 .. 8 + K + V
      OBVIOUS
    <3> QED
      BY <1>8, <1>9, <1>11, <3>1
  <2> QED
    BY <1>8, <2>1, ReadIs
<1>14. /\ c + 8 > L => ReadU32(bytes, c + 4) = Err
       /\ c + 8 <= L => ReadU32(bytes, c + 4) = least(V)
  <2>1. \A i \in 1 .. 4 : (c + 4) + i <= Len(bytes) => bytes[(c + 4) + i] = Le32(V)[i]
    <3>1. \A i \in 1 .. 4 : 4 + i \in 1 .. 8 + K + V /\ (c + 4) + i = c + (4 + i)
      OBVIOUS
    <3> QED
      BY <1>8, <1>9, <1>11, <3>1
  <2>2. c + 4 \in Nat /\ (c + 4) + 4 = c + 8
    OBVIOUS
  <2> QED
    BY <1>8, <2>1, <2>2, ReadIs
<1>15. L < Beyond /\ Beyond \in Nat
  BY <1>8 DEF Beyond
<1> DEFINE keyLen == ReadU32(bytes, c)
           valueLen == ReadU32(bytes, c + 4)
           k == Take(bytes, c + 8, keyLen)
           v == Take(bytes, c + 8 + keyLen, valueLen)
<1>16. DecodeRecord(bytes, at) =
         IF \/ keyLen = Err \/ valueLen = Err
            \/ k = Err \/ v = Err
            \/ \E i \in DOMAIN k : k[i] > 127
            \/ \E entry \in at.restored : entry[1] = k
         THEN Err
         ELSE [cursor   |-> c + 8 + keyLen + valueLen,
               restored |-> at.restored \cup {<<k, v>>}]
  <2> HIDE DEF at
  <2> QED
    BY <1>12 DEF DecodeRecord
<1> HIDE DEF at, p, r
<1>17. CASE c + 8 + K + V <= L
  <2>1. /\ K < Beyond /\ V < Beyond /\ c + 4 <= L /\ c + 8 <= L
        /\ c + 8 + K <= L
    BY <1>15, <1>17
  <2>2. keyLen = K /\ valueLen = V
    BY <1>13, <1>14, <2>1
  <2>3. k = key /\ k # Err
    <3> DEFINE t == Take(bytes, c + 8, K)
    <3>1. t \in Seq(Nat) /\ t # Err /\ Len(t) = K /\ \A i \in 1 .. K : t[i] = bytes[(c + 8) + i]
      <4>1. c + 8 \in Nat /\ (c + 8) + K <= Len(bytes)
        BY <1>8, <2>1
      <4> QED
        BY <4>1, TakeIs
    <3>2. \A i \in 1 .. K : t[i] = key[i]
      <4> SUFFICES ASSUME NEW i \in 1 .. K PROVE t[i] = key[i]
        OBVIOUS
      <4>1. /\ 8 + i \in 1 .. 8 + K + V /\ (c + 8) + i = c + (8 + i)
            /\ c + (8 + i) <= L
        BY <2>1
      <4>2. t[i] = bytes[(c + 8) + i]
        BY <3>1
      <4>3. bytes[c + (8 + i)] = r[8 + i]
        BY <1>11, <4>1
      <4>4. r[8 + i] = key[i]
        BY <1>9
      <4> QED
        BY <4>1, <4>2, <4>3, <4>4
    <3> HIDE DEF t
    <3>3. t = key
      BY <1>6, <3>1, <3>2, SeqEqual
    <3> QED
      BY <2>2, <3>1, <3>3 DEF t
  <2>4. v = value /\ v # Err
    <3> DEFINE t == Take(bytes, c + 8 + K, V)
    <3>1. t \in Seq(Nat) /\ t # Err /\ Len(t) = V /\ \A i \in 1 .. V : t[i] = bytes[(c + 8 + K) + i]
      <4>1. c + 8 + K \in Nat /\ (c + 8 + K) + V = c + 8 + K + V
        OBVIOUS
      <4> QED
        BY <1>8, <1>17, <4>1, TakeIs
    <3>2. \A i \in 1 .. V : t[i] = value[i]
      <4> SUFFICES ASSUME NEW i \in 1 .. V PROVE t[i] = value[i]
        OBVIOUS
      <4>1. /\ 8 + K + i \in 1 .. 8 + K + V /\ (c + 8 + K) + i = c + (8 + K + i)
            /\ c + (8 + K + i) <= L
        BY <1>17
      <4>2. t[i] = bytes[(c + 8 + K) + i]
        BY <3>1
      <4>3. bytes[c + (8 + K + i)] = r[8 + K + i]
        BY <1>11, <4>1
      <4>4. r[8 + K + i] = value[i]
        BY <1>9
      <4> QED
        BY <4>1, <4>2, <4>3, <4>4
    <3> HIDE DEF t
    <3>3. t = value
      BY <1>7, <3>1, <3>2, SeqEqual
    <3> QED
      BY <2>2, <3>1, <3>3 DEF t
  <2>5. keyLen # Err /\ valueLen # Err
    BY <2>2, CodecAssumption
  <2>6. ~ \E i \in DOMAIN k : k[i] > 127
    <3>1. DOMAIN key = 1 .. K /\ \A i \in 1 .. K : key[i] \in 0 .. 127
      BY <1>3, <1>4, <1>6, LenProperties, EntryTyped
    <3> SUFFICES ASSUME NEW i \in 1 .. K PROVE ~ (key[i] > 127)
      BY <2>3, <3>1
    <3>2. PICK x \in 0 .. 127 : x = key[i]
      BY <3>1
    <3>3. ~ (x > 127)
      OBVIOUS
    <3> QED
      BY <3>2, <3>3
  <2>7. ~ \E entry \in at.restored : entry[1] = k
    <3> SUFFICES ASSUME NEW i \in 1 .. n - 1 PROVE s[i][1] # s[n][1]
      BY <1>4, <1>12, <2>3
    <3>1. i \in 1 .. Len(s) /\ n \in 1 .. Len(s) /\ i # n
      BY <1>1
    <3> QED
      BY <3>1, SnapshotTyped
  <2>8. DecodeRecord(bytes, at) = [cursor   |-> c + 8 + keyLen + valueLen,
                                   restored |-> at.restored \cup {<<k, v>>}]
    BY <1>16, <2>3, <2>4, <2>5, <2>6, <2>7
  <2>9. s[n] = <<k, v>>
    BY <1>3, <1>4, <1>5, <2>3, <2>4, EntryTyped
  <2>10. at.restored \cup {<<k, v>>} = {s[i] : i \in 1 .. n}
    <3>1. 1 .. n = (1 .. n - 1) \cup {n}
      BY <1>1
    <3> HIDE DEF k, v
    <3> QED
      BY <1>12, <2>9, <3>1
  <2>11. c + 8 + keyLen + valueLen = End(s, n)
    BY <1>10, <2>2
  <2> QED
    BY <1>8, <1>10, <1>17, <2>8, <2>10, <2>11 DEF At, at
<1>18. CASE c + 8 + K + V > L
  <2>1. keyLen = Err \/ valueLen = Err \/ k = Err \/ v = Err
    <3> SUFFICES ASSUME keyLen # Err, valueLen # Err, k # Err PROVE v = Err
      OBVIOUS
    <3>1. c + 4 <= L /\ c + 8 <= L
      BY <1>13, <1>14
    <3>2. keyLen = least(K) /\ valueLen = least(V)
      BY <1>13, <1>14, <3>1
    <3>3. PICK x \in Nat : x = least(K) /\ x = keyLen
      BY <1>15, <3>2
    <3>4. PICK y \in Nat : y = least(V) /\ y = valueLen
      BY <1>15, <3>2
    <3>5. c + 8 + x <= L
      <4>1. c + 8 \in Nat
        OBVIOUS
      <4>2. ~ (c + 8 + x > L)
        BY <1>8, <3>3, <4>1, TakeIs
      <4> QED
        BY <4>2
    <3>6. x = K
      BY <1>15, <3>3, <3>5
    <3>7. c + 8 + x + y > L
      BY <1>15, <1>18, <3>4, <3>6
    <3>8. c + 8 + x \in Nat
      OBVIOUS
    <3>9. Take(bytes, c + 8 + x, y) = Err
      BY <1>8, <3>7, <3>8, TakeIs
    <3> QED
      BY <3>3, <3>4, <3>9
  <2>2. DecodeRecord(bytes, at) = Err
    BY <1>16, <2>1
  <2>3. ~ (End(s, n) <= Len(bytes))
    BY <1>8, <1>10, <1>18
  <2> QED
    BY <2>2, <2>3 DEF at
<1> QED
  BY <1>17, <1>18
(* The decoder keeps to the records as long as the bytes last.             *)
LEMMA DecodedIs ==
  ASSUME NEW s \in Snapshots, NEW bytes \in Seq(Nat), Agrees(bytes, Payload(s)),
         4 <= Len(bytes), Len(bytes) < Beyond, NEW rounds \in 0 .. Len(s)
  PROVE  Decoded(bytes, rounds)[rounds]
           = IF End(s, rounds) <= Len(bytes) THEN At(s, rounds) ELSE Err
<1> DEFINE P(h) == h = [n \in 0 .. rounds |->
                          IF n = 0 THEN [cursor |-> 4, restored |-> {}]
                          ELSE DecodeRecord(bytes, h[n - 1])]
           there(n) == IF End(s, n) <= Len(bytes) THEN At(s, n) ELSE Err
           g == [n \in 0 .. rounds |-> there(n)]
<1>1. /\ rounds \in Nat /\ Len(s) \in Nat
      /\ \A n \in 0 .. rounds : n \in 0 .. Len(s)
      /\ \A n \in 1 .. rounds : n \in 1 .. Len(s) /\ n - 1 \in 0 .. Len(s) /\ n - 1 \in 0 .. rounds
  BY SnapshotTyped
<1>2. there(0) = [cursor |-> 4, restored |-> {}]
  <2>1. End(s, 0) = 4
    BY EndIs
  <2>2. {s[i] : i \in 1 .. 0} = {}
    OBVIOUS
  <2> QED
    BY <2>1, <2>2 DEF At
<1>3. ASSUME NEW n \in 1 .. rounds
      PROVE  there(n) = DecodeRecord(bytes, there(n - 1))
  <2>1. CASE End(s, n - 1) <= Len(bytes)
    BY <1>1, <2>1, RoundIs
  <2>2. CASE ~ (End(s, n - 1) <= Len(bytes))
    <3>1. PICK L \in Nat : L = Len(bytes)
      BY LenProperties
    <3>2. PICK x \in Nat : x = End(s, n - 1)
      BY <1>1, EndIs
    <3>3. n \in 1 .. Len(s) /\ s[n] \in Entry
      BY <1>1, SnapshotTyped
    <3>4. PICK k \in Nat : k = Len(s[n][1])
      BY <3>3, EntryTyped
    <3>5. PICK v \in Nat : v = Len(s[n][2])
      BY <3>3, EntryTyped
    <3>6. End(s, n) = x + 8 + k + v
      BY <3>2, <3>3, <3>4, <3>5, EndIs
    <3>7. ~ (x + 8 + k + v <= L)
      <4>1. ~ (x <= L)
        BY <2>2, <3>1, <3>2
      <4> QED
        BY <4>1
    <3>8. there(n - 1) = Err /\ there(n) = Err
      BY <2>2, <3>1, <3>6, <3>7
    <3> QED
      BY <3>8 DEF DecodeRecord
  <2> QED
    BY <2>1, <2>2
<1> HIDE DEF there
<1>4. P(g)
  <2>1. \A n \in 0 .. rounds : g[n] = IF n = 0 THEN [cursor |-> 4, restored |-> {}]
                                      ELSE DecodeRecord(bytes, g[n - 1])
    <3>1. ASSUME NEW n \in 0 .. rounds, n # 0
          PROVE  g[n] = DecodeRecord(bytes, g[n - 1])
      <4>1. n \in 1 .. rounds /\ n - 1 \in 0 .. rounds
        BY <1>1, <3>1
      <4>2. g[n - 1] = there(n - 1) /\ g[n] = there(n)
        BY <4>1
      <4> QED
        BY <1>3, <4>1, <4>2
    <3>2. g[0] = there(0)
      BY <1>1
    <3> HIDE DEF g
    <3> QED
      BY <1>2, <3>1, <3>2
  <2>2. g = [n \in 0 .. rounds |-> g[n]]
    OBVIOUS
  <2> HIDE DEF g
  <2> QED
    BY <2>1, <2>2
<1>5. Decoded(bytes, rounds) = CHOOSE h : P(h)
  BY DEF Decoded
<1>6. P(Decoded(bytes, rounds))
  <2> HIDE DEF P, g
  <2> QED
    BY <1>4, <1>5
<1> DEFINE f == Decoded(bytes, rounds)
<1>7. /\ f[0] = there(0)
      /\ \A n \in 1 .. rounds : f[n] = DecodeRecord(bytes, f[n - 1])
  <2> HIDE DEF f
  <2>1. f = [n \in 0 .. rounds |-> IF n = 0 THEN [cursor |-> 4, restored |-> {}]
                                   ELSE DecodeRecord(bytes, f[n - 1])]
    BY <1>6 DEF f
  <2>2. \A n \in 0 .. rounds : f[n] = IF n = 0 THEN [cursor |-> 4, restored |-> {}]
                                      ELSE DecodeRecord(bytes, f[n - 1])
    BY <2>1
  <2>3. 0 \in 0 .. rounds /\ \A n \in 1 .. rounds : n \in 0 .. rounds /\ n # 0
    BY <1>1
  <2> QED
    BY <1>2, <2>2, <2>3
<1> HIDE DEF f
<1> DEFINE A == {n \in Nat : n <= rounds => f[n] = there(n)}
<1>8. 0 \in A
  BY <1>7
<1>9. ASSUME NEW n \in Nat, n \in A
      PROVE  n + 1 \in A
  <2> SUFFICES ASSUME n + 1 <= rounds PROVE f[n + 1] = there(n + 1)
    OBVIOUS
  <2>1. n + 1 \in 1 .. rounds /\ (n + 1) - 1 = n /\ f[n] = there(n)
    BY <1>1, <1>9
  <2> QED
    BY <1>3, <1>7, <2>1
<1>10. Nat \subseteq A
  <2> HIDE DEF A
  <2> QED
    BY <1>8, <1>9, NatSetInduction
<1>11. f[rounds] = there(rounds)
  BY <1>1, <1>10
<1> QED
  BY <1>11 DEF f, there

(* The records are read back as they were written, and no bytes of another *)
(* length that agree with them are read at all.                            *)
LEMMA DecodeRecordsIs ==
  ASSUME NEW s \in Snapshots, NEW bytes \in Seq(Nat), Agrees(bytes, Payload(s)),
         Len(bytes) < Beyond
  PROVE  DecodeRecords(bytes)
           = IF Len(bytes) = Len(Payload(s)) THEN Range(s) ELSE Err
<1> DEFINE p == Payload(s)
           N == Len(s)
           count == ReadU32(bytes, 0)
           rounds == Rounds(bytes, count)
           last == Decoded(bytes, rounds)[rounds]
<1>1. PICK L \in Nat : L = Len(bytes)
  BY LenProperties
<1>2. /\ p \in Seq(Nat) /\ Len(p) = End(s, N)
      /\ \A i \in 1 .. 4 : p[i] = Le32(N)[i]
      /\ \A n \in 0 .. N : End(s, n) <= Len(p) /\ End(s, n) >= 4 + 8 * n
  BY PayloadIs
<1>3. PICK P \in Nat : P = Len(p)
  BY <1>2, LenProperties
<1>4. N \in Nat
  BY SnapshotTyped
<1>5. P >= 4 + 8 * N
  <2>1. N \in 0 .. N
    BY <1>4
  <2>2. Len(p) >= 4 + 8 * N
    BY <1>2, <2>1
  <2> QED
    BY <1>3, <2>2
<1>6. /\ 4 > L => count = Err
      /\ 4 <= L => count = IF N < Beyond THEN N ELSE Beyond
  <2>1. ASSUME NEW i \in 1 .. 4, 0 + i <= Len(bytes)
        PROVE  bytes[0 + i] = Le32(N)[i]
    <3>1. i \in 1 .. L /\ i <= P /\ 0 + i = i
      BY <1>1, <1>4, <1>5, <2>1
    <3> QED
      BY <1>1, <1>2, <1>3, <3>1 DEF Agrees
  <2>2. 0 \in Nat /\ 0 + 4 = 4
    OBVIOUS
  <2>3. /\ 0 + 4 > Len(bytes) => count = Err
        /\ 0 + 4 <= Len(bytes) => count = IF N < Beyond THEN N ELSE Beyond
    <3> HIDE DEF N
    <3> QED
      BY <1>4, <2>1, <2>2, ReadIs
  <2> HIDE DEF count, N
  <2> QED
    BY <1>1, <2>2, <2>3
<1>7. DecodeRecords(bytes) = IF count = Err THEN Err
                             ELSE IF last = Err THEN Err
                             ELSE IF last.cursor # L THEN Err
                             ELSE last.restored
  BY <1>1 DEF DecodeRecords
<1>8. L < Beyond /\ Beyond \in Nat
  BY <1>1 DEF Beyond
<1>9. CASE 4 > L
  <2>1. L # P
    BY <1>4, <1>5, <1>9
  <2> QED
    BY <1>1, <1>3, <1>6, <1>7, <1>9, <2>1
<1>10. CASE 4 <= L
  <2>1. count \in Nat /\ count = IF N < Beyond THEN N ELSE Beyond
    BY <1>4, <1>6, <1>8, <1>10
  <2>2. count # Err
    BY <2>1, CodecAssumption
  <2>3. rounds = IF N > L THEN L ELSE N
    <3> HIDE DEF count, N
    <3> QED
      BY <1>1, <1>4, <1>8, <2>1 DEF Rounds
  <2>4. PICK m \in 0 .. N : m = rounds
    BY <1>4, <2>3
  <2>5. last = IF End(s, m) <= L THEN At(s, m) ELSE Err
    BY <1>1, <1>10, <1>8, <2>4, DecodedIs
  <2>6. PICK e \in Nat : e = End(s, m) /\ e >= 4 + 8 * m
    BY <1>2, EndIs
  <2> HIDE DEF last, rounds, count, N, p
  <2>7. CASE N > L
    <3>1. m = L
      BY <2>3, <2>4, <2>7
    <3>2. ~ (e <= L)
      BY <2>6, <3>1
    <3>3. last = Err
      BY <2>5, <2>6, <3>2
    <3>4. L # P
      BY <1>4, <1>5, <2>7
    <3> QED
      BY <1>1, <1>3, <1>7, <3>3, <3>4 DEF p
  <2>8. CASE ~ (N > L)
    <3>1. m = N
      BY <2>3, <2>4, <2>8
    <3>2. e = P
      BY <1>2, <1>3, <2>6, <3>1
    <3>3. CASE L = P
      <4>1. last = At(s, N)
        BY <2>5, <2>6, <3>1, <3>2, <3>3
      <4>2. last # Err /\ last.cursor = L /\ last.restored = {s[i] : i \in 1 .. N}
        <5>1. N \in 0 .. Len(s)
          BY <1>4 DEF N
        <5> QED
          BY <2>6, <3>1, <3>2, <3>3, <4>1, <5>1, AtTyped DEF At
      <4>3. Range(s) = {s[i] : i \in 1 .. N}
        BY SnapshotTyped DEF Range, N
      <4> QED
        BY <1>1, <1>3, <1>7, <2>2, <3>3, <4>2, <4>3 DEF p
    <3>4. CASE L # P
      <4>1. last = Err \/ last = At(s, m)
        BY <2>5
      <4>2. At(s, m).cursor # L
        BY <2>6, <3>2, <3>4 DEF At
      <4>3. DecodeRecords(bytes) = Err
        BY <1>7, <4>1, <4>2
      <4> QED
        BY <1>1, <1>3, <3>4, <4>3 DEF p
    <3> QED
      BY <3>3, <3>4
  <2> QED
    BY <2>7, <2>8
<1> QED
  BY <1>9, <1>10
-----------------------------------------------------------------------------
(* The envelope and the older format.                                      *)

LEMMA Le32Bytes ==
  ASSUME NEW n \in Nat, n < Beyond
  PROVE  Le32(n) \in Seq(Byte)
<1>1. /\ n % 256 \in Byte /\ (n \div 256) % 256 \in Byte
      /\ (n \div (256 * 256)) % 256 \in Byte /\ n \div Beyond \in Byte
  BY DEF Byte, Beyond
<1> QED
  BY <1>1 DEF Le32

LEMMA RecordBytes ==
  ASSUME NEW e \in Entry, Len(e[1]) < Beyond, Len(e[2]) < Beyond
  PROVE  Record(e) \in Seq(Byte)
<1>1. e[1] \in Seq(0 .. 127) /\ e[2] \in Seq(Byte)
  BY DEF Entry
<1>2. 0 .. 127 \subseteq Byte
  BY DEF Byte
<1>3. e[1] \in Seq(Byte)
  BY <1>1, <1>2, SeqMonotonic
<1>4. Le32(Len(e[1])) \in Seq(Byte) /\ Le32(Len(e[2])) \in Seq(Byte)
  BY EntryTyped, Le32Bytes
<1>5. Le32(Len(e[1])) \o Le32(Len(e[2])) \in Seq(Byte)
  BY <1>4, ConcatProperties
<1>6. Le32(Len(e[1])) \o Le32(Len(e[2])) \o e[1] \in Seq(Byte)
  BY <1>3, <1>5, ConcatProperties
<1> QED
  BY <1>1, <1>6, ConcatProperties DEF Record

(* A payload within the limit is bytes.                                    *)
LEMMA PayloadBytes ==
  ASSUME NEW s \in Snapshots, Len(Payload(s)) < Beyond
  PROVE  Payload(s) \in Seq(Byte)
<1> DEFINE N == Len(s)
           f == Records(s)
           A == {n \in Nat : n <= N => f[n] \in Seq(Byte)}
<1>1. N \in Nat /\ Beyond \in Nat
  BY SnapshotTyped DEF Beyond
<1>2. PICK P \in Nat : P = Len(Payload(s))
  BY PayloadIs
<1>3. f[0] = <<>> /\ \A n \in 1 .. N : f[n] = f[n - 1] \o Record(s[n])
  BY RecordsAre
<1>4. \A n \in 1 .. N : Record(s[n]) \in Seq(Byte)
  <2> SUFFICES ASSUME NEW n \in 1 .. N PROVE Record(s[n]) \in Seq(Byte)
    OBVIOUS
  <2>1. n \in 0 .. N /\ n - 1 \in 0 .. N
    BY <1>1
  <2>2. s[n] \in Entry
    BY SnapshotTyped
  <2>3. PICK k \in Nat : k = Len(s[n][1])
    BY <2>2, EntryTyped
  <2>4. PICK v \in Nat : v = Len(s[n][2])
    BY <2>2, EntryTyped
  <2>5. PICK x \in Nat : x = End(s, n - 1)
    BY <2>1, EndIs
  <2>6. x + 8 + k + v <= P
    <3>1. End(s, n) = x + 8 + k + v
      BY <2>3, <2>4, <2>5, EndIs
    <3>2. End(s, n) <= Len(Payload(s))
      BY <2>1, PayloadIs
    <3> QED
      BY <1>2, <3>1, <3>2
  <2>7. k < Beyond /\ v < Beyond
    BY <1>1, <1>2, <2>6
  <2> QED
    BY <2>2, <2>3, <2>4, <2>7, RecordBytes
<1> HIDE DEF f
<1>5. 0 \in A
  <2>1. <<>> \in Seq(Byte)
    OBVIOUS
  <2> QED
    BY <1>3, <2>1
<1>6. ASSUME NEW n \in Nat, n \in A
      PROVE  n + 1 \in A
  <2> SUFFICES ASSUME n + 1 <= N PROVE f[n + 1] \in Seq(Byte)
    OBVIOUS
  <2>1. n + 1 \in 1 .. N /\ (n + 1) - 1 = n /\ f[n] \in Seq(Byte)
    BY <1>1, <1>6
  <2>2. f[n + 1] = f[n] \o Record(s[n + 1]) /\ Record(s[n + 1]) \in Seq(Byte)
    BY <1>3, <1>4, <2>1
  <2> QED
    BY <2>1, <2>2, ConcatProperties
<1>7. Nat \subseteq A
  <2> HIDE DEF A
  <2> QED
    BY <1>5, <1>6, NatSetInduction
<1>8. f[N] \in Seq(Byte)
  BY <1>1, <1>7
<1>9. N < Beyond
  <2>1. N \in 0 .. N
    BY <1>1
  <2>2. PICK e \in Nat : e = End(s, N) /\ e <= P /\ e >= 4 + 8 * N
    BY <1>2, <2>1, EndIs, PayloadIs
  <2> QED
    BY <1>1, <1>2, <2>2
<1>10. Le32(N) \in Seq(Byte)
  BY <1>1, <1>9, Le32Bytes
<1> QED
  BY <1>8, <1>10, ConcatProperties DEF Payload, f

LEMMA ByteSeq ==
  ASSUME NEW s \in Seq(Byte)
  PROVE  s \in Seq(Nat)
<1>1. Byte \subseteq Nat
  BY DEF Byte
<1> QED
  BY <1>1, SeqMonotonic

(* What is written: a magic word, the version, the checksum, the payload.  *)
LEMMA EnvelopeIs ==
  ASSUME NEW s \in Snapshots, Encode(s) # Err
  PROVE  LET p == Payload(s)
             w == WordBytes(Crc32(p))
             e == Encode(s)
         IN /\ p \in Seq(Byte) /\ w \in Seq(Byte) /\ Len(w) = 4
            /\ e \in Seq(Byte) /\ Len(e) = 9 + Len(p) /\ Len(e) <= MaxEnvelopeBytes
            /\ e[1] = 69 /\ e[2] = 83 /\ e[3] = 84 /\ e[4] = 83 /\ e[5] = 1
            /\ \A i \in 1 .. 4 : e[5 + i] = w[i]
            /\ \A i \in 1 .. Len(p) : e[9 + i] = p[i]
<1> DEFINE p == Payload(s)
           w == WordBytes(Crc32(p))
           head == <<69, 83, 84, 83, 1>>
           front == head \o w
           e == front \o p
<1>1. MaxEnvelopeBytes \in Nat /\ MaxEnvelopeBytes < Beyond /\ Beyond \in Nat
  <2>1. MaxEnvelopeBytes \in 0 .. Beyond - 1
    BY CodecAssumption
  <2>2. Beyond \in Nat
    BY DEF Beyond
  <2> QED
    BY <2>1, <2>2
<1>2. PICK P \in Nat : P = Len(p)
  BY PayloadIs
<1>3. 9 + P <= MaxEnvelopeBytes
  <2>1. ~ (9 + Len(p) > MaxEnvelopeBytes)
    BY DEF Encode
  <2> QED
    BY <1>1, <1>2, <2>1
<1>4. p \in Seq(Byte)
  <2>1. P < Beyond
    BY <1>1, <1>3
  <2> QED
    BY <1>2, <2>1, PayloadBytes
<1>5. w \in Seq(Byte) /\ Len(w) = 4
  BY <1>4, Crc32Typed, WordBytesTyped
<1>6. head \in Seq(Byte) /\ Len(head) = 5
  <2>1. 69 \in Byte /\ 83 \in Byte /\ 84 \in Byte /\ 1 \in Byte
    BY DEF Byte
  <2> QED
    BY <2>1
<1>7. Encode(s) = e
  <2>1. Magic \o <<Version>> = head
    <3> DEFINE magic == <<69, 83, 84, 83>>
               version == <<1>>
    <3>1. /\ magic \in Seq(Nat) /\ Len(magic) = 4
          /\ magic[1] = 69 /\ magic[2] = 83 /\ magic[3] = 84 /\ magic[4] = 83
          /\ version \in Seq(Nat) /\ Len(version) = 1 /\ version[1] = 1
      OBVIOUS
    <3>2. head \in Seq(Nat) /\ Len(head) = 5
      OBVIOUS
    <3>3. head[1] = 69 /\ head[2] = 83 /\ head[3] = 84 /\ head[4] = 83 /\ head[5] = 1
      OBVIOUS
    <3> HIDE DEF magic, version, head
    <3>4. magic \in Seq(Nat) /\ version \in Seq(Nat)
      BY <3>1
    <3> DEFINE t == magic \o version
    <3>5. /\ t \in Seq(Nat) /\ Len(t) = Len(magic) + Len(version)
          /\ \A i \in 1 .. Len(magic) + Len(version) :
               t[i] = IF i <= Len(magic) THEN magic[i] ELSE version[i - Len(magic)]
      BY <3>4, ConcatProperties
    <3> HIDE DEF t
    <3>6. /\ t \in Seq(Nat) /\ Len(t) = 4 + 1
          /\ \A i \in 1 .. 4 + 1 : t[i] = IF i <= 4 THEN magic[i] ELSE version[i - 4]
      BY <3>1, <3>5
    <3>7. t[1] = 69 /\ t[2] = 83 /\ t[3] = 84 /\ t[4] = 83 /\ t[5] = 1
      BY <3>1, <3>6
    <3>8. \A i \in 1 .. 5 : i = 1 \/ i = 2 \/ i = 3 \/ i = 4 \/ i = 5
      OBVIOUS
    <3>9. \A i \in 1 .. 5 : t[i] = head[i]
      BY <3>3, <3>7, <3>8
    <3>10. Len(t) = Len(head) /\ \A i \in 1 .. Len(t) : t[i] = head[i]
      BY <3>2, <3>6, <3>9
    <3>11. t = head
      BY <3>2, <3>6, <3>10, SeqEqual
    <3> QED
      BY <3>11 DEF t, magic, version, Magic, Version
  <2>2. ~ (9 + Len(p) > MaxEnvelopeBytes)
    BY <1>1, <1>2, <1>3
  <2> HIDE DEF head
  <2> QED
    BY <2>1, <2>2 DEF Encode
<1>8. head[1] = 69 /\ head[2] = 83 /\ head[3] = 84 /\ head[4] = 83 /\ head[5] = 1
  OBVIOUS
<1> HIDE DEF head, w, p
<1>9. /\ front \in Seq(Byte) /\ Len(front) = 9
      /\ \A i \in 1 .. 9 : front[i] = IF i <= 5 THEN head[i] ELSE w[i - 5]
  <2>1. /\ front \in Seq(Byte) /\ Len(front) = Len(head) + Len(w)
        /\ \A i \in 1 .. Len(head) + Len(w) :
             front[i] = IF i <= Len(head) THEN head[i] ELSE w[i - Len(head)]
    BY <1>5, <1>6, ConcatProperties
  <2> HIDE DEF front
  <2> QED
    BY <1>5, <1>6, <2>1
<1> HIDE DEF front
<1>10. /\ e \in Seq(Byte) /\ Len(e) = 9 + P
       /\ \A i \in 1 .. 9 + P : e[i] = IF i <= 9 THEN front[i] ELSE p[i - 9]
  <2>1. /\ e \in Seq(Byte) /\ Len(e) = Len(front) + Len(p)
        /\ \A i \in 1 .. Len(front) + Len(p) :
             e[i] = IF i <= Len(front) THEN front[i] ELSE p[i - Len(front)]
    BY <1>4, <1>9, ConcatProperties
  <2> HIDE DEF e
  <2> QED
    BY <1>2, <1>9, <2>1
<1> HIDE DEF e
<1>11. \A i \in 1 .. 9 : e[i] = IF i <= 5 THEN head[i] ELSE w[i - 5]
  <2>1. \A i \in 1 .. 9 : i \in 1 .. 9 + P /\ i <= 9
    OBVIOUS
  <2> QED
    BY <1>9, <1>10, <2>1
<1>12. e[1] = 69 /\ e[2] = 83 /\ e[3] = 84 /\ e[4] = 83 /\ e[5] = 1
  BY <1>8, <1>11
<1>13. \A i \in 1 .. 4 : e[5 + i] = w[i]
  <2>1. \A i \in 1 .. 4 : 5 + i \in 1 .. 9 /\ ~ (5 + i <= 5) /\ (5 + i) - 5 = i
    OBVIOUS
  <2> QED
    BY <1>11, <2>1
<1>14. \A i \in 1 .. P : e[9 + i] = p[i]
  <2>1. \A i \in 1 .. P : 9 + i \in 1 .. 9 + P /\ ~ (9 + i <= 9) /\ (9 + i) - 9 = i
    OBVIOUS
  <2> QED
    BY <1>10, <2>1
<1>15. Len(e) = 9 + Len(p) /\ Len(e) <= MaxEnvelopeBytes
  BY <1>2, <1>3, <1>10
<1> QED
  BY <1>2, <1>4, <1>5, <1>7, <1>10, <1>12, <1>13, <1>14, <1>15 DEF p, w

(* The bytes of a text behind the first n.                                 *)
LEMMA RestIs ==
  ASSUME NEW S, NEW bytes \in Seq(S), NEW n \in Nat, n <= Len(bytes)
  PROVE  LET r == SubSeq(bytes, n + 1, Len(bytes)) IN
         /\ r \in Seq(S) /\ Len(r) = Len(bytes) - n
         /\ \A i \in 1 .. Len(bytes) - n : r[i] = bytes[n + i]
<1>1. PICK L \in Nat : L = Len(bytes)
  BY LenProperties
<1> DEFINE r == SubSeq(bytes, n + 1, L)
<1>2. \A i \in n + 1 .. L : bytes[i] \in S
  <2>1. \A i \in n + 1 .. L : i \in 1 .. L
    OBVIOUS
  <2> QED
    BY <1>1, <2>1, ElementOfSeq
<1>3. /\ r \in Seq(S)
      /\ Len(r) = IF n + 1 <= L THEN L - (n + 1) + 1 ELSE 0
      /\ \A i \in 1 .. L - (n + 1) + 1 : r[i] = bytes[(n + 1) + i - 1]
  <2>1. n + 1 \in Int /\ L \in Int
    OBVIOUS
  <2> QED
    BY <1>2, <2>1, SubSeqProperties
<1>4. /\ (IF n + 1 <= L THEN L - (n + 1) + 1 ELSE 0) = L - n
      /\ L - (n + 1) + 1 = L - n
      /\ \A i \in 1 .. L - n : (n + 1) + i - 1 = n + i
  BY <1>1
<1>5. Len(r) = L - n /\ \A i \in 1 .. L - n : r[i] = bytes[n + i]
  BY <1>3, <1>4
<1> QED
  BY <1>1, <1>3, <1>5

LEMMA StartIs ==
  ASSUME NEW bytes \in Seq(Nat), 4 <= Len(bytes)
  PROVE  SubSeq(bytes, 1, 4) = <<bytes[1], bytes[2], bytes[3], bytes[4]>>
<1>1. PICK L \in Nat : L = Len(bytes)
  BY LenProperties
<1>2. \A i \in 1 .. 4 : i \in 1 .. L
  BY <1>1
<1>3. \A i \in 1 .. 4 : bytes[i] \in Nat
  BY <1>1, <1>2, ElementOfSeq
<1>4. /\ SubSeq(bytes, 1, 4) \in Seq(Nat)
      /\ Len(SubSeq(bytes, 1, 4)) = IF 1 <= 4 THEN 4 - 1 + 1 ELSE 0
      /\ \A i \in 1 .. 4 - 1 + 1 : SubSeq(bytes, 1, 4)[i] = bytes[1 + i - 1]
  BY <1>3, SubSeqProperties
<1> DEFINE t == <<bytes[1], bytes[2], bytes[3], bytes[4]>>
<1>5. t \in Seq(Nat) /\ Len(t) = 4 /\ \A i \in 1 .. 4 : t[i] = bytes[i]
  BY <1>3
<1>6. /\ Len(SubSeq(bytes, 1, 4)) = 4
      /\ \A i \in 1 .. 4 : SubSeq(bytes, 1, 4)[i] = bytes[i]
  BY <1>4
<1> HIDE DEF t
<1>7. SubSeq(bytes, 1, 4) = t
  BY <1>4, <1>5, <1>6, SeqEqual
<1> QED
  BY <1>7 DEF t

LEMMA ChecksumBytes ==
  ASSUME NEW bytes \in Seq(Nat), 9 <= Len(bytes)
  PROVE  LET t == SubSeq(bytes, 6, 9)
         IN t \in Seq(Nat) /\ Len(t) = 4 /\ \A i \in 1 .. 4 : t[i] = bytes[5 + i]
<1> DEFINE t == SubSeq(bytes, 6, 9)
<1>1. PICK L \in Nat : L = Len(bytes)
  BY LenProperties
<1>2. \A i \in 6 .. 9 : i \in 1 .. L
  BY <1>1
<1>3. \A i \in 6 .. 9 : bytes[i] \in Nat
  BY <1>1, <1>2, ElementOfSeq
<1>4. /\ SubSeq(bytes, 6, 9) \in Seq(Nat)
      /\ Len(SubSeq(bytes, 6, 9)) = IF 6 <= 9 THEN 9 - 6 + 1 ELSE 0
      /\ \A i \in 1 .. 9 - 6 + 1 : SubSeq(bytes, 6, 9)[i] = bytes[6 + i - 1]
  BY <1>3, SubSeqProperties
<1>5. \A i \in 1 .. 4 : i \in 1 .. 9 - 6 + 1 /\ 6 + i - 1 = 5 + i
  OBVIOUS
<1>6. t \in Seq(Nat) /\ Len(t) = 4 /\ \A i \in 1 .. 9 - 6 + 1 : t[i] = bytes[6 + i - 1]
  BY <1>4
<1> HIDE DEF t
<1> QED
  BY <1>5, <1>6 DEF t

LEMMA MagicWords ==
  /\ Magic = <<69, 83, 84, 83>> /\ LegacyMagic = <<69, 83, 84, 49>>
  /\ Magic # LegacyMagic
BY DEF Magic, LegacyMagic

(* decode_native_state, of a text that is not empty.                       *)
LEMMA DecodeIs ==
  ASSUME NEW bytes \in Seq(Nat), bytes # <<>>, NEW L \in Nat, L = Len(bytes)
  PROVE  /\ L > MaxEnvelopeBytes \/ L < 8 => Decode(bytes) = Err
         /\ L <= MaxEnvelopeBytes /\ L >= 8 =>
              LET start == SubSeq(bytes, 1, 4)
                  rest  == SubSeq(bytes, 9 + 1, Len(bytes))
              IN
              /\ start = LegacyMagic =>
                   Decode(bytes) = DecodeRecords(SubSeq(bytes, 4 + 1, Len(bytes)))
              /\ start # LegacyMagic =>
                   /\ L < 9 \/ start # Magic \/ bytes[5] # Version => Decode(bytes) = Err
                   /\ WordBytes(Crc32(rest)) # SubSeq(bytes, 6, 9) => Decode(bytes) = Err
                   /\ Decode(bytes) = Err \/ Decode(bytes) = DecodeRecords(rest)
                   /\ L >= 9 /\ start = Magic /\ bytes[5] = Version
                        /\ WordBytes(Crc32(rest)) = SubSeq(bytes, 6, 9) =>
                          Decode(bytes) = DecodeRecords(rest)
<1>1. MaxEnvelopeBytes \in Nat
  BY CodecAssumption
<1> DEFINE start == SubSeq(bytes, 1, 4)
           rest  == SubSeq(bytes, 9 + 1, Len(bytes))
           whole == SubSeq(bytes, 4 + 1, Len(bytes))
<1>2. Decode(bytes) =
        IF L > MaxEnvelopeBytes \/ L < 8 THEN Err
        ELSE IF start = LegacyMagic THEN DecodeRecords(whole)
        ELSE IF L < 9 \/ start # Magic \/ bytes[5] # Version THEN Err
        ELSE IF WordBytes(Crc32(rest)) # SubSeq(bytes, 6, 9) THEN Err
        ELSE DecodeRecords(rest)
  BY DEF Decode
<1> HIDE DEF start, rest, whole
<1>3. L <= MaxEnvelopeBytes /\ L >= 8 => ~ (L > MaxEnvelopeBytes \/ L < 8)
  BY <1>1
<1>4. L >= 9 => ~ (L < 9)
  OBVIOUS
<1> QED
  BY <1>2, <1>3, <1>4 DEF start, rest, whole

(* An envelope is read as it was written, and nothing of another length is *)
(* that agrees with it.                                                    *)
LEMMA EnvelopeRead ==
  ASSUME NEW s \in Snapshots, Encode(s) # Err,
         NEW bytes \in Seq(Nat), bytes # <<>>, Agrees(bytes, Encode(s))
  PROVE  Decode(bytes) = IF Len(bytes) = Len(Encode(s)) THEN Range(s) ELSE Err
<1> DEFINE p == Payload(s)
           w == WordBytes(Crc32(p))
           e == Encode(s)
           rest == SubSeq(bytes, 9 + 1, Len(bytes))
<1>1. /\ p \in Seq(Byte) /\ w \in Seq(Byte) /\ Len(w) = 4
      /\ e \in Seq(Byte) /\ Len(e) = 9 + Len(p) /\ Len(e) <= MaxEnvelopeBytes
      /\ e[1] = 69 /\ e[2] = 83 /\ e[3] = 84 /\ e[4] = 83 /\ e[5] = 1
      /\ \A i \in 1 .. 4 : e[5 + i] = w[i]
      /\ \A i \in 1 .. Len(p) : e[9 + i] = p[i]
  BY EnvelopeIs
<1>2. PICK P \in Nat : P = Len(p)
  BY PayloadIs
<1>3. PICK L \in Nat : L = Len(bytes)
  BY LenProperties
<1>4. MaxEnvelopeBytes \in Nat /\ MaxEnvelopeBytes < Beyond /\ Beyond \in Nat
  <2>1. MaxEnvelopeBytes \in 0 .. Beyond - 1
    BY CodecAssumption
  <2>2. Beyond \in Nat
    BY DEF Beyond
  <2> QED
    BY <2>1, <2>2
<1> HIDE DEF p, w, e
<1>5. Len(e) = 9 + P /\ 9 + P <= MaxEnvelopeBytes
  BY <1>1, <1>2
<1>6. \A i \in 1 .. 9 : i <= L => bytes[i] = e[i]
  <2>1. \A i \in 1 .. 9 : i <= L => i \in 1 .. L /\ i <= 9 + P
    OBVIOUS
  <2> QED
    BY <1>3, <1>5, <2>1 DEF Agrees, e
<1>7. 4 <= L => SubSeq(bytes, 1, 4) = Magic
  <2> SUFFICES ASSUME 4 <= L PROVE SubSeq(bytes, 1, 4) = Magic
    OBVIOUS
  <2>1. bytes[1] = 69 /\ bytes[2] = 83 /\ bytes[3] = 84 /\ bytes[4] = 83
    <3>1. 1 <= L /\ 2 <= L /\ 3 <= L /\ 4 <= L
      OBVIOUS
    <3>2. /\ bytes[1] = e[1] /\ bytes[2] = e[2]
          /\ bytes[3] = e[3] /\ bytes[4] = e[4]
      BY <1>6, <3>1
    <3> QED
      BY <1>1, <3>2
  <2>2. SubSeq(bytes, 1, 4) = <<bytes[1], bytes[2], bytes[3], bytes[4]>>
    BY <1>3, StartIs
  <2> QED
    BY <2>1, <2>2, MagicWords
<1>8. CASE L > MaxEnvelopeBytes \/ L < 8
  <2>1. Decode(bytes) = Err
    BY <1>3, <1>8, DecodeIs
  <2>2. L # 9 + P
    BY <1>4, <1>5, <1>8
  <2> QED
    BY <1>3, <1>5, <2>1, <2>2 DEF e
<1>9. CASE L = 8 /\ L <= MaxEnvelopeBytes
  <2>1. Decode(bytes) = Err
    <3>1. L >= 8 /\ L <= MaxEnvelopeBytes /\ L < 9 /\ 4 <= L
      BY <1>9
    <3>2. SubSeq(bytes, 1, 4) # LegacyMagic
      BY <1>7, <3>1, MagicWords
    <3> QED
      BY <1>3, <3>1, <3>2, DecodeIs
  <2>2. L # 9 + P
    BY <1>9
  <2> QED
    BY <1>3, <1>5, <2>1, <2>2 DEF e
<1>10. CASE L >= 9 /\ L <= MaxEnvelopeBytes
  <2>1. /\ rest \in Seq(Nat) /\ Len(rest) = L - 9
        /\ \A i \in 1 .. L - 9 : rest[i] = bytes[9 + i]
    <3>1. 9 \in Nat /\ 9 <= Len(bytes)
      BY <1>3, <1>10
    <3> QED
      BY <1>3, <3>1, RestIs
  <2>2. Agrees(rest, p)
    <3> SUFFICES ASSUME NEW i \in 1 .. Len(rest), i <= Len(p) PROVE rest[i] = p[i]
      BY DEF Agrees
    <3>1. i \in 1 .. L - 9 /\ i \in 1 .. P
      BY <1>2, <2>1
    <3>2. 9 + i \in 1 .. L /\ 9 + i <= 9 + P
      BY <3>1
    <3>3. bytes[9 + i] = e[9 + i]
      BY <1>3, <1>5, <3>2 DEF Agrees, e
    <3> QED
      BY <1>1, <1>2, <2>1, <3>1, <3>3
  <2>3. DecodeRecords(rest) = IF L - 9 = P THEN Range(s) ELSE Err
    <3>1. Len(rest) < Beyond
      BY <1>4, <1>10, <2>1
    <3> HIDE DEF rest
    <3> QED
      BY <1>2, <2>1, <2>2, <3>1, DecodeRecordsIs DEF p
  <2>4. CASE L = 9 + P
    <3>1. rest = p
      <4>1. Len(rest) = P /\ L - 9 = P
        BY <2>1, <2>4
      <4>2. p \in Seq(Nat)
        BY <1>1, ByteSeq
      <4>3. \A i \in 1 .. Len(rest) : rest[i] = p[i]
        <5> SUFFICES ASSUME NEW i \in 1 .. Len(rest) PROVE rest[i] = p[i]
          OBVIOUS
        <5>1. i <= Len(p)
          BY <1>2, <4>1
        <5> HIDE DEF rest
        <5> QED
          BY <2>2, <5>1 DEF Agrees
      <4> HIDE DEF rest
      <4> QED
        BY <1>2, <2>1, <4>1, <4>2, <4>3, SeqEqual
    <3>2. SubSeq(bytes, 6, 9) = w
      <4>1. \A i \in 6 .. 9 : bytes[i] = e[i] /\ bytes[i] \in Nat
        <5>1. \A i \in 6 .. 9 : i \in 1 .. 9 /\ i \in 1 .. L
          BY <1>10
        <5> QED
          <6>1. \A i \in 1 .. Len(bytes) : bytes[i] \in Nat
            BY ElementOfSeq
          <6>2. \A i \in 6 .. 9 : i <= L
            BY <1>10
          <6> QED
            BY <1>3, <1>6, <5>1, <6>1, <6>2
      <4> DEFINE t == SubSeq(bytes, 6, 9)
      <4>2. 9 <= Len(bytes)
        BY <1>3, <1>10
      <4>3. t \in Seq(Nat) /\ Len(t) = 4 /\ \A i \in 1 .. 4 : t[i] = bytes[5 + i]
        BY <1>3, <4>2, ChecksumBytes
      <4> HIDE DEF t
      <4>4. \A i \in 1 .. 4 : 5 + i \in 6 .. 9
        OBVIOUS
      <4>5. \A i \in 1 .. 4 : t[i] = w[i]
        <5> SUFFICES ASSUME NEW i \in 1 .. 4 PROVE t[i] = w[i]
          OBVIOUS
        <5>1. t[i] = bytes[5 + i]
          BY <4>3, <4>4
        <5>2. bytes[5 + i] = e[5 + i]
          BY <4>1, <4>4
        <5>3. e[5 + i] = w[i]
          BY <1>1
        <5> QED
          BY <5>1, <5>2, <5>3
      <4>6. w \in Seq(Nat)
        BY <1>1, ByteSeq
      <4>7. t = w
        <5>1. Len(w) = 4
          BY <1>1
        <5>2. Len(t) = Len(w) /\ \A i \in 1 .. Len(t) : t[i] = w[i]
          BY <4>3, <4>5, <5>1
        <5> QED
          BY <4>3, <4>6, <5>2, SeqEqual
      <4> QED
        BY <4>7 DEF t
    <3>3. SubSeq(bytes, 1, 4) = Magic /\ bytes[5] = Version
      <4>1. 4 <= L /\ 5 <= L
        BY <1>10
      <4>2. bytes[5] = e[5] /\ e[5] = 1
        BY <1>1, <1>6, <4>1
      <4> QED
        BY <1>7, <4>1, <4>2 DEF Version
    <3>4. WordBytes(Crc32(rest)) = w
      BY <3>1 DEF w
    <3>5. Decode(bytes) = DecodeRecords(rest)
      <4>1. L >= 9 /\ L >= 8 /\ L <= MaxEnvelopeBytes
        BY <1>10
      <4>2. SubSeq(bytes, 1, 4) # LegacyMagic
        BY <3>3, MagicWords
      <4> QED
        BY <1>3, <3>2, <3>3, <3>4, <4>1, <4>2, DecodeIs
    <3>6. L - 9 = P
      BY <2>4
    <3> QED
      BY <1>3, <1>5, <2>3, <2>4, <3>5, <3>6 DEF e
  <2>5. CASE L # 9 + P
    <3>1. L - 9 # P
      BY <2>5
    <3>2. DecodeRecords(rest) = Err
      BY <2>3, <3>1
    <3>3. Decode(bytes) = Err \/ Decode(bytes) = DecodeRecords(rest)
      <4>1. L >= 8 /\ L <= MaxEnvelopeBytes /\ 4 <= L
        BY <1>10
      <4>2. SubSeq(bytes, 1, 4) # LegacyMagic
        BY <1>7, <4>1, MagicWords
      <4> QED
        BY <1>3, <4>1, <4>2, DecodeIs
    <3> QED
      BY <1>3, <1>5, <2>5, <3>2, <3>3 DEF e
  <2> QED
    BY <2>4, <2>5
<1> QED
  BY <1>4, <1>8, <1>9, <1>10
(* An envelope in which a byte was changed is not read, unless it is taken *)
(* for a snapshot of the older format.                                     *)
LEMMA EnvelopeChanged ==
  ASSUME NEW s \in Snapshots, Encode(s) # Err,
         NEW n \in 1 .. Len(Encode(s)), NEW b \in Byte, b # Encode(s)[n],
         NEW bytes, bytes = [Encode(s) EXCEPT ![n] = b],
         SubSeq(bytes, 1, 4) # LegacyMagic
  PROVE  Decode(bytes) = Err
<1> DEFINE p == Payload(s)
           w == WordBytes(Crc32(p))
           e == Encode(s)
           rest == SubSeq(bytes, 9 + 1, Len(bytes))
<1>1. /\ p \in Seq(Byte) /\ w \in Seq(Byte) /\ Len(w) = 4
      /\ e \in Seq(Byte) /\ Len(e) = 9 + Len(p) /\ Len(e) <= MaxEnvelopeBytes
      /\ e[1] = 69 /\ e[2] = 83 /\ e[3] = 84 /\ e[4] = 83 /\ e[5] = 1
      /\ \A i \in 1 .. 4 : e[5 + i] = w[i]
      /\ \A i \in 1 .. Len(p) : e[9 + i] = p[i]
  BY EnvelopeIs
<1>2. PICK P \in Nat : P = Len(p)
  BY PayloadIs
<1>3. MaxEnvelopeBytes \in Nat
  BY CodecAssumption
<1>4. /\ bytes \in Seq(Byte) /\ Len(bytes) = Len(e)
      /\ \A i \in 1 .. Len(e) : bytes[i] = IF i = n THEN b ELSE e[i]
  <2> HIDE DEF e
  <2> QED
    BY <1>1, ExceptSeq DEF e
<1> HIDE DEF p, w, e
<1>5. PICK L \in Nat : L = Len(bytes) /\ L = 9 + P /\ L <= MaxEnvelopeBytes
  BY <1>1, <1>2, <1>4
<1>6. /\ \A i \in 1 .. L : bytes[i] = IF i = n THEN b ELSE e[i]
      /\ n \in 1 .. L /\ b # e[n]
      /\ bytes \in Seq(Nat) /\ bytes # <<>>
  <2>1. bytes \in Seq(Nat)
    BY <1>4, ByteSeq
  <2>2. bytes # <<>>
    <3>1. Len(bytes) # 0
      BY <1>5
    <3> QED
      BY <3>1
  <2> QED
    BY <1>1, <1>4, <1>5, <2>1, <2>2 DEF e
<1>7. SubSeq(bytes, 1, 4) = <<bytes[1], bytes[2], bytes[3], bytes[4]>>
  <2>1. 4 <= Len(bytes)
    BY <1>5
  <2> QED
    BY <1>6, <2>1, StartIs
<1>8. /\ rest \in Seq(Byte) /\ Len(rest) = P
      /\ \A i \in 1 .. P : rest[i] = bytes[9 + i]
  <2>1. 9 \in Nat /\ 9 <= Len(bytes) /\ Len(bytes) - 9 = P
    BY <1>5
  <2> QED
    BY <1>4, <2>1, RestIs
<1> DEFINE t == SubSeq(bytes, 6, 9)
<1>9. \A i \in 1 .. 4 : t[i] = bytes[5 + i]
  <2>1. 9 <= Len(bytes)
    BY <1>5
  <2> QED
    BY <1>6, <2>1, ChecksumBytes
<1>10. L >= 8 /\ ~ (L < 8) /\ L <= MaxEnvelopeBytes
  BY <1>5
<1>11. /\ SubSeq(bytes, 1, 4) # Magic \/ bytes[5] # Version => Decode(bytes) = Err
       /\ WordBytes(Crc32(rest)) # t => Decode(bytes) = Err
  BY <1>5, <1>6, <1>10, DecodeIs
<1> HIDE DEF rest, t
<1>12. CASE n <= 4
  <2>1. bytes[n] # e[n]
    BY <1>6
  <2>2. n = 1 \/ n = 2 \/ n = 3 \/ n = 4
    <3>1. PICK m \in 1 .. L : m = n
      BY <1>6
    <3>2. m = 1 \/ m = 2 \/ m = 3 \/ m = 4
      BY <1>12, <3>1
    <3> QED
      BY <3>1, <3>2
  <2>3. Magic = <<e[1], e[2], e[3], e[4]>>
    BY <1>1, MagicWords
  <2>4. SubSeq(bytes, 1, 4) # Magic
    BY <1>7, <2>1, <2>2, <2>3
  <2> QED
    BY <1>11, <2>4
<1>13. CASE n = 5
  <2>1. bytes[5] # Version
    BY <1>1, <1>6, <1>13 DEF Version
  <2> QED
    BY <1>11, <2>1
<1>14. CASE n > 5 /\ n <= 9
  <2>1. rest = p
    <3>1. \A i \in 1 .. P : rest[i] = p[i]
      <4>1. \A i \in 1 .. P : 9 + i \in 1 .. L /\ 9 + i # n
        BY <1>5, <1>14
      <4> QED
        BY <1>1, <1>2, <1>6, <1>8, <4>1
    <3> QED
      BY <1>1, <1>2, <1>8, <3>1, SeqEqual
  <2>2. t # w
    <3>1. PICK i \in 1 .. 4 : n = 5 + i
      <4>1. PICK m \in 1 .. L : m = n
        BY <1>6
      <4>2. m - 5 \in 1 .. 4 /\ m = 5 + (m - 5)
        BY <1>14, <4>1
      <4> QED
        BY <4>1, <4>2
    <3>2. t[i] # w[i]
      <4>1. t[i] = bytes[5 + i] /\ e[5 + i] = w[i]
        BY <1>1, <1>9
      <4>2. bytes[5 + i] = b /\ b # e[5 + i]
        BY <1>6, <3>1
      <4> QED
        BY <4>1, <4>2
    <3> QED
      BY <3>2
  <2>3. WordBytes(Crc32(rest)) # t
    BY <2>1, <2>2 DEF w
  <2> QED
    BY <1>11, <2>3
<1>15. CASE n > 9
  <2>1. PICK i \in 1 .. P : n = 9 + i
    <3>1. PICK m \in 1 .. L : m = n
      BY <1>6
    <3>2. m - 9 \in 1 .. P /\ m = 9 + (m - 9)
      BY <1>5, <1>15, <3>1
    <3> QED
      BY <3>1, <3>2
  <2>2. rest[i] # p[i]
    <3>1. rest[i] = bytes[n]
      BY <1>8, <2>1
    <3>2. p[i] = e[n]
      BY <1>1, <1>2, <2>1
    <3>3. bytes[n] = b /\ b # e[n]
      BY <1>6
    <3> QED
      BY <3>1, <3>2, <3>3
  <2>3. \A j \in 1 .. P : j # i => rest[j] = p[j]
    <3>1. \A j \in 1 .. P : j # i => 9 + j \in 1 .. L /\ 9 + j # n
      BY <1>5, <2>1
    <3> SUFFICES ASSUME NEW j \in 1 .. P, j # i PROVE rest[j] = p[j]
      OBVIOUS
    <3>2. bytes[9 + j] = e[9 + j]
      BY <1>6, <3>1
    <3>3. rest[j] = bytes[9 + j]
      BY <1>8
    <3>4. e[9 + j] = p[j]
      BY <1>1, <1>2
    <3> QED
      BY <3>2, <3>3, <3>4
  <2>4. Crc32(rest) # Crc32(p)
    <3>1. Len(rest) = Len(p) /\ i \in 1 .. Len(rest)
      BY <1>2, <1>8, <2>1
    <3>2. \A j \in 1 .. Len(rest) : j # i => rest[j] = p[j]
      BY <1>8, <2>3
    <3>3. rest \in Seq(Byte) /\ p \in Seq(Byte)
      BY <1>1, <1>8
    <3> QED
      BY <2>2, <3>1, <3>2, <3>3, CrcTellsChange
  <2>5. WordBytes(Crc32(rest)) # w
    BY <1>1, <1>8, <2>4, Crc32Typed, WordBytesInjective DEF w
  <2>6. t = w
    <3>1. \A j \in 1 .. 4 : 5 + j \in 1 .. L /\ 5 + j # n
      BY <1>5, <1>15
    <3>2. \A j \in 1 .. 4 : t[j] = w[j]
      <4> SUFFICES ASSUME NEW j \in 1 .. 4 PROVE t[j] = w[j]
        OBVIOUS
      <4>1. bytes[5 + j] = e[5 + j]
        BY <1>6, <3>1
      <4>2. t[j] = bytes[5 + j]
        BY <1>9
      <4>3. e[5 + j] = w[j]
        BY <1>1
      <4> QED
        BY <4>1, <4>2, <4>3
    <3>3. t \in Seq(Nat) /\ Len(t) = 4
      <4>1. \A j \in 6 .. 9 : j \in 1 .. L
        BY <1>5
      <4>2. \A j \in 1 .. Len(bytes) : bytes[j] \in Nat
        BY <1>6, ElementOfSeq
      <4>3. \A j \in 6 .. 9 : bytes[j] \in Nat
        BY <1>5, <4>1, <4>2
      <4>4. t \in Seq(Nat) /\ Len(t) = IF 6 <= 9 THEN 9 - 6 + 1 ELSE 0
        BY <4>3, SubSeqProperties DEF t
      <4> QED
        BY <4>4
    <3>4. w \in Seq(Nat) /\ Len(w) = 4
      BY <1>1, ByteSeq
    <3>5. Len(t) = Len(w) /\ \A j \in 1 .. Len(t) : t[j] = w[j]
      BY <3>2, <3>3, <3>4
    <3> QED
      BY <3>3, <3>4, <3>5, SeqEqual
  <2> QED
    BY <1>11, <2>5, <2>6
<1> QED
  BY <1>6, <1>12, <1>13, <1>14, <1>15

(* The older format has the magic word and the payload.                    *)
LEMMA LegacyIs ==
  ASSUME NEW s \in Snapshots
  PROVE  LET p == Payload(s)
             e == LegacyEncode(s)
         IN /\ e \in Seq(Nat) /\ Len(e) = 4 + Len(p)
            /\ e[1] = 69 /\ e[2] = 83 /\ e[3] = 84 /\ e[4] = 49
            /\ \A i \in 1 .. Len(p) : e[4 + i] = p[i]
<1> DEFINE p == Payload(s)
           head == <<69, 83, 84, 49>>
           e == head \o p
<1>1. p \in Seq(Nat) /\ Len(p) \in Nat
  BY PayloadIs
<1>2. /\ head \in Seq(Nat) /\ Len(head) = 4
      /\ head[1] = 69 /\ head[2] = 83 /\ head[3] = 84 /\ head[4] = 49
  OBVIOUS
<1>3. LegacyEncode(s) = e
  BY DEF LegacyEncode, LegacyMagic
<1> HIDE DEF p, head
<1>4. head \in Seq(Nat)
  BY <1>2
<1>5. /\ e \in Seq(Nat) /\ Len(e) = Len(head) + Len(p)
      /\ \A i \in 1 .. Len(head) + Len(p) :
           e[i] = IF i <= Len(head) THEN head[i] ELSE p[i - Len(head)]
  BY <1>1, <1>4, ConcatProperties
<1> HIDE DEF e
<1>6. PICK P \in Nat : P = Len(p)
  BY <1>1
<1>7. /\ e \in Seq(Nat) /\ Len(e) = 4 + P
      /\ \A i \in 1 .. 4 + P : e[i] = IF i <= 4 THEN head[i] ELSE p[i - 4]
  BY <1>2, <1>5, <1>6
<1>8. \A i \in 1 .. 4 : e[i] = head[i]
  <2>1. \A i \in 1 .. 4 : i \in 1 .. 4 + P /\ i <= 4
    OBVIOUS
  <2> QED
    BY <1>7, <2>1
<1>9. \A i \in 1 .. P : e[4 + i] = p[i]
  <2>1. \A i \in 1 .. P : 4 + i \in 1 .. 4 + P /\ ~ (4 + i <= 4) /\ (4 + i) - 4 = i
    OBVIOUS
  <2> QED
    BY <1>7, <2>1
<1>10. e[1] = 69 /\ e[2] = 83 /\ e[3] = 84 /\ e[4] = 49
  BY <1>2, <1>8
<1> QED
  BY <1>3, <1>6, <1>7, <1>9, <1>10 DEF p

(* A snapshot of the older format is read if it is within the limit, and   *)
(* nothing of another length is that agrees with it.                       *)
LEMMA LegacyRead ==
  ASSUME NEW s \in Snapshots,
         NEW bytes \in Seq(Nat), bytes # <<>>, Agrees(bytes, LegacyEncode(s))
  PROVE  /\ Len(bytes) # Len(LegacyEncode(s)) => Decode(bytes) = Err
         /\ Len(bytes) = Len(LegacyEncode(s)) /\ Len(bytes) <= MaxEnvelopeBytes =>
              Decode(bytes) = Range(s)
<1> DEFINE p == Payload(s)
           e == LegacyEncode(s)
           whole == SubSeq(bytes, 4 + 1, Len(bytes))
<1>1. /\ e \in Seq(Nat) /\ Len(e) = 4 + Len(p)
      /\ e[1] = 69 /\ e[2] = 83 /\ e[3] = 84 /\ e[4] = 49
      /\ \A i \in 1 .. Len(p) : e[4 + i] = p[i]
  BY LegacyIs
<1>2. PICK P \in Nat : P = Len(p) /\ P >= 4
  <2>1. PICK N \in Nat : N = Len(s) /\ N \in 0 .. Len(s)
    BY SnapshotTyped
  <2>2. PICK x \in Nat : x = Len(p)
    BY PayloadIs
  <2>3. PICK y \in Nat : y = End(s, N)
    BY <2>1, EndIs
  <2>4. y <= x /\ y >= 4 + 8 * N
    BY <2>1, <2>2, <2>3, PayloadIs
  <2>5. x >= 4
    BY <2>4
  <2> QED
    BY <2>2, <2>5
<1>3. PICK L \in Nat : L = Len(bytes)
  BY LenProperties
<1>4. MaxEnvelopeBytes \in Nat /\ MaxEnvelopeBytes < Beyond /\ Beyond \in Nat
  <2>1. MaxEnvelopeBytes \in 0 .. Beyond - 1
    BY CodecAssumption
  <2>2. Beyond \in Nat
    BY DEF Beyond
  <2> QED
    BY <2>1, <2>2
<1> HIDE DEF p, e
<1>5. Len(e) = 4 + P
  BY <1>1, <1>2
<1>6. CASE L > MaxEnvelopeBytes \/ L < 8
  <2>1. Decode(bytes) = Err
    BY <1>3, <1>6, DecodeIs
  <2>2. ~ (L = 4 + P /\ L <= MaxEnvelopeBytes)
    BY <1>2, <1>4, <1>6
  <2> QED
    BY <1>3, <1>5, <2>1, <2>2 DEF e
<1>7. CASE L <= MaxEnvelopeBytes /\ L >= 8
  <2>1. \A i \in 1 .. 4 : bytes[i] = e[i]
    <3>1. \A i \in 1 .. 4 : i \in 1 .. L /\ i <= 4 + P
      BY <1>7
    <3> QED
      BY <1>3, <1>5, <3>1 DEF Agrees, e
  <2>2. SubSeq(bytes, 1, 4) = LegacyMagic
    <3>1. SubSeq(bytes, 1, 4) = <<bytes[1], bytes[2], bytes[3], bytes[4]>>
      <4>1. 4 <= Len(bytes)
        BY <1>3, <1>7
      <4> QED
        BY <4>1, StartIs
    <3> QED
      BY <1>1, <2>1, <3>1, MagicWords
  <2>3. Decode(bytes) = DecodeRecords(whole)
    BY <1>3, <1>7, <2>2, DecodeIs
  <2>4. /\ whole \in Seq(Nat) /\ Len(whole) = L - 4
        /\ \A i \in 1 .. L - 4 : whole[i] = bytes[4 + i]
    <3>1. 4 \in Nat /\ 4 <= Len(bytes)
      BY <1>3, <1>7
    <3> QED
      BY <1>3, <3>1, RestIs
  <2> HIDE DEF whole
  <2>5. Agrees(whole, p)
    <3> SUFFICES ASSUME NEW i \in 1 .. Len(whole), i <= Len(p) PROVE whole[i] = p[i]
      BY DEF Agrees
    <3>1. i \in 1 .. L - 4 /\ i \in 1 .. P
      BY <1>2, <2>4
    <3>2. 4 + i \in 1 .. L /\ 4 + i <= 4 + P
      BY <3>1
    <3>3. bytes[4 + i] = e[4 + i]
      BY <1>3, <1>5, <3>2 DEF Agrees, e
    <3> QED
      BY <1>1, <1>2, <2>4, <3>1, <3>3
  <2>6. DecodeRecords(whole) = IF L - 4 = P THEN Range(s) ELSE Err
    <3>1. Len(whole) < Beyond
      BY <1>4, <1>7, <2>4
    <3> QED
      BY <1>2, <2>4, <2>5, <3>1, DecodeRecordsIs DEF p
  <2>7. L - 4 = P <=> L = 4 + P
    OBVIOUS
  <2> QED
    BY <1>3, <1>5, <2>3, <2>6, <2>7 DEF e
<1> QED
  BY <1>4, <1>6, <1>7
-----------------------------------------------------------------------------
(* The behaviours.                                                         *)

(* What the platform may make of a text e.                                 *)
Damaged(e, text, how) ==
  \/ how = "none" /\ text = e
  \/ how = "cut" /\ \E n \in 0 .. Len(e) - 1 : text = SubSeq(e, 1, n)
  \/ /\ how = "changed"
     /\ \E n \in DOMAIN e, b \in Alphabet : b # e[n] /\ text = [e EXCEPT ![n] = b]
  \/ how = "extended" /\ \E b \in Alphabet : text = Append(e, b)

(* What is kept is what was written or one damage away from it, and what   *)
(* is read is what the decoder makes of it.                                *)
CodecInv ==
  /\ saved \in Snapshots
  /\ form \in {"envelope", "legacy", "hex"}
  /\ form = "hex" => saved # <<>>
  /\ kept = Err => damage = "none" /\ read = <<>>
  /\ kept # Err => Written # Err /\ Damaged(Written, kept, damage)
  /\ read # <<>> => read = <<IF form = "hex" THEN DecodeBytes(kept) ELSE Decode(kept)>>

LEMMA WrittenTyped ==
  ASSUME CodecInv, Written # Err
  PROVE  /\ Written \in Seq(Nat)
         /\ form = "envelope" => Written = Encode(saved)
         /\ form = "legacy" => Written = LegacyEncode(saved)
         /\ form = "hex" => /\ Written = EncodeBytes(saved[1][2])
                            /\ saved[1][2] \in Seq(Byte)
<1>1. saved \in Snapshots /\ form \in {"envelope", "legacy", "hex"}
  BY DEF CodecInv
<1>2. CASE form = "envelope"
  <2>1. Written = Encode(saved)
    BY <1>2 DEF Written
  <2>2. Encode(saved) \in Seq(Byte)
    BY <1>1, <2>1, EnvelopeIs
  <2> QED
    BY <1>2, <2>1, <2>2, ByteSeq
<1>3. CASE form = "legacy"
  <2>1. Written = LegacyEncode(saved)
    BY <1>3 DEF Written
  <2> QED
    BY <1>1, <1>3, <2>1, LegacyIs
<1>4. CASE form = "hex"
  <2>1. Written = EncodeBytes(saved[1][2])
    BY <1>4 DEF Written
  <2>2. saved # <<>>
    BY <1>4 DEF CodecInv
  <2>3. 1 \in 1 .. Len(saved)
    <3>1. saved \in Seq(Entry)
      BY <1>1, SnapshotTyped
    <3> HIDE DEF Entry
    <3>2. Len(saved) \in Nat \ {0}
      BY <2>2, <3>1, EmptySeq
    <3> QED
      BY <3>2
  <2>4. saved[1] \in Entry
    BY <1>1, <2>3, SnapshotTyped
  <2>5. saved[1][2] \in Seq(Byte)
    BY <2>4 DEF Entry
  <2> QED
    BY <1>4, <2>1, <2>5, WrittenIsRead
<1> QED
  BY <1>1, <1>2, <1>3, <1>4

(* What is cut or extended agrees with what was written, and has another   *)
(* length.                                                                 *)
LEMMA DamagedIs ==
  ASSUME NEW e \in Seq(Nat), NEW text, NEW how, Damaged(e, text, how)
  PROVE  /\ text \in Seq(Nat)
         /\ how # "changed" => Agrees(text, e)
         /\ how \in {"cut", "extended"} => Len(text) # Len(e)
<1>1. PICK L \in Nat : L = Len(e)
  BY LenProperties
<1>2. \A i \in 1 .. L : e[i] \in Nat
  BY <1>1, ElementOfSeq
<1>3. \A b \in Alphabet : b \in Nat
  <2>1. Alphabet \subseteq Byte
    BY CodecAssumption
  <2> QED
    BY <2>1 DEF Byte
<1>4. CASE how = "none" /\ text = e
  BY <1>4 DEF Agrees
<1>5. CASE how = "cut" /\ \E n \in 0 .. Len(e) - 1 : text = SubSeq(e, 1, n)
  <2>1. PICK n \in 0 .. L - 1 : text = SubSeq(e, 1, n)
    BY <1>1, <1>5
  <2>2. \A i \in 1 .. n : e[i] \in Nat
    <3>1. \A i \in 1 .. n : i \in 1 .. L
      OBVIOUS
    <3> QED
      BY <1>2, <3>1
  <2> DEFINE t == SubSeq(e, 1, n)
  <2>3. /\ t \in Seq(Nat) /\ Len(t) = IF 1 <= n THEN n - 1 + 1 ELSE 0
        /\ \A i \in 1 .. n - 1 + 1 : t[i] = e[1 + i - 1]
    BY <2>2, SubSeqProperties
  <2> HIDE DEF t
  <2>4. Len(t) = n /\ \A i \in 1 .. n : t[i] = e[i]
    <3>1. /\ (IF 1 <= n THEN n - 1 + 1 ELSE 0) = n /\ n - 1 + 1 = n
          /\ \A i \in 1 .. n : 1 + i - 1 = i
      OBVIOUS
    <3> QED
      BY <2>3, <3>1
  <2>5. n # L
    OBVIOUS
  <2>6. text = t
    BY <2>1 DEF t
  <2> QED
    BY <1>1, <1>5, <2>3, <2>4, <2>5, <2>6 DEF Agrees
<1>6. CASE how = "changed" /\ \E n \in DOMAIN e, b \in Alphabet :
                                b # e[n] /\ text = [e EXCEPT ![n] = b]
  <2>1. PICK n \in 1 .. Len(e), b \in Nat : text = [e EXCEPT ![n] = b]
    BY <1>3, <1>6, LenProperties
  <2>2. text \in Seq(Nat)
    BY <2>1, ExceptSeq
  <2> QED
    BY <1>6, <2>2
<1>7. CASE how = "extended" /\ \E b \in Alphabet : text = Append(e, b)
  <2>1. PICK b \in Nat : text = Append(e, b)
    BY <1>3, <1>7
  <2>2. /\ text \in Seq(Nat) /\ Len(text) = L + 1
        /\ \A i \in 1 .. L : text[i] = e[i]
    BY <1>1, <2>1, AppendProperties
  <2>3. Agrees(text, e)
    <3> SUFFICES ASSUME NEW i \in 1 .. Len(text), i <= Len(e) PROVE text[i] = e[i]
      BY DEF Agrees
    <3>1. i \in 1 .. L
      BY <1>1, <2>2
    <3> QED
      BY <2>2, <3>1
  <2>4. L + 1 # L
    OBVIOUS
  <2> QED
    BY <1>1, <1>7, <2>2, <2>3, <2>4
<1> QED
  BY <1>4, <1>5, <1>6, <1>7 DEF Damaged

LEMMA CodecInvInit ==
  ASSUME CodecInit
  PROVE  CodecInv
BY DEF CodecInit, CodecInv

LEMMA CodecInvStep ==
  ASSUME CodecInv, [CodecNext]_codecVars
  PROVE  CodecInv'
<1>1. CASE Save
  <2>1. /\ saved' = saved /\ form' = form /\ damage' = damage /\ read' = read
        /\ kept' = Written /\ kept' # Err /\ damage = "none" /\ read = <<>>
    BY <1>1 DEF Save, CodecInv
  <2>2. Written' = Written
    BY <2>1 DEF Written
  <2>3. Damaged(Written', kept', damage')
    BY <2>1, <2>2 DEF Damaged
  <2> QED
    BY <2>1, <2>2, <2>3 DEF CodecInv
<1>2. CASE Damage
  <2>1. saved' = saved /\ form' = form /\ read' = read /\ read = <<>>
    BY <1>2 DEF Damage
  <2>2. Written' = Written
    BY <2>1 DEF Written
  <2>3. Written # Err /\ kept = Written
    BY <1>2 DEF Damage, CodecInv, Damaged
  <2>4. Damaged(Written, kept', damage')
    BY <1>2, <2>3 DEF Damage, Damaged
  <2>5. kept' # Err
    <3>1. Written \in Seq(Nat)
      BY <2>3, WrittenTyped
    <3>2. PICK t, h : t = kept' /\ h = damage'
      OBVIOUS
    <3>3. t \in Seq(Nat)
      BY <2>4, <3>1, <3>2, DamagedIs
    <3> QED
      BY <3>2, <3>3, CodecAssumption
  <2> QED
    BY <2>1, <2>2, <2>3, <2>4, <2>5 DEF CodecInv
<1>3. CASE Restore
  <2>1. /\ saved' = saved /\ form' = form /\ kept' = kept /\ damage' = damage /\ kept # Err
        /\ read' = <<IF form = "hex" THEN DecodeBytes(kept) ELSE Decode(kept)>>
    BY <1>3 DEF Restore
  <2>2. Written' = Written
    BY <2>1 DEF Written
  <2>3. read' = <<IF form' = "hex" THEN DecodeBytes(kept') ELSE Decode(kept')>>
    BY <2>1
  <2> QED
    BY <2>1, <2>2, <2>3 DEF CodecInv
<1>4. CASE UNCHANGED codecVars
  <2>1. saved' = saved /\ form' = form /\ kept' = kept /\ damage' = damage /\ read' = read
    BY <1>4 DEF codecVars
  <2>2. Written' = Written
    BY <2>1 DEF Written
  <2> QED
    BY <2>1, <2>2 DEF CodecInv
<1> QED
  BY <1>1, <1>2, <1>3, <1>4 DEF CodecNext

LEMMA CodecInvariant == CodecSpec => []CodecInv
<1>1. CodecInit => CodecInv
  BY CodecInvInit
<1>2. CodecInv /\ [CodecNext]_codecVars => CodecInv'
  BY CodecInvStep
<1> QED
  BY <1>1, <1>2, PTL DEF CodecSpec

-----------------------------------------------------------------------------
(* Whatever was saved is what is restored, for every snapshot, of any      *)
(* number of entries and bytes, that the encoder does not refuse, every    *)
(* legacy snapshot within the limit and every hexadecimal text             *)
(* (native_state.rs 55-77, 107-151; storage.rs 56-82).                     *)
THEOREM SavedIsRestored == CodecSpec => []RoundTrip
<1>1. CodecInv => RoundTrip
  <2> SUFFICES ASSUME CodecInv, read # <<>>, damage = "none",
                      form = "legacy" => Len(kept) <= MaxEnvelopeBytes
               PROVE  read[1] = IF form = "hex" THEN saved[1][2] ELSE Range(saved)
    BY DEF RoundTrip
  <2>1. /\ saved \in Snapshots /\ form \in {"envelope", "legacy", "hex"}
        /\ Written # Err /\ kept = Written
        /\ read[1] = IF form = "hex" THEN DecodeBytes(kept) ELSE Decode(kept)
    BY DEF CodecInv, Damaged
  <2>2. kept \in Seq(Nat) /\ Agrees(kept, kept)
    BY <2>1, WrittenTyped DEF Agrees
  <2>3. CASE form = "envelope"
    <3>1. kept = Encode(saved)
      BY <2>1, <2>3, WrittenTyped
    <3>2. kept # <<>>
      <4>1. PICK P \in Nat : P = Len(Payload(saved))
        BY <2>1, PayloadIs
      <4>2. Len(kept) = 9 + P
        BY <2>1, <3>1, <4>1, EnvelopeIs
      <4>3. Len(kept) # 0
        BY <4>2
      <4> QED
        BY <4>3
    <3> QED
      BY <2>1, <2>2, <2>3, <3>1, <3>2, EnvelopeRead
  <2>4. CASE form = "legacy"
    <3>1. kept = LegacyEncode(saved)
      BY <2>1, <2>4, WrittenTyped
    <3>2. kept # <<>>
      <4>1. PICK P \in Nat : P = Len(Payload(saved))
        BY <2>1, PayloadIs
      <4>2. Len(kept) = 4 + P
        BY <2>1, <3>1, <4>1, LegacyIs
      <4>3. Len(kept) # 0
        BY <4>2
      <4> QED
        BY <4>3
    <3> QED
      BY <2>1, <2>2, <2>4, <3>1, <3>2, LegacyRead
  <2>5. CASE form = "hex"
    BY <2>1, <2>5, WrittenTyped, WrittenIsRead
  <2> QED
    BY <2>1, <2>3, <2>4, <2>5
<1> QED
  BY <1>1, CodecInvariant, PTL

(* Damage is detected, whatever is saved and whichever byte is changed to  *)
(* whatever other: the CRC-32 tells every two payloads that differ in one  *)
(* byte, and lengths and counts do not add up once bytes are missing or    *)
(* too many (native_state.rs 79-151; storage.rs 67-82).                    *)
THEOREM DamageIsDetected == CodecSpec => []DamageDetected
<1>1. CodecInv => DamageDetected
  <2> SUFFICES ASSUME CodecInv, read # <<>>, damage # "none", kept # <<>>
               PROVE  /\ form = "envelope" =>
                           \/ read[1] = Err
                           \/ damage = "changed" /\ SubSeq(kept, 1, 4) = LegacyMagic
                      /\ form = "legacy" /\ damage # "changed" => read[1] = Err
                      /\ form = "hex" => read[1] = Err \/ EncodeBytes(read[1]) = kept
    BY DEF DamageDetected
  <2>1. /\ saved \in Snapshots /\ form \in {"envelope", "legacy", "hex"}
        /\ Written # Err /\ Damaged(Written, kept, damage)
        /\ read[1] = IF form = "hex" THEN DecodeBytes(kept) ELSE Decode(kept)
    BY DEF CodecInv
  <2>2. Written \in Seq(Nat)
    BY <2>1, WrittenTyped
  <2>3. /\ kept \in Seq(Nat)
        /\ damage # "changed" => Agrees(kept, Written)
        /\ damage \in {"cut", "extended"} => Len(kept) # Len(Written)
    BY <2>1, <2>2, DamagedIs
  <2>4. damage \in {"cut", "changed", "extended"}
    BY <2>1 DEF Damaged
  <2>5. ASSUME form = "envelope"
        PROVE  read[1] = Err \/ (damage = "changed" /\ SubSeq(kept, 1, 4) = LegacyMagic)
    <3>1. Written = Encode(saved) /\ Encode(saved) # Err
      BY <2>1, <2>5, WrittenTyped
    <3>2. read[1] = Decode(kept)
      BY <2>1, <2>5
    <3>3. CASE damage # "changed"
      BY <2>1, <2>3, <2>4, <3>1, <3>2, <3>3, EnvelopeRead
    <3>4. CASE damage = "changed"
      <4>1. PICK n \in DOMAIN Written, b \in Alphabet :
              b # Written[n] /\ kept = [Written EXCEPT ![n] = b]
        BY <2>1, <3>4 DEF Damaged
      <4>2. n \in 1 .. Len(Encode(saved)) /\ b \in Byte
        BY <2>2, <3>1, <4>1, LenProperties, CodecAssumption
      <4>3. b # Encode(saved)[n] /\ kept = [Encode(saved) EXCEPT ![n] = b]
        BY <3>1, <4>1
      <4>4. SubSeq(kept, 1, 4) # LegacyMagic => Decode(kept) = Err
        BY <2>1, <3>1, <4>2, <4>3, EnvelopeChanged
      <4> QED
        BY <3>2, <3>4, <4>4
    <3> QED
      BY <3>3, <3>4
  <2>6. ASSUME form = "legacy", damage # "changed"
        PROVE  read[1] = Err
    <3>1. Written = LegacyEncode(saved)
      BY <2>1, <2>6, WrittenTyped
    <3> QED
      BY <2>1, <2>3, <2>4, <2>6, <3>1, LegacyRead
  <2>7. ASSUME form = "hex"
        PROVE  read[1] = Err \/ EncodeBytes(read[1]) = kept
    BY <2>1, <2>3, <2>7, ReadIsWritten
  <2> QED
    BY <2>5, <2>6, <2>7
<1> QED
  BY <1>1, CodecInvariant, PTL

=============================================================================
