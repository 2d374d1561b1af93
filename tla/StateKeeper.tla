----------------------------- MODULE StateKeeper ----------------------------
(***************************************************************************)
(* crates/essenty-state-keeper/src/keeper.rs: the keyed state of one       *)
(* process, what was restored and not yet consumed next to the providers   *)
(* of what is to be saved.                                                 *)
(*                                                                         *)
(* Bytes are told apart by the save that produced them.  A provider is the *)
(* set of outcomes it may have when save calls it, from which save chooses *)
(* anew each time: user code and encoders are free.                        *)
(***************************************************************************)
EXTENDS Naturals

CONSTANTS Keys, None

VARIABLES
  restored,  \* StateKeeper::restored, None where it has no entry
  providers  \* StateKeeper::providers, {} where it has no entry

keeperVars == <<restored, providers>>

Outcomes == {"some", "none", "err"}

Nothing    == [k \in Keys |-> None]
NoProvider == [k \in Keys |-> {}]

(* with_restored, and new for Nothing. *)
WithRestored(map) == restored' = map /\ providers' = NoProvider

(* A key that is taken is DuplicateKey, and nothing changes. *)
RegisterAs(key, outcomes) ==
  /\ providers[key] = {}
  /\ providers' = [providers EXCEPT ![key] = outcomes]
  /\ UNCHANGED restored

Register(key)              == RegisterAs(key, {"some"})
RegisterValue(key)         == RegisterAs(key, {"some", "err"})
RegisterOptional(key)      == RegisterAs(key, {"some", "none"})
RegisterOptionalValue(key) == RegisterAs(key, Outcomes)

Unregister(key) ==
  /\ providers[key] # {}
  /\ providers' = [providers EXCEPT ![key] = {}]
  /\ UNCHANGED restored

(* consume_bytes, and consume_value whether or not decoding succeeds: the  *)
(* entry is removed first.                                                 *)
Consume(key) ==
  /\ restored[key] # None
  /\ restored' = [restored EXCEPT ![key] = None]
  /\ UNCHANGED providers

(* What the providers may answer in one save. *)
Answers == {a \in [Keys -> Outcomes \cup {"absent"}] :
              \A k \in Keys : IF providers[k] = {} THEN a[k] = "absent"
                                                   ELSE a[k] \in providers[k]}

(* save: one failure aborts it, "none" leaves what was restored. *)
Aborts(answers) == \E k \in Keys : answers[k] = "err"

SavedFromScratch(answers, bytes) ==  \* mutant of Saved: restored is left out
  [k \in Keys |-> IF answers[k] = "some" THEN bytes ELSE None]

Saved(answers, bytes) ==
  [k \in Keys |-> IF answers[k] = "some" THEN bytes ELSE restored[k]]

=============================================================================
