----------------------------- MODULE StateCodecs ----------------------------
(***************************************************************************)
(* The two forms in which saved state leaves the process: the envelope of  *)
(* crates/essenty-android/src/native_state.rs, and the hexadecimal text of *)
(* crates/essenty-web/src/storage.rs.  A snapshot is encoded, the platform *)
(* may damage what it was given to keep, and a new process decodes it.     *)
(*                                                                         *)
(* Keys are sequences of bytes below 128, which is what UTF-8 makes of     *)
(* ASCII; a key with a higher byte is taken for malformed.  A 32-bit word  *)
(* is the set of its one bits, since the integers of TLC are signed.       *)
(***************************************************************************)
EXTENDS Integers, Sequences, Functions

CONSTANTS
  Snapshots,         \* states to be saved: <<key, value>> in the order of keys
  MaxEnvelopeBytes,  \* MAX_ENVELOPE_BYTES
  Alphabet,          \* bytes and characters that damage leaves
  Err                \* any error of a decoder or encoder

Byte == 0 .. 255

(* A number of four bytes the last of which is not zero is beyond every    *)
(* length that the decoder can meet.                                       *)
Beyond == 256 * 256 * 256

(* Where the decoder is in the records, and the entries it has restored.   *)
Cursors == [cursor : Nat, restored : SUBSET (Seq(Nat) \X Seq(Nat))]

(* The keys of a snapshot, which is written from a map, are distinct.      *)
ASSUME CodecAssumption ==
  /\ Snapshots \subseteq Seq(Seq(0 .. 127) \X Seq(Byte))
  /\ \A s \in Snapshots : \A i, j \in DOMAIN s : s[i][1] = s[j][1] => i = j
  /\ MaxEnvelopeBytes \in 0 .. Beyond - 1
  /\ Alphabet \subseteq Byte
  /\ Err \notin Nat \cup Seq(Nat) \cup Cursors

VARIABLES
  saved,   \* the snapshot that is saved
  form,    \* "envelope", "legacy" or "hex"
  kept,    \* what the platform keeps of it
  damage,  \* history: "none", "cut", "changed" or "extended"
  read     \* what a new process made of it, <<>> before

codecVars == <<saved, form, kept, damage, read>>

-----------------------------------------------------------------------------
Xor(a, b)        == (a \ b) \cup (b \ a)
ShiftRight(word) == {i - 1 : i \in word \ {0}}

(* The bits of a byte, and the byte n of a word. *)
Weight == <<1, 2, 4, 8, 16, 32, 64, 128>>

BitsOf(byte)    == {i \in 0 .. 7 : (byte \div Weight[i + 1]) % 2 = 1}
ByteOf(word, n) ==
  LET bit(i) == IF 8 * n + i \in word THEN Weight[i + 1] ELSE 0
  IN bit(0) + bit(1) + bit(2) + bit(3) + bit(4) + bit(5) + bit(6) + bit(7)

Polynomial == {5, 8, 9, 15, 19, 20, 21, 23, 24, 26, 27, 29, 30, 31}

CrcShift(crc) ==
  IF 0 \in crc THEN Xor(ShiftRight(crc), Polynomial) ELSE ShiftRight(crc)

CrcFourShifts(crc) == CrcShift(CrcShift(CrcShift(CrcShift(crc))))

(* What a byte makes of the state before it. *)
CrcByte(byte) == [crc \in SUBSET (0 .. 31) |->
                    CrcFourShifts(CrcFourShifts(Xor(crc, BitsOf(byte))))]

(* The state of the checksum after so many of the bytes. *)
CrcAfter(bytes) ==
  LET crc[n \in 0 .. Len(bytes)] ==
        IF n = 0 THEN 0 .. 31 ELSE CrcByte(bytes[n])[crc[n - 1]]
  IN crc

Crc32(bytes) == (0 .. 31) \ CrcAfter(bytes)[Len(bytes)]

(* u32::to_le_bytes, of a word and of a number below 2^32. *)
WordBytes(word) == <<ByteOf(word, 0), ByteOf(word, 1), ByteOf(word, 2), ByteOf(word, 3)>>
Le32(n) == <<n % 256, (n \div 256) % 256, (n \div (256 * 256)) % 256, n \div Beyond>>

Magic       == <<69, 83, 84, 83>>  \* "ESTS"
LegacyMagic == <<69, 83, 84, 49>>  \* "EST1"
Version     == 1

Record(entry) == Le32(Len(entry[1])) \o Le32(Len(entry[2])) \o entry[1] \o entry[2]

(* The first so many entries of the snapshot. *)
Records(snapshot) ==
  LET out[n \in 0 .. Len(snapshot)] ==
        IF n = 0 THEN <<>> ELSE out[n - 1] \o Record(snapshot[n])
  IN out

Payload(snapshot) == Le32(Len(snapshot)) \o Records(snapshot)[Len(snapshot)]

EncodeLimitingPayload(snapshot) ==  \* mutant of Encode: the header is not counted
  LET payload == Payload(snapshot) IN
  IF Len(payload) > MaxEnvelopeBytes THEN Err
  ELSE Magic \o <<Version>> \o WordBytes(Crc32(payload)) \o payload

(* encode_native_state *)
Encode(snapshot) ==
  LET payload == Payload(snapshot) IN
  IF 9 + Len(payload) > MaxEnvelopeBytes THEN Err
  ELSE Magic \o <<Version>> \o WordBytes(Crc32(payload)) \o payload

(* The snapshots of the format before the checksum, which are only read.   *)
LegacyEncode(snapshot) == LegacyMagic \o Payload(snapshot)

-----------------------------------------------------------------------------
(* take and read_u32. *)
Take(bytes, cursor, len) ==
  IF len > Len(bytes) - cursor THEN Err
  ELSE SubSeq(bytes, cursor + 1, cursor + len)

ReadU32(bytes, cursor) ==
  LET b == Take(bytes, cursor, 4) IN
  IF b = Err THEN Err
  ELSE IF b[4] # 0 THEN Beyond ELSE b[1] + 256 * b[2] + 256 * 256 * b[3]

(* One round of the loop of decode_records. *)
DecodeRecord(bytes, at) ==
  IF at = Err THEN Err
  ELSE
  LET keyLen   == ReadU32(bytes, at.cursor)
      valueLen == ReadU32(bytes, at.cursor + 4)
      key      == Take(bytes, at.cursor + 8, keyLen)
      value    == Take(bytes, at.cursor + 8 + keyLen, valueLen)
  IN
  IF \/ keyLen = Err \/ valueLen = Err
     \/ key = Err \/ value = Err
     \/ \E i \in DOMAIN key : key[i] > 127
     \/ \E entry \in at.restored : entry[1] = key
  THEN Err
  ELSE [cursor   |-> at.cursor + 8 + keyLen + valueLen,
        restored |-> at.restored \cup {<<key, value>>}]

(* The decoder after so many rounds. *)
Decoded(payload, rounds) ==
  LET at[n \in 0 .. rounds] ==
        IF n = 0 THEN [cursor |-> 4, restored |-> {}]
        ELSE DecodeRecord(payload, at[n - 1])
  IN at

(* Every round takes eight bytes or more, so that a greater count than     *)
(* there are bytes ends in an error within as many rounds.                 *)
Rounds(payload, count) == IF count > Len(payload) THEN Len(payload) ELSE count

DecodeUntilCount(payload) ==  \* mutant of DecodeRecords: trailing bytes pass
  LET count  == ReadU32(payload, 0)
      rounds == Rounds(payload, count)
      last   == Decoded(payload, rounds)[rounds]
  IN IF count = Err THEN Err ELSE IF last = Err THEN Err ELSE last.restored

(* decode_records: the entries, as a set. *)
DecodeRecords(payload) ==
  LET count  == ReadU32(payload, 0)
      rounds == Rounds(payload, count)
      last   == Decoded(payload, rounds)[rounds]
  IN IF count = Err THEN Err
     ELSE IF last = Err THEN Err
     ELSE IF last.cursor # Len(payload) THEN Err
     ELSE last.restored

(* decode_native_state *)
Decode(bytes) ==
  LET start(n) == SubSeq(bytes, 1, n)
      rest(n)  == SubSeq(bytes, n + 1, Len(bytes))
  IN
  IF bytes = <<>> THEN {}
  ELSE IF Len(bytes) > MaxEnvelopeBytes \/ Len(bytes) < 8 THEN Err
  ELSE IF start(4) = LegacyMagic THEN DecodeRecords(rest(4))
  ELSE IF Len(bytes) < 9 \/ start(4) # Magic \/ bytes[5] # Version THEN Err
  ELSE IF WordBytes(Crc32(rest(9))) # SubSeq(bytes, 6, 9) THEN Err
  ELSE DecodeRecords(rest(9))

-----------------------------------------------------------------------------
(* encode_bytes and decode_bytes of storage.rs.  A character is the value  *)
(* of its digit, and every value above 15 is a character that is none.     *)
EncodeBytes(bytes) ==
  [i \in 1 .. 2 * Len(bytes) |->
     IF i % 2 = 1 THEN bytes[(i + 1) \div 2] \div 16 ELSE bytes[i \div 2] % 16]

DecodeBytes(text) ==
  IF Len(text) % 2 = 1 \/ \E i \in DOMAIN text : text[i] > 15 THEN Err
  ELSE [i \in 1 .. Len(text) \div 2 |-> 16 * text[2 * i - 1] + text[2 * i]]

-----------------------------------------------------------------------------
CodecInit ==
  /\ saved \in Snapshots
  /\ form \in {"envelope", "legacy", "hex"}
  /\ form = "hex" => saved # <<>>
  /\ kept = Err /\ damage = "none" /\ read = <<>>

(* The process saves; for "hex" the first value stands for all. *)
Written == CASE form = "envelope" -> Encode(saved)
             [] form = "legacy"   -> LegacyEncode(saved)
             [] form = "hex"      -> EncodeBytes(saved[1][2])

(* Too large a state is an error, and nothing is kept. *)
Save ==
  /\ kept = Err /\ read = <<>>
  /\ kept' = Written /\ kept' # Err
  /\ UNCHANGED <<saved, form, damage, read>>

(* What is kept loses its end, has one byte changed, or gets one more. *)
Damage ==
  /\ kept # Err /\ read = <<>> /\ damage = "none"
  /\ \/ \E n \in 0 .. Len(kept) - 1 : kept' = SubSeq(kept, 1, n) /\ damage' = "cut"
     \/ \E n \in DOMAIN kept, b \in Alphabet :
          b # kept[n] /\ kept' = [kept EXCEPT ![n] = b] /\ damage' = "changed"
     \/ \E b \in Alphabet : kept' = Append(kept, b) /\ damage' = "extended"
  /\ UNCHANGED <<saved, form, read>>

Restore ==
  /\ kept # Err /\ read = <<>>
  /\ read' = <<IF form = "hex" THEN DecodeBytes(kept) ELSE Decode(kept)>>
  /\ UNCHANGED <<saved, form, kept, damage>>

CodecNext == Save \/ Damage \/ Restore
CodecSpec == CodecInit /\ [][CodecNext]_codecVars

-----------------------------------------------------------------------------
(* What was saved is what is restored, in the envelope, from the snapshots *)
(* of the format before it, and in hexadecimal; whatever the encoder does  *)
(* not call too large the decoder accepts, and every snapshot of the older *)
(* format that is within the same limit. (native_state.rs 55-77, 107-151;  *)
(* storage.rs 56-82)                                                       *)
RoundTrip ==
  /\ read # <<>> /\ damage = "none"
  /\ form = "legacy" => Len(kept) <= MaxEnvelopeBytes
  => read[1] = IF form = "hex" THEN saved[1][2] ELSE Range(saved)

(* "rejects duplicate or corrupt keys" (native_state.rs 103): an envelope  *)
(* that lost its end, gained a byte or has any single byte changed, be it  *)
(* of the magic, the version, a length, the checksum, a key or a value, is *)
(* refused, unless nothing at all is left of it, or the byte is the one in *)
(* which the two magic words differ, so that the rest is taken for a       *)
(* legacy snapshot.  Such a snapshot has no checksum, and is refused if    *)
(* its length is wrong.  A hexadecimal text that is not refused is the one *)
(* encode_bytes writes for the bytes it is read as, so that no two texts   *)
(* stand for the same. (native_state.rs 55-151; storage.rs 56-82)          *)
DamageDetected ==
  read # <<>> /\ damage # "none" /\ kept # <<>> =>
    /\ form = "envelope" =>
         read[1] = Err \/ (damage = "changed" /\ SubSeq(kept, 1, 4) = LegacyMagic)
    /\ form = "legacy" /\ damage # "changed" => read[1] = Err
    /\ form = "hex" => read[1] = Err \/ EncodeBytes(read[1]) = kept

=============================================================================
