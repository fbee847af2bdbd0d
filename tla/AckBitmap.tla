----------------------------- MODULE AckBitmap -----------------------------
(***************************************************************************)
(* AckBitmap (optimized_transfer/bitmap.py) down to its bytes, in the four *)
(* places the engine of runtime.py keeps one: the receiver's               *)
(* received_bitmap, the payload of an ACK or NACK frame, and acked and     *)
(* missing of AckState.  A byte is the set of its bit positions that are   *)
(* one, a bytearray a function from byte index to byte, and the bytes of a *)
(* payload a sequence.                                                     *)
(***************************************************************************)
EXTENDS Integers, Sequences, FiniteSets

CONSTANTS
  Size,         \* total_frames
  ByteBits      \* 8 in the code; a run may use shorter bytes to have more of them

ASSUME SizeAssumption == Size \in Nat /\ ByteBits \in Nat \ {0}

NBytes == (Size + ByteBits - 1) \div ByteBits
Indices == 0 .. Size - 1
Byte == SUBSET (0 .. ByteBits - 1)
Bytes == [0 .. NBytes - 1 -> Byte]

Zero == [k \in 0 .. NBytes - 1 |-> {}]          \* AckBitmap(size)

IsSet(b, i) == i % ByteBits \in b[i \div ByteBits]

Set(b, i) == [b EXCEPT ![i \div ByteBits] = @ \cup {i % ByteBits}]

MergeBits(b, c) == [k \in DOMAIN b |-> b[k] \cup c[k]]

\* The complement of every byte, padding bits included.
InvertBytes(b) == [k \in DOMAIN b |-> (0 .. ByteBits - 1) \ b[k]]      \* mutant
\* invert() walks the indices below size, so the padding stays zero.
Invert(b) == [k \in 0 .. NBytes - 1 |->
                {j \in 0 .. ByteBits - 1 : /\ ByteBits * k + j < Size
                                           /\ ~IsSet(b, ByteBits * k + j)}]

\* count() adds up the one bits of whole bytes, padding included.
Count(b) == Cardinality(UNION {{k} \X b[k] : k \in DOMAIN b})

AllSet(b) == Count(b) = Size

MissingIndexes(b) == {i \in Indices : ~IsSet(b, i)}

WholeBytes(b) == [n \in 1 .. Size \div ByteBits |-> b[n - 1]]           \* mutant
ToBytes(b) == [n \in 1 .. NBytes |-> b[n - 1]]

ShiftedBytes(p) == [k \in 0 .. NBytes - 1 |-> IF k \in DOMAIN p THEN p[k] ELSE {}] \* mutant
PadWithOnes(p) ==                                                      \* mutant
  [k \in 0 .. NBytes - 1 |-> IF k < Len(p) THEN p[k + 1] ELSE 0 .. ByteBits - 1]
\* A short payload is filled up with zero bytes, a long one is cut.
FromBytes(p) == [k \in 0 .. NBytes - 1 |-> IF k < Len(p) THEN p[k + 1] ELSE {}]

-----------------------------------------------------------------------------
VARIABLES received, wire, acked, missing

vars == <<received, wire, acked, missing>>

Reply(type, b) == [type |-> type, payload |-> ToBytes(b)]
Carried == FromBytes(wire.payload)

Init == received = Zero /\ wire = Reply("ACK", Zero) /\ acked = Zero /\ missing = Zero

\* A new DATA frame: run() sets a bit only when is_set says it is not set.
Mark ==
  /\ \E i \in Indices : ~IsSet(received, i) /\ received' = Set(received, i)
  /\ UNCHANGED <<wire, acked, missing>>

\* An ACK carries the bitmap, a NACK its complement.
BuildAck == wire' = Reply("ACK", received) /\ UNCHANGED <<received, acked, missing>>
BuildNack == wire' = Reply("NACK", Invert(received)) /\ UNCHANGED <<received, acked, missing>>

MergeAck ==
  /\ wire.type = "ACK"
  /\ acked' = MergeBits(acked, Carried)
  /\ missing' = Invert(acked')
  /\ UNCHANGED <<received, wire>>

SetMissing ==
  /\ wire.type = "NACK"
  /\ missing' = Carried
  /\ UNCHANGED <<received, wire, acked>>

Next == Mark \/ BuildAck \/ BuildNack \/ MergeAck \/ SetMissing
Spec == Init /\ [][Next]_vars

-----------------------------------------------------------------------------
Marked(b) == {i \in Indices : IsSet(b, i)}
Bitmaps == {received, acked, missing, Carried}

\* Every bitmap has the bytes its size asks for.
TypeOK == Bitmaps \subseteq Bytes /\ DOMAIN wire.payload = 1 .. NBytes

\* No bitmap the engine makes has a one in the padding of its last byte:
\* count() would count it, and all_set would then be right for no bitmap.
PaddingClean ==
  \A b \in Bitmaps : \A k \in DOMAIN b : \A j \in b[k] : ByteBits * k + j < Size

\* all_set, which ends the sender's loop and lets the receiver write, is the
\* same as every index being set, although it only compares a count of bits.
AllSetMeansAll == \A b \in Bitmaps : AllSet(b) <=> Marked(b) = Indices

\* A bitmap cut short on its way claims no index the full one does not claim.
ShortPayloadClaimsLess ==
  \A n \in 0 .. NBytes :
    Marked(FromBytes(SubSeq(wire.payload, 1, n))) \subseteq Marked(Carried)

\* The bytes implement the sets of StreamTransfer: every operation on bitmaps
\* does to the marked indices what AckSets says.
Abstract == INSTANCE AckSets
              WITH held <- Marked(received), known <- Marked(acked), absent <- Marked(missing),
                   report <- [type |-> wire.type, bits |-> Marked(Carried)]
ImplementsSets == Abstract!SSpec
=============================================================================
