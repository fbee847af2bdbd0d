--------------------------- MODULE AckBitmapProofs ---------------------------
(***************************************************************************)
(* Proofs about AckBitmap for every number of frames and every width of a  *)
(* byte: the bytes of bitmap.py do to the marked indices what sets do.     *)
(***************************************************************************)
EXTENDS AckBitmap, TLAPS, FiniteSetTheorems, SequenceTheorems, FunctionTheorems

-----------------------------------------------------------------------------
(* Byte index and bit of a frame index.                                    *)

\* The constants, and the number of bytes, are natural numbers.
LEMMA Sizes == Size \in Nat /\ ByteBits \in Nat \ {0} /\ NBytes \in Nat
<1>1. Size \in Nat /\ ByteBits \in Nat \ {0}
  BY SizeAssumption
<1>2. (Size + ByteBits - 1) \div ByteBits \in Nat
  BY <1>1, SMTT(30)
<1> QED BY <1>1, <1>2 DEF NBytes

\* Byte index and bit say which index it is, and the other way round.
LEMMA Position ==
  /\ \A i \in Nat : /\ i \div ByteBits \in Nat /\ i % ByteBits \in 0 .. ByteBits - 1
                    /\ i = ByteBits * (i \div ByteBits) + (i % ByteBits)
  /\ \A k \in Nat, j \in 0 .. ByteBits - 1 :
       /\ ByteBits * k + j \in Nat
       /\ (ByteBits * k + j) \div ByteBits = k /\ (ByteBits * k + j) % ByteBits = j
<1>1. ByteBits \in Nat \ {0}
  BY Sizes
<1>2. ASSUME NEW i \in Nat
      PROVE  /\ i \div ByteBits \in Nat /\ i % ByteBits \in 0 .. ByteBits - 1
             /\ i = ByteBits * (i \div ByteBits) + (i % ByteBits)
  BY <1>1, SMTT(30)
<1>3. ASSUME NEW k \in Nat, NEW j \in 0 .. ByteBits - 1
      PROVE  /\ ByteBits * k + j \in Nat
             /\ (ByteBits * k + j) \div ByteBits = k /\ (ByteBits * k + j) % ByteBits = j
  BY <1>1, SMTT(30)
<1> QED BY <1>2, <1>3

\* Every index has its byte.
LEMMA ByteOfIndex == \A i \in Indices : i \div ByteBits \in 0 .. NBytes - 1
<1> SUFFICES ASSUME NEW i \in Indices
             PROVE  i \div ByteBits \in 0 .. NBytes - 1
  OBVIOUS
<1> DEFINE k == i \div ByteBits
<1>1. i \in Nat /\ i < Size /\ Size \in Nat /\ ByteBits \in Nat \ {0} /\ NBytes \in Nat
  BY Sizes DEF Indices
<1>2. k \in Nat /\ ByteBits * k <= i
  BY <1>1, Position
<1>3. ByteBits * (NBytes + 1) > Size + ByteBits - 1
  BY <1>1, SMTT(30) DEF NBytes
<1>4. CASE k >= NBytes
  <2> HIDE DEF k
  <2>1. ByteBits * k >= ByteBits * NBytes
    BY <1>1, <1>2, <1>4
  <2>2. ByteBits * (NBytes + 1) = ByteBits * NBytes + ByteBits
    BY <1>1
  <2>3. ByteBits * k \in Nat /\ ByteBits * NBytes \in Nat
    BY <1>1, <1>2
  <2> QED BY <1>1, <1>2, <1>3, <2>1, <2>2, <2>3
<1> QED BY <1>1, <1>2, <1>4

\* What the proofs below use of a frame index.
LEMMA IndexParts ==
  ASSUME NEW i \in Indices
  PROVE  /\ i \in Nat /\ i < Size /\ i \div ByteBits \in 0 .. NBytes - 1
         /\ i % ByteBits \in 0 .. ByteBits - 1
         /\ i = ByteBits * (i \div ByteBits) + (i % ByteBits)
<1>1. i \in Nat /\ i < Size
  BY Sizes DEF Indices
<1>2. /\ i % ByteBits \in 0 .. ByteBits - 1
      /\ i = ByteBits * (i \div ByteBits) + (i % ByteBits)
  BY <1>1, Position
<1> QED BY <1>1, <1>2, ByteOfIndex

-----------------------------------------------------------------------------
(* The operations on bitmaps whose padding is clean.                       *)

Clean(b) == /\ b \in Bytes
            /\ \A k \in 0 .. NBytes - 1 : \A j \in b[k] : ByteBits * k + j < Size

\* A bit of a clean bitmap stands for one index, and is set exactly if that
\* index is marked.
LEMMA MarkedBits ==
  ASSUME NEW b, Clean(b), NEW k \in 0 .. NBytes - 1, NEW j \in b[k]
  PROVE  /\ ByteBits * k + j \in Marked(b) /\ j \in 0 .. ByteBits - 1
         /\ (ByteBits * k + j) \div ByteBits = k /\ (ByteBits * k + j) % ByteBits = j
<1>1. j \in 0 .. ByteBits - 1 /\ k \in Nat
  BY Sizes DEF Clean, Bytes, Byte
<1>2. /\ ByteBits * k + j \in Nat /\ ByteBits * k + j < Size /\ Size \in Nat
      /\ (ByteBits * k + j) \div ByteBits = k /\ (ByteBits * k + j) % ByteBits = j
  BY <1>1, Position, Sizes DEF Clean
<1>3. ByteBits * k + j \in Indices
  BY <1>2 DEF Indices
<1> QED BY <1>1, <1>2, <1>3 DEF Marked, IsSet

\* AckBitmap(size) marks nothing.
LEMMA ZeroMarks == Clean(Zero) /\ Marked(Zero) = {}
<1>1. Zero \in Bytes
  BY DEF Zero, Bytes, Byte
<1>2. \A k \in 0 .. NBytes - 1 : Zero[k] = {}
  BY DEF Zero
<1>3. \A i \in Indices : ~IsSet(Zero, i)
  BY <1>2, ByteOfIndex DEF IsSet
<1> QED BY <1>1, <1>2, <1>3 DEF Clean, Marked

\* set marks one index more.
LEMMA SetMarks ==
  ASSUME NEW b, Clean(b), NEW i \in Indices
  PROVE  Clean(Set(b, i)) /\ Marked(Set(b, i)) = Marked(b) \cup {i}
<1> DEFINE c == Set(b, i)
<1>1. /\ i \in Nat /\ i < Size /\ i \div ByteBits \in 0 .. NBytes - 1
      /\ i % ByteBits \in 0 .. ByteBits - 1
      /\ i = ByteBits * (i \div ByteBits) + (i % ByteBits)
  BY IndexParts
<1>2. /\ c \in Bytes
      /\ \A k \in 0 .. NBytes - 1 :
           c[k] = IF k = i \div ByteBits THEN b[k] \cup {i % ByteBits} ELSE b[k]
  BY <1>1 DEF Set, Clean, Bytes, Byte
<1> HIDE DEF c
<1>3. Clean(c)
  <2> SUFFICES ASSUME NEW k \in 0 .. NBytes - 1, NEW j \in c[k]
               PROVE  ByteBits * k + j < Size
    BY <1>2 DEF Clean
  <2>1. CASE j \in b[k]
    BY <2>1 DEF Clean
  <2>2. CASE j \notin b[k]
    <3>1. k = i \div ByteBits /\ j = i % ByteBits
      BY <1>2, <2>2
    <3> QED BY <1>1, <3>1
  <2> QED BY <2>1, <2>2
<1>4. ASSUME NEW x \in Indices
      PROVE  IsSet(c, x) <=> IsSet(b, x) \/ x = i
  <2>1. /\ x \in Nat /\ x \div ByteBits \in 0 .. NBytes - 1
        /\ x = ByteBits * (x \div ByteBits) + (x % ByteBits)
    BY IndexParts
  <2>2. x = i <=> x \div ByteBits = i \div ByteBits /\ x % ByteBits = i % ByteBits
    BY <1>1, <2>1
  <2> QED BY <1>2, <2>1, <2>2 DEF IsSet
<1> QED BY <1>3, <1>4 DEF Marked, c

\* merge marks what either bitmap marks.
LEMMA MergeMarks ==
  ASSUME NEW b, Clean(b), NEW c, Clean(c)
  PROVE  Clean(MergeBits(b, c)) /\ Marked(MergeBits(b, c)) = Marked(b) \cup Marked(c)
<1> DEFINE d == MergeBits(b, c)
<1>1. d \in Bytes /\ \A k \in 0 .. NBytes - 1 : d[k] = b[k] \cup c[k]
  BY DEF MergeBits, Clean, Bytes, Byte
<1> HIDE DEF d
<1>2. Clean(d)
  BY <1>1 DEF Clean
<1>3. \A x \in Indices : IsSet(d, x) <=> IsSet(b, x) \/ IsSet(c, x)
  BY <1>1, ByteOfIndex DEF IsSet
<1> QED BY <1>2, <1>3 DEF Marked, d

\* invert marks exactly the other indices, and no padding.
LEMMA InvertMarks ==
  ASSUME NEW b, Clean(b)
  PROVE  Clean(Invert(b)) /\ Marked(Invert(b)) = Indices \ Marked(b)
<1> DEFINE d == Invert(b)
<1>1. /\ d \in Bytes
      /\ \A k \in 0 .. NBytes - 1 :
           d[k] = {j \in 0 .. ByteBits - 1 : /\ ByteBits * k + j < Size
                                              /\ ~IsSet(b, ByteBits * k + j)}
  BY DEF Invert, Bytes, Byte
<1> HIDE DEF d
<1>2. Clean(d)
  BY <1>1 DEF Clean
<1>3. ASSUME NEW x \in Indices
      PROVE  IsSet(d, x) <=> ~IsSet(b, x)
  <2>1. /\ x \in Nat /\ x < Size /\ x \div ByteBits \in 0 .. NBytes - 1
        /\ x % ByteBits \in 0 .. ByteBits - 1
        /\ ByteBits * (x \div ByteBits) + (x % ByteBits) = x
    BY IndexParts
  <2>2. x % ByteBits \in d[x \div ByteBits] <=> ~IsSet(b, x)
    BY <1>1, <2>1
  <2> QED BY <2>2 DEF IsSet
<1> QED BY <1>2, <1>3 DEF Marked, d

\* The bytes of a payload come out as they went in.
LEMMA PayloadKept ==
  ASSUME NEW b, Clean(b)
  PROVE  /\ ToBytes(b) \in Seq(Byte) /\ Len(ToBytes(b)) = NBytes
         /\ FromBytes(ToBytes(b)) = b
<1>1. ToBytes(b) \in [1 .. NBytes -> Byte] /\ NBytes \in Nat
  BY Sizes DEF ToBytes, Clean, Bytes
<1>2. ToBytes(b) \in Seq(Byte) /\ Len(ToBytes(b)) = NBytes
  BY <1>1
<1>3. \A k \in 0 .. NBytes - 1 : k < NBytes /\ ToBytes(b)[k + 1] = b[k]
  BY <1>1 DEF ToBytes
<1>4. FromBytes(ToBytes(b)) = [k \in 0 .. NBytes - 1 |-> b[k]]
  BY <1>2, <1>3 DEF FromBytes
<1> QED BY <1>2, <1>4 DEF Clean, Bytes

\* A payload cut short marks nothing the whole one does not mark.
LEMMA ShortMarksLess ==
  ASSUME NEW p \in Seq(Byte), Len(p) = NBytes, NEW n \in 0 .. NBytes
  PROVE  Marked(FromBytes(SubSeq(p, 1, n))) \subseteq Marked(FromBytes(p))
<1>1. NBytes \in Nat /\ n \in Nat
  BY Sizes
<1>2. Len(SubSeq(p, 1, n)) = n /\ \A m \in 1 .. n : SubSeq(p, 1, n)[m] = p[m]
  <2>1. \A m \in 1 .. n : p[m] \in Byte
    BY <1>1, ElementOfSeq
  <2> QED BY <1>1, <2>1, SubSeqProperties
<1>3. ASSUME NEW k \in 0 .. NBytes - 1
      PROVE  FromBytes(SubSeq(p, 1, n))[k] \subseteq FromBytes(p)[k]
  BY <1>1, <1>2 DEF FromBytes
<1> QED BY <1>3, ByteOfIndex DEF Marked, IsSet

\* count adds up whole bytes, and is still the number of marked indices.
LEMMA CountsMarked ==
  ASSUME NEW b, Clean(b)
  PROVE  IsFiniteSet(Marked(b)) /\ Count(b) = Cardinality(Marked(b))
<1> DEFINE bits == UNION {{k} \X b[k] : k \in 0 .. NBytes - 1}
           place == [i \in Marked(b) |-> <<i \div ByteBits, i % ByteBits>>]
<1>1. IsFiniteSet(Indices)
  BY Sizes, FS_Interval DEF Indices
<1>2. IsFiniteSet(Marked(b))
  BY <1>1, FS_Subset DEF Marked
<1>3. ASSUME NEW i \in Marked(b)
      PROVE  place[i] \in bits
  <2>1. i \in Indices /\ i % ByteBits \in b[i \div ByteBits]
    BY DEF Marked, IsSet
  <2>2. i \div ByteBits \in 0 .. NBytes - 1
    BY <2>1, ByteOfIndex
  <2> QED BY <2>1, <2>2
<1>4. ASSUME NEW i \in Marked(b), NEW x \in Marked(b), place[i] = place[x]
      PROVE  i = x
  <2>1. i \in Indices /\ x \in Indices
    BY DEF Marked
  <2>2. i \div ByteBits = x \div ByteBits /\ i % ByteBits = x % ByteBits
    BY <1>4
  <2> QED BY <2>1, <2>2, IndexParts
<1>5. ASSUME NEW u \in bits
      PROVE  \E i \in Marked(b) : place[i] = u
  <2>1. PICK k \in 0 .. NBytes - 1 : u \in {k} \X b[k]
    OBVIOUS
  <2>2. PICK j \in b[k] : u = <<k, j>>
    BY <2>1
  <2>3. /\ ByteBits * k + j \in Marked(b)
        /\ (ByteBits * k + j) \div ByteBits = k /\ (ByteBits * k + j) % ByteBits = j
    BY MarkedBits
  <2>4. place[ByteBits * k + j] = u
    BY <2>2, <2>3
  <2> QED BY <2>3, <2>4
<1>6. place \in [Marked(b) -> bits]
  BY <1>3
<1> HIDE DEF place, bits
<1>7. ExistsBijection(Marked(b), bits)
  <2>1. place \in Injection(Marked(b), bits)
    BY <1>4, <1>6, Fun_IsInj
  <2>2. place \in Surjection(Marked(b), bits)
    BY <1>5, <1>6 DEF Surjection
  <2> QED BY <2>1, <2>2 DEF Bijection, ExistsBijection
<1>8. Count(b) = Cardinality(bits)
  BY DEF Count, Clean, Bytes, bits
<1> QED BY <1>2, <1>7, <1>8, FS_Bijection

\* all_set compares a count with the size, which is enough.
LEMMA CountDecides ==
  ASSUME NEW b, Clean(b)
  PROVE  AllSet(b) <=> Marked(b) = Indices
<1>1. IsFiniteSet(Indices) /\ Cardinality(Indices) = Size
  BY Sizes, FS_Interval DEF Indices
<1>2. Marked(b) \in SUBSET Indices
  BY DEF Marked
<1>3. Cardinality(Marked(b)) = Cardinality(Indices) => Marked(b) = Indices
  BY <1>1, <1>2, FS_Subset
<1> QED BY <1>1, <1>3, CountsMarked DEF AllSet

-----------------------------------------------------------------------------
(* The inductive invariant: every bitmap, the one under way included, is   *)
(* clean.                                                                  *)

IInv ==
  /\ Clean(received) /\ Clean(acked) /\ Clean(missing)
  /\ wire.type \in {"ACK", "NACK"}
  /\ wire.payload \in Seq(Byte) /\ Len(wire.payload) = NBytes
  /\ Clean(Carried)

\* What a reply carries is the bitmap it was built from.
LEMMA ReplyCarries ==
  ASSUME NEW b, Clean(b), NEW type \in {"ACK", "NACK"}
  PROVE  /\ Reply(type, b).type = type
         /\ Reply(type, b).payload \in Seq(Byte) /\ Len(Reply(type, b).payload) = NBytes
         /\ FromBytes(Reply(type, b).payload) = b
  BY PayloadKept DEF Reply

\* Empty bitmaps are clean.
LEMMA InitClean == Init => IInv
  BY ZeroMarks, ReplyCarries DEF Init, IInv, Carried

\* Every operation of the engine keeps every bitmap clean.
LEMMA StepClean == IInv /\ [Next]_vars => IInv'
<1> SUFFICES ASSUME IInv, [Next]_vars
             PROVE  IInv'
  OBVIOUS
<1> USE DEF IInv, Carried
<1>1. CASE Mark
  <2>1. PICK i \in Indices : received' = Set(received, i)
    BY <1>1 DEF Mark
  <2>2. Clean(received')
    BY <2>1, SetMarks
  <2> QED BY <1>1, <2>2 DEF Mark, Clean
<1>2. CASE BuildAck
  BY <1>2, ReplyCarries DEF BuildAck, Clean
<1>3. CASE BuildNack
  <2>1. Clean(Invert(received))
    BY InvertMarks
  <2> QED BY <1>3, <2>1, ReplyCarries DEF BuildNack, Clean
<1>4. CASE MergeAck
  <2>1. Clean(acked')
    BY <1>4, MergeMarks DEF MergeAck
  <2>2. Clean(missing')
    BY <1>4, <2>1, InvertMarks DEF MergeAck
  <2> QED BY <1>4, <2>1, <2>2 DEF MergeAck, Clean
<1>5. CASE SetMissing
  BY <1>5 DEF SetMissing, Clean
<1>6. CASE UNCHANGED vars
  BY <1>6 DEF vars, Clean
<1> QED BY <1>1, <1>2, <1>3, <1>4, <1>5, <1>6 DEF Next

\* Every bitmap of the engine is clean in every reachable state.
LEMMA Invariance == Spec => []IInv
  BY InitClean, StepClean, PTL DEF Spec

\* Every bitmap has the bytes its size asks for.
THEOREM TypeCorrect == Spec => []TypeOK
<1>1. IInv => TypeOK
  <2> SUFFICES ASSUME IInv PROVE TypeOK
    OBVIOUS
  <2>1. Bitmaps \subseteq Bytes
    BY DEF IInv, Bitmaps, Clean
  <2>2. DOMAIN wire.payload = 1 .. NBytes
    BY DEF IInv
  <2> QED BY <2>1, <2>2 DEF TypeOK
<1> QED BY <1>1, Invariance, PTL

\* No bitmap has a one in its padding, neither the bitmap of a NACK, which
\* is a complement, nor what the sender makes of it.
THEOREM PaddingIsClean == Spec => []PaddingClean
<1>1. IInv => PaddingClean
  BY DEF IInv, PaddingClean, Bitmaps, Clean, Bytes
<1> QED BY <1>1, Invariance, PTL

\* A payload cut short claims nothing the whole one does not claim.
THEOREM ShortPayloadsAreSafe == Spec => []ShortPayloadClaimsLess
<1>1. IInv => ShortPayloadClaimsLess
  BY ShortMarksLess DEF IInv, ShortPayloadClaimsLess, Carried
<1> QED BY <1>1, Invariance, PTL

\* all_set, by which the sender's loop ends and the receiver decides to write,
\* holds exactly when every index is set.
THEOREM AllSetIsSound == Spec => []AllSetMeansAll
<1>1. IInv => AllSetMeansAll
  BY CountDecides DEF IInv, AllSetMeansAll, Bitmaps
<1> QED BY <1>1, Invariance, PTL

-----------------------------------------------------------------------------
(* The refinement of AckSets.                                              *)

\* Empty bitmaps mark nothing, as AckSets begins.
LEMMA InitMarks == Init => Abstract!SInit
<1> SUFFICES ASSUME Init PROVE Abstract!SInit
  OBVIOUS
<1>1. Marked(received) = {} /\ Marked(acked) = {} /\ Marked(missing) = {}
  BY ZeroMarks DEF Init
<1>2. wire.type = "ACK" /\ Carried = Zero
  BY ZeroMarks, ReplyCarries DEF Init, Carried
<1> QED BY <1>1, <1>2, ZeroMarks DEF Abstract!SInit

\* One step on bytes is the step on sets of the same name, or none.
LEMMA StepMarks ==
  IInv /\ [Next]_vars =>
    [Abstract!SMark \/ Abstract!SReport \/ Abstract!SLearn \/ Abstract!SMiss]_(Abstract!setVars)
<1> SUFFICES ASSUME IInv, [Next]_vars
             PROVE  \/ Abstract!SMark \/ Abstract!SReport \/ Abstract!SLearn \/ Abstract!SMiss
                    \/ UNCHANGED Abstract!setVars
  BY Zenon
<1> USE DEF IInv
<1>1. CASE Mark
  <2>1. PICK i \in Indices : ~IsSet(received, i) /\ received' = Set(received, i)
    BY <1>1 DEF Mark
  <2>2. Marked(received)' = Marked(received) \cup {i} /\ i \in Indices \ Marked(received)
    <3>1. Marked(received)' = Marked(Set(received, i))
      BY <2>1 DEF Marked
    <3> QED BY <2>1, <3>1, SetMarks DEF Marked
  <2>3. UNCHANGED <<wire, acked, missing>>
    BY <1>1 DEF Mark
  <2>4. UNCHANGED <<Marked(acked), Marked(missing), Marked(Carried), wire.type>>
    BY <2>3 DEF Marked, Carried
  <2>5. Abstract!SMark
    BY <2>2, <2>4 DEF Abstract!SMark
  <2> QED BY <2>5
<1>2. CASE BuildAck
  <2>1. wire'.type = "ACK" /\ Carried' = received
    BY <1>2, ReplyCarries DEF BuildAck, Carried
  <2>2. Marked(Carried)' = Marked(received)
    BY <2>1 DEF Marked
  <2>3. UNCHANGED <<Marked(received), Marked(acked), Marked(missing)>>
    BY <1>2 DEF BuildAck, Marked
  <2>4. Abstract!SReport
    BY <2>1, <2>2, <2>3 DEF Abstract!SReport
  <2> QED BY <2>4
<1>3. CASE BuildNack
  <2>1. wire'.type = "NACK" /\ Carried' = Invert(received)
    <3>1. Clean(Invert(received))
      BY InvertMarks
    <3> QED BY <1>3, <3>1, ReplyCarries DEF BuildNack, Carried
  <2>2. Marked(Carried)' = Indices \ Marked(received)
    <3>1. Marked(Carried)' = Marked(Invert(received))
      BY <2>1 DEF Marked
    <3> QED BY <3>1, InvertMarks
  <2>3. UNCHANGED <<Marked(received), Marked(acked), Marked(missing)>>
    BY <1>3 DEF BuildNack, Marked
  <2>4. Abstract!SReport
    BY <2>1, <2>2, <2>3 DEF Abstract!SReport
  <2> QED BY <2>4
<1>4. CASE MergeAck
  <2>1. Clean(acked') /\ Marked(acked)' = Marked(acked) \cup Marked(Carried)
    <3>1. Marked(acked)' = Marked(MergeBits(acked, Carried))
      BY <1>4 DEF MergeAck, Marked
    <3> QED BY <1>4, <3>1, MergeMarks DEF MergeAck
  <2>2. Marked(missing)' = Indices \ Marked(acked)'
    <3>1. Marked(missing)' = Marked(Invert(acked')) /\ Marked(acked)' = Marked(acked')
      BY <1>4 DEF MergeAck, Marked
    <3> QED BY <2>1, <3>1, InvertMarks
  <2>3. wire.type = "ACK" /\ UNCHANGED <<Marked(received), Marked(Carried), wire.type>>
    BY <1>4 DEF MergeAck, Marked, Carried
  <2>4. Abstract!SLearn
    BY <2>1, <2>2, <2>3 DEF Abstract!SLearn
  <2> QED BY <2>4
<1>5. CASE SetMissing
  <2>1. /\ wire.type = "NACK" /\ Marked(missing)' = Marked(Carried)
        /\ UNCHANGED <<Marked(received), Marked(acked), Marked(Carried), wire.type>>
    BY <1>5 DEF SetMissing, Marked, Carried
  <2>2. Abstract!SMiss
    BY <2>1 DEF Abstract!SMiss
  <2> QED BY <2>2
<1>6. CASE UNCHANGED vars
  <2>1. UNCHANGED Abstract!setVars
    BY <1>6 DEF vars, Abstract!setVars, Marked, Carried
  <2> QED BY <2>1
<1> QED BY <1>1, <1>2, <1>3, <1>4, <1>5, <1>6 DEF Next

\* The bytes do to the marked indices what AckSets says, so that what
\* StreamTransfer shows of sets of frames is shown of the bitmaps.
THEOREM SetsImplemented == Spec => ImplementsSets
  BY InitMarks, StepMarks, Invariance, PTL DEF Spec, ImplementsSets, Abstract!SSpec
=============================================================================
