-------------------------- MODULE FrameCodecProofs --------------------------
(***************************************************************************)
(* Proofs about FrameCodec for every number of symbols, every checksum,    *)
(* any number of frames and of symbols of noise.                           *)
(***************************************************************************)
EXTENDS FrameCodec, FirstElements, SequenceTheorems

Bytes == Seq(Symbol)

LEMMA SymbolsAreNumbers ==
  /\ Base \in Nat \ {0} /\ Symbol \subseteq Nat /\ Magic \in Symbol
  /\ MaxPayload \in Nat /\ \A s \in Symbol : s <= MaxPayload
BY ConstantsAssumption DEF Symbol, MaxPayload

-----------------------------------------------------------------------------
(* The four things a turn of the loop may see at an offset.                *)

\* Not a whole header, or not the whole frame it announces.
Incomplete(o, data) ==
  \/ ~HeaderReady(o, data)
  \/ HeaderReady(o, data) /\ data[o + 1] = Magic /\ FrameEnd(o, data) > Len(data)

ChecksumHolds(o, data) == data[o + 4] = Checksum(data[o + 2], PayloadAt(o, data))

Complete(o, data) ==
  HeaderReady(o, data) /\ data[o + 1] = Magic /\ ~(FrameEnd(o, data) > Len(data))

Rejected(o, data) ==
  \/ HeaderReady(o, data) /\ data[o + 1] # Magic
  \/ Complete(o, data) /\ ~ChecksumHolds(o, data)

Unknown(o, data) ==
  Complete(o, data) /\ ChecksumHolds(o, data) /\ ~KnownType(data[o + 2])

Intact(o, data) ==
  Complete(o, data) /\ ChecksumHolds(o, data) /\ KnownType(data[o + 2])

LEMMA FourSights ==
  ASSUME NEW o, NEW data
  PROVE  Incomplete(o, data) \/ Rejected(o, data) \/ Unknown(o, data) \/ Intact(o, data)
BY DEF Incomplete, Complete, Rejected, Unknown, Intact

LEMMA TurnOfEach ==
  ASSUME NEW o, NEW data, NEW scan
  PROVE  /\ Incomplete(o, data) => Turn(o, data, scan) = Stop(o, FALSE)
         /\ Rejected(o, data) => Turn(o, data, scan) = scan[Resync(o)]
         /\ Unknown(o, data) => Turn(o, data, scan) = Stop(o, TRUE)
         /\ Intact(o, data) =>
              Turn(o, data, scan) =
                Found(data[o + 2], PayloadAt(o, data), scan[FrameEnd(o, data)])
<1>1. CASE Incomplete(o, data)
  BY <1>1, Zenon DEF Turn, Incomplete, Rejected, Unknown, Intact, Complete
<1>2. CASE Rejected(o, data)
  BY <1>2, Zenon DEF Turn, Incomplete, Rejected, Unknown, Intact, Complete, ChecksumHolds
<1>3. CASE Unknown(o, data)
  BY <1>3, Zenon DEF Turn, Incomplete, Rejected, Unknown, Intact, Complete, ChecksumHolds
<1>4. CASE Intact(o, data)
  BY <1>4, Zenon DEF Turn, Incomplete, Rejected, Unknown, Intact, Complete, ChecksumHolds
<1> QED BY <1>1, <1>2, <1>3, <1>4, FourSights

\* Where a turn goes on, it goes on at a later offset within the data.
LEMMA TurnAdvances ==
  ASSUME NEW data \in Bytes, NEW o \in 0 .. Len(data)
  PROVE  /\ HeaderReady(o, data) => /\ o + 4 <= Len(data) /\ data[o + 3] \in Symbol
                                    /\ FrameEnd(o, data) \in Nat
                                    /\ FrameEnd(o, data) = o + 4 + data[o + 3]
         /\ Rejected(o, data) => Resync(o) \in o + 1 .. Len(data)
         /\ Intact(o, data) => FrameEnd(o, data) \in o + 1 .. Len(data)
<1>0. Len(data) \in Nat /\ o \in Nat
  BY LenProperties DEF Bytes
<1>1. ASSUME HeaderReady(o, data)
      PROVE  /\ o + 4 <= Len(data) /\ data[o + 3] \in Symbol
             /\ FrameEnd(o, data) \in Nat
             /\ FrameEnd(o, data) = o + 4 + data[o + 3]
  <2>1. o + 4 <= Len(data)
    BY <1>1 DEF HeaderReady, HeaderSize
  <2>2. o + 3 \in 1 .. Len(data)
    BY <1>0, <2>1
  <2>3. data[o + 3] \in Symbol
    BY <2>2, ElementOfSeq DEF Bytes
  <2>4. data[o + 3] \in Nat
    BY <2>3, SymbolsAreNumbers
  <2> QED BY <1>0, <2>1, <2>3, <2>4 DEF FrameEnd, HeaderSize
<1>2. Rejected(o, data) => Resync(o) \in o + 1 .. Len(data)
  BY <1>0, <1>1 DEF Rejected, Complete, Resync
<1>3. Intact(o, data) => FrameEnd(o, data) \in o + 1 .. Len(data)
  <2> SUFFICES ASSUME Intact(o, data) PROVE FrameEnd(o, data) \in o + 1 .. Len(data)
    OBVIOUS
  <2>1. HeaderReady(o, data) /\ ~(FrameEnd(o, data) > Len(data))
    BY DEF Intact, Complete
  <2>2. data[o + 3] \in Nat /\ FrameEnd(o, data) = o + 4 + data[o + 3]
    BY <1>1, <2>1, SymbolsAreNumbers
  <2> QED BY <1>0, <2>1, <2>2
<1> QED BY <1>1, <1>2, <1>3

-----------------------------------------------------------------------------
(* The recursive function scan is defined at every offset.                 *)

\* A turn only asks for turns at later offsets.
LEMMA TurnLooksAhead ==
  ASSUME NEW data \in Bytes, NEW f, NEW g, NEW o \in 0 .. Len(data),
         \A p \in o + 1 .. Len(data) : f[p] = g[p]
  PROVE  Turn(o, data, f) = Turn(o, data, g)
<1>1. CASE Incomplete(o, data) \/ Unknown(o, data)
  BY <1>1, TurnOfEach
<1>2. CASE Rejected(o, data)
  <2>1. f[Resync(o)] = g[Resync(o)]
    BY <1>2, TurnAdvances
  <2> QED BY <1>2, <2>1, TurnOfEach
<1>3. CASE Intact(o, data)
  <2>1. f[FrameEnd(o, data)] = g[FrameEnd(o, data)]
    BY <1>3, TurnAdvances
  <2>2. /\ Turn(o, data, f) = Found(data[o + 2], PayloadAt(o, data), f[FrameEnd(o, data)])
        /\ Turn(o, data, g) = Found(data[o + 2], PayloadAt(o, data), g[FrameEnd(o, data)])
    BY <1>3, TurnOfEach
  <2> QED BY <2>1, <2>2
<1> QED BY <1>1, <1>2, <1>3, FourSights

LEMMA ScanExists ==
  ASSUME NEW data \in Bytes
  PROVE  \E f : f = [o \in 0 .. Len(data) |-> Turn(o, data, f)]
<1> DEFINE size == Len(data)
           Solved(k) == \E f : \A o \in k .. size : f[o] = Turn(o, data, f)
           T == {k \in 0 .. size : Solved(k)}
<1>0. size \in Nat
  BY LenProperties DEF Bytes
<1> HIDE DEF size
<1>1. ASSUME NEW k \in 0 .. size, \A m \in k + 1 .. size : m \in T
      PROVE  k \in T
  <2>1. Solved(k + 1)
    <3>1. CASE k = size
      BY <1>0, <3>1
    <3>2. CASE k < size
      <4>1. k + 1 \in k + 1 .. size
        BY <1>0, <3>2
      <4> HIDE DEF Solved
      <4> QED BY <1>1, <4>1
    <3> QED BY <1>0, <3>1, <3>2
  <2>2. PICK f : \A o \in k + 1 .. size : f[o] = Turn(o, data, f)
    BY <2>1
  <2> DEFINE g == [o \in 0 .. size |-> IF o = k THEN Turn(k, data, f) ELSE f[o]]
  <2>3. ASSUME NEW o \in k .. size
        PROVE  g[o] = Turn(o, data, g)
    <3>1. \A p \in o + 1 .. size : g[p] = f[p]
      BY <1>0
    <3>2. o \in 0 .. size
      BY <1>0
    <3> HIDE DEF g
    <3>3. Turn(o, data, f) = Turn(o, data, g)
      BY <3>1, <3>2, TurnLooksAhead DEF size
    <3>4. g[o] = Turn(o, data, f)
      BY <2>2, <1>0 DEF g
    <3> QED BY <3>3, <3>4
  <2> HIDE DEF g
  <2>4. Solved(k)
    BY <2>3
  <2> QED BY <2>4
<1> HIDE DEF T
<1>2. 0 \in T
  <2>1. \A k \in 0 .. size : k \in T
    BY <1>0, <1>1, DownwardInduction
  <2> QED BY <1>0, <2>1
<1>3. PICK f : \A o \in 0 .. size : f[o] = Turn(o, data, f)
  BY <1>2 DEF T
<1> DEFINE h == [o \in 0 .. size |-> f[o]]
<1>4. ASSUME NEW o \in 0 .. size PROVE h[o] = Turn(o, data, h)
  <2>1. \A p \in o + 1 .. size : h[p] = f[p]
    BY <1>0
  <2> HIDE DEF h
  <2>2. Turn(o, data, f) = Turn(o, data, h)
    BY <2>1, TurnLooksAhead DEF size
  <2> QED BY <1>3, <2>2 DEF h
<1>5. h = [o \in 0 .. size |-> h[o]]
  OBVIOUS
<1> HIDE DEF h
<1>6. h = [o \in 0 .. size |-> Turn(o, data, h)]
  BY <1>4, <1>5
<1> QED BY <1>6 DEF size

\* What a decode comes to at an offset is what one turn of the loop makes of it.
LEMMA ScanTurn ==
  ASSUME NEW data \in Bytes, NEW o \in 0 .. Len(data)
  PROVE  Scan(data)[o] = Turn(o, data, Scan(data))
<1> DEFINE s == Scan(data)
<1>1. s = CHOOSE f : f = [p \in 0 .. Len(data) |-> Turn(p, data, f)]
  BY DEF Scan
<1>2. PICK f : f = [p \in 0 .. Len(data) |-> Turn(p, data, f)]
  BY ScanExists
<1> HIDE DEF s
<1>3. s = [p \in 0 .. Len(data) |-> Turn(p, data, s)]
  BY <1>1, <1>2
<1>4. s[o] = Turn(o, data, s)
  BY <1>3
<1> QED BY <1>4 DEF s

-----------------------------------------------------------------------------
(* What a decode comes to.                                                 *)

AnyFrame == [type : FrameTypes, payload : Bytes]
Outcome == [frames : Seq(AnyFrame), offset : Nat, raised : BOOLEAN]

LEMMA StopFields ==
  ASSUME NEW o \in Nat, NEW raised \in BOOLEAN
  PROVE  /\ Stop(o, raised) \in Outcome /\ Stop(o, raised).frames = << >>
         /\ Stop(o, raised).offset = o /\ Stop(o, raised).raised = raised
<1>1. << >> \in Seq(AnyFrame)
  BY EmptySeq
<1> QED BY <1>1 DEF Stop, Outcome

LEMMA FoundFields ==
  ASSUME NEW type \in FrameTypes, NEW payload \in Bytes, NEW rest \in Outcome
  PROVE  /\ Found(type, payload, rest) \in Outcome
         /\ [type |-> type, payload |-> payload] \in AnyFrame
         /\ Found(type, payload, rest).frames
              = <<[type |-> type, payload |-> payload]>> \o rest.frames
         /\ Found(type, payload, rest).offset = rest.offset
         /\ Found(type, payload, rest).raised = rest.raised
<1> DEFINE f == [type |-> type, payload |-> payload]
<1>1. f \in AnyFrame
  BY DEF AnyFrame
<1> HIDE DEF f
<1>2. <<f>> \in Seq(AnyFrame)
  BY <1>1
<1>3. <<f>> \o rest.frames \in Seq(AnyFrame)
  BY <1>2, ConcatProperties DEF Outcome
<1>4. Found(type, payload, rest) = [rest EXCEPT !.frames = <<f>> \o rest.frames]
  BY DEF Found, f
<1>5. /\ Found(type, payload, rest) \in Outcome
      /\ Found(type, payload, rest).frames = <<f>> \o rest.frames
      /\ Found(type, payload, rest).offset = rest.offset
      /\ Found(type, payload, rest).raised = rest.raised
  BY <1>3, <1>4 DEF Outcome
<1> QED BY <1>1, <1>5 DEF f

\* The same of an outcome known to be found.
LEMMA FoundIs ==
  ASSUME NEW type \in FrameTypes, NEW payload \in Bytes, NEW rest \in Outcome,
         NEW r, r = Found(type, payload, rest)
  PROVE  /\ r \in Outcome /\ [type |-> type, payload |-> payload] \in AnyFrame
         /\ r.frames = <<[type |-> type, payload |-> payload]>> \o rest.frames
         /\ r.offset = rest.offset /\ r.raised = rest.raised
BY FoundFields

LEMMA PayloadTyped ==
  ASSUME NEW data \in Bytes, NEW o \in 0 .. Len(data), Complete(o, data)
  PROVE  /\ PayloadAt(o, data) \in Bytes
         /\ Len(PayloadAt(o, data)) = data[o + 3]
         /\ \A i \in 1 .. data[o + 3] : PayloadAt(o, data)[i] = data[o + 4 + i]
<1>0. /\ Len(data) \in Nat /\ o \in Nat /\ data[o + 3] \in Nat
      /\ FrameEnd(o, data) = o + 4 + data[o + 3] /\ FrameEnd(o, data) <= Len(data)
  <2>1. HeaderReady(o, data) /\ ~(FrameEnd(o, data) > Len(data)) /\ Len(data) \in Nat
    BY LenProperties DEF Complete, Bytes
  <2>2. data[o + 3] \in Nat /\ FrameEnd(o, data) = o + 4 + data[o + 3]
    BY <2>1, TurnAdvances, SymbolsAreNumbers
  <2> QED BY <2>1, <2>2
<1> DEFINE m == o + 5
           n == FrameEnd(o, data)
<1>1. m \in Int /\ n \in Int /\ PayloadAt(o, data) = SubSeq(data, m, n)
  BY <1>0 DEF PayloadAt, HeaderSize
<1>2. ASSUME NEW i \in m .. n PROVE data[i] \in Symbol
  <2>1. i \in 1 .. Len(data)
    BY <1>0
  <2> QED BY <2>1, ElementOfSeq DEF Bytes
<1> HIDE DEF m, n
<1>3. /\ SubSeq(data, m, n) \in Seq(Symbol)
      /\ Len(SubSeq(data, m, n)) = IF m <= n THEN n - m + 1 ELSE 0
      /\ \A i \in 1 .. n - m + 1 : SubSeq(data, m, n)[i] = data[m + i - 1]
  BY <1>1, <1>2, SubSeqProperties
<1>4. n - m + 1 = data[o + 3] /\ (IF m <= n THEN n - m + 1 ELSE 0) = data[o + 3]
  BY <1>0 DEF m, n
<1>5. \A i \in 1 .. data[o + 3] : m + i - 1 = o + 4 + i
  BY <1>0 DEF m
<1> QED BY <1>1, <1>3, <1>4, <1>5 DEF Bytes

\* What a decode stops before is less than one frame of the largest size.
LEMMA IncompleteIsShort ==
  ASSUME NEW data \in Bytes, NEW o \in 0 .. Len(data), Incomplete(o, data)
  PROVE  Len(data) - o < HeaderSize + MaxPayload
<1>0. Len(data) \in Nat /\ o \in Nat /\ MaxPayload \in Nat /\ HeaderSize = 4
  BY LenProperties, SymbolsAreNumbers DEF Bytes, HeaderSize
<1>1. CASE ~HeaderReady(o, data)
  BY <1>0, <1>1 DEF HeaderReady
<1>2. CASE HeaderReady(o, data) /\ FrameEnd(o, data) > Len(data)
  <2>1. /\ data[o + 3] \in Nat /\ data[o + 3] <= MaxPayload
        /\ FrameEnd(o, data) = o + 4 + data[o + 3]
    BY <1>2, TurnAdvances, SymbolsAreNumbers
  <2> QED BY <1>0, <1>2, <2>1
<1> QED BY <1>1, <1>2 DEF Incomplete

\* A decode from any offset finds frames of known types, and stops within the
\* data: at a frame that is not whole, unless at one of unknown type.
LEMMA ScanOutcome ==
  ASSUME NEW data \in Bytes, NEW o \in 0 .. Len(data)
  PROVE  /\ Scan(data)[o] \in Outcome
         /\ Scan(data)[o].offset \in o .. Len(data)
         /\ ~Scan(data)[o].raised => Incomplete(Scan(data)[o].offset, data)
<1> DEFINE s == Scan(data)
           Good(k) == /\ s[k] \in Outcome
                      /\ s[k].offset \in k .. Len(data)
                      /\ ~s[k].raised => Incomplete(s[k].offset, data)
           T == {k \in 0 .. Len(data) : Good(k)}
<1>0. Len(data) \in Nat
  BY LenProperties DEF Bytes
<1>1. ASSUME NEW k \in 0 .. Len(data), \A m \in k + 1 .. Len(data) : m \in T
      PROVE  k \in T
  <2>0. k \in Nat
    BY <1>0
  <2>1. s[k] = Turn(k, data, s)
    BY ScanTurn
  <2>2. \A m \in k + 1 .. Len(data) : Good(m)
    BY <1>1
  <2> HIDE DEF s
  <2>3. CASE Incomplete(k, data)
    <3>1. s[k] = Stop(k, FALSE)
      BY <2>1, <2>3, TurnOfEach
    <3>2. s[k] \in Outcome /\ s[k].offset = k
      BY <2>0, <3>1, StopFields
    <3> QED BY <1>0, <2>3, <3>2
  <2>4. CASE Unknown(k, data)
    <3>1. s[k] = Stop(k, TRUE)
      BY <2>1, <2>4, TurnOfEach
    <3>2. s[k] \in Outcome /\ s[k].offset = k /\ s[k].raised
      BY <2>0, <3>1, StopFields
    <3> QED BY <1>0, <3>2
  <2>5. CASE Rejected(k, data)
    <3>1. s[k] = s[Resync(k)] /\ Resync(k) \in k + 1 .. Len(data)
      BY <2>1, <2>5, TurnOfEach, TurnAdvances
    <3> QED BY <1>0, <2>2, <3>1
  <2>6. CASE Intact(k, data)
    <3> DEFINE end == FrameEnd(k, data)
    <3>1. /\ s[k] = Found(data[k + 2], PayloadAt(k, data), s[end])
          /\ end \in k + 1 .. Len(data)
      BY <2>1, <2>6, TurnOfEach, TurnAdvances
    <3>2. data[k + 2] \in FrameTypes /\ PayloadAt(k, data) \in Bytes
      BY <2>6, PayloadTyped DEF Intact, KnownType
    <3> HIDE DEF end
    <3>3. s[end] \in Outcome
      BY <2>2, <3>1
    <3>4. s[k] \in Outcome /\ s[k].offset = s[end].offset /\ s[k].raised = s[end].raised
      <4> DEFINE type == data[k + 2]
                 payload == PayloadAt(k, data)
                 rest == s[end]
      <4>1. type \in FrameTypes /\ payload \in Bytes /\ rest \in Outcome
        BY <3>2, <3>3
      <4>2. s[k] = Found(type, payload, rest)
        BY <3>1
      <4> HIDE DEF type, payload, rest
      <4>3. Found(type, payload, rest) \in Outcome
        BY <4>1, FoundFields
      <4>4. Found(type, payload, rest).offset = rest.offset
        BY <4>1, FoundFields
      <4>5. Found(type, payload, rest).raised = rest.raised
        BY <4>1, FoundFields
      <4> QED BY <4>2, <4>3, <4>4, <4>5 DEF rest
    <3> QED BY <1>0, <2>2, <3>1, <3>4
  <2> QED BY <2>3, <2>4, <2>5, <2>6, FourSights
<1> HIDE DEF T
<1>2. \A k \in 0 .. Len(data) : k \in T
  BY <1>0, <1>1, DownwardInduction
<1> QED BY <1>2 DEF T

-----------------------------------------------------------------------------
(* Decoding a stretch of the data.                                         *)

\* d stands in e after its first k symbols.
Occurs(d, e, k) ==
  k + Len(d) <= Len(e) /\ \A i \in 1 .. Len(d) : d[i] = e[k + i]

\* A whole header looks the same in a stretch as in the data around it, and
\* so does a whole frame.
LEMMA SameHeader ==
  ASSUME NEW d \in Bytes, NEW e \in Bytes, NEW k \in Nat, Occurs(d, e, k),
         NEW o \in 0 .. Len(d), HeaderReady(o, d)
  PROVE  /\ k + o \in 0 .. Len(e) /\ HeaderReady(k + o, e)
         /\ \A i \in 1 .. 4 : e[(k + o) + i] = d[o + i]
         /\ FrameEnd(k + o, e) = k + FrameEnd(o, d)
<1>0. /\ Len(d) \in Nat /\ Len(e) \in Nat /\ o \in Nat /\ HeaderSize = 4
      /\ k + Len(d) <= Len(e) /\ \A i \in 1 .. Len(d) : d[i] = e[k + i]
  BY LenProperties DEF Bytes, Occurs, HeaderSize
<1>1. o + 4 <= Len(d) /\ d[o + 3] \in Nat /\ FrameEnd(o, d) = o + 4 + d[o + 3]
  BY TurnAdvances, SymbolsAreNumbers
<1>2. k + o \in 0 .. Len(e) /\ HeaderReady(k + o, e)
  BY <1>0, <1>1 DEF HeaderReady
<1>3. ASSUME NEW i \in 1 .. 4 PROVE e[(k + o) + i] = d[o + i]
  <2>1. o + i \in 1 .. Len(d) /\ k + (o + i) = (k + o) + i
    BY <1>0, <1>1
  <2> QED BY <1>0, <2>1
<1>4. FrameEnd(k + o, e) = (k + o) + 4 + e[(k + o) + 3]
  BY <1>0 DEF FrameEnd
<1>5. e[(k + o) + 3] = d[o + 3]
  BY <1>3
<1>6. FrameEnd(k + o, e) = k + FrameEnd(o, d)
  <2> DEFINE x == e[(k + o) + 3]
             y == d[o + 3]
  <2>1. x = y /\ y \in Nat /\ FrameEnd(o, d) = o + 4 + y /\ FrameEnd(k + o, e) = (k + o) + 4 + x
    BY <1>1, <1>4, <1>5
  <2> HIDE DEF x, y
  <2> QED BY <1>0, <2>1
<1> QED BY <1>2, <1>3, <1>6

LEMMA SamePayload ==
  ASSUME NEW d \in Bytes, NEW e \in Bytes, NEW k \in Nat, Occurs(d, e, k),
         NEW o \in 0 .. Len(d), Complete(o, d)
  PROVE  Complete(k + o, e) /\ PayloadAt(k + o, e) = PayloadAt(o, d)
<1>0. /\ Len(d) \in Nat /\ Len(e) \in Nat /\ o \in Nat
      /\ k + Len(d) <= Len(e) /\ \A i \in 1 .. Len(d) : d[i] = e[k + i]
  BY LenProperties DEF Bytes, Occurs
<1>1. HeaderReady(o, d) /\ d[o + 1] = Magic /\ ~(FrameEnd(o, d) > Len(d))
  BY DEF Complete
<1>2. /\ k + o \in 0 .. Len(e) /\ HeaderReady(k + o, e)
      /\ \A i \in 1 .. 4 : e[(k + o) + i] = d[o + i]
      /\ FrameEnd(k + o, e) = k + FrameEnd(o, d)
  BY <1>1, SameHeader
<1>3. FrameEnd(o, d) \in Nat /\ d[o + 3] \in Nat /\ FrameEnd(o, d) = o + 4 + d[o + 3]
  BY <1>1, TurnAdvances, SymbolsAreNumbers
<1>4. Complete(k + o, e)
  <2>1. e[(k + o) + 1] = Magic
    BY <1>1, <1>2
  <2>2. ~(FrameEnd(k + o, e) > Len(e))
    BY <1>0, <1>1, <1>2, <1>3
  <2> QED BY <1>2, <2>1, <2>2 DEF Complete
<1> DEFINE p == PayloadAt(o, d)
           q == PayloadAt(k + o, e)
<1>5. p \in Bytes /\ Len(p) = d[o + 3] /\ \A i \in 1 .. d[o + 3] : p[i] = d[o + 4 + i]
  BY PayloadTyped
<1>6. /\ q \in Bytes /\ Len(q) = e[(k + o) + 3]
      /\ \A i \in 1 .. e[(k + o) + 3] : q[i] = e[(k + o) + 4 + i]
  BY <1>2, <1>4, PayloadTyped
<1>7. e[(k + o) + 3] = d[o + 3]
  BY <1>2
<1> HIDE DEF p, q
<1>8. ASSUME NEW i \in 1 .. Len(p) PROVE p[i] = q[i]
  <2>1. o + 4 + i \in 1 .. Len(d) /\ k + (o + 4 + i) = (k + o) + 4 + i
    BY <1>0, <1>1, <1>3, <1>5
  <2> QED BY <1>0, <1>5, <1>6, <1>7, <2>1
<1>9. p = q
  BY <1>5, <1>6, <1>7, <1>8, SeqEqual DEF Bytes
<1> QED BY <1>4, <1>9 DEF p, q

LEMMA SameSight ==
  ASSUME NEW d \in Bytes, NEW e \in Bytes, NEW k \in Nat, Occurs(d, e, k),
         NEW o \in 0 .. Len(d)
  PROVE  /\ Rejected(o, d) => Rejected(k + o, e)
         /\ Unknown(o, d) => Unknown(k + o, e)
         /\ Intact(o, d) => /\ Intact(k + o, e)
                            /\ FrameEnd(k + o, e) = k + FrameEnd(o, d)
                            /\ PayloadAt(k + o, e) = PayloadAt(o, d)
                            /\ e[(k + o) + 2] = d[o + 2]
         /\ Incomplete(o, d) /\ Len(e) = k + Len(d) => Incomplete(k + o, e)
<1>0. Len(d) \in Nat /\ Len(e) \in Nat /\ o \in Nat
  BY LenProperties DEF Bytes
<1>1. HeaderReady(o, d) =>
        /\ HeaderReady(k + o, e)
        /\ e[(k + o) + 1] = d[o + 1] /\ e[(k + o) + 2] = d[o + 2] /\ e[(k + o) + 4] = d[o + 4]
        /\ FrameEnd(k + o, e) = k + FrameEnd(o, d) /\ FrameEnd(o, d) \in Nat
  BY SameHeader, TurnAdvances
<1>2. Complete(o, d) => /\ Complete(k + o, e) /\ PayloadAt(k + o, e) = PayloadAt(o, d)
                        /\ HeaderReady(o, d)
  BY SamePayload DEF Complete
<1>3. Complete(o, d) => (ChecksumHolds(o, d) <=> ChecksumHolds(k + o, e))
  BY <1>1, <1>2 DEF ChecksumHolds
<1>4. Rejected(o, d) => Rejected(k + o, e)
  BY <1>1, <1>2, <1>3 DEF Rejected
<1>5. Unknown(o, d) => Unknown(k + o, e)
  BY <1>1, <1>2, <1>3 DEF Unknown
<1>6. Intact(o, d) => /\ Intact(k + o, e)
                      /\ FrameEnd(k + o, e) = k + FrameEnd(o, d)
                      /\ PayloadAt(k + o, e) = PayloadAt(o, d)
                      /\ e[(k + o) + 2] = d[o + 2]
  BY <1>1, <1>2, <1>3 DEF Intact
<1>7. ASSUME Incomplete(o, d), Len(e) = k + Len(d)
      PROVE  Incomplete(k + o, e)
  <2>1. CASE ~HeaderReady(o, d)
    <3>1. ~HeaderReady(k + o, e)
      BY <1>0, <1>7, <2>1 DEF HeaderReady, HeaderSize
    <3> QED BY <3>1 DEF Incomplete
  <2>2. CASE HeaderReady(o, d) /\ d[o + 1] = Magic /\ FrameEnd(o, d) > Len(d)
    <3>1. FrameEnd(k + o, e) > Len(e)
      BY <1>0, <1>1, <1>7, <2>2
    <3> QED BY <1>1, <2>2, <3>1 DEF Incomplete
  <2> QED BY <1>7, <2>1, <2>2 DEF Incomplete
<1> QED BY <1>4, <1>5, <1>6, <1>7

\* Decoding a stretch d of e finds what decoding e finds there, and leaves off
\* where decoding e goes on: with the rest of e, unless a frame of unknown type
\* has ended it.
Continues(r, x, rest) ==
  IF r.raised
  THEN x.raised /\ x.frames = r.frames
  ELSE x.frames = r.frames \o rest.frames /\ x.offset = rest.offset /\ x.raised = rest.raised

LEMMA ScanOccurs ==
  ASSUME NEW d \in Bytes, NEW e \in Bytes, NEW k \in Nat, Occurs(d, e, k),
         NEW o \in 0 .. Len(d)
  PROVE  Continues(Scan(d)[o], Scan(e)[k + o], Scan(e)[k + Scan(d)[o].offset])
<1> DEFINE s == Scan(d)
           t == Scan(e)
           Good(m) == Continues(s[m], t[k + m], t[k + s[m].offset])
           T == {m \in 0 .. Len(d) : Good(m)}
<1>0. Len(d) \in Nat /\ Len(e) \in Nat /\ k + Len(d) <= Len(e)
  BY LenProperties DEF Bytes, Occurs
<1>1. ASSUME NEW m \in 0 .. Len(d), \A n \in m + 1 .. Len(d) : n \in T
      PROVE  m \in T
  <2>0. m \in Nat /\ k + m \in 0 .. Len(e)
    BY <1>0
  <2>1. s[m] = Turn(m, d, s) /\ t[k + m] = Turn(k + m, e, t)
    BY <2>0, ScanTurn
  <2>2. \A n \in m + 1 .. Len(d) : Good(n)
    BY <1>1
  <2>3. \A n \in 0 .. Len(d) : s[n] \in Outcome /\ s[n].offset \in n .. Len(d)
    BY ScanOutcome
  <2>4. \A n \in 0 .. Len(e) : t[n] \in Outcome
    BY ScanOutcome
  <2> HIDE DEF s, t
  <2>5. CASE Incomplete(m, d)
    <3>1. s[m] = Stop(m, FALSE)
      BY <2>1, <2>5, TurnOfEach
    <3>2. s[m].frames = << >> /\ s[m].offset = m /\ ~s[m].raised
      BY <2>0, <3>1, StopFields
    <3>3. t[k + m].frames \in Seq(AnyFrame)
      BY <2>0, <2>4 DEF Outcome
    <3>4. t[k + m].frames = << >> \o t[k + m].frames
      BY <3>3, ConcatEmptySeq
    <3> QED BY <3>2, <3>4 DEF Continues
  <2>6. CASE Unknown(m, d)
    <3>1. Unknown(k + m, e) /\ k + m \in Nat
      BY <2>0, <2>6, SameSight
    <3>2. s[m] = Stop(m, TRUE) /\ t[k + m] = Stop(k + m, TRUE)
      BY <2>1, <2>6, <3>1, TurnOfEach
    <3>3. s[m].frames = << >> /\ s[m].raised
      BY <2>0, <3>2, StopFields
    <3>4. t[k + m].frames = << >> /\ t[k + m].raised
      BY <3>1, <3>2, StopFields
    <3> QED BY <3>3, <3>4 DEF Continues
  <2>7. CASE Rejected(m, d)
    <3>1. s[m] = s[m + 1] /\ m + 1 \in m + 1 .. Len(d)
      BY <2>1, <2>7, TurnOfEach, TurnAdvances DEF Resync
    <3>2. t[k + m] = t[(k + m) + 1]
      <4>1. Rejected(k + m, e)
        BY <2>7, SameSight
      <4> QED BY <2>1, <4>1, TurnOfEach DEF Resync
    <3>3. (k + m) + 1 = k + (m + 1)
      BY <2>0
    <3>4. Good(m + 1)
      BY <2>2, <3>1
    <3> QED BY <3>1, <3>2, <3>3, <3>4
  <2>8. CASE Intact(m, d)
    <3> DEFINE end == FrameEnd(m, d)
               type == d[m + 2]
               payload == PayloadAt(m, d)
               f == [type |-> type, payload |-> payload]
    <3>1. end \in m + 1 .. Len(d) /\ type \in FrameTypes /\ payload \in Bytes
      BY <2>8, TurnAdvances, PayloadTyped DEF Intact, KnownType
    <3>2. s[m] = Found(type, payload, s[end])
      BY <2>1, <2>8, TurnOfEach
    <3>3. t[k + m] = Found(type, payload, t[k + end])
      <4>1. /\ Intact(k + m, e) /\ FrameEnd(k + m, e) = k + end
            /\ PayloadAt(k + m, e) = payload /\ e[(k + m) + 2] = type
        BY <2>8, SameSight
      <4>2. t[k + m] = Found(e[(k + m) + 2], PayloadAt(k + m, e), t[FrameEnd(k + m, e)])
        BY <2>1, <4>1, TurnOfEach
      <4> QED BY <4>1, <4>2
    <3> HIDE DEF end, type, payload
    <3>4. end \in 0 .. Len(d) /\ k + end \in 0 .. Len(e)
      BY <1>0, <2>0, <3>1
    <3>5. s[end] \in Outcome /\ t[k + end] \in Outcome
      BY <2>3, <2>4, <3>4
    <3>6. /\ s[m].frames = <<f>> \o s[end].frames
          /\ s[m].offset = s[end].offset /\ s[m].raised = s[end].raised
          /\ f \in AnyFrame
      <4> DEFINE r == s[m]
                 q == s[end]
      <4>1. q \in Outcome /\ r = Found(type, payload, q)
        BY <3>2, <3>5
      <4> HIDE DEF r, q
      <4>2. /\ r.frames = <<f>> \o q.frames /\ f \in AnyFrame
            /\ r.offset = q.offset /\ r.raised = q.raised
        BY <3>1, <4>1, FoundIs
      <4> QED BY <4>2 DEF r, q
    <3>7. /\ t[k + m].frames = <<f>> \o t[k + end].frames
          /\ t[k + m].offset = t[k + end].offset /\ t[k + m].raised = t[k + end].raised
      <4> DEFINE r == t[k + m]
                 q == t[k + end]
      <4>1. q \in Outcome /\ r = Found(type, payload, q)
        BY <3>3, <3>5
      <4> HIDE DEF r, q
      <4>2. /\ r.frames = <<f>> \o q.frames /\ f \in AnyFrame
            /\ r.offset = q.offset /\ r.raised = q.raised
        BY <3>1, <4>1, FoundIs
      <4> QED BY <4>2 DEF r, q
    <3>8. Good(end)
      BY <2>2, <3>1
    <3>9. CASE s[end].raised
      BY <3>6, <3>7, <3>8, <3>9 DEF Continues
    <3>10. CASE ~s[end].raised
      <4> DEFINE rest == t[k + s[end].offset]
      <4>1. /\ t[k + end].frames = s[end].frames \o rest.frames
            /\ t[k + end].offset = rest.offset /\ t[k + end].raised = rest.raised
        BY <3>8, <3>10 DEF Continues
      <4>2. k + s[end].offset \in 0 .. Len(e)
        BY <1>0, <2>3, <3>4
      <4>3. rest.frames \in Seq(AnyFrame) /\ s[end].frames \in Seq(AnyFrame)
        BY <2>4, <3>5, <4>2 DEF Outcome
      <4> HIDE DEF rest, f
      <4>4. <<f>> \in Seq(AnyFrame)
        BY <3>6
      <4>5. <<f>> \o (s[end].frames \o rest.frames) = (<<f>> \o s[end].frames) \o rest.frames
        <5> DEFINE S == AnyFrame
                   a == <<f>>
                   b == s[end].frames
                   c == rest.frames
        <5>1. a \in Seq(S) /\ b \in Seq(S) /\ c \in Seq(S)
          BY <4>3, <4>4
        <5> HIDE DEF S, a, b, c
        <5>2. (a \o b) \o c = a \o (b \o c)
          BY <5>1, ConcatAssociative
        <5> QED BY <5>2 DEF a, b, c
      <4>6. /\ t[k + m].frames = s[m].frames \o rest.frames
            /\ t[k + m].offset = rest.offset /\ t[k + m].raised = rest.raised
        BY <3>6, <3>7, <4>1, <4>5
      <4>7. ~s[m].raised /\ rest = t[k + s[m].offset]
        BY <3>6, <3>10 DEF rest
      <4> QED BY <4>6, <4>7 DEF Continues
    <3> QED BY <3>9, <3>10
  <2> QED BY <2>5, <2>6, <2>7, <2>8, FourSights
<1> HIDE DEF T
<1>2. \A m \in 0 .. Len(d) : m \in T
  BY <1>0, <1>1, DownwardInduction
<1> QED BY <1>2 DEF T

\* The same for a stretch at the beginning, and for one that reaches the end.
LEMMA ScanBeginning ==
  ASSUME NEW p \in Bytes, NEW q \in Bytes
  PROVE  /\ p \o q \in Bytes /\ Len(p \o q) = Len(p) + Len(q)
         /\ Scan(p)[0] \in Outcome /\ Scan(p)[0].offset \in 0 .. Len(p)
         /\ Continues(Scan(p)[0], Scan(p \o q)[0], Scan(p \o q)[Scan(p)[0].offset])
<1> DEFINE e == p \o q
           w == Scan(p)[0]
<1>1. /\ e \in Bytes /\ Len(e) = Len(p) + Len(q) /\ Len(p) \in Nat /\ Len(q) \in Nat
      /\ \A i \in 1 .. Len(p) + Len(q) : e[i] = IF i <= Len(p) THEN p[i] ELSE q[i - Len(p)]
  BY ConcatProperties, LenProperties DEF Bytes
<1>2. w \in Outcome /\ w.offset \in 0 .. Len(p)
  BY <1>1, ScanOutcome
<1> HIDE DEF e, w
<1>3. Occurs(p, e, 0)
  <2>1. ASSUME NEW i \in 1 .. Len(p) PROVE p[i] = e[0 + i]
    BY <1>1
  <2> QED BY <1>1, <2>1 DEF Occurs
<1>4. Continues(Scan(p)[0], Scan(e)[0 + 0], Scan(e)[0 + Scan(p)[0].offset])
  BY <1>1, <1>3, ScanOccurs
<1>5. 0 + 0 = 0 /\ 0 + w.offset = w.offset
  BY <1>1, <1>2
<1>6. Continues(w, Scan(e)[0], Scan(e)[w.offset])
  BY <1>4, <1>5 DEF w
<1> QED BY <1>1, <1>2, <1>6 DEF e, w

LEMMA ScanEnd ==
  ASSUME NEW d \in Bytes, NEW e \in Bytes, NEW k \in Nat, Occurs(d, e, k),
         Len(e) = k + Len(d)
  PROVE  /\ Scan(e)[k].raised = Scan(d)[0].raised
         /\ Scan(e)[k].frames = Scan(d)[0].frames
         /\ ~Scan(d)[0].raised => Scan(e)[k].offset = k + Scan(d)[0].offset
<1> DEFINE r == Scan(d)[0]
           x == Scan(e)[k]
           at == k + r.offset
           rest == Scan(e)[at]
<1>0. Len(d) \in Nat /\ 0 \in 0 .. Len(d) /\ k \in 0 .. Len(e)
  BY LenProperties DEF Bytes
<1>1. /\ r \in Outcome /\ r.offset \in 0 .. Len(d)
      /\ ~r.raised => Incomplete(r.offset, d)
  BY <1>0, ScanOutcome
<1>2. at \in 0 .. Len(e) /\ at \in Nat
  BY <1>0, <1>1
<1>3. Continues(r, x, rest)
  <2>1. Continues(Scan(d)[0], Scan(e)[k + 0], Scan(e)[k + Scan(d)[0].offset])
    BY <1>0, ScanOccurs
  <2>2. k + 0 = k
    OBVIOUS
  <2> QED BY <2>1, <2>2
<1>4. ASSUME ~r.raised
      PROVE  rest.frames = << >> /\ rest.offset = at /\ ~rest.raised
  <2>1. Incomplete(at, e)
    BY <1>1, <1>4, SameSight
  <2>2. rest = Turn(at, e, Scan(e))
    BY <1>2, ScanTurn
  <2> HIDE DEF at, rest
  <2>3. rest = Stop(at, FALSE)
    BY <2>1, <2>2, TurnOfEach
  <2> QED BY <1>2, <2>3, StopFields
<1> HIDE DEF r, x, at, rest
<1>5. r.frames \o << >> = r.frames /\ r.raised \in BOOLEAN
  BY <1>1, ConcatEmptySeq DEF Outcome
<1>6. x \in Outcome
  BY <1>0, ScanOutcome DEF x
<1>7. CASE r.raised
  BY <1>1, <1>3, <1>6, <1>7 DEF Continues, Outcome, r, x
<1>8. CASE ~r.raised
  <2>1. x.frames = r.frames /\ x.offset = at /\ ~x.raised
    BY <1>3, <1>4, <1>5, <1>8 DEF Continues
  <2> QED BY <1>1, <1>6, <1>8, <2>1 DEF Outcome, r, x, at
<1> QED BY <1>7, <1>8

LEMMA LeftoverTyped ==
  ASSUME NEW data \in Bytes, NEW o \in 0 .. Len(data)
  PROVE  /\ Leftover(data, o) \in Bytes /\ Len(Leftover(data, o)) = Len(data) - o
         /\ \A i \in 1 .. Len(data) - o : Leftover(data, o)[i] = data[o + i]
<1>0. Len(data) \in Nat /\ o \in Nat
  BY LenProperties DEF Bytes
<1> DEFINE m == o + 1
           n == Len(data)
<1>1. m \in Int /\ n \in Int /\ \A i \in m .. n : data[i] \in Symbol
  <2>1. ASSUME NEW i \in m .. n PROVE data[i] \in Symbol
    <3>1. i \in 1 .. Len(data)
      BY <1>0
    <3> QED BY <3>1, ElementOfSeq DEF Bytes
  <2> QED BY <1>0, <2>1
<1> HIDE DEF m, n
<1>2. /\ SubSeq(data, m, n) \in Seq(Symbol)
      /\ Len(SubSeq(data, m, n)) = IF m <= n THEN n - m + 1 ELSE 0
      /\ \A i \in 1 .. n - m + 1 : SubSeq(data, m, n)[i] = data[m + i - 1]
  BY <1>1, SubSeqProperties
<1>3. n - m + 1 = Len(data) - o /\ (IF m <= n THEN n - m + 1 ELSE 0) = Len(data) - o
  BY <1>0 DEF m, n
<1>4. \A i \in 1 .. Len(data) - o : m + i - 1 = o + i
  BY <1>0 DEF m
<1>5. Leftover(data, o) = SubSeq(data, m, n)
  BY DEF Leftover, m, n
<1> QED BY <1>2, <1>3, <1>4, <1>5 DEF Bytes

\* A decode of everything is a decode of a first piece, then of what that left
\* over with the next piece added: the same frames, the same left over, and a
\* frame of unknown type met in the one if in the other.  This is what
\* buffer += chunk; frames, buffer = decode_stream(buffer) relies on.
THEOREM DecodeInPieces ==
  ASSUME NEW p \in Bytes, NEW q \in Bytes, ~DecodeStream(p).raised
  PROVE  LET first == DecodeStream(p)
             data == Leftover(p, first.offset) \o q
             next == DecodeStream(data)
             whole == DecodeStream(p \o q)
         IN /\ data \in Bytes
            /\ whole.raised = next.raised
            /\ ~next.raised =>
                 /\ whole.frames = first.frames \o next.frames
                 /\ Leftover(p \o q, whole.offset) = Leftover(data, next.offset)
<1> DEFINE w == Scan(p)[0]
           b == Leftover(p, w.offset)
           d == b \o q
           e == p \o q
           k == w.offset
           r == Scan(d)[0]
           x == Scan(e)[0]
           y == Scan(e)[k]
<1>0. Len(p) \in Nat /\ Len(q) \in Nat
  BY LenProperties DEF Bytes
<1>1. /\ e \in Bytes /\ Len(e) = Len(p) + Len(q)
      /\ w \in Outcome /\ k \in 0 .. Len(p) /\ Continues(w, x, y)
  BY ScanBeginning
<1>2. b \in Bytes /\ Len(b) = Len(p) - k /\ \A i \in 1 .. Len(p) - k : b[i] = p[k + i]
  BY <1>1, LeftoverTyped
<1>3. ~w.raised
  BY DEF DecodeStream
<1>4. \A i \in 1 .. Len(p) + Len(q) : e[i] = IF i <= Len(p) THEN p[i] ELSE q[i - Len(p)]
  BY ConcatProperties DEF Bytes
<1> HIDE DEF b, e, w, k
<1>5. /\ d \in Bytes /\ Len(d) = Len(b) + Len(q)
      /\ \A i \in 1 .. Len(b) + Len(q) : d[i] = IF i <= Len(b) THEN b[i] ELSE q[i - Len(b)]
  BY <1>2, ConcatProperties DEF Bytes
<1> HIDE DEF d
<1>6. k \in Nat /\ Len(e) = k + Len(d) /\ Len(d) \in Nat
  BY <1>0, <1>1, <1>2, <1>5
<1>7. Occurs(d, e, k)
  <2>1. ASSUME NEW i \in 1 .. Len(d) PROVE d[i] = e[k + i]
    <3>1. i \in 1 .. Len(b) + Len(q) /\ k + i \in 1 .. Len(p) + Len(q)
      BY <1>0, <1>1, <1>2, <1>5, <1>6
    <3>2. CASE i <= Len(b)
      <4>1. i \in 1 .. Len(p) - k /\ k + i <= Len(p)
        BY <1>0, <1>1, <1>2, <1>6, <3>1, <3>2
      <4>2. d[i] = b[i] /\ e[k + i] = p[k + i]
        BY <1>4, <1>5, <3>1, <3>2, <4>1
      <4> QED BY <1>2, <4>1, <4>2
    <3>3. CASE ~(i <= Len(b))
      <4>1. ~(k + i <= Len(p)) /\ i - Len(b) = (k + i) - Len(p)
        BY <1>0, <1>1, <1>2, <1>6, <3>1, <3>3
      <4>2. d[i] = q[i - Len(b)] /\ e[k + i] = q[(k + i) - Len(p)]
        BY <1>4, <1>5, <3>1, <3>3, <4>1
      <4> QED BY <4>1, <4>2
    <3> QED BY <3>2, <3>3
  <2> QED BY <1>6, <2>1 DEF Occurs
<1>8. /\ y.raised = r.raised /\ y.frames = r.frames
      /\ ~r.raised => y.offset = k + r.offset
  BY <1>1, <1>5, <1>6, <1>7, ScanEnd
<1>9. r \in Outcome /\ r.offset \in 0 .. Len(d)
  BY <1>5, <1>6, ScanOutcome
<1> HIDE DEF r, x, y
<1>10. x.frames = w.frames \o r.frames /\ x.offset = y.offset /\ x.raised = r.raised
  BY <1>1, <1>3, <1>8 DEF Continues
<1>11. ASSUME ~r.raised
       PROVE  Leftover(e, x.offset) = Leftover(d, r.offset)
  <2> DEFINE u == Leftover(e, x.offset)
             v == Leftover(d, r.offset)
             m == Len(d) - r.offset
  <2>1. x.offset = k + r.offset /\ x.offset \in 0 .. Len(e) /\ Len(e) - x.offset = m /\ m \in Nat
    BY <1>6, <1>8, <1>9, <1>10, <1>11
  <2>2. v \in Bytes /\ Len(v) = m /\ \A i \in 1 .. m : v[i] = d[r.offset + i]
    BY <1>5, <1>9, LeftoverTyped
  <2>3. u \in Bytes /\ Len(u) = m /\ \A i \in 1 .. m : u[i] = e[x.offset + i]
    BY <1>1, <2>1, LeftoverTyped
  <2>4. ASSUME NEW i \in 1 .. m PROVE d[r.offset + i] = e[x.offset + i]
    <3>1. r.offset + i \in 1 .. Len(d) /\ x.offset + i = k + (r.offset + i)
      BY <1>6, <1>9, <2>1
    <3> QED BY <1>7, <3>1 DEF Occurs
  <2> HIDE DEF u, v, m
  <2>5. u \in Seq(Symbol) /\ v \in Seq(Symbol) /\ Len(u) = Len(v)
    BY <2>2, <2>3 DEF Bytes
  <2>6. \A i \in 1 .. Len(u) : u[i] = v[i]
    BY <2>2, <2>3, <2>4
  <2>7. u = v
    BY <2>5, <2>6, SeqEqual
  <2> QED BY <2>7 DEF u, v
<1> QED BY <1>5, <1>10, <1>11 DEF DecodeStream, w, b, d, e, k, r, x

-----------------------------------------------------------------------------
(* What an encoder writes, and what is delivered of it.                    *)

LEMMA EncodeTyped ==
  ASSUME NEW f \in Frame, Fits(f.payload)
  PROVE  /\ f \in AnyFrame /\ f = [type |-> f.type, payload |-> f.payload]
         /\ Encode(f) \in Bytes /\ Len(Encode(f)) = 4 + Len(f.payload)
         /\ Encode(f)[1] = Magic /\ Encode(f)[2] = f.type
         /\ Encode(f)[3] = Len(f.payload)
         /\ Encode(f)[4] = Checksum(f.type, f.payload)
         /\ \A i \in 1 .. Len(f.payload) : Encode(f)[4 + i] = f.payload[i]
<1> DEFINE type == f.type
           payload == f.payload
           sum == Checksum(type, payload)
           header == <<Magic, type, Len(payload), sum>>
<1>1. type \in FrameTypes /\ type \in Symbol /\ f = [type |-> type, payload |-> payload]
  BY ConstantsAssumption DEF Frame
<1>2. payload \in Seq(Symbol)
  <2>1. payload \in Payload
    BY DEF Frame
  <2>2. PICK n \in 0 .. MaxPayload + 1 : payload \in [1 .. n -> Symbol]
    BY <2>1 DEF Payload
  <2>3. n \in Nat
    BY <2>2, SymbolsAreNumbers
  <2> HIDE DEF payload
  <2> QED BY <2>2, <2>3 DEF Seq
<1>3. f \in AnyFrame
  <2> HIDE DEF type, payload
  <2> QED BY <1>1, <1>2 DEF AnyFrame, Bytes
<1>4. Len(payload) \in Symbol /\ Len(payload) \in Nat
  <2>1. Len(payload) \in Nat /\ Len(payload) <= MaxPayload
    BY <1>2, LenProperties DEF Fits
  <2> HIDE DEF payload
  <2> QED BY <2>1, SymbolsAreNumbers DEF Symbol, MaxPayload
<1>5. sum \in Symbol
  BY ConstantsAssumption
<1>6. Encode(f) = header \o payload
  BY DEF Encode
<1> DEFINE size == Len(payload)
<1>7. size \in Nat /\ size \in Symbol
  BY <1>4
<1>8. header = <<Magic, type, size, sum>>
  OBVIOUS
<1> HIDE DEF type, payload, sum, header
<1>9. size = Len(payload)
  OBVIOUS
<1> HIDE DEF size
<1>10. /\ header \in Seq(Symbol) /\ Len(header) = 4
       /\ header[1] = Magic /\ header[2] = type /\ header[3] = size /\ header[4] = sum
  BY <1>1, <1>5, <1>7, <1>8, SymbolsAreNumbers
<1>11. /\ header \o payload \in Seq(Symbol)
       /\ Len(header \o payload) = 4 + size
       /\ \A i \in 1 .. 4 + size :
            (header \o payload)[i] = IF i <= 4 THEN header[i] ELSE payload[i - 4]
  <2>1. /\ header \o payload \in Seq(Symbol)
        /\ Len(header \o payload) = Len(header) + Len(payload)
        /\ \A i \in 1 .. Len(header) + Len(payload) :
             (header \o payload)[i] = IF i <= Len(header) THEN header[i]
                                       ELSE payload[i - Len(header)]
    BY <1>2, <1>10, ConcatProperties
  <2> QED BY <1>9, <1>10, <2>1
<1>12. \A i \in 1 .. size : (header \o payload)[4 + i] = payload[i]
  <2> TAKE i \in 1 .. size
  <2>1. 4 + i \in 1 .. 4 + size /\ ~(4 + i <= 4) /\ (4 + i) - 4 = i
    BY <1>7
  <2> QED BY <1>11, <2>1
<1>13. /\ (header \o payload)[1] = Magic /\ (header \o payload)[2] = type
       /\ (header \o payload)[3] = size /\ (header \o payload)[4] = sum
  BY <1>7, <1>10, <1>11
<1> QED BY <1>1, <1>3, <1>6, <1>9, <1>11, <1>12, <1>13 DEF Bytes, type, payload, sum

\* A piece of what is on the link and the rest of it.
LEMMA Split ==
  ASSUME NEW x \in Bytes, NEW n \in 1 .. Len(x)
  PROVE  /\ SubSeq(x, 1, n) \in Bytes /\ SubSeq(x, n + 1, Len(x)) \in Bytes
         /\ x = SubSeq(x, 1, n) \o SubSeq(x, n + 1, Len(x))
<1>0. Len(x) \in Nat /\ n \in Nat /\ \A i \in 1 .. Len(x) : x[i] \in Symbol
  BY LenProperties, ElementOfSeq DEF Bytes
<1>1. SubSeq(x, 1, n) \in Seq(Symbol)
  BY <1>0, SubSeqProperties
<1>2. SubSeq(x, n + 1, Len(x)) \in Bytes
  BY <1>0, LeftoverTyped DEF Leftover
<1>3. SubSeq(x, 1, n) \o SubSeq(x, n + 1, Len(x)) = SubSeq(x, 1, Len(x))
  <2> DEFINE m == 1
             size == Len(x)
  <2>1. m \in 1 .. Len(x) + 1 /\ n \in m - 1 .. Len(x) /\ size \in n .. Len(x)
    BY <1>0
  <2>2. x \in Seq(Symbol)
    BY DEF Bytes
  <2> HIDE DEF m, size
  <2>3. SubSeq(x, m, n) \o SubSeq(x, n + 1, size) = SubSeq(x, m, size)
    BY <2>1, <2>2, ConcatAdjacentSubSeq
  <2> QED BY <2>3 DEF m, size
<1>4. SubSeq(x, 1, Len(x)) = x
  BY SubSeqFull DEF Bytes
<1> QED BY <1>1, <1>2, <1>3, <1>4 DEF Bytes

-----------------------------------------------------------------------------
(* The invariants of the type.                                             *)

TypeInv ==
  /\ sent \in Seq(AnyFrame) /\ decoded \in Seq(AnyFrame)
  /\ wire \in Bytes /\ noise \in Bytes /\ passed \in Bytes /\ buffer \in Bytes
  /\ refused \in BOOLEAN /\ dead \in BOOLEAN

\* What Deliver adds to the buffer, and what decoding that comes to.
LEMMA Delivered ==
  ASSUME TypeInv, NEW n \in 1 .. Len(wire)
  PROVE  LET data == buffer \o SubSeq(wire, 1, n)
         IN /\ data \in Bytes /\ DecodeStream(data) \in Outcome
            /\ DecodeStream(data).offset \in 0 .. Len(data)
            /\ ~DecodeStream(data).raised => Incomplete(DecodeStream(data).offset, data)
            /\ Leftover(data, DecodeStream(data).offset) \in Bytes
<1> DEFINE q == SubSeq(wire, 1, n)
           data == buffer \o q
<1>1. buffer \in Seq(Symbol) /\ q \in Seq(Symbol)
  BY Split DEF TypeInv, Bytes
<1> HIDE DEF q
<1>2. data \in Bytes
  BY <1>1, ConcatProperties DEF Bytes
<1> HIDE DEF data
<1>3. 0 \in 0 .. Len(data)
  BY <1>2, LenProperties DEF Bytes
<1>4. /\ DecodeStream(data) \in Outcome /\ DecodeStream(data).offset \in 0 .. Len(data)
      /\ ~DecodeStream(data).raised => Incomplete(DecodeStream(data).offset, data)
  BY <1>2, <1>3, ScanOutcome DEF DecodeStream
<1>5. Leftover(data, DecodeStream(data).offset) \in Bytes
  BY <1>2, <1>4, LeftoverTyped
<1> QED BY <1>2, <1>4, <1>5 DEF data, q

LEMMA TypeInit == Init => TypeInv
BY EmptySeq DEF Init, TypeInv, Bytes

LEMMA TypeStep == TypeInv /\ [Next]_vars => TypeInv'
<1> SUFFICES ASSUME TypeInv, [Next]_vars PROVE TypeInv'
  OBVIOUS
<1>1. CASE Send
  <2>1. PICK f \in Frame : /\ Fits(f.payload)
                           /\ sent' = Append(sent, f) /\ wire' = wire \o Encode(f)
    BY <1>1 DEF Send
  <2>2. f \in AnyFrame /\ Encode(f) \in Bytes
    BY <2>1, EncodeTyped
  <2>3. sent' \in Seq(AnyFrame)
    BY <2>1, <2>2, AppendProperties DEF TypeInv
  <2>4. wire' \in Bytes
    BY <2>1, <2>2, ConcatProperties DEF TypeInv, Bytes
  <2> QED BY <1>1, <2>3, <2>4 DEF Send, TypeInv
<1>2. CASE Refuse
  BY <1>2 DEF Refuse, TypeInv
<1>3. CASE Disturb
  <2>1. PICK s \in Symbol : noise' = Append(noise, s) /\ wire' = Append(wire, s)
    BY <1>3 DEF Disturb
  <2>2. noise' \in Bytes /\ wire' \in Bytes
    BY <2>1, AppendProperties DEF TypeInv, Bytes
  <2> QED BY <1>3, <2>2 DEF Disturb, TypeInv
<1>4. CASE Deliver
  <2> DEFINE data(n) == buffer \o SubSeq(wire, 1, n)
             result(n) == DecodeStream(data(n))
  <2>1. PICK n \in 1 .. Len(wire) :
          /\ wire' = SubSeq(wire, n + 1, Len(wire))
          /\ passed' = passed \o SubSeq(wire, 1, n)
          /\ dead' = result(n).raised
          /\ IF result(n).raised
             THEN UNCHANGED <<buffer, decoded>>
             ELSE /\ buffer' = Leftover(data(n), result(n).offset)
                  /\ decoded' = decoded \o result(n).frames
    BY <1>4 DEF Deliver
  <2>2. result(n) \in Outcome /\ Leftover(data(n), result(n).offset) \in Bytes
    BY Delivered
  <2> HIDE DEF data, result
  <2>3. wire' \in Bytes /\ passed' \in Bytes
    <3>1. SubSeq(wire, 1, n) \in Bytes /\ SubSeq(wire, n + 1, Len(wire)) \in Bytes
      BY Split DEF TypeInv
    <3> QED BY <2>1, <3>1, ConcatProperties DEF TypeInv, Bytes
  <2>4. dead' \in BOOLEAN
    BY <2>1, <2>2 DEF Outcome
  <2>5. buffer' \in Bytes
    BY <2>1, <2>2 DEF TypeInv
  <2>6. decoded' \in Seq(AnyFrame)
    BY <2>1, <2>2, ConcatProperties DEF TypeInv, Outcome
  <2> QED BY <1>4, <2>3, <2>4, <2>5, <2>6 DEF Deliver, TypeInv
<1>5. CASE UNCHANGED vars
  BY <1>5 DEF vars, TypeInv
<1> QED BY <1>1, <1>2, <1>3, <1>4, <1>5 DEF Next

LEMMA TypesHold == Spec => []TypeInv
<1> QED BY TypeInit, TypeStep, PTL DEF Spec

\* Decoding nothing comes to nothing.
LEMMA ScanEmpty ==
  /\ << >> \in Bytes /\ DecodeStream(<< >>).frames = << >>
  /\ DecodeStream(<< >>).offset = 0 /\ ~DecodeStream(<< >>).raised
<1> DEFINE data == << >>
<1>1. data \in Bytes /\ Len(data) = 0
  BY EmptySeq DEF Bytes
<1>2. Incomplete(0, data)
  BY <1>1 DEF Incomplete, HeaderReady, HeaderSize
<1> HIDE DEF data
<1>3. DecodeStream(data) = Turn(0, data, Scan(data))
  BY <1>1, ScanTurn DEF DecodeStream
<1>4. DecodeStream(data) = Stop(0, FALSE)
  BY <1>2, <1>3, TurnOfEach
<1> QED BY <1>1, <1>4, StopFields DEF data

-----------------------------------------------------------------------------
(* The pieces the bytes arrive in make no difference.                      *)

LEMMA ChunkingInit == Init => ChunkingIrrelevant
<1> SUFFICES ASSUME Init PROVE ChunkingIrrelevant
  OBVIOUS
<1>1. passed = << >> /\ buffer = << >> /\ decoded = << >> /\ dead = FALSE
  BY DEF Init
<1> DEFINE whole == DecodeStream(passed)
<1>2. whole.frames = << >> /\ whole.offset = 0 /\ ~whole.raised /\ whole.raised \in BOOLEAN
  <2>1. DecodeStream(<< >>).raised \in BOOLEAN
    BY ScanEmpty, ScanOutcome, EmptySeq DEF DecodeStream, Outcome
  <2> QED BY <1>1, <2>1, ScanEmpty
<1> HIDE DEF whole
<1>3. SubSeq(passed, whole.offset + 1, Len(passed)) = << >>
  <2>1. whole.offset + 1 \in Int /\ Len(passed) \in Int /\ Len(passed) < whole.offset + 1
    BY <1>1, <1>2
  <2> QED BY <2>1, SubSeqEmpty
<1>4. dead = whole.raised /\ decoded = whole.frames
  BY <1>1, <1>2
<1>5. buffer = SubSeq(passed, whole.offset + 1, Len(passed))
  BY <1>1, <1>3
<1> QED BY <1>4, <1>5 DEF ChunkingIrrelevant, whole

LEMMA ChunkingStep ==
  TypeInv /\ ChunkingIrrelevant /\ [Next]_vars => ChunkingIrrelevant'
<1> SUFFICES ASSUME TypeInv, ChunkingIrrelevant, [Next]_vars PROVE ChunkingIrrelevant'
  OBVIOUS
<1>1. CASE Send \/ Refuse \/ Disturb \/ UNCHANGED vars
  BY <1>1 DEF Send, Refuse, Disturb, vars, ChunkingIrrelevant
<1>2. CASE Deliver
  <2> DEFINE piece(n) == SubSeq(wire, 1, n)
             data(n) == buffer \o piece(n)
             whole == DecodeStream(passed)
  <2>1. PICK n \in 1 .. Len(wire) :
          /\ passed' = passed \o piece(n)
          /\ dead' = DecodeStream(data(n)).raised
          /\ IF DecodeStream(data(n)).raised
             THEN UNCHANGED <<buffer, decoded>>
             ELSE /\ buffer' = Leftover(data(n), DecodeStream(data(n)).offset)
                  /\ decoded' = decoded \o DecodeStream(data(n)).frames
    BY <1>2 DEF Deliver
  <2>2. ~whole.raised /\ decoded = whole.frames /\ buffer = Leftover(passed, whole.offset)
    BY <1>2 DEF Deliver, ChunkingIrrelevant, Leftover
  <2>3. passed \in Bytes /\ piece(n) \in Bytes
    BY Split DEF TypeInv
  <2> DEFINE q == piece(n)
             next == DecodeStream(buffer \o q)
             after == DecodeStream(passed \o q)
  <2>4. /\ after.raised = next.raised
        /\ ~next.raised =>
             /\ after.frames = whole.frames \o next.frames
             /\ Leftover(passed \o q, after.offset) = Leftover(buffer \o q, next.offset)
    <3>1. passed \in Bytes /\ q \in Bytes /\ ~DecodeStream(passed).raised
      BY <2>2, <2>3
    <3> HIDE DEF q
    <3>2. /\ after.raised = DecodeStream(Leftover(passed, whole.offset) \o q).raised
          /\ ~DecodeStream(Leftover(passed, whole.offset) \o q).raised =>
               /\ after.frames
                    = whole.frames \o DecodeStream(Leftover(passed, whole.offset) \o q).frames
               /\ Leftover(passed \o q, after.offset)
                    = Leftover(Leftover(passed, whole.offset) \o q,
                               DecodeStream(Leftover(passed, whole.offset) \o q).offset)
      BY <3>1, DecodeInPieces
    <3> HIDE DEF whole
    <3> QED BY <2>2, <3>2
  <2>5. passed' = passed \o q /\ dead' = next.raised
    BY <2>1
  <2>6. ~next.raised => buffer' = Leftover(buffer \o q, next.offset) /\ decoded' = decoded \o next.frames
    BY <2>1
  <2>7. DecodeStream(passed') = after
    BY <2>5
  <2> HIDE DEF q, next, after, whole
  <2>8. dead' = after.raised /\ (~dead' => decoded' = after.frames)
    BY <2>2, <2>4, <2>5, <2>6
  <2>9. ~dead' => buffer' = Leftover(passed', after.offset)
    BY <2>4, <2>5, <2>6
  <2>10. ChunkingIrrelevant' =
           (/\ dead' = DecodeStream(passed').raised
            /\ ~dead' => /\ decoded' = DecodeStream(passed').frames
                         /\ buffer' = SubSeq(passed', DecodeStream(passed').offset + 1, Len(passed')))
    BY DEF ChunkingIrrelevant
  <2> QED BY <2>7, <2>8, <2>9, <2>10 DEF Leftover
<1> QED BY <1>1, <1>2 DEF Next

\* For any bytes in any pieces, the frames got and what is left over are those
\* of one decode of everything delivered, and the reader dies exactly if that
\* decode raises: run() and _ack_listener may read as the link delivers.
THEOREM ChunksDoNotMatter == Spec => []ChunkingIrrelevant
<1> QED BY TypeInit, TypeStep, ChunkingInit, ChunkingStep, PTL DEF Spec

-----------------------------------------------------------------------------
(* What waits in the buffer is bounded.                                    *)

LEMMA BoundInit == Init => BufferBounded
<1> SUFFICES ASSUME Init PROVE BufferBounded
  OBVIOUS
<1>1. buffer = << >> /\ wire = << >> /\ Len(buffer) = 0 /\ Len(wire) = 0 /\ DOMAIN wire = {}
  BY DEF Init
<1> QED BY <1>1, SymbolsAreNumbers DEF BufferBounded, HeaderSize

LEMMA BoundStep == TypeInv /\ TypeInv' /\ BufferBounded /\ [Next]_vars => BufferBounded'
<1> SUFFICES ASSUME TypeInv, TypeInv', BufferBounded, [Next]_vars PROVE BufferBounded'
  OBVIOUS
<1>1. \A i \in DOMAIN wire' : wire'[i] \in Symbol
  <2>1. wire' \in Seq(Symbol)
    BY DEF TypeInv, Bytes
  <2> QED BY <2>1, LenProperties, ElementOfSeq
<1>2. Len(buffer') < HeaderSize + MaxPayload
  <2>1. CASE Send \/ Refuse \/ Disturb \/ UNCHANGED vars
    BY <2>1 DEF Send, Refuse, Disturb, vars, BufferBounded
  <2>2. CASE Deliver
    <3> DEFINE data(n) == buffer \o SubSeq(wire, 1, n)
    <3>1. PICK n \in 1 .. Len(wire) :
            IF DecodeStream(data(n)).raised THEN buffer' = buffer
            ELSE buffer' = Leftover(data(n), DecodeStream(data(n)).offset)
      BY <2>2 DEF Deliver
    <3> DEFINE d == data(n)
               o == DecodeStream(d).offset
    <3>2. /\ d \in Bytes /\ o \in 0 .. Len(d)
          /\ ~DecodeStream(d).raised => Incomplete(o, d)
      BY Delivered
    <3>3. IF DecodeStream(d).raised THEN buffer' = buffer ELSE buffer' = Leftover(d, o)
      BY <3>1
    <3> HIDE DEF d, o, data
    <3>4. CASE DecodeStream(d).raised
      BY <3>3, <3>4 DEF BufferBounded
    <3>5. CASE ~DecodeStream(d).raised
      <4>1. Len(d) - o < HeaderSize + MaxPayload
        BY <3>2, <3>5, IncompleteIsShort
      <4>2. Len(Leftover(d, o)) = Len(d) - o
        BY <3>2, LeftoverTyped
      <4> QED BY <3>3, <3>5, <4>1, <4>2
    <3> QED BY <3>4, <3>5
  <2> QED BY <2>1, <2>2 DEF Next
<1> QED BY <1>1, <1>2 DEF BufferBounded

\* Whatever comes over the link, what the reader keeps between two reads is
\* less than one frame of the largest size, and nothing wider than its field
\* is ever written: the two bounds the header's fields are to give.
THEOREM BufferIsBounded == Spec => []BufferBounded
<1> QED BY TypeInit, TypeStep, BoundInit, BoundStep, PTL DEF Spec

-----------------------------------------------------------------------------
(* Streams whose noise never looks like the magic.                         *)

\* No symbol after the offset is the magic.
Quiet(data, o) == \A i \in o + 1 .. Len(data) : data[i] # Magic

\* The loop goes over such symbols and finds nothing.
LEMMA ScanQuiet ==
  ASSUME NEW data \in Bytes, NEW o \in 0 .. Len(data), Quiet(data, o)
  PROVE  Scan(data)[o].frames = << >> /\ ~Scan(data)[o].raised
<1> DEFINE s == Scan(data)
           Good(k) == Quiet(data, k) => s[k].frames = << >> /\ ~s[k].raised
           T == {k \in 0 .. Len(data) : Good(k)}
<1>0. Len(data) \in Nat
  BY LenProperties DEF Bytes
<1>1. ASSUME NEW k \in 0 .. Len(data), \A m \in k + 1 .. Len(data) : m \in T
      PROVE  k \in T
  <2> SUFFICES ASSUME Quiet(data, k) PROVE s[k].frames = << >> /\ ~s[k].raised
    OBVIOUS
  <2>0. k \in Nat
    BY <1>0
  <2>1. s[k] = Turn(k, data, s)
    BY ScanTurn
  <2>2. \A m \in k + 1 .. Len(data) : Good(m)
    BY <1>1
  <2> HIDE DEF s
  <2>3. CASE HeaderReady(k, data)
    <3>1. k + 4 <= Len(data)
      BY <2>3, TurnAdvances
    <3>2. data[k + 1] # Magic
      BY <1>0, <2>0, <3>1 DEF Quiet
    <3>3. Rejected(k, data)
      BY <2>3, <3>2 DEF Rejected
    <3>4. s[k] = s[k + 1] /\ k + 1 \in k + 1 .. Len(data)
      BY <2>1, <3>3, TurnOfEach, TurnAdvances DEF Resync
    <3>5. Quiet(data, k + 1)
      BY <2>0 DEF Quiet
    <3> QED BY <2>2, <3>4, <3>5
  <2>4. CASE ~HeaderReady(k, data)
    <3>1. Incomplete(k, data)
      BY <2>4 DEF Incomplete
    <3>2. s[k] = Stop(k, FALSE)
      BY <2>1, <3>1, TurnOfEach
    <3> QED BY <2>0, <3>2, StopFields
  <2> QED BY <2>3, <2>4
<1> HIDE DEF T
<1>2. \A k \in 0 .. Len(data) : k \in T
  BY <1>0, <1>1, DownwardInduction
<1> QED BY <1>2 DEF T

\* Up to a later header it goes over such symbols too.
LEMMA ScanSkips ==
  ASSUME NEW data \in Bytes, NEW m \in Nat, m + 4 <= Len(data), NEW o \in 0 .. m,
         \A i \in o + 1 .. m : data[i] # Magic
  PROVE  Scan(data)[o] = Scan(data)[m]
<1> DEFINE s == Scan(data)
           Good(k) == (\A i \in k + 1 .. m : data[i] # Magic) => s[k] = s[m]
           T == {k \in 0 .. m : Good(k)}
<1>0. Len(data) \in Nat
  BY LenProperties DEF Bytes
<1>1. ASSUME NEW k \in 0 .. m, \A n \in k + 1 .. m : n \in T
      PROVE  k \in T
  <2> SUFFICES ASSUME \A i \in k + 1 .. m : data[i] # Magic PROVE s[k] = s[m]
    OBVIOUS
  <2>0. k \in Nat /\ k \in 0 .. Len(data)
    BY <1>0
  <2>1. s[k] = Turn(k, data, s)
    BY <2>0, ScanTurn
  <2>2. \A n \in k + 1 .. m : Good(n)
    BY <1>1
  <2> HIDE DEF s
  <2>3. CASE k = m
    BY <2>3
  <2>4. CASE k # m
    <3>1. k + 1 \in k + 1 .. m /\ k + 4 <= Len(data)
      BY <1>0, <2>0, <2>4
    <3>2. Rejected(k, data)
      BY <3>1 DEF Rejected, HeaderReady, HeaderSize
    <3>3. s[k] = s[k + 1]
      BY <2>1, <3>2, TurnOfEach DEF Resync
    <3>4. \A i \in (k + 1) + 1 .. m : data[i] # Magic
      BY <2>0
    <3> QED BY <2>2, <3>1, <3>3, <3>4
  <2> QED BY <2>3, <2>4
<1> HIDE DEF T
<1>2. \A k \in 0 .. m : k \in T
  BY <1>1, DownwardInduction
<1> QED BY <1>2 DEF T

\* What the decode of p leaves is all noise, and p holds the frames fs.
Carries(p, fs) ==
  LET r == DecodeStream(p)
  IN ~r.raised /\ r.frames = fs /\ Quiet(p, r.offset)

LEMMA QuietSymbol ==
  ASSUME NEW p \in Bytes, NEW fs \in Seq(AnyFrame), Carries(p, fs),
         NEW s \in Symbol, s # Magic
  PROVE  Carries(Append(p, s), fs)
<1> DEFINE e == Append(p, s)
           w == Scan(p)[0]
           x == Scan(e)[0]
           y == Scan(e)[w.offset]
<1>0. Len(p) \in Nat /\ <<s>> \in Bytes /\ e = p \o <<s>>
  BY LenProperties, AppendIsConcat DEF Bytes
<1>1. /\ e \in Bytes /\ Len(e) = Len(p) + 1
      /\ \A i \in 1 .. Len(p) : e[i] = p[i]
      /\ e[Len(p) + 1] = s
  BY AppendProperties DEF Bytes
<1>2. w \in Outcome /\ w.offset \in 0 .. Len(p) /\ Continues(w, x, y)
  BY <1>0, ScanBeginning
<1>3. ~w.raised /\ w.frames = fs /\ Quiet(p, w.offset)
  BY DEF Carries, DecodeStream
<1> HIDE DEF e, w
<1>4. Quiet(e, w.offset) /\ w.offset \in 0 .. Len(e)
  <2>1. ASSUME NEW i \in w.offset + 1 .. Len(e) PROVE e[i] # Magic
    <3>1. CASE i = Len(p) + 1
      BY <1>1, <3>1
    <3>2. CASE i # Len(p) + 1
      <4>1. i \in w.offset + 1 .. Len(p) /\ i \in 1 .. Len(p)
        BY <1>0, <1>1, <1>2, <3>2
      <4> QED BY <1>1, <1>3, <4>1 DEF Quiet
    <3> QED BY <3>1, <3>2
  <2> QED BY <1>0, <1>1, <1>2, <2>1 DEF Quiet
<1>5. y.frames = << >> /\ ~y.raised /\ y.offset \in w.offset .. Len(e)
  BY <1>1, <1>4, ScanQuiet, ScanOutcome
<1> HIDE DEF x, y
<1>6. x.frames = fs \o << >> /\ x.offset = y.offset /\ x.raised = y.raised
  BY <1>2, <1>3, <1>5 DEF Continues
<1>7. fs \o << >> = fs
  BY ConcatEmptySeq
<1>8. Quiet(e, x.offset)
  <2>1. \A i \in x.offset + 1 .. Len(e) : i \in w.offset + 1 .. Len(e)
    BY <1>0, <1>1, <1>2, <1>5, <1>6
  <2> QED BY <1>4, <2>1 DEF Quiet
<1> QED BY <1>5, <1>6, <1>7, <1>8 DEF Carries, DecodeStream, e, x

\* A frame after p is decoded, however its payload looks.
LEMMA OneMoreFrame ==
  ASSUME NEW p \in Bytes, NEW fs \in Seq(AnyFrame), Carries(p, fs),
         NEW f \in Frame, Fits(f.payload)
  PROVE  Carries(p \o Encode(f), Append(fs, f))
<1> DEFINE c == Encode(f)
           e == p \o c
           w == Scan(p)[0]
           m == Len(p)
           size == Len(f.payload)
           x == Scan(e)[0]
           y == Scan(e)[w.offset]
           z == Scan(e)[m]
           end == Scan(e)[Len(e)]
<1>0. /\ f \in AnyFrame /\ f = [type |-> f.type, payload |-> f.payload]
      /\ c \in Bytes /\ Len(c) = 4 + size
      /\ c[1] = Magic /\ c[2] = f.type /\ c[3] = size /\ c[4] = Checksum(f.type, f.payload)
      /\ \A i \in 1 .. size : c[4 + i] = f.payload[i]
  BY EncodeTyped
<1>1. m \in Nat /\ size \in Nat /\ f.payload \in Seq(Symbol) /\ f.type \in FrameTypes
  <2>1. f.payload \in Seq(Symbol) /\ f.type \in FrameTypes
    BY <1>0 DEF AnyFrame, Bytes
  <2> QED BY <2>1, LenProperties DEF Bytes
<1> HIDE DEF c
<1>2. /\ e \in Bytes /\ Len(e) = m + Len(c)
      /\ w \in Outcome /\ w.offset \in 0 .. m /\ Continues(w, x, y)
  BY <1>0, ScanBeginning
<1>3. \A i \in 1 .. m + Len(c) : e[i] = IF i <= m THEN p[i] ELSE c[i - m]
  BY <1>0, ConcatProperties DEF Bytes
<1>4. ~w.raised /\ w.frames = fs /\ Quiet(p, w.offset)
  BY DEF Carries, DecodeStream
<1> HIDE DEF e, w, m, size
<1>5. /\ Len(e) = m + 4 + size /\ Len(e) \in Nat
      /\ \A i \in 1 .. m : e[i] = p[i]
      /\ \A i \in 1 .. 4 + size : e[m + i] = c[i]
  <2>1. Len(e) = m + 4 + size /\ Len(e) \in Nat
    BY <1>0, <1>1, <1>2
  <2>2. ASSUME NEW i \in 1 .. m PROVE e[i] = p[i]
    BY <1>0, <1>1, <1>3
  <2>3. ASSUME NEW i \in 1 .. 4 + size PROVE e[m + i] = c[i]
    <3>1. m + i \in 1 .. m + Len(c) /\ ~(m + i <= m) /\ (m + i) - m = i
      BY <1>0, <1>1
    <3> QED BY <1>3, <3>1
  <2> QED BY <2>1, <2>2, <2>3
<1>6. /\ e[m + 1] = Magic /\ e[m + 2] = f.type /\ e[m + 3] = size
      /\ e[m + 4] = Checksum(f.type, f.payload)
  <2>1. 1 \in 1 .. 4 + size /\ 2 \in 1 .. 4 + size /\ 3 \in 1 .. 4 + size /\ 4 \in 1 .. 4 + size
    BY <1>1
  <2>2. e[m + 1] = c[1] /\ e[m + 2] = c[2] /\ e[m + 3] = c[3] /\ e[m + 4] = c[4]
    BY <1>5, <2>1
  <2> QED BY <1>0, <2>2
<1>7. m \in 0 .. Len(e) /\ Complete(m, e) /\ FrameEnd(m, e) = Len(e)
  <2>1. FrameEnd(m, e) = m + 4 + size
    BY <1>6 DEF FrameEnd, HeaderSize
  <2> QED BY <1>1, <1>5, <1>6, <2>1 DEF Complete, HeaderReady, HeaderSize
<1>8. PayloadAt(m, e) = f.payload
  <2> DEFINE a == PayloadAt(m, e)
             b == f.payload
  <2>1. a \in Bytes /\ Len(a) = size /\ \A i \in 1 .. size : a[i] = e[m + 4 + i]
    BY <1>2, <1>6, <1>7, PayloadTyped
  <2>2. ASSUME NEW i \in 1 .. size PROVE e[m + 4 + i] = b[i]
    <3>1. 4 + i \in 1 .. 4 + size /\ m + (4 + i) = m + 4 + i
      BY <1>1
    <3> QED BY <1>0, <1>5, <3>1
  <2>3. b \in Seq(Symbol) /\ Len(b) = size
    BY <1>1 DEF size
  <2> HIDE DEF a, b
  <2>4. a \in Seq(Symbol) /\ \A i \in 1 .. Len(a) : a[i] = b[i]
    BY <2>1, <2>2 DEF Bytes
  <2>5. a = b
    BY <2>1, <2>3, <2>4, SeqEqual
  <2> QED BY <2>5 DEF a, b
<1>9. Intact(m, e)
  BY <1>1, <1>6, <1>7, <1>8 DEF Intact, ChecksumHolds, KnownType
<1>10. end.frames = << >> /\ ~end.raised /\ end.offset = Len(e) /\ end \in Outcome
  <2>1. ~HeaderReady(Len(e), e) /\ Len(e) \in 0 .. Len(e)
    BY <1>5 DEF HeaderReady, HeaderSize
  <2>2. end = Turn(Len(e), e, Scan(e))
    BY <1>2, <2>1, ScanTurn
  <2>3. end = Stop(Len(e), FALSE)
    BY <2>1, <2>2, TurnOfEach DEF Incomplete
  <2> HIDE DEF end
  <2> QED BY <1>5, <2>3, StopFields
<1>11. z.frames = <<f>> /\ z.offset = Len(e) /\ ~z.raised
  <2> DEFINE type == f.type
             payload == f.payload
  <2>1. z = Found(type, payload, end)
    <3>1. z = Turn(m, e, Scan(e))
      BY <1>2, <1>7, ScanTurn
    <3>2. Turn(m, e, Scan(e)) = Found(e[m + 2], PayloadAt(m, e), Scan(e)[FrameEnd(m, e)])
      BY <1>9, TurnOfEach
    <3> QED BY <1>6, <1>7, <1>8, <3>1, <3>2
  <2>2. type \in FrameTypes /\ payload \in Bytes /\ f = [type |-> type, payload |-> payload]
    BY <1>0, <1>1 DEF Bytes
  <2> HIDE DEF z, end, type, payload
  <2>3. /\ z.frames = <<[type |-> type, payload |-> payload]>> \o end.frames
        /\ z.offset = end.offset /\ z.raised = end.raised
    BY <1>10, <2>1, <2>2, FoundIs
  <2>4. <<f>> \o << >> = <<f>>
    <3>1. <<f>> \in Seq(AnyFrame)
      BY <1>0
    <3> QED BY <3>1, ConcatEmptySeq
  <2> QED BY <1>10, <2>2, <2>3, <2>4
<1>12. y = z
  <2>1. w.offset \in 0 .. m /\ m + 4 <= Len(e)
    BY <1>1, <1>2, <1>5
  <2>2. ASSUME NEW i \in w.offset + 1 .. m PROVE e[i] # Magic
    <3>1. i \in 1 .. m
      BY <1>1, <2>1
    <3> QED BY <1>4, <1>5, <3>1 DEF Quiet, m
  <2> DEFINE o == w.offset
  <2>3. o \in 0 .. m /\ \A i \in o + 1 .. m : e[i] # Magic
    BY <2>1, <2>2
  <2> HIDE DEF o
  <2>4. Scan(e)[o] = Scan(e)[m]
    BY <1>1, <1>2, <2>1, <2>3, ScanSkips
  <2> QED BY <2>4 DEF o
<1> HIDE DEF x, y, z
<1>13. x.frames = fs \o <<f>> /\ x.offset = Len(e) /\ ~x.raised
  BY <1>2, <1>4, <1>11, <1>12 DEF Continues
<1>14. fs \o <<f>> = Append(fs, f)
  BY <1>0, AppendIsConcat
<1>15. Quiet(e, x.offset)
  BY <1>5, <1>13 DEF Quiet
<1> QED BY <1>13, <1>14, <1>15 DEF Carries, DecodeStream, e, c, x

Clean == \A i \in DOMAIN noise : noise[i] # Magic

\* All that was ever put on the link holds the frames sent and no more.
StreamInv == Clean => Carries(passed \o wire, sent)

LEMMA StreamInit == Init => StreamInv
<1> SUFFICES ASSUME Init PROVE Carries(passed \o wire, sent)
  BY DEF StreamInv
<1> DEFINE data == << >>
<1>1. sent = data /\ passed = data /\ wire = data /\ data \in Seq(Symbol) /\ Len(data) = 0
  BY EmptySeq DEF Init
<1> HIDE DEF data
<1>2. data \o data = data
  BY <1>1, ConcatEmptySeq DEF data
<1>3. /\ DecodeStream(data).frames = data /\ ~DecodeStream(data).raised
      /\ DecodeStream(data).offset = 0
  BY ScanEmpty DEF data
<1>4. Quiet(data, DecodeStream(data).offset)
  BY <1>1, <1>3 DEF Quiet
<1> QED BY <1>1, <1>2, <1>3, <1>4 DEF Carries

LEMMA StreamStep == TypeInv /\ StreamInv /\ [Next]_vars => StreamInv'
<1> SUFFICES ASSUME TypeInv, StreamInv, [Next]_vars, Clean'
             PROVE  Carries(passed' \o wire', sent')
  BY DEF StreamInv, Carries, Quiet
<1> DEFINE p == passed \o wire
<1>0. p \in Bytes /\ sent \in Seq(AnyFrame) /\ passed \in Seq(Symbol) /\ wire \in Seq(Symbol)
  BY ConcatProperties DEF TypeInv, Bytes
<1>1. CASE Send
  <2>1. PICK f \in Frame : /\ Fits(f.payload)
                           /\ sent' = Append(sent, f) /\ wire' = wire \o Encode(f)
    BY <1>1 DEF Send
  <2>2. Clean /\ passed' = passed
    BY <1>1 DEF Send, Clean
  <2>3. Encode(f) \in Seq(Symbol)
    BY <2>1, EncodeTyped DEF Bytes
  <2>4. passed \o (wire \o Encode(f)) = p \o Encode(f)
    <3> DEFINE c == Encode(f)
    <3>1. c \in Seq(Symbol)
      BY <2>3
    <3> HIDE DEF c
    <3>2. (passed \o wire) \o c = passed \o (wire \o c)
      BY <1>0, <3>1, ConcatAssociative
    <3> QED BY <3>2 DEF c
  <2>5. Carries(p, sent)
    BY <2>2 DEF StreamInv
  <2> HIDE DEF p
  <2>6. Carries(p \o Encode(f), Append(sent, f))
    BY <1>0, <2>1, <2>5, OneMoreFrame
  <2> QED BY <2>1, <2>2, <2>4, <2>6
<1>2. CASE Disturb
  <2>1. PICK s \in Symbol : noise' = Append(noise, s) /\ wire' = Append(wire, s)
    BY <1>2 DEF Disturb
  <2>2. Clean /\ s # Magic
    <3>1. noise \in Seq(Symbol)
      BY DEF TypeInv, Bytes
    <3>2. /\ DOMAIN noise = 1 .. Len(noise) /\ DOMAIN noise' = 1 .. Len(noise) + 1
          /\ Len(noise) \in Nat
      BY <2>1, <3>1, AppendProperties, LenProperties
    <3>3. (\A i \in 1 .. Len(noise) : noise'[i] = noise[i]) /\ noise'[Len(noise) + 1] = s
      BY <2>1, <3>1, AppendProperties
    <3>4. \A i \in DOMAIN noise' : noise'[i] # Magic
      BY DEF Clean
    <3> QED BY <3>2, <3>3, <3>4 DEF Clean
  <2>3. passed' = passed /\ sent' = sent
    BY <1>2 DEF Disturb
  <2>4. passed \o Append(wire, s) = Append(p, s)
    <3> DEFINE c == <<s>>
    <3>1. c \in Seq(Symbol) /\ Append(wire, s) = wire \o c /\ Append(p, s) = p \o c
      BY <1>0, <2>1, AppendIsConcat DEF Bytes
    <3> HIDE DEF c
    <3>2. (passed \o wire) \o c = passed \o (wire \o c)
      BY <1>0, <3>1, ConcatAssociative
    <3> QED BY <3>1, <3>2
  <2>5. Carries(p, sent)
    BY <2>2 DEF StreamInv
  <2> HIDE DEF p
  <2>6. Carries(Append(p, s), sent)
    BY <1>0, <2>1, <2>2, <2>5, QuietSymbol
  <2> QED BY <2>1, <2>3, <2>4, <2>6
<1>3. CASE Deliver
  <2>1. PICK n \in 1 .. Len(wire) : /\ wire' = SubSeq(wire, n + 1, Len(wire))
                                    /\ passed' = passed \o SubSeq(wire, 1, n)
    BY <1>3 DEF Deliver
  <2>2. Clean /\ sent' = sent
    BY <1>3 DEF Deliver, Clean
  <2> DEFINE a == SubSeq(wire, 1, n)
             b == SubSeq(wire, n + 1, Len(wire))
  <2>3. a \in Seq(Symbol) /\ b \in Seq(Symbol) /\ wire = a \o b
    BY <1>0, Split DEF Bytes
  <2>4. passed' = passed \o a /\ wire' = b
    BY <2>1
  <2> HIDE DEF a, b
  <2>5. (passed \o a) \o b = passed \o (a \o b)
    BY <1>0, <2>3, ConcatAssociative
  <2> QED BY <2>2, <2>3, <2>4, <2>5 DEF StreamInv
<1>4. CASE Refuse \/ UNCHANGED vars
  <2>1. passed' = passed /\ wire' = wire /\ sent' = sent /\ noise' = noise
    BY <1>4 DEF Refuse, vars
  <2> QED BY <2>1 DEF StreamInv, Clean
<1> QED BY <1>1, <1>2, <1>3, <1>4 DEF Next

\* What was delivered is a beginning of that, so what was decoded is one of sent.
LEMMA DecodedSoFar == TypeInv /\ StreamInv /\ ChunkingIrrelevant => CleanStreamDecodes
<1> SUFFICES ASSUME TypeInv, StreamInv, ChunkingIrrelevant, Clean
             PROVE  /\ ~dead
                    /\ Len(decoded) <= Len(sent) /\ decoded = SubSeq(sent, 1, Len(decoded))
                    /\ wire = << >> => decoded = sent
  BY DEF CleanStreamDecodes, Clean
<1> DEFINE w == Scan(passed)[0]
           x == Scan(passed \o wire)[0]
           y == Scan(passed \o wire)[w.offset]
<1>0. passed \in Bytes /\ wire \in Bytes
  BY DEF TypeInv
<1>1. /\ passed \o wire \in Bytes
      /\ Len(passed \o wire) = Len(passed) + Len(wire)
      /\ w \in Outcome /\ w.offset \in 0 .. Len(passed) /\ Continues(w, x, y)
  BY <1>0, ScanBeginning
<1>2. ~x.raised /\ x.frames = sent
  BY DEF StreamInv, Carries, DecodeStream
<1>3. dead = w.raised /\ (~dead => decoded = w.frames)
  BY DEF ChunkingIrrelevant, DecodeStream
<1>4. y \in Outcome
  <2>1. w.offset \in 0 .. Len(passed \o wire)
    BY <1>0, <1>1, LenProperties DEF Bytes
  <2> HIDE DEF w
  <2> QED BY <1>1, <2>1, ScanOutcome
<1>5. wire = << >> => x = w
  <2>1. wire = << >> => passed \o wire = passed
    BY <1>0, ConcatEmptySeq DEF Bytes
  <2> QED BY <2>1
<1> HIDE DEF w, x, y
<1>6. ~dead /\ decoded = w.frames /\ sent = decoded \o y.frames
  BY <1>1, <1>2, <1>3 DEF Continues
<1>7. decoded \in Seq(AnyFrame) /\ y.frames \in Seq(AnyFrame) /\ sent \in Seq(AnyFrame)
  BY <1>4 DEF TypeInv, Outcome
<1>8. /\ Len(sent) = Len(decoded) + Len(y.frames)
      /\ Len(decoded) \in Nat /\ Len(y.frames) \in Nat
      /\ \A i \in 1 .. Len(decoded) : sent[i] = decoded[i]
  <2> DEFINE rest == y.frames
  <2>1. decoded \in Seq(AnyFrame) /\ rest \in Seq(AnyFrame) /\ sent = decoded \o rest
    BY <1>6, <1>7
  <2> HIDE DEF rest
  <2>2. Len(decoded) \in Nat /\ Len(rest) \in Nat
    BY <2>1, LenProperties
  <2>3. /\ Len(sent) = Len(decoded) + Len(rest)
        /\ \A i \in 1 .. Len(decoded) + Len(rest) :
             sent[i] = IF i <= Len(decoded) THEN decoded[i] ELSE rest[i - Len(decoded)]
    BY <2>1, ConcatProperties
  <2>4. \A i \in 1 .. Len(decoded) : sent[i] = decoded[i]
    BY <2>2, <2>3
  <2> QED BY <2>2, <2>3, <2>4 DEF rest
<1>9. decoded = SubSeq(sent, 1, Len(decoded))
  <2> DEFINE n == Len(decoded)
             u == SubSeq(sent, 1, n)
  <2>1. n \in Nat /\ \A i \in 1 .. n : sent[i] \in AnyFrame
    BY <1>7, <1>8, ElementOfSeq
  <2>2. u \in Seq(AnyFrame) /\ Len(u) = n /\ \A i \in 1 .. n : u[i] = sent[i]
    <3>1. /\ SubSeq(sent, 1, n) \in Seq(AnyFrame)
          /\ Len(SubSeq(sent, 1, n)) = IF 1 <= n THEN n - 1 + 1 ELSE 0
          /\ \A i \in 1 .. n - 1 + 1 : SubSeq(sent, 1, n)[i] = sent[1 + i - 1]
      BY <2>1, SubSeqProperties
    <3> HIDE DEF n
    <3>2. n - 1 + 1 = n /\ (IF 1 <= n THEN n - 1 + 1 ELSE 0) = n /\ \A i \in 1 .. n : 1 + i - 1 = i
      BY <2>1
    <3> QED BY <3>1, <3>2
  <2> HIDE DEF u
  <2>3. decoded = u
    BY <1>7, <1>8, <2>2, SeqEqual
  <2> QED BY <2>3 DEF u
<1>10. wire = << >> => decoded = sent
  BY <1>2, <1>5, <1>6
<1>11. Len(decoded) <= Len(sent)
  BY <1>8
<1> QED BY <1>6, <1>9, <1>10, <1>11

\* While no noise looks like the magic, the reader decodes exactly the frames
\* sent, in order, and has them all once the link is empty: a payload that
\* looks like a header, noise between frames, a length nobody could encode
\* or the pieces the bytes come in never make it lose or invent one.
THEOREM CleanStreamsDecode == Spec => []CleanStreamDecodes
<1>1. Init => TypeInv /\ ChunkingIrrelevant /\ StreamInv
  BY TypeInit, ChunkingInit, StreamInit
<1>2. TypeInv /\ ChunkingIrrelevant /\ StreamInv /\ [Next]_vars
        => (TypeInv /\ ChunkingIrrelevant /\ StreamInv)'
  BY TypeStep, ChunkingStep, StreamStep
<1> QED BY <1>1, <1>2, DecodedSoFar, PTL DEF Spec
=============================================================================
