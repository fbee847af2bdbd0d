---------------------------- MODULE PlutoRFProofs ----------------------------
(***************************************************************************)
(* Proofs about PlutoRF for every file and frame size, capture size, batch *)
(* limit and number of attempts, under every fault, and first about the    *)
(* captures of RadioCapture, for every size and every phase.               *)
(***************************************************************************)
EXTENDS PlutoRF, FirstElements

-----------------------------------------------------------------------------
(* What captures hold.                                                     *)

\* The quotient rounded up is the least one whose product reaches the dividend.
LEMMA CeilDivBounds ==
  ASSUME NEW a \in Nat, NEW b \in Nat \ {0}
  PROVE  /\ CeilDiv(a, b) \in Nat
         /\ CeilDiv(a, b) * b >= a
         /\ CeilDiv(a, b) * b < a + b
BY SMTT(30) DEF CeilDiv

\* A capture is never shorter than asked for.
LEMMA CaptureSize ==
  ASSUME NEW n \in Nat, NEW B \in Nat \ {0}
  PROVE  CaptureSamples(n, B) \in Nat /\ CaptureSamples(n, B) >= n
<1> DEFINE k == CeilDiv(n, B)
<1>1. k \in Nat /\ k * B >= n
  BY CeilDivBounds
<1>2. CASE k > 1
  <2>1. CaptureSamples(n, B) = k * B
    BY <1>2 DEF CaptureSamples, Buffers
  <2> HIDE DEF k
  <2> QED BY <2>1, <1>1
<1>3. CASE ~(k > 1)
  <2>1. CaptureSamples(n, B) = 1 * B
    BY <1>3 DEF CaptureSamples, Buffers
  <2> HIDE DEF k
  <2>2. k = 0 \/ k = 1
    BY <1>1, <1>3
  <2>3. k * B = 0 \/ k * B = B
    BY <2>2
  <2> QED BY <1>1, <2>1, <2>3
<1> QED BY <1>2, <1>3

\* A capture longer than a buffer is longer than asked for by less than one.
LEMMA CaptureExcess ==
  ASSUME NEW n \in Nat, NEW B \in Nat \ {0}, n > B
  PROVE  CaptureSamples(n, B) < n + B
<1> DEFINE k == CeilDiv(n, B)
<1>1. k \in Nat /\ k * B >= n /\ k * B < n + B
  BY CeilDivBounds
<1>2. k > 1
  <2> HIDE DEF k
  <2>1. CASE k = 0
    BY <1>1, <2>1
  <2>2. CASE k = 1
    BY <1>1, <2>2
  <2> QED BY <1>1, <2>1, <2>2
<1>3. CaptureSamples(n, B) = k * B
  BY <1>2 DEF CaptureSamples, Buffers
<1> QED BY <1>1, <1>3

\* The next time the waveform comes to a given sample is less than one period
\* away.
LEMMA ComesRound ==
  ASSUME NEW Len \in Nat \ {0}, NEW phase \in 0 .. Len - 1, NEW start \in 0 .. Len - 1
  PROVE  \E t \in 0 .. Len - 1 : (phase + t) % Len = start
<1>1. CASE start >= phase
  <2>1. start - phase \in 0 .. Len - 1 /\ (phase + (start - phase)) % Len = start
    BY <1>1
  <2> QED BY <2>1
<1>2. CASE start < phase
  <2> DEFINE t == start + Len - phase
  <2>1. t \in 0 .. Len - 1 /\ phase + t = start + Len
    BY <1>2
  <2>2. (start + Len) % Len = start
    OBVIOUS
  <2>3. (phase + t) % Len = start
    BY <2>1, <2>2
  <2> QED BY <2>1, <2>3
<1> QED BY <1>1, <1>2

\* Before it comes to its first sample a waveform caught at sample one runs
\* nearly a whole period.
LEMMA NoEarlierStart ==
  ASSUME NEW Len \in Nat \ {0, 1}, NEW t \in Nat, (1 + t) % Len = 0
  PROVE  t >= Len - 1
<1>1. CASE t < Len - 1
  <2>1. (1 + t) % Len = 1 + t
    BY <1>1
  <2> QED BY <2>1
<1> QED BY <1>1

\* A run of samples is in every capture longer by a period than the run,
\* whenever the capture begins.
THEOREM HeldAtEveryPhase ==
  ASSUME NEW Len \in Nat \ {0}, NEW phase \in 0 .. Len - 1, NEW start \in 0 .. Len - 1,
         NEW size \in Nat, NEW n \in Nat, n >= Len - 1 + size
  PROVE  Holds(Len, phase, n, start, size)
<1>1. PICK t \in 0 .. Len - 1 : (phase + t) % Len = start
  BY ComesRound
<1>2. t \in Nat /\ t + size <= n
  OBVIOUS
<1> QED BY <1>1, <1>2 DEF Holds

\* _transmit_window hears every packet of its window from beginning to end,
\* whenever the capture begins: a low score of a packet is not an accident of
\* the phase.
THEOREM WindowCaptureHoldsEveryPacket ==
  ASSUME NEW window \in Nat \ {0}, NEW largest \in Nat, NEW B \in Nat \ {0},
         NEW phase \in 0 .. window - 1, NEW start \in 0 .. window - 1, NEW size \in 0 .. largest
  PROVE  Holds(window, phase, WindowCapture(window, largest, B), start, size)
<1>1. window + largest + B \in Nat
  OBVIOUS
<1>2. /\ WindowCapture(window, largest, B) \in Nat
      /\ WindowCapture(window, largest, B) >= window + largest + B
  BY <1>1, CaptureSize DEF WindowCapture
<1>3. WindowCapture(window, largest, B) >= window - 1 + size
  BY <1>2
<1> QED BY <1>2, <1>3, HeldAtEveryPhase

\* A whole waveform is in a capture at every phase exactly if the capture has
\* two periods but for one sample.
THEOREM WholeWaveformHeld ==
  ASSUME NEW Len \in Nat \ {0, 1}, NEW n \in Nat
  PROVE  (\A phase \in 0 .. Len - 1 : Holds(Len, phase, n, 0, Len)) <=> n >= 2 * Len - 1
<1>1. ASSUME n >= 2 * Len - 1, NEW phase \in 0 .. Len - 1
      PROVE  Holds(Len, phase, n, 0, Len)
  BY <1>1, HeldAtEveryPhase
<1>2. ASSUME \A phase \in 0 .. Len - 1 : Holds(Len, phase, n, 0, Len)
      PROVE  n >= 2 * Len - 1
  <2>1. Holds(Len, 1, n, 0, Len)
    BY <1>2
  <2>2. PICK t \in Nat : (1 + t) % Len = 0 /\ t + Len <= n
    BY <2>1 DEF Holds
  <2>3. t >= Len - 1
    BY <2>2, NoEarlierStart
  <2> QED BY <2>2, <2>3
<1> QED BY <1>1, <1>2

\* The fast path adds one buffer to its window and no more: a window up to the
\* size of a buffer is captured whole at every phase; of one longer than two
\* buffers there are phases at which the capture holds no complete copy, so
\* that the score, on the best of links, is one of copies cut in two.
THEOREM PlainCaptureHolds ==
  ASSUME NEW Len \in Nat \ {0, 1}, NEW B \in Nat \ {0}
  PROVE  /\ Len <= B + 1 => \A phase \in 0 .. Len - 1 : Holds(Len, phase, PlainCapture(Len, B), 0, Len)
         /\ Len > 2 * B => \E phase \in 0 .. Len - 1 : ~Holds(Len, phase, PlainCapture(Len, B), 0, Len)
<1> DEFINE n == PlainCapture(Len, B)
<1>1. Len + B \in Nat /\ Len + B > B
  OBVIOUS
<1>2. n \in Nat /\ n >= Len + B
  BY <1>1, CaptureSize DEF PlainCapture
<1>3. n < Len + 2 * B
  BY <1>1, CaptureExcess DEF PlainCapture
<1> HIDE DEF n
<1>4. ASSUME Len <= B + 1
      PROVE  \A phase \in 0 .. Len - 1 : Holds(Len, phase, n, 0, Len)
  <2>1. n >= 2 * Len - 1
    BY <1>2, <1>4
  <2> QED BY <1>2, <2>1, WholeWaveformHeld
<1>5. ASSUME Len > 2 * B
      PROVE  \E phase \in 0 .. Len - 1 : ~Holds(Len, phase, n, 0, Len)
  <2>1. ~(n >= 2 * Len - 1)
    BY <1>2, <1>3, <1>5
  <2> QED BY <1>2, <2>1, WholeWaveformHeld
<1> QED BY <1>4, <1>5 DEF n

\* With the sizes of configs/optimized_pluto_rf.yaml that is every window of
\* two full packets and more: 65535 bytes a packet, 262144 samples a buffer.
THEOREM DefaultWindowsMissed ==
  ASSUME NEW k \in Nat, k >= 2
  PROVE  LET Len == k * PacketSamples(65535, "qpsk")
         IN  \E phase \in 0 .. Len - 1 : ~Holds(Len, phase, PlainCapture(Len, 262144), 0, Len)
<1>1. CeilDiv(524280, 104) = 5042 /\ CeilDiv(256, 52) = 5
  BY DEF CeilDiv
<1>2. PacketSamples(65535, "qpsk") = 403968
  BY <1>1 DEF PacketSamples, DecodedSamples, PayloadSamples, BitsPerSymbol, Header, Preamble,
               Symbol, Carriers, Guard
<1>3. k * 403968 \in Nat \ {0, 1} /\ k * 403968 > 2 * 262144
  OBVIOUS
<1> QED BY <1>2, <1>3, PlainCaptureHolds

\* A packet is whole in some capture of n samples exactly if it has no more
\* samples than that: PlutoRF takes as audible what decode_packet_at could
\* decode at the best of phases.
THEOREM HeldAtSomePhase ==
  ASSUME NEW Len \in Nat \ {0}, NEW start \in 0 .. Len - 1, NEW size \in Nat, NEW n \in Nat
  PROVE  (\E phase \in 0 .. Len - 1 : Holds(Len, phase, n, start, size)) <=> size <= n
<1>1. ASSUME size <= n
      PROVE  Holds(Len, start, n, start, size)
  <2>1. (start + 0) % Len = start /\ 0 + size <= n
    BY <1>1
  <2> QED BY <2>1 DEF Holds
<1>2. ASSUME NEW phase \in 0 .. Len - 1, Holds(Len, phase, n, start, size)
      PROVE  size <= n
  <2>1. PICK t \in Nat : t + size <= n
    BY <1>2 DEF Holds
  <2> QED BY <2>1
<1> QED BY <1>1, <1>2

-----------------------------------------------------------------------------
(* The inductive invariant.                                                *)

\* What the place in the code says of the driver and the file.
FlowInv ==
  /\ pc \in {"connect", "done"} => device = "closed"
  /\ pc \in {"calibrate", "data", "capture", "fin", "returned"} => device = "open"
  /\ pc \in {"fin", "returned"} => acked = Frames
  /\ pc = "returned" => output = "payload"
  /\ pc = "done" <=> verdict # "none"

\* Only frames that have been sent are acknowledged.
SentInv == acked \subseteq 0 .. next - 1

IInv == TypeOK /\ FlowInv /\ SentInv /\ WindowExact /\ BatchUseful

\* Sets of frames are finite.
LEMMA FrameSets ==
  /\ TotalFrames \in Nat /\ BatchLimit \in Nat \ {0}
  /\ Frames = 0 .. TotalFrames - 1 /\ Frames \in SUBSET Int
  /\ Frames = {} <=> TotalFrames = 0
  /\ IsFiniteSet(Frames) /\ \A S \in SUBSET Frames : IsFiniteSet(S) /\ Cardinality(S) \in Nat
<1>1. TotalFrames \in Nat /\ BatchLimit \in Nat \ {0}
  BY ConstantsAssumption, CeilDivBounds DEF TotalFrames
<1>2. IsFiniteSet(Frames)
  BY <1>1, FS_Interval DEF Frames
<1>3. ASSUME NEW S \in SUBSET Frames
      PROVE  IsFiniteSet(S) /\ Cardinality(S) \in Nat
  BY <1>2, FS_Subset, FS_CardinalityType
<1>4. Frames = 0 .. TotalFrames - 1 /\ Frames \in SUBSET Int /\ (Frames = {} <=> TotalFrames = 0)
  BY <1>1 DEF Frames
<1> QED BY <1>1, <1>2, <1>3, <1>4

-----------------------------------------------------------------------------
(* One batch.                                                              *)

\* The new frames of a batch follow those sent so far, and fit the window with
\* what is kept of it.
LEMMA NewFramesFollow ==
  ASSUME next \in 0 .. TotalFrames, NEW kept \in SUBSET Frames, Cardinality(kept) <= BatchLimit
  PROVE  \E k \in Nat :
           /\ next + k <= TotalFrames /\ k + Cardinality(kept) <= BatchLimit
           /\ NewFrames(kept) = next .. next + k - 1
           /\ Cardinality(NewFrames(kept)) = k
           /\ k = 0 => next = TotalFrames \/ Cardinality(kept) = BatchLimit
<1> DEFINE c == Cardinality(kept)
           room == BatchLimit - c
           k == IF next + room <= TotalFrames THEN room ELSE TotalFrames - next
<1>1. c \in Nat /\ TotalFrames \in Nat /\ BatchLimit \in Nat /\ next \in Nat
  BY FrameSets
<1> HIDE DEF c
<1>2. k \in Nat /\ next + k <= TotalFrames /\ k + c <= BatchLimit
  BY <1>1 DEF c
<1>3. NewFrames(kept) = next .. next + k - 1
  BY <1>1, FrameSets DEF NewFrames, Room, c
<1>4. Cardinality(next .. next + k - 1) = k
  <2>1. next \in Int /\ next + k - 1 \in Int
    BY <1>1, <1>2
  <2>2. Cardinality(next .. next + k - 1)
          = IF next > next + k - 1 THEN 0 ELSE (next + k - 1) - next + 1
    BY <2>1, FS_Interval
  <2> HIDE DEF k
  <2> QED BY <1>1, <1>2, <2>2
<1>5. k = 0 => next = TotalFrames \/ c = BatchLimit
  BY <1>1, <1>2
<1> HIDE DEF k
<1> QED BY <1>2, <1>3, <1>4, <1>5 DEF c

\* When nothing new is sent, what is sent again has been sent before: either all
\* frames have, or the window is full of missing ones, which come first.
LEMMA ResentBefore ==
  ASSUME TypeOK, WindowExact, SentInv, NewFrames(Pruned) = {}
  PROVE  /\ ResentFrames \subseteq Missing /\ ResentFrames \subseteq 0 .. next - 1
         /\ Cardinality(ResentFrames) <= BatchLimit
<1>1. Missing \in SUBSET Int /\ Missing \in SUBSET Frames /\ IsFiniteSet(Missing)
  BY FrameSets DEF Missing
<1>2. ResentFrames = First(Missing, BatchLimit)
  BY DEF ResentFrames, FirstOnes, First
<1>3. ResentFrames \subseteq Missing /\ Cardinality(ResentFrames) <= BatchLimit
  BY <1>1, <1>2, FrameSets, FirstSize
<1>4. ResentFrames \subseteq 0 .. next - 1
  <2>1. Pruned = (0 .. next - 1) \ acked /\ Pruned \in SUBSET Frames
        /\ Cardinality(Pruned) <= BatchLimit /\ next \in 0 .. TotalFrames
    BY DEF Pruned, WindowExact, TypeOK
  <2>2. PICK k \in Nat : /\ NewFrames(Pruned) = next .. next + k - 1
                         /\ Cardinality(NewFrames(Pruned)) = k
                         /\ k = 0 => next = TotalFrames \/ Cardinality(Pruned) = BatchLimit
    BY <2>1, NewFramesFollow
  <2>3. k = 0
    BY <2>2, FS_EmptySet
  <2>4. CASE next = TotalFrames
    BY <1>1, <1>3, <2>4, FrameSets
  <2>5. CASE Cardinality(Pruned) = BatchLimit
    <3> SUFFICES ASSUME NEW s \in ResentFrames, s \notin 0 .. next - 1
                 PROVE  FALSE
      OBVIOUS
    <3>1. s \in Missing /\ s \in Nat /\ next \in Nat
      BY <1>1, <1>3, <2>1, FrameSets
    <3>2. s >= next
      BY <3>1
    <3>3. Pruned \in SUBSET Missing /\ \A p \in Pruned : p < s
      BY <2>1, <3>1, <3>2 DEF Missing
    <3>4. Cardinality(Pruned) >= BatchLimit
      BY <2>5, FrameSets
    <3>5. s \notin First(Missing, BatchLimit)
      BY <1>1, <3>1, <3>3, <3>4, FrameSets, NotAmongFirst
    <3> QED BY <1>2, <3>5
  <2> QED BY <2>2, <2>3, <2>4, <2>5
<1> QED BY <1>3, <1>4

-----------------------------------------------------------------------------
(* Every step keeps the invariant.                                         *)

\* The transfer begins in the invariant.
LEMMA InvInit == Init => IInv
<1> SUFFICES ASSUME Init PROVE IInv
  OBVIOUS
<1> USE DEF Init
<1>1. TypeOK
  <2>1. attempt \in 1 .. SessionRetries /\ next \in 0 .. TotalFrames
    BY ConstantsAssumption, FrameSets
  <2> QED BY <2>1 DEF TypeOK
<1>2. FlowInv
  BY DEF FlowInv
<1>3. 0 .. next - 1 = {}
  OBVIOUS
<1>4. SentInv /\ WindowExact /\ BatchUseful
  BY <1>3, FS_EmptySet, FrameSets DEF SentInv, WindowExact, BatchUseful
<1> QED BY <1>1, <1>2, <1>4 DEF IInv

\* Connecting keeps the invariant.
LEMMA InvConnect == ASSUME IInv, Connect PROVE IInv'
<1> USE DEF IInv, Connect, FreshLocals
<1>1. TypeOK'
  <2>1. next' \in 0 .. TotalFrames
    BY FrameSets
  <2> QED BY <2>1 DEF TypeOK, TotalFrames, Frames
<1>2. FlowInv'
  BY DEF FlowInv
<1>3. 0 .. next' - 1 = {}
  OBVIOUS
<1>4. SentInv' /\ WindowExact' /\ BatchUseful'
  BY <1>3, FS_EmptySet, FrameSets DEF SentInv, WindowExact, BatchUseful
<1> QED BY <1>1, <1>2, <1>4

\* Pruning, filling and selecting keep the invariant: the heart of the proof.
LEMMA InvSendBatch == ASSUME IInv, SendBatch PROVE IInv'
<1> USE DEF IInv
<1> DEFINE new == NewFrames(Pruned)
<1>1. /\ Pruned = (0 .. next - 1) \ acked /\ Pruned \in SUBSET Frames /\ next \in 0 .. TotalFrames
      /\ Cardinality(Pruned) <= BatchLimit
  BY DEF Pruned, WindowExact, TypeOK
<1>2. PICK k \in Nat :
        /\ next + k <= TotalFrames /\ k + Cardinality(Pruned) <= BatchLimit
        /\ new = next .. next + k - 1 /\ Cardinality(new) = k
  BY <1>1, NewFramesFollow
<1>3. next' = next + k /\ inflight' = Pruned \cup selected' /\ acked' = acked
  BY <1>2 DEF SendBatch
<1>4. next \in Nat /\ TotalFrames \in Nat /\ BatchLimit \in Nat
  BY <1>1, FrameSets
<1>5. next' \in 0 .. TotalFrames /\ 0 .. next' - 1 = (0 .. next - 1) \cup new
  BY <1>2, <1>3, <1>4
<1>6. /\ selected' \subseteq Frames /\ selected' \cap acked = {}
      /\ selected' \subseteq 0 .. next' - 1 /\ Cardinality(selected') <= BatchLimit
      /\ inflight' \ acked = (0 .. next' - 1) \ acked
      /\ Cardinality(inflight' \ acked) <= BatchLimit
  <2>1. Cardinality(Pruned) \in Nat /\ IsFiniteSet(Pruned)
    BY <1>1, FrameSets
  <2>2. CASE new # {}
    <3>1. selected' = new
      BY <2>2 DEF SendBatch
    <3>2. new \subseteq Frames /\ new \cap acked = {}
      <4>1. \A s \in new : s \notin 0 .. next - 1
        BY <1>2, <1>4
      <4> QED BY <4>1 DEF SentInv, NewFrames
    <3>3. k <= BatchLimit
      BY <1>2, <1>4, <2>1
    <3>4. inflight' \ acked = Pruned \cup new /\ Pruned \cup new = (0 .. next' - 1) \ acked
      BY <1>1, <1>3, <1>5, <3>1, <3>2
    <3>5. Pruned \cap new = {}
      BY <1>1, <1>2, <1>4
    <3>6. Cardinality(Pruned \cup new) = Cardinality(Pruned) + k
      <4>1. IsFiniteSet(new)
        BY <3>2, FrameSets
      <4>2. Cardinality(Pruned \cup new)
              = Cardinality(Pruned) + Cardinality(new) - Cardinality(Pruned \cap new)
        BY <2>1, <4>1, FS_Union
      <4>3. Cardinality(Pruned \cap new) = 0
        BY <3>5, FS_EmptySet
      <4> HIDE DEF new
      <4> QED BY <1>2, <2>1, <4>2, <4>3
    <3>7. Cardinality(Pruned \cup new) <= BatchLimit
      BY <1>2, <1>4, <2>1, <3>6
    <3> QED BY <1>2, <1>5, <3>1, <3>2, <3>3, <3>4, <3>7
  <2>3. CASE new = {}
    <3>1. selected' = ResentFrames
      BY <2>3 DEF SendBatch
    <3>2. k = 0
      BY <1>2, <2>3, FS_EmptySet
    <3>3. next' = next
      BY <1>3, <1>4, <3>2
    <3>4. /\ ResentFrames \subseteq Missing /\ ResentFrames \subseteq 0 .. next - 1
          /\ Cardinality(ResentFrames) <= BatchLimit
      BY <2>3, ResentBefore
    <3>5. inflight' \ acked = Pruned
      BY <1>1, <1>3, <3>1, <3>4 DEF Missing
    <3> QED BY <1>1, <3>1, <3>3, <3>4, <3>5 DEF Missing
  <2> QED BY <2>2, <2>3
<1>7. /\ pc' \in {"data", "capture"} /\ (pc' = "capture" => selected' # {}) /\ pc = "data"
      /\ UNCHANGED <<attempt, device, gains, acked, output, verdict>>
  BY DEF SendBatch
<1>8. TypeOK'
  BY <1>1, <1>3, <1>5, <1>6, <1>7 DEF TypeOK, Frames, TotalFrames
<1>9. FlowInv'
  BY <1>7 DEF FlowInv
<1>10. SentInv' /\ WindowExact' /\ BatchUseful'
  BY <1>3, <1>5, <1>6, <1>7 DEF SentInv, WindowExact, BatchUseful
<1> QED BY <1>8, <1>9, <1>10

\* What a capture acknowledges keeps the invariant.
LEMMA InvCapture == ASSUME IInv, Capture PROVE IInv'
<1> USE DEF IInv
<1>1. PICK new \in SUBSET (Audible \cap 0 .. next - 1) : acked' = acked \cup new
  BY DEF Capture
<1>2. /\ pc = "capture" /\ pc' = "data" /\ new \subseteq Frames /\ new \subseteq 0 .. next - 1
      /\ UNCHANGED <<attempt, device, gains, next, inflight, selected, output, verdict>>
  BY <1>1 DEF Capture, Audible
<1>3. TypeOK'
  BY <1>1, <1>2 DEF TypeOK, Frames, TotalFrames
<1>4. FlowInv' /\ SentInv'
  BY <1>1, <1>2 DEF FlowInv, SentInv
<1>5. WindowExact'
  <2>1. inflight' \ acked' = (0 .. next' - 1) \ acked'
    BY <1>1, <1>2 DEF WindowExact
  <2>2. inflight' \ acked' \in SUBSET (inflight \ acked) /\ inflight \ acked \in SUBSET Frames
    BY <1>1, <1>2 DEF TypeOK
  <2>3. /\ Cardinality(inflight' \ acked') <= Cardinality(inflight \ acked)
        /\ Cardinality(inflight' \ acked') \in Nat /\ Cardinality(inflight \ acked) \in Nat
    BY <2>2, FrameSets, FS_Subset
  <2>4. Cardinality(inflight' \ acked') <= BatchLimit
    BY <2>3, FrameSets DEF WindowExact
  <2> QED BY <2>1, <2>4 DEF WindowExact
<1>6. BatchUseful'
  BY <1>2 DEF BatchUseful
<1> QED BY <1>3, <1>4, <1>5, <1>6

\* The other steps leave the window alone.
LEMMA InvOther ==
  ASSUME IInv,
         \/ Calibrate \/ RadioFails \/ SendFin \/ Save \/ Retry \/ Return \/ Ended
         \/ UNCHANGED vars
  PROVE  IInv'
<1> USE DEF IInv, Calibrate, RadioFails, SendFin, Save, Retry, Return, Ended, vars, frameVars,
            CloseDriver, CountAttempt, AllAcked, Truncated
<1>1. UNCHANGED frameVars
  OBVIOUS
<1>2. TypeOK'
  <2>1. attempt' \in 1 .. SessionRetries
    BY ConstantsAssumption DEF TypeOK
  <2> QED BY <1>1, <2>1 DEF TypeOK, Frames, TotalFrames
<1>3. FlowInv'
  BY DEF FlowInv, Frames, TotalFrames
<1>4. SentInv' /\ WindowExact' /\ BatchUseful'
  BY <1>1 DEF SentInv, WindowExact, BatchUseful
<1> QED BY <1>2, <1>3, <1>4

\* The invariant holds in every reachable state.
LEMMA Invariance == Spec => []IInv
<1>1. IInv /\ [Next]_vars => IInv'
  BY InvConnect, InvSendBatch, InvCapture, InvOther DEF Next, Session
<1> QED BY <1>1, InvInit, PTL DEF Spec

-----------------------------------------------------------------------------
(* The properties.                                                         *)

\* Every variable keeps its type: next_sequence never passes the number of
\* frames, attempts stay within session_retries.
THEOREM TypeCorrect == Spec => []TypeOK
<1>1. IInv => TypeOK
  BY DEF IInv
<1> QED BY <1>1, Invariance, PTL

\* The dict inflight is exact: no frame sent and not heard is forgotten, and
\* there are never more of them than batch_packet_limit.
THEOREM WindowIsExact == Spec => []WindowExact
<1>1. IInv => WindowExact
  BY DEF IInv
<1> QED BY <1>1, Invariance, PTL

\* No batch on the air is empty, too large, or holds a frame heard before it.
THEOREM BatchesAreUseful == Spec => []BatchUseful
<1>1. IInv => BatchUseful
  BY DEF IInv
<1> QED BY <1>1, Invariance, PTL

\* The transfer begins as AttemptLoop does.
LEMMA AttemptsInit == Init => Attempts!AInit
BY FrameSets DEF Init, Attempts!AInit

\* Every step is one of AttemptLoop or a stutter.
LEMMA AttemptsStep ==
  ASSUME IInv, [Next]_vars
  PROVE  [Attempts!AStep]_(Attempts!attemptVars)
<1> USE DEF IInv, FlowInv, Attempts!AStep, Attempts!attemptVars, frameVars
<1>1. CASE Connect
  BY <1>1, FrameSets DEF Connect, FreshLocals, Attempts!Begin, Frames, TotalFrames
<1>2. CASE Capture
  <2>1. /\ device = "open" /\ (acked = Frames => acked' = Frames')
        /\ pc' = "data" /\ verdict = "none" /\ UNCHANGED <<attempt, device, output, verdict>>
    BY <1>2 DEF Capture, TypeOK, Audible, Frames, TotalFrames
  <2> QED BY <2>1 DEF Attempts!Work
<1>3. CASE Save
  BY <1>3 DEF Save, Attempts!WriteFile, Frames, TotalFrames
<1>4. CASE Retry
  <2>1. attempt < SessionRetries \/ attempt = SessionRetries
    BY ConstantsAssumption DEF TypeOK
  <2> QED BY <1>4, <2>1 DEF Retry, CloseDriver, CountAttempt, Attempts!TryAgain, Attempts!GiveUp,
                            Attempts!Release, Frames, TotalFrames
<1>5. CASE Return
  BY <1>5 DEF Return, CloseDriver, Attempts!Succeed, Attempts!Release, Frames, TotalFrames
<1>6. CASE Calibrate \/ RadioFails \/ SendBatch \/ SendFin
  BY <1>6 DEF Calibrate, RadioFails, SendBatch, SendFin, Frames, TotalFrames
<1>7. CASE Ended \/ UNCHANGED vars
  BY <1>7 DEF Ended, vars, Frames, TotalFrames
<1> QED BY <1>1, <1>2, <1>3, <1>4, <1>5, <1>6, <1>7 DEF Next, Session

\* send_file implements AttemptLoop: the driver is closed before another attempt
\* connects, nothing acknowledged in one counts in the next, the output is
\* touched only with every frame acknowledged, and success is announced only
\* over the file this attempt has written.
THEOREM AttemptsImplemented == Spec => ImplementsAttempts
<1>1. IInv /\ [Next]_vars => [Attempts!AStep]_(Attempts!attemptVars)
  BY AttemptsStep
<1> QED BY <1>1, AttemptsInit, Invariance, PTL DEF Spec, ImplementsAttempts, Attempts!Safe

-----------------------------------------------------------------------------
(* A file with a frame too long for a capture never arrives.               *)

HeardInv ==
  /\ acked \subseteq Audible
  /\ verdict = "ok" => acked = Frames

\* Only audible frames are ever acknowledged.
LEMMA HeardStep == ASSUME FlowInv, HeardInv, [Next]_vars PROVE HeardInv'
<1> USE DEF HeardInv, FlowInv, frameVars
<1>1. Audible' = Audible /\ Frames' = Frames
  BY DEF Audible, Frames, TotalFrames, PacketBytes
<1>2. CASE Connect
  BY <1>1, <1>2 DEF Connect, FreshLocals
<1>3. CASE Capture
  BY <1>1, <1>3 DEF Capture
<1>4. CASE \/ Calibrate \/ RadioFails \/ SendBatch \/ SendFin \/ Save \/ Retry \/ Return \/ Ended
           \/ UNCHANGED vars
  BY <1>1, <1>4 DEF Calibrate, RadioFails, SendBatch, SendFin, Save, Retry, Return, Ended, vars
<1> QED BY <1>2, <1>3, <1>4 DEF Next, Session

\* The finding of the run pluto_default_sizes for every size: when one frame
\* does not fit a capture, send_file never returns a result, however often it
\* tries and whatever the link does.
THEOREM TooLongNeverSent == Spec => [](Audible # Frames => verdict # "ok")
<1>1. Init => HeardInv
  BY DEF Init, HeardInv
<1>2. FlowInv /\ HeardInv /\ [Next]_vars => HeardInv'
  BY HeardStep
<1>3. IInv => FlowInv
  BY DEF IInv
<1>4. ASSUME HeardInv PROVE Audible # Frames => verdict # "ok"
  BY <1>4 DEF HeardInv, Audible
<1> QED BY <1>1, <1>2, <1>3, <1>4, Invariance, PTL DEF Spec
=============================================================================
