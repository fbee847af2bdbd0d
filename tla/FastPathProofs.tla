--------------------------- MODULE FastPathProofs ---------------------------
(***************************************************************************)
(* Proofs about FastPath for every number of packets, range of window      *)
(* sizes, batch limit and validation interval, under every fault.          *)
(***************************************************************************)
EXTENDS FastPath, FirstElements

-----------------------------------------------------------------------------
(* The inductive invariant.                                                *)

\* What the place in the code says of the radio, the packets and the file.
FlowInv ==
  /\ pc \in {"connect", "done"} => radio = "closed"
  /\ pc \notin {"connect", "done"} => radio = "open"
  /\ pc = "connect" => received = {}
  /\ pc \in {"fin", "save", "metrics", "returned"} => received = Packets
  /\ pc \in {"metrics", "returned"} => output = "payload"
  /\ pc = "done" <=> verdict # "none"

\* The window index counts the windows since one was due for validation, so it
\* counts the unheard ones too; it leaves zero only with a window that is heard.
SparseInv ==
  /\ index # 0 => unchecked < index /\ checked
  /\ SparsenessBounded

IInv == TypeOK /\ FlowInv /\ SparseInv /\ WindowFits

\* The packets are finitely many numbers, and none for an empty file.
LEMMA PacketSets ==
  /\ Packets \in SUBSET Int /\ IsFiniteSet(Packets)
  /\ Packets = {} <=> PacketCount = 0
<1>1. PacketCount \in Nat
  BY ConstantsAssumption
<1>2. Packets \in SUBSET Int /\ (Packets = {} <=> PacketCount = 0)
  BY <1>1 DEF Packets
<1> QED BY <1>1, <1>2, FS_Interval DEF Packets

-----------------------------------------------------------------------------
(* The size of a window.                                                   *)

\* A window has a packet and no more than batch_packet_limit, and no more bytes
\* than max_window_bytes unless it is a single packet.
LEMMA WindowSize ==
  ASSUME target \in MinWindow .. MaxWindow
  PROVE  /\ WindowPackets(target) \in 1 .. BatchLimit
         /\ WindowPackets(target) * ChunkBytes <= Larger(ChunkBytes, MaxWindow)
<1> DEFINE q == target \div ChunkBytes
           n == WindowPackets(target)
<1>1. /\ target \in Nat /\ ChunkBytes \in Nat \ {0} /\ BatchLimit \in Nat \ {0}
      /\ MaxWindow \in Nat /\ target <= MaxWindow
  BY ConstantsAssumption
<1>2. q \in Nat /\ q * ChunkBytes <= target
  BY <1>1, SMTT(30)
<1>3. n \in 1 .. BatchLimit /\ (n = 1 \/ n <= q)
  <2> HIDE DEF q
  <2>1. n = Larger(1, Smaller(BatchLimit, Larger(1, q)))
    BY DEF WindowPackets, q
  <2> QED BY <1>1, <1>2, <2>1 DEF Larger, Smaller
<1> HIDE DEF q, n
<1>4. CASE n = 1
  BY <1>1, <1>4 DEF Larger, n
<1>5. CASE n <= q
  <2>1. n * ChunkBytes <= q * ChunkBytes
    BY <1>1, <1>2, <1>3, <1>5
  <2>2. n * ChunkBytes \in Nat /\ q * ChunkBytes \in Nat
    BY <1>1, <1>2, <1>3
  <2> QED BY <1>1, <1>2, <1>3, <2>1, <2>2 DEF Larger, n
<1> QED BY <1>3, <1>4, <1>5 DEF n

\* The packets of a window are missing ones, and as many as fit.
LEMMA SelectedFits ==
  ASSUME TypeOK
  PROVE  /\ Selected \subseteq Missing /\ Missing \subseteq Packets
         /\ Cardinality(Selected) \in 0 .. BatchLimit
         /\ Cardinality(Selected) * ChunkBytes <= Larger(ChunkBytes, MaxWindow)
<1> DEFINE n == WindowPackets(target)
           c == Cardinality(Selected)
<1>1. n \in 1 .. BatchLimit /\ n * ChunkBytes <= Larger(ChunkBytes, MaxWindow)
  BY WindowSize DEF TypeOK
<1>2. Missing \in SUBSET Int /\ IsFiniteSet(Missing) /\ Missing \subseteq Packets
  BY PacketSets, FS_Subset DEF Missing
<1>3. Selected = First(Missing, n)
  BY DEF Selected, First
<1>4. ChunkBytes \in Nat /\ BatchLimit \in Nat /\ Larger(ChunkBytes, MaxWindow) \in Nat
  BY ConstantsAssumption DEF Larger
<1> HIDE DEF n
<1>5. Selected \subseteq Missing /\ c \in Nat /\ c <= n
  BY <1>1, <1>2, <1>3, FirstSize
<1> HIDE DEF c
<1>6. c * ChunkBytes <= n * ChunkBytes /\ c * ChunkBytes \in Nat /\ n * ChunkBytes \in Nat
  BY <1>1, <1>4, <1>5
<1>7. c \in 0 .. BatchLimit /\ c * ChunkBytes <= Larger(ChunkBytes, MaxWindow)
  BY <1>1, <1>4, <1>5, <1>6
<1> QED BY <1>2, <1>5, <1>7 DEF c

\* Halving and doubling keep the window size in its range.
LEMMA TargetKept ==
  ASSUME target \in MinWindow .. MaxWindow, NEW speed
  PROVE  NextTarget(speed) \in MinWindow .. MaxWindow
<1>1. /\ MinWindow \in Nat /\ MaxWindow \in Nat /\ target \in Nat
      /\ MinWindow <= target /\ target <= MaxWindow
  BY ConstantsAssumption
<1>2. target \div 2 \in Nat /\ target \div 2 <= target /\ target * 2 >= target /\ target * 2 \in Nat
  BY <1>1
<1> QED BY <1>1, <1>2 DEF NextTarget, Larger, Smaller

-----------------------------------------------------------------------------
(* Every step keeps the invariant.                                         *)

\* The session begins in the invariant.
LEMMA InvInit == Init => IInv
<1> SUFFICES ASSUME Init PROVE IInv
  OBVIOUS
<1> USE DEF Init
<1>1. TypeOK
  <2>1. target \in MinWindow .. MaxWindow
    BY ConstantsAssumption DEF Smaller, Larger
  <2>2. index \in 0 .. Interval - 1 /\ lastLength \in 0 .. BatchLimit /\ unchecked \in Nat
    BY ConstantsAssumption
  <2> QED BY <2>1, <2>2 DEF TypeOK
<1>2. FlowInv
  BY DEF FlowInv
<1>3. SparseInv /\ WindowFits
  BY ConstantsAssumption DEF SparseInv, SparsenessBounded, WindowFits, Larger
<1> QED BY <1>1, <1>2, <1>3 DEF IInv

\* Storing a window keeps types and range of its variables.
LEMMA StoreTyped ==
  ASSUME IInv, StoreWindow, (unchecked' \in Nat /\ checked' \in BOOLEAN), pc \in {"window", "capture"}
  PROVE  TypeOK' /\ FlowInv' /\ WindowFits'
<1> USE DEF IInv
<1>1. /\ received' = received \cup Selected /\ lastLength' = Cardinality(Selected)
      /\ index' = NextIndex /\ pc' = "window"
      /\ UNCHANGED <<radio, cached, gains, output, verdict>>
  BY DEF StoreWindow, KeepSelected
<1>2. PICK speed : target' = NextTarget(speed)
  BY DEF StoreWindow
<1>3. target' \in MinWindow .. MaxWindow
  BY <1>2, TargetKept DEF TypeOK
<1>4. index' \in 0 .. Interval - 1
  BY <1>1, ConstantsAssumption DEF NextIndex, TypeOK
<1>5. /\ received' \subseteq Packets /\ lastLength' \in 0 .. BatchLimit
      /\ lastLength' * ChunkBytes <= Larger(ChunkBytes, MaxWindow)
  BY <1>1, SelectedFits DEF TypeOK
<1>6. TypeOK'
  BY <1>1, <1>3, <1>4, <1>5 DEF TypeOK, Packets
<1>7. FlowInv'
  BY <1>1 DEF FlowInv
<1>8. WindowFits'
  <2>1. lastLength' <= BatchLimit
    BY <1>5, ConstantsAssumption
  <2> QED BY <1>5, <2>1 DEF WindowFits, Larger
<1> QED BY <1>6, <1>7, <1>8

\* A window that passes its validation keeps the invariant.
LEMMA InvHeard == ASSUME IInv, WindowHeard PROVE IInv'
<1>1. unchecked' = 0 /\ checked' = TRUE /\ pc = "capture" /\ StoreWindow
  BY DEF WindowHeard
<1>2. TypeOK' /\ FlowInv' /\ WindowFits'
  BY <1>1, StoreTyped
<1>3. SparseInv'
  <2>1. index' \in 0 .. Interval - 1 /\ Interval \in Nat \ {0}
    BY <1>2, ConstantsAssumption DEF TypeOK
  <2> QED BY <1>1, <2>1 DEF SparseInv, SparsenessBounded
<1> QED BY <1>2, <1>3 DEF IInv

\* So does a window that is not listened to.
LEMMA InvUnchecked == ASSUME IInv, WindowUnchecked PROVE IInv'
<1>1. unchecked' = unchecked + 1 /\ checked' = checked /\ pc = "window" /\ StoreWindow
  BY DEF WindowUnchecked
<1>2. unchecked' \in Nat /\ checked' \in BOOLEAN
  BY <1>1 DEF IInv, TypeOK
<1>3. TypeOK' /\ FlowInv' /\ WindowFits'
  BY <1>1, <1>2, StoreTyped
<1>4. SparseInv'
  <2>1. index \in 0 .. Interval - 1 /\ Interval \in Nat \ {0} /\ unchecked \in Nat
    BY ConstantsAssumption DEF IInv, TypeOK
  <2>2. index # 0
    <3>1. index % Interval # 0
      BY DEF WindowUnchecked, ValidationDue
    <3>2. 0 % Interval = 0
      BY <2>1
    <3> QED BY <3>1, <3>2
  <2>3. unchecked < index /\ checked
    BY <2>2 DEF IInv, SparseInv
  <2>4. index' = IF index + 1 = Interval THEN 0 ELSE index + 1
    BY <1>1, <2>1 DEF StoreWindow, NextIndex
  <2> QED BY <1>1, <2>1, <2>3, <2>4 DEF SparseInv, SparsenessBounded
<1> QED BY <1>3, <1>4 DEF IInv

\* So does connecting.
LEMMA InvConnect == ASSUME IInv, Connect PROVE IInv'
<1> USE DEF IInv, Connect, windowVars
<1>1. TypeOK'
  BY DEF TypeOK, Packets
<1>2. FlowInv'
  BY DEF FlowInv
<1>3. SparseInv' /\ WindowFits'
  BY DEF SparseInv, SparsenessBounded, WindowFits, Larger
<1> QED BY <1>1, <1>2, <1>3

\* So do the other steps, which leave the windows alone.
LEMMA InvOther ==
  ASSUME IInv,
         \/ UseCache \/ Calibrate \/ Handshake \/ RadioFails \/ CaptureWindow \/ WindowUnheard
         \/ WindowsDone \/ SendFin \/ Save \/ Metrics \/ Finish \/ Ended \/ UNCHANGED vars
  PROVE  IInv'
<1> USE DEF IInv, UseCache, Calibrate, Handshake, RadioFails, CaptureWindow, WindowUnheard,
            RepeatWindow, WindowsDone, AllReceived, SendFin, Save, Metrics, Finish, CloseRadio,
            Ended, Truncated, windowVars, vars
<1>1. UNCHANGED windowVars
  OBVIOUS
<1>2. TypeOK'
  BY <1>1 DEF TypeOK, Packets
<1>3. FlowInv'
  BY DEF FlowInv, Packets
<1>4. SparseInv' /\ WindowFits'
  BY <1>1 DEF SparseInv, SparsenessBounded, WindowFits, Larger
<1> QED BY <1>2, <1>3, <1>4

\* The invariant holds in every reachable state.
LEMMA Invariance == Spec => []IInv
<1>1. IInv /\ [Next]_vars => IInv'
  BY InvConnect, InvHeard, InvUnchecked, InvOther DEF Next, Session
<1> QED BY <1>1, InvInit, PTL DEF Spec

-----------------------------------------------------------------------------
(* The properties.                                                         *)

\* Every variable keeps its type: target_window_bytes never leaves its range.
THEOREM TypeCorrect == Spec => []TypeOK
<1>1. IInv => TypeOK
  BY DEF IInv
<1> QED BY <1>1, Invariance, PTL

\* Between two windows that were heard fewer than validation_interval_windows
\* are taken as received unheard, and nothing before the first.
THEOREM ValidationIsSparseEnough == Spec => []SparsenessBounded
<1>1. IInv => SparsenessBounded
  BY DEF IInv, SparseInv
<1> QED BY <1>1, Invariance, PTL

\* No window is larger than max_window_bytes (or one chunk) or than
\* batch_packet_limit, whatever latencies are measured.
THEOREM WindowsFit == Spec => []WindowFits
<1>1. IInv => WindowFits
  BY DEF IInv
<1> QED BY <1>1, Invariance, PTL

\* The session begins as AttemptLoop does.
LEMMA AttemptsInit == Init => Attempts!AInit
BY PacketSets DEF Init, Attempts!AInit

\* Every step is one of AttemptLoop or a stutter.
LEMMA AttemptsStep ==
  ASSUME IInv, [Next]_vars
  PROVE  [Attempts!AStep]_(Attempts!attemptVars)
<1> USE DEF IInv, FlowInv, Attempts!AStep, Attempts!attemptVars, windowVars
<1>1. CASE Connect
  <2>1. /\ radio = "closed" /\ verdict = "none" /\ output' = output
        /\ received = {} /\ received' = {} /\ Packets' = Packets
        /\ ({} = Packets) <=> PacketCount = 0
    BY <1>1, PacketSets DEF Connect, Packets
  <2>2. CASE pc' = "gains" /\ radio' = "open" /\ verdict' = verdict
    BY <2>1, <2>2 DEF Attempts!Begin
  <2>3. CASE pc' = "done" /\ verdict' = "failed" /\ radio' = radio
    BY <2>1, <2>3 DEF Attempts!GiveUp, Attempts!Release
  <2> QED BY <1>1, <2>2, <2>3 DEF Connect
<1>2. CASE WindowHeard \/ WindowUnchecked
  <2>1. /\ radio = "open" /\ verdict = "none" /\ received \subseteq Packets
        /\ received' = received \cup Selected /\ Selected \subseteq Packets
        /\ pc' = "window" /\ UNCHANGED <<radio, output, verdict>>
    BY <1>2, SelectedFits DEF WindowHeard, WindowUnchecked, StoreWindow, KeepSelected, TypeOK
  <2>2. received = Packets => received' = Packets
    BY <2>1
  <2> QED BY <2>1, <2>2 DEF Attempts!Work, Packets
<1>3. CASE Save
  BY <1>3 DEF Save, Attempts!WriteFile, Packets
<1>4. CASE Metrics
  BY <1>4 DEF Metrics, Attempts!Work, Packets
<1>5. CASE Finish
  BY <1>5 DEF Finish, CloseRadio, Attempts!Succeed, Attempts!GiveUp, Attempts!Release, Packets
<1>6. CASE \/ UseCache \/ Calibrate \/ Handshake \/ RadioFails \/ CaptureWindow \/ WindowUnheard
           \/ WindowsDone \/ SendFin
  BY <1>6 DEF UseCache, Calibrate, Handshake, RadioFails, CaptureWindow, WindowUnheard,
              WindowsDone, SendFin, Packets
<1>7. CASE Ended \/ UNCHANGED vars
  BY <1>7 DEF Ended, vars, Packets
<1> QED BY <1>1, <1>2, <1>3, <1>4, <1>5, <1>6, <1>7 DEF Next, Session

\* send_file implements AttemptLoop with its one attempt: the finally block
\* releases the radio whichever call raises, the output is touched only with
\* every packet counted, and a result is returned only over a complete file.
THEOREM AttemptsImplemented == Spec => ImplementsAttempts
<1>1. IInv /\ [Next]_vars => [Attempts!AStep]_(Attempts!attemptVars)
  BY AttemptsStep
<1> QED BY <1>1, AttemptsInit, Invariance, PTL DEF Spec, ImplementsAttempts, Attempts!Safe

-----------------------------------------------------------------------------
(* Success needs a window that was heard.                                  *)

HeardInv ==
  /\ pc = "capture" => Missing # {}
  /\ checked => Packets # {}
  /\ pc = "returned" \/ verdict = "ok" => checked

LEMMA HeardStep == ASSUME IInv, HeardInv, [Next]_vars PROVE HeardInv'
<1> USE DEF HeardInv, windowVars, Missing
<1>1. CASE \/ Connect \/ UseCache \/ Calibrate \/ Handshake \/ RadioFails
           \/ CaptureWindow \/ WindowUnheard
  BY <1>1 DEF Connect, UseCache, Calibrate, Handshake, RadioFails, CaptureWindow, WindowUnheard
<1>2. CASE WindowHeard \/ WindowUnchecked
  BY <1>2 DEF WindowHeard, WindowUnchecked, StoreWindow
<1>3. CASE WindowsDone \/ SendFin \/ Save
  BY <1>3 DEF WindowsDone, SendFin, Save
<1>4. CASE Metrics
  <2>1. received = Packets /\ (received # {} => checked)
    BY <1>4 DEF Metrics, IInv, FlowInv, SparseInv, SparsenessBounded
  <2>2. PacketCount > 0 => Packets # {}
    BY ConstantsAssumption DEF Packets
  <2> QED BY <1>4, <2>1, <2>2 DEF Metrics
<1>5. CASE Finish \/ Ended \/ UNCHANGED vars
  BY <1>5 DEF Finish, Ended, vars
<1> QED BY <1>1, <1>2, <1>3, <1>4, <1>5 DEF Next, Session

\* send_file returns only after a data window was heard, however sparse the
\* validation.  The division by the samples of the data windows is therefore
\* one by zero for a file of no bytes and only for that: such a file is never
\* reported as sent, and by then its output has been written.
THEOREM SuccessWasHeard ==
  Spec => [](/\ pc = "metrics" => (checked <=> PacketCount > 0) /\ output = "payload"
             /\ verdict = "ok" => checked /\ PacketCount > 0)
<1>1. Init => HeardInv
  BY DEF Init, HeardInv
<1>2. IInv /\ HeardInv /\ [Next]_vars => HeardInv'
  BY HeardStep
<1>3. ASSUME IInv, HeardInv
      PROVE  /\ pc = "metrics" => (checked <=> PacketCount > 0) /\ output = "payload"
             /\ verdict = "ok" => checked /\ PacketCount > 0
  <2>1. Packets # {} <=> PacketCount > 0
    <3>1. PacketCount > 0 <=> PacketCount # 0
      BY ConstantsAssumption
    <3> QED BY <3>1, PacketSets
  <2>2. pc = "metrics" => received = Packets /\ (received # {} => checked) /\ output = "payload"
    BY <1>3 DEF IInv, FlowInv, SparseInv, SparsenessBounded
  <2> QED BY <1>3, <2>1, <2>2 DEF HeardInv, IInv, TypeOK
<1> QED BY Invariance, <1>1, <1>2, <1>3, PTL DEF Spec
=============================================================================
