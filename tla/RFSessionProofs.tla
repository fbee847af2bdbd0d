--------------------------- MODULE RFSessionProofs ---------------------------
(***************************************************************************)
(* Proofs about RFSession for every number of packets, window size, bound  *)
(* on retries and attempts, number of gain candidates and set of scores,   *)
(* for each of the three programs and under every fault.                   *)
(***************************************************************************)
EXTENDS RFSession, FirstElements

-----------------------------------------------------------------------------
(* The inductive invariant.                                                *)

Linked == {"probe", "handshake", "window", "fin", "save", "stats", "returned"}
Complete == {"fin", "save", "stats", "returned"}

\* What the place in the code says of the radio, the packets and the file.
FlowInv ==
  /\ pc \in {"connect", "done"} => radio = "closed"
  /\ radio = "closed" => onAir = "none"
  /\ pc \in Linked => radio = "open"
  /\ pc \in Complete => received = Packets
  /\ pc \in {"stats", "returned"} => output = "payload"
  /\ pc = "done" <=> verdict # "none"
  /\ pc \in {"probe", "handshake", "window"} => finTries = 0
  /\ pc = "fin" => finTries < FinTries

\* The retry counter pays for the windows that brought nothing; the window that
\* brings the last packet leaves it at zero.
BudgetInv ==
  /\ windows <= (MaxRetries + 1) * Cardinality(received) + retries
  /\ pc \in {"probe", "handshake", "window"} => retries <= MaxRetries
  /\ received = Packets => retries = 0
  /\ pc \in {"probe", "handshake"} => retries = 0

\* While nothing is wrong every window brings something.
TroubleInv ==
  /\ pc = "window" /\ ~trouble => retries = 0
  /\ received # {} => windows > 0
  /\ RaisedForAReason

IInv == TypeOK /\ FlowInv /\ BudgetInv /\ BestGainUsed /\ TroubleInv /\ CountedWereDetected

-----------------------------------------------------------------------------
(* The packets of a window.                                                *)

\* Sets of packets are finite.
LEMMA PacketSets ==
  /\ Packets \in SUBSET Nat /\ IsFiniteSet(Packets)
  /\ \A S \in SUBSET Packets : IsFiniteSet(S) /\ Cardinality(S) \in Nat
  /\ Packets = {} <=> PacketCount = 0
<1>1. Packets \in SUBSET Nat /\ (Packets = {} <=> PacketCount = 0) /\ PacketCount \in Nat
  BY ConstantsAssumption DEF Packets
<1>2. IsFiniteSet(Packets)
  BY <1>1, FS_Interval DEF Packets
<1> QED BY <1>1, <1>2, FS_Subset, FS_CardinalityType

\* A window is made of missing packets, and is empty only when none is missing.
LEMMA SelectedPackets ==
  ASSUME received \subseteq Packets
  PROVE  /\ Selected \subseteq Missing /\ Missing \subseteq Packets
         /\ received # Packets => Selected # {}
<1>1. Missing \in SUBSET Nat /\ IsFiniteSet(Missing) /\ Missing \subseteq Packets
  BY PacketSets, FS_Subset DEF Missing
<1>2. Selected = First(Missing, WindowPackets)
  BY DEF Selected, First
<1>3. WindowPackets \in Nat \ {0}
  BY ConstantsAssumption
<1> QED BY <1>1, <1>2, <1>3, FirstNonempty DEF Missing, First

\* What a window does to the packets counted, whichever program sends it.
Counts ==
  /\ received \subseteq received' /\ received' \subseteq received \cup Selected
  /\ heard \subseteq heard' /\ heard' \subseteq heard \cup Selected
  /\ faded' \in BOOLEAN /\ (faded => faded')
  /\ hello >= 3 /\ (program = "bc" \/ ~faded') => received' \ received \subseteq heard'
  /\ trouble' \in BOOLEAN /\ (trouble => trouble')
  /\ ~trouble' /\ hello >= 3 => received' = received \cup Selected

\* A score that is not below the calibrated one passes.
LEMMA GoodScore ==
  ASSUME NEW s \in Nat, NEW h \in Nat, hello = h, h >= 3, s >= h
  PROVE  HandshakePasses(s) /\ DataPasses(s) /\ FinPasses(s)
BY DEF HandshakePasses, DataPasses, FinPasses

\* Scores are natural numbers.
LEMMA CaptureScores == Capture \in SUBSET Nat
BY ConstantsAssumption DEF Capture

\* What a window may do to the packets counted.
LEMMA WindowCounts ==
  ASSUME TypeOK, SendWindow \/ SendWindowEach
  PROVE  Counts /\ AfterWindow /\ program' = program
<1>0. hello \in Nat /\ trouble \in BOOLEAN /\ faded \in BOOLEAN
  BY ConstantsAssumption DEF TypeOK
<1>1. ASSUME NEW score \in [Selected -> Capture], Show(score)
      PROVE  /\ heard \subseteq heard' /\ heard' \subseteq heard \cup Selected
             /\ faded' \in BOOLEAN /\ (faded => faded')
             /\ {p \in Selected : DataPasses(score[p])} \subseteq heard'
             /\ hello >= 3 /\ ~faded' => Selected \subseteq heard'
  <2>1. ASSUME hello >= 3, ~faded', NEW p \in Selected PROVE DataPasses(score[p])
    <3>1. score[p] \in Nat /\ ~(score[p] < hello)
      BY <1>1, <2>1, CaptureScores DEF Show
    <3> QED BY <1>0, <2>1, <3>1, GoodScore
  <2>2. faded' \in BOOLEAN /\ (faded => faded')
    BY <1>0, <1>1 DEF Show
  <2> QED BY <1>1, <2>1, <2>2 DEF Show
<1>2. CASE SendWindow
  <2>1. PICK whole \in Capture, score \in [Selected -> Capture] :
          /\ IF DataPasses(whole) THEN CountAll ELSE CountEach(score)
          /\ Show(score)
          /\ trouble' = (trouble \/ whole < hello)
    BY <1>2 DEF SendWindow
  <2>2. program # "bc" /\ AfterWindow /\ whole \in Nat
    BY <1>2, CaptureScores DEF SendWindow
  <2>3. hello >= 3 /\ ~(whole < hello) => DataPasses(whole)
    BY <1>0, <2>2, GoodScore
  <2>4. /\ heard \subseteq heard' /\ heard' \subseteq heard \cup Selected
        /\ faded' \in BOOLEAN /\ (faded => faded')
        /\ hello >= 3 /\ ~faded' => Selected \subseteq heard'
    BY <1>1, <2>1
  <2>5. received \subseteq received' /\ received' \subseteq received \cup Selected
    BY <2>1 DEF CountAll, CountEach
  <2>6. /\ trouble' \in BOOLEAN /\ (trouble => trouble')
        /\ ~trouble' /\ hello >= 3 => received' = received \cup Selected
    BY <1>0, <2>1, <2>3 DEF CountAll
  <2> QED BY <2>2, <2>4, <2>5, <2>6 DEF AfterWindow, Counts
<1>3. CASE SendWindowEach
  <2>1. PICK score \in [Selected -> Capture] :
          /\ CountEach(score)
          /\ Show(score)
          /\ trouble' = (trouble \/ \E p \in Selected : score[p] < hello)
    BY <1>3 DEF SendWindowEach
  <2>2. program = "bc" /\ AfterWindow
    BY <1>3 DEF SendWindowEach
  <2>3. /\ heard \subseteq heard' /\ heard' \subseteq heard \cup Selected
        /\ faded' \in BOOLEAN /\ (faded => faded')
        /\ received' \ received \subseteq heard'
    BY <1>1, <2>1 DEF CountEach
  <2>4. ASSUME hello >= 3, ~trouble', NEW p \in Selected
        PROVE  DataPasses(score[p])
    <3>1. score[p] \in Nat /\ ~(score[p] < hello)
      BY <2>1, <2>4, CaptureScores
    <3> QED BY <1>0, <2>4, <3>1, GoodScore
  <2>5. ~trouble' /\ hello >= 3 => received' = received \cup Selected
    BY <2>1, <2>4 DEF CountEach
  <2>6. trouble' \in BOOLEAN /\ (trouble => trouble')
    BY <1>0, <2>1
  <2>7. received \subseteq received' /\ received' \subseteq received \cup Selected
    BY <2>1 DEF CountEach
  <2> QED BY <2>2, <2>3, <2>5, <2>6, <2>7 DEF Counts, AfterWindow
<1> QED BY <1>2, <1>3

-----------------------------------------------------------------------------
(* Every step keeps the invariant.                                         *)

\* The session begins in the invariant.
LEMMA InvInit == Init => IInv
<1> SUFFICES ASSUME Init PROVE IInv
  OBVIOUS
<1> USE DEF Init
<1>1. TypeOK
  <2>1. (retries \in 0 .. MaxRetries + 1 /\ windows \in Nat /\ finTries \in 0 .. FinTries)
    BY ConstantsAssumption DEF FinTries
  <2>2. (/\ gain \in 0 .. Candidates /\ probe \in 1 .. Candidates + 1
         /\ best \in 0 .. Candidates /\ hello \in Scores \cup {0})
    BY ConstantsAssumption
  <2>3. (attempt \in 1 .. SessionRetries)
    BY ConstantsAssumption
  <2> QED BY <2>1, <2>2, <2>3 DEF TypeOK
<1>2. FlowInv
  BY DEF FlowInv, Linked, Complete
<1>3. BudgetInv
  <2>1. Cardinality(received) = 0 /\ MaxRetries \in Nat
    BY FS_EmptySet, ConstantsAssumption
  <2> QED BY <2>1 DEF BudgetInv
<1>4. BestGainUsed /\ TroubleInv /\ CountedWereDetected
  BY DEF BestGainUsed, TroubleInv, RaisedForAReason, CountedWereDetected, DetectedOnly
<1> QED BY <1>1, <1>2, <1>3, <1>4 DEF IInv

\* A new attempt keeps the invariant.
LEMMA InvConnect == ASSUME IInv, Connect PROVE IInv'
<1> USE DEF IInv, Connect, FreshLocals, fileVars
<1>1. TypeOK'
  <2>1. (retries \in 0 .. MaxRetries + 1 /\ windows \in Nat /\ finTries \in 0 .. FinTries)'
    BY ConstantsAssumption DEF FinTries, TypeOK
  <2>2. (/\ gain \in 0 .. Candidates /\ probe \in 1 .. Candidates + 1
         /\ best \in 0 .. Candidates /\ hello \in Scores \cup {0})'
    BY ConstantsAssumption DEF TypeOK
  <2>3. (attempt \in 1 .. SessionRetries)'
    BY ConstantsAssumption DEF TypeOK
  <2> QED BY <2>1, <2>2, <2>3 DEF TypeOK
<1>2. FlowInv'
  BY DEF FlowInv, Linked, Complete
<1>3. BudgetInv'
  <2>1. Cardinality(received') = 0 /\ MaxRetries \in Nat
    BY FS_EmptySet, ConstantsAssumption
  <2> QED BY <2>1 DEF BudgetInv
<1>4. BestGainUsed' /\ TroubleInv' /\ CountedWereDetected'
  BY DEF BestGainUsed, TroubleInv, RaisedForAReason, CountedWereDetected, DetectedOnly
<1> QED BY <1>1, <1>2, <1>3, <1>4

\* So does a radio call that raises.
LEMMA InvRaise == ASSUME IInv, ConnectFails \/ RadioFails PROVE IInv'
<1> USE DEF IInv, ConnectFails, RadioFails, radioVars, calVars, dataVars, fileVars
<1>1. TypeOK'
  BY DEF TypeOK
<1>2. FlowInv'
  BY DEF FlowInv, Linked, Complete
<1>3. BudgetInv'
  BY DEF BudgetInv, Packets
<1>4. BestGainUsed' /\ TroubleInv' /\ CountedWereDetected'
  BY DEF BestGainUsed, TroubleInv, RaisedForAReason, CountedWereDetected, DetectedOnly
<1> QED BY <1>1, <1>2, <1>3, <1>4

\* So does the calibration.
LEMMA InvCalibration == ASSUME IInv, Probe \/ Calibrated PROVE IInv'
<1> USE DEF IInv, dataVars, fileVars, calVars
<1>1. CASE Probe
  <2> USE <1>1 DEF Probe
  <2>1. TypeOK'
    BY ConstantsAssumption DEF TypeOK
  <2>2. FlowInv'
    BY DEF FlowInv, Linked, Complete
  <2>3. BudgetInv'
    BY DEF BudgetInv, Packets
  <2>4. BestGainUsed' /\ TroubleInv' /\ CountedWereDetected'
    BY DEF BestGainUsed, TroubleInv, RaisedForAReason, CountedWereDetected, DetectedOnly
  <2> QED BY <2>1, <2>2, <2>3, <2>4
<1>2. CASE Calibrated
  <2> USE <1>2 DEF Calibrated, SetBestGain
  <2>1. TypeOK'
    BY DEF TypeOK
  <2>2. FlowInv'
    BY DEF FlowInv, Linked, Complete
  <2>3. BudgetInv'
    BY DEF BudgetInv, Packets
  <2>4. BestGainUsed' /\ TroubleInv' /\ CountedWereDetected'
    <3>1. hello \in Nat
      BY ConstantsAssumption DEF TypeOK
    <3> QED BY <3>1 DEF BestGainUsed, TroubleInv, BudgetInv, RaisedForAReason, CountedWereDetected, DetectedOnly
  <2> QED BY <2>1, <2>2, <2>3, <2>4
<1> QED BY <1>1, <1>2

\* So does the handshake.
LEMMA InvHandshake == ASSUME IInv, Handshake PROVE IInv'
<1> USE DEF IInv, Handshake, dataVars, fileVars, calVars
<1>0. hello \in Nat /\ retries \in Nat /\ trouble \in BOOLEAN
  BY ConstantsAssumption DEF TypeOK
<1>1. TypeOK'
  BY DEF TypeOK
<1>2. FlowInv'
  BY DEF FlowInv, Linked, Complete
<1>3. BudgetInv'
  BY <1>0 DEF BudgetInv, Packets
<1>4. BestGainUsed' /\ CountedWereDetected'
  BY DEF BestGainUsed, CountedWereDetected, DetectedOnly
<1>5. TroubleInv'
  <2>1. PICK s \in Capture : /\ pc' = IF HandshakePasses(s) THEN "window" ELSE "raised"
                             /\ trouble' = (trouble \/ s < hello)
    OBVIOUS
  <2>2. s \in Nat /\ hello >= 3
    BY CaptureScores DEF BestGainUsed
  <2>3. s >= hello => HandshakePasses(s)
    BY <1>0, <2>2, GoodScore
  <2>4. CASE s < hello
    BY <1>0, <2>1, <2>4 DEF TroubleInv, RaisedForAReason
  <2>5. CASE ~(s < hello)
    <3>1. s >= hello
      BY <1>0, <2>2, <2>5
    <3> QED BY <1>0, <2>1, <2>3, <3>1 DEF TroubleInv, BudgetInv, RaisedForAReason
  <2> QED BY <2>4, <2>5
<1> QED BY <1>1, <1>2, <1>3, <1>4, <1>5

\* A window that brought something pays for all the fruitless ones before it.
LEMMA BudgetStep ==
  ASSUME NEW m \in Nat, NEW w \in Nat, NEW r \in 0 .. m, NEW c \in Nat, NEW d \in Nat,
         w <= (m + 1) * c + r, c + 1 <= d
  PROVE  w + 1 <= (m + 1) * d
<1>1. (m + 1) * (c + 1) = (m + 1) * c + (m + 1)
  OBVIOUS
<1>2. (m + 1) * (c + 1) <= (m + 1) * d
  OBVIOUS
<1>3. (m + 1) * c \in Nat /\ (m + 1) * d \in Nat
  OBVIOUS
<1> QED BY <1>1, <1>2, <1>3

\* So does a window, in each of the three programs.
LEMMA InvWindow == ASSUME IInv, SendWindow \/ SendWindowEach PROVE IInv'
<1> USE DEF IInv
<1>1. Counts /\ AfterWindow /\ program' = program
  BY WindowCounts
<1>2. received \subseteq Packets
  BY DEF TypeOK
<1>3. Selected \subseteq Packets /\ Selected # {} /\ Selected \cap received = {}
  BY <1>1, <1>2, SelectedPackets DEF AfterWindow, Missing
<1>4. MaxRetries \in Nat /\ hello \in Nat /\ retries \in 0 .. MaxRetries /\ windows \in Nat
  BY <1>1, ConstantsAssumption DEF TypeOK, BudgetInv, AfterWindow
<1>5. received' \subseteq Packets /\ (received' # received => received' # {})
  BY <1>1, <1>2, <1>3 DEF Counts
<1>6. retries' = IF received' # received THEN 0 ELSE retries + 1
  BY <1>1 DEF AfterWindow, NextRetries
<1>7. TypeOK'
  <2>1. retries' \in 0 .. MaxRetries + 1 /\ windows' \in Nat
    BY <1>1, <1>4, <1>6 DEF AfterWindow
  <2>2. (received \subseteq Packets /\ heard \subseteq Packets /\ faded \in BOOLEAN)'
    BY <1>1, <1>3, <1>5 DEF Counts, TypeOK, Packets
  <2>3. (trouble \in BOOLEAN)'
    BY <1>1 DEF Counts
  <2> QED BY <1>1, <2>1, <2>2, <2>3 DEF AfterWindow, calVars, fileVars, TypeOK
<1>8. FlowInv'
  BY <1>1 DEF AfterWindow, FlowInv, Linked, Complete, calVars, fileVars
<1>9. BudgetInv'
  <2>1. windows' <= (MaxRetries + 1) * Cardinality(received') + retries'
    <3>1. CASE received' # received
      <4>1. /\ Cardinality(received) \in Nat /\ Cardinality(received') \in Nat
            /\ Cardinality(received) + 1 <= Cardinality(received')
        BY <1>1, <1>5, <3>1, PacketSets, StrictlyMore DEF Counts
      <4>2. windows + 1 <= (MaxRetries + 1) * Cardinality(received')
        BY <1>4, <4>1, BudgetStep DEF BudgetInv
      <4> QED BY <1>1, <1>4, <1>6, <3>1, <4>1, <4>2 DEF AfterWindow
    <3>2. CASE received' = received
      <4>1. Cardinality(received) \in Nat
        BY <1>2, PacketSets
      <4>2. (MaxRetries + 1) * Cardinality(received) \in Nat
        BY <1>4, <4>1
      <4> QED BY <1>1, <1>4, <1>6, <3>2, <4>2 DEF AfterWindow, BudgetInv
    <3> QED BY <3>1, <3>2
  <2>2. pc' = "window" => retries' <= MaxRetries
    BY <1>1, <1>4, <1>6 DEF AfterWindow
  <2>3. received' = Packets => retries' = 0
    BY <1>1, <1>6 DEF AfterWindow
  <2> QED BY <1>1, <2>1, <2>2, <2>3 DEF AfterWindow, BudgetInv, Packets
<1>10. BestGainUsed' /\ CountedWereDetected'
  BY <1>1 DEF AfterWindow, Counts, calVars, BestGainUsed, CountedWereDetected, DetectedOnly
<1>11. TroubleInv'
  <2>1. ~trouble' => retries' = 0
    BY <1>1, <1>3, <1>6 DEF AfterWindow, Counts, BestGainUsed
  <2>2. windows' > 0
    BY <1>1, <1>4 DEF AfterWindow
  <2> QED BY <1>1, <1>4, <2>1, <2>2 DEF AfterWindow, TroubleInv, RaisedForAReason
<1> QED BY <1>7, <1>8, <1>9, <1>10, <1>11

\* So does FIN.
LEMMA InvFin == ASSUME IInv, WindowsDone \/ SendFin PROVE IInv'
<1> USE DEF IInv, dataVars, fileVars, calVars, radioVars
<1>0. /\ hello \in Nat /\ retries \in Nat /\ trouble \in BOOLEAN /\ finTries \in 0 .. 5
      /\ MaxRetries \in Nat
  BY ConstantsAssumption DEF TypeOK, FinTries
<1>1. CASE WindowsDone
  <2> USE <1>1 DEF WindowsDone, AllReceived
  <2>1. TypeOK'
    BY DEF TypeOK
  <2>2. FlowInv'
    BY DEF FlowInv, Linked, Complete, Packets, FinTries
  <2>3. BudgetInv'
    BY DEF BudgetInv, Packets
  <2>4. BestGainUsed' /\ TroubleInv' /\ CountedWereDetected'
    BY DEF BestGainUsed, TroubleInv, RaisedForAReason, CountedWereDetected, DetectedOnly
  <2> QED BY <2>1, <2>2, <2>3, <2>4
<1>2. CASE SendFin
  <2> USE <1>2 DEF SendFin
  <2>1. PICK s \in Capture :
          /\ pc' = IF FinPasses(s) THEN "save" ELSE IF finTries' = FinTries THEN "raised" ELSE "fin"
          /\ trouble' = (trouble \/ s < hello)
    OBVIOUS
  <2>2. s \in Nat /\ hello >= 3
    BY CaptureScores DEF BestGainUsed
  <2>3. pc' \in {"save", "raised", "fin"} /\ trouble' \in BOOLEAN /\ (trouble => trouble')
    BY <1>0, <2>1
  <2>4. finTries' = finTries + 1 /\ finTries < 5 /\ (pc' = "fin" => finTries' # 5)
    BY <1>0, <2>1 DEF FlowInv, FinTries
  <2>5. TypeOK'
    <3>1. finTries' \in 0 .. FinTries
      BY <1>0, <2>4 DEF FinTries
    <3> QED BY <2>3, <3>1 DEF TypeOK
  <2>6. FlowInv'
    <3>1. pc' = "fin" => finTries' < FinTries
      BY <1>0, <2>4 DEF FinTries
    <3> QED BY <2>3, <3>1 DEF FlowInv, Linked, Complete, Packets
  <2>7. BudgetInv'
    BY <2>3 DEF BudgetInv, Packets
  <2>8. BestGainUsed' /\ CountedWereDetected'
    BY <2>3 DEF BestGainUsed, CountedWereDetected, DetectedOnly
  <2>9. TroubleInv'
    <3>1. CASE s < hello
      BY <1>0, <2>1, <2>3, <3>1 DEF TroubleInv, RaisedForAReason
    <3>2. CASE ~(s < hello)
      <4>1. FinPasses(s)
        BY <1>0, <2>2, <3>2, GoodScore
      <4> QED BY <2>1, <4>1 DEF TroubleInv, RaisedForAReason
    <3> QED BY <3>1, <3>2
  <2> QED BY <2>5, <2>6, <2>7, <2>8, <2>9
<1> QED BY <1>1, <1>2

\* So do the file, the statistics and the report.
LEMMA InvFile ==
  ASSUME IInv, Save \/ SaveFails \/ WriteReport \/ StatsFail
  PROVE  IInv'
<1> USE DEF IInv, Save, SaveFails, WriteReport, StatsFail, Truncated,
            dataVars, fileVars, calVars, radioVars
<1>1. TypeOK'
  BY DEF TypeOK
<1>2. FlowInv'
  BY DEF FlowInv, Linked, Complete, Packets
<1>3. BudgetInv'
  BY DEF BudgetInv, Packets
<1>4. BestGainUsed' /\ CountedWereDetected'
  BY DEF BestGainUsed, CountedWereDetected, DetectedOnly
<1>5. TroubleInv'
  <2>1. CASE StatsFail
    <3>1. PacketCount > 0 => windows > 0
      BY <2>1, PacketSets DEF FlowInv, Complete, TroubleInv
    <3> QED BY <2>1, <3>1 DEF TroubleInv, RaisedForAReason
  <2>2. CASE Save \/ SaveFails \/ WriteReport
    BY <2>2 DEF TroubleInv, RaisedForAReason
  <2> QED BY <2>1, <2>2
<1> QED BY <1>1, <1>2, <1>3, <1>4, <1>5

\* So does the end of an attempt.
LEMMA InvLeave == ASSUME IInv, Retry \/ Return \/ MainReturns PROVE IInv'
<1> USE DEF IInv, Retry, Return, MainReturns, CloseRadio, CountAttempt, dataVars, fileVars, calVars
<1>1. TypeOK'
  <2>1. attempt' \in 1 .. SessionRetries
    BY ConstantsAssumption DEF TypeOK
  <2> QED BY <2>1 DEF TypeOK
<1>2. FlowInv'
  BY DEF FlowInv, Linked, Complete
<1>3. BudgetInv'
  BY DEF BudgetInv, Packets
<1>4. BestGainUsed' /\ TroubleInv' /\ CountedWereDetected'
  BY DEF BestGainUsed, TroubleInv, RaisedForAReason, CountedWereDetected, DetectedOnly
<1> QED BY <1>1, <1>2, <1>3, <1>4

\* And so does standing still.
LEMMA InvStutter == ASSUME IInv, UNCHANGED vars PROVE IInv'
<1> USE DEF IInv, vars, dataVars, fileVars, calVars, radioVars
<1>1. TypeOK'
  BY DEF TypeOK
<1>2. FlowInv' /\ BudgetInv'
  BY DEF FlowInv, BudgetInv, Linked, Complete, Packets
<1>3. BestGainUsed' /\ TroubleInv' /\ CountedWereDetected'
  BY DEF BestGainUsed, TroubleInv, RaisedForAReason, CountedWereDetected, DetectedOnly
<1> QED BY <1>1, <1>2, <1>3

\* The invariant holds in every reachable state.
LEMMA Invariance == Spec => []IInv
<1>1. IInv /\ [Next]_vars => IInv'
  BY InvConnect, InvRaise, InvCalibration, InvHandshake, InvWindow, InvFin, InvFile, InvLeave,
     InvStutter DEF Next, Session, Ended
<1> QED BY <1>1, InvInit, PTL DEF Spec

-----------------------------------------------------------------------------
(* The properties.                                                         *)

\* Every variable keeps its type: attempts stay within session_retries, gains
\* within the candidates, the retry counter passes its limit by one at most.
THEOREM TypeCorrect == Spec => []TypeOK
<1>1. IInv => TypeOK
  BY DEF IInv
<1> QED BY <1>1, Invariance, PTL

\* max_retries bounds the windows of an attempt by the packets received,
\* although each progress of the window loop resets the counter, and the
\* retries of the report are always zero.
THEOREM WindowsAreBudgeted == Spec => []WindowBudget
<1>1. IInv => WindowBudget
  BY ConstantsAssumption DEF IInv, FlowInv, BudgetInv, Complete, WindowBudget
<1> QED BY <1>1, Invariance, PTL

\* auto_calibrate leaves the best candidate's gains set, and nothing is sent
\* with a score below 3.0.
THEOREM BestGainIsUsed == Spec => []BestGainUsed
<1>1. IInv => BestGainUsed
  BY DEF IInv
<1> QED BY <1>1, Invariance, PTL

\* The three thresholds are none above the calibrated score, and one
\* good window always helps: without a fault nothing makes transfer_file raise.
THEOREM NothingRaisedInVain == Spec => []RaisedForAReason
<1>1. IInv => RaisedForAReason
  BY DEF IInv, TroubleInv
<1> QED BY <1>1, Invariance, PTL

\* As long as no packet came out worse than the calibration, and in bc.py on any
\* link, a packet is counted only if a capture of this attempt showed it well
\* enough to detect it, the shortcut by the score of the whole window included.
THEOREM CountsAreDetections == Spec => []CountedWereDetected
<1>1. IInv => CountedWereDetected
  BY DEF IInv
<1> QED BY <1>1, Invariance, PTL

-----------------------------------------------------------------------------
(* The loop of attempts.                                                   *)

\* The session begins as AttemptLoop does.
LEMMA AttemptsInit == Init => Attempts!AInit
BY PacketSets DEF Init, Attempts!AInit

\* Every step is one of AttemptLoop or a stutter.
LEMMA AttemptsStep ==
  ASSUME IInv, [Next]_vars
  PROVE  [Attempts!AStep]_(Attempts!attemptVars)
<1> USE DEF IInv, FlowInv, Linked, Complete, Attempts!AStep, Attempts!attemptVars,
            dataVars, fileVars, calVars, radioVars
<1>1. CASE Connect
  BY <1>1, PacketSets DEF Connect, FreshLocals, Attempts!Begin, Packets
<1>2. CASE SendWindow \/ SendWindowEach
  <2>1. AfterWindow
    BY <1>2, WindowCounts
  <2> QED BY <2>1 DEF AfterWindow, Attempts!Work, Packets
<1>3. CASE Save \/ SaveFails
  BY <1>3 DEF Save, SaveFails, Attempts!WriteFile, Packets
<1>4. CASE StatsFail
  <2>1. /\ radio = "open" /\ onAir' = onAir /\ radio' = radio /\ verdict = "none"
        /\ received = Packets /\ received' = Packets'
        /\ pc' = "raised" /\ UNCHANGED <<attempt, output, verdict>>
    BY <1>4 DEF StatsFail, Packets
  <2> QED BY <2>1 DEF Attempts!Work
<1>5. CASE Retry
  <2>1. attempt < SessionRetries \/ attempt = SessionRetries
    BY ConstantsAssumption DEF TypeOK
  <2> QED BY <1>5, <2>1 DEF Retry, CloseRadio, CountAttempt, Attempts!TryAgain, Attempts!GiveUp,
                            Attempts!Release, Packets
<1>6. CASE Return \/ MainReturns
  BY <1>6 DEF Return, MainReturns, CloseRadio, Attempts!Succeed, Attempts!Release, Packets
<1>7. CASE \/ ConnectFails \/ RadioFails \/ Probe \/ Calibrated \/ Handshake \/ WindowsDone
           \/ SendFin \/ WriteReport
  BY <1>7 DEF ConnectFails, RadioFails, Probe, Calibrated, Handshake, WindowsDone, SendFin,
              WriteReport, Packets
<1>8. CASE Ended \/ UNCHANGED vars
  BY <1>8 DEF Ended, vars, Packets
<1> QED BY <1>1, <1>2, <1>3, <1>4, <1>5, <1>6, <1>7, <1>8 DEF Next, Session

\* All three programs implement AttemptLoop: wherever an attempt raises, the
\* radio is released and the counts are forgotten before the next one, the
\* output is touched only with every packet counted, and success is announced
\* only over the file this attempt has written.
THEOREM AttemptsImplemented == Spec => ImplementsAttempts
<1>1. IInv /\ [Next]_vars => [Attempts!AStep]_(Attempts!attemptVars)
  BY AttemptsStep
<1> QED BY <1>1, AttemptsInit, Invariance, PTL DEF Spec, ImplementsAttempts, Attempts!Safe

-----------------------------------------------------------------------------
(* A file of no bytes.                                                     *)

EmptyInv == windows = 0 /\ ~reported /\ pc # "returned" /\ verdict # "ok"

\* A file of no bytes is sent by a call that fails: no window is ever sent for
\* it, so the air bit rate has nothing to divide by, no report is written and
\* neither program returns success, although the output may have been written
\* in every attempt.
THEOREM EmptyFileNeverReported ==
  ASSUME PacketCount = 0 PROVE Spec => [](~reported /\ verdict # "ok")
<1>1. Init => EmptyInv
  BY DEF Init, EmptyInv
<1>2. ASSUME IInv, EmptyInv, [Next]_vars PROVE EmptyInv'
  <2> USE DEF EmptyInv, radioVars, calVars, dataVars, fileVars
  <2>1. CASE SendWindow \/ SendWindowEach
    <3>1. Packets = {}
      BY DEF Packets
    <3>2. received = Packets
      BY <1>2, <3>1 DEF IInv, TypeOK
    <3> QED BY <2>1, <3>2 DEF SendWindow, SendWindowEach, AfterWindow
  <2>2. CASE WriteReport \/ Return \/ MainReturns
    BY <1>2, <2>2 DEF WriteReport, Return, MainReturns
  <2>3. CASE \/ Connect \/ ConnectFails \/ RadioFails \/ Probe \/ Calibrated \/ Handshake
    BY <1>2, <2>3 DEF Connect, FreshLocals, ConnectFails, RadioFails, Probe, Calibrated,
                      Handshake
  <2>4. CASE WindowsDone \/ SendFin \/ Save \/ SaveFails \/ StatsFail \/ Retry
    BY <1>2, <2>4 DEF WindowsDone, SendFin, Save, SaveFails, StatsFail, Retry
  <2>5. CASE Ended \/ UNCHANGED vars
    BY <1>2, <2>5 DEF Ended, vars
  <2> QED BY <1>2, <2>1, <2>2, <2>3, <2>4, <2>5 DEF Next, Session
<1>3. EmptyInv => ~reported /\ verdict # "ok"
  BY DEF EmptyInv
<1> QED BY Invariance, <1>1, <1>2, <1>3, PTL DEF Spec
=============================================================================
