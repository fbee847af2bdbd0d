------------------------------ MODULE FastPath ------------------------------
(***************************************************************************)
(* SingleDeviceFastPathAdapter.send_file (optimized_transfer/              *)
(* fastpath_rf.py), the path send_fastpath.py takes: one session with      *)
(* cached gains, sparse validation of the data windows, a window size that *)
(* follows the measured latency, and an optional check of FIN.             *)
(*                                                                         *)
(* A capture either reaches waveform_score_threshold or does not, and a    *)
(* window is fast, slow or in between: both are choices.  Module           *)
(* ValidationCache has the cache file itself, with several sessions.       *)
(***************************************************************************)
EXTENDS Integers, FiniteSets

CONSTANTS
  PacketCount,           \* metadata.packet_count, 0 for an empty file
  ChunkBytes,            \* chunk_size
  MinWindow, MaxWindow,  \* min_window_bytes, max_window_bytes
  FirstWindow,           \* the 960_000 that is clamped to the range
  BatchLimit,            \* batch_packet_limit
  Interval,              \* validation_interval_windows
  SkipFin,               \* skip_fin_validation
  Faults                 \* see FaultKinds

\* "radio": an SDR call raises.  "disk": a file operation raises.  "weak": the
\* calibration, the handshake or the FIN check may miss the threshold.
FaultKinds == {"radio", "disk", "weak"}

\* More packets than the 16 bits of total in a packet's header can say make
\* encode_packet raise struct.error before anything is sent.
PacketLimit == 2^16 - 1

ASSUME ConstantsAssumption ==
  /\ PacketCount \in 0 .. PacketLimit
  /\ ChunkBytes \in Nat \ {0} /\ FirstWindow \in Nat \ {0}
  /\ MinWindow \in Nat \ {0} /\ MaxWindow \in Nat \ {0}
  /\ BatchLimit \in Nat \ {0} /\ Interval \in Nat \ {0}
  /\ MinWindow <= MaxWindow
  /\ SkipFin \in BOOLEAN /\ Faults \subseteq FaultKinds

VARIABLES
  pc,         \* where send_file stands
  radio,      \* "open" while transfer.sdr is set
  cached,     \* the cache file has an entry for this key
  gains,      \* where the gains set last come from
  received,   \* keys of received
  target,     \* target_window_bytes
  index,      \* window_index, of which only the remainder by Interval matters
  lastLength, \* packets in the window stored last
  unchecked,  \* windows stored since one passed validation
  checked,    \* a data window has passed validation
  output,     \* content of output_dir / name
  verdict

windowVars == <<received, target, index, lastLength, unchecked, checked>>
vars == <<pc, radio, cached, gains, windowVars, output, verdict>>

Packets == 0 .. PacketCount - 1
Smaller(a, b) == IF a < b THEN a ELSE b
Larger(a, b) == IF a > b THEN a ELSE b

\* A file of no bytes is complete as soon as it is created.
Truncated == IF PacketCount = 0 THEN "payload" ELSE "partial"

Init ==
  /\ pc = "connect" /\ radio = "closed"
  /\ cached \in BOOLEAN /\ gains = "config"
  /\ received = {} /\ target = Smaller(MaxWindow, Larger(MinWindow, FirstWindow))
  /\ index = 0 /\ lastLength = 0 /\ unchecked = 0 /\ checked = FALSE
  /\ output \in {"absent", "other", "payload"} /\ verdict = "none"

-----------------------------------------------------------------------------
(* Before the data: connect, gains from the cache or a calibration, HELLO. *)

\* connect stands before the try block: when it raises nothing is closed, and
\* nothing has been opened.
Connect ==
  /\ pc = "connect"
  /\ \/ pc' = "gains" /\ radio' = "open" /\ UNCHANGED verdict
     \/ /\ "radio" \in Faults
        /\ pc' = "done" /\ verdict' = "failed" /\ UNCHANGED radio
  /\ UNCHANGED <<cached, gains, windowVars, output>>

UseCache ==
  /\ pc = "gains" /\ cached
  /\ gains' = "cache"
  /\ pc' = "hello"
  /\ UNCHANGED <<radio, cached, windowVars, output, verdict>>

\* auto_calibrate, and ValidationCache.save before any handshake.
Calibrate ==
  /\ pc = "gains" /\ ~cached
  /\ \/ gains' = "calibrated" /\ cached' = TRUE /\ pc' = "hello"
     \/ "weak" \in Faults /\ pc' = "raised" /\ UNCHANGED <<gains, cached>>
     \/ "disk" \in Faults /\ gains' = "calibrated" /\ pc' = "raised" /\ UNCHANGED cached
  /\ UNCHANGED <<radio, windowVars, output, verdict>>

Handshake ==
  /\ pc = "hello"
  /\ \/ pc' = "window"
     \/ "weak" \in Faults /\ pc' = "raised"
  /\ UNCHANGED <<radio, cached, gains, windowVars, output, verdict>>

RadioFails ==
  /\ "radio" \in Faults
  /\ pc \in {"gains", "hello", "window", "capture", "fin"}
  /\ pc' = "raised"
  /\ UNCHANGED <<radio, cached, gains, windowVars, output, verdict>>

-----------------------------------------------------------------------------
(* The window loop.                                                        *)

CeilingWindow(bytes) ==                                                  \* mutant
  Smaller(BatchLimit, (bytes + ChunkBytes - 1) \div ChunkBytes)
WindowPackets(bytes) == Larger(1, Smaller(BatchLimit, Larger(1, bytes \div ChunkBytes)))

Missing == Packets \ received
Selected == {p \in Missing : Cardinality({q \in Missing : q < p}) < WindowPackets(target)}

ValidationDue == index % Interval = 0 \/ Cardinality(Selected) < WindowPackets(target)

CaptureWindow ==
  /\ pc = "window" /\ Missing # {} /\ ValidationDue
  /\ pc' = "capture"
  /\ UNCHANGED <<radio, cached, gains, windowVars, output, verdict>>

NextIndex == (index + 1) % Interval
CountFailedWindow == index' = NextIndex                                  \* mutant
RepeatWindow == UNCHANGED index

\* continue: the same packets are selected again, without a bound on how often.
WindowUnheard ==
  /\ pc = "capture"
  /\ pc' = "window"
  /\ RepeatWindow
  /\ UNCHANGED <<radio, cached, gains, received, target, lastLength, unchecked,
                 checked, output, verdict>>

DoubleUnclamped(speed) ==                                                \* mutant
  IF speed = "slow" THEN target \div 2 ELSE IF speed = "fast" THEN target * 2 ELSE target
NextTarget(speed) ==
  IF speed = "slow" /\ target > MinWindow THEN Larger(MinWindow, target \div 2)
  ELSE IF speed = "fast" /\ target < MaxWindow THEN Smaller(MaxWindow, target * 2)
  ELSE target

ForgetEarlier == received' = Selected                                    \* mutant
KeepSelected == received' = received \cup Selected

StoreWindow ==
  /\ KeepSelected
  /\ lastLength' = Cardinality(Selected)
  /\ \E speed \in {"slow", "medium", "fast"} : target' = NextTarget(speed)
  /\ index' = NextIndex
  /\ pc' = "window"
  /\ UNCHANGED <<radio, cached, gains, output, verdict>>

WindowHeard ==
  /\ pc = "capture"
  /\ unchecked' = 0 /\ checked' = TRUE
  /\ StoreWindow

WindowUnchecked ==
  /\ pc = "window" /\ Missing # {} /\ ~ValidationDue
  /\ unchecked' = unchecked + 1 /\ UNCHANGED checked
  /\ StoreWindow

AllReceived == received = Packets

WindowsDone ==
  /\ pc = "window" /\ AllReceived
  /\ pc' = "fin"
  /\ UNCHANGED <<radio, cached, gains, windowVars, output, verdict>>

SendFin ==
  /\ pc = "fin"
  /\ \/ pc' = "save"
     \/ ~SkipFin /\ "weak" \in Faults /\ pc' = "raised"
  /\ UNCHANGED <<radio, cached, gains, windowVars, output, verdict>>

-----------------------------------------------------------------------------
(* The file and the metrics.  The digest is taken of the source's own      *)
(* chunks, put together again, and cannot differ.                          *)

Save ==
  /\ pc = "save"
  /\ \/ output' = "payload" /\ pc' = "metrics"
     \/ "disk" \in Faults /\ output' \in {output, Truncated} /\ pc' = "raised"
  /\ UNCHANGED <<radio, cached, gains, windowVars, verdict>>

\* The air bit rate divides by the samples of the data windows: none were
\* sent for an empty file.
Metrics ==
  /\ pc = "metrics"
  /\ pc' = IF PacketCount > 0 THEN "returned" ELSE "raised"
  /\ UNCHANGED <<radio, cached, gains, windowVars, output, verdict>>

LeaveRadioOpen == UNCHANGED radio                                         \* mutant
CloseRadio == radio' = "closed"

\* finally: transfer.close()
Finish ==
  /\ pc \in {"returned", "raised"}
  /\ CloseRadio
  /\ verdict' = IF pc = "returned" THEN "ok" ELSE "failed"
  /\ pc' = "done"
  /\ UNCHANGED <<cached, gains, windowVars, output>>

Ended == pc = "done" /\ UNCHANGED vars

Session == \/ Connect \/ UseCache \/ Calibrate \/ Handshake \/ RadioFails
           \/ CaptureWindow \/ WindowUnheard \/ WindowHeard \/ WindowUnchecked \/ WindowsDone
           \/ SendFin \/ Save \/ Metrics \/ Finish
Next == Session \/ Ended

\* One thread that always goes on, on a link that does not fail every
\* validation for ever: nothing in the code ends that loop.
Spec == Init /\ [][Next]_vars /\ WF_vars(Session) /\ SF_vars(WindowHeard)

-----------------------------------------------------------------------------
TypeOK ==
  /\ pc \in {"connect", "gains", "hello", "window", "capture", "fin", "save", "metrics",
             "raised", "returned", "done"}
  /\ radio \in {"open", "closed"} /\ cached \in BOOLEAN
  /\ gains \in {"config", "cache", "calibrated"}
  /\ received \subseteq Packets /\ target \in MinWindow .. MaxWindow
  /\ index \in 0 .. Interval - 1
  /\ lastLength \in 0 .. BatchLimit /\ unchecked \in Nat /\ checked \in BOOLEAN
  /\ output \in {"absent", "other", "partial", "payload"}
  /\ verdict \in {"none", "ok", "failed"}

\* Sparse validation: between two validated windows at most interval - 1
\* windows are taken as received unheard, and nothing at all before the first
\* window has been heard, however many validations fail in between.
SparsenessBounded == unchecked < Interval /\ (received # {} => checked)

\* A window carries no more than max_window_bytes, unless one chunk already
\* is more than that, and no more packets than batch_packet_limit.
WindowFits ==
  lastLength <= BatchLimit /\ lastLength * ChunkBytes <= Larger(ChunkBytes, MaxWindow)

\* The one attempt of AttemptLoop: whichever call raises, the caller finds the
\* radio released, the output is touched only when every packet is counted, and
\* success is announced only over a complete file.
Attempts == INSTANCE AttemptLoop WITH
  MaxAttempts <- 1, attempt <- 1,
  Empty <- PacketCount = 0,
  complete <- received = Packets,
  written <- pc \in {"metrics", "returned"}
ImplementsAttempts == Attempts!Safe

\* send_file ends on a link that goes on passing validations now and then:
\* every window is at least one packet and progress is never taken back.
Ends == <>(verdict # "none")
=============================================================================
