------------------------------ MODULE PlutoRF ------------------------------
(***************************************************************************)
(* PlutoRFTransferEngine.send_file (optimized_transfer/pluto_rf.py): the   *)
(* frames of the streaming protocol as RF packets of one Pluto, which      *)
(* sends batches in a cyclic buffer, captures, and decodes what it can.    *)
(* (RFReceiverThread of the same file is not used by it.)                  *)
(*                                                                         *)
(* The modem is abstract but for one number: how many samples a packet     *)
(* takes, because a capture decodes only packets it holds completely.      *)
(***************************************************************************)
EXTENDS RadioCapture, FiniteSets

CONSTANTS
  FileBytes, FrameBytes,  \* len(payload), frame_payload_bytes
  RxBufferSize,           \* samples of one capture
  BatchLimit,             \* batch_packet_limit
  SessionRetries,
  Faults                  \* see FaultKinds

\* "radio": an SDR call raises, or the warm-up hears nothing.  "disk": mkdir or
\* write_bytes raises.  "weak": the calibration misses the threshold.
FaultKinds == {"radio", "disk", "weak"}

\* The header of a packet has 16 bits for its payload's length and for the
\* number of packets; encode_packet raises struct.error for more.
FieldLimit == 2^16 - 1

ASSUME ConstantsAssumption ==
  /\ FileBytes \in Nat /\ RxBufferSize \in Nat \ {0}
  /\ FrameBytes \in Nat \ {0} /\ BatchLimit \in Nat \ {0} /\ SessionRetries \in Nat \ {0}
  /\ FrameBytes + 24 <= FieldLimit /\ CeilDiv(FileBytes, FrameBytes) <= FieldLimit
  /\ Faults \subseteq FaultKinds

VARIABLES
  pc, attempt,
  device,     \* "open" while driver.tx_sdr is set
  gains,      \* "scenario" or "calibrated"
  next,       \* next_sequence
  inflight,   \* keys of inflight
  selected,   \* the batch on the air
  acked,      \* ack_bitmap, and the keys of chunks
  output, verdict

frameVars == <<next, inflight, selected, acked>>
vars == <<pc, attempt, device, gains, frameVars, output, verdict>>

TotalFrames == CeilDiv(FileBytes, FrameBytes)
Frames == 0 .. TotalFrames - 1

-----------------------------------------------------------------------------
(* Which packets a capture can hold.                                       *)

\* Header of FrameCodec, and the bytes of the chunk.
PacketBytes(s) ==
  24 + (IF s < TotalFrames - 1 THEN FrameBytes ELSE FileBytes - s * FrameBytes)

\* Those decoded at the best of phases (HeldAtSomePhase in PlutoRFProofs).
Audible ==
  {s \in Frames :
    DecodedSamples(PacketBytes(s), "qpsk") <= CaptureSamples(RxBufferSize, RxBufferSize)}
-----------------------------------------------------------------------------

Truncated == IF FileBytes = 0 THEN "payload" ELSE "partial"

Init ==
  /\ pc = "connect" /\ attempt = 1 /\ device = "closed" /\ gains = "scenario"
  /\ next = 0 /\ inflight = {} /\ selected = {} /\ acked = {}
  /\ output \in {"absent", "other", "payload"} /\ verdict = "none"

FreshLocals == next' = 0 /\ inflight' = {} /\ selected' = {} /\ acked' = {}

\* connect and warmup_link.
Connect ==
  /\ pc = "connect"
  /\ FreshLocals
  /\ \/ pc' = "calibrate" /\ device' = "open"
     \/ "radio" \in Faults /\ pc' = "raised" /\ device' \in {"closed", "open"}
  /\ gains' = "scenario"
  /\ UNCHANGED <<attempt, output, verdict>>

\* Any exception of the calibration is swallowed: the scenario's gains are
\* set again.  The HELLO that follows is not listened for.
Calibrate ==
  /\ pc = "calibrate"
  /\ pc' = "data"
  /\ \/ gains' = "calibrated"
     \/ Faults \cap {"weak", "radio"} # {} /\ gains' = "scenario"
  /\ UNCHANGED <<attempt, device, frameVars, output, verdict>>

RadioFails ==
  /\ "radio" \in Faults
  /\ pc \in {"calibrate", "data", "capture", "fin"}
  /\ pc' = "raised"
  /\ UNCHANGED <<attempt, device, gains, frameVars, output, verdict>>

-----------------------------------------------------------------------------
(* The data loop.                                                          *)

FirstOnes(S) == {s \in S : Cardinality({t \in S : t < s}) < BatchLimit}
Missing == Frames \ acked

Pruned == inflight \ acked

RoomForBatch(kept) == BatchLimit                                       \* mutant
Room(kept) == BatchLimit - Cardinality(kept)

NewFramesUnbounded(kept) == next .. next + Room(kept) - 1               \* mutant
\* New frames while there is room in the window, otherwise missing ones again.
NewFrames(kept) == {s \in Frames : next <= s /\ s < next + Room(kept)}
AnyFrames == FirstOnes(Frames)                                         \* mutant
ResentFrames == FirstOnes(Missing)

SendBatch ==
  /\ pc = "data" /\ Missing # {}
  /\ selected' = IF NewFrames(Pruned) # {} THEN NewFrames(Pruned) ELSE ResentFrames
  /\ next' = next + Cardinality(NewFrames(Pruned))
  /\ inflight' = Pruned \cup selected'
  /\ pc' = IF selected' = {} THEN "data" ELSE "capture"
  /\ UNCHANGED <<attempt, device, gains, acked, output, verdict>>

\* What comes out of capture and decode_packets: frames sent in this attempt,
\* those of an earlier batch if the radio's buffers still hold them.
Capture ==
  /\ pc = "capture"
  /\ \E heard \in SUBSET (Audible \cap 0 .. next - 1) : acked' = acked \cup heard
  /\ pc' = "data"
  /\ UNCHANGED <<attempt, device, gains, next, inflight, selected, output, verdict>>

AllAcked == acked = Frames

SendFin ==
  /\ pc = "data" /\ AllAcked
  /\ pc' = "fin"
  /\ UNCHANGED <<attempt, device, gains, frameVars, output, verdict>>

-----------------------------------------------------------------------------
(* The end of an attempt.                                                  *)

\* The digest is compared after the file is written, and is that of the
\* chunks the CRC of each packet has passed.
Save ==
  /\ pc = "fin"
  /\ \/ output' = "payload" /\ pc' = "returned"
     \/ "disk" \in Faults /\ output' \in {output, Truncated} /\ pc' = "raised"
  /\ UNCHANGED <<attempt, device, gains, frameVars, verdict>>

LeaveDriverOpen == UNCHANGED device                                     \* mutant
CloseDriver == device' = "closed"

SameAttempt == UNCHANGED attempt                                       \* mutant
CountAttempt == attempt' = attempt + 1

Retry ==
  /\ pc = "raised"
  /\ CloseDriver
  /\ IF attempt < SessionRetries
     THEN CountAttempt /\ pc' = "connect" /\ UNCHANGED verdict
     ELSE UNCHANGED attempt /\ pc' = "done" /\ verdict' = "failed"
  /\ UNCHANGED <<gains, frameVars, output>>

Return ==
  /\ pc = "returned"
  /\ CloseDriver
  /\ pc' = "done" /\ verdict' = "ok"
  /\ UNCHANGED <<attempt, gains, frameVars, output>>

Ended == pc = "done" /\ UNCHANGED vars

Session == \/ Connect \/ Calibrate \/ RadioFails \/ SendBatch \/ Capture \/ SendFin
           \/ Save \/ Retry \/ Return
Next == Session \/ Ended

\* A capture that hears a frame of the batch on the air not heard before.
HearNew == Capture /\ (acked' \ acked) \cap selected # {}

\* One thread that goes on; where a batch holds an audible frame, the link
\* does not lose all of them for ever.
Spec == Init /\ [][Next]_vars /\ WF_vars(Session) /\ SF_vars(HearNew)

-----------------------------------------------------------------------------
TypeOK ==
  /\ pc \in {"connect", "calibrate", "data", "capture", "fin", "raised", "returned", "done"}
  /\ attempt \in 1 .. SessionRetries
  /\ device \in {"closed", "open"} /\ gains \in {"scenario", "calibrated"}
  /\ next \in 0 .. TotalFrames
  /\ inflight \subseteq Frames /\ selected \subseteq Frames /\ acked \subseteq Frames
  /\ output \in {"absent", "other", "partial", "payload"}
  /\ verdict \in {"none", "ok", "failed"}

\* The window: of the frames sent, those not heard are exactly those of the
\* dict inflight not heard, and no more than the batch limit.
WindowExact ==
  /\ inflight \ acked = (0 .. next - 1) \ acked
  /\ Cardinality(inflight \ acked) <= BatchLimit

\* A batch on the air is never empty (the sleep-and-continue branch is not
\* taken), within the limit, and made of frames already counted by
\* next_sequence; none had been heard when it was sent.
BatchUseful ==
  /\ pc = "capture" =>
       selected # {} /\ Cardinality(selected) <= BatchLimit /\ selected \cap acked = {}
  /\ selected \subseteq 0 .. next - 1

\* The loop of attempts as AttemptLoop promises it: the driver is closed before
\* the next attempt connects and before the caller goes on, the output is
\* touched only when every frame is acknowledged, and success is announced
\* only over a complete file.
Attempts == INSTANCE AttemptLoop WITH
  MaxAttempts <- SessionRetries,
  Empty <- TotalFrames = 0,
  radio <- device,
  complete <- acked = Frames,
  written <- pc = "returned"
ImplementsAttempts == Attempts!Safe

\* send_file ends: progress is never lost within an attempt, and attempts are
\* bounded.
Ends == <>(verdict # "none")

\* send_file "sends a file over the PlutoSDR on a real RF path": on a link that
\* loses nothing for ever the file arrives.
FileSent == <>(verdict = "ok")
=============================================================================
