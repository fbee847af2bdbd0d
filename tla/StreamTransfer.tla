--------------------------- MODULE StreamTransfer ---------------------------
(***************************************************************************)
(* One call of HighThroughputTransferEngine.send_file                      *)
(* (optimized_transfer/runtime.py): the sender loop, its ACK listener      *)
(* thread and the receiver process, joined by the two bounded queues of    *)
(* InMemoryTransferLink.                                                   *)
(*                                                                         *)
(* A bitmap is the set of its set indices (module AckBitmap relates the    *)
(* bytes to the set).  Time is not counted: whether a frame is old enough  *)
(* to be sent again, whether a time-driven ACK is due and whether a join   *)
(* times out are choices.  A frame's bytes are its type and sequence.      *)
(***************************************************************************)
EXTENDS Naturals, Sequences, FiniteSets

CONSTANTS
  TotalFrames,    \* len(frames): 0 for an empty file
  QueueDepth,     \* max(rx_queue_depth, tx_queue_depth)
  MaxInflight,    \* pipeline.max_inflight_frames
  AckInterval,    \* pipeline.ack_interval_frames
  Faults          \* what the environment may do, see FaultKinds

\* "loss", "replay": a link given as link_factory drops a frame, or delivers
\* the START frame again; the queues of InMemoryTransferLink do neither.
\* "slow": receiver.join times out.  "disk": mkdir or write_bytes raises.
\* "crash": the receiver process is killed from outside, or ended by the
\* struct.error of an ACK bitmap too long for payload_length.  "oversize":
\* frame_payload_bytes is too large for it, so the first DATA cannot be encoded.
FaultKinds == {"loss", "replay", "slow", "disk", "crash", "oversize"}

ASSUME ConstantsAssumption ==
  /\ TotalFrames \in Nat
  /\ QueueDepth \in Nat \ {0}
  /\ MaxInflight \in Nat \ {0}
  /\ AckInterval \in Nat \ {0}
  /\ Faults \subseteq FaultKinds

VARIABLES
  fwd, bwd,          \* the two queues of the link
  spc,               \* where send_file stands
  next,              \* next_sequence
  inflight,          \* keys of the dict inflight
  snapAcked, snapMissing,   \* the loop's copies returned by snapshot()
  resend,            \* resend_candidates not sent again yet
  verdict,           \* "none", "ok": returned a result, "failed": raised
  acked, missing,    \* AckState, shared by sender and listener
  heard,             \* frame the listener has taken and not merged yet
  listening,         \* the listener thread runs
  stop,              \* stop_event
  rpc,               \* where ReceiverProcess.run stands
  started,           \* manifest is not None
  rcvd,              \* received_bitmap, and the keys of chunks
  fin,               \* fin_digest is not None
  sinceAck,          \* frames_since_ack
  disk               \* content of output_dir / file_name

senderVars == <<spc, next, inflight, snapAcked, snapMissing, resend, verdict>>
ackVars == <<acked, missing>>
listenerVars == <<heard, listening>>
receiverVars == <<rpc, started, rcvd, fin, sinceAck>>
vars == <<fwd, bwd, senderVars, ackVars, listenerVars, stop, receiverVars, disk>>

Frames == 0 .. TotalFrames - 1

Start == [type |-> "START", seq |-> 0]
Data(s) == [type |-> "DATA", seq |-> s]
Fin == [type |-> "FIN", seq |-> 0]
ForwardFrame == {Start, Fin} \cup {Data(s) : s \in Frames}
BackwardFrame == [type : {"ACK", "NACK"}, bits : SUBSET Frames]

Gone == {"exited", "crashed", "killed"}
ReceiverGone == rpc \in Gone

\* A file of no bytes is complete as soon as it is created.
Truncated == IF TotalFrames = 0 THEN "payload" ELSE "partial"

Init ==
  /\ fwd = << >> /\ bwd = << >>
  /\ spc = "start" /\ next = 0 /\ inflight = {} /\ resend = {}
  /\ snapAcked = {} /\ snapMissing = {} /\ verdict = "none"
  /\ acked = {} /\ missing = {}
  /\ heard = << >> /\ listening = TRUE /\ stop = FALSE
  /\ rpc = "recv" /\ started = FALSE /\ rcvd = {} /\ fin = FALSE /\ sinceAck = 0
  /\ disk \in {"absent", "other", "payload"}   \* left by an earlier transfer

-----------------------------------------------------------------------------
(* The link.  Queue.put waits for room and has no timeout.                 *)

SendWithoutRoom(f) == fwd' = Append(fwd, f)                            \* mutant
Send(f) ==
  /\ Len(fwd) < QueueDepth
  /\ fwd' = Append(fwd, f)

LoseForward ==
  /\ "loss" \in Faults
  /\ fwd # << >>
  /\ fwd' = Tail(fwd)
  /\ UNCHANGED <<bwd, senderVars, ackVars, listenerVars, stop, receiverVars, disk>>

LoseBackward ==
  /\ "loss" \in Faults
  /\ bwd # << >>
  /\ bwd' = Tail(bwd)
  /\ UNCHANGED <<fwd, senderVars, ackVars, listenerVars, stop, receiverVars, disk>>

ReplayStart ==
  /\ "replay" \in Faults
  /\ spc \notin {"start", "done"}
  /\ Len(fwd) < QueueDepth
  /\ fwd' = Append(fwd, Start)
  /\ UNCHANGED <<bwd, senderVars, ackVars, listenerVars, stop, receiverVars, disk>>

-----------------------------------------------------------------------------
(* The sender: send_file.                                                  *)

SendStart ==
  /\ spc = "start"
  /\ Send(Start)
  /\ spc' = "snapshot"
  /\ UNCHANGED <<bwd, next, inflight, snapAcked, snapMissing, resend, verdict,
                 ackVars, listenerVars, stop, receiverVars, disk>>

AllButOne == Cardinality(acked) + 1 >= TotalFrames                     \* mutant
AllAcked == acked = Frames           \* acked.all_set()

PruneMissing == inflight \ missing                                     \* mutant
Pruned == inflight \ acked

Snapshot ==
  /\ spc = "snapshot"
  /\ snapAcked' = acked /\ snapMissing' = missing
  /\ IF AllAcked
     THEN spc' = "fin" /\ UNCHANGED inflight
     ELSE spc' = "fill" /\ inflight' = Pruned
  /\ UNCHANGED <<fwd, bwd, next, resend, verdict, ackVars, listenerVars, stop,
                 receiverVars, disk>>

WindowOpenAlways == next < TotalFrames                                 \* mutant
WindowOpen == next < TotalFrames /\ Cardinality(inflight) < MaxInflight

SendNew ==
  /\ spc = "fill" /\ WindowOpen
  /\ Send(Data(next))
  /\ inflight' = inflight \cup {next}
  /\ next' = next + 1
  /\ UNCHANGED <<bwd, spc, snapAcked, snapMissing, resend, verdict, ackVars,
                 listenerVars, stop, receiverVars, disk>>

\* struct.error leaves send_file: nobody stops the listener or the receiver.
EncodeRaises ==
  /\ "oversize" \in Faults
  /\ spc = "fill" /\ WindowOpen /\ next = 0
  /\ spc' = "raised" /\ verdict' = "failed"
  /\ UNCHANGED <<fwd, bwd, next, inflight, snapAcked, snapMissing, resend,
                 ackVars, listenerVars, stop, receiverVars, disk>>

\* missing.missing_indexes() lists the indices NOT set in the snapshot.
Candidates(backedOff, timedOut) ==
  LET listed == {s \in Frames \ snapMissing :
                   s < next /\ (s \in inflight => s \in backedOff)}
  IN IF listed # {} THEN listed
     ELSE {s \in inflight : s \in timedOut /\ s \notin snapAcked}

\* resend_candidates[:max_inflight_frames] of an ascending list
FirstOnes(S) == {s \in S : Cardinality({t \in S : t < s}) < MaxInflight}

SelectResend ==
  /\ spc = "fill" /\ ~WindowOpen
  /\ \E backedOff, timedOut \in SUBSET inflight :
       resend' = FirstOnes(Candidates(backedOff, timedOut))
  /\ spc' = "resend"
  /\ UNCHANGED <<fwd, bwd, next, inflight, snapAcked, snapMissing, verdict,
                 ackVars, listenerVars, stop, receiverVars, disk>>

SendAgain ==
  /\ spc = "resend"
  /\ \E s \in resend :
       /\ \A t \in resend : s <= t
       /\ Send(Data(s))
       /\ inflight' = inflight \cup {s}
       /\ resend' = resend \ {s}
  /\ UNCHANGED <<bwd, spc, next, snapAcked, snapMissing, verdict, ackVars,
                 listenerVars, stop, receiverVars, disk>>

Poll ==
  /\ spc = "resend" /\ resend = {}
  /\ spc' = "snapshot"
  /\ UNCHANGED <<fwd, bwd, next, inflight, snapAcked, snapMissing, resend,
                 verdict, ackVars, listenerVars, stop, receiverVars, disk>>

SendFin ==
  /\ spc = "fin"
  /\ Send(Fin)
  /\ spc' = "join"
  /\ UNCHANGED <<bwd, next, inflight, snapAcked, snapMissing, resend, verdict,
                 ackVars, listenerVars, stop, receiverVars, disk>>

JoinWithoutTimeout == ReceiverGone                                     \* mutant
JoinReturns == ReceiverGone \/ "slow" \in Faults

JoinReceiver ==      \* receiver.join(timeout=5.0)
  /\ spc = "join" /\ JoinReturns
  /\ spc' = "stop"
  /\ UNCHANGED <<fwd, bwd, next, inflight, snapAcked, snapMissing, resend,
                 verdict, ackVars, listenerVars, stop, receiverVars, disk>>

StopListener ==      \* stop_event.set(); ack_thread.join(timeout=1.0)
  /\ spc = "stop"
  /\ stop' = TRUE
  /\ spc' = "check"
  /\ UNCHANGED <<fwd, bwd, next, inflight, snapAcked, snapMissing, resend,
                 verdict, ackVars, listenerVars, receiverVars, disk>>

TrustJoin == TRUE                                                      \* mutant
JoinSucceeded == ReceiverGone        \* not receiver.is_alive()

CheckReceiver ==
  /\ spc = "check"
  /\ IF JoinSucceeded
     THEN spc' = "verify" /\ UNCHANGED <<rpc, verdict>>
     ELSE spc' = "done" /\ rpc' = "killed" /\ verdict' = "failed"
  /\ UNCHANGED <<fwd, bwd, next, inflight, snapAcked, snapMissing, resend,
                 ackVars, listenerVars, stop, started, rcvd, fin, sinceAck, disk>>

Verify ==
  /\ spc = "verify"
  /\ verdict' = IF disk = "payload" THEN "ok" ELSE "failed"
  /\ spc' = "done"
  /\ UNCHANGED <<fwd, bwd, next, inflight, snapAcked, snapMissing, resend,
                 ackVars, listenerVars, stop, receiverVars, disk>>

-----------------------------------------------------------------------------
(* The ACK listener thread: _ack_listener.  It tests stop_event only       *)
(* before a get, so a get under way may still take one frame after stop.   *)

Hear ==
  /\ listening /\ heard = << >>
  /\ bwd # << >>
  /\ heard' = <<Head(bwd)>>
  /\ bwd' = Tail(bwd)
  /\ UNCHANGED <<fwd, senderVars, ackVars, listening, stop, receiverVars, disk>>

MergeAck(bits) ==    \* AckState.merge_ack
  /\ acked' = acked \cup bits
  /\ missing' = Frames \ acked'

SetMissing(bits) ==  \* AckState.set_missing
  /\ missing' = bits
  /\ UNCHANGED acked

\* mutant
MergeOnce ==
  /\ heard # << >>
  /\ \/ heard[1].type = "ACK" /\ MergeAck(heard[1].bits)
     \/ heard[1].type = "NACK" /\ SetMissing(heard[1].bits)
  /\ heard' = << >>
  /\ listening' = FALSE
  /\ UNCHANGED <<fwd, bwd, senderVars, stop, receiverVars, disk>>
Merge ==
  /\ heard # << >>
  /\ \/ heard[1].type = "ACK" /\ MergeAck(heard[1].bits)
     \/ heard[1].type = "NACK" /\ SetMissing(heard[1].bits)
  /\ heard' = << >>
  /\ listening' = ~stop
  /\ UNCHANGED <<fwd, bwd, senderVars, stop, receiverVars, disk>>

StopListening ==
  /\ listening /\ heard = << >> /\ stop
  /\ listening' = FALSE
  /\ UNCHANGED <<fwd, bwd, senderVars, ackVars, heard, stop, receiverVars, disk>>

-----------------------------------------------------------------------------
(* The receiver process: ReceiverProcess.run.  One loop iteration is       *)
(* recv, then (with a manifest) a due ACK, then the FIN handling.          *)

TakeStart ==
  /\ started' = TRUE /\ rcvd' = {} /\ fin' = FALSE /\ sinceAck' = 0
  /\ rpc' = "ack"

TakeData(s) ==
  /\ IF started /\ s \notin rcvd
     THEN rcvd' = rcvd \cup {s} /\ sinceAck' = sinceAck + 1
     ELSE UNCHANGED <<rcvd, sinceAck>>
  /\ rpc' = IF started THEN "ack" ELSE "recv"
  /\ UNCHANGED <<started, fin>>

TakeFin ==
  /\ fin' = TRUE
  /\ rpc' = IF started THEN "ack" ELSE "recv"
  /\ UNCHANGED <<started, rcvd, sinceAck>>

Receive ==
  /\ rpc = "recv"
  /\ fwd # << >>
  /\ fwd' = Tail(fwd)
  /\ \/ Head(fwd).type = "START" /\ TakeStart
     \/ Head(fwd).type = "DATA" /\ TakeData(Head(fwd).seq)
     \/ Head(fwd).type = "FIN" /\ TakeFin
  /\ UNCHANGED <<bwd, senderVars, ackVars, listenerVars, stop, disk>>

\* recv returned None: the queue's feeder thread may lag behind a put, so the
\* get may time out on a queue that holds a frame.
ReceiveNothing ==
  /\ rpc = "recv" /\ started
  /\ rpc' = "ack"
  /\ UNCHANGED <<fwd, bwd, senderVars, ackVars, listenerVars, stop, started,
                 rcvd, fin, sinceAck, disk>>

Reply(type, bits) ==
  /\ Len(bwd) < QueueDepth
  /\ bwd' = Append(bwd, [type |-> type, bits |-> bits])

AfterAckEager == IF rcvd = Frames THEN "fin" ELSE "recv"               \* mutant
AfterAck == IF fin THEN "fin" ELSE "recv"

AckMissing == Frames \ rcvd                                            \* mutant
AckedBits == rcvd                    \* received_bitmap.to_bytes()

AckDueByCountOnly(late) == sinceAck >= AckInterval                     \* mutant
AckDue(late) == sinceAck >= AckInterval \/ late

SendAck ==
  /\ rpc = "ack"
  /\ \E late \in BOOLEAN : AckDue(late)
  /\ Reply("ACK", AckedBits)
  /\ sinceAck' = 0
  /\ rpc' = AfterAck
  /\ UNCHANGED <<fwd, senderVars, ackVars, listenerVars, stop, started, rcvd,
                 fin, disk>>

SkipAck ==
  /\ rpc = "ack"
  /\ \E late \in BOOLEAN : ~AckDue(late)
  /\ rpc' = AfterAck
  /\ UNCHANGED <<fwd, bwd, senderVars, ackVars, listenerVars, stop, started,
                 rcvd, fin, sinceAck, disk>>

SendNack ==
  /\ rpc = "fin" /\ rcvd # Frames
  /\ Reply("NACK", Frames \ rcvd)
  /\ rpc' = "recv"
  /\ UNCHANGED <<fwd, senderVars, ackVars, listenerVars, stop, started, rcvd,
                 fin, sinceAck, disk>>

OpenOutput ==        \* write_bytes truncates the file before it writes
  /\ rpc = "fin" /\ rcvd = Frames
  /\ disk' = Truncated
  /\ rpc' = "write"
  /\ UNCHANGED <<fwd, bwd, senderVars, ackVars, listenerVars, stop, started,
                 rcvd, fin, sinceAck>>

WriteOutput ==
  /\ rpc = "write"
  /\ disk' = "payload"
  /\ rpc' = "reply"
  /\ UNCHANGED <<fwd, bwd, senderVars, ackVars, listenerVars, stop, started,
                 rcvd, fin, sinceAck>>

DiskFails ==         \* an OSError ends the process, before or after truncation
  /\ "disk" \in Faults
  /\ \/ rpc = "fin" /\ rcvd = Frames
     \/ rpc = "write"
  /\ rpc' = "crashed"
  /\ UNCHANGED <<fwd, bwd, senderVars, ackVars, listenerVars, stop, started,
                 rcvd, fin, sinceAck, disk>>

SendLastAck ==
  /\ rpc = "reply"
  /\ Reply("ACK", rcvd)
  /\ rpc' = "exited"
  /\ UNCHANGED <<fwd, senderVars, ackVars, listenerVars, stop, started, rcvd,
                 fin, sinceAck, disk>>

Crash ==
  /\ "crash" \in Faults
  /\ ~ReceiverGone
  /\ rpc' = "crashed"
  /\ UNCHANGED <<fwd, bwd, senderVars, ackVars, listenerVars, stop, started,
                 rcvd, fin, sinceAck, disk>>
-----------------------------------------------------------------------------

Sender == \/ SendStart \/ Snapshot \/ SendNew \/ EncodeRaises \/ SelectResend
          \/ SendAgain \/ Poll \/ SendFin \/ JoinReceiver \/ StopListener
          \/ CheckReceiver \/ Verify
Listener == Hear \/ Merge \/ StopListening
Receiver == \/ Receive \/ ReceiveNothing \/ SendAck \/ SkipAck \/ SendNack
            \/ OpenOutput \/ WriteOutput \/ SendLastAck
Environment == LoseForward \/ LoseBackward \/ ReplayStart \/ DiskFails \/ Crash

Returned == spc \in {"done", "raised"} /\ UNCHANGED vars    \* send_file has ended

Next == Sender \/ Listener \/ Receiver \/ Environment \/ Returned

(* Every thread and process keeps being scheduled.  The receiver's get     *)
(* does not time out for ever on a queue that holds frames, and a          *)
(* time-driven ACK falls due again and again.                              *)
Spec == /\ Init /\ [][Next]_vars
        /\ WF_vars(Sender) /\ WF_vars(Listener) /\ WF_vars(Receiver)
        /\ SF_vars(Receive) /\ SF_vars(SendAck)

-----------------------------------------------------------------------------
(* Safety.                                                                 *)

\* The variables keep their types; in particular frames_since_ack never runs
\* past ack_interval_frames, so every full interval is answered by one ACK.
TypeOK ==
  /\ fwd \in Seq(ForwardFrame) /\ Len(fwd) <= QueueDepth
  /\ bwd \in Seq(BackwardFrame) /\ Len(bwd) <= QueueDepth
  /\ spc \in {"start", "snapshot", "fill", "resend", "fin", "join", "stop",
              "check", "verify", "done", "raised"}
  /\ next \in 0 .. TotalFrames
  /\ inflight \subseteq Frames /\ resend \subseteq Frames
  /\ snapAcked \subseteq Frames /\ snapMissing \subseteq Frames
  /\ verdict \in {"none", "ok", "failed"}
  /\ acked \subseteq Frames /\ missing \subseteq Frames
  /\ heard \in Seq(BackwardFrame) /\ Len(heard) <= 1
  /\ listening \in BOOLEAN /\ stop \in BOOLEAN
  /\ rpc \in {"recv", "ack", "fin", "write", "reply"} \cup Gone
  /\ started \in BOOLEAN /\ fin \in BOOLEAN
  /\ rcvd \subseteq Frames
  /\ sinceAck \in 0 .. AckInterval
  /\ disk \in {"absent", "other", "partial", "payload"}

\* No acknowledgement claims a frame the receiver does not hold: neither one
\* under way in the queue, nor one the listener has taken, nor AckState.acked.
AcksSound ==
  /\ acked \subseteq rcvd
  /\ \A i \in 1 .. Len(bwd) : bwd[i].type = "ACK" => bwd[i].bits \subseteq rcvd
  /\ \A i \in 1 .. Len(heard) : heard[i].type = "ACK" => heard[i].bits \subseteq rcvd

\* Every frame put in the queue and not acknowledged is still in the dict
\* inflight, the only place a retransmission by timeout starts from; pruning
\* by one snapshot never drops a frame a later snapshot would miss.
UnackedTracked == \A s \in 0 .. next - 1 : s \in acked \/ s \in inflight

\* At most max_inflight_frames frames are sent and unacknowledged, although
\* the resend loop puts acknowledged frames back into the dict inflight.
WindowBounded == Cardinality({s \in 0 .. next - 1 : s \notin acked}) <= MaxInflight

\* The sender puts FIN only when every frame is acknowledged, so the receiver
\* never holds a FIN (or has one coming) while a frame is missing: the NACK
\* branch of ReceiverProcess.run is not taken on a link that replays nothing.
FinOnlyWhenComplete ==
  (fin \/ \E i \in 1 .. Len(fwd) : fwd[i].type = "FIN") => rcvd = Frames

\* A result is returned only for a file whose content is the payload, and it
\* stays so: no receiver outlives send_file to truncate or rewrite the file.
VerdictSound == verdict = "ok" => disk = "payload"

\* What set_missing says it keeps the bitmap for: a selective retransmission,
\* one of frames the sender does not know to be received.
ResendOnlyUnacked == resend \cap snapAcked = {}

-----------------------------------------------------------------------------
(* Steps.                                                                  *)

\* The receiver does not touch the output file before the sender has heard
\* an acknowledgement of every frame.
OutputAfterFullAck == [][disk' # disk => acked = Frames]_vars

\* send_file keeps what FileDelivery promises.
Delivery == INSTANCE FileDelivery
              WITH Parts <- Frames, held <- rcvd, confirmed <- acked, file <- disk
DeliverySafe == Delivery!Safe

-----------------------------------------------------------------------------
(* Liveness.                                                               *)

\* With a link that loses nothing and a receiver that lives, send_file ends
\* and returns a result, although it re-sends acknowledged frames and both
\* queues may fill up at the same time.
Delivered == <>(verdict = "ok")

\* A queue of frames that is full before FIN drains unless the receiver is gone,
\* whatever the link does to frames: the receiver, itself held up by a full queue
\* of replies, is set free by the listener.  With a receiver that is gone it
\* stays full and the sender's put waits for ever; nothing asks before FIN
\* whether the receiver lives.
FullQueueDrains ==
  (spc \in {"start", "fill", "resend", "fin"} /\ Len(fwd) = QueueDepth)
    ~> (Len(fwd) < QueueDepth \/ ReceiverGone)

\* Once FIN is in the queue send_file returns or raises, whatever happens to
\* the receiver, the disk or the link.
FinLeadsToVerdict == (spc = "join") ~> (verdict # "none")
=============================================================================
