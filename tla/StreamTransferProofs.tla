------------------------- MODULE StreamTransferProofs -------------------------
(***************************************************************************)
(* Proofs about StreamTransfer for every number of frames, queue depth,    *)
(* window and ACK interval.  The type, verdict, output and window theorems *)
(* hold for every fault; those about the ACKs, FIN and the refinement      *)
(* exclude a replayed START frame, which makes the receiver forget frames  *)
(* it has acknowledged.                                                    *)
(***************************************************************************)
EXTENDS StreamTransfer, TLAPS, SequenceTheorems, FiniteSetTheorems

-----------------------------------------------------------------------------
(* The inductive invariant.                                                *)

\* A receiver at recv or past its ACK has fewer uncounted frames than one
\* interval, so one more DATA frame cannot run past the interval.
CountInv == rpc \in {"recv", "fin"} => sinceAck < AckInterval

\* START is the first frame of the queue and is delivered once; before it the
\* receiver holds nothing and has answered nothing.
StartInv ==
  /\ spc = "start" => fwd = << >> /\ ~started
  /\ \A i \in 1 .. Len(fwd) : fwd[i].type = "START" => i = 1 /\ ~started
  /\ ~started => rcvd = {} /\ bwd = << >> /\ heard = << >>
  /\ rpc \in {"ack", "fin", "write", "reply"} => started

\* FIN exists only once send_file is past its loop, and there every frame is
\* acknowledged; the receiver writes only with a FIN in its hands.
Finishing == {"join", "stop", "check", "verify", "done"}
FinInv ==
  /\ spc \in {"fin"} \cup Finishing => acked = Frames
  /\ (\E i \in 1 .. Len(fwd) : fwd[i].type = "FIN") => spc \in Finishing
  /\ fin => spc \in Finishing
  /\ rpc \in {"fin", "write", "reply"} => fin

\* send_file reads the file and gives its verdict over a receiver that is gone.
VerdictInv ==
  /\ verdict # "none" => spc \in {"done", "raised"}
  /\ spc \in {"verify", "done"} => ReceiverGone
  /\ verdict = "ok" => disk = "payload"

IInv == TypeOK /\ CountInv /\ StartInv /\ AcksSound /\ FinInv /\ VerdictInv

-----------------------------------------------------------------------------
(* Type correctness.                                                       *)

LEMMA FrameTypes ==
  /\ Start \in ForwardFrame /\ Fin \in ForwardFrame
  /\ \A s \in Frames : Data(s) \in ForwardFrame
  /\ \A f \in ForwardFrame :
       /\ f.type \in {"START", "DATA", "FIN"}
       /\ f.type = "DATA" => f.seq \in Frames
<1> USE DEF ForwardFrame, Start, Fin, Data
<1>1. \A s \in Frames : Data(s) \in ForwardFrame
  OBVIOUS
<1>2. Start \in ForwardFrame /\ Fin \in ForwardFrame
  OBVIOUS
<1>3. ASSUME NEW f \in ForwardFrame
      PROVE  /\ f.type \in {"START", "DATA", "FIN"}
             /\ f.type = "DATA" => f.seq \in Frames
  <2>1. CASE f = Start
    BY <2>1
  <2>2. CASE f = Fin
    BY <2>2
  <2>3. CASE \E s \in Frames : f = Data(s)
    BY <2>3
  <2> QED BY <2>1, <2>2, <2>3
<1> QED BY <1>1, <1>2, <1>3

\* A put keeps a queue typed, within its depth, and adds one element at its end.
LEMMA PutQueue ==
  ASSUME NEW S, NEW q \in Seq(S), NEW e \in S
  PROVE  /\ Append(q, e) \in Seq(S) /\ Len(Append(q, e)) = Len(q) + 1
         /\ \A i \in 1 .. Len(q) : Append(q, e)[i] = q[i]
         /\ Append(q, e)[Len(q) + 1] = e
BY AppendProperties

\* A get returns the first element and shifts the others.
LEMMA TakeQueue ==
  ASSUME NEW S, NEW q \in Seq(S), q # << >>
  PROVE  /\ Head(q) \in S /\ Head(q) = q[1]
         /\ Tail(q) \in Seq(S) /\ Len(q) \in Nat \ {0} /\ Len(Tail(q)) = Len(q) - 1
         /\ \A i \in 1 .. Len(Tail(q)) : Tail(q)[i] = q[i + 1]
BY HeadTailProperties, ElementOfSeq, LenProperties

LEMMA TypeInit == Init => TypeOK /\ CountInv
<1>1. TotalFrames \in Nat /\ AckInterval \in Nat \ {0} /\ QueueDepth \in Nat \ {0}
  BY ConstantsAssumption
<1>2. << >> \in Seq(ForwardFrame) /\ << >> \in Seq(BackwardFrame) /\ Len(<< >>) = 0
  BY EmptySeq
<1>3. ASSUME Init PROVE TypeOK
  <2>1. /\ fwd \in Seq(ForwardFrame) /\ Len(fwd) <= QueueDepth
        /\ bwd \in Seq(BackwardFrame) /\ Len(bwd) <= QueueDepth
        /\ heard \in Seq(BackwardFrame) /\ Len(heard) <= 1
    BY <1>1, <1>2, <1>3 DEF Init
  <2>2. next \in 0 .. TotalFrames /\ sinceAck \in 0 .. AckInterval
    BY <1>1, <1>3 DEF Init
  <2> QED BY <1>3, <2>1, <2>2 DEF Init, TypeOK, Gone
<1>4. ASSUME Init PROVE CountInv
  BY <1>1, <1>4 DEF Init, CountInv
<1> QED BY <1>3, <1>4

LEMMA TypeSender == ASSUME TypeOK, CountInv, Sender PROVE TypeOK' /\ CountInv'
<1> USE DEF TypeOK, CountInv
<1>0. TotalFrames \in Nat /\ AckInterval \in Nat \ {0} /\ QueueDepth \in Nat \ {0}
  BY ConstantsAssumption
<1>1. CASE SendStart
  <2>1. fwd' \in Seq(ForwardFrame) /\ Len(fwd') <= QueueDepth
    BY <1>0, <1>1, FrameTypes, PutQueue, LenProperties DEF SendStart, Send
  <2> QED BY <1>1, <2>1 DEF SendStart, senderVars, ackVars, listenerVars, receiverVars
<1>2. CASE Snapshot
  BY <1>2 DEF Snapshot, AllAcked, Pruned, ackVars, listenerVars, receiverVars
<1>3. CASE SendNew
  <2>1. next \in Frames /\ next + 1 \in 0 .. TotalFrames
    BY <1>0, <1>3 DEF SendNew, WindowOpen, Frames
  <2>2. fwd' \in Seq(ForwardFrame) /\ Len(fwd') <= QueueDepth
    BY <1>0, <1>3, <2>1, FrameTypes, PutQueue, LenProperties DEF SendNew, Send
  <2> QED BY <1>3, <2>1, <2>2 DEF SendNew, ackVars, listenerVars, receiverVars
<1>4. CASE SelectResend
  <2>1. ASSUME NEW b \in SUBSET inflight, NEW t \in SUBSET inflight
        PROVE  FirstOnes(Candidates(b, t)) \subseteq Frames
    BY DEF FirstOnes, Candidates
  <2>2. resend' \subseteq Frames
    BY <1>4, <2>1 DEF SelectResend
  <2> QED BY <1>4, <2>2 DEF SelectResend, ackVars, listenerVars, receiverVars
<1>5. CASE SendAgain
  <2>1. PICK s \in resend : /\ Send(Data(s))
                            /\ inflight' = inflight \cup {s}
                            /\ resend' = resend \ {s}
    BY <1>5 DEF SendAgain
  <2>2. fwd' \in Seq(ForwardFrame) /\ Len(fwd') <= QueueDepth
    BY <1>0, <2>1, FrameTypes, PutQueue, LenProperties DEF Send
  <2> QED BY <1>5, <2>1, <2>2 DEF SendAgain, ackVars, listenerVars, receiverVars
<1>6. CASE Poll
  BY <1>6 DEF Poll, ackVars, listenerVars, receiverVars
<1>7. CASE SendFin
  <2>1. fwd' \in Seq(ForwardFrame) /\ Len(fwd') <= QueueDepth
    BY <1>0, <1>7, FrameTypes, PutQueue, LenProperties DEF SendFin, Send
  <2> QED BY <1>7, <2>1 DEF SendFin, ackVars, listenerVars, receiverVars
<1>8. CASE JoinReceiver
  BY <1>8 DEF JoinReceiver, ackVars, listenerVars, receiverVars
<1>9. CASE StopListener
  BY <1>9 DEF StopListener, ackVars, listenerVars, receiverVars
<1>10. CASE CheckReceiver
  BY <1>10 DEF CheckReceiver, Gone, ackVars, listenerVars
<1>11. CASE Verify
  BY <1>11 DEF Verify, ackVars, listenerVars, receiverVars
<1>12. CASE EncodeRaises
  BY <1>12 DEF EncodeRaises, ackVars, listenerVars, receiverVars
<1> QED BY <1>1, <1>2, <1>3, <1>4, <1>5, <1>6, <1>7, <1>8, <1>9, <1>10, <1>11, <1>12 DEF Sender

LEMMA TypeListener == ASSUME TypeOK, CountInv, Listener PROVE TypeOK' /\ CountInv'
<1> USE DEF TypeOK, CountInv
<1>1. CASE Hear
  <2>1. heard' \in Seq(BackwardFrame) /\ Len(heard') <= 1
    BY <1>1, TakeQueue DEF Hear
  <2>2. bwd' \in Seq(BackwardFrame) /\ Len(bwd') <= QueueDepth
    BY <1>1, TakeQueue, ConstantsAssumption DEF Hear
  <2> QED BY <1>1, <2>1, <2>2 DEF Hear, senderVars, ackVars, receiverVars
<1>2. CASE Merge
  <2>1. heard[1] \in BackwardFrame
    BY <1>2, ElementOfSeq, EmptySeq, LenProperties DEF Merge
  <2>2. heard[1].bits \subseteq Frames
    BY <2>1 DEF BackwardFrame
  <2>3. acked' \subseteq Frames /\ missing' \subseteq Frames
    BY <1>2, <2>2 DEF Merge, MergeAck, SetMissing
  <2>4. heard' \in Seq(BackwardFrame) /\ Len(heard') <= 1
    BY <1>2, EmptySeq DEF Merge
  <2> QED BY <1>2, <2>3, <2>4 DEF Merge, senderVars, receiverVars
<1>3. CASE StopListening
  <2>1. UNCHANGED <<fwd, bwd, heard, senderVars, ackVars, receiverVars, stop, disk>>
    BY <1>3 DEF StopListening
  <2>2. listening' \in BOOLEAN
    BY <1>3 DEF StopListening
  <2> QED BY <2>1, <2>2 DEF senderVars, ackVars, receiverVars
<1> QED BY <1>1, <1>2, <1>3 DEF Listener

\* A reply keeps the backward queue typed and within its depth.
LEMMA ReplyTyped ==
  ASSUME TypeOK, NEW type \in {"ACK", "NACK"}, NEW bits \in SUBSET Frames,
         Reply(type, bits)
  PROVE  bwd' \in Seq(BackwardFrame) /\ Len(bwd') <= QueueDepth
<1>1. [type |-> type, bits |-> bits] \in BackwardFrame
  BY DEF BackwardFrame
<1> QED BY <1>1, PutQueue, LenProperties, ConstantsAssumption DEF TypeOK, Reply

LEMMA TypeReceiver == ASSUME TypeOK, CountInv, Receiver PROVE TypeOK' /\ CountInv'
<1> USE DEF TypeOK, CountInv
<1>0. AckInterval \in Nat \ {0} /\ QueueDepth \in Nat \ {0}
  BY ConstantsAssumption
<1>1. CASE Receive
  <2>1. Head(fwd) \in ForwardFrame /\ fwd' \in Seq(ForwardFrame)
        /\ Len(fwd') <= QueueDepth
    BY <1>0, <1>1, TakeQueue DEF Receive
  <2>2. /\ started' \in BOOLEAN /\ fin' \in BOOLEAN /\ rcvd' \subseteq Frames
        /\ sinceAck' \in 0 .. AckInterval /\ rpc' \in {"ack", "recv"}
        /\ rpc' = "recv" => sinceAck' < AckInterval
    <3>1. CASE TakeStart
      <4>1. 0 \in 0 .. AckInterval /\ "ack" # "recv"
        BY <1>0
      <4> QED BY <3>1, <4>1, Zenon DEF TakeStart
    <3>2. CASE Head(fwd).type = "DATA" /\ TakeData(Head(fwd).seq)
      <4>1. Head(fwd).seq \in Frames /\ rpc = "recv" /\ sinceAck < AckInterval
        BY <1>1, <2>1, <3>2, FrameTypes DEF Receive
      <4>2. rcvd' \subseteq Frames /\ sinceAck' \in {sinceAck, sinceAck + 1}
        BY <3>2, <4>1 DEF TakeData
      <4>3. ~started => sinceAck' = sinceAck
        BY <3>2 DEF TakeData
      <4> QED BY <1>0, <3>2, <4>1, <4>2, <4>3 DEF TakeData
    <3>3. CASE TakeFin
      BY <1>0, <1>1, <3>3 DEF Receive, TakeFin
    <3> QED BY <1>1, <3>1, <3>2, <3>3 DEF Receive
  <2> QED BY <1>1, <2>1, <2>2 DEF Receive, senderVars, ackVars, listenerVars
<1>2. CASE ReceiveNothing
  BY <1>2 DEF ReceiveNothing, senderVars, ackVars, listenerVars
<1>3. CASE SendAck
  <2>1. bwd' \in Seq(BackwardFrame) /\ Len(bwd') <= QueueDepth
    BY <1>3, ReplyTyped DEF SendAck, AckedBits
  <2> QED BY <1>0, <1>3, <2>1 DEF SendAck, AfterAck, senderVars, ackVars, listenerVars
<1>4. CASE SkipAck
  BY <1>0, <1>4 DEF SkipAck, AckDue, AfterAck, senderVars, ackVars, listenerVars
<1>5. CASE SendNack
  <2>1. bwd' \in Seq(BackwardFrame) /\ Len(bwd') <= QueueDepth
    BY <1>5, ReplyTyped DEF SendNack
  <2> QED BY <1>5, <2>1 DEF SendNack, senderVars, ackVars, listenerVars
<1>6. CASE OpenOutput
  BY <1>6 DEF OpenOutput, Truncated, senderVars, ackVars, listenerVars
<1>7. CASE WriteOutput
  BY <1>7 DEF WriteOutput, senderVars, ackVars, listenerVars
<1>8. CASE SendLastAck
  <2>1. bwd' \in Seq(BackwardFrame) /\ Len(bwd') <= QueueDepth
    BY <1>8, ReplyTyped DEF SendLastAck
  <2> QED BY <1>8, <2>1 DEF SendLastAck, Gone, senderVars, ackVars, listenerVars
<1> QED BY <1>1, <1>2, <1>3, <1>4, <1>5, <1>6, <1>7, <1>8 DEF Receiver

LEMMA TypeEnvironment == ASSUME TypeOK, CountInv, Environment PROVE TypeOK' /\ CountInv'
<1> USE DEF TypeOK, CountInv, senderVars, ackVars, listenerVars, receiverVars
<1>1. CASE LoseForward
  BY <1>1, TakeQueue, ConstantsAssumption DEF LoseForward
<1>2. CASE LoseBackward
  BY <1>2, TakeQueue, ConstantsAssumption DEF LoseBackward
<1>3. CASE ReplayStart
  <2>1. fwd' \in Seq(ForwardFrame) /\ Len(fwd') <= QueueDepth
    BY <1>3, FrameTypes, PutQueue, LenProperties, ConstantsAssumption DEF ReplayStart
  <2> QED BY <1>3, <2>1 DEF ReplayStart
<1>4. CASE DiskFails
  BY <1>4 DEF DiskFails, Gone
<1>5. CASE Crash
  BY <1>5 DEF Crash, Gone
<1> QED BY <1>1, <1>2, <1>3, <1>4, <1>5 DEF Environment

LEMMA TypeStep == ASSUME TypeOK, CountInv, [Next]_vars PROVE TypeOK' /\ CountInv'
<1>1. CASE UNCHANGED vars
  BY <1>1 DEF TypeOK, CountInv, vars, senderVars, ackVars, listenerVars, receiverVars
<1>2. CASE Returned
  BY <1>1, <1>2 DEF Returned
<1> QED BY <1>1, <1>2, TypeSender, TypeListener, TypeReceiver, TypeEnvironment DEF Next

\* Type correctness of every variable of the engine, whatever the link, the
\* disk and the receiver process do: in particular no queue outgrows its depth
\* and frames_since_ack never runs past ack_interval_frames.
THEOREM TypeCorrect == Spec => []TypeOK
<1>1. TypeOK /\ CountInv /\ [Next]_vars => (TypeOK /\ CountInv)'
  BY TypeStep
<1> QED BY TypeInit, <1>1, PTL DEF Spec

-----------------------------------------------------------------------------
(* The end of a call, on any link: what FIN, the verdict and the output    *)
(* file rest on does not need the ACKs to be sound.                        *)

EndInv == FinInv /\ VerdictInv

LEMMA EndInit == Init => EndInv
<1> SUFFICES ASSUME Init PROVE EndInv
  OBVIOUS
<1>1. Len(fwd) = 0
  BY EmptySeq DEF Init
<1> QED BY <1>1 DEF Init, EndInv, FinInv, VerdictInv, Finishing

\* A step that appends at most a frame other than FIN brings no FIN.
LEMMA PutBringsNoFin ==
  ASSUME TypeOK, NEW f \in ForwardFrame, f.type # "FIN", fwd' = Append(fwd, f),
         \E i \in 1 .. Len(fwd') : fwd'[i].type = "FIN"
  PROVE  \E i \in 1 .. Len(fwd) : fwd[i].type = "FIN"
<1>1. /\ Len(fwd) \in Nat /\ Len(fwd') = Len(fwd) + 1
      /\ \A i \in 1 .. Len(fwd) : fwd'[i] = fwd[i]
      /\ fwd'[Len(fwd) + 1] = f
  BY PutQueue, LenProperties DEF TypeOK
<1> QED BY <1>1

LEMMA EndSender == ASSUME TypeOK, EndInv, Sender PROVE EndInv'
<1> USE DEF EndInv, senderVars, ackVars, listenerVars, receiverVars, ReceiverGone
<1>1. CASE Snapshot
  BY <1>1 DEF Snapshot, AllAcked, FinInv, VerdictInv, Finishing
<1>2. CASE SelectResend
  BY <1>2 DEF SelectResend, FinInv, VerdictInv, Finishing
<1>3. CASE Poll
  BY <1>3 DEF Poll, FinInv, VerdictInv, Finishing
<1>4. CASE JoinReceiver
  BY <1>4 DEF JoinReceiver, FinInv, VerdictInv, Finishing
<1>5. CASE StopListener
  BY <1>5 DEF StopListener, FinInv, VerdictInv, Finishing
<1>6. CASE CheckReceiver
  BY <1>6 DEF CheckReceiver, JoinSucceeded, Gone, FinInv, VerdictInv, Finishing
<1>7. CASE Verify
  BY <1>7 DEF Verify, FinInv, VerdictInv, Finishing
<1>8. CASE EncodeRaises
  BY <1>8 DEF EncodeRaises, FinInv, VerdictInv, Finishing
<1>9. CASE SendStart \/ SendNew \/ SendAgain
  <2>1. \E f \in ForwardFrame : f.type # "FIN" /\ fwd' = Append(fwd, f)
    <3>1. CASE SendStart
      <4>1. Start \in ForwardFrame /\ Start.type # "FIN"
        BY FrameTypes DEF Start
      <4> QED BY <3>1, <4>1 DEF SendStart, Send
    <3>2. CASE SendNew \/ SendAgain
      <4>1. PICK s \in Frames : Send(Data(s))
        BY <3>2, ConstantsAssumption DEF SendNew, SendAgain, WindowOpen, TypeOK, Frames
      <4>2. Data(s) \in ForwardFrame /\ Data(s).type # "FIN"
        BY FrameTypes DEF Data
      <4> QED BY <4>1, <4>2 DEF Send
    <3> QED BY <1>9, <3>1, <3>2
  <2>2. (\E i \in 1 .. Len(fwd') : fwd'[i].type = "FIN")
          => \E i \in 1 .. Len(fwd) : fwd[i].type = "FIN"
    BY <2>1, PutBringsNoFin
  <2>3. (\E i \in 1 .. Len(fwd') : fwd'[i].type = "FIN") => spc \in Finishing
    BY <2>2 DEF FinInv
  <2>4. /\ spc \in {"start", "fill", "resend"}
        /\ spc' \in {"snapshot", "fill", "resend"}
        /\ UNCHANGED <<acked, fin, rpc, verdict, disk>>
    BY <1>9 DEF SendStart, SendNew, SendAgain
  <2> QED BY <2>3, <2>4 DEF FinInv, VerdictInv, Finishing
<1>10. CASE SendFin
  BY <1>10 DEF SendFin, FinInv, VerdictInv, Finishing
<1> QED BY <1>1, <1>2, <1>3, <1>4, <1>5, <1>6, <1>7, <1>8, <1>9, <1>10 DEF Sender

LEMMA EndListener == ASSUME TypeOK, TypeOK', EndInv, Listener PROVE EndInv'
<1> USE DEF EndInv, senderVars, ackVars, listenerVars, receiverVars, ReceiverGone
<1>1. CASE Hear
  BY <1>1 DEF Hear, FinInv, VerdictInv
<1>2. CASE Merge
  <2>1. acked \subseteq acked' /\ acked' \subseteq Frames
    BY <1>2 DEF Merge, MergeAck, SetMissing, TypeOK
  <2>2. acked = Frames => acked' = Frames
    BY <2>1
  <2> QED BY <1>2, <2>2 DEF Merge, FinInv, VerdictInv
<1>3. CASE StopListening
  BY <1>3 DEF StopListening, FinInv, VerdictInv
<1> QED BY <1>1, <1>2, <1>3 DEF Listener

\* A get leaves in the queue only frames that were in it.
LEMMA TakeBringsNoFin ==
  ASSUME TypeOK, FinInv, fwd # << >>, fwd' = Tail(fwd)
  PROVE  /\ (\E i \in 1 .. Len(fwd') : fwd'[i].type = "FIN") => spc \in Finishing
         /\ Head(fwd).type = "FIN" => spc \in Finishing
<1>1. /\ fwd[1] = Head(fwd) /\ 1 \in 1 .. Len(fwd)
      /\ \A i \in 1 .. Len(fwd') : i + 1 \in 1 .. Len(fwd) /\ fwd'[i] = fwd[i + 1]
  BY TakeQueue DEF TypeOK
<1> QED BY <1>1 DEF FinInv

LEMMA EndReceiver == ASSUME TypeOK, EndInv, Receiver PROVE EndInv'
<1> USE DEF EndInv, senderVars, ackVars, listenerVars, receiverVars, ReceiverGone
<1>1. CASE Receive
  <2>1. /\ (\E i \in 1 .. Len(fwd') : fwd'[i].type = "FIN") => spc \in Finishing
        /\ Head(fwd).type = "FIN" => spc \in Finishing
    BY <1>1, TakeBringsNoFin DEF Receive
  <2>2. fin' => spc \in Finishing
    BY <1>1, <2>1 DEF Receive, TakeStart, TakeData, TakeFin, FinInv
  <2>3. rpc' \in {"ack", "recv"}
    BY <1>1 DEF Receive, TakeStart, TakeData, TakeFin
  <2> QED BY <1>1, <2>1, <2>2, <2>3 DEF Receive, FinInv, VerdictInv, Gone
<1>2. CASE ReceiveNothing
  BY <1>2 DEF ReceiveNothing, Gone, FinInv, VerdictInv
<1>3. CASE SendAck
  BY <1>3 DEF SendAck, AfterAck, Gone, FinInv, VerdictInv
<1>4. CASE SkipAck
  BY <1>4 DEF SkipAck, AfterAck, Gone, FinInv, VerdictInv
<1>5. CASE SendNack
  BY <1>5 DEF SendNack, Gone, FinInv, VerdictInv
<1>6. CASE OpenOutput
  BY <1>6 DEF OpenOutput, Gone, FinInv, VerdictInv, Finishing
<1>7. CASE WriteOutput
  BY <1>7 DEF WriteOutput, Gone, FinInv, VerdictInv
<1>8. CASE SendLastAck
  BY <1>8 DEF SendLastAck, Gone, FinInv, VerdictInv
<1> QED BY <1>1, <1>2, <1>3, <1>4, <1>5, <1>6, <1>7, <1>8 DEF Receiver

LEMMA EndEnvironment == ASSUME TypeOK, EndInv, Environment PROVE EndInv'
<1> USE DEF EndInv, senderVars, ackVars, listenerVars, receiverVars, ReceiverGone
<1>1. CASE LoseForward
  BY <1>1, TakeBringsNoFin DEF LoseForward, FinInv, VerdictInv
<1>2. CASE LoseBackward
  BY <1>2 DEF LoseBackward, FinInv, VerdictInv
<1>3. CASE ReplayStart
  <2>1. Start \in ForwardFrame /\ Start.type # "FIN"
    BY FrameTypes DEF Start
  <2>2. (\E i \in 1 .. Len(fwd') : fwd'[i].type = "FIN") => spc \in Finishing
    BY <1>3, <2>1, PutBringsNoFin DEF ReplayStart, FinInv
  <2> QED BY <1>3, <2>2 DEF ReplayStart, FinInv, VerdictInv
<1>4. CASE DiskFails
  BY <1>4 DEF DiskFails, Gone, FinInv, VerdictInv
<1>5. CASE Crash
  BY <1>5 DEF Crash, Gone, FinInv, VerdictInv
<1> QED BY <1>1, <1>2, <1>3, <1>4, <1>5 DEF Environment

LEMMA EndStep == ASSUME TypeOK, TypeOK', EndInv, [Next]_vars PROVE EndInv'
<1>1. CASE UNCHANGED vars
  BY <1>1 DEF EndInv, FinInv, VerdictInv, vars, senderVars, ackVars, listenerVars,
              receiverVars, ReceiverGone
<1>2. CASE Returned
  BY <1>1, <1>2 DEF Returned
<1> QED BY <1>1, <1>2, EndSender, EndListener, EndReceiver, EndEnvironment DEF Next

LEMMA EndInvariance == Spec => [](TypeOK /\ CountInv /\ EndInv)
<1>1. TypeOK /\ CountInv /\ EndInv /\ [Next]_vars => (TypeOK /\ CountInv /\ EndInv)'
  BY TypeStep, EndStep
<1> QED BY TypeInit, EndInit, <1>1, PTL DEF Spec

\* A result returned by send_file stands for a file with the payload in it,
\* also when the receiver crashed, its disk failed, its join timed out or a
\* second START made it forget what it had acknowledged.
THEOREM VerdictIsSound == Spec => []VerdictSound
<1>1. EndInv => VerdictSound
  BY DEF EndInv, VerdictInv, VerdictSound
<1> QED BY <1>1, EndInvariance, PTL

\* Only OpenOutput and WriteOutput touch the file, and the receiver gets there
\* with a FIN in its hands.
LEMMA DiskSteps ==
  ASSUME EndInv, [Next]_vars, disk' # disk
  PROVE  /\ acked = Frames /\ verdict = "none"
         /\ disk' \in {"partial", "payload"}
         /\ UNCHANGED <<rcvd, acked, verdict>>
<1> USE DEF senderVars, ackVars, listenerVars, receiverVars
<1>1. OpenOutput \/ WriteOutput
  <2>1. ~UNCHANGED vars /\ ~Returned
    BY DEF vars, Returned
  <2>2. ~Sender
    BY DEF Sender, SendStart, Snapshot, SendNew, SelectResend, SendAgain, Poll, SendFin,
           JoinReceiver, StopListener, CheckReceiver, Verify, EncodeRaises
  <2>3. ~Listener
    BY DEF Listener, Hear, Merge, StopListening
  <2>4. ~Environment
    BY DEF Environment, LoseForward, LoseBackward, ReplayStart, DiskFails, Crash
  <2>5. ~Receive /\ ~ReceiveNothing /\ ~SendAck /\ ~SkipAck /\ ~SendNack /\ ~SendLastAck
    BY DEF Receive, ReceiveNothing, SendAck, SkipAck, SendNack, SendLastAck
  <2> QED BY <2>1, <2>2, <2>3, <2>4, <2>5 DEF Next, Receiver
<1>2. rpc \in {"fin", "write"} /\ ~ReceiverGone
  BY <1>1 DEF OpenOutput, WriteOutput, ReceiverGone, Gone
<1>3. acked = Frames /\ spc \in Finishing
  BY <1>2 DEF EndInv, FinInv, Finishing
<1>4. verdict = "none"
  BY <1>2, <1>3 DEF EndInv, VerdictInv, Finishing
<1>5. disk' \in {"partial", "payload"} /\ UNCHANGED <<rcvd, acked, verdict>>
  BY <1>1 DEF OpenOutput, WriteOutput, Truncated
<1> QED BY <1>3, <1>4, <1>5

\* Every step that touches the output file is taken with every frame
\* acknowledged to the sender, whatever the link does.
THEOREM OutputWaitsForAcks == Spec => OutputAfterFullAck
<1>1. EndInv /\ [Next]_vars => [disk' # disk => acked = Frames]_vars
  BY DiskSteps
<1> QED BY <1>1, EndInvariance, PTL DEF Spec, OutputAfterFullAck

-----------------------------------------------------------------------------
(* What the receiver knows, on a link that does not replay START.          *)

SafeInv == StartInv /\ AcksSound

LEMMA SafeInit == Init => SafeInv
<1> SUFFICES ASSUME Init PROVE SafeInv
  OBVIOUS
<1>1. Len(fwd) = 0 /\ Len(bwd) = 0 /\ Len(heard) = 0
  BY EmptySeq DEF Init
<1>2. StartInv /\ AcksSound
  BY <1>1 DEF Init, StartInv, AcksSound
<1> QED BY <1>2 DEF SafeInv

\* Steps of the sender that leave the two queues alone.
LEMMA SafeSenderLocal ==
  ASSUME TypeOK, SafeInv,
         \/ Snapshot \/ SelectResend \/ Poll \/ JoinReceiver \/ StopListener
         \/ CheckReceiver \/ Verify \/ EncodeRaises
  PROVE  SafeInv'
<1> USE DEF SafeInv, senderVars, ackVars, listenerVars, receiverVars
<1>1. CASE Snapshot
  BY <1>1 DEF Snapshot, AllAcked, StartInv, AcksSound
<1>2. CASE SelectResend
  BY <1>2 DEF SelectResend, StartInv, AcksSound
<1>3. CASE Poll
  BY <1>3 DEF Poll, StartInv, AcksSound
<1>4. CASE JoinReceiver
  BY <1>4 DEF JoinReceiver, StartInv, AcksSound
<1>5. CASE StopListener
  BY <1>5 DEF StopListener, StartInv, AcksSound
<1>6. CASE CheckReceiver
  BY <1>6 DEF CheckReceiver, JoinSucceeded, Gone, StartInv, AcksSound
<1>7. CASE Verify
  BY <1>7 DEF Verify, StartInv, AcksSound
<1>8. CASE EncodeRaises
  BY <1>8 DEF EncodeRaises, StartInv, AcksSound
<1> QED BY <1>1, <1>2, <1>3, <1>4, <1>5, <1>6, <1>7, <1>8

\* Steps of the sender that put one frame f in the forward queue.
LEMMA SafeSenderPut ==
  ASSUME TypeOK, SafeInv, SendStart \/ SendNew \/ SendAgain \/ SendFin
  PROVE  SafeInv'
<1> USE DEF SafeInv, senderVars, ackVars, listenerVars, receiverVars
<1>0. /\ TotalFrames \in Nat
      /\ \A s \in Frames : Data(s).type = "DATA"
      /\ Start.type = "START" /\ Fin.type = "FIN"
  BY ConstantsAssumption DEF Data, Start, Fin
<1>1. ASSUME NEW f \in ForwardFrame, Send(f)
      PROVE  /\ fwd \in Seq(ForwardFrame) /\ Len(fwd) \in Nat
             /\ Len(fwd') = Len(fwd) + 1
             /\ \A i \in 1 .. Len(fwd) : fwd'[i] = fwd[i]
             /\ fwd'[Len(fwd) + 1] = f
  BY <1>1, PutQueue, LenProperties DEF Send, TypeOK
<1>2. CASE SendStart
  <2>1. Len(fwd) = 0 /\ Len(fwd') = 1 /\ fwd'[1] = Start
    BY <1>1, <1>2, FrameTypes, EmptySeq DEF SendStart, StartInv
  <2>2. StartInv' /\ AcksSound'
    BY <1>0, <1>2, <2>1 DEF SendStart, StartInv, AcksSound
  <2> QED BY <2>2
<1>3. CASE SendNew \/ SendAgain
  <2>1. \E s \in Frames : Send(Data(s))
    BY <1>0, <1>3 DEF SendNew, SendAgain, WindowOpen, TypeOK, Frames
  <2>2. PICK s \in Frames : Send(Data(s))
    BY <2>1
  <2>3. Data(s) \in ForwardFrame /\ Data(s).type = "DATA"
    BY <1>0, FrameTypes
  <2>4. \A i \in 1 .. Len(fwd') : fwd'[i].type = "DATA" \/ (i \in 1 .. Len(fwd) /\ fwd'[i] = fwd[i])
    BY <1>1, <2>2, <2>3
  <2>5. StartInv'
    BY <1>3, <2>4 DEF SendNew, SendAgain, StartInv
  <2>6. AcksSound'
    BY <1>3 DEF SendNew, SendAgain, AcksSound
  <2> QED BY <2>5, <2>6
<1>4. CASE SendFin
  <2>1. \A i \in 1 .. Len(fwd') : fwd'[i].type = "FIN" \/ (i \in 1 .. Len(fwd) /\ fwd'[i] = fwd[i])
    BY <1>0, <1>1, <1>4, FrameTypes DEF SendFin
  <2>2. StartInv' /\ AcksSound'
    BY <1>4, <2>1 DEF SendFin, StartInv, AcksSound
  <2> QED BY <2>2
<1> QED BY <1>2, <1>3, <1>4

LEMMA SafeListener == ASSUME TypeOK, SafeInv, Listener PROVE SafeInv'
<1> USE DEF SafeInv, senderVars, ackVars, listenerVars, receiverVars
<1>1. CASE Hear
  <2>1. /\ bwd[1] = Head(bwd) /\ 1 \in 1 .. Len(bwd)
        /\ \A i \in 1 .. Len(bwd') : i + 1 \in 1 .. Len(bwd) /\ bwd'[i] = bwd[i + 1]
        /\ Len(heard') = 1 /\ heard'[1] = bwd[1]
    BY <1>1, TakeQueue DEF Hear, TypeOK
  <2>2. StartInv'
    BY <1>1 DEF Hear, StartInv
  <2>3. AcksSound'
    BY <1>1, <2>1 DEF Hear, AcksSound
  <2> QED BY <2>2, <2>3
<1>2. CASE Merge
  <2>1. 1 \in 1 .. Len(heard) /\ Len(heard') = 0
    BY <1>2, LenProperties, EmptySeq DEF Merge, TypeOK
  <2>2. acked \subseteq acked' /\ acked' \subseteq rcvd
    BY <1>2, <2>1 DEF Merge, MergeAck, SetMissing, AcksSound
  <2>3. StartInv' /\ AcksSound'
    BY <1>2, <2>1, <2>2 DEF Merge, StartInv, AcksSound
  <2> QED BY <2>3
<1>3. CASE StopListening
  BY <1>3 DEF StopListening, StartInv, AcksSound
<1> QED BY <1>1, <1>2, <1>3 DEF Listener

\* A reply that claims at most what the receiver holds keeps the ACKs sound.
LEMMA ReplySound ==
  ASSUME TypeOK, AcksSound, NEW type \in {"ACK", "NACK"}, NEW bits \in SUBSET Frames,
         Reply(type, bits), type = "ACK" => bits \subseteq rcvd,
         UNCHANGED <<acked, rcvd, heard>>
  PROVE  AcksSound'
<1>1. \A i \in 1 .. Len(bwd') :
        bwd'[i] = [type |-> type, bits |-> bits] \/ (i \in 1 .. Len(bwd) /\ bwd'[i] = bwd[i])
  BY PutQueue, LenProperties DEF Reply, TypeOK, BackwardFrame
<1> QED BY <1>1 DEF AcksSound

LEMMA SafeReceive == ASSUME TypeOK, SafeInv, Receive PROVE SafeInv'
<1> USE DEF SafeInv, senderVars, ackVars, listenerVars, receiverVars
<1>1. /\ fwd[1] = Head(fwd) /\ 1 \in 1 .. Len(fwd) /\ Head(fwd) \in ForwardFrame
      /\ \A i \in 1 .. Len(fwd') : /\ i + 1 \in 1 .. Len(fwd) /\ i + 1 # 1
                                  /\ fwd'[i] = fwd[i + 1]
  BY TakeQueue DEF Receive, TypeOK
<1>2. \A i \in 1 .. Len(fwd') : fwd'[i].type # "START"
  BY <1>1 DEF StartInv
<1>3. spc # "start"
  BY <1>1, EmptySeq DEF StartInv, Receive
<1>4. rcvd \subseteq rcvd'
  BY <1>1 DEF Receive, TakeStart, TakeData, TakeFin, StartInv
<1>5. ~started' => rcvd' = {} /\ UNCHANGED <<bwd, heard>> /\ ~started
  BY DEF Receive, TakeStart, TakeData, TakeFin, StartInv
<1>6. rpc' \in {"ack", "recv"} /\ (rpc' = "ack" => started')
  BY DEF Receive, TakeStart, TakeData, TakeFin
<1>7. StartInv'
  BY <1>2, <1>3, <1>5, <1>6 DEF Receive, StartInv
<1>8. AcksSound'
  BY <1>4 DEF Receive, AcksSound
<1> QED BY <1>7, <1>8

LEMMA SafeReceiver == ASSUME TypeOK, SafeInv, Receiver PROVE SafeInv'
<1> USE DEF SafeInv, senderVars, ackVars, listenerVars, receiverVars
<1>1. CASE Receive
  BY <1>1, SafeReceive
<1>2. CASE ReceiveNothing
  BY <1>2 DEF ReceiveNothing, Gone, StartInv, AcksSound
<1>3. CASE SendAck
  <2>1. AcksSound'
    BY <1>3, ReplySound DEF SendAck, AckedBits, TypeOK
  <2>2. StartInv'
    BY <1>3 DEF SendAck, AfterAck, Gone, StartInv
  <2> QED BY <2>1, <2>2
<1>4. CASE SkipAck
  BY <1>4 DEF SkipAck, AfterAck, Gone, StartInv, AcksSound
<1>5. CASE SendNack
  <2>1. AcksSound'
    BY <1>5, ReplySound DEF SendNack
  <2>2. StartInv'
    BY <1>5 DEF SendNack, Gone, StartInv
  <2> QED BY <2>1, <2>2
<1>6. CASE OpenOutput
  BY <1>6 DEF OpenOutput, Gone, StartInv, AcksSound
<1>7. CASE WriteOutput
  BY <1>7 DEF WriteOutput, Gone, StartInv, AcksSound
<1>8. CASE SendLastAck
  <2>1. AcksSound'
    BY <1>8, ReplySound DEF SendLastAck, TypeOK
  <2>2. StartInv'
    BY <1>8 DEF SendLastAck, Gone, StartInv
  <2> QED BY <2>1, <2>2
<1> QED BY <1>1, <1>2, <1>3, <1>4, <1>5, <1>6, <1>7, <1>8 DEF Receiver

LEMMA SafeEnvironment ==
  ASSUME "replay" \notin Faults, TypeOK, SafeInv, Environment PROVE SafeInv'
<1> USE DEF SafeInv, senderVars, ackVars, listenerVars, receiverVars
<1>1. CASE LoseForward
  <2>1. \A i \in 1 .. Len(fwd') : /\ i + 1 \in 1 .. Len(fwd) /\ i + 1 # 1
                                 /\ fwd'[i] = fwd[i + 1]
    BY <1>1, TakeQueue DEF LoseForward, TypeOK
  <2>2. \A i \in 1 .. Len(fwd') : fwd'[i].type # "START"
    BY <2>1 DEF StartInv
  <2>3. spc # "start"
    BY <1>1 DEF LoseForward, StartInv
  <2>4. StartInv' /\ AcksSound'
    BY <1>1, <2>2, <2>3 DEF LoseForward, StartInv, AcksSound
  <2> QED BY <2>4
<1>2. CASE LoseBackward
  <2>1. \A i \in 1 .. Len(bwd') : i + 1 \in 1 .. Len(bwd) /\ bwd'[i] = bwd[i + 1]
    BY <1>2, TakeQueue DEF LoseBackward, TypeOK
  <2>2. StartInv' /\ AcksSound'
    BY <1>2, <2>1 DEF LoseBackward, StartInv, AcksSound
  <2> QED BY <2>2
<1>3. CASE ReplayStart
  BY <1>3 DEF ReplayStart
<1>4. CASE DiskFails
  BY <1>4 DEF DiskFails, Gone, StartInv, AcksSound
<1>5. CASE Crash
  BY <1>5 DEF Crash, Gone, StartInv, AcksSound
<1> QED BY <1>1, <1>2, <1>3, <1>4, <1>5 DEF Environment

LEMMA SafeStep ==
  ASSUME "replay" \notin Faults, TypeOK, SafeInv, [Next]_vars PROVE SafeInv'
<1>1. CASE UNCHANGED vars
  BY <1>1 DEF SafeInv, StartInv, AcksSound, vars, senderVars, ackVars,
              listenerVars, receiverVars
<1>2. CASE Returned
  BY <1>1, <1>2 DEF Returned
<1>3. CASE Sender
  BY <1>3, SafeSenderLocal, SafeSenderPut DEF Sender
<1> QED BY <1>1, <1>2, <1>3, SafeListener, SafeReceiver, SafeEnvironment DEF Next

LEMMA Invariance ==
  ASSUME "replay" \notin Faults PROVE Spec => []IInv
<1>1. Init => IInv
  BY TypeInit, EndInit, SafeInit DEF IInv, SafeInv, EndInv
<1>2. IInv /\ [Next]_vars => IInv'
  BY TypeStep, EndStep, SafeStep DEF IInv, SafeInv, EndInv
<1> QED BY <1>1, <1>2, PTL DEF Spec

-----------------------------------------------------------------------------
(* What follows from it.                                                   *)

\* No ACK under way, no ACK taken and no bit of AckState.acked claims a frame
\* the receiver does not hold, on any link that does not replay START.
THEOREM AcksAreSound ==
  ASSUME "replay" \notin Faults PROVE Spec => []AcksSound
<1>1. IInv => AcksSound
  BY DEF IInv
<1> QED BY <1>1, Invariance, PTL

\* The receiver never has a FIN, taken or coming, with a frame missing: the
\* NACK branch of ReceiverProcess.run is dead code on such a link.
THEOREM FinComesLast ==
  ASSUME "replay" \notin Faults PROVE Spec => []FinOnlyWhenComplete
<1>1. IInv => FinOnlyWhenComplete
  BY DEF IInv, TypeOK, FinInv, AcksSound, FinOnlyWhenComplete, Finishing
<1> QED BY <1>1, Invariance, PTL

-----------------------------------------------------------------------------
(* The engine implements FileDelivery.                                     *)

LEMMA DeliveryStep ==
  ASSUME "replay" \notin Faults, IInv, [Next]_vars
  PROVE  [Delivery!DNext]_(Delivery!deliveryVars)
<1> USE DEF senderVars, ackVars, listenerVars, receiverVars, Delivery!deliveryVars
<1>1. CASE Receive
  <2>1. UNCHANGED <<acked, disk, verdict>>
    BY <1>1 DEF Receive
  <2>2. rcvd' = rcvd \/ \E s \in Frames \ rcvd : rcvd' = rcvd \cup {s}
    <3>1. fwd[1] = Head(fwd) /\ 1 \in 1 .. Len(fwd) /\ Head(fwd) \in ForwardFrame
      BY <1>1, TakeQueue DEF Receive, IInv, TypeOK
    <3>2. CASE Head(fwd).type = "START" /\ TakeStart
      BY <3>1, <3>2 DEF TakeStart, IInv, StartInv
    <3>3. CASE Head(fwd).type = "DATA" /\ TakeData(Head(fwd).seq)
      BY <3>1, <3>3, FrameTypes DEF TakeData
    <3>4. CASE TakeFin
      BY <3>4 DEF TakeFin
    <3> QED BY <1>1, <3>2, <3>3, <3>4 DEF Receive
  <2> QED BY <2>1, <2>2 DEF Delivery!DNext, Delivery!Hold
<1>2. CASE Merge
  <2>1. UNCHANGED <<rcvd, disk, verdict>>
    BY <1>2 DEF Merge
  <2>2. 1 \in 1 .. Len(heard)
    BY <1>2, LenProperties, EmptySeq DEF Merge, IInv, TypeOK
  <2>3. acked' = acked \/ \E S \in SUBSET rcvd : acked' = acked \cup S
    BY <1>2, <2>2 DEF Merge, MergeAck, SetMissing, IInv, AcksSound
  <2> QED BY <2>1, <2>3 DEF Delivery!DNext, Delivery!Confirm
<1>3. CASE CheckReceiver
  BY <1>3 DEF CheckReceiver, IInv, VerdictInv, Delivery!DNext, Delivery!Conclude
<1>4. CASE Verify \/ EncodeRaises
  BY <1>4 DEF Verify, EncodeRaises, IInv, VerdictInv, Delivery!DNext, Delivery!Conclude
<1>5. CASE OpenOutput \/ WriteOutput
  <2>1. CASE disk' = disk
    BY <1>5, <2>1 DEF OpenOutput, WriteOutput
  <2>2. CASE disk' # disk
    <3>1. /\ acked = Frames /\ verdict = "none" /\ disk' \in {"partial", "payload"}
          /\ UNCHANGED <<rcvd, acked, verdict>>
      BY <2>2, DiskSteps DEF IInv, EndInv
    <3>2. rcvd = Frames
      BY <3>1 DEF IInv, TypeOK, AcksSound
    <3> QED BY <3>1, <3>2 DEF Delivery!DNext, Delivery!ReplaceFile
  <2> QED BY <2>1, <2>2
<1>6. CASE UNCHANGED <<rcvd, acked, disk, verdict>>
  BY <1>6
<1>7. CASE \/ SendStart \/ Snapshot \/ SendNew \/ SelectResend \/ SendAgain \/ Poll
           \/ SendFin \/ JoinReceiver \/ StopListener
  BY <1>6, <1>7 DEF SendStart, Snapshot, SendNew, SelectResend, SendAgain, Poll, SendFin,
                    JoinReceiver, StopListener
<1>8. CASE \/ Hear \/ StopListening \/ ReceiveNothing \/ SendAck \/ SkipAck \/ SendNack
           \/ SendLastAck
  BY <1>6, <1>8 DEF Hear, StopListening, ReceiveNothing, SendAck, SkipAck, SendNack, SendLastAck
<1>9. CASE Environment \/ Returned \/ UNCHANGED vars
  BY <1>6, <1>9 DEF Environment, LoseForward, LoseBackward, ReplayStart, DiskFails, Crash,
                    Returned, vars
<1> QED BY <1>1, <1>2, <1>3, <1>4, <1>5, <1>7, <1>8, <1>9 DEF Next, Sender, Listener, Receiver

\* send_file implements the abstract delivery: receiver and sender knowledge
\* only grow, the sender never knows more than the receiver holds, the file is
\* replaced only with both complete and no verdict given, and a verdict is final.
THEOREM ImplementsDelivery ==
  ASSUME "replay" \notin Faults PROVE Spec => DeliverySafe
<1>1. Init => Delivery!DInit
  BY DEF Init, Delivery!DInit
<1>2. IInv /\ [Next]_vars => [Delivery!DNext]_(Delivery!deliveryVars)
  BY DeliveryStep
<1> QED BY <1>1, <1>2, Invariance, PTL DEF Spec, DeliverySafe, Delivery!Safe

-----------------------------------------------------------------------------
(* The sender's window.  These hold on any link, a replaying one included. *)

Unconfirmed == {s \in 0 .. next - 1 : s \notin snapAcked}

WindowInv ==
  /\ Unconfirmed \subseteq inflight
  /\ snapAcked \subseteq acked
  /\ Cardinality(Unconfirmed) <= MaxInflight

LEMMA FramesFinite == IsFiniteSet(Frames) /\ \A S \in SUBSET Frames : IsFiniteSet(S)
<1>1. 0 \in Int /\ TotalFrames - 1 \in Int
  BY ConstantsAssumption
<1>2. IsFiniteSet(Frames)
  BY <1>1, FS_Interval DEF Frames
<1> QED BY <1>2, FS_Subset

LEMMA UnconfirmedTyped == TypeOK => Unconfirmed \subseteq Frames
BY ConstantsAssumption DEF TypeOK, Unconfirmed, Frames

LEMMA WindowStep ==
  ASSUME TypeOK, WindowInv, [Next]_vars, TypeOK'
  PROVE  WindowInv'
<1> USE DEF WindowInv, senderVars, ackVars, listenerVars, receiverVars
<1>0. /\ IsFiniteSet(Unconfirmed) /\ Cardinality(Unconfirmed) \in Nat
      /\ IsFiniteSet(inflight) /\ Cardinality(inflight) \in Nat /\ MaxInflight \in Nat
  BY FramesFinite, UnconfirmedTyped, FS_CardinalityType, ConstantsAssumption DEF TypeOK
<1>1. CASE UNCHANGED <<next, snapAcked>> /\ inflight \subseteq inflight' /\ acked \subseteq acked'
  BY <1>1 DEF Unconfirmed
<1>2. CASE Snapshot
  <2>1. Unconfirmed' = {s \in 0 .. next - 1 : s \notin acked}
    BY <1>2 DEF Snapshot, Unconfirmed
  <2>2. Unconfirmed' \subseteq Unconfirmed
    BY <2>1 DEF Unconfirmed
  <2>3. Unconfirmed' \subseteq inflight'
    BY <1>2, <2>1, <2>2 DEF Snapshot, Pruned
  <2>4. Cardinality(Unconfirmed') <= Cardinality(Unconfirmed)
    BY <1>0, <2>2, FS_Subset
  <2>5. Cardinality(Unconfirmed') \in Nat
    BY <1>0, <2>2, FS_Subset, FS_CardinalityType
  <2>6. snapAcked' \subseteq acked'
    BY <1>2 DEF Snapshot, ackVars
  <2> QED BY <1>0, <2>3, <2>4, <2>5, <2>6
<1>3. CASE SendNew
  <2>1. Unconfirmed' \subseteq Unconfirmed \cup {next}
    BY <1>3 DEF SendNew, Unconfirmed, TypeOK
  <2>2. Unconfirmed' \subseteq inflight'
    BY <1>3, <2>1 DEF SendNew
  <2>3. Cardinality(Unconfirmed) <= Cardinality(inflight)
    BY <1>0, FS_Subset
  <2>4. Cardinality(Unconfirmed) < MaxInflight
    BY <1>0, <1>3, <2>3 DEF SendNew, WindowOpen
  <2>5. /\ IsFiniteSet(Unconfirmed \cup {next})
        /\ Cardinality(Unconfirmed \cup {next}) <= Cardinality(Unconfirmed) + 1
    BY <1>0, FS_AddElement
  <2>6. /\ Cardinality(Unconfirmed') <= Cardinality(Unconfirmed \cup {next})
        /\ Cardinality(Unconfirmed') \in Nat /\ Cardinality(Unconfirmed \cup {next}) \in Nat
    BY <2>1, <2>5, FS_Subset, FS_CardinalityType
  <2>7. Cardinality(Unconfirmed') <= MaxInflight
    BY <1>0, <2>4, <2>5, <2>6
  <2>8. snapAcked' \subseteq acked'
    BY <1>3 DEF SendNew
  <2> QED BY <2>2, <2>7, <2>8
<1>4. CASE SendAgain
  <2>1. UNCHANGED <<next, snapAcked>> /\ inflight \subseteq inflight' /\ acked \subseteq acked'
    BY <1>4 DEF SendAgain
  <2> QED BY <1>1, <2>1
<1>5. CASE Merge
  <2>1. UNCHANGED <<next, snapAcked>> /\ inflight \subseteq inflight' /\ acked \subseteq acked'
    BY <1>5 DEF Merge, MergeAck, SetMissing
  <2> QED BY <1>1, <2>1
<1>6. CASE \/ SendStart \/ SelectResend \/ Poll \/ SendFin \/ JoinReceiver \/ StopListener
           \/ CheckReceiver \/ Verify \/ EncodeRaises
  BY <1>1, <1>6 DEF SendStart, SelectResend, Poll, SendFin, JoinReceiver, StopListener,
                    CheckReceiver, Verify, EncodeRaises
<1>7. CASE Hear \/ StopListening \/ Receiver
  BY <1>1, <1>7 DEF Hear, StopListening, Receiver, Receive, ReceiveNothing, SendAck, SkipAck,
                    SendNack, OpenOutput, WriteOutput, SendLastAck
<1>8. CASE Environment \/ Returned \/ UNCHANGED vars
  BY <1>1, <1>8 DEF Environment, LoseForward, LoseBackward, ReplayStart, DiskFails, Crash,
                    Returned, vars
<1> QED BY <1>2, <1>3, <1>4, <1>5, <1>6, <1>7, <1>8 DEF Next, Sender, Listener

LEMMA WindowInvariance == Spec => [](TypeOK /\ CountInv /\ WindowInv)
<1>1. Init => WindowInv
  <2> SUFFICES ASSUME Init PROVE WindowInv
    OBVIOUS
  <2>1. Unconfirmed = {}
    BY DEF Init, Unconfirmed
  <2>2. Cardinality(Unconfirmed) = 0
    BY <2>1, FS_EmptySet
  <2> QED BY <2>1, <2>2, ConstantsAssumption DEF Init, WindowInv
<1>2. TypeOK /\ CountInv /\ WindowInv /\ [Next]_vars => (TypeOK /\ CountInv /\ WindowInv)'
  BY TypeStep, WindowStep
<1> QED BY TypeInit, <1>1, <1>2, PTL DEF Spec

\* Every sent and unacknowledged frame is still in the dict inflight, and there
\* are at most max_inflight_frames of them, whatever retransmissions, pruning
\* by a stale snapshot and late ACKs do, on any link.
THEOREM WindowIsKept == Spec => [](UnackedTracked /\ WindowBounded)
<1>1. ASSUME TypeOK, WindowInv PROVE UnackedTracked /\ WindowBounded
  <2> DEFINE U == {s \in 0 .. next - 1 : s \notin acked}
  <2>1. U \subseteq Unconfirmed
    BY <1>1 DEF WindowInv, Unconfirmed
  <2>2. IsFiniteSet(Unconfirmed)
    BY <1>1, FramesFinite, UnconfirmedTyped
  <2>3. /\ Cardinality(U) <= Cardinality(Unconfirmed)
        /\ Cardinality(U) \in Nat /\ Cardinality(Unconfirmed) \in Nat
    BY <2>1, <2>2, FS_Subset, FS_CardinalityType
  <2>4. Cardinality(U) <= MaxInflight
    BY <1>1, <2>3, ConstantsAssumption DEF WindowInv
  <2>5. UnackedTracked
    BY <1>1, <2>1 DEF WindowInv, UnackedTracked, Unconfirmed
  <2> QED BY <2>4, <2>5 DEF WindowBounded
<1> QED BY <1>1, WindowInvariance, PTL

\* The window in particular: no more than max_inflight_frames frames are on
\* their way, on any link.
THEOREM WindowNeverOverrun == Spec => []WindowBounded
BY WindowIsKept, PTL

-----------------------------------------------------------------------------
(* Who waits for whom.                                                     *)

\* send_file in a put without room, or in the join of a receiver that lives.
SenderWaits ==
  \/ /\ Len(fwd) = QueueDepth
     /\ \/ spc \in {"start", "fin"}
        \/ spc = "fill" /\ WindowOpen
        \/ spc = "resend" /\ resend # {}
  \/ spc = "join" /\ ~ReceiverGone

\* ReceiverProcess.run without anything to do, or in a put without room.
ReceiverWaits ==
  \/ rpc = "recv" /\ ~started /\ fwd = << >>
  \/ /\ Len(bwd) = QueueDepth
     /\ \/ rpc \in {"ack", "reply"}
        \/ rpc = "fin" /\ rcvd # Frames

\* The listener at its end, or in a get from an empty queue.
ListenerWaits == ~listening \/ (heard = << >> /\ bwd = << >> /\ ~stop)

\* The listener listens as long as the sender may fill a queue or wait for the
\* receiver, and START is the first frame until the receiver has it, replayed
\* or not, on a link that loses nothing.
WaitInv ==
  /\ ~listening => stop
  /\ stop => spc \in {"check", "verify", "done"}
  /\ "loss" \notin Faults =>
       /\ spc = "start" => fwd = << >>
       /\ spc # "start" /\ ~started => fwd # << >> /\ Head(fwd) = Start

\* Nothing is answered before the receiver has START.
QuietInv ==
  ~started => bwd = << >> /\ heard = << >> /\ acked = {} /\ rpc \in {"recv"} \cup Gone

LEMMA QuietStep == ASSUME TypeOK, QuietInv, [Next]_vars PROVE QuietInv'
<1> SUFFICES ASSUME ~started'
             PROVE  /\ bwd' = << >> /\ heard' = << >> /\ acked' = {}
                    /\ rpc' \in {"recv"} \cup Gone
  BY DEF QuietInv, Gone
<1> USE DEF QuietInv, Gone, senderVars, ackVars, listenerVars, receiverVars
<1>1. CASE \/ SendStart \/ Snapshot \/ SendNew \/ EncodeRaises \/ SelectResend
           \/ SendAgain \/ Poll \/ SendFin \/ JoinReceiver \/ StopListener \/ Verify
           \/ LoseForward \/ ReplayStart \/ Returned \/ UNCHANGED vars
  BY <1>1 DEF SendStart, Snapshot, SendNew, EncodeRaises, SelectResend, SendAgain, Poll,
              SendFin, JoinReceiver, StopListener, Verify, LoseForward, ReplayStart,
              Returned, vars
<1>2. CASE CheckReceiver
  BY <1>2 DEF CheckReceiver
<1>3. CASE Hear \/ Merge \/ StopListening \/ LoseBackward
  BY <1>3 DEF Hear, Merge, StopListening, LoseBackward
<1>4. CASE Receive
  <2>1. ~started /\ rpc' = "recv"
    BY <1>4 DEF Receive, TakeStart, TakeData, TakeFin
  <2> QED BY <1>4, <2>1 DEF Receive
<1>5. CASE \/ ReceiveNothing \/ SendAck \/ SkipAck \/ SendNack \/ OpenOutput
           \/ WriteOutput \/ SendLastAck
  BY <1>5 DEF ReceiveNothing, SendAck, SkipAck, SendNack, OpenOutput, WriteOutput, SendLastAck
<1>6. CASE DiskFails \/ Crash
  BY <1>6 DEF DiskFails, Crash
<1> QED BY <1>1, <1>2, <1>3, <1>4, <1>5, <1>6
        DEF Next, Sender, Listener, Receiver, Environment

\* A put leaves the first frame where it is.
LEMMA PutKeepsHead ==
  ASSUME TypeOK, NEW f \in ForwardFrame, fwd' = Append(fwd, f)
  PROVE  /\ fwd' # << >> /\ (fwd # << >> => Head(fwd') = Head(fwd))
         /\ fwd = << >> => Head(fwd') = f
<1>1. fwd \in Seq(ForwardFrame)
  BY DEF TypeOK
<1>2. Append(fwd, f) # << >>
  BY <1>1, AppendProperties
<1>3. Head(Append(fwd, f)) = IF fwd = << >> THEN f ELSE Head(fwd)
  BY <1>1, HeadTailAppend
<1> QED BY <1>2, <1>3

LEMMA WaitStep == ASSUME TypeOK, WaitInv, [Next]_vars PROVE WaitInv'
<1> USE DEF WaitInv, senderVars, ackVars, listenerVars, receiverVars
<1>1. CASE SendStart
  <2>1. Start \in ForwardFrame /\ fwd' = Append(fwd, Start)
    BY <1>1, FrameTypes DEF SendStart, Send
  <2> QED BY <1>1, <2>1, PutKeepsHead DEF SendStart
<1>2. CASE SendNew \/ SendAgain \/ SendFin \/ ReplayStart
  <2>1. PICK f \in ForwardFrame : fwd' = Append(fwd, f)
    <3>1. CASE SendNew
      <4>1. next \in Frames
        BY <3>1, ConstantsAssumption DEF SendNew, WindowOpen, TypeOK, Frames
      <4> QED BY <3>1, <4>1, FrameTypes DEF SendNew, Send
    <3>2. CASE SendAgain
      BY <3>2, FrameTypes DEF SendAgain, Send, TypeOK
    <3>3. CASE SendFin \/ ReplayStart
      BY <3>3, FrameTypes DEF SendFin, Send, ReplayStart
    <3> QED BY <1>2, <3>1, <3>2, <3>3
  <2>2. spc # "start" /\ spc' # "start" /\ UNCHANGED <<started, listening, stop>>
    BY <1>2 DEF SendNew, SendAgain, SendFin, ReplayStart
  <2>3. stop' => spc' \in {"check", "verify", "done"}
    BY <1>2 DEF SendNew, SendAgain, SendFin, ReplayStart
  <2> QED BY <2>1, <2>2, <2>3, PutKeepsHead
<1>3. CASE Receive
  <2>1. ~started' => ~started /\ Head(fwd).type # "START"
    BY <1>3, HeadTailProperties DEF Receive, TakeStart, TakeData, TakeFin, TypeOK, ForwardFrame,
                                   Start, Data, Fin
  <2>2. UNCHANGED <<spc, listening, stop>> /\ fwd # << >>
    BY <1>3 DEF Receive
  <2> QED BY <2>1, <2>2 DEF Start
<1>4. CASE \/ Snapshot \/ SelectResend \/ Poll \/ JoinReceiver \/ StopListener
           \/ CheckReceiver \/ Verify \/ EncodeRaises
  BY <1>4 DEF Snapshot, SelectResend, Poll, JoinReceiver, StopListener, CheckReceiver,
              Verify, EncodeRaises
<1>5. CASE Listener
  <2>1. UNCHANGED <<spc, fwd, started, stop>>
    BY <1>5 DEF Listener, Hear, Merge, StopListening
  <2>2. ~listening' => stop
    <3>1. CASE Hear
      BY <3>1 DEF Hear
    <3>2. CASE Merge
      <4>1. listening' = ~stop /\ stop \in BOOLEAN
        BY <3>2 DEF Merge, TypeOK
      <4> QED BY <4>1
    <3>3. CASE StopListening
      BY <3>3 DEF StopListening
    <3> QED BY <1>5, <3>1, <3>2, <3>3 DEF Listener
  <2> QED BY <2>1, <2>2
<1>6. CASE \/ ReceiveNothing \/ SendAck \/ SkipAck \/ SendNack \/ OpenOutput
           \/ WriteOutput \/ SendLastAck
  BY <1>6 DEF ReceiveNothing, SendAck, SkipAck, SendNack, OpenOutput, WriteOutput, SendLastAck
<1>7. CASE LoseForward \/ LoseBackward \/ DiskFails \/ Crash \/ Returned \/ UNCHANGED vars
  BY <1>7 DEF LoseForward, LoseBackward, DiskFails, Crash, Returned, vars
<1> QED BY <1>1, <1>2, <1>3, <1>4, <1>5, <1>6, <1>7 DEF Next, Sender, Receiver, Environment

\* Sender, listener and receiver never wait for each other all at once, however
\* shallow the queues are, while the receiver lives: a sender held up by a full
\* queue faces a receiver that can take a frame, or one held up by a queue the
\* listener can empty.  Only where a link has lost START may all three wait,
\* with the sender in its join, which gives up after five seconds.
THEOREM NoCircularWait ==
  Spec => [](SenderWaits /\ ReceiverWaits /\ ListenerWaits =>
               spc = "join" /\ "loss" \in Faults /\ TotalFrames = 0)
<1>1. Init => WaitInv /\ QuietInv
  BY DEF Init, WaitInv, QuietInv
<1>2. TypeOK /\ WaitInv /\ QuietInv /\ [Next]_vars => (WaitInv /\ QuietInv)'
  BY WaitStep, QuietStep
<1>3. ASSUME TypeOK, EndInv, WaitInv, QuietInv, SenderWaits, ReceiverWaits, ListenerWaits
      PROVE  spc = "join" /\ "loss" \in Faults /\ TotalFrames = 0
  <2>1. QueueDepth \in Nat \ {0} /\ Len(<< >>) = 0
    BY ConstantsAssumption
  <2>2. listening /\ bwd = << >>
    BY <1>3 DEF SenderWaits, ListenerWaits, WaitInv
  <2>3. rpc = "recv" /\ ~started /\ fwd = << >>
    BY <1>3, <2>1, <2>2 DEF ReceiverWaits
  <2>4. spc = "join"
    BY <1>3, <2>1, <2>3 DEF SenderWaits
  <2>5. Frames = {}
    BY <1>3, <2>3, <2>4 DEF QuietInv, EndInv, FinInv, Finishing
  <2>6. TotalFrames = 0
    BY <2>5, ConstantsAssumption DEF Frames
  <2> QED BY <1>3, <2>3, <2>4, <2>6 DEF WaitInv
<1> QED BY EndInvariance, <1>1, <1>2, <1>3, PTL DEF Spec

-----------------------------------------------------------------------------
(* What is sent again.                                                     *)

\* missing is the complement of acked from the first ACK on, since no NACK
\* ever comes.
ResendInv ==
  /\ \A i \in 1 .. Len(bwd) : bwd[i].type = "ACK"
  /\ \A i \in 1 .. Len(heard) : heard[i].type = "ACK"
  /\ acked = {} \/ missing = Frames \ acked
  /\ snapAcked = {} \/ snapMissing = Frames \ snapAcked
  /\ spc # "resend" => resend = {}

LEMMA ResendReply ==
  ASSUME TypeOK, ResendInv, NEW bits \in SUBSET Frames, Reply("ACK", bits)
  PROVE  \A i \in 1 .. Len(bwd') : bwd'[i].type = "ACK"
<1> DEFINE e == [type |-> "ACK", bits |-> bits]
<1>1. bwd \in Seq(BackwardFrame) /\ e \in BackwardFrame /\ bwd' = Append(bwd, e)
  BY DEF TypeOK, BackwardFrame, Reply
<1>2. e.type = "ACK"
  OBVIOUS
<1> HIDE DEF e
<1>3. /\ Len(bwd) \in Nat /\ Len(bwd') = Len(bwd) + 1
      /\ \A i \in 1 .. Len(bwd) : bwd'[i] = bwd[i]
      /\ bwd'[Len(bwd) + 1] = e
  BY <1>1, PutQueue, LenProperties
<1> QED BY <1>2, <1>3 DEF ResendInv

LEMMA ResendStep ==
  ASSUME TypeOK, FinInv, AcksSound, ResendInv, [Next]_vars PROVE ResendInv'
<1> USE DEF ResendInv, senderVars, ackVars, listenerVars, receiverVars
<1>1. CASE Snapshot
  BY <1>1 DEF Snapshot
<1>2. CASE SelectResend
  BY <1>2 DEF SelectResend
<1>3. CASE SendAgain
  BY <1>3 DEF SendAgain
<1>4. CASE \/ SendStart \/ SendNew \/ Poll \/ SendFin \/ JoinReceiver \/ StopListener
           \/ CheckReceiver \/ Verify \/ EncodeRaises
  BY <1>4 DEF SendStart, SendNew, Poll, SendFin, JoinReceiver, StopListener, CheckReceiver,
              Verify, EncodeRaises
<1>5. CASE Hear
  <2>1. /\ Head(bwd) = bwd[1] /\ Len(bwd) \in Nat \ {0} /\ Len(Tail(bwd)) = Len(bwd) - 1
        /\ \A i \in 1 .. Len(Tail(bwd)) : Tail(bwd)[i] = bwd[i + 1]
    BY <1>5, TakeQueue DEF Hear, TypeOK
  <2>2. bwd' = Tail(bwd) /\ heard' = <<Head(bwd)>>
    BY <1>5 DEF Hear
  <2>3. \A i \in 1 .. Len(bwd') : bwd'[i].type = "ACK"
    BY <2>1, <2>2
  <2>4. \A i \in 1 .. Len(heard') : heard'[i].type = "ACK"
    BY <2>1, <2>2
  <2> QED BY <1>5, <2>3, <2>4 DEF Hear
<1>6. CASE Merge
  <2>1. heard # << >> /\ Len(heard) \in Nat \ {0}
    BY <1>6, EmptySeq DEF Merge, TypeOK
  <2>2. heard[1].type = "ACK"
    BY <2>1
  <2>3. missing' = Frames \ acked'
    BY <1>6, <2>2 DEF Merge, MergeAck
  <2> QED BY <1>6, <2>3 DEF Merge
<1>7. CASE SendAck
  BY <1>7, ResendReply DEF SendAck, AckedBits, TypeOK
<1>8. CASE SendLastAck
  BY <1>8, ResendReply DEF SendLastAck, TypeOK
<1>9. CASE SendNack
  <2>1. rcvd = Frames
    BY <1>9 DEF SendNack, FinInv, Finishing, AcksSound, TypeOK
  <2> QED BY <1>9, <2>1 DEF SendNack
<1>10. CASE LoseBackward
  <2>1. /\ Len(bwd) \in Nat \ {0} /\ Len(Tail(bwd)) = Len(bwd) - 1
        /\ \A i \in 1 .. Len(Tail(bwd)) : Tail(bwd)[i] = bwd[i + 1]
    BY <1>10, TakeQueue DEF LoseBackward, TypeOK
  <2>2. \A i \in 1 .. Len(bwd') : bwd'[i].type = "ACK"
    BY <1>10, <2>1 DEF LoseBackward
  <2> QED BY <1>10, <2>2 DEF LoseBackward
<1>11. CASE \/ StopListening \/ Receive \/ ReceiveNothing \/ SkipAck \/ OpenOutput \/ WriteOutput
            \/ LoseForward \/ ReplayStart \/ DiskFails \/ Crash
            \/ Returned \/ UNCHANGED vars
  BY <1>11 DEF StopListening, Receive, ReceiveNothing, SkipAck, OpenOutput, WriteOutput,
               LoseForward, ReplayStart, DiskFails, Crash, Returned, vars
<1> QED BY <1>1, <1>2, <1>3, <1>4, <1>5, <1>6, <1>7, <1>8, <1>9, <1>10, <1>11
        DEF Next, Sender, Listener, Receiver, Environment

LEMMA ResendInvariance ==
  ASSUME "replay" \notin Faults PROVE Spec => []ResendInv
<1>1. Init => ResendInv
  BY EmptySeq DEF Init, ResendInv
<1>2. IInv /\ ResendInv /\ [Next]_vars => ResendInv'
  BY ResendStep DEF IInv
<1> QED BY Invariance, <1>1, <1>2, PTL DEF Spec

\* No NACK is ever under way: set_missing, the only thing that could tell the
\* sender which frames to send again, is never called on a link that replays
\* nothing, however many frames it loses.
THEOREM NeverNacked ==
  ASSUME "replay" \notin Faults
  PROVE  Spec => [](\A i \in 1 .. Len(bwd) : bwd[i].type = "ACK")
<1>1. ResendInv => \A i \in 1 .. Len(bwd) : bwd[i].type = "ACK"
  BY DEF ResendInv
<1> QED BY <1>1, ResendInvariance, PTL

\* Only what was put in the queue is received, tracked or sent again, and after
\* a snapshot no frame known to be received is in the dict inflight.  So as soon
\* as one is known, missing_indexes() lists one, and the branch for frames timed
\* out is not taken.
SentInv ==
  /\ \A i \in 1 .. Len(fwd) : fwd[i].type = "DATA" => fwd[i].seq < next
  /\ \A s \in rcvd \cup inflight \cup resend : s < next
  /\ snapAcked \subseteq acked
  /\ spc = "fill" => inflight \cap snapAcked = {}
  /\ snapAcked # {} => resend \subseteq snapAcked

\* A put of a frame that is no DATA, or a DATA below next', keeps the queue so.
LEMMA SentPut ==
  ASSUME TypeOK, SentInv, NEW f \in ForwardFrame, fwd' = Append(fwd, f),
         next <= next', next' \in Nat, f.type = "DATA" => f.seq < next'
  PROVE  \A i \in 1 .. Len(fwd') : fwd'[i].type = "DATA" => fwd'[i].seq < next'
<1>1. next \in Nat
  BY ConstantsAssumption DEF TypeOK
<1>2. /\ Len(fwd) \in Nat /\ Len(fwd') = Len(fwd) + 1
      /\ \A i \in 1 .. Len(fwd) : fwd'[i] = fwd[i] /\ fwd[i] \in ForwardFrame
      /\ fwd'[Len(fwd) + 1] = f
  BY PutQueue, LenProperties, ElementOfSeq DEF TypeOK
<1>3. ASSUME NEW i \in 1 .. Len(fwd), fwd[i].type = "DATA" PROVE fwd[i].seq < next'
  <2>1. fwd[i].seq < next /\ fwd[i].seq \in Frames
    BY <1>2, <1>3, FrameTypes DEF SentInv
  <2> QED BY <1>1, <2>1, ConstantsAssumption DEF Frames
<1> QED BY <1>2, <1>3

LEMMA SentStep ==
  ASSUME TypeOK, AcksSound, ResendInv, SentInv, [Next]_vars PROVE SentInv'
<1> USE DEF SentInv, senderVars, ackVars, listenerVars, receiverVars
<1>0. TotalFrames \in Nat /\ next \in Nat /\ \A s \in Frames : s \in Nat
  BY ConstantsAssumption DEF TypeOK, Frames
<1>1. CASE Snapshot
  <2>1. resend' = {} /\ snapAcked' = acked /\ UNCHANGED <<fwd, next, rcvd, acked>>
    BY <1>1 DEF Snapshot, ResendInv
  <2>2. inflight' \subseteq inflight /\ (spc' = "fill" => inflight' \cap snapAcked' = {})
    BY <1>1 DEF Snapshot, Pruned
  <2> QED BY <2>1, <2>2
<1>2. CASE SelectResend
  <2>1. PICK backedOff, timedOut \in SUBSET inflight :
          resend' = FirstOnes(Candidates(backedOff, timedOut))
    BY <1>2 DEF SelectResend
  <2>2. UNCHANGED <<fwd, next, rcvd, acked, inflight, snapAcked>> /\ spc' = "resend"
    BY <1>2 DEF SelectResend
  <2>3. ASSUME snapAcked # {} PROVE resend' \subseteq snapAcked
    <3> DEFINE listed == {s \in Frames \ snapMissing :
                            s < next /\ (s \in inflight => s \in backedOff)}
    <3>1. Frames \ snapMissing = snapAcked
      BY <2>3 DEF ResendInv, TypeOK
    <3>2. listed \subseteq snapAcked
      BY <3>1
    <3>3. snapAcked \subseteq listed
      BY <1>2, <3>1 DEF SelectResend, AcksSound
    <3>4. Candidates(backedOff, timedOut) = listed
      BY <2>3, <3>3 DEF Candidates
    <3> HIDE DEF listed
    <3> QED BY <2>1, <3>2, <3>4 DEF FirstOnes
  <2>4. Candidates(backedOff, timedOut) \subseteq {s \in Frames \cup inflight : s < next}
    BY DEF Candidates
  <2>5. \A s \in resend' : s < next
    BY <2>1, <2>4 DEF FirstOnes
  <2> QED BY <2>2, <2>3, <2>5
<1>3. CASE SendNew
  <2>1. next \in Frames /\ next' = next + 1 /\ next' \in Nat
    BY <1>0, <1>3 DEF SendNew, WindowOpen, Frames
  <2>2. /\ Data(next) \in ForwardFrame /\ fwd' = Append(fwd, Data(next))
        /\ Data(next).seq = next
    BY <1>3, <2>1, FrameTypes DEF SendNew, Send, Data
  <2>3. \A i \in 1 .. Len(fwd') : fwd'[i].type = "DATA" => fwd'[i].seq < next'
    BY <1>0, <2>1, <2>2, SentPut
  <2>4. next \notin snapAcked
    BY <1>0 DEF AcksSound
  <2>5. \A s \in rcvd \cup inflight' \cup resend : s < next'
    BY <1>0, <1>3, <2>1 DEF SendNew, TypeOK
  <2>6. inflight' \cap snapAcked' = {} /\ UNCHANGED <<snapAcked, acked, resend, rcvd>>
    BY <1>3, <2>4 DEF SendNew
  <2> QED BY <2>3, <2>5, <2>6
<1>4. CASE SendAgain
  <2>1. PICK s \in resend : /\ Send(Data(s)) /\ inflight' = inflight \cup {s}
                            /\ resend' = resend \ {s}
    BY <1>4 DEF SendAgain
  <2>2. s < next /\ s \in Frames /\ Data(s).seq = s
    BY <2>1 DEF TypeOK, Data
  <2>3. \A i \in 1 .. Len(fwd') : fwd'[i].type = "DATA" => fwd'[i].seq < next'
    BY <1>0, <1>4, <2>1, <2>2, FrameTypes, SentPut DEF SendAgain, Send
  <2>4. UNCHANGED <<next, rcvd, snapAcked, acked, spc>> /\ spc = "resend"
    BY <1>4 DEF SendAgain
  <2> QED BY <2>1, <2>2, <2>3, <2>4
<1>5. CASE SendStart \/ SendFin \/ ReplayStart
  <2>1. PICK f \in {Start, Fin} : fwd' = Append(fwd, f)
    BY <1>5 DEF SendStart, SendFin, ReplayStart, Send
  <2>2. f \in ForwardFrame /\ f.type # "DATA"
    BY <2>1, FrameTypes DEF Start, Fin
  <2>3. UNCHANGED <<next, rcvd, inflight, resend, snapAcked, acked>>
    BY <1>5 DEF SendStart, SendFin, ReplayStart
  <2>4. spc' = "fill" => spc = "fill"
    BY <1>5 DEF SendStart, SendFin, ReplayStart
  <2> QED BY <1>0, <2>1, <2>2, <2>3, <2>4, SentPut
<1>6. CASE \/ Poll \/ JoinReceiver \/ StopListener \/ CheckReceiver \/ Verify \/ EncodeRaises
  BY <1>6 DEF Poll, JoinReceiver, StopListener, CheckReceiver, Verify, EncodeRaises
<1>7. CASE Hear \/ StopListening
  BY <1>7 DEF Hear, StopListening
<1>8. CASE Merge
  <2>1. acked \subseteq acked' /\ UNCHANGED <<fwd, next, rcvd, inflight, resend, snapAcked, spc>>
    BY <1>8 DEF Merge, MergeAck, SetMissing
  <2> QED BY <2>1
<1>9. CASE Receive
  <2>1. /\ Head(fwd) = fwd[1] /\ Len(fwd) \in Nat \ {0} /\ Len(Tail(fwd)) = Len(fwd) - 1
        /\ \A i \in 1 .. Len(Tail(fwd)) : Tail(fwd)[i] = fwd[i + 1]
    BY <1>9, TakeQueue DEF Receive, TypeOK
  <2>2. \A i \in 1 .. Len(fwd') : fwd'[i].type = "DATA" => fwd'[i].seq < next
    BY <1>9, <2>1 DEF Receive
  <2>3. \A s \in rcvd' : s < next
    <3>1. rcvd' \subseteq rcvd \/ (fwd[1].type = "DATA" /\ rcvd' = rcvd \cup {fwd[1].seq})
      BY <1>9, <2>1 DEF Receive, TakeStart, TakeData, TakeFin
    <3>2. fwd[1].type = "DATA" => fwd[1].seq < next
      BY <2>1
    <3> QED BY <3>1, <3>2
  <2> QED BY <1>9, <2>2, <2>3 DEF Receive
<1>10. CASE LoseForward
  <2>1. /\ Len(fwd) \in Nat \ {0} /\ Len(Tail(fwd)) = Len(fwd) - 1
        /\ \A i \in 1 .. Len(Tail(fwd)) : Tail(fwd)[i] = fwd[i + 1]
    BY <1>10, TakeQueue DEF LoseForward, TypeOK
  <2>2. \A i \in 1 .. Len(fwd') : fwd'[i].type = "DATA" => fwd'[i].seq < next
    BY <1>10, <2>1 DEF LoseForward
  <2> QED BY <1>10, <2>2 DEF LoseForward
<1>11. CASE \/ ReceiveNothing \/ SendAck \/ SkipAck \/ SendNack \/ OpenOutput \/ WriteOutput
            \/ SendLastAck
  BY <1>11 DEF ReceiveNothing, SendAck, SkipAck, SendNack, OpenOutput, WriteOutput, SendLastAck
<1>12. CASE LoseBackward \/ DiskFails \/ Crash \/ Returned \/ UNCHANGED vars
  BY <1>12 DEF LoseBackward, DiskFails, Crash, Returned, vars
<1> QED BY <1>1, <1>2, <1>3, <1>4, <1>5, <1>6, <1>7, <1>8, <1>9, <1>10, <1>11, <1>12
        DEF Next, Sender, Listener, Receiver, Environment

\* From the first acknowledgement on, the resend loop sends only frames the
\* sender knows to be received: a frame that is really missing is never sent
\* again.  ResendOnlyUnacked is what the code says; this is what it does.
THEOREM MissingNeverResent ==
  ASSUME "replay" \notin Faults
  PROVE  Spec => [](snapAcked # {} => resend \subseteq snapAcked)
<1>1. Init => SentInv
  BY EmptySeq DEF Init, SentInv
<1>2. IInv /\ ResendInv /\ SentInv /\ [Next]_vars => SentInv'
  BY SentStep DEF IInv
<1>3. SentInv => (snapAcked # {} => resend \subseteq snapAcked)
  BY DEF SentInv
<1> QED BY Invariance, ResendInvariance, <1>1, <1>2, <1>3, PTL DEF Spec
=============================================================================
