----------------------------- MODULE RFSession -----------------------------
(***************************************************************************)
(* The single-device RF path in its three programs:                        *)
(*   "adapter"  PlutoOptimizedAdapter.send_file (optimized_transfer/       *)
(*              pluto_adapter.py), whose attempts run transfer_file of     *)
(*              ReliableImageTransfer (backup/radio_image_transfer.py);    *)
(*   "main"     main() of radio_image_transfer.py, the same loop without   *)
(*              the last comparison of the file;                           *)
(*   "bc"       backup/bc.py, an earlier main() that scores every packet   *)
(*              of a window on its own.                                    *)
(*                                                                         *)
(* Modulation and correlation are abstract: a capture yields a score from  *)
(* Scores, where 3 stands for the threshold 3.0 and any score may come out *)
(* of any capture unless the link is steady.                               *)
(***************************************************************************)
EXTENDS Integers, FiniteSets

CONSTANTS
  PacketCount,     \* metadata.packet_count, 0 for an empty file
  WindowPackets,   \* window_packets
  MaxRetries,      \* max_retries
  SessionRetries,  \* session_retries
  Candidates,      \* number of gain candidates
  Programs,        \* which of the three
  Scores,          \* what _waveform_score may return
  Faults           \* see FaultKinds

\* "radio": opening the SDR or an SDR call raises.  "disk": mkdir, write_bytes
\* or write_text raises.  "fade": scores may drop below the calibrated one.
FaultKinds == {"radio", "disk", "fade"}
FinTries == 5

\* More packets than the 16 bits of total in a packet's header can say make
\* encode_packet raise struct.error before anything is sent.
PacketLimit == 2^16 - 1

ASSUME ConstantsAssumption ==
  /\ PacketCount \in 0 .. PacketLimit /\ MaxRetries \in Nat
  /\ WindowPackets \in Nat \ {0} /\ SessionRetries \in Nat \ {0}
  /\ Candidates \in Nat \ {0}
  /\ Programs \subseteq {"adapter", "main", "bc"}
  /\ Scores \subseteq Nat
  /\ Faults \subseteq FaultKinds

VARIABLES
  program,
  pc,          \* where the attempt stands
  attempt,     \* the for loop's variable
  radio,       \* "open" while transfer.sdr is set
  onAir,       \* the waveform the cyclic buffer repeats, "none" without a buffer
  gain,        \* index of the gain candidate the radio is set to
  probe,       \* next candidate of auto_calibrate
  best, hello, \* best candidate and its score, hello_score
  received,    \* keys of received
  retries,
  windows,     \* windows sent in this attempt
  finTries,
  output,      \* content of output_dir / name
  reported,    \* transfer_report.json written by this call
  verdict,
  trouble,     \* history: in this attempt a call raised, or a capture scored below
               \* the calibration
  heard,       \* history: packets whose own waveform a capture of this attempt
               \* showed well enough to detect them, looked for or not
  faded        \* history: in this attempt a packet's own waveform came out below
               \* the calibration

radioVars == <<radio, onAir, gain>>
calVars == <<probe, best, hello>>
dataVars == <<received, retries, windows, heard, faded>>
fileVars == <<output, reported>>
vars == <<program, pc, attempt, radioVars, calVars, dataVars, finTries, fileVars, verdict, trouble>>

Packets == 0 .. PacketCount - 1

\* A file of no bytes is complete as soon as it is created.
Truncated == IF PacketCount = 0 THEN "payload" ELSE "partial"

Capture == IF "fade" \in Faults THEN Scores ELSE {s \in Scores : s >= hello}

\* score >= max(3.0, factor * hello_score)
HandshakeAboveHello(s) == s >= 3 /\ 4 * s >= 5 * hello                 \* mutant
HandshakePasses(s) == s >= 3 /\ 4 * s >= 3 * hello
DataPasses(s) == s >= 3 /\ 10 * s >= 7 * hello
FinPasses(s) == s >= 3 /\ 2 * s >= hello

Init ==
  /\ program \in Programs /\ pc = "connect" /\ attempt = 1
  /\ radio = "closed" /\ onAir = "none" /\ gain = 0
  /\ probe = 1 /\ best = 0 /\ hello = 0
  /\ received = {} /\ retries = 0 /\ windows = 0 /\ finTries = 0
  /\ heard = {} /\ faded = FALSE
  /\ output \in {"absent", "other", "payload"} /\ reported = FALSE
  /\ verdict = "none" /\ trouble = FALSE

\* mutant
KeepReceived ==
  UNCHANGED <<received, retries, windows>> /\ heard' = {} /\ faded' = FALSE
FreshLocals ==
  received' = {} /\ retries' = 0 /\ windows' = 0 /\ heard' = {} /\ faded' = FALSE

\* A new ReliableImageTransfer, and transfer_file's locals from the beginning.
Connect ==
  /\ pc = "connect"
  /\ radio' = "open" /\ UNCHANGED <<onAir, gain>>
  /\ probe' = 1 /\ best' = 0 /\ hello' = 0
  /\ FreshLocals /\ finTries' = 0
  /\ pc' = "probe" /\ trouble' = FALSE
  /\ UNCHANGED <<program, attempt, fileVars, verdict>>

ConnectFails ==
  /\ "radio" \in Faults
  /\ pc = "connect"
  /\ pc' = "raised" /\ trouble' = TRUE
  /\ UNCHANGED <<program, attempt, radioVars, calVars, dataVars, finTries, fileVars, verdict>>

RadioFails ==
  /\ "radio" \in Faults
  /\ pc \in {"probe", "handshake", "window", "fin"}
  /\ pc' = "raised" /\ trouble' = TRUE
  /\ UNCHANGED <<program, attempt, radioVars, calVars, dataVars, finTries, fileVars, verdict>>

\* auto_calibrate: the first of the best candidates wins.
Probe ==
  /\ pc = "probe" /\ probe <= Candidates
  /\ \E s \in Scores :
       IF best = 0 \/ s > hello
       THEN best' = probe /\ hello' = s
       ELSE UNCHANGED <<best, hello>>
  /\ gain' = probe /\ probe' = probe + 1
  /\ onAir' = "hello"
  /\ UNCHANGED <<program, pc, attempt, radio, dataVars, finTries, fileVars, verdict, trouble>>

LeaveLastGain == UNCHANGED gain                                        \* mutant
SetBestGain == gain' = best

Calibrated ==
  /\ pc = "probe" /\ probe > Candidates
  /\ IF hello < 3
     THEN pc' = "raised" /\ UNCHANGED gain
     ELSE pc' = "handshake" /\ SetBestGain
  /\ UNCHANGED <<program, attempt, radio, onAir, calVars, dataVars, finTries, fileVars, verdict, trouble>>

Handshake ==
  /\ pc = "handshake"
  /\ onAir' = "hello"
  /\ \E s \in Capture :
       /\ pc' = IF HandshakePasses(s) THEN "window" ELSE "raised"
       /\ trouble' = (trouble \/ s < hello)
  /\ UNCHANGED <<program, attempt, radio, gain, calVars, dataVars, finTries, fileVars, verdict>>

-----------------------------------------------------------------------------
(* The window loop of transfer_file.                                       *)

Missing == Packets \ received
Selected == {p \in Missing : Cardinality({q \in Missing : q < p}) < WindowPackets}

ResetAlways(progress) == 0                                             \* mutant
NextRetries(progress) == IF progress THEN 0 ELSE retries + 1

ForAllOfWindow(score) ==                                               \* mutant
  received' = received \cup {p \in Selected : \E q \in Selected : DataPasses(score[q])}
CountEach(score) == received' = received \cup {p \in Selected : DataPasses(score[p])}

CountAll == received' = received \cup Selected

\* What a capture shows of each packet, whether or not _transmit_window asks.
Show(score) ==
  /\ heard' = heard \cup {p \in Selected : DataPasses(score[p])}
  /\ faded' = (faded \/ \E p \in Selected : score[p] < hello)

AfterWindow ==
  /\ pc = "window" /\ received # Packets
  /\ onAir' = "data"
  /\ windows' = windows + 1
  /\ retries' = NextRetries(received' # received)
  /\ pc' = IF retries' > MaxRetries THEN "raised" ELSE "window"
  /\ UNCHANGED <<program, attempt, radio, gain, calVars, finTries, fileVars, verdict>>

\* _transmit_window: one good score of the whole window stands for all of its
\* packets, otherwise each packet needs a good score of its own.
SendWindow ==
  /\ program # "bc"
  /\ \E whole \in Capture, score \in [Selected -> Capture] :
       /\ IF DataPasses(whole) THEN CountAll ELSE CountEach(score)
       /\ Show(score)
       /\ trouble' = (trouble \/ whole < hello)
  /\ AfterWindow

\* _transmit_window of bc.py: there is no score of the window.
SendWindowEach ==
  /\ program = "bc"
  /\ \E score \in [Selected -> Capture] :
       /\ CountEach(score)
       /\ Show(score)
       /\ trouble' = (trouble \/ \E p \in Selected : score[p] < hello)
  /\ AfterWindow

AllReceived == received = Packets    \* len(received) < packet_count is false

WindowsDone ==
  /\ pc = "window" /\ AllReceived
  /\ pc' = "fin"
  /\ UNCHANGED <<program, attempt, radioVars, calVars, dataVars, finTries, fileVars, verdict, trouble>>

SendFin ==
  /\ pc = "fin"
  /\ onAir' = "fin"
  /\ finTries' = finTries + 1
  /\ \E s \in Capture :
       /\ pc' = IF FinPasses(s) THEN "save"
                ELSE IF finTries' = FinTries THEN "raised" ELSE "fin"
       /\ trouble' = (trouble \/ s < hello)
  /\ UNCHANGED <<program, attempt, radio, gain, calVars, dataVars, fileVars, verdict>>

-----------------------------------------------------------------------------
(* The file.  The digest check before it compares the source's own chunks  *)
(* with the source's digest, and cannot fail.                              *)

Save ==
  /\ pc = "save"
  /\ output' = "payload"
  /\ pc' = "stats"
  /\ UNCHANGED <<program, attempt, radioVars, calVars, dataVars, finTries, reported, verdict, trouble>>

\* mkdir or open raises, or the write raises with the file truncated.
SaveFails ==
  /\ "disk" \in Faults
  /\ pc = "save"
  /\ output' \in {output, Truncated}
  /\ pc' = "raised" /\ trouble' = TRUE
  /\ UNCHANGED <<program, attempt, radioVars, calVars, dataVars, finTries, reported, verdict>>

\* The air bit rate divides by the samples of the data windows: none were
\* sent for an empty file.
WriteReport ==
  /\ pc = "stats" /\ windows > 0
  /\ reported' = TRUE
  /\ pc' = "returned"
  /\ UNCHANGED <<program, attempt, radioVars, calVars, dataVars, finTries, output, verdict, trouble>>

StatsFail ==
  /\ pc = "stats"
  /\ windows = 0 \/ "disk" \in Faults
  /\ pc' = "raised"
  /\ trouble' = (trouble \/ windows > 0)
  /\ UNCHANGED <<program, attempt, radioVars, calVars, dataVars, finTries, fileVars, verdict>>

-----------------------------------------------------------------------------
(* The adapter's loop: except sleeps, finally closes.                      *)

LeaveRadioOpen == UNCHANGED <<radio, onAir>>                           \* mutant
CloseRadio == radio' = "closed" /\ onAir' = "none"

SameAttempt == UNCHANGED attempt                                      \* mutant
CountAttempt == attempt' = attempt + 1

Retry ==
  /\ pc = "raised"
  /\ CloseRadio
  /\ IF attempt < SessionRetries
     THEN CountAttempt /\ pc' = "connect" /\ UNCHANGED verdict
     ELSE pc' = "done" /\ verdict' = "failed" /\ UNCHANGED attempt
  /\ UNCHANGED <<program, gain, calVars, dataVars, finTries, fileVars, trouble>>

\* The adapter reads the file again and compares it with the source.
Return ==
  /\ program = "adapter" /\ pc = "returned"
  /\ CloseRadio
  /\ pc' = "done"
  /\ verdict' = IF output = "payload" THEN "ok" ELSE "failed"
  /\ UNCHANGED <<program, attempt, gain, calVars, dataVars, finTries, fileVars, trouble>>

MainReturns ==
  /\ program # "adapter" /\ pc = "returned"
  /\ CloseRadio
  /\ pc' = "done" /\ verdict' = "ok"
  /\ UNCHANGED <<program, attempt, gain, calVars, dataVars, finTries, fileVars, trouble>>

Ended == pc = "done" /\ UNCHANGED vars

Session == \/ Connect \/ ConnectFails \/ RadioFails \/ Probe \/ Calibrated \/ Handshake
           \/ SendWindow \/ SendWindowEach \/ WindowsDone \/ SendFin \/ Save \/ SaveFails
           \/ WriteReport \/ StatsFail \/ Retry \/ Return \/ MainReturns
Next == Session \/ Ended

\* One thread that always goes on: every call it waits for returns or raises.
Spec == Init /\ [][Next]_vars /\ WF_vars(Session)

-----------------------------------------------------------------------------
TypeOK ==
  /\ program \in Programs
  /\ pc \in {"connect", "probe", "handshake", "window", "fin", "save", "stats",
             "raised", "returned", "done"}
  /\ attempt \in 1 .. SessionRetries
  /\ radio \in {"open", "closed"} /\ onAir \in {"none", "hello", "data", "fin"}
  /\ gain \in 0 .. Candidates /\ probe \in 1 .. Candidates + 1
  /\ best \in 0 .. Candidates /\ hello \in Scores \cup {0}
  /\ received \subseteq Packets /\ heard \subseteq Packets /\ faded \in BOOLEAN
  /\ retries \in 0 .. MaxRetries + 1 /\ windows \in Nat /\ finTries \in 0 .. FinTries
  /\ output \in {"absent", "other", "partial", "payload"} /\ reported \in BOOLEAN
  /\ verdict \in {"none", "ok", "failed"} /\ trouble \in BOOLEAN

\* The window loop is bounded although every progress resets the retry
\* counter: an attempt sends at most max_retries fruitless windows per packet.
\* For the same reason a transfer that succeeds reports no retries, whatever
\* the link did: its last window made progress.
WindowBudget ==
  /\ windows <= (MaxRetries + 1) * Cardinality(received) + retries
  /\ pc \in {"window", "fin", "save"} => retries <= MaxRetries
  /\ pc = "returned" => retries = 0

\* Handshake, data and FIN go out with the gains of the best calibration
\* score, not with those probed last, and never with a score below 3.0.
BestGainUsed ==
  pc \in {"handshake", "window", "fin", "save"} => gain = best /\ hello >= 3

\* Nothing is retried without a reason: once a calibration has passed, the
\* attempt fails only when a call has raised or a capture has come out below
\* the calibrated score.  No threshold is above it.
RaisedForAReason == pc = "raised" /\ hello >= 3 /\ PacketCount > 0 => trouble

\* README section 5 scores each packet and stores those detected.  bc.py does so
\* on any link.  The others count a whole window on one score, and so do it only
\* as long as every packet comes out no worse than the calibration did; once one
\* has faded, a packet nobody could detect may be counted.  (The payload stored is
\* the sender's own, so the digest at the end cannot tell.)  Nothing counted in
\* an earlier attempt helps.
DetectedOnly == received \subseteq heard
CountedWereDetected == program = "bc" \/ ~faded => DetectedOnly

\* The loop of attempts as AttemptLoop promises it: an attempt starts from a
\* radio that is released and silent and from nothing counted, the output is
\* touched only with every packet counted in this attempt, and success is
\* announced only over a complete file.
Attempts == INSTANCE AttemptLoop WITH
  MaxAttempts <- SessionRetries,
  Empty <- PacketCount = 0,
  radio <- IF radio = "closed" /\ onAir = "none" THEN "closed" ELSE "open",
  complete <- received = Packets,
  written <- pc \in {"stats", "returned"}
ImplementsAttempts == Attempts!Safe

\* README section 5: after the file is saved the statistics are computed and
\* transfer_report.json is written.
SavedLeadsToReport == (pc = "stats") ~> reported

\* send_file ends: captures, windows, FIN tries and attempts are all bounded.
Ends == <>(verdict # "none")
=============================================================================
