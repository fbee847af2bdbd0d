# Verification of radio_fix

TLA+ models of the transfer engines of this repository, the runs that check
them with TLC, and proofs about every one of them checked by TLAPS.

`tlc -config <run>.cfg <module>` repeats a run (`PROJECT.json` says which module
a cfg belongs to), `tlapm <module>.tla` the proofs of a `*Proofs` module. Paths
below are relative to `src/`.

## 1. The system

The repository sends a file over an ADALM-Pluto radio. There are four ways to
do it. They share the frame format, the acknowledgement bitmap or the OFDM
modem, and little else.

| Component | State it keeps | Operations | Talks to |
|---|---|---|---|
| Streaming engine, `optimized_transfer/runtime.py` | sender: `next_sequence`, `inflight`; `AckState` (`acked`, `missing`) behind a lock; receiver process: manifest, `received_bitmap`, `chunks`, `frames_since_ack`; two bounded queues; the output file | `send_file`, `_ack_listener` (thread), `ReceiverProcess.run` (process), `AckState.merge_ack/set_missing/snapshot` | codec, bitmap, the queues of `InMemoryTransferLink` or a link from `link_factory` |
| Acknowledgement bitmap, `bitmap.py` | size and bytes | set, merge, invert, count, all_set, missing_indexes, to/from bytes | streaming engine, Pluto engine |
| Frame codec, `framing.py` | none (the callers keep the leftover buffer) | encode, `decode_stream` | streaming engine, Pluto engine |
| RF session, `pluto_adapter.py`, `backup/radio_image_transfer.py` and its earlier copy `backup/bc.py` | attempt, SDR handle, gains, received packets, retry counter, output, report | connect, calibrate, handshake, window, FIN, save, report, close | modem, radio |
| Fast path, `fastpath_rf.py` (used by `send_fastpath.py`) | received packets, window size, window index, cached gains | the same steps without retries; sparse validation, adaptive windows | reliable transfer (connect, calibrate), validation cache, modem |
| Validation cache, class `ValidationCache` of `fastpath_rf.py` | a JSON file shared by sessions of any process | `load`, `save` | fast path |
| Pluto engine, `pluto_rf.py` | attempt, driver, `next_sequence`, `inflight`, `ack_bitmap`, chunks | connect and warm-up, calibrate, batches, capture, FIN, write | modem, codec, bitmap, radio |
| OFDM modem, correlation | none | modulation, preamble search, score | all RF paths |
| Configuration, command line, benchmarks, tools | none | parse YAML, call `send_file`, write reports | |

What is hard in each of them, and what makes it correct:

* **Streaming engine.** A process, two threads, a lock, two bounded queues and
  four timeouts. The sender works on snapshots while the listener goes on
  merging. The receiver truncates the output before it writes it, may be killed
  or terminated anywhere, and an older file of the same name may be there.
  Correct means: acknowledgements claim only what is held; no unacknowledged
  frame drops out of the window; the output is touched only when everything is
  acknowledged; a returned result means that the file is there, complete, and
  stays; on a link that loses nothing the call returns.
* **Bitmap and codec.** Edges: padding bits, short payloads, frames cut anywhere,
  payloads that look like headers, length fields that promise too much.
* **RF session.** Loops whose counters are reset on progress, attempts that may
  raise from everywhere, thresholds taken from a calibrated score, exceptions
  after the file has been written. What is counted as received is a score, and
  what is stored is the sender's own payload: no digest can tell a packet that
  nobody heard. Correct means that a packet counted was detectable in a capture
  of the same attempt. In `bc.py` it always is; where a window is scored as a
  whole, it is as long as no packet of its own falls below the calibrated score.
* **Fast path.** Most windows are taken as received without listening; which
  ones are listened to depends on a counter that a failed window must not move.
* **Validation cache.** Read, changed and written back without a lock, by
  truncate-then-write. An entry may be of any age, and its key does not say the
  gains the scenario is configured with by now.
* **Pluto engine.** Three pieces of bookkeeping (bitmap, `inflight`,
  `next_sequence`) must agree for a batch not to be empty or useless; the data
  loop has no exit but completeness; a capture has a fixed length.
* **Captures.** The receiver starts anywhere in a waveform that is repeated for
  ever; what a capture is sure to hold is a question of lengths and phases.

`PROJECT.json` lists these hazards one by one, with the line where each bites
and the properties that cover it.

## 2. Modules

| Module | Models | Actions |
|---|---|---|
| `StreamTransfer` | one `send_file` call of the streaming engine | sender, listener, receiver and environment, one action per blocking call or visible assignment |
| `FileDelivery` | what such a call promises: parts held, parts confirmed, the file, the verdict | implemented by `StreamTransfer` (`DeliverySafe`) |
| `AckBitmap` | the bitmap down to bytes and padding, in the four places the engine keeps one | mark, build ACK/NACK, merge, set_missing |
| `AckSets` | the same with sets, as `StreamTransfer` uses them | implemented by `AckBitmap` (`ImplementsSets`) |
| `FrameCodec` | `encode`, `decode_stream`, and the loop that feeds it pieces | send, refuse, disturb, deliver |
| `RFSession` | `transfer_file` in its three programs: under `PlutoOptimizedAdapter.send_file`, under `main()` of `radio_image_transfer.py`, and in `bc.py` | connect, probe, handshake, window, FIN, save, report, retry |
| `FastPath` | `SingleDeviceFastPathAdapter.send_file` | the same, with cached gains and unheard windows |
| `PlutoRF` | `PlutoRFTransferEngine.send_file` | connect, calibrate, batch, capture, FIN, save, retry |
| `AttemptLoop` | what a loop of attempts promises: where an attempt starts from, when the file may be touched, what success means | implemented by `RFSession`, `FastPath` and `PlutoRF` (`ImplementsAttempts`) |
| `ValidationCache` | the cache file under several sessions and kills, and the gains a session goes by until its data | begin (load), hit, calibrate, open, write, handshake, end, kill |
| `RadioCapture` | sample counts of packets and captures, and what a capture of a cyclic waveform holds | operators only; `PlutoRF` extends it |
| `StreamTransferProofs`, `AckBitmapProofs`, `FrameCodecProofs`, `RFSessionProofs`, `FastPathProofs`, `PlutoRFProofs` (with `RadioCapture`), `ValidationCacheProofs` | theorems about the module of that name | |
| `FirstElements` | lemmas about `missing[:n]`, for the proofs about windows; least elements and induction downwards, for those about the decoder | |
| `MC*` | names for the constants of the runs | |

A module holds next to a definition the changed forms of it marked `mutant`:
each is a plausible bug, no specification uses it, and `PROJECT.json` says which
property finds it.

How the state corresponds to the code:

* **Program counters** (`spc`, `rpc`, `pc`) stand between two calls that others
  can see or that may fail. What happens between them is one action: taking a
  frame out of the queue and updating `received_bitmap`, `chunks` and
  `frames_since_ack` is `Receive`; the snapshot and the pruning of `inflight`
  that follows it is `Snapshot`.
* **Bitmaps are sets.** `received_bitmap` and the keys of `chunks` are one
  variable because the code changes them together; `AckBitmap` shows that the
  bytes do what the sets do.
* **Time is a choice.** Whether a frame is older than `nack_backoff_s` or
  `resend_timeout_s`, whether the time-driven ACK is due, and whether
  `receiver.join(timeout=5.0)` times out is decided nondeterministically. The
  bound of 1 s on the join of the listener is not modelled: the listener may go
  on after `stop` as long as it likes.
* **The file** is `absent`, `other` (an older file of that name), `partial`
  (after the truncation) or `payload`. A file of no bytes is complete as soon
  as it is truncated.
* **Faults** are a constant: each run names what the environment may do.
* **Scores and captures.** In `RFSession` a score is a number of a small set and
  every threshold is computed from it as the code does; a window has a score of
  its own and one for each of its packets. In `FastPath` and `PlutoRF` a capture
  is heard or not. `PlutoRF` computes with `RadioCapture` how many samples a
  packet takes, because a capture decodes only packets it holds whole.
* **The three programs of `RFSession`** differ in two actions: `bc.py` sends a
  window by `SendWindowEach`, the others by `SendWindow`; the adapter reads the
  file again before it returns (`Return`), the two `main()` do not
  (`MainReturns`). The adapter calibrates with the one gain pair of its scenario,
  the others with seven fixed ones: that is the constant `Candidates`.
* `RFSession!trouble`, `heard` and `faded`, `FastPath!unchecked` and `checked`,
  `ValidationCache!heard`, `saved` and `proven` are history variables: no guard
  reads them. `heard` and `faded` are taken from each packet's own score, also in
  the programs that only look at the score of the window.

## 3. Runs

| Run | Checks | Instance |
|---|---|---|
| `stream_clean` | `TypeOK`, `AcksSound`, `WindowBounded`, `FinOnlyWhenComplete`, `DeliverySafe`, `Delivered` | 3 frames, queues of 2, window 2, an ACK every 2 frames, no faults |
| `stream_faults` | `UnackedTracked`, `VerdictSound`, `OutputAfterFullAck`, `FinLeadsToVerdict`, `FullQueueDrains` | 2 frames, queues of 1, window 2, all faults |
| `stream_resend` | `ResendOnlyUnacked` (violated) | 2 frames |
| `ack_bitmap` | `TypeOK`, `PaddingClean`, `AllSetMeansAll`, `ShortPayloadClaimsLess`, `ImplementsSets` | 7 indices in bytes of 3 bits |
| `frame_codec` | `ChunkingIrrelevant`, `CleanStreamDecodes`, `BufferBounded` | 2 frames, payloads one longer than the length field can say, 2 symbols of noise, 3 symbols |
| `rf_session` | `TypeOK`, `WindowBudget`, `BestGainUsed`, `RaisedForAReason`, `CountedWereDetected`, `ImplementsAttempts`, `Ends` | all three programs, 3 packets, windows of 2, 2 attempts, 2 gains, all faults |
| `rf_empty_file` | `SavedLeadsToReport` (violated) | all three programs, no packet, no fault |
| `fast_session` | `TypeOK`, `SparsenessBounded`, `WindowFits`, `ImplementsAttempts`, `Ends` | 8 packets, windows of 1 to 3, validation every third window, all faults |
| `cache_parallel` | `TypeOK`, `OnlyProven`, `GainsVetted`, `TornHeals` | 2 sessions, one of which does not use the cache, 2 keys, 2 pairs of gains, 2 kills |
| `cache_lost_update` | `SavedStays` (violated) | 2 sessions, 2 keys, no kill |
| `pluto_session` | `TypeOK`, `WindowExact`, `BatchUseful`, `ImplementsAttempts`, `Ends` | 4 frames of 20 kB, batches of 2, 2 attempts, all faults |
| `pluto_default_sizes` | `FileSent` (violated) | 200 kB with the sizes of `configs/optimized_pluto_rf.yaml` |

Why the bounds are enough to show something:

* `stream_clean`: with three frames and an interval of two, the last frame can
  only be acknowledged by the clock; with queues of two, both can be full at the
  same time while all three processes want to put; with a window of two, frames
  wait for acknowledgements and acknowledged ones are sent again.
* `stream_faults`: two frames are the fewest of which one can be lost and one
  acknowledged; START comes back at any moment, so the receiver forgets frames,
  NACKs are sent and `set_missing` runs. A queue of one blocks at every put.
  `FullQueueDrains` needs all three processes: the receiver can be held up by a
  full queue of replies, which only the listener empties.
* `ack_bitmap`: seven indices in bytes of three bits are two full bytes and one
  with two bits of padding; nothing in the module depends on a byte having eight.
* `frame_codec`: symbols 0 to 2 with a magic of 2 make every header field and
  every payload symbol a possible magic, a length symbol says at most two, payloads
  of three are refused, and one of the three type symbols is unknown. The checksum
  collides often, so damaged frames do pass it at times. The module leaves the
  checksum open (a constant); the run uses `Polynomial` of `MCFrameCodec`.
* `rf_session`: scores of 2, 3, 4 and 6 lie on both sides of 3.0 and, for a
  calibrated score of 6, of each of the three thresholds. Two windows per file
  and one retry make the counter reset between two exhausted ones. A window of two
  is the smallest in which one packet can be heard and its neighbour not.
* `fast_session`: eight packets let the window size go through its whole range,
  down and up again, across three validations.
* `cache_parallel`: two sessions are all a lost update or a torn file needs; two
  kills let a healed file be torn again; with two pairs of gains an entry can be
  out of date, and a session that bypasses the cache overwrites it.
* `pluto_session`: four frames in batches of two fill the window, leave one
  frame missing in it and still have a new one to send.

Deadlock is checked everywhere but in two runs. `stream_faults`: a killed
receiver leaves the sender blocked in `put` on a full queue for ever (there is no
timeout, and the sender asks whether the receiver lives only after FIN): the
call really stops there. `frame_codec`: when all is sent and delivered nothing
is left to do. Elsewhere a finished call stutters explicitly.

### Fairness

* `StreamTransfer`: the sender thread, the listener thread and the receiver
  process are each scheduled again and again (weak fairness per process: the
  operating system does that). Two choices stand for clocks and are strongly
  fair. `Receive`: the receiver's `get` does not time out for ever on a queue
  that holds a frame. `SendAck`: the time-driven ACK falls due whenever
  `resend_timeout_s` has passed since the last one (`runtime.py:153-156`). No
  fairness is assumed of faults.
* `RFSession`: one thread that goes on; every library call returns or raises.
  Nothing is assumed of the link.
* `FastPath`: the same, and strong fairness of `WindowHeard`: the link does not
  fail every validation for ever. Without it `Ends` is false, because the code
  repeats a failed window without a bound. The hazard list says so.
* `PlutoRF`: the same, and strong fairness of `HearNew`: where a batch on the
  air holds a frame that fits a capture, not all of them are lost for ever.
  `pluto_default_sizes` has the same fairness: it is not the link that fails.
* `ValidationCache`: a session that has begun goes on, sessions keep being
  started, and not every calibration fails. Nothing is assumed of handshakes.

### What the code does otherwise than it says

* **`stream_resend`** (`optimized_transfer/runtime.py:281`). The sender calls
  `missing_indexes()` on the bitmap of missing frames. `missing_indexes` lists
  indices that are not set, so the list holds the frames known to be received.
  They are sent again and again, and frames that are really missing are not sent
  again at all once the first ACK has come (`MissingNeverResent`, a theorem): the
  branch for timeouts runs only while the list is empty. `Delivered` shows that
  this does no harm on queues that lose nothing, which is why the tests pass; on a
  link that loses frames the call may go on for ever.
* **`rf_empty_file`** (`backup/radio_image_transfer.py:705`). The air bit rate is
  divided by the samples of the data windows. A file of no bytes has none; the
  division raises after the output was saved, the attempt is repeated, and no
  report is ever written (`EmptyFileNeverReported`). `fastpath_rf.py:329` divides
  in the same way, by zero for an empty file and only for that (`SuccessWasHeard`).
* **`cache_lost_update`** (`optimized_transfer/fastpath_rf.py:241`). A session
  saves what it loaded before it connected, plus its own entry. What another
  session has saved in between is gone, and its next session calibrates again.
  `OnlyProven` shows that no wrong gains come of it, `TornHeals` that a file torn
  by a killed session is replaced.
* **`pluto_default_sizes`** (`optimized_transfer/pluto_rf.py:481`). A full frame of
  60000 bytes takes 369984 samples and a capture has 262144. No full frame can
  be decoded, and the data loop has no other end than all frames.

`TooLongNeverSent` in `PlutoRFProofs` proves the same of all sizes.

More were met and are in the hazard list without a run: the fast path's division
by zero for an empty file; `_transmit_window` storing a whole window on one score
(below); the fast path's captures, which with the shipped sizes are not sure to hold a complete
copy of the window they are compared with (`DefaultWindowsMissed`, a theorem;
whether the score suffers is signal processing); and the data loops of
`fastpath_rf.py:280` and `pluto_rf.py:457`, which never give up on a dead link
although `docs/pluto_rf_reproduction.md:28` says that a session on an
unstable link is retried.

The flow of `src/README.md:119-120` scores each packet and stores the detected
ones. `bc.py` does so. `backup/radio_image_transfer.py:557-558`, and with it the
adapter, stores all packets of a window on the score of the window. `RFSession`
states the flow's claim as `DetectedOnly`. For these two programs it is false:
listed as an invariant of `rf_session` it is violated 7 states into a behaviour in
which one packet's own score fades, and 13 states are enough for the transfer to
report success with such a packet in its file. What `rf_session` checks and
`CountsAreDetections` proves is `CountedWereDetected`: `DetectedOnly` in `bc.py`, and
in the other two until the first packet fades. The payload that is stored is the
sender's, so the file is right all the same; what is wrong is the claim that it
was received.

## 4. Proofs

Every safety property of a passing run is proved for all values of the constants
that satisfy the module's `ConstantsAssumption`. The runs show the same on their
instances, and that the actions do happen.

| Module | Theorems |
|---|---|
| `StreamTransferProofs` | `TypeCorrect`, `AcksAreSound` (*), `FinComesLast` (*), `VerdictIsSound`, `OutputWaitsForAcks`, `ImplementsDelivery` (*), `WindowIsKept` (`UnackedTracked` and `WindowBounded`), `WindowNeverOverrun`, `NoCircularWait`, `NeverNacked` (*), `MissingNeverResent` (*) |
| `AckBitmapProofs` | `TypeCorrect`, `PaddingIsClean`, `AllSetIsSound`, `ShortPayloadsAreSafe`, `SetsImplemented` |
| `FrameCodecProofs` | `DecodeInPieces`, `ChunksDoNotMatter`, `CleanStreamsDecode`, `BufferIsBounded` |
| `RFSessionProofs` | `TypeCorrect`, `WindowsAreBudgeted`, `BestGainIsUsed`, `NothingRaisedInVain`, `CountsAreDetections`, `AttemptsImplemented`, `EmptyFileNeverReported` |
| `FastPathProofs` | `TypeCorrect`, `ValidationIsSparseEnough`, `WindowsFit`, `AttemptsImplemented`, `SuccessWasHeard` |
| `PlutoRFProofs` | `TypeCorrect`, `WindowIsExact`, `BatchesAreUseful`, `AttemptsImplemented`, `TooLongNeverSent`; about captures `HeldAtEveryPhase`, `WindowCaptureHoldsEveryPacket`, `WholeWaveformHeld`, `PlainCaptureHolds`, `DefaultWindowsMissed`, `HeldAtSomePhase` |
| `ValidationCacheProofs` | `TypeCorrect`, `CacheHoldsProvenGains`, `DataOnlyWithVettedGains` |

The theorems marked (*) assume that the link does not deliver START again
(`"replay" \notin Faults`). A second START makes the receiver forget frames it
has acknowledged, so `AcksSound` is false then. The verdict and the output file
do not depend on it: those two theorems hold on any link.

### StreamTransfer

None of the properties is inductive. The inductive invariant is

    IInv == TypeOK /\ CountInv /\ StartInv /\ AcksSound /\ FinInv /\ VerdictInv

* `CountInv`: at `recv` fewer frames than one interval are uncounted. `TypeOK`
  needs it: `Receive` adds one.
* `StartInv`: START comes first, once, and before it the receiver holds nothing
  and has answered nothing. `AcksSound` needs it: `TakeStart` empties `rcvd`, which
  is harmless only as long as nothing has been acknowledged. Only this part
  excludes a replayed START.
* `FinInv`: a FIN exists only when the sender is past its loop, there everything
  is acknowledged, and the receiver writes only with a FIN in its hands. With
  `AcksSound`, everything acknowledged means everything held: that gives
  `FinOnlyWhenComplete`; alone it gives `OutputAfterFullAck`. A sender that
  `EncodeRaises` has left never sends one.
* `VerdictInv`: the file is read only after the receiver is gone (it exited,
  crashed, or was terminated), so nobody can change it afterwards.

`TypeOK /\ CountInv` is proved first, for all faults; then, also for all faults,
`EndInv == FinInv /\ VerdictInv`, which needs no other part: a second START brings
no FIN, and it takes away the one the receiver may hold (`fin_digest`). Last
`SafeInv == StartInv /\ AcksSound`, without replays. Each goes by cases over sender,
listener, receiver and environment. For the refinement,
`Receive` maps to `Hold` or a stutter, `Merge` to `Confirm`, `OpenOutput` and
`WriteOutput` to `ReplaceFile`, `CheckReceiver` and `Verify` to `Conclude`, and the
rest to stutters. The window theorem has an invariant of its own about the
snapshot: what `inflight` misses is acknowledged in the snapshot it was pruned
with, and the frames outside that snapshot are at most the window.

`NoCircularWait` is the safety core of `FullQueueDrains`, for queues of any depth and
any fault. Where all three wait, the listener has nothing to take, so the receiver
waits for START with an empty queue (`WaitInv`: the listener listens as long as the
sender may wait), so the sender is in its join. That needs every frame
acknowledged, and nothing is before START (`QuietInv`), so the file is empty and its
START was lost.

`NeverNacked` and `MissingNeverResent` say what becomes of `missing`. By
`FinComesLast` no NACK is sent, so `missing` is the complement of `acked` from the
first ACK on (`ResendInv`), and `missing_indexes()` lists what is acknowledged. After
a snapshot no acknowledged frame is in `inflight`, so no backoff keeps it from the
list, and everything acknowledged was sent (`SentInv`): the list is not empty.

### AckBitmap

The invariant is that every bitmap, the one in the payload under way included, is
`Clean`: the right number of bytes and no one in the padding. For clean bitmaps
each operation has a lemma that says what it does to `Marked`, the set of indices
it claims (`SetMarks`, `MergeMarks`, `InvertMarks`, `PayloadKept`), and the steps of
the refinement follow from these. `CountsMarked` maps marked indices one to one to
the one bits of the bytes, so that `count` counts them; all of it rests on
`Position`, the division of an index into byte and bit.

### FrameCodec

The checksum is a constant operator about which nothing is assumed but that its
results are symbols: no theorem depends on which damaged frames pass it.
`decode_stream` is a loop, and the model says what its run is (`Scan`): the function
from offsets to results in which each offset takes its result from where one turn
of the loop (`Turn`) goes on. What every run has in common cannot be proved with
the library's induction theorems, which take an operator as a parameter.
`DownwardInduction` (in `FirstElements`) takes the set of the offsets done instead,
and rests on every set of naturals having a least element.

* A turn has one of four sights: too little data, a place where no frame is, an
  intact frame of an unknown type, or an intact frame (`FourSights`). It goes on
  further to the right, and what it saw does not change when more data follow
  unless it was the first (`SameSight`).
* `ScanOccurs`: the run over the longer data is the run over the shorter one up to
  where that stopped, and from there on the run over what it left. With `ScanEnd`
  that is `DecodeInPieces`, and the induction step of `ChunksDoNotMatter`.
* `BufferIsBounded`: what is left over is `Incomplete`, so it is shorter than one
  frame with the largest length the header can say.
* `CleanStreamsDecode` needs `StreamInv`: all that was ever put on the link is a
  stream of frames and quiet noise whose decoding gives the frames sent. One more
  symbol of noise is skipped (`QuietSymbol`), one more frame is found where it
  begins (`OneMoreFrame`), whatever its payload looks like, because the run arrives
  at its first symbol and not inside it.

### The three RF paths

* `RFSession`: the budget needs that a window without progress leaves the packets
  as they are and one with progress adds at least one, and therefore that a window
  is never empty while a packet is missing (`FirstElements`). `BestGainUsed` and
  `RaisedForAReason` need what the calibration leaves: `hello` is the score of
  `best`, at least 3 once it has passed, so that a capture no worse than it passes
  all three thresholds. For `CountedWereDetected` the same goes for each packet: one
  that has not faded would have passed a threshold of its own, so a window counted
  as a whole counts none that was not detectable.
* `FastPath`: that fewer windows than the interval are unheard follows from
  `index`, whose remainder counts them: the invariant ties `unchecked` to `index`.
  `TargetKept` shows that halving and doubling stay in the range.
* `PlutoRF`: `WindowExact` (what has been sent and not acknowledged is what
  `inflight` holds unacknowledged) is what a batch needs to be useful, and rests on
  only sent frames being acknowledged (`SentInv`). The lemma about `SendBatch`
  carries all three over pruning, filling and selecting. For
  `TooLongNeverSent` one more invariant: acknowledged frames are audible.
* `EmptyFileNeverReported` and `SuccessWasHeard` rest on where a window can come
  from: none without a missing packet, and none counted before one was heard.
* The refinement of `AttemptLoop` maps the attempt, the radio and the file to
  themselves, `complete` to "all packets counted" and `written` to the places
  between the write and the verdict.

### ValidationCache and captures

`OnlyProven` is inductive with the types and one more conjunct: the gains a
session has set are proven for its key from the moment they are set. The theorems
about captures are arithmetic: a waveform of `Len` samples comes to any given
sample within `Len - 1` samples, and one caught at its second sample needs all of
them to come to its first.

### Model-checked only

* Liveness (`Delivered`, `FinLeadsToVerdict`, `FullQueueDrains`, `Ends`,
  `TornHeals`): fairness and ENABLED are beyond the prover.

## 5. Not modelled

* The modem (modulation, equalisation, preamble search) and what scores are worth:
  floating-point signal processing without state. Only sample counts
  (`RadioCapture`) and thresholds (`RFSession`) are taken from it. The correlation
  kernels of `correlation.py` are not called by any transfer path.
* Files of more than 65535 packets: the header's 16 bits for sequence and total
  make `encode_packet` raise before anything is sent. The assumptions on
  `PacketCount` and on the sizes of `PlutoRF` say so.
* `RFReceiverThread` of `pluto_rf.py` and `clear()` of the bitmap, which nothing
  calls; `contiguous_prefix()`, whose result fills a field nobody reads.
* The telemetry queue of the fast path (unbounded, written and never read), CPU
  pinning, the configuration files (their values are the constants), the command
  line, benchmarks, tools and examples, and the dual-device transfer, which is a
  plan only.

## 6. Plan

Done: the streaming engine, the bitmap, the codec, the RF paths in all their
programs, the cache with the gains it hands out, captures; the abstract
specifications `FileDelivery`, `AckSets` and `AttemptLoop` with their refinements;
proofs of every safety property that a run checks, and of what the findings say
in general.

Left: sessions that meet on the output file as they meet on the cache file. The
paths write `output_dir / name` without regard to each other.
