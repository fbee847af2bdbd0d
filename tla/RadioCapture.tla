---------------------------- MODULE RadioCapture ----------------------------
(***************************************************************************)
(* How many samples a packet of OFDMModem takes on the air and how many a  *)
(* capture has (backup/radio_image_transfer.py; optimized_transfer/        *)
(* pluto_rf.py captures the same way).  The transmitter repeats a waveform *)
(* of Len samples from its cyclic buffer; the receiver begins anywhere, so *)
(* a capture of n samples is the waveform from some phase on, repeated.    *)
(* What the samples are, and how they are scored, is left out.             *)
(***************************************************************************)
EXTENDS Integers

CeilDiv(a, b) == (a + b - 1) \div b

Guard == 32
Preamble == 16 + 64 + 64             \* a cyclic prefix and two training symbols
Symbol == 64 + 16
Carriers == 52
Header == CeilDiv(32 * 8, Carriers) * Symbol

BitsPerSymbol(modulation) == IF modulation = "qpsk" THEN 2 * Carriers ELSE Carriers
PayloadSamples(bytes, modulation) == CeilDiv(8 * bytes, BitsPerSymbol(modulation)) * Symbol

\* What decode_packet_at reads, from the preamble on.
DecodedSamples(bytes, modulation) == Preamble + Header + PayloadSamples(bytes, modulation)
\* packet_sample_length, which is the size of what encode_packet returns.
PacketSamples(bytes, modulation) == Guard + DecodedSamples(bytes, modulation) + Guard

\* _capture_samples: whole buffers, at least one.
Buffers(samples, bufferSize) ==
  IF CeilDiv(samples, bufferSize) > 1 THEN CeilDiv(samples, bufferSize) ELSE 1
CaptureSamples(samples, bufferSize) == Buffers(samples, bufferSize) * bufferSize

\* A capture of n samples that begins at a phase of the cyclic waveform has
\* the piece of that waveform of size samples from start on, in one run.
Holds(Len, phase, n, start, size) ==
  \E t \in Nat : (phase + t) % Len = start /\ t + size <= n

\* _transmit_window asks for the window, its largest packet and one buffer.
WindowCapture(window, largest, bufferSize) ==
  CaptureSamples(window + largest + bufferSize, bufferSize)
\* Calibration, handshake, FIN and the fast path ask for no such margin.
PlainCapture(waveform, bufferSize) == CaptureSamples(waveform + bufferSize, bufferSize)
=============================================================================
