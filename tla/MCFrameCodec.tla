---------------------------- MODULE MCFrameCodec ----------------------------
(* An instance of FrameCodec for TLC: few symbols and a small checksum, which *)
(* tells some payloads apart and confuses others.                             *)
EXTENDS FrameCodec
LOCAL INSTANCE SequencesExt

Polynomial(type, payload) ==
  FoldLeft(LAMBDA sum, s : (2 * sum + s) % Base, 1, <<type, Len(payload)>> \o payload)
=============================================================================
