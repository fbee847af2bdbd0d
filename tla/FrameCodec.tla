----------------------------- MODULE FrameCodec -----------------------------
(***************************************************************************)
(* FrameCodec (optimized_transfer/framing.py) and the way run() and        *)
(* _ack_listener (runtime.py) use it: bytes arrive in pieces, each piece   *)
(* is added to what decode_stream left over.                               *)
(*                                                                         *)
(* The header keeps its fields in order, one symbol each: magic (with the  *)
(* version), type, payload length, checksum.  Symbols are small numbers,   *)
(* so that a payload or noise may look like a header, as bytes may.  The   *)
(* checksum is any function of what it covers: nothing rests on its being  *)
(* good at telling payloads apart.                                         *)
(***************************************************************************)
EXTENDS Naturals, Sequences

CONSTANTS
  Base,        \* symbols are 0 .. Base - 1; 256 in the code
  Magic,       \* the symbol for MAGIC and VERSION
  FrameTypes,  \* the members of FrameType
  Checksum(_, _),  \* zlib.crc32 over the header before the checksum (here the
                   \* type, the length follows from the payload) and the payload
  MaxFrames,   \* bound: frames encoded
  MaxNoise     \* bound: symbols on the link that no encoder wrote

Symbol == 0 .. Base - 1

HeaderSize == 4
MaxPayload == Base - 1       \* all that payload_length can say, 65535 in the code
Payload == UNION {[1 .. n -> Symbol] : n \in 0 .. MaxPayload + 1}
Frame == [type : FrameTypes, payload : Payload]

ASSUME ConstantsAssumption ==
  /\ Base \in Nat \ {0} /\ Magic \in Symbol
  /\ FrameTypes \subseteq Symbol
  /\ \A f \in Frame : Checksum(f.type, f.payload) \in Symbol   \* & 0xFFFFFFFF
  /\ MaxFrames \in Nat /\ MaxNoise \in Nat

AnyLength(payload) == TRUE                                             \* mutant
\* HEADER.pack raises struct.error for a length the field cannot say.
Fits(payload) == Len(payload) <= MaxPayload

Encode(f) ==
  <<Magic, f.type, Len(f.payload), Checksum(f.type, f.payload)>> \o f.payload

SkipHeader(offset) == offset + HeaderSize                              \* mutant
Resync(offset) == offset + 1

HeaderReady(offset, data) == offset + HeaderSize <= Len(data)
FrameEnd(offset, data) == offset + HeaderSize + data[offset + 3]
PayloadAt(offset, data) == SubSeq(data, offset + HeaderSize + 1, FrameEnd(offset, data))

KnownType(type) == type \in FrameTypes      \* FrameType(frame_type) succeeds

\* What decode_stream is left with at an offset: the frames it goes on to find,
\* the offset where it stops, and whether FrameType(frame_type) raises ValueError.
Stop(offset, raised) == [frames |-> << >>, offset |-> offset, raised |-> raised]
Found(type, payload, rest) ==
  [rest EXCEPT !.frames = <<[type |-> type, payload |-> payload]>> \o @]

\* One turn of the loop; scan[o] is what the turns from offset o on come to.
Turn(offset, data, scan) ==
  IF ~HeaderReady(offset, data) THEN Stop(offset, FALSE)
  ELSE IF data[offset + 1] # Magic THEN scan[Resync(offset)]
  ELSE IF FrameEnd(offset, data) > Len(data) THEN Stop(offset, FALSE)
  ELSE
    LET type == data[offset + 2]
        payload == PayloadAt(offset, data)
    IN IF data[offset + 4] # Checksum(type, payload) THEN scan[Resync(offset)]
       ELSE IF ~KnownType(type) THEN Stop(offset, TRUE)
       ELSE Found(type, payload, scan[FrameEnd(offset, data)])

Scan(data) == LET scan[offset \in 0 .. Len(data)] == Turn(offset, data, scan) IN scan

DecodeStream(data) == Scan(data)[0]

DropBuffer(data, offset) == << >>                                      \* mutant
Leftover(data, offset) == SubSeq(data, offset + 1, Len(data))

-----------------------------------------------------------------------------
VARIABLES
  sent,      \* frames encoded so far
  wire,      \* symbols on the link
  noise,     \* symbols put on the link that no encoder wrote
  passed,    \* all symbols delivered so far
  buffer,    \* what decode_stream left over
  decoded,   \* frames the reader has got
  refused,   \* encode raised, which ended the program that called it
  dead       \* the reader ended with a ValueError

vars == <<sent, wire, noise, passed, buffer, decoded, refused, dead>>

Init ==
  /\ sent = << >> /\ wire = << >> /\ noise = << >> /\ passed = << >>
  /\ buffer = << >> /\ decoded = << >> /\ refused = FALSE /\ dead = FALSE

Send ==
  /\ Len(sent) < MaxFrames /\ ~refused
  /\ \E f \in Frame :
       /\ Fits(f.payload)
       /\ sent' = Append(sent, f) /\ wire' = wire \o Encode(f)
  /\ UNCHANGED <<noise, passed, buffer, decoded, refused, dead>>

\* A chunk larger than the field, or the bitmap of too many frames.
Refuse ==
  /\ Len(sent) < MaxFrames /\ ~refused
  /\ \E f \in Frame : ~Fits(f.payload)
  /\ refused' = TRUE
  /\ UNCHANGED <<sent, wire, noise, passed, buffer, decoded, dead>>

Disturb ==
  /\ Len(noise) < MaxNoise
  /\ \E s \in Symbol : noise' = Append(noise, s) /\ wire' = Append(wire, s)
  /\ UNCHANGED <<sent, passed, buffer, decoded, refused, dead>>

\* buffer += chunk; frames, buffer = decode_stream(buffer)
Deliver ==
  /\ ~dead
  /\ \E n \in 1 .. Len(wire) :
       LET data == buffer \o SubSeq(wire, 1, n)
           result == DecodeStream(data)
       IN /\ wire' = SubSeq(wire, n + 1, Len(wire))
          /\ passed' = passed \o SubSeq(wire, 1, n)
          /\ dead' = result.raised
          /\ IF result.raised
             THEN UNCHANGED <<buffer, decoded>>
             ELSE /\ buffer' = Leftover(data, result.offset)
                  /\ decoded' = decoded \o result.frames
  /\ UNCHANGED <<sent, noise, refused>>

Next == Send \/ Refuse \/ Disturb \/ Deliver
Spec == Init /\ [][Next]_vars

-----------------------------------------------------------------------------
\* The pieces the bytes arrive in make no difference: the frames got so far
\* and the leftover are those of one decode of everything delivered.
ChunkingIrrelevant ==
  LET whole == DecodeStream(passed)
  IN /\ dead = whole.raised
     /\ ~dead => decoded = whole.frames /\ buffer = SubSeq(passed, whole.offset + 1, Len(passed))

\* As long as no noise looks like the magic, every frame sent is decoded, in
\* order and unchanged, whatever its payload looks like, wherever the noise is
\* and whether or not a later frame is refused; nothing else is decoded, and the reader never raises.
CleanStreamDecodes ==
  (\A i \in DOMAIN noise : noise[i] # Magic) =>
    /\ ~dead
    /\ Len(decoded) <= Len(sent) /\ decoded = SubSeq(sent, 1, Len(decoded))
    /\ wire = << >> => decoded = sent

\* What waits in the buffer is less than one frame of the largest size, even
\* after noise whose length field promises bytes that never come, and every
\* symbol on the link fits the field it stands in: no length is ever cut.
BufferBounded ==
  /\ Len(buffer) < HeaderSize + MaxPayload
  /\ \A i \in DOMAIN wire : wire[i] \in Symbol
=============================================================================
