------------------------------- MODULE Encoders -------------------------------
(***************************************************************************)
(* example/3-5-encoder_yuv_to_h264 and example/3-6-encode_aac: frames read *)
(* from a raw file are encoded, the encoder is drained, and the packets    *)
(* are written, in 3-6 each behind an ADTS header.                         *)
(***************************************************************************)
EXTENDS MediaTool

CONSTANTS
  RawFiles,       \* [packets]: what fread() finds of each frame, "full" or "part"
  EncoderDelay,   \* frames an encoder may hold
  PacketSizes     \* sizes of the packets of the AAC encoder

\* The length in an ADTS header, which counts its own 7 bytes, has 13 bits.
ASSUME EncoderAssumption ==
  /\ RawFiles \subseteq [packets : Seq({"full", "part"})]
  /\ EncoderDelay \in Nat
  /\ PacketSizes \subseteq 1..8184

\* AVPacket packet of 3-5 is not initialised, and av_init_packet() leaves data and
\* size alone: garbage that the first call may take for a buffer to encode to.
EncoderInit(aac) ==
  ToolInit(IF aac THEN "encode_aac" ELSE "encode_h264", RawFiles, {"file"},
           {[aac |-> aac, frameCount |-> 0, ret |-> 0, garbage |-> ~aac]})

\* Arguments, the encoder or its context.
EncodeOpenFails == OpenFailure({-1, 1})

EncodeOpen == OpenSucceeds

EncodeToGarbage ==
  /\ AtPacket /\ own.garbage
  /\ OnlyExits(Crashed)

\* The last frame of a file that is cut keeps the rest of the one before.
\* frame->pts is the number of packets so far, not of frames.
Frame == [n |-> taken + 1, stale |-> Packet = "part", pts |-> own.frameCount]

\* Mutant: the header's own length is left out of one of the bytes.
AdtsShort(size) ==
  <<(2 * 64 + (7 + size) \div 2048) % 256,
    (size % 2048) \div 8,
    (((7 + size) % 8) * 32 + 31) % 256>>

\* padts[3..5], each a char: ((chanCfg & 3) << 6) + ((7 + size) >> 11) and so on.
Adts(size) ==
  <<(2 * 64 + (7 + size) \div 2048) % 256,
    ((7 + size) % 2048) \div 8,
    (((7 + size) % 8) * 32 + 31) % 256>>

\* What is written of the packet of frame f.
Packed(f) ==
  IF own.aac THEN {[frame |-> f, size |-> s, header |-> Adts(s)] : s \in PacketSizes}
  ELSE {[frame |-> f]}

WritesPacket(f) == \E p \in Packed(f) : out' = [out EXCEPT !["file"] = Append(@, p)]

EncodeHolds ==
  /\ AtPacket
  /\ Holds(Frame, EncoderDelay)
  /\ own' = [own EXCEPT !.garbage = FALSE]
  /\ Reads /\ GoesTo("loop")
  /\ UNCHANGED <<input, out>>

\* The frame of the last packet in the file.
Latest == Last(out["file"]).frame

\* Packets leave an encoder in coding order.  That is the order of the frames q, but
\* with max_b_frames = 1 the oldest of them may become a B-frame, coded behind the
\* next one, if it is not the first of all and no frame waits like that already.
Coded(q) ==
  {1} \cup (IF /\ ~own.aac /\ Len(q) > 1
               /\ out["file"] # <<>> /\ Latest.n < Head(q).n THEN {2} ELSE {})

\* Of the frames q the encoder gives one out, and its packet is written.
Encodes(q) ==
  \E i \in Coded(q) :
    /\ inside' = [k \in 1..(Len(q) - 1) |-> IF k < i THEN q[k] ELSE q[k + 1]]
    /\ WritesPacket(q[i])

EncodeGives ==
  /\ AtPacket
  /\ Encodes(Append(inside, Frame))
  /\ own' = [own EXCEPT !.garbage = FALSE, !.frameCount = @ + 1]
  /\ Reads /\ GoesTo("loop")
  /\ UNCHANGED input

\* "Error encoding frame", while frames are read or drained: 3-6 goes to out and
\* returns 0.
EncodeFails ==
  /\ AtPacket \/ tpc = "drain"
  /\ own' = [own EXCEPT !.ret = -1]
  /\ Exits(IF own.aac THEN 0 ELSE -1)
  /\ UNCHANGED <<input, taken, inside, out>>

EncodeAtEnd ==
  /\ AtEnd
  /\ own' = [own EXCEPT !.frameCount = @ + 1]
  /\ GoesTo("drain")
  /\ UNCHANGED <<input, taken, inside, out>>

\* Mutant: the encoder is drained of one packet.
EncodeDrainsOnce ==
  /\ tpc = "drain" /\ inside # <<>>
  /\ Encodes(inside)
  /\ own' = [own EXCEPT !.frameCount = @ + 1]
  /\ Exits(0)
  /\ UNCHANGED <<input, taken>>

EncodeDrains ==
  /\ tpc = "drain" /\ inside # <<>>
  /\ Encodes(inside)
  /\ own' = [own EXCEPT !.frameCount = @ + 1]
  /\ GoesTo("drain")
  /\ UNCHANGED <<input, taken>>

EncodeDone ==
  /\ tpc = "drain" /\ inside = <<>>
  /\ OnlyExits(0)

EncoderWorks ==
  \/ EncodeOpen \/ EncodeHolds \/ EncodeGives \/ EncodeAtEnd \/ EncodeDrains
  \/ EncodeDone

EncoderFails == EncodeOpenFails \/ EncodeToGarbage \/ EncodeFails

EncoderSpec ==
  (\E aac \in BOOLEAN : EncoderInit(aac)) /\ [][EncoderWorks \/ EncoderFails]_toolVars

-----------------------------------------------------------------------------

EncodedFrames == [k \in DOMAIN out["file"] |-> out["file"][k].frame]

IsEncoder == program \in {"encode_h264", "encode_aac"}

\* Every frame read is in the file or in the encoder, once: in the order of reading
\* with AAC, with H.264 at most one place from there, changed over with a
\* neighbour, whichever frames become B-frames and however many the encoder holds.
\* When main() returns without an error of the encoder, it is in the file, the frames
\* that came late included.  A frame's pts is behind its number by the frames that
\* the encoder held when it came: it repeats only while the encoder holds more.
EncodesEveryFrame ==
  IsEncoder =>
    LET f == EncodedFrames \o inside
    IN /\ DOMAIN f = 1..taken
       /\ \A k \in 1..taken :
            /\ f[k].n \in IF own.aac THEN {k} ELSE (k - 1)..(k + 1) \cap 1..taken
            /\ f[f[k].n].n = k
            /\ f[k].pts \in Max({0, f[k].n - 1 - EncoderDelay}) .. f[k].n - 1
       /\ code = 0 /\ own.ret = 0 => inside = <<>> /\ taken = Len(input.packets)

\* A decoder finds the next frame by the length in the ADTS header: read back from
\* the three bytes it is that of the header and of the packet, wherever the bits of
\* the length fall.
AdtsLengthReadsBack ==
  program = "encode_aac" =>
    \A k \in DOMAIN out["file"] :
      LET w == out["file"][k]
      IN (w.header[1] % 4) * 2048 + w.header[2] * 8 + w.header[3] \div 32 = 7 + w.size

=============================================================================
