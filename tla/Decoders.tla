------------------------------- MODULE Decoders -------------------------------
(***************************************************************************)
(* example/3-3-decode_h264 and example/3-4-decode_aac: a raw stream is     *)
(* decoded, and every frame is saved to two files, for H.264 as it is      *)
(* scaled to YUV and to RGB, for AAC as it is (f32) and resampled (s16).   *)
(*                                                                         *)
(* A packet stands for the frame that the decoder gives out in its place:  *)
(* pictures that it puts into another order are numbered in that order.    *)
(***************************************************************************)
EXTENDS MediaTool

CONSTANTS
  DecodeFiles,   \* [channels, packets], a packet is "good" or "bad"
  DecoderDelay   \* frames a decoder may hold

ASSUME DecoderAssumption ==
  /\ DecodeFiles \subseteq [channels : Nat, packets : Seq({"good", "bad"})]
  /\ DecoderDelay \in Nat

\* gotFrame and, for H.264, what the scaler makes of a frame are not initialised.
H264Init ==
  ToolInit("decode_h264", DecodeFiles, {"yuv", "rgb"}, {[opened |-> FALSE, gotFrame |-> g] : g \in BOOLEAN})

AacInit ==
  ToolInit("decode_aac", DecodeFiles, {"f32", "s16"},
           {[opened |-> FALSE, gotFrame |-> g, swr |-> FALSE] : g \in BOOLEAN})

\* -1 for a frame, 1 for the file.
DecodeOpenFails == OpenFailure({-1, 1})

\* "codec not found" and "could not open codec" are only printed.
DecodeOpen ==
  /\ tpc = "open"
  /\ \E o \in BOOLEAN : own' = [own EXCEPT !.opened = o]
  /\ GoesTo("loop")
  /\ UNCHANGED <<input, taken, inside, out>>

Good == own.opened /\ AtPacket /\ Packet = "good"
Save(files, k) == out' = [o \in DOMAIN out |-> IF o \in files THEN Append(out[o], k) ELSE out[o]]

\* The packet gives no frame yet.
DecodeHolds ==
  /\ Good
  /\ Holds(taken + 1, DecoderDelay)
  /\ own' = [own EXCEPT !.gotFrame = FALSE]
  /\ Reads /\ GoesTo("loop")
  /\ UNCHANGED <<input, out>>

\* avcodec_decode_video2() fails with gotFrame at 0; nobody looks at what it returns.
H264Error ==
  /\ own.opened /\ AtPacket /\ Packet = "bad"
  /\ own' = [own EXCEPT !.gotFrame = FALSE]
  /\ Reads /\ GoesTo("loop")
  /\ UNCHANGED <<input, inside, out>>

\* A codec that is not open fails without setting gotFrame: whatever it was stays,
\* and if that is not 0 there is no scaler for a frame of no size.
H264NotOpen ==
  /\ ~own.opened /\ AtPacket
  /\ Reads
  /\ IF own.gotFrame THEN Exits(Crashed) ELSE GoesTo("loop")
  /\ UNCHANGED <<input, inside, out, own>>

\* Mutant: the frame is saved as RGB when the buffer for it is made, only.
H264FrameRgbOnce ==
  /\ Good
  /\ GivesOut(taken + 1)
  /\ own' = [own EXCEPT !.gotFrame = TRUE]
  /\ Save(IF out["rgb"] = <<>> THEN DOMAIN out ELSE {"yuv"}, Oldest(taken + 1))
  /\ Reads /\ GoesTo("loop")
  /\ UNCHANGED input

\* The buffers and scalers are made for the first frame.
H264Frame ==
  /\ Good
  /\ GivesOut(taken + 1)
  /\ own' = [own EXCEPT !.gotFrame = TRUE]
  /\ Save(DOMAIN out, Oldest(taken + 1))
  /\ Reads /\ GoesTo("loop")
  /\ UNCHANGED input

\* The decoder is not drained at the end.
DecodeEnd == AtEnd /\ OnlyExits(0)

DecodeReadFails == AtReadError /\ OnlyExits(0)

H264Works ==
  DecodeOpen \/ DecodeHolds \/ H264Error \/ H264NotOpen \/ H264Frame \/ DecodeEnd

\* An error, or a codec that is not open, is the end of the loop.
AacError ==
  /\ AtPacket
  /\ ~own.opened \/ Packet = "bad"
  /\ Reads /\ Exits(0)
  /\ UNCHANGED <<input, inside, out, own>>

\* The resampler is made for the first frame.
AacFrame ==
  /\ Good /\ input.channels = 2
  /\ GivesOut(taken + 1)
  /\ own' = [own EXCEPT !.gotFrame = TRUE, !.swr = TRUE]
  /\ Save(DOMAIN out, Oldest(taken + 1))
  /\ Reads /\ GoesTo("loop")
  /\ UNCHANGED input

\* The resampler cannot be made or fails: the frame is in the first file only, and
\* the loop ends.
AacResampleFails ==
  /\ Good /\ input.channels = 2
  /\ GivesOut(taken + 1)
  /\ Save({"f32"}, Oldest(taken + 1))
  /\ own' = [own EXCEPT !.gotFrame = TRUE]
  /\ Reads /\ Exits(0)
  /\ UNCHANGED input

\* SavePcmS32px2() reads data[1], which a mono frame does not have.
AacMono ==
  /\ Good /\ input.channels = 1
  /\ GivesOut(taken + 1)
  /\ Reads /\ Exits(Crashed)
  /\ UNCHANGED <<input, out, own>>

AacWorks ==
  DecodeOpen \/ DecodeHolds \/ AacError \/ AacFrame \/ AacMono \/ DecodeEnd

DecoderFails ==
  \/ DecodeOpenFails \/ DecodeReadFails
  \/ program = "decode_aac" /\ AacResampleFails

H264Spec == H264Init /\ [][H264Works \/ DecoderFails]_toolVars
AacSpec == AacInit /\ [][AacWorks \/ DecoderFails]_toolVars

-----------------------------------------------------------------------------

GoodOnes == {k \in 1..taken : input.packets[k] = "good"}

First == IF program = "decode_h264" THEN out["yuv"] ELSE out["f32"]
Second == IF program = "decode_h264" THEN out["rgb"] ELSE out["s16"]

\* Over frames that come late and packets that do not decode, no frame is saved
\* twice or out of order, and both files have every frame that the decoder has given
\* out; what is missing when the program returns is what it still holds.  Only after
\* an error of the resampler does one file lack the last frame of the other.
SavesEveryFrameTwice ==
  program \in {"decode_h264", "decode_aac"} /\ code \in {NoCode, 0} =>
    /\ own.opened => Lists(First \o inside, GoodOnes)
    /\ \/ Second = First
       \/ program = "decode_aac" /\ tpc = "ended" /\ First # <<>> /\ Second = Front(First)

=============================================================================
