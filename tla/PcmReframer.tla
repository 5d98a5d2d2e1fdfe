----------------------------- MODULE PcmReframer -----------------------------
(***************************************************************************)
(* The PCM path of mp3DecodeEncode() (demo/mp3_decode_encode_test.cc): MP3 *)
(* frames of 4608 bytes of PCM are cut anew into AAC frames of 4096 bytes, *)
(* through aacPcmBuffer and aacPcmIndex.                                   *)
(*                                                                         *)
(* The unit is the difference of the two sizes, 512 bytes: an AAC frame is *)
(* AacFrame units (8) and an MP3 frame is one more.  A unit of PCM is its  *)
(* place in everything that was decoded, 0, 1, 2, ...                      *)
(***************************************************************************)
EXTENDS Integers

CONSTANTS
  AacFrame,      \* OUTBUFF_AAC_PCM_FRAME
  MaxDecodes     \* frames the loop decodes: at most 1001 (forBreakCount)

ASSUME ReframerAssumption == AacFrame \in Nat \ {0} /\ MaxDecodes \in Nat

Mp3Frame == AacFrame + 1   \* OUTBUFF_MP3_PCM_FRAME

VARIABLES
  pc,            \* where the loop's body is
  mp3Pcm,        \* mp3PcmBuffer
  aacPcm,        \* aacPcmBuffer
  index,         \* aacPcmIndex
  remain,        \* remainPcmByte
  decodes,       \* history: Decode() calls that returned 0
  total,         \* history: units that these calls account for
  sent,          \* history: units passed to aacEncoder->Encode()
  stale          \* history: a Decode() returned 0 without filling mp3PcmBuffer

rvars == <<pc, mp3Pcm, aacPcm, index, remain, decodes, total, sent, stale>>

Garbage == -1    \* the two buffers are uninitialised arrays on the stack

ReframerInit ==
  /\ pc = "decode"
  /\ mp3Pcm = [i \in 0..(Mp3Frame - 1) |-> Garbage]
  /\ aacPcm = [i \in 0..(AacFrame - 1) |-> Garbage]
  /\ index = 0
  /\ remain = 0
  /\ decodes = 0
  /\ total = 0
  /\ sent = 0
  /\ stale = FALSE

\* Copying n units of src from place s into dst at place d.
Memcpy(dst, d, src, s, n) ==
  [i \in DOMAIN dst |-> IF d <= i /\ i < d + n THEN src[i - d + s] ELSE dst[i]]

-----------------------------------------------------------------------------

\* Decode() returned 0.  mpg123 has either filled the buffer with the next PCM
\* or only met a new format (MPG123_NEW_FORMAT) and left the buffer alone.  A
\* Decode() that fails skips the rest of the turn.
Decode ==
  /\ pc = "decode"
  /\ decodes < MaxDecodes
  /\ \/ mp3Pcm' = [i \in 0..(Mp3Frame - 1) |-> total + i] /\ UNCHANGED stale
     \/ stale' = TRUE /\ UNCHANGED mp3Pcm
  /\ decodes' = decodes + 1
  /\ total' = total + Mp3Frame
  /\ pc' = "fill"
  /\ UNCHANGED <<aacPcm, index, remain, sent>>

\* Mutant: the buffer is filled from its start instead of from aacPcmIndex.
FillFromStart ==
  /\ pc = "fill"
  /\ remain' = AacFrame - index
  /\ aacPcm' = Memcpy(aacPcm, 0, mp3Pcm, 0, remain')
  /\ pc' = "encode1"
  /\ UNCHANGED <<mp3Pcm, index, decodes, total, sent, stale>>

\* The first memcpy() completes the AAC frame.
Fill ==
  /\ pc = "fill"
  /\ remain' = AacFrame - index
  /\ aacPcm' = Memcpy(aacPcm, index, mp3Pcm, 0, remain')
  /\ pc' = "encode1"
  /\ UNCHANGED <<mp3Pcm, index, decodes, total, sent, stale>>

\* Encode() and PutFrame(): whether the encoder succeeds changes nothing here.
Encode1 ==
  /\ pc = "encode1"
  /\ sent' = sent + AacFrame
  /\ pc' = "keep"
  /\ UNCHANGED <<mp3Pcm, aacPcm, index, remain, decodes, total, stale>>

\* Mutant: aacPcmIndex becomes the difference of the frame sizes in every turn.
KeepFixedRest ==
  /\ pc = "keep"
  /\ index' = Mp3Frame - AacFrame
  /\ aacPcm' = Memcpy(aacPcm, 0, mp3Pcm, remain, index')
  /\ pc' = "encode2"
  /\ UNCHANGED <<mp3Pcm, remain, decodes, total, sent, stale>>

\* The rest of the MP3 frame moves to the start of aacPcmBuffer.
Keep ==
  /\ pc = "keep"
  /\ index' = Mp3Frame - remain
  /\ aacPcm' = Memcpy(aacPcm, 0, mp3Pcm, remain, index')
  /\ pc' = "encode2"
  /\ UNCHANGED <<mp3Pcm, remain, decodes, total, sent, stale>>

\* Mutant: > instead of >= .
Encode2WhenOverfull ==
  /\ pc = "encode2"
  /\ IF index > AacFrame
       THEN index' = index - AacFrame /\ sent' = sent + AacFrame
       ELSE UNCHANGED <<index, sent>>
  /\ pc' = "decode"
  /\ UNCHANGED <<mp3Pcm, aacPcm, remain, decodes, total, stale>>

\* if(aacPcmIndex >= OUTBUFF_AAC_PCM_FRAME): the rest makes up a second frame.
Encode2 ==
  /\ pc = "encode2"
  /\ IF index >= AacFrame
       THEN index' = index - AacFrame /\ sent' = sent + AacFrame
       ELSE UNCHANGED <<index, sent>>
  /\ pc' = "decode"
  /\ UNCHANGED <<mp3Pcm, aacPcm, remain, decodes, total, stale>>

\* End of file, or the bound on the turns.
Finished == pc = "decode" /\ UNCHANGED rvars

ReframerNext == Decode \/ Fill \/ Encode1 \/ Keep \/ Encode2 \/ Finished

ReframerSpec == ReframerInit /\ [][ReframerNext]_rvars

-----------------------------------------------------------------------------

\* The types of the state.
ReframerTypeOK ==
  /\ pc \in {"decode", "fill", "encode1", "keep", "encode2"}
  /\ mp3Pcm \in [0..(Mp3Frame - 1) -> Int]
  /\ aacPcm \in [0..(AacFrame - 1) -> Int]
  /\ index \in 0..AacFrame
  /\ remain \in 0..AacFrame
  /\ decodes \in Nat
  /\ total \in Nat
  /\ sent \in Nat
  /\ stale \in BOOLEAN

\* The memcpy()s stay inside both buffers: aacPcmIndex never reaches the end of
\* aacPcmBuffer where the next frame is filled in, and the rest of an MP3 frame
\* always fits, whatever number of frames went before.
CopiesFit ==
  /\ pc = "fill" => index \in 0..(AacFrame - 1)
  /\ pc = "keep" => remain \in 1..AacFrame /\ Mp3Frame - remain <= AacFrame

\* No PCM is left out or passed twice: what was decoded is what was passed to
\* the encoder and what waits in aacPcmBuffer.
PcmIsConserved == pc = "decode" => total = sent + index

\* Between the two encoders' calls the buffer is a full frame of the next PCM.
NextFrame == \A i \in 0..(AacFrame - 1) : aacPcm[i] = sent + i

ReadyToEncode == pc = "encode1" \/ (pc = "encode2" /\ index >= AacFrame)

\* As long as the decoder fills its buffer whenever it returns 0, the AAC encoder
\* is given the decoded PCM in order.
EncodesPcmInOrder == ReadyToEncode /\ ~stale => NextFrame

\* The repository's parser test writes, after each mpg123_decode(), as many bytes
\* as the call says it produced (test/mp3_parser.cc:138).  The demo passes on
\* 4608 bytes whatever size says (demo/mp3_decode_encode_test.cc:243-267).
OnlyDecodedPcmIsEncoded == ReadyToEncode => NextFrame

=============================================================================
