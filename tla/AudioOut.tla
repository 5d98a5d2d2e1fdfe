------------------------------ MODULE AudioOut ------------------------------
(***************************************************************************)
(* The audio thread of the two players: audio_callback() and               *)
(* audio_decode_frame() (example/3-1-palyer/sdl_audio_out.c, copied in     *)
(* 3-3-decode_video.c), called by SDL for CallbackLen units of sound at a  *)
(* time.                                                                   *)
(*                                                                         *)
(* A unit of sound is <<packet, place in its frame>>; Silence is a unit of *)
(* zeros.  What the codec makes of an audio packet is its quality:         *)
(*   good      one frame for the whole packet                              *)
(*   short     the same, a shorter frame                                   *)
(*   many      several frames                                              *)
(*   late      no frame (an error, or more input wanted) at the first call *)
(*   bad       never a frame                                               *)
(*   odd       a frame that swr_init() refuses                             *)
(*   broken    a frame that swr_convert() fails on                         *)
(*   empty     a packet of size 0                                          *)
(***************************************************************************)
EXTENDS PacketQueue, SequencesExt

CONSTANTS
  Media,         \* the files: sequences of packets [stream, pts, quality]
  CallbackLen,   \* len of audio_callback()
  FrameLen,      \* the sound of one frame
  ShortLen,      \* that of a shorter one
  ManyLen,       \* that of the frames of a packet that holds several
  SilenceLen     \* 1024 bytes of zeros

ASSUME AudioOutAssumption ==
  /\ Media \subseteq Seq([stream : STRING, pts : Int, quality : STRING])
  /\ CallbackLen \in Nat \ {0} /\ FrameLen \in Nat \ {0}
  /\ SilenceLen \in 1..FrameLen /\ ShortLen \in 1..FrameLen
  /\ ManyLen \in Nat /\ ManyLen > FrameLen

VARIABLES
  media,                           \* the file that is played
  device,                          \* "closed", "paused", "running", "quitting"
  codec,                           \* the audio codec context has not been freed
  apc,                             \* where the audio thread is
  current,                         \* the packet audio_decode_frame() has got
  try_again,
  len,                             \* len: what the callback has still to fill
  stream,                          \* what was mixed into each unit of the stream
  audio_buf, audio_buf_size, audio_buf_index,
  played                           \* history: the sound len1 accounts for

threadVars == <<apc, current, try_again, len, stream, audio_buf, audio_buf_size,
                audio_buf_index, played>>

audioVars == <<device, codec, threadVars>>

\* Leftover is what audio_buf still has from earlier frames, told apart no further.
Silence == <<0, 0>>
Leftover == <<0, 1>>
BufUnits == 0..(ManyLen + CallbackLen - 1)

quality == media[current].quality
PacketSize(p) == IF media[p].quality = "empty" THEN 0 ELSE 1

\* What audio_decode_frame() returns for a packet: of several frames the first, and
\* what follows it in audio_buf.
Sound(p) ==
  [k \in 1..(CASE media[p].quality = "short" -> ShortLen
              [] media[p].quality = "many" -> ManyLen
              [] OTHER -> FrameLen) |-> IF k <= FrameLen THEN <<p, k>> ELSE Leftover]

AudioInit ==
  /\ packet_queue_init
  /\ device = "closed" /\ codec = FALSE
  /\ apc = "idle" /\ current = 0 /\ try_again = 0
  /\ len = 0
  /\ stream = [i \in 1..CallbackLen |-> {}]
  /\ audio_buf = [i \in BufUnits |-> Silence]
  /\ audio_buf_size = 0 /\ audio_buf_index = 0
  /\ played = <<>>

\* SDL calls audio_callback(), which clears the stream.
CallbackStart ==
  /\ apc = "idle" /\ device = "running"
  /\ len' = CallbackLen
  /\ stream' = [i \in 1..CallbackLen |-> {}]
  /\ apc' = "loop"
  /\ UNCHANGED <<device, codec, current, try_again, audio_buf, audio_buf_size,
                 audio_buf_index, played, queueVars>>

CallbackEnd ==
  /\ apc = "loop" /\ len = 0
  /\ apc' = "idle"
  /\ UNCHANGED <<device, codec, current, try_again, len, stream, audio_buf,
                 audio_buf_size, audio_buf_index, played, queueVars>>

Needs == apc = "loop" /\ len > 0 /\ audio_buf_index >= audio_buf_size

\* packet_queue_get(&audioQueue, &packet, 1)
GetPacket ==
  /\ Needs \/ apc = "get"
  /\ \/ /\ packet_queue_wait
        /\ apc' = "get"
        /\ UNCHANGED <<current, try_again>>
     \/ /\ packet_queue_get(PacketSize(first_pkt))
        /\ current' = first_pkt
        /\ try_again' = 0
        /\ apc' = "decode"
  /\ UNCHANGED <<device, codec, len, stream, audio_buf, audio_buf_size,
                 audio_buf_index, played>>

\* avcodec_decode_audio4() fails or has no frame: got_frame is 0 either way, and
\* the loop comes back with the same packet, whatever try_again says.
DecodeAgain ==
  /\ apc = "decode"
  /\ quality = "bad" \/ (quality = "late" /\ try_again = 0)
  /\ try_again' = 1 - try_again
  /\ UNCHANGED <<device, codec, apc, current, len, stream, audio_buf, audio_buf_size,
                 audio_buf_index, played, queueVars>>

\* audio_decode_frame() returns size units, now in audio_buf.
Returns(sound, size) ==
  /\ audio_buf' = [i \in BufUnits |->
                     IF i < Len(sound) THEN sound[i + 1] ELSE audio_buf[i]]
  /\ audio_buf_size' = size
  /\ audio_buf_index' = 0
  /\ apc' = "mix"
  /\ UNCHANGED <<device, codec, current, try_again, len, stream, played, queueVars>>

\* The loop goes on while pkt_size > 0.  In a packet of several frames it decodes the
\* first one over and over, since the packet itself does not advance, counts the
\* length of each and converts all but the first to where the pointer at
\* &audio_buf + audio_buf_index points, outside of audio_buf.
DecodeFrame ==
  /\ apc = "decode"
  /\ quality \in {"good", "short", "many"} \/ (quality = "late" /\ try_again = 1)
  /\ Returns(Sound(current), Len(Sound(current)))

\* Nothing that may be written to is there.
DecodeCrashes ==
  /\ apc = "decode" /\ quality = "many"
  /\ apc' = "crashed"
  /\ UNCHANGED <<device, codec, current, try_again, len, stream, audio_buf, audio_buf_size,
                 audio_buf_index, played, queueVars>>

\* Nothing to decode, or "swr_init error".
DecodeNothing ==
  /\ apc = "decode" /\ quality \in {"empty", "odd"}
  /\ Returns(<<>>, 0)

\* swr_convert() returns less than 0, and so does audio_decode_frame().
DecodeFails ==
  /\ apc = "decode" /\ quality = "broken"
  /\ Returns([k \in 1..SilenceLen |-> Silence], SilenceLen)

\* Mutant: all of len is accounted for.
Len1All == len

Len1 == IF audio_buf_size - audio_buf_index > len THEN len
        ELSE audio_buf_size - audio_buf_index

\* SDL_MixAudio() adds n units of audio_buf to what the stream has from its
\* current place on.
Mixed(n) ==
  [i \in 1..CallbackLen |->
     LET k == i - (CallbackLen - len) - 1
     IN IF k \in 0..(n - 1) THEN stream[i] \cup {audio_buf[audio_buf_index + k]}
        ELSE stream[i]]

\* len, not len1 units are mixed; len1 are accounted for.  What comes back from
\* audio_decode_frame() is mixed, even if it is nothing.
CallbackMix ==
  /\ \/ apc = "mix"
     \/ apc = "loop" /\ len > 0 /\ audio_buf_index < audio_buf_size
  /\ apc' = "loop"
  /\ stream' = Mixed(len)
  /\ len' = len - Len1
  /\ audio_buf_index' = audio_buf_index + Len1
  /\ played' = played \o [k \in 1..Len1 |-> audio_buf[audio_buf_index + k - 1]]
  /\ UNCHANGED <<device, codec, current, try_again, audio_buf, audio_buf_size, queueVars>>

audio_callback == CallbackStart \/ CallbackMix \/ CallbackEnd
audio_decode_frame ==
  GetPacket \/ DecodeAgain \/ DecodeFrame \/ DecodeCrashes \/ DecodeNothing
  \/ DecodeFails

AudioThread == audio_callback \/ audio_decode_frame

\* SDL2AudioOutInit(): the device opens paused and the queue is empty, or the
\* device does not open and the global queue is as it was.
SDL2AudioOutInit ==
  /\ device' \in {"paused", "closed"}
  /\ codec' = TRUE
  /\ UNCHANGED <<threadVars, queueVars>>

-----------------------------------------------------------------------------

\* The sound that packet p stands for.
SoundOf(p) ==
  CASE media[p].quality \in {"good", "short", "late", "many"} -> Sound(p)
    [] media[p].quality = "broken" -> [k \in 1..SilenceLen |-> Silence]
    [] OTHER -> <<>>

\* What the callbacks account for is what audio_decode_frame() returned for the packets
\* in the order they were put, every unit once, over any number of callbacks and
\* frames that are cut between them; a packet without sound takes none away, and one
\* of several frames, whose later frames are not heard, does not disturb the next.
PlaysInOrder ==
  LET taken == SubSeq(entered, 1, Len(entered) - nb_packets)
      due == FlattenSeq([i \in DOMAIN taken |-> SoundOf(taken[i])])
  IN /\ Len(played) <= Len(due)
     /\ played = SubSeq(due, 1, Len(played))

\* Neither stuck on a packet that never decodes nor out of packets.
Spinning == apc = "decode" /\ quality = "bad"
Starved == apc = "get" /\ asleep /\ first_pkt = NULL

\* "5. Note that every callback must send len units and only len"
\* (sdl_audio_out.c:41): a callback that returns has put one unit of sound at each
\* place of the stream, none on top of another (zeros do not count).
CallbackSendsOnce ==
  apc = "loop" /\ len = 0 =>
    \A i \in 1..CallbackLen : Cardinality(stream[i] \ {Silence}) <= 1

\* "Note that userdata is the AVCodecContext from before" (sdl_audio_out.c:32):
\* whenever the audio thread decodes, the context is still there.
CodecOutlivesCallback == apc = "decode" => codec

=============================================================================
