----------------------------- MODULE DemuxDecode -----------------------------
(***************************************************************************)
(* example/3-4-demuxing_decoding: the best video and the best audio stream *)
(* of a file are decoded into a file each.  A packet stands for what the   *)
(* decoder gives out in its place: pictures that it puts into another      *)
(* order are numbered in that order.                                       *)
(***************************************************************************)
EXTENDS MediaTool

CONSTANTS
  DdFiles,    \* [first, packets], packets of [stream, parts, quality]
  DdDelay     \* frames a decoder may hold

\* What a packet may hold: frames of the stream's size and format, of another size, of a
\* format that swr_init() refuses, of a single plane; or nothing that can be decoded,
\* or nothing that ever is.
Qualities == {"good", "resized", "odd", "mono", "bad", "stuck"}

\* decode_packet() takes a video packet as a whole (decoded = pkt.size); only video
\* frames are compared with a size, only audio frames are resampled.
ASSUME DemuxDecodeAssumption ==
  /\ DdDelay \in Nat
  /\ \A f \in DdFiles :
       f.packets \in Seq([stream : {"video", "audio", "other"}, parts : Nat \ {0},
                         quality : Qualities])
  /\ \A f \in DdFiles : \A i \in DOMAIN f.packets :
       /\ f.packets[i].stream = "video" => f.packets[i].parts = 1
       /\ f.packets[i].quality = "resized" => f.packets[i].stream = "video"
       /\ f.packets[i].quality \in {"odd", "mono"} => f.packets[i].stream = "audio"

\* inside: per decoder, once they are open.
\* opened: the streams with a decoder; left: what is left of pkt; ret: the last
\* result of decode_packet() is less than 0; index: pkt.stream_index.  lost: how many
\* parts of each packet main() gave up, of which the code keeps no account.
DdInit ==
  \E f \in DdFiles :
    ToolInit("demux_decode", {f}, {"video", "audio"},
             {[opened |-> {}, left |-> 0, ret |-> FALSE, index |-> "none",
               lost |-> [k \in DOMAIN f.packets |-> 0]]})

\* exit(1) up to the codecs; after them ret = 1 for a file that cannot be opened
\* becomes 0, as only a ret below 0 is an error to main()'s last line.
DdOpenFails == OpenFailure({0, 1})

\* A stream without a decoder is left out.
open_codec_context ==
  /\ tpc = "open"
  /\ \E s \in SUBSET {"video", "audio"} \ {{}} :
       own' = [own EXCEPT !.opened = s] /\ inside' = [d \in s |-> <<>>]
  /\ GoesTo("loop")
  /\ UNCHANGED <<input, taken, out>>

DdRead ==
  /\ AtPacket
  /\ own' = [own EXCEPT !.left = Packet.parts, !.index = Packet.stream]
  /\ Reads /\ GoesTo("decode")
  /\ UNCHANGED <<input, inside, out>>

pkt == input.packets[taken]

\* decode_packet() returns less than 0, and main() breaks: n parts are not decoded.
pktLost(n) ==
  /\ own' = [own EXCEPT !.left = 0, !.ret = TRUE, !.lost[taken] = n]
  /\ GoesTo("loop")

\* pkt.size -= ret: the loop goes on while something is left.
Consumes(n) ==
  /\ own' = [own EXCEPT !.left = @ - n, !.ret = FALSE]
  /\ GoesTo(IF own.left = n THEN "loop" ELSE "decode")

\* What the decoder of pkt's stream holds, in order.
Held == inside[own.index]

FrameHere ==
  [stream |-> pkt.stream, n |-> taken, part |-> pkt.parts - own.left, quality |-> pkt.quality]

\* Of these the decoder makes frames.
Decodable == {"good", "resized", "odd", "mono"}

Decoding(q) == tpc = "decode" /\ own.index \in own.opened /\ pkt.quality \in q

\* A packet of a stream without a decoder counts as decoded.
DdOther ==
  /\ tpc = "decode" /\ own.index \notin own.opened
  /\ Consumes(own.left)
  /\ UNCHANGED <<input, taken, inside, out>>

DdHolds ==
  /\ Decoding(Decodable)
  /\ Len(Held) < DdDelay
  /\ inside' = [inside EXCEPT ![own.index] = Append(@, FrameHere)]
  /\ Consumes(1)
  /\ UNCHANGED <<input, taken, out>>

\* Of the frames q the decoder gives out the oldest.  A video frame of another
\* size is an error and is not written.
DdGives(q) ==
  /\ inside' = [inside EXCEPT ![own.index] = Tail(q)]
  /\ out' = IF Head(q).quality = "resized" THEN out
            ELSE [out EXCEPT ![own.index] = Append(@, Head(q))]

\* What the decoder holds, and the frame it has just taken.
Taken == Append(Held, FrameHere)

\* A frame with a single plane is not written: its data[1] is NULL.
Writable(q) == q # <<>> /\ Head(q).quality # "mono"

\* Mutant: the rest of the packet is dropped with its first frame.
DdFrameFirstPart ==
  /\ Decoding(Decodable) /\ Writable(Taken)
  /\ DdGives(Taken)
  /\ IF Head(Taken).quality = "good" THEN Consumes(own.left) ELSE pktLost(own.left - 1)
  /\ UNCHANGED <<input, taken>>

\* A frame of another size, and one that swr_init() refuses after it has been written:
\* -1, and what is left of the packet in hand, which may not be the frame's, is lost.
DdFrame ==
  /\ Decoding(Decodable) /\ Writable(Taken)
  /\ DdGives(Taken)
  /\ IF Head(Taken).quality = "good" THEN Consumes(1) ELSE pktLost(own.left - 1)
  /\ UNCHANGED <<input, taken>>

DdError == Decoding({"bad"}) /\ pktLost(own.left) /\ UNCHANGED <<input, taken, inside, out>>

\* The audio decoder consumes nothing: the inner loop calls it for ever.
DdStuck ==
  /\ Decoding({"stuck"})
  /\ Consumes(0)
  /\ UNCHANGED <<input, taken, inside, out>>

\* av_read_frame() leaves pkt as it was or with stream_index 0: one decoder is
\* drained, of the last packet's stream or of the first.
DdReadFails ==
  /\ AtReadError
  /\ \E s \in {own.index, input.first} : own' = [own EXCEPT !.index = s]
  /\ GoesTo("flush")
  /\ UNCHANGED <<input, taken, inside, out>>

DdReadEnd == AtEnd /\ DdReadFails

DdDrains ==
  /\ tpc = "flush" /\ own.index \in own.opened /\ Writable(Held)
  /\ DdGives(Held)
  /\ GoesTo("flush")
  /\ UNCHANGED <<input, taken, own>>

\* fwrite() from data[1], with a packet or while the decoder is drained.
DdMono ==
  /\ \/ Decoding(Decodable) /\ ~Writable(Taken)
     \/ tpc = "flush" /\ own.index \in own.opened /\ Held # <<>> /\ ~Writable(Held)
  /\ OnlyExits(Crashed)

\* With audio, ret becomes whether the sample format has a name; else it is still
\* that of the last packet.
DdEnd ==
  /\ tpc = "flush"
  /\ own.index \in own.opened => Held = <<>>
  /\ \E c \in (IF "audio" \in own.opened THEN {0, 1} ELSE {IF own.ret THEN 1 ELSE 0}) :
       OnlyExits(c)

DdWorks ==
  \/ open_codec_context \/ DdRead \/ DdOther \/ DdHolds \/ DdFrame \/ DdError
  \/ DdStuck \/ DdReadEnd \/ DdDrains \/ DdMono \/ DdEnd

DdFails == DdOpenFails \/ DdReadFails

DemuxDecodeSpec == DdInit /\ [][DdWorks \/ DdFails]_toolVars

-----------------------------------------------------------------------------

\* The frames that are written, or will be.
IsKept(x) == x.quality \in Decodable \ {"resized"}

\* The frames of packet k that have been decoded.
PartsDone(k) ==
  IF IsKept(input.packets[k])
  THEN input.packets[k].parts - own.lost[k] - (IF k = taken THEN own.left ELSE 0)
  ELSE 0

\* The parts of the packets of stream s that have been decoded.
PartsOf(s) ==
  UNION {{<<k, p>> : p \in 0..(PartsDone(k) - 1)} : k \in {j \in 1..taken : input.packets[j].stream = s}}

\* The frames of stream s that are written or held, the oldest first.
Frames(s) == out[s] \o inside[s]

Before(f, g) == f.n < g.n \/ (f.n = g.n /\ f.part < g.part)

\* Of each stream, the parts of every packet are written or held, once and in order,
\* whatever errors and changes of size lie between: all of them, or, of a packet that
\* main() gave up, those from the first up to where it did, and it gave up only
\* because a frame of that packet or of one before, written already, could not be
\* resampled.  The decoder that is drained is empty when main() returns.
DecodesEveryPart ==
  program = "demux_decode" =>
    /\ \A s \in own.opened :
         /\ {<<f.n, f.part>> : f \in {g \in ToSet(Frames(s)) : IsKept(g)}} = PartsOf(s)
         /\ \A i, j \in DOMAIN Frames(s) : i < j => Before(Frames(s)[i], Frames(s)[j])
    /\ \A k \in 1..taken :
         IsKept(input.packets[k]) /\ own.lost[k] > 0 =>
           /\ own.lost[k] < input.packets[k].parts
           /\ \E i \in DOMAIN out["audio"] :
                out["audio"][i].quality = "odd" /\ out["audio"][i].n <= k
    /\ tpc = "ended" /\ code # Crashed /\ own.index \in own.opened => Held = <<>>

=============================================================================
