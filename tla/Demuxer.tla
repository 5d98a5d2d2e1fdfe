------------------------------- MODULE Demuxer -------------------------------
(***************************************************************************)
(* example/3-2-demuxer: the first video and the first audio stream's       *)
(* parameters, and the packets of the last video and the last audio        *)
(* stream, go to a raw file each.  Raw files have no timestamps.           *)
(***************************************************************************)
EXTENDS MediaTool

CONSTANT DemuxFiles   \* [streams, packets]; a packet is the number of its stream

ASSUME DemuxerAssumption == DemuxFiles \subseteq [streams : Seq(STRING), packets : Seq(Nat)]

DemuxerInit == ToolInit("demuxer", DemuxFiles, {"video", "audio"}, {<<>>})

\* The loop over the streams stops at one that is neither video nor audio.
DemuxStreams ==
  {i \in DOMAIN input.streams : \A j \in 1..i : input.streams[j] \in {"video", "audio"}}

\* videoindex and audioindex: the last stream of the type, 0 when there is none.
StreamIndex(type) == Max({0} \cup {i \in DemuxStreams : input.streams[i] = type})

HasBoth == StreamIndex("video") # 0 /\ StreamIndex("audio") # 0

DemuxOpen == HasBoth /\ OpenSucceeds

\* An output without a stream has no header.
DemuxNoHeader == ~HasBoth /\ OpenFailure({-1})

\* A file, a context, a stream or a header.
DemuxOpenFails == OpenFailure({-1})

\* Mutant: the packets of every stream of the type.
DemuxWriteByType(type) ==
  /\ AtPacket /\ input.streams[Packet] = type
  /\ Reads /\ GoesTo("loop")
  /\ out' = [out EXCEPT ![type] = Append(@, taken + 1)]
  /\ UNCHANGED <<input, inside, own>>

DemuxWrite(type) ==
  /\ AtPacket /\ Packet = StreamIndex(type)
  /\ Reads /\ GoesTo("loop")
  /\ out' = [out EXCEPT ![type] = Append(@, taken + 1)]
  /\ UNCHANGED <<input, inside, own>>

\* The packet of another stream is never freed.
DemuxSkip ==
  /\ AtPacket
  /\ \A type \in {"video", "audio"} : Packet # StreamIndex(type)
  /\ SkipsPacket

\* break, and 0 whatever happened.
DemuxWriteFails ==
  /\ AtPacket
  /\ \E type \in {"video", "audio"} : Packet = StreamIndex(type)
  /\ Reads /\ Exits(0)
  /\ UNCHANGED <<input, inside, out, own>>

DemuxEnd == AtEnd /\ OnlyExits(0)

DemuxReadFails == AtReadError /\ OnlyExits(0)

DemuxerWorks ==
  \/ DemuxOpen \/ DemuxNoHeader \/ DemuxSkip \/ DemuxEnd
  \/ \E type \in {"video", "audio"} : DemuxWrite(type)

DemuxerFails == DemuxOpenFails \/ DemuxWriteFails \/ DemuxReadFails

DemuxerSpec == DemuxerInit /\ [][DemuxerWorks \/ DemuxerFails]_toolVars

-----------------------------------------------------------------------------

\* Whatever the number and order of the streams, while packets are read an output
\* has all those read of one stream of its type, in order and with none of another
\* stream among them: with "in general only two streams" (3-2-demuxer.c:85), of
\* the only one.
DemuxedIsOneStream ==
  program = "demuxer" /\ tpc = "loop" =>
    \A type \in DOMAIN out :
      \E s \in DOMAIN input.streams :
        /\ input.streams[s] = type
        /\ Lists(out[type], {k \in 1..taken : input.packets[k] = s})

=============================================================================
