------------------------------- MODULE Remuxer -------------------------------
(***************************************************************************)
(* example/3-9-remuxer: every audio, video and subtitle stream is copied   *)
(* to an output stream of its own, with its timestamps rescaled.           *)
(***************************************************************************)
EXTENDS MediaTool

CONSTANT RemuxFiles   \* [streams, bases, outBases, packets], packets of [stream, dts]

ASSUME RemuxerAssumption ==
  \A f \in RemuxFiles :
    /\ f \in [streams : Seq(STRING), bases : Seq(Nat \ {0}), outBases : Seq(Nat \ {0}),
              packets : Seq([stream : Nat \ {0}, dts : Nat])]
    /\ Len(f.bases) = Len(f.streams) /\ Len(f.outBases) = Len(f.streams)

\* No more output streams than there are in the file.  out: the packets that the
\* muxer accepted; inside: how many of them it has not written yet, the last ones of
\* each stream; trailer: what av_write_trailer() did, which main() does not look at.
RemuxerInit ==
  \E f \in RemuxFiles :
    ToolInit("remuxer", {f}, 0..(Len(f.streams) - 1), {[trailer |-> "none"]})

\* A stream that was not there when the file was opened is not copied.
IsCopied(i) ==
  i \in DOMAIN input.streams /\ input.streams[i] \in {"audio", "video", "subtitle"}

\* Mutant: the stream keeps its own number.
stream_mapping_identity(i) == IF IsCopied(i) THEN i - 1 ELSE -1

\* stream_index counts the streams that are copied.
stream_mapping(i) ==
  IF IsCopied(i) THEN Cardinality({j \in 1..(i - 1) : IsCopied(j)}) ELSE -1

\* Too few arguments, a file, its streams, or the header: 1 every time.
RemuxOpenFails == OpenFailure({1})

RemuxOpen ==
  /\ tpc = "open"
  /\ inside' = [o \in DOMAIN out |-> 0]
  /\ GoesTo("loop")
  /\ UNCHANGED <<input, taken, out, own>>

\* Of the packets it held the muxer has written any number, the oldest first.
Writes(held) ==
  /\ inside' \in [DOMAIN out -> 0..Len(input.packets)]
  /\ \A o \in DOMAIN out : inside'[o] <= held[o]

\* av_write_trailer() writes what is left, or fails at any of it; then c is returned.
WritesTrailer(c) ==
  /\ \/ own' = [trailer |-> "written"] /\ inside' = [o \in DOMAIN out |-> 0]
     \/ own' = [trailer |-> "failed"] /\ Writes(inside)
  /\ Exits(c)
  /\ UNCHANGED <<input, out>>

\* A packet of no output stream is released.
RemuxSkip ==
  /\ AtPacket /\ stream_mapping(Packet.stream) < 0
  /\ SkipsPacket

RescaledDts ==
  Rescale(Packet.dts, input.bases[Packet.stream], input.outBases[Packet.stream])

RemuxCopy ==
  /\ AtPacket
  /\ LET o == stream_mapping(Packet.stream)
     IN /\ o >= 0
        /\ Accepts(Range(out[o]), RescaledDts)
        /\ out' = [out EXCEPT ![o] = Append(@, [n |-> taken + 1, dts |-> RescaledDts])]
        /\ Writes([inside EXCEPT ![o] = @ + 1])
  /\ Reads /\ GoesTo("loop")
  /\ UNCHANGED <<input, own>>

\* The write fails: ret is less than 0 and not AVERROR_EOF.
RemuxCopyFails ==
  /\ AtPacket /\ stream_mapping(Packet.stream) >= 0
  /\ Reads /\ WritesTrailer(1)

RemuxRefused ==
  /\ RemuxCopyFails
  /\ ~Accepts(Range(out[stream_mapping(Packet.stream)]), RescaledDts)

\* ret is AVERROR_EOF at the end of the file, something else at an error.
RemuxEnd == AtEnd /\ WritesTrailer(0) /\ UNCHANGED taken

RemuxReadFails == AtReadError /\ WritesTrailer(1) /\ UNCHANGED taken

RemuxerWorks == RemuxOpen \/ RemuxSkip \/ RemuxCopy \/ RemuxRefused \/ RemuxEnd

RemuxerFails == RemuxOpenFails \/ RemuxCopyFails \/ RemuxReadFails

RemuxerSpec == RemuxerInit /\ [][RemuxerWorks \/ RemuxerFails]_toolVars

-----------------------------------------------------------------------------

\* The numbers of the packets in an output stream.
PacketsIn(o) == [k \in DOMAIN out[o] |-> out[o][k].n]

\* "Error muxing packet" (3-9-remuxer.c:198) and the exit code: 0 means that the
\* muxer accepted the n-th of the streams to copy, packet for packet and in order, as
\* the n-th stream of the output, whatever other streams lie between them.  All
\* of it is in the file unless av_write_trailer() failed, of which the code says
\* nothing.
ExitCodeMeansRemuxed ==
  program = "remuxer" /\ code = 0 =>
    LET kept == {i \in DOMAIN input.streams : IsCopied(i)}
    IN /\ \A i \in kept :
            Lists(PacketsIn(Cardinality({j \in kept : j < i})),
                  {k \in DOMAIN input.packets : input.packets[k].stream = i})
       /\ own.trailer = "written" => \A o \in DOMAIN out : inside[o] = 0

=============================================================================
