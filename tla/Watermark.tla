------------------------------ MODULE Watermark ------------------------------
(***************************************************************************)
(* example/3-7-watermark/3-7-watermark.c: the frames of the video stream   *)
(* go through a filter graph that lays a logo over them, to a YUV file.    *)
(* inside is what the decoder has ready, graph what the filter graph holds.*)
(***************************************************************************)
EXTENDS MediaTool

CONSTANTS
  WmFiles,       \* [packets], each packet the number of frames it holds, 0 for
                 \* a packet of another stream
  FilterDelay    \* frames the graph may keep back

ASSUME WatermarkAssumption ==
  /\ WmFiles \subseteq [packets : Seq(Nat)]
  /\ FilterDelay \in Nat

WatermarkInit == ToolInit("watermark", WmFiles, {"yuv"}, {[graph |-> <<>>, given |-> <<>>]})

\* Arguments and frames, open_input_file(), init_filters(): 1 in every case.
WmOpenFails == OpenFailure({1})

WmOpen == OpenSucceeds

WmOther ==
  /\ AtPacket /\ Packet = 0
  /\ SkipsPacket

\* avcodec_send_packet()
WmSend ==
  /\ AtPacket /\ Packet > 0 /\ inside = <<>>
  /\ Reads
  /\ inside' = [k \in 1..Packet |-> <<taken + 1, k>>]
  /\ GoesTo("receive")
  /\ UNCHANGED <<input, out, own>>

\* The packet is damaged, or frames are still to be received (EAGAIN): an error.
WmSendFails ==
  /\ AtPacket /\ Packet > 0
  /\ Reads
  /\ Exits(1)
  /\ UNCHANGED <<input, inside, out, own>>

WmSendRefused == WmSendFails /\ inside # <<>>

\* avcodec_receive_frame() and av_buffersrc_add_frame_flags(); given is history.
WmReceive ==
  /\ tpc = "receive" /\ inside # <<>>
  /\ inside' = Tail(inside)
  /\ own' = [graph |-> Append(own.graph, Head(inside)), given |-> Append(own.given, Head(inside))]
  /\ GoesTo("filter")
  /\ UNCHANGED <<input, taken, out>>

\* Feeding the graph fails: only the loop over the decoder's frames ends.
WmFeedFails ==
  /\ tpc = "receive" /\ inside # <<>>
  /\ inside' = Tail(inside)
  /\ GoesTo("loop")
  /\ UNCHANGED <<input, taken, out, own>>

\* Mutant: EAGAIN is a reason to ask the decoder again.
WmReceivedRetries ==
  /\ tpc = "receive" /\ inside = <<>>
  /\ OnlyGoesTo("receive")

\* EAGAIN of the decoder: the packet is done.
WmReceived ==
  /\ tpc = "receive" /\ inside = <<>>
  /\ OnlyGoesTo("loop")

\* The decoder or the graph fails: goto end.
WmFails ==
  /\ tpc \in {"receive", "filter"}
  /\ OnlyExits(1)

\* Mutant: the frame is not unreferenced and comes again.
WmFilterAgain ==
  /\ tpc = "filter"
  /\ out' = [out EXCEPT !["yuv"] = Append(@, Head(own.graph))]
  /\ GoesTo("receive")
  /\ UNCHANGED <<input, taken, inside, own>>

\* One frame is pulled, and written; the unconditional break leaves any other
\* for later.
WmFilter ==
  /\ tpc = "filter"
  /\ out' = [out EXCEPT !["yuv"] = Append(@, Head(own.graph))]
  /\ own' = [own EXCEPT !.graph = Tail(@)]
  /\ GoesTo("receive")
  /\ UNCHANGED <<input, taken, inside>>

\* EAGAIN of the graph: ret is below 0, so the loop over the decoder's frames ends
\* as well, whatever the decoder has ready.
WmFilterHolds ==
  /\ tpc = "filter" /\ Len(own.graph) <= FilterDelay
  /\ OnlyGoesTo("loop")

\* ret is AVERROR_EOF, or an error.  Neither the decoder nor the graph is drained.
WmEnd == AtEnd /\ OnlyExits(0)

WmReadFails == AtReadError /\ OnlyExits(1)

WatermarkWorks ==
  \/ WmOpen \/ WmOther \/ WmSend \/ WmSendRefused \/ WmReceive \/ WmReceived
  \/ WmFilter \/ WmFilterHolds \/ WmEnd

WatermarkFails == WmOpenFails \/ WmSendFails \/ WmFeedFails \/ WmFails \/ WmReadFails

WatermarkSpec == WatermarkInit /\ [][WatermarkWorks \/ WatermarkFails]_toolVars

-----------------------------------------------------------------------------

\* One frame pulled for one fed is enough: whatever the graph keeps back and however
\* often it does, it never holds more than FilterDelay frames when the next packet
\* is read, and what was fed to it is in the file or in it, once and in order.
FilterKeepsPace ==
  program = "watermark" =>
  /\ tpc = "loop" => Len(own.graph) <= FilterDelay
  /\ out["yuv"] \o own.graph = own.given

=============================================================================
