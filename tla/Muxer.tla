-------------------------------- MODULE Muxer --------------------------------
(***************************************************************************)
(* example/3-7-h264_aac_muxer: the video packets of one file and the audio *)
(* packets of another are written to one output, each time from the file   *)
(* that is behind.                                                         *)
(***************************************************************************)
EXTENDS MediaTool

\* [video, audio, outBase], each file [base, step, packets], packets of
\* [wanted, pts]; base is 1 / time_base, step the frame's duration.
CONSTANT MuxFiles

ASSUME MuxerAssumption ==
  LET File == [base : Nat \ {0}, step : Nat, packets : Seq([wanted : BOOLEAN, pts : Int])]
  IN MuxFiles \subseteq [video : File, audio : File, outBase : Nat \ {0}]

NOPTS == -1    \* AV_NOPTS_VALUE
Kinds == {"video", "audio"}

\* cur_pts_v and cur_pts_a, the packets read of each file, frame_index.
MuxerInit ==
  ToolInit("muxer", MuxFiles, {"file"},
           {[cur |-> [f \in Kinds |-> 0], read |-> [f \in Kinds |-> 0], frame_index |-> 0]})

\* errReport() exits with 0 whatever init_muxer() returns; without the aac filter
\* main() returns 0 as well.
MuxOpenFails == OpenFailure({0})

\* create_out_stream() returns 0 without a stream of the type, too, and then main()
\* reads streams[-1].
init_muxer ==
  /\ OpenSucceeds
  /\ \A f \in Kinds : \E k \in DOMAIN input[f].packets : input[f].packets[k].wanted

\* av_compare_ts(cur_pts_v, ..., cur_pts_a, ...) <= 0
Chosen ==
  IF own.cur["video"] * input["audio"].base <= own.cur["audio"] * input["video"].base
  THEN "video" ELSE "audio"

Rest(f) == own.read[f] + 1 .. Len(input[f].packets)
WantedRest(f) == {k \in Rest(f) : input[f].packets[k].wanted}

\* Mutant: the stream of the packet is not looked at.
FoundAny(f) == Min(Rest(f))

\* The packet headle_data() returns, and its pts: a packet without one gets a
\* multiple of the frame's duration.
Found(f) == Min(WantedRest(f))
HasPts(f) == input[f].packets[Found(f)].pts # NOPTS
FoundPts(f) == IF HasPts(f) THEN input[f].packets[Found(f)].pts
               ELSE own.frame_index * input[f].step

Written(f, n, pts) ==
  [kind |-> f, n |-> n, pts |-> pts, dts |-> Rescale(pts, input[f].base, input.outBase)]

OfKind(f) == {w \in Range(out["file"]) : w.kind = f}

\* The packet main() writes next.  When the rest of the file is unwanted,
\* headle_data() returns 0 all the same, and that is the last one it read.
NextMuxed ==
  IF WantedRest(Chosen) # {} THEN Written(Chosen, Found(Chosen), FoundPts(Chosen))
  ELSE LET n == Len(input[Chosen].packets)
       IN Written(Chosen, n, input[Chosen].packets[n].pts)

WriteMuxed ==
  /\ Accepts(OfKind(Chosen), NextMuxed.dts)
  /\ out' = [out EXCEPT !["file"] = Append(@, NextMuxed)]
  /\ GoesTo("loop")

\* Mutant: *pts is not set.
MuxWantedKeepsTime ==
  /\ tpc = "loop" /\ WantedRest(Chosen) # {}
  /\ own' = [own EXCEPT !.read[Chosen] = Found(Chosen),
                        !.frame_index = IF HasPts(Chosen) THEN @ ELSE @ + 1]
  /\ WriteMuxed
  /\ UNCHANGED <<input, taken, inside>>

\* Unwanted packets are passed over without being freed.
MuxWanted ==
  /\ tpc = "loop" /\ WantedRest(Chosen) # {}
  /\ own' = [own EXCEPT !.cur[Chosen] = FoundPts(Chosen),
                        !.read[Chosen] = Found(Chosen),
                        !.frame_index = IF HasPts(Chosen) THEN @ ELSE @ + 1]
  /\ WriteMuxed
  /\ UNCHANGED <<input, taken, inside>>

MuxStale ==
  /\ tpc = "loop" /\ WantedRest(Chosen) = {} /\ Rest(Chosen) # {}
  /\ own' = [own EXCEPT !.read[Chosen] = Len(input[Chosen].packets)]
  /\ WriteMuxed
  /\ UNCHANGED <<input, taken, inside>>

\* The file that is behind has ended: what the other one still holds is not muxed.
MuxEnd == tpc = "loop" /\ Rest(Chosen) = {} /\ OnlyExits(0)

\* A packet can neither be read nor written.
MuxLoopFails == tpc = "loop" /\ OnlyExits(0)

MuxRefused ==
  MuxLoopFails /\ Rest(Chosen) # {} /\ ~Accepts(OfKind(Chosen), NextMuxed.dts)

MuxerWorks == init_muxer \/ MuxWanted \/ MuxStale \/ MuxRefused \/ MuxEnd

MuxerFails == MuxOpenFails \/ MuxLoopFails

MuxerSpec == MuxerInit /\ [][MuxerWorks \/ MuxerFails]_toolVars

-----------------------------------------------------------------------------

Other(f) == IF f = "video" THEN "audio" ELSE "video"

Unread(f) ==
  {[kind |-> f, pts |-> input[f].packets[k].pts] : k \in
     {m \in WantedRest(f) : input[f].packets[m].pts # NOPTS}}

\* The two streams advance together: once a packet is not the newest of its stream
\* any more, nothing of the other stream that is earlier is still to come, in the
\* output or in the file, for any two time bases and for files whose packets have no
\* pts.
MuxIsInterleaved ==
  program = "muxer" =>
  LET w == out["file"]
      Wanted(j) == input[w[j].kind].packets[w[j].n].wanted
      After(k, f) == {w[j] : j \in {m \in k + 1 .. Len(w) : w[m].kind = f /\ Wanted(m)}}
  IN \A i, k \in DOMAIN w :
       i < k /\ w[i].kind = w[k].kind =>
         LET f == w[i].kind
         IN \A p \in After(k, Other(f)) \cup Unread(Other(f)) :
              p.pts * input[f].base >= w[i].pts * input[Other(f)].base

\* Of each file the output has the wanted packets up to where it was read, each
\* once and in order, and at most one that is not wanted, at the end.
MuxKeepsOrder ==
  program = "muxer" =>
  LET w == out["file"]
  IN \A f \in Kinds :
       /\ \A i, j \in DOMAIN w :
            i < j /\ w[i].kind = f /\ w[j].kind = f => w[i].n < w[j].n
       /\ \E last \in SUBSET {own.read[f]} :
            {e.n : e \in OfKind(f)}
              = {k \in 1..own.read[f] : input[f].packets[k].wanted} \cup last

=============================================================================
