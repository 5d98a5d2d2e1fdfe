------------------------------ MODULE MCExamples ------------------------------
(***************************************************************************)
(* The programs of example/, for TLC: the two players and the command line *)
(* tools.  A behaviour is of the one that program names; the players'      *)
(* variables rest while a tool runs, and the other way round.              *)
(***************************************************************************)
EXTENDS DecodeVideo, Demuxer, Remuxer, Muxer, Decoders, Encoders, DemuxDecode,
        Watermark, Synthetic

vars == <<playerVars, toolVars>>

Audible(t, q) == [stream |-> "audio", pts |-> t, quality |-> q]
OfStream(s) == [stream |-> s, pts |-> 0, quality |-> "good"]

MCMedia ==
  { <<Audible(0, "good"), Audible(300, "short"), OfStream("video"),
      Audible(300, "short"), Audible(900, "good")>>,
    <<Audible(0, "late"), OfStream("other"), Audible(900, "broken"), Audible(600, "good")>>,
    <<Audible(300, "empty"), Audible(300, "odd"), Audible(600, "good"), Audible(0, "good")>>,
    <<Audible(0, "good"), Audible(0, "bad"), Audible(0, "good")>>,
    <<Audible(0, "short"), Audible(300, "many"), Audible(300, "good")>>,
    <<OfStream("video")>> }

\* A data stream between, two video streams, a packet of a third stream.
MCDemuxFiles ==
  { f \in [streams : {<<"video", "audio">>, <<"audio", "video", "data">>,
                      <<"video", "video", "audio">>, <<"video", "data", "audio">>},
           packets : {<<1, 2, 1, 2>>, <<2, 2, 1>>, <<2, 3, 1, 3>>}] :
      \A k \in DOMAIN f.packets : f.packets[k] \in DOMAIN f.streams }

Dts(s, t) == [stream |-> s, dts |-> t]

\* Streams that are not copied, a stream that appears later; equal bases, coarser ones in the output, and ones in which two packets meet.
MCRemuxFiles ==
  { [streams |-> <<"data", "video", "audio">>, bases |-> <<1, b, 3>>, outBases |-> <<1, 2, 3>>,
     packets |-> <<Dts(2, 0), Dts(1, 0), Dts(3, 0), Dts(2, 1), Dts(3, 1), Dts(1, 1), Dts(2, 3)>>] :
      b \in {2, 3, 8} }
  \cup
  { [streams |-> <<"audio", "data", "subtitle", "video">>, bases |-> <<3, 1, 1, 2>>,
     outBases |-> <<1, 1, 1, 2>>,
     packets |-> <<Dts(4, 0), Dts(1, 2), Dts(3, 0), Dts(5, 1), Dts(4, 1), Dts(1, 5)>>] }

Wanted(ts) == [k \in DOMAIN ts |-> [wanted |-> TRUE, pts |-> ts[k]]]
Unwanted(t) == <<[wanted |-> FALSE, pts |-> t]>>

\* Video with and without timestamps, audio in another base with other packets
\* before, between and after.
MCMuxFiles ==
  { [video |-> v, audio |-> [base |-> 3, step |-> 1, packets |-> a], outBase |-> 12] :
      v \in { [base |-> 4, step |-> 2, packets |-> p] :
                p \in { Wanted(<<0, 1, 2, 5, 6, 9>>), Wanted(<<NOPTS, NOPTS, NOPTS, NOPTS>>),
                        Wanted(<<0, 0>>) } },
      a \in { Wanted(<<0, 1, 3, 4, 6>>), Unwanted(0) \o Wanted(<<2, 4>>) \o Unwanted(5),
              Wanted(<<0>>) \o Unwanted(1) \o Wanted(<<2>>) \o Unwanted(3) \o Unwanted(4) } }

MCDecodeFiles ==
  { [channels |-> c, packets |-> p] :
      c \in {1, 2}, p \in UNION {[1..n -> {"good", "bad"}] : n \in {0, 4}} }

MCRawFiles ==
  { [packets |-> p] : p \in {<<>>, <<"part">>, <<"full", "full", "full", "part">>} }

Part(s, n, q) == [stream |-> s, parts |-> n, quality |-> q]

MCDdFiles ==
  { [first |-> f, packets |-> p] :
      f \in {"video", "audio"},
      p \in { <<Part("video", 1, "good"), Part("audio", 3, "good"), Part("video", 1, "resized"),
                Part("audio", 2, "good"), Part("video", 1, "good")>>,
              <<Part("audio", 2, "bad"), Part("other", 1, "good"), Part("audio", 1, "good"),
                Part("video", 1, "bad")>>,
              <<Part("audio", 1, "good"), Part("audio", 3, "odd"), Part("audio", 3, "good"),
                Part("video", 1, "good"), Part("audio", 2, "good")>>,
              <<Part("audio", 2, "good"), Part("video", 1, "good"), Part("audio", 2, "mono")>>,
              <<Part("audio", 2, "good"), Part("audio", 1, "stuck")>> } }

MCWmFiles == { [packets |-> p] : p \in {<<1, 0, 1, 1, 1>>, <<1, 2, 1>>} }

PlayerRests == PlayerAt("ended")

Init ==
  \/ PlayerInit /\ \E p \in {"player", "decode_video"} :
       ToolInit(p, {<<>>}, {}, {<<>>})
  \/ /\ PlayerRests
     /\ \/ DemuxerInit \/ RemuxerInit \/ MuxerInit \/ H264Init \/ AacInit
        \/ EncoderInit(TRUE) \/ EncoderInit(FALSE) \/ DdInit \/ WatermarkInit
        \/ ResamplingInit \/ ScalingInit

MainStep == program = "player" /\ Main /\ UNCHANGED toolVars
DvMainStep == program = "decode_video" /\ DvMain /\ UNCHANGED toolVars
AudioStep ==
  /\ \/ program = "player" /\ Audio
     \/ program = "decode_video" /\ DvAudio
  /\ UNCHANGED toolVars
ClockStep == Clock /\ UNCHANGED toolVars

Works ==
  /\ \/ program = "demuxer" /\ DemuxerWorks
     \/ program = "remuxer" /\ RemuxerWorks
     \/ program = "muxer" /\ MuxerWorks
     \/ program = "decode_h264" /\ H264Works
     \/ program = "decode_aac" /\ AacWorks
     \/ program \in {"encode_h264", "encode_aac"} /\ EncoderWorks
     \/ program = "demux_decode" /\ DdWorks
     \/ program = "watermark" /\ WatermarkWorks
     \/ program = "resampling" /\ ResamplingWorks
     \/ program = "scaling" /\ ScalingWorks
  /\ UNCHANGED playerVars

Fails ==
  /\ \/ program = "demuxer" /\ DemuxerFails
     \/ program = "remuxer" /\ RemuxerFails
     \/ program = "muxer" /\ MuxerFails
     \/ program \in {"decode_h264", "decode_aac"} /\ DecoderFails
     \/ program \in {"encode_h264", "encode_aac"} /\ EncoderFails
     \/ program = "demux_decode" /\ DdFails
     \/ program = "watermark" /\ WatermarkFails
     \/ program = "resampling" /\ ResamplingFails
     \/ program = "scaling" /\ ScalingOpenFails
  /\ UNCHANGED playerVars

\* What has ended, or waits for what will not come, stays as it is.
Rests ==
  /\ \/ program \notin {"player", "decode_video"} /\ tpc = "ended"
     \/ program \in {"player", "decode_video"} /\
          (mpc = "ended" \/ PtsBeforeFirst \/ QuitInCallback \/ ~Alive)
  /\ UNCHANGED vars

Next ==
  MainStep \/ DvMainStep \/ AudioStep \/ ClockStep \/ Works \/ Fails \/ Rests

\* No tool is taken to fail in order to end.
Spec ==
  /\ Init /\ [][Next]_vars
  /\ WF_vars(MainStep) /\ WF_vars(DvMainStep) /\ WF_vars(AudioStep) /\ WF_vars(ClockStep)
  /\ WF_vars(Works)

-----------------------------------------------------------------------------

\* Every tool ends, by returning or by a crash of its own, without any failure having
\* to come to its help, over every input but one: an audio decoder that consumes
\* nothing and gives no frame.
ToolEnds ==
  <>(\/ program \in {"player", "decode_video"} \/ tpc = "ended"
     \/ program = "demux_decode" /\ Decoding({"stuck"}))

=============================================================================
