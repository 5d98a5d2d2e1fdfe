---------------------------- MODULE Packets_proofs ----------------------------
(***************************************************************************)
(* The command line examples that move packets, each under its own         *)
(* specification: what an output holds is what it should, in order, for    *)
(* any files.                                                              *)
(***************************************************************************)
EXTENDS Demuxer, Remuxer, Muxer, Decoders, DemuxDecode, SeqLemmas, FiniteSetTheorems

-----------------------------------------------------------------------------
(* Lists of numbers. *)

LEMMA ListsNothing == Lists(<<>>, {})
  BY DEF Lists

\* A list that goes on with a larger number.
LEMMA ListsNext ==
  ASSUME NEW n \in Nat, NEW s, DOMAIN s = 1..n, NEW m \in Nat, NEW S \in SUBSET (1..m),
         NEW t, DOMAIN t = 1..(n + 1), \A k \in 1..n : t[k] = s[k], t[n + 1] = m + 1,
         Lists(s, S)
  PROVE  Lists(t, S \cup {m + 1})
<1>1. /\ S = {s[k] : k \in 1..n}
      /\ \A i, j \in 1..n : i < j => s[i] < s[j]
  BY DEF Lists
<1>2. n + 1 \in 1..(n + 1) /\ \A k \in 1..(n + 1) : k \in 1..n \/ k = n + 1
  OBVIOUS
<1>3. {t[k] : k \in 1..(n + 1)} = S \cup {m + 1}
  <2>1. \A k \in 1..n : t[k] \in S /\ k \in 1..(n + 1)
    BY <1>1
  <2>2. {t[k] : k \in 1..(n + 1)} \subseteq S \cup {m + 1}
    BY <1>2, <2>1
  <2>3. ASSUME NEW x \in S PROVE x \in {t[k] : k \in 1..(n + 1)}
    <3>1. PICK k \in 1..n : s[k] = x
      BY <1>1
    <3> QED
      BY <2>1, <3>1
  <2>4. m + 1 \in {t[k] : k \in 1..(n + 1)}
    BY <1>2
  <2> QED
    BY <2>2, <2>3, <2>4
<1>4. ASSUME NEW i \in 1..(n + 1), NEW j \in 1..(n + 1), i < j PROVE t[i] < t[j]
  <2>1. i \in 1..n /\ t[i] \in S /\ t[i] = s[i]
    BY <1>1, <1>4
  <2>2. CASE j \in 1..n
    BY <1>1, <1>4, <2>1, <2>2
  <2>3. CASE j = n + 1
    <3>1. t[i] \in 1..m
      BY <2>1
    <3> QED
      BY <2>3, <3>1
  <2> QED
    BY <1>2, <2>2, <2>3
<1> QED
  BY <1>3, <1>4 DEF Lists

LEMMA ListsAppend ==
  ASSUME NEW s \in Seq(Nat), NEW m \in Nat, NEW S \in SUBSET (1..m), Lists(s, S)
  PROVE  Lists(Append(s, m + 1), S \cup {m + 1})
<1> DEFINE n == Len(s)
           t == Append(s, m + 1)
<1>1. n \in Nat /\ DOMAIN s = 1..n /\ t \in Seq(Nat) /\ Len(t) = n + 1
      /\ t[n + 1] = m + 1 /\ \A k \in 1..n : t[k] = s[k]
  BY AppendProperties, LenProperties
<1>2. DOMAIN t = 1..(n + 1)
  BY <1>1, LenProperties
<1> HIDE DEF n, t
<1>3. Lists(t, S \cup {m + 1})
  BY <1>1, <1>2, ListsNext
<1> QED
  BY <1>3 DEF t

-----------------------------------------------------------------------------
(* Demuxer. *)

MediaTypes == {"video", "audio"}

\* The packets of stream s among the first n.
OfStreamIn(packets, n, s) == {k \in 1..n : packets[k] = s}

LEMMA OneMorePacket ==
  ASSUME NEW packets, NEW n \in Nat, NEW s
  PROVE  /\ OfStreamIn(packets, 0, s) = {}
         /\ OfStreamIn(packets, n, s) \in SUBSET (1..n)
         /\ OfStreamIn(packets, n + 1, s) =
              IF packets[n + 1] = s THEN OfStreamIn(packets, n, s) \cup {n + 1}
              ELSE OfStreamIn(packets, n, s)
<1>1. \A k \in Int : k \in 1..(n + 1) <=> k \in 1..n \/ k = n + 1
  OBVIOUS
<1> QED
  BY <1>1 DEF OfStreamIn

DemuxerInv ==
  /\ program = "demuxer" /\ input \in DemuxFiles /\ taken \in Nat
  /\ out \in [MediaTypes -> Seq(Nat)]
  /\ tpc = "open" => taken = 0 /\ \A type \in MediaTypes : out[type] = <<>>
  /\ tpc = "loop" =>
       /\ HasBoth
       /\ \A type \in MediaTypes :
            Lists(out[type], OfStreamIn(input.packets, taken, StreamIndex(type)))

LEMMA StreamIsOfItsType ==
  ASSUME input \in DemuxFiles, NEW type, StreamIndex(type) # 0
  PROVE  StreamIndex(type) \in DOMAIN input.streams
         /\ input.streams[StreamIndex(type)] = type
<1> DEFINE S == {0} \cup {i \in DemuxStreams : input.streams[i] = type}
<1>1. input.streams \in Seq(STRING)
  <2>1. input \in [streams : Seq(STRING), packets : Seq(Nat)]
    BY DemuxerAssumption
  <2> QED
    BY <2>1
<1>2. Len(input.streams) \in Nat /\ DOMAIN input.streams = 1..Len(input.streams)
  BY <1>1, LenProperties
<1>3. S \subseteq 0..Len(input.streams) /\ S # {}
  BY <1>2 DEF DemuxStreams
<1> HIDE DEF S
<1>4. Max(S) \in S
  BY <1>2, <1>3, MaxOfNats
<1>5. StreamIndex(type) = Max(S)
  BY DEF StreamIndex, S
<1> QED
  BY <1>4, <1>5 DEF S, DemuxStreams

LEMMA DemuxerInvInit == DemuxerInit => DemuxerInv
<1> SUFFICES ASSUME DemuxerInit PROVE DemuxerInv
  OBVIOUS
<1>1. /\ program = "demuxer" /\ input \in DemuxFiles /\ taken = 0 /\ tpc = "open"
      /\ out = [type \in MediaTypes |-> <<>>]
  BY DEF DemuxerInit, ToolInit, MediaTypes
<1>2. <<>> \in Seq(Nat)
  OBVIOUS
<1> QED
  BY <1>1, <1>2 DEF DemuxerInv

LEMMA DemuxerKeeps ==
  DemuxerInv /\ [DemuxerWorks \/ DemuxerFails]_toolVars => DemuxerInv'
<1> SUFFICES ASSUME DemuxerInv, [DemuxerWorks \/ DemuxerFails]_toolVars
             PROVE  DemuxerInv'
  OBVIOUS
<1> USE DEF GoesTo, Exits, OnlyGoesTo, OnlyExits
<1>1. input' = input => HasBoth' = HasBoth /\ \A type : StreamIndex(type)' = StreamIndex(type)
  BY DEF HasBoth, StreamIndex, DemuxStreams
<1>2. CASE DemuxOpen
  <2>1. /\ HasBoth /\ tpc = "open" /\ tpc' = "loop" /\ UNCHANGED <<program, input, taken, out>>
    BY <1>2 DEF DemuxOpen, OpenSucceeds
  <2>2. taken = 0 /\ \A type \in MediaTypes : out[type] = <<>>
    BY <2>1 DEF DemuxerInv
  <2>3. \A type \in MediaTypes :
          Lists(out[type], OfStreamIn(input.packets, taken, StreamIndex(type)))
    BY <2>2, OneMorePacket, ListsNothing
  <2>4. HasBoth' /\ \A type \in MediaTypes : StreamIndex(type)' = StreamIndex(type)
    BY <1>1, <2>1
  <2> QED
    BY <2>1, <2>3, <2>4 DEF DemuxerInv
<1>3. ASSUME NEW type \in MediaTypes, DemuxWrite(type) PROVE DemuxerInv'
  <2>1. /\ tpc = "loop" /\ tpc' = "loop" /\ taken' = taken + 1 /\ UNCHANGED <<program, input>>
        /\ input.packets[taken + 1] = StreamIndex(type)
        /\ out' = [out EXCEPT ![type] = Append(@, taken + 1)]
    BY <1>3 DEF DemuxWrite, AtPacket, Reads, Packet
  <2>2. /\ HasBoth /\ taken \in Nat /\ out \in [MediaTypes -> Seq(Nat)]
        /\ \A t \in MediaTypes :
             Lists(out[t], OfStreamIn(input.packets, taken, StreamIndex(t)))
    BY <2>1 DEF DemuxerInv
  <2>3. \A t \in MediaTypes : StreamIndex(t) # 0
    BY <2>2 DEF HasBoth, MediaTypes
  <2>4. \A t \in MediaTypes : input.streams[StreamIndex(t)] = t
    BY <2>3, StreamIsOfItsType DEF DemuxerInv
  <2>5. out' \in [MediaTypes -> Seq(Nat)]
    BY <2>1, <2>2, AppendProperties
  <2>6. ASSUME NEW t \in MediaTypes
        PROVE  Lists(out'[t], OfStreamIn(input.packets, taken + 1, StreamIndex(t)))
    <3>1. CASE t = type
      <4>1. OfStreamIn(input.packets, taken + 1, StreamIndex(t))
              = OfStreamIn(input.packets, taken, StreamIndex(t)) \cup {taken + 1}
            /\ OfStreamIn(input.packets, taken, StreamIndex(t)) \in SUBSET (1..taken)
        <5>1. input.packets[taken + 1] = StreamIndex(t)
          BY <2>1, <3>1
        <5>2. PICK ps, k, i : ps = input.packets /\ k = taken /\ i = StreamIndex(t)
          OBVIOUS
        <5>3. k \in Nat /\ ps[k + 1] = i
          BY <2>2, <5>1, <5>2
        <5>4. /\ OfStreamIn(ps, k + 1, i) = OfStreamIn(ps, k, i) \cup {k + 1}
              /\ OfStreamIn(ps, k, i) \in SUBSET (1..k)
          BY <5>3, OneMorePacket
        <5> QED
          BY <5>2, <5>4
      <4>2. out'[t] = Append(out[t], taken + 1) /\ out[t] \in Seq(Nat)
        BY <2>1, <2>2, <3>1
      <4> QED
        BY <2>2, <4>1, <4>2, ListsAppend
    <3>2. CASE t # type
      <4>1. input.packets[taken + 1] # StreamIndex(t)
        BY <2>1, <2>4, <3>2
      <4>2. OfStreamIn(input.packets, taken + 1, StreamIndex(t))
              = OfStreamIn(input.packets, taken, StreamIndex(t))
        BY <2>2, <4>1, OneMorePacket
      <4> QED
        BY <2>1, <2>2, <3>2, <4>2
    <3> QED
      BY <3>1, <3>2
  <2>7. HasBoth' /\ \A t \in MediaTypes : StreamIndex(t)' = StreamIndex(t)
    BY <1>1, <2>1, <2>2
  <2> QED
    BY <2>1, <2>2, <2>5, <2>6, <2>7 DEF DemuxerInv
<1>4. CASE DemuxSkip
  <2>1. /\ tpc = "loop" /\ tpc' = "loop" /\ taken' = taken + 1
        /\ UNCHANGED <<program, input, out>>
        /\ \A type \in MediaTypes : input.packets[taken + 1] # StreamIndex(type)
    BY <1>4 DEF DemuxSkip, SkipsPacket, AtPacket, Reads, Packet, MediaTypes
  <2>2. HasBoth /\ taken \in Nat
        /\ \A type \in MediaTypes :
             Lists(out[type], OfStreamIn(input.packets, taken, StreamIndex(type)))
    BY <2>1 DEF DemuxerInv
  <2>3. \A type \in MediaTypes :
          OfStreamIn(input.packets, taken + 1, StreamIndex(type))
            = OfStreamIn(input.packets, taken, StreamIndex(type))
    BY <2>1, <2>2, OneMorePacket
  <2>4. HasBoth' /\ \A type \in MediaTypes : StreamIndex(type)' = StreamIndex(type)
    BY <1>1, <2>1, <2>2
  <2> QED
    BY <2>1, <2>2, <2>3, <2>4 DEF DemuxerInv
<1>5. CASE DemuxNoHeader \/ DemuxOpenFails \/ DemuxEnd \/ DemuxReadFails \/ DemuxWriteFails
  <2>1. tpc' = "ended" /\ UNCHANGED <<program, input, out>> /\ taken' \in {taken, taken + 1}
    BY <1>5
    DEF DemuxNoHeader, DemuxOpenFails, OpenFailure, DemuxEnd, DemuxReadFails,
        DemuxWriteFails, Reads
  <2> QED
    BY <2>1 DEF DemuxerInv
<1>6. CASE UNCHANGED toolVars
  <2>1. UNCHANGED <<program, input, taken, out, tpc>>
    BY <1>6 DEF toolVars
  <2> QED
    BY <1>1, <2>1 DEF DemuxerInv
<1> QED
  BY <1>2, <1>3, <1>4, <1>5, <1>6 DEF DemuxerWorks, DemuxerFails, MediaTypes

\* For any streams in any order and any packets: while 3-2-demuxer.c reads, the video
\* and the audio file hold every packet of one stream of their type, in order.
THEOREM DemuxerWritesOneStream == DemuxerSpec => []DemuxedIsOneStream
<1>1. ASSUME DemuxerInv PROVE DemuxedIsOneStream
  <2> SUFFICES ASSUME tpc = "loop", NEW type \in DOMAIN out
               PROVE  \E s \in DOMAIN input.streams :
                        /\ input.streams[s] = type
                        /\ Lists(out[type], {k \in 1..taken : input.packets[k] = s})
    BY DEF DemuxedIsOneStream
  <2>1. type \in MediaTypes /\ HasBoth /\ input \in DemuxFiles
        /\ Lists(out[type], OfStreamIn(input.packets, taken, StreamIndex(type)))
    BY <1>1 DEF DemuxerInv
  <2>2. StreamIndex(type) # 0
    BY <2>1 DEF HasBoth, MediaTypes
  <2>3. StreamIndex(type) \in DOMAIN input.streams
        /\ input.streams[StreamIndex(type)] = type
    BY <2>1, <2>2, StreamIsOfItsType
  <2> QED
    BY <2>1, <2>3 DEF OfStreamIn
<1>2. DemuxerInv => DemuxedIsOneStream
  BY <1>1
<1> QED
  BY <1>2, DemuxerInvInit, DemuxerKeeps, PTL DEF DemuxerSpec

-----------------------------------------------------------------------------
(* Decoders. *)

\* The packets among the first n that give a frame.
GoodIn(packets, n) == {k \in 1..n : packets[k] = "good"}

LEMMA OneMoreGood ==
  ASSUME NEW packets, NEW n \in Nat
  PROVE  /\ GoodIn(packets, 0) = {}
         /\ GoodIn(packets, n) \in SUBSET (1..n)
         /\ GoodIn(packets, n + 1) =
              IF packets[n + 1] = "good" THEN GoodIn(packets, n) \cup {n + 1}
              ELSE GoodIn(packets, n)
<1>1. \A k \in Int : k \in 1..(n + 1) <=> k \in 1..n \/ k = n + 1
  OBVIOUS
<1> QED
  BY <1>1 DEF GoodIn

\* A decoder takes the frame of packet n + 1 and keeps it, or gives out its oldest.
LEMMA DecoderTakes ==
  ASSUME NEW packets, NEW n \in Nat, packets[n + 1] = "good",
         NEW s \in Seq(Nat), NEW q \in Seq(Nat), Lists(s \o q, GoodIn(packets, n)),
         NEW r, r = Append(q, n + 1)
  PROVE  /\ r \in Seq(Nat) /\ Head(r) \in Nat /\ Lists(s \o r, GoodIn(packets, n + 1))
         /\ Tail(r) \in Seq(Nat) /\ Append(s, Head(r)) \in Seq(Nat)
         /\ Lists(Append(s, Head(r)) \o Tail(r), GoodIn(packets, n + 1))
<1>1. s \o q \in Seq(Nat) /\ s \o r = Append(s \o q, n + 1)
  BY ConcatProperties, AppendRight, SMTT(30)
<1>2. GoodIn(packets, n + 1) = GoodIn(packets, n) \cup {n + 1}
      /\ GoodIn(packets, n) \in SUBSET (1..n)
  BY OneMoreGood
<1>3. Lists(s \o r, GoodIn(packets, n + 1))
  BY <1>1, <1>2, ListsAppend
<1>4. r \in Seq(Nat) /\ r # <<>>
  <2>1. n + 1 \in Nat
    OBVIOUS
  <2> QED
    BY <2>1, AppendProperties
<1>5. Head(r) \in Nat /\ Tail(r) \in Seq(Nat)
  BY <1>4, HeadTailProperties
<1>6. Append(s, Head(r)) \in Seq(Nat) /\ Append(s, Head(r)) \o Tail(r) = s \o r
  BY <1>4, <1>5, AppendProperties, MoveHead
<1> QED
  BY <1>3, <1>4, <1>5, <1>6

LEMMA PacketsOfFile ==
  ASSUME input \in DecodeFiles
  PROVE  input.packets \in Seq({"good", "bad"}) /\ Len(input.packets) \in Nat
<1>1. input \in [channels : Nat, packets : Seq({"good", "bad"})]
  BY DecoderAssumption
<1>2. input.packets \in Seq({"good", "bad"})
  BY <1>1
<1> QED
  BY <1>2, LenProperties

H264Inv ==
  /\ program = "decode_h264" /\ input \in DecodeFiles /\ taken \in Nat
  /\ own \in [opened : BOOLEAN, gotFrame : BOOLEAN]
  /\ inside \in Seq(Nat)
  /\ out \in [{"yuv", "rgb"} -> Seq(Nat)]
  /\ tpc = "open" => taken = 0 /\ inside = <<>> /\ out["yuv"] = <<>>
  /\ out["rgb"] = out["yuv"]
  /\ own.opened => Lists(out["yuv"] \o inside, GoodIn(input.packets, taken))

LEMMA H264InvInit == H264Init => H264Inv
<1> SUFFICES ASSUME H264Init PROVE H264Inv
  OBVIOUS
<1>1. PICK g \in BOOLEAN : own = [opened |-> FALSE, gotFrame |-> g]
  BY DEF H264Init, ToolInit
<1>2. /\ program = "decode_h264" /\ input \in DecodeFiles /\ taken = 0 /\ inside = <<>>
      /\ out = [o \in {"yuv", "rgb"} |-> <<>>]
  BY DEF H264Init, ToolInit
<1>3. own \in [opened : BOOLEAN, gotFrame : BOOLEAN] /\ ~own.opened
  BY <1>1
<1>4. <<>> \in Seq(Nat)
  OBVIOUS
<1> QED
  BY <1>2, <1>3, <1>4 DEF H264Inv

LEMMA H264Keeps == H264Inv /\ [H264Works \/ DecoderFails]_toolVars => H264Inv'
<1> SUFFICES ASSUME H264Inv, [H264Works \/ DecoderFails]_toolVars PROVE H264Inv'
  OBVIOUS
<1> USE DEF GoesTo, Exits, OnlyGoesTo, OnlyExits
<1>0. /\ own \in [opened : BOOLEAN, gotFrame : BOOLEAN] /\ inside \in Seq(Nat)
      /\ out \in [{"yuv", "rgb"} -> Seq(Nat)] /\ taken \in Nat
      /\ out["yuv"] \in Seq(Nat) /\ out["rgb"] = out["yuv"]
      /\ own.opened => Lists(out["yuv"] \o inside, GoodIn(input.packets, taken))
  BY DEF H264Inv
<1>1. CASE DecodeOpen
  <2>1. /\ tpc = "open" /\ tpc' = "loop" /\ UNCHANGED <<program, input, taken, inside, out>>
        /\ own' \in [opened : BOOLEAN, gotFrame : BOOLEAN]
    BY <1>0, <1>1 DEF DecodeOpen
  <2>2. taken = 0 /\ inside = <<>> /\ out["yuv"] = <<>>
    BY <2>1 DEF H264Inv
  <2>3. out["yuv"] \o inside = <<>> /\ GoodIn(input.packets, taken) = {}
    <3>1. <<>> \o <<>> = <<>>
      BY ConcatEmptySeq
    <3> QED
      BY <1>0, <2>2, <3>1, OneMoreGood
  <2> QED
    BY <2>1, <2>3, ListsNothing DEF H264Inv
<1>2. CASE DecodeHolds
  <2>1. /\ tpc' = "loop" /\ UNCHANGED <<program, input, out>> /\ taken' = taken + 1
        /\ inside' = Append(inside, taken + 1)
        /\ own' = [own EXCEPT !.gotFrame = FALSE]
        /\ own.opened /\ input.packets[taken + 1] = "good"
    BY <1>2 DEF DecodeHolds, Good, AtPacket, Packet, Holds, Reads
  <2>2. own' \in [opened : BOOLEAN, gotFrame : BOOLEAN]
    BY <1>0, <2>1
  <2>3. inside' \in Seq(Nat)
        /\ Lists(out["yuv"] \o inside', GoodIn(input.packets, taken + 1))
    BY <1>0, <2>1, DecoderTakes
  <2> QED
    BY <1>0, <2>1, <2>2, <2>3 DEF H264Inv
<1>3. CASE H264Error
  <2>1. /\ tpc' = "loop" /\ UNCHANGED <<program, input, inside, out>> /\ taken' = taken + 1
        /\ own' = [own EXCEPT !.gotFrame = FALSE]
        /\ own.opened /\ input.packets[taken + 1] = "bad"
    BY <1>3 DEF H264Error, AtPacket, Packet, Reads
  <2>2. own' \in [opened : BOOLEAN, gotFrame : BOOLEAN]
    BY <1>0, <2>1
  <2>3. GoodIn(input.packets, taken + 1) = GoodIn(input.packets, taken)
    BY <1>0, <2>1, OneMoreGood
  <2> QED
    BY <1>0, <2>1, <2>2, <2>3 DEF H264Inv
<1>4. CASE H264NotOpen
  <2>1. /\ tpc' \in {"loop", "ended"} /\ UNCHANGED <<program, input, inside, out, own>>
        /\ taken' = taken + 1 /\ ~own.opened
    BY <1>4 DEF H264NotOpen, Reads
  <2> QED
    BY <1>0, <2>1 DEF H264Inv
<1>5. CASE H264Frame
  <2> DEFINE q == Append(inside, taken + 1)
             x == Head(q)
  <2>1. /\ tpc' = "loop" /\ UNCHANGED <<program, input>> /\ taken' = taken + 1
        /\ inside' = Tail(q)
        /\ out' = [o \in DOMAIN out |-> IF o \in DOMAIN out THEN Append(out[o], x) ELSE out[o]]
        /\ own' = [own EXCEPT !.gotFrame = TRUE]
        /\ own.opened /\ input.packets[taken + 1] = "good"
    BY <1>5 DEF H264Frame, Good, AtPacket, Packet, GivesOut, Oldest, Save, Reads
  <2>2. own' \in [opened : BOOLEAN, gotFrame : BOOLEAN]
    BY <1>0, <2>1
  <2> HIDE DEF q
  <2>3. /\ Tail(q) \in Seq(Nat) /\ Append(out["yuv"], x) \in Seq(Nat)
        /\ Lists(Append(out["yuv"], x) \o Tail(q), GoodIn(input.packets, taken + 1))
    BY <1>0, <2>1, DecoderTakes DEF q
  <2> HIDE DEF x
  <2>4. out'["yuv"] = Append(out["yuv"], x) /\ out'["rgb"] = Append(out["yuv"], x)
    BY <1>0, <2>1
  <2>5. out' \in [{"yuv", "rgb"} -> Seq(Nat)]
    BY <1>0, <2>1, <2>3, <2>4
  <2>6. Lists(out'["yuv"] \o inside', GoodIn(input'.packets, taken')) /\ inside' \in Seq(Nat)
    BY <2>1, <2>3, <2>4
  <2> QED
    BY <1>0, <2>1, <2>2, <2>4, <2>5, <2>6, SMTT(30) DEF H264Inv
<1>6. CASE DecodeEnd \/ DecodeOpenFails \/ DecodeReadFails \/ UNCHANGED toolVars
  <2>1. UNCHANGED <<program, input, taken, inside, out, own>> /\ tpc' \in {tpc, "ended"}
    BY <1>6 DEF DecodeEnd, DecodeOpenFails, OpenFailure, DecodeReadFails, toolVars
  <2> QED
    BY <2>1 DEF H264Inv
<1> QED
  BY <1>1, <1>2, <1>3, <1>4, <1>5, <1>6 DEF H264Inv, H264Works, DecoderFails

\* What was appended last, taken off.
LEMMA FrontOfAppend ==
  ASSUME NEW s \in Seq(Nat), NEW x \in Nat
  PROVE  Append(s, x) # <<>> /\ Front(Append(s, x)) = s
<1>1. /\ Append(s, x) \in Seq(Nat) /\ Len(Append(s, x)) = Len(s) + 1 /\ Len(s) \in Nat
      /\ \A k \in 1..Len(s) : Append(s, x)[k] = s[k]
  BY AppendProperties, LenProperties
<1>2. Front(Append(s, x)) = SubSeq(Append(s, x), 1, Len(s))
  BY <1>1 DEF Front
<1>3. SubSeq(Append(s, x), 1, Len(s)) = s
  <2>1. /\ SubSeq(Append(s, x), 1, Len(s)) \in Seq(Nat)
        /\ Len(SubSeq(Append(s, x), 1, Len(s))) = Len(s)
        /\ \A k \in 1..Len(s) : SubSeq(Append(s, x), 1, Len(s))[k] = Append(s, x)[k]
    BY <1>1
  <2> QED
    BY <1>1, <2>1, SeqEqual
<1> QED
  BY <1>1, <1>2, <1>3, EmptySeq

AacOwn == [opened : BOOLEAN, gotFrame : BOOLEAN, swr : BOOLEAN]

\* Once main() has crashed, the frame it had is in no file.
AacInv ==
  /\ program = "decode_aac" /\ input \in DecodeFiles /\ taken \in Nat
  /\ own \in AacOwn
  /\ inside \in Seq(Nat)
  /\ out \in [{"f32", "s16"} -> Seq(Nat)]
  /\ tpc = "open" => taken = 0 /\ inside = <<>> /\ out["f32"] = <<>>
  /\ tpc # "ended" => code = NoCode
  /\ \/ out["s16"] = out["f32"]
     \/ tpc = "ended" /\ out["f32"] # <<>> /\ out["s16"] = Front(out["f32"])
  /\ own.opened /\ code # Crashed =>
       Lists(out["f32"] \o inside, GoodIn(input.packets, taken))

LEMMA AacInvInit == AacInit => AacInv
<1> SUFFICES ASSUME AacInit PROVE AacInv
  OBVIOUS
<1>1. PICK g \in BOOLEAN : own = [opened |-> FALSE, gotFrame |-> g, swr |-> FALSE]
  BY DEF AacInit, ToolInit
<1>2. /\ program = "decode_aac" /\ input \in DecodeFiles /\ taken = 0 /\ inside = <<>>
      /\ out = [o \in {"f32", "s16"} |-> <<>>] /\ code = NoCode
  BY DEF AacInit, ToolInit
<1>3. own \in AacOwn /\ ~own.opened
  BY <1>1 DEF AacOwn
<1>4. <<>> \in Seq(Nat)
  OBVIOUS
<1> QED
  BY <1>2, <1>3, <1>4 DEF AacInv

LEMMA AacKeeps == AacInv /\ [AacWorks \/ DecoderFails]_toolVars => AacInv'
<1> SUFFICES ASSUME AacInv, [AacWorks \/ DecoderFails]_toolVars PROVE AacInv'
  OBVIOUS
<1> USE DEF GoesTo, Exits, OnlyGoesTo, OnlyExits
<1>0. /\ own \in AacOwn /\ inside \in Seq(Nat)
      /\ out \in [{"f32", "s16"} -> Seq(Nat)] /\ taken \in Nat
      /\ out["f32"] \in Seq(Nat)
  BY DEF AacInv
<1>1. CASE DecodeOpen
  <2>1. /\ tpc = "open" /\ tpc' = "loop"
        /\ UNCHANGED <<program, code, input, taken, inside, out>>
        /\ own' \in AacOwn
    BY <1>0, <1>1 DEF DecodeOpen, AacOwn
  <2>2. taken = 0 /\ inside = <<>> /\ out["f32"] = <<>> /\ code = NoCode
        /\ out["s16"] = out["f32"]
    BY <2>1 DEF AacInv
  <2>3. out["f32"] \o inside = <<>> /\ GoodIn(input.packets, taken) = {}
    <3>1. <<>> \o <<>> = <<>>
      BY ConcatEmptySeq
    <3> QED
      BY <1>0, <2>2, <3>1, OneMoreGood
  <2> QED
    BY <2>1, <2>2, <2>3, ListsNothing DEF AacInv
\* A packet that the open decoder takes.
<1>2. ASSUME Good
      PROVE  /\ tpc = "loop" /\ code = NoCode /\ out["s16"] = out["f32"]
             /\ own.opened /\ input.packets[taken + 1] = "good"
             /\ Lists(out["f32"] \o inside, GoodIn(input.packets, taken))
  BY <1>2 DEF Good, AtPacket, Packet, AacInv, NoCode, Crashed
<1> DEFINE q == Append(inside, taken + 1)
           x == Head(q)
<1>3. ASSUME Good
      PROVE  /\ q \in Seq(Nat) /\ Tail(q) \in Seq(Nat) /\ x \in Nat
             /\ Lists(out["f32"] \o q, GoodIn(input.packets, taken + 1))
             /\ Append(out["f32"], x) \in Seq(Nat)
             /\ Lists(Append(out["f32"], x) \o Tail(q), GoodIn(input.packets, taken + 1))
  <2> HIDE DEF q
  <2> QED
    BY <1>0, <1>2, <1>3, DecoderTakes DEF q
<1>4. CASE DecodeHolds
  <2>1. /\ Good /\ tpc' = "loop" /\ UNCHANGED <<program, code, input, out>>
        /\ taken' = taken + 1 /\ inside' = q /\ own' = [own EXCEPT !.gotFrame = FALSE]
    BY <1>4 DEF DecodeHolds, Holds, Reads
  <2>2. own' \in AacOwn
    BY <1>0, <2>1 DEF AacOwn
  <2> HIDE DEF q, x
  <2> QED
    BY <1>0, <1>2, <1>3, <2>1, <2>2 DEF AacInv
<1>5. CASE AacFrame
  <2>1. /\ Good /\ tpc' = "loop" /\ UNCHANGED <<program, code, input>>
        /\ taken' = taken + 1 /\ inside' = Tail(q)
        /\ own' = [own EXCEPT !.gotFrame = TRUE, !.swr = TRUE]
        /\ out' = [o \in DOMAIN out |-> IF o \in DOMAIN out THEN Append(out[o], x) ELSE out[o]]
    BY <1>5 DEF AacFrame, GivesOut, Oldest, Save, Reads
  <2>2. own' \in AacOwn
    BY <1>0, <2>1 DEF AacOwn
  <2> HIDE DEF q, x
  <2>3. out'["f32"] = Append(out["f32"], x) /\ out'["s16"] = Append(out["f32"], x)
    BY <1>0, <1>2, <2>1
  <2>4. out' \in [{"f32", "s16"} -> Seq(Nat)]
    BY <1>0, <1>2, <1>3, <2>1, <2>3
  <2>5. Lists(out'["f32"] \o inside', GoodIn(input'.packets, taken')) /\ inside' \in Seq(Nat)
    BY <1>3, <2>1, <2>3
  <2> QED
    BY <1>0, <1>2, <2>1, <2>2, <2>3, <2>4, <2>5 DEF AacInv
<1>6. CASE AacResampleFails
  <2>1. /\ Good /\ tpc' = "ended" /\ code' = 0 /\ UNCHANGED <<program, input>>
        /\ taken' = taken + 1 /\ inside' = Tail(q)
        /\ own' = [own EXCEPT !.gotFrame = TRUE]
        /\ out' = [o \in DOMAIN out |-> IF o \in {"f32"} THEN Append(out[o], x) ELSE out[o]]
    BY <1>6 DEF AacResampleFails, GivesOut, Oldest, Save, Reads
  <2>2. own' \in AacOwn
    BY <1>0, <2>1 DEF AacOwn
  <2> HIDE DEF q, x
  <2>3. out'["f32"] = Append(out["f32"], x) /\ out'["s16"] = out["f32"]
    BY <1>0, <1>2, <2>1
  <2>4. out' \in [{"f32", "s16"} -> Seq(Nat)]
    BY <1>0, <1>3, <2>1, <2>3
  <2>5. Lists(out'["f32"] \o inside', GoodIn(input'.packets, taken')) /\ inside' \in Seq(Nat)
    BY <1>3, <2>1, <2>3
  <2>6. out'["f32"] # <<>> /\ out'["s16"] = Front(out'["f32"])
    BY <1>0, <1>3, <2>1, <2>3, FrontOfAppend
  <2>7. /\ program' = "decode_aac" /\ input' \in DecodeFiles /\ taken' \in Nat
        /\ tpc' = "ended"
    BY <1>0, <2>1 DEF AacInv
  <2> QED
    BY <2>2, <2>4, <2>5, <2>6, <2>7 DEF AacInv
<1>7. CASE AacMono
  <2>1. /\ Good /\ tpc' = "ended" /\ code' = Crashed /\ UNCHANGED <<program, input, out, own>>
        /\ taken' = taken + 1 /\ inside' = Tail(q)
    BY <1>7 DEF AacMono, GivesOut, Reads
  <2> HIDE DEF q, x
  <2> QED
    BY <1>0, <1>2, <1>3, <2>1 DEF AacInv
<1>8. CASE AacError
  <2>1. /\ tpc = "loop" /\ tpc' = "ended" /\ code' = 0
        /\ UNCHANGED <<program, input, inside, out, own>> /\ taken' = taken + 1
        /\ own.opened => input.packets[taken + 1] = "bad"
    BY <1>0, <1>8 DEF AacError, AtPacket, Packet, Reads
  <2>2. code # Crashed /\ out["s16"] = out["f32"]
    BY <2>1 DEF AacInv, NoCode, Crashed
  <2>3. own.opened => GoodIn(input.packets, taken + 1) = GoodIn(input.packets, taken)
    BY <1>0, <2>1, OneMoreGood
  <2> QED
    BY <1>0, <2>1, <2>2, <2>3 DEF AacInv
<1>9. CASE DecodeEnd \/ DecodeOpenFails \/ DecodeReadFails
  <2>1. tpc # "ended" /\ tpc' = "ended" /\ UNCHANGED <<program, input, taken, inside, out, own>>
    BY <1>9
    DEF DecodeEnd, AtEnd, DecodeOpenFails, OpenFailure, DecodeReadFails, AtReadError
  <2>2. code # Crashed
    BY <2>1 DEF AacInv, NoCode, Crashed
  <2> QED
    BY <2>1, <2>2 DEF AacInv
<1>10. CASE UNCHANGED toolVars
  BY <1>10 DEF toolVars, AacInv
<1> QED
  BY <1>1, <1>4, <1>5, <1>6, <1>7, <1>8, <1>9, <1>10 DEF AacInv, AacWorks, DecoderFails

\* For raw files of any length, good and bad packets in any order and a decoder that
\* holds any number of frames, in 3-3-decode_h264 and in 3-4-decode_aac: both files
\* have every frame that the decoder has given out, once and in order, but for the
\* last one when the resampler of the second fails.
THEOREM DecodersSaveTwice ==
  /\ H264Spec => []SavesEveryFrameTwice
  /\ AacSpec => []SavesEveryFrameTwice
<1>1. H264Inv => SavesEveryFrameTwice
  BY DEF H264Inv, SavesEveryFrameTwice, First, Second, GoodOnes, GoodIn
<1>2. AacInv => SavesEveryFrameTwice
  BY DEF AacInv, SavesEveryFrameTwice, First, Second, GoodOnes, GoodIn, NoCode, Crashed
<1>3. H264Spec => []SavesEveryFrameTwice
  BY <1>1, H264InvInit, H264Keeps, PTL DEF H264Spec
<1>4. AacSpec => []SavesEveryFrameTwice
  BY <1>2, AacInvInit, AacKeeps, PTL DEF AacSpec
<1> QED
  BY <1>3, <1>4

-----------------------------------------------------------------------------
(* Remuxer. *)

\* The packets of stream i among the first n.
StreamIn(packets, n, i) == {k \in 1..n : packets[k].stream = i}

LEMMA OneMoreOfStream ==
  ASSUME NEW packets, NEW n \in Nat, NEW i
  PROVE  /\ StreamIn(packets, 0, i) = {}
         /\ StreamIn(packets, n, i) \in SUBSET (1..n)
         /\ StreamIn(packets, n + 1, i) =
              IF packets[n + 1].stream = i THEN StreamIn(packets, n, i) \cup {n + 1}
              ELSE StreamIn(packets, n, i)
<1>1. \A k \in Int : k \in 1..(n + 1) <=> k \in 1..n \/ k = n + 1
  OBVIOUS
<1> QED
  BY <1>1 DEF StreamIn

RemuxedPacket == [n : Nat, dts : Int]

NumbersOf(s) == [k \in DOMAIN s |-> s[k].n]

LEMMA NumbersAppend ==
  ASSUME NEW s \in Seq(RemuxedPacket), NEW x \in RemuxedPacket, NEW m \in Nat, x.n = m + 1,
         NEW S \in SUBSET (1..m), Lists(NumbersOf(s), S)
  PROVE  Lists(NumbersOf(Append(s, x)), S \cup {m + 1})
<1> DEFINE n == Len(s)
           t == Append(s, x)
<1>1. n \in Nat /\ DOMAIN s = 1..n /\ t \in Seq(RemuxedPacket) /\ Len(t) = n + 1
      /\ t[n + 1] = x /\ \A k \in 1..n : t[k] = s[k]
  BY AppendProperties, LenProperties
<1>2. DOMAIN t = 1..(n + 1)
  BY <1>1, LenProperties
<1> HIDE DEF n, t
<1>3. /\ DOMAIN NumbersOf(s) = 1..n /\ DOMAIN NumbersOf(t) = 1..(n + 1)
      /\ \A k \in 1..n : NumbersOf(t)[k] = NumbersOf(s)[k]
      /\ NumbersOf(t)[n + 1] = m + 1
  BY <1>1, <1>2 DEF NumbersOf
<1>4. Lists(NumbersOf(t), S \cup {m + 1})
  BY <1>1, <1>3, ListsNext
<1> QED
  BY <1>4 DEF t

\* What is known of the file.
LEMMA RemuxedFile ==
  ASSUME input \in RemuxFiles
  PROVE  /\ Len(input.streams) \in Nat /\ DOMAIN input.streams = 1..Len(input.streams)
         /\ Len(input.packets) \in Nat
         /\ \A k \in 1..Len(input.packets) : input.packets[k].dts \in Nat
         /\ \A i \in DOMAIN input.streams :
              input.bases[i] \in Nat \ {0} /\ input.outBases[i] \in Nat \ {0}
<1>1. /\ input \in [streams : Seq(STRING), bases : Seq(Nat \ {0}), outBases : Seq(Nat \ {0}),
                    packets : Seq([stream : Nat \ {0}, dts : Nat])]
      /\ Len(input.bases) = Len(input.streams) /\ Len(input.outBases) = Len(input.streams)
  BY RemuxerAssumption
<1>2. /\ input.streams \in Seq(STRING) /\ input.bases \in Seq(Nat \ {0})
      /\ input.outBases \in Seq(Nat \ {0})
      /\ input.packets \in Seq([stream : Nat \ {0}, dts : Nat])
  BY <1>1
<1>3. Len(input.streams) \in Nat /\ DOMAIN input.streams = 1..Len(input.streams)
      /\ Len(input.packets) \in Nat
  BY <1>2, LenProperties
<1>4. \A k \in 1..Len(input.packets) : input.packets[k] \in [stream : Nat \ {0}, dts : Nat]
  BY <1>2, ElementOfSeq
<1>5. \A i \in 1..Len(input.bases) : input.bases[i] \in Nat \ {0}
  BY <1>2, ElementOfSeq
<1>6. \A i \in 1..Len(input.outBases) : input.outBases[i] \in Nat \ {0}
  BY <1>2, ElementOfSeq
<1> QED
  BY <1>1, <1>3, <1>4, <1>5, <1>6

\* Two streams that are copied have two outputs, and the file has both.
LEMMA MappingIsInjective ==
  ASSUME input \in RemuxFiles
  PROVE  /\ \A i : stream_mapping(i) >= 0 <=> IsCopied(i)
         /\ \A i : IsCopied(i) => stream_mapping(i) \in 0..(Len(input.streams) - 1)
         /\ \A i, j : IsCopied(i) /\ IsCopied(j) /\ stream_mapping(i) = stream_mapping(j) => i = j
<1> DEFINE CopiedBefore(i) == {j \in 1..(i - 1) : IsCopied(j)}
<1>1. ASSUME NEW i \in Nat \ {0}
      PROVE  IsFiniteSet(CopiedBefore(i)) /\ Cardinality(CopiedBefore(i)) \in 0..(i - 1)
  <2>1. IsFiniteSet(1..(i - 1)) /\ Cardinality(1..(i - 1)) = i - 1
    BY FS_Interval
  <2>2. CopiedBefore(i) \in SUBSET (1..(i - 1))
    OBVIOUS
  <2> HIDE DEF CopiedBefore
  <2>3. IsFiniteSet(CopiedBefore(i)) /\ Cardinality(CopiedBefore(i)) <= i - 1
    BY <2>1, <2>2, FS_Subset
  <2> QED
    BY <2>3, FS_CardinalityType
<1>2. ASSUME NEW i \in Nat \ {0}, NEW j \in Nat \ {0}, IsCopied(i), i < j
      PROVE  Cardinality(CopiedBefore(i)) # Cardinality(CopiedBefore(j))
  <2>1. CopiedBefore(i) \in SUBSET CopiedBefore(j) /\ i \in CopiedBefore(j) /\ i \notin CopiedBefore(i)
    BY <1>2
  <2> HIDE DEF CopiedBefore
  <2>2. CopiedBefore(i) # CopiedBefore(j)
    BY <2>1
  <2> QED
    BY <1>1, <2>1, <2>2, FS_Subset
<1>3. \A i : stream_mapping(i) = IF IsCopied(i) THEN Cardinality(CopiedBefore(i)) ELSE -1
  BY DEF stream_mapping
<1>4. Len(input.streams) \in Nat
      /\ \A i : IsCopied(i) => i \in Nat \ {0} /\ i <= Len(input.streams)
  BY RemuxedFile DEF IsCopied
<1> HIDE DEF CopiedBefore
<1>5. ASSUME NEW i, IsCopied(i)
      PROVE  stream_mapping(i) = Cardinality(CopiedBefore(i))
             /\ stream_mapping(i) \in 0..(Len(input.streams) - 1)
  <2>1. i \in Nat \ {0} /\ i <= Len(input.streams)
    BY <1>4, <1>5
  <2>2. Cardinality(CopiedBefore(i)) \in 0..(i - 1)
    BY <1>1, <2>1
  <2>3. stream_mapping(i) = Cardinality(CopiedBefore(i))
    BY <1>3, <1>5
  <2> QED
    BY <1>4, <2>1, <2>2, <2>3
<1>6. ASSUME NEW i, NEW j, IsCopied(i), IsCopied(j), stream_mapping(i) = stream_mapping(j)
      PROVE  i = j
  <2>1. i \in Nat \ {0} /\ j \in Nat \ {0}
    BY <1>4, <1>6
  <2>2. ~(i < j) /\ ~(j < i)
    BY <1>2, <1>5, <1>6, <2>1
  <2> QED
    BY <2>1, <2>2
<1>7. ASSUME NEW i PROVE stream_mapping(i) >= 0 <=> IsCopied(i)
  BY <1>3, <1>5
<1> QED
  BY <1>5, <1>6, <1>7

\* Every output stream holds what has been read of its stream.
Remuxed ==
  \A i : IsCopied(i) =>
    Lists(NumbersOf(out[stream_mapping(i)]), StreamIn(input.packets, taken, i))

\* A trailer that could be written leaves nothing behind.
TrailerCompletes == own.trailer = "written" => \A o \in DOMAIN out : inside[o] = 0

RemuxerInv ==
  /\ program = "remuxer" /\ input \in RemuxFiles /\ taken \in Nat
  /\ out \in [0..(Len(input.streams) - 1) -> Seq(RemuxedPacket)]
  /\ tpc = "open" => taken = 0 /\ \A o \in DOMAIN out : out[o] = <<>>
  /\ tpc # "ended" => code = NoCode
  /\ tpc = "loop" \/ code = 0 => Remuxed
  /\ code = 0 => taken = Len(input.packets) /\ TrailerCompletes

LEMMA RemuxerInvInit == RemuxerInit => RemuxerInv
<1> SUFFICES ASSUME NEW f \in RemuxFiles,
                    ToolInit("remuxer", {f}, 0..(Len(f.streams) - 1), {[trailer |-> "none"]})
             PROVE  RemuxerInv
  BY DEF RemuxerInit
<1>1. /\ program = "remuxer" /\ input = f /\ taken = 0 /\ tpc = "open" /\ code = NoCode
      /\ out = [o \in 0..(Len(f.streams) - 1) |-> <<>>]
  BY DEF ToolInit
<1>2. <<>> \in Seq(RemuxedPacket)
  OBVIOUS
<1> QED
  BY <1>1, <1>2 DEF RemuxerInv, NoCode

LEMMA RescaleIsInt ==
  ASSUME NEW t \in Int, NEW from \in Nat \ {0}, NEW to \in Nat \ {0}
  PROVE  Rescale(t, from, to) \in Int
<1>1. 2 * t * to + from \in Int /\ 2 * from \in Int /\ 2 * from > 0
  OBVIOUS
<1> QED
  BY <1>1 DEF Rescale

LEMMA RemuxCopyKeeps == ASSUME RemuxerInv, RemuxCopy PROVE RemuxerInv'
<1> DEFINE o == stream_mapping(Packet.stream)
           x == [n |-> taken + 1, dts |-> RescaledDts]
<1>1. /\ tpc = "loop" /\ tpc' = "loop" /\ taken' = taken + 1 /\ UNCHANGED <<program, code, input>>
      /\ taken < Len(input.packets) /\ o >= 0
      /\ out' = [out EXCEPT ![o] = Append(@, x)]
  BY DEF RemuxCopy, AtPacket, Reads, GoesTo
<1>2. /\ input \in RemuxFiles /\ taken \in Nat /\ Remuxed /\ code = NoCode
      /\ out \in [0..(Len(input.streams) - 1) -> Seq(RemuxedPacket)]
  BY <1>1 DEF RemuxerInv
<1>3. IsCopied(Packet.stream) /\ o \in 0..(Len(input.streams) - 1)
  BY <1>1, <1>2, MappingIsInjective
<1>4. x \in RemuxedPacket /\ x.n = taken + 1
  <2>1. Packet.stream \in DOMAIN input.streams /\ taken + 1 \in 1..Len(input.packets)
    BY <1>1, <1>2, <1>3, RemuxedFile DEF IsCopied
  <2>2. Packet.dts \in Nat /\ input.bases[Packet.stream] \in Nat \ {0}
        /\ input.outBases[Packet.stream] \in Nat \ {0}
    BY <1>2, <2>1, RemuxedFile DEF Packet
  <2>3. RescaledDts \in Int
    BY <2>2, RescaleIsInt DEF RescaledDts
  <2> QED
    BY <1>2, <2>3 DEF RemuxedPacket
<1> HIDE DEF o, x
<1>5. out[o] \in Seq(RemuxedPacket) /\ Append(out[o], x) \in Seq(RemuxedPacket)
  BY <1>2, <1>3, <1>4, AppendProperties
<1>6. /\ out' \in [0..(Len(input.streams) - 1) -> Seq(RemuxedPacket)]
      /\ out'[o] = Append(out[o], x)
      /\ \A p \in 0..(Len(input.streams) - 1) : p # o => out'[p] = out[p]
  BY <1>1, <1>2, <1>3, <1>5
<1>7. ASSUME NEW i, IsCopied(i)
      PROVE  Lists(NumbersOf(out'[stream_mapping(i)]),
                   StreamIn(input.packets, taken + 1, i))
  <2> DEFINE S == StreamIn(input.packets, taken, i)
  <2>1. S \in SUBSET (1..taken)
        /\ StreamIn(input.packets, taken + 1, i)
             = IF Packet.stream = i THEN S \cup {taken + 1} ELSE S
    <3>1. PICK ps, k : ps = input.packets /\ k = taken
      OBVIOUS
    <3>2. k \in Nat
      BY <1>2, <3>1
    <3>3. /\ StreamIn(ps, k, i) \in SUBSET (1..k)
          /\ StreamIn(ps, k + 1, i) = IF ps[k + 1].stream = i THEN StreamIn(ps, k, i) \cup {k + 1}
                                      ELSE StreamIn(ps, k, i)
      BY <3>2, OneMoreOfStream
    <3> QED
      BY <3>1, <3>3, Zenon DEF Packet
  <2>2. Lists(NumbersOf(out[stream_mapping(i)]), S)
    BY <1>2, <1>7 DEF Remuxed
  <2> HIDE DEF S
  <2>3. CASE Packet.stream = i
    <3>1. stream_mapping(i) = o
      BY <2>3 DEF o
    <3>2. Lists(NumbersOf(Append(out[o], x)), S \cup {taken + 1})
      BY <1>2, <1>4, <1>5, <2>1, <2>2, <3>1, NumbersAppend
    <3> QED
      BY <1>6, <2>1, <2>3, <3>1, <3>2
  <2>4. CASE Packet.stream # i
    <3>1. stream_mapping(i) # o /\ stream_mapping(i) \in 0..(Len(input.streams) - 1)
      BY <1>2, <1>3, <1>7, <2>4, MappingIsInjective DEF o
    <3> QED
      BY <1>6, <2>1, <2>2, <2>4, <3>1
  <2> QED
    BY <2>3, <2>4
<1>8. \A i : IsCopied(i)' = IsCopied(i) /\ stream_mapping(i)' = stream_mapping(i)
  BY <1>1 DEF IsCopied, stream_mapping
<1>9. Remuxed'
  BY <1>1, <1>7, <1>8 DEF Remuxed
<1> QED
  BY <1>1, <1>2, <1>6, <1>9 DEF RemuxerInv, NoCode

LEMMA RemuxerKeeps ==
  RemuxerInv /\ [RemuxerWorks \/ RemuxerFails]_toolVars => RemuxerInv'
<1> SUFFICES ASSUME RemuxerInv, [RemuxerWorks \/ RemuxerFails]_toolVars
             PROVE  RemuxerInv'
  OBVIOUS
<1> USE DEF GoesTo, Exits, OnlyGoesTo, OnlyExits
<1>1. input' = input =>
        \A i : IsCopied(i)' = IsCopied(i) /\ stream_mapping(i)' = stream_mapping(i)
  BY DEF IsCopied, stream_mapping
<1>2. CASE RemuxOpen
  <2>1. tpc = "open" /\ tpc' = "loop" /\ UNCHANGED <<program, code, input, taken, out>>
    BY <1>2 DEF RemuxOpen
  <2>2. /\ input \in RemuxFiles /\ taken = 0 /\ code = NoCode
        /\ out \in [0..(Len(input.streams) - 1) -> Seq(RemuxedPacket)]
        /\ \A o \in 0..(Len(input.streams) - 1) : out[o] = <<>>
    BY <2>1 DEF RemuxerInv
  <2>3. Lists(NumbersOf(<<>>), {}) /\ \A i : StreamIn(input.packets, 0, i) = {}
    <3>1. DOMAIN NumbersOf(<<>>) = {}
      BY DEF NumbersOf
    <3>2. Lists(NumbersOf(<<>>), {})
      BY <3>1 DEF Lists
    <3> QED
      BY <3>2, OneMoreOfStream
  <2>4. \A i : IsCopied(i) => Lists(NumbersOf(out[stream_mapping(i)]),
                                     StreamIn(input.packets, taken, i))
    BY <2>2, <2>3, MappingIsInjective
  <2>5. Remuxed'
    BY <1>1, <2>1, <2>4 DEF Remuxed
  <2> QED
    BY <2>1, <2>2, <2>5 DEF RemuxerInv, NoCode
<1>3. CASE RemuxSkip
  <2>1. /\ tpc = "loop" /\ tpc' = "loop" /\ taken' = taken + 1
        /\ UNCHANGED <<program, code, input, out>> /\ stream_mapping(Packet.stream) < 0
    BY <1>3 DEF RemuxSkip, SkipsPacket, AtPacket, Reads
  <2>2. input \in RemuxFiles /\ taken \in Nat /\ Remuxed /\ code = NoCode
    BY <2>1 DEF RemuxerInv
  <2>3. ~IsCopied(Packet.stream)
    <3>1. IsCopied(Packet.stream) => stream_mapping(Packet.stream) \in 0..(Len(input.streams) - 1)
      BY <2>2, MappingIsInjective
    <3> QED
      BY <2>1, <3>1
  <2>4. ASSUME NEW i, IsCopied(i)
        PROVE  StreamIn(input.packets, taken + 1, i) = StreamIn(input.packets, taken, i)
    <3>1. Packet.stream # i
      BY <2>3, <2>4
    <3>2. PICK ps, k : ps = input.packets /\ k = taken
      OBVIOUS
    <3>3. k \in Nat
      BY <2>2, <3>2
    <3>4. ps[k + 1].stream # i
      BY <3>1, <3>2 DEF Packet
    <3>5. StreamIn(ps, k + 1, i) = StreamIn(ps, k, i)
      <4>1. \A m : m \in 1..(k + 1) <=> m \in 1..k \/ m = k + 1
        BY <3>3
      <4> QED
        BY <3>4, <4>1 DEF StreamIn
    <3> QED
      BY <3>2, <3>5
  <2>5. Remuxed'
    BY <1>1, <2>1, <2>2, <2>4 DEF Remuxed
  <2> QED
    BY <2>1, <2>2, <2>5 DEF RemuxerInv, NoCode
<1>4. CASE RemuxCopy
  BY <1>4, RemuxCopyKeeps
<1>5. CASE RemuxOpenFails \/ RemuxCopyFails \/ RemuxRefused \/ RemuxReadFails
  <2>1. /\ tpc' = "ended" /\ code' = 1 /\ UNCHANGED <<program, input, out>>
        /\ taken' \in {taken, taken + 1}
    BY <1>5
    DEF RemuxOpenFails, OpenFailure, RemuxCopyFails, RemuxRefused, RemuxReadFails, Reads,
        WritesTrailer
  <2> QED
    BY <2>1 DEF RemuxerInv
<1>6. CASE RemuxEnd
  <2>1. /\ tpc = "loop" /\ tpc' = "ended" /\ code' = 0
        /\ UNCHANGED <<program, input, taken, out>> /\ taken = Len(input.packets)
    BY <1>6 DEF RemuxEnd, AtEnd, WritesTrailer
  <2>2. Remuxed
    BY <2>1 DEF RemuxerInv
  <2>3. Remuxed'
    BY <1>1, <2>1, <2>2 DEF Remuxed
  <2>4. \/ own' = [trailer |-> "written"] /\ inside' = [o \in DOMAIN out |-> 0]
        \/ own' = [trailer |-> "failed"]
    BY <1>6 DEF RemuxEnd, WritesTrailer
  <2>5. TrailerCompletes'
    BY <2>1, <2>4 DEF TrailerCompletes
  <2> QED
    BY <2>1, <2>3, <2>5 DEF RemuxerInv
<1>7. CASE UNCHANGED toolVars
  <2>1. UNCHANGED <<program, tpc, code, input, taken, inside, out, own>>
    BY <1>7 DEF toolVars
  <2>2. Remuxed => Remuxed'
    BY <1>1, <2>1 DEF Remuxed
  <2>3. TrailerCompletes => TrailerCompletes'
    BY <2>1 DEF TrailerCompletes
  <2> QED
    BY <2>1, <2>2, <2>3 DEF RemuxerInv
<1> QED
  BY <1>2, <1>3, <1>4, <1>5, <1>6, <1>7 DEF RemuxerWorks, RemuxerFails

\* For any streams, time bases and packets, those of streams that appear later among
\* them: when 3-9-remuxer.c returns 0, the n-th stream that is copied went to the
\* muxer as the n-th stream of the output, packet for packet and in order, and all of
\* it is in the file unless av_write_trailer() failed, which the code does not notice.
THEOREM RemuxerCopiesAll == RemuxerSpec => []ExitCodeMeansRemuxed
<1>1. ASSUME RemuxerInv PROVE ExitCodeMeansRemuxed
  <2> DEFINE kept == {i \in DOMAIN input.streams : IsCopied(i)}
  <2>0. code = 0 => TrailerCompletes
    BY <1>1 DEF RemuxerInv
  <2> SUFFICES ASSUME code = 0, NEW i \in kept
               PROVE  Lists(PacketsIn(Cardinality({j \in kept : j < i})),
                            {k \in DOMAIN input.packets : input.packets[k].stream = i})
    BY <2>0 DEF ExitCodeMeansRemuxed, TrailerCompletes
  <2>1. input \in RemuxFiles /\ Remuxed /\ taken = Len(input.packets)
    BY <1>1 DEF RemuxerInv
  <2>2. /\ DOMAIN input.streams = 1..Len(input.streams) /\ Len(input.streams) \in Nat
    BY <2>1, RemuxedFile
  <2>3. {j \in kept : j < i} = {j \in 1..(i - 1) : IsCopied(j)}
    BY <2>2 DEF IsCopied
  <2>4. Cardinality({j \in kept : j < i}) = stream_mapping(i)
    BY <2>3 DEF stream_mapping
  <2>5. DOMAIN input.packets = 1..taken
    <3>1. input.packets \in Seq([stream : Nat \ {0}, dts : Nat])
      BY <2>1, RemuxerAssumption
    <3> QED
      BY <2>1, <3>1, LenProperties
  <2>6. StreamIn(input.packets, taken, i)
          = {k \in DOMAIN input.packets : input.packets[k].stream = i}
    BY <2>5 DEF StreamIn
  <2>7. PacketsIn(stream_mapping(i)) = NumbersOf(out[stream_mapping(i)])
    BY DEF PacketsIn, NumbersOf
  <2> QED
    BY <2>1, <2>4, <2>6, <2>7 DEF Remuxed
<1>2. RemuxerInv => ExitCodeMeansRemuxed
  BY <1>1
<1> QED
  BY <1>2, RemuxerInvInit, RemuxerKeeps, PTL DEF RemuxerSpec

-----------------------------------------------------------------------------
(* Muxer. *)

MuxedPacket == [kind : Kinds, n : Nat, pts : Int, dts : Int]

WantedUpTo(packets, m) == {k \in 1..m : packets[k].wanted}

NumbersOfKind(w, f) == {w[k].n : k \in {j \in DOMAIN w : w[j].kind = f}}

\* What the output w has of the packets of file f, of which m have been read.
Muxes(w, f, packets, m) ==
  /\ m \in 0..Len(packets)
  /\ \A i, j \in DOMAIN w :
       i < j /\ w[i].kind = f /\ w[j].kind = f => w[i].n < w[j].n
  /\ \/ NumbersOfKind(w, f) = WantedUpTo(packets, m)
     \/ m = Len(packets) /\ NumbersOfKind(w, f) = WantedUpTo(packets, m) \cup {m}

LEMMA MuxAppends ==
  ASSUME NEW w \in Seq(MuxedPacket), NEW x \in MuxedPacket
  PROVE  /\ Len(w) \in Nat /\ DOMAIN w = 1..Len(w)
         /\ DOMAIN Append(w, x) = 1..(Len(w) + 1)
         /\ Append(w, x)[Len(w) + 1] = x
         /\ \A k \in 1..Len(w) : Append(w, x)[k] = w[k] /\ w[k] \in MuxedPacket
  BY AppendProperties, LenProperties, ElementOfSeq

\* A packet of the other file.
LEMMA MuxesOther ==
  ASSUME NEW w \in Seq(MuxedPacket), NEW x \in MuxedPacket, NEW f, x.kind # f,
         NEW packets, NEW m, Muxes(w, f, packets, m)
  PROVE  Muxes(Append(w, x), f, packets, m)
<1> DEFINE t == Append(w, x)
           n == Len(w)
<1>1. /\ n \in Nat /\ DOMAIN w = 1..n /\ DOMAIN t = 1..(n + 1) /\ t[n + 1] = x
      /\ \A k \in 1..n : t[k] = w[k]
  BY MuxAppends
<1> HIDE DEF t, n
<1>2. {j \in DOMAIN t : t[j].kind = f} = {j \in DOMAIN w : w[j].kind = f}
  BY <1>1
<1>3. NumbersOfKind(t, f) = NumbersOfKind(w, f)
  <2>1. \A j \in {j \in DOMAIN w : w[j].kind = f} : t[j].n = w[j].n
    BY <1>1
  <2> QED
    BY <1>2, <2>1 DEF NumbersOfKind
<1>4. \A i, j \in DOMAIN t :
        i < j /\ t[i].kind = f /\ t[j].kind = f => t[i].n < t[j].n
  <2> TAKE i, j \in DOMAIN t
  <2> HAVE i < j /\ t[i].kind = f /\ t[j].kind = f
  <2>1. i \in 1..n /\ j \in 1..n
    BY <1>1, <1>2
  <2> QED
    BY <1>1, <2>1 DEF Muxes
<1> QED
  BY <1>3, <1>4 DEF Muxes, t

\* The next wanted packet of file f, or its last one when none is wanted any more.
LEMMA MuxesNext ==
  ASSUME NEW w \in Seq(MuxedPacket), NEW x \in MuxedPacket, NEW f, x.kind = f,
         NEW packets, Len(packets) \in Nat, NEW m, Muxes(w, f, packets, m),
         x.n \in (m + 1)..Len(packets),
         \A k \in (m + 1)..(x.n - 1) : ~packets[k].wanted,
         packets[x.n].wanted \/ x.n = Len(packets)
  PROVE  Muxes(Append(w, x), f, packets, x.n)
<1> DEFINE t == Append(w, x)
           n == Len(w)
           z == x.n
<1>1. /\ n \in Nat /\ DOMAIN w = 1..n /\ DOMAIN t = 1..(n + 1) /\ t[n + 1] = x
      /\ \A k \in 1..n : t[k] = w[k] /\ w[k] \in MuxedPacket
  BY MuxAppends
<1>2. /\ m \in 0..Len(packets) /\ z \in (m + 1)..Len(packets) /\ z \in Nat
      /\ NumbersOfKind(w, f) = WantedUpTo(packets, m)
  BY DEF Muxes
<1>3. WantedUpTo(packets, z) \cup {z} = WantedUpTo(packets, m) \cup {z}
  <2>1. \A k \in 1..z : k \in 1..m \/ k \in (m + 1)..(z - 1) \/ k = z
    BY <1>2
  <2>2. \A k \in 1..m : k \in 1..z
    BY <1>2
  <2> QED
    BY <2>1, <2>2 DEF WantedUpTo
<1>4. packets[z].wanted => z \in WantedUpTo(packets, z)
  BY <1>2 DEF WantedUpTo
<1> HIDE DEF t, n, z
<1>5. NumbersOfKind(t, f) = NumbersOfKind(w, f) \cup {z}
  <2>1. {j \in DOMAIN t : t[j].kind = f} = {j \in DOMAIN w : w[j].kind = f} \cup {n + 1}
    BY <1>1
  <2>2. t[n + 1].n = z /\ \A j \in {j \in DOMAIN w : w[j].kind = f} : t[j].n = w[j].n
    BY <1>1 DEF z
  <2> QED
    BY <2>1, <2>2 DEF NumbersOfKind
<1>6. \A i, j \in DOMAIN t :
        i < j /\ t[i].kind = f /\ t[j].kind = f => t[i].n < t[j].n
  <2> TAKE i, j \in DOMAIN t
  <2> HAVE i < j /\ t[i].kind = f /\ t[j].kind = f
  <2>1. CASE j \in 1..n
    <3>1. i \in 1..n
      BY <1>1, <2>1
    <3> QED
      BY <1>1, <2>1, <3>1 DEF Muxes
  <2>2. CASE j = n + 1
    <3>1. i \in 1..n /\ t[i] = w[i] /\ t[j].n = z
      BY <1>1, <2>2 DEF z
    <3>2. w[i].n \in NumbersOfKind(w, f)
      BY <1>1, <3>1 DEF NumbersOfKind
    <3>3. w[i].n \in 1..m
      BY <1>2, <3>2 DEF WantedUpTo
    <3> QED
      BY <1>2, <3>1, <3>3
  <2> QED
    BY <1>1, <2>1, <2>2
<1>7. /\ z \in 0..Len(packets)
      /\ \/ NumbersOfKind(t, f) = WantedUpTo(packets, z)
         \/ z = Len(packets) /\ NumbersOfKind(t, f) = WantedUpTo(packets, z) \cup {z}
  <2>1. z \in 0..Len(packets) /\ (packets[z].wanted \/ z = Len(packets))
    BY <1>2 DEF z
  <2> QED
    BY <1>2, <1>3, <1>4, <1>5, <2>1
<1>8. Muxes(t, f, packets, z)
  BY <1>6, <1>7 DEF Muxes
<1> QED
  BY <1>8 DEF t, z

MuxOwn == [cur : [Kinds -> Int], read : [Kinds -> Nat], frame_index : Nat]

MuxFile == [base : Nat \ {0}, step : Nat, packets : Seq([wanted : BOOLEAN, pts : Int])]

MuxerInv ==
  /\ program = "muxer" /\ input \in MuxFiles
  /\ own \in MuxOwn
  /\ out \in [{"file"} -> Seq(MuxedPacket)]
  /\ \A f \in Kinds : Muxes(out["file"], f, input[f].packets, own.read[f])

LEMMA MuxedFile ==
  ASSUME input \in MuxFiles, NEW f \in Kinds
  PROVE  /\ input[f] \in MuxFile /\ input.outBase \in Nat \ {0}
         /\ input[f].base \in Nat \ {0} /\ input[f].step \in Nat
         /\ Len(input[f].packets) \in Nat
         /\ \A k \in 1..Len(input[f].packets) : input[f].packets[k].pts \in Int
<1>1. input \in [video : MuxFile, audio : MuxFile, outBase : Nat \ {0}]
  BY MuxerAssumption DEF MuxFile
<1>2. input[f] \in MuxFile /\ input.outBase \in Nat \ {0}
  BY <1>1 DEF Kinds
<1>3. /\ input[f].base \in Nat \ {0} /\ input[f].step \in Nat
      /\ input[f].packets \in Seq([wanted : BOOLEAN, pts : Int])
  BY <1>2 DEF MuxFile
<1>4. Len(input[f].packets) \in Nat
      /\ \A k \in 1..Len(input[f].packets) :
           input[f].packets[k] \in [wanted : BOOLEAN, pts : Int]
  BY <1>3, LenProperties, ElementOfSeq
<1> QED
  BY <1>2, <1>3, <1>4

LEMMA MuxerInvInit == MuxerInit => MuxerInv
<1> SUFFICES ASSUME MuxerInit PROVE MuxerInv
  OBVIOUS
<1>1. /\ program = "muxer" /\ input \in MuxFiles /\ out = [o \in {"file"} |-> <<>>]
      /\ own = [cur |-> [f \in Kinds |-> 0], read |-> [f \in Kinds |-> 0], frame_index |-> 0]
  BY DEF MuxerInit, ToolInit
<1>2. own \in MuxOwn /\ \A f \in Kinds : own.read[f] = 0
  BY <1>1 DEF MuxOwn
<1>3. out \in [{"file"} -> Seq(MuxedPacket)] /\ out["file"] = <<>>
  BY <1>1
<1>4. ASSUME NEW f \in Kinds PROVE Muxes(<<>>, f, input[f].packets, 0)
  <2>1. Len(input[f].packets) \in Nat
    BY <1>1, MuxedFile
  <2>2. NumbersOfKind(<<>>, f) = {} /\ WantedUpTo(input[f].packets, 0) = {}
    BY DEF NumbersOfKind, WantedUpTo
  <2> QED
    BY <2>1, <2>2 DEF Muxes
<1> QED
  BY <1>1, <1>2, <1>3, <1>4 DEF MuxerInv

LEMMA ChosenIsKind == Chosen \in Kinds
  BY DEF Chosen, Kinds

\* What the two steps that write have in common.
LEMMA MuxWrites ==
  ASSUME MuxerInv, NEW n, NEW pts \in Int,
         n \in (own.read[Chosen] + 1)..Len(input[Chosen].packets),
         \A k \in (own.read[Chosen] + 1)..(n - 1) : ~input[Chosen].packets[k].wanted,
         input[Chosen].packets[n].wanted \/ n = Len(input[Chosen].packets),
         out' = [out EXCEPT !["file"] = Append(@, Written(Chosen, n, pts))],
         UNCHANGED <<program, input>>, own' \in MuxOwn,
         own'.read = [own.read EXCEPT ![Chosen] = n]
  PROVE  MuxerInv'
<1> DEFINE c == Chosen
           x == Written(c, n, pts)
           w == out["file"]
<1>1. /\ input \in MuxFiles /\ c \in Kinds /\ own \in MuxOwn
      /\ out \in [{"file"} -> Seq(MuxedPacket)] /\ w \in Seq(MuxedPacket)
      /\ \A f \in Kinds : Muxes(w, f, input[f].packets, own.read[f])
  BY ChosenIsKind DEF MuxerInv
<1>2. own.read \in [Kinds -> Nat]
  BY <1>1 DEF MuxOwn
<1> HIDE DEF c
<1>3. /\ Len(input[c].packets) \in Nat /\ input[c].base \in Nat \ {0}
      /\ input.outBase \in Nat \ {0}
  BY <1>1, MuxedFile
<1>4. x \in MuxedPacket /\ x.kind = c /\ x.n = n
  <2>1. Rescale(pts, input[c].base, input.outBase) \in Int
    BY <1>3, RescaleIsInt
  <2>2. n \in Nat
    BY <1>1, <1>2, <1>3 DEF c
  <2> QED
    BY <1>1, <2>1, <2>2 DEF Written, MuxedPacket
<1>5. Muxes(Append(w, x), c, input[c].packets, n)
  <2> HIDE DEF x, w
  <2>1. Muxes(w, c, input[c].packets, own.read[c])
    BY <1>1
  <2>2. /\ x.n \in (own.read[c] + 1)..Len(input[c].packets)
        /\ \A k \in (own.read[c] + 1)..(x.n - 1) : ~input[c].packets[k].wanted
        /\ input[c].packets[x.n].wanted \/ x.n = Len(input[c].packets)
    BY <1>4 DEF c
  <2>3. Muxes(Append(w, x), c, input[c].packets, x.n)
    BY <1>1, <1>3, <1>4, <2>1, <2>2, MuxesNext
  <2> QED
    BY <1>4, <2>3
<1>6. ASSUME NEW f \in Kinds, f # c
      PROVE  Muxes(Append(w, x), f, input[f].packets, own.read[f])
  <2> HIDE DEF x, w
  <2> QED
    BY <1>1, <1>4, <1>6, MuxesOther
<1>7. out'["file"] = Append(w, x) /\ out' \in [{"file"} -> Seq(MuxedPacket)]
  <2>1. Append(w, x) \in Seq(MuxedPacket)
    BY <1>1, <1>4, AppendProperties
  <2>2. out' = [out EXCEPT !["file"] = Append(@, x)]
    BY DEF c
  <2> HIDE DEF x
  <2> QED
    BY <1>1, <2>1, <2>2
<1>8. own'.read[c] = n /\ \A f \in Kinds : f # c => own'.read[f] = own.read[f]
  BY <1>1, <1>2 DEF c
<1>9. ASSUME NEW f \in Kinds
      PROVE  Muxes(out'["file"], f, input'[f].packets, own'.read[f])
  <2> HIDE DEF x, w
  <2>1. CASE f = c
    BY <1>5, <1>7, <1>8, <2>1
  <2>2. CASE f # c
    BY <1>6, <1>7, <1>8, <2>2
  <2> QED
    BY <2>1, <2>2
<1> QED
  BY <1>1, <1>7, <1>9 DEF MuxerInv

\* The next wanted packet, found and written.
LEMMA MuxFinds ==
  ASSUME MuxerInv, MuxWanted
  PROVE  LET n == Found(Chosen)
             pts == FoundPts(Chosen)
             i == own.frame_index
         IN /\ n \in WantedRest(Chosen) /\ \A k \in WantedRest(Chosen) : n <= k
            /\ n \in Nat /\ pts \in Int
            /\ own' = [cur |-> [own.cur EXCEPT ![Chosen] = pts],
                       read |-> [own.read EXCEPT ![Chosen] = n],
                       frame_index |-> IF HasPts(Chosen) THEN i ELSE i + 1]
            /\ out' = [out EXCEPT !["file"] = Append(@, Written(Chosen, n, pts))]
            /\ UNCHANGED <<program, input>>
<1> DEFINE c == Chosen
           n == Found(c)
           pts == FoundPts(c)
           i == own.frame_index
<1>1. input \in MuxFiles /\ c \in Kinds /\ own \in MuxOwn
  BY ChosenIsKind DEF MuxerInv
<1>2. /\ own.read[c] \in Nat /\ i \in Nat /\ input[c].step \in Nat
      /\ Len(input[c].packets) \in Nat
      /\ \A k \in 1..Len(input[c].packets) : input[c].packets[k].pts \in Int
  BY <1>1, MuxedFile DEF MuxOwn
<1>3. WantedRest(c) # {} /\ WantedRest(c) \subseteq Nat
  BY <1>2 DEF MuxWanted, WantedRest, Rest
<1>4. n \in WantedRest(c) /\ n \in Nat /\ \A k \in WantedRest(c) : n <= k
  BY <1>3, MinOfNats DEF Found
<1>5. pts \in Int
  <2>1. n \in 1..Len(input[c].packets)
    BY <1>2, <1>4 DEF WantedRest, Rest
  <2>2. input[c].packets[n].pts \in Int /\ i * input[c].step \in Int
    BY <1>2, <2>1
  <2> QED
    BY <2>2 DEF FoundPts
<1>6. out' = [out EXCEPT !["file"] = Append(@, Written(c, n, pts))]
  BY <1>3 DEF MuxWanted, WriteMuxed, NextMuxed
<1>7. UNCHANGED <<program, input>>
  BY DEF MuxWanted, WriteMuxed, GoesTo
<1>8. own' = [own EXCEPT !.cur[c] = pts, !.read[c] = n,
                         !.frame_index = IF HasPts(c) THEN i ELSE i + 1]
  BY DEF MuxWanted
<1>9. own' = [cur |-> [own.cur EXCEPT ![c] = pts], read |-> [own.read EXCEPT ![c] = n],
              frame_index |-> IF HasPts(c) THEN i ELSE i + 1]
  <2> HIDE DEF n, pts, c
  <2> QED
    BY <1>1, <1>8 DEF MuxOwn
<1> QED
  BY <1>4, <1>5, <1>6, <1>7, <1>9

LEMMA MuxerKeeps ==
  MuxerInv /\ [MuxerWorks \/ MuxerFails]_toolVars => MuxerInv'
<1> SUFFICES ASSUME MuxerInv, [MuxerWorks \/ MuxerFails]_toolVars
             PROVE  MuxerInv'
  OBVIOUS
<1> DEFINE c == Chosen
           packets == input[c].packets
           m == own.read[c]
<1>1. /\ input \in MuxFiles /\ c \in Kinds /\ own \in MuxOwn
      /\ Muxes(out["file"], c, packets, m)
  BY ChosenIsKind DEF MuxerInv
<1>2. /\ Len(packets) \in Nat /\ m \in Nat /\ input[c].step \in Nat
      /\ own.read \in [Kinds -> Nat] /\ own.cur \in [Kinds -> Int] /\ own.frame_index \in Nat
      /\ \A k \in 1..Len(packets) : packets[k].pts \in Int
  BY <1>1, MuxedFile DEF MuxOwn
<1>3. Rest(c) = (m + 1)..Len(packets) /\ WantedRest(c) = {k \in Rest(c) : packets[k].wanted}
  BY DEF Rest, WantedRest
<1>4. CASE MuxWanted
  <2>1. PICK n, pts : n = Found(c) /\ pts = FoundPts(c)
    OBVIOUS
  <2>2. /\ n \in WantedRest(c) /\ \A k \in WantedRest(c) : n <= k
        /\ n \in Nat /\ pts \in Int
        /\ own' = [cur |-> [own.cur EXCEPT ![c] = pts], read |-> [own.read EXCEPT ![c] = n],
                   frame_index |-> IF HasPts(c) THEN own.frame_index ELSE own.frame_index + 1]
        /\ out' = [out EXCEPT !["file"] = Append(@, Written(c, n, pts))]
        /\ UNCHANGED <<program, input>>
    BY <1>4, <2>1, MuxFinds
  <2>3. /\ n \in (m + 1)..Len(packets) /\ packets[n].wanted
        /\ \A k \in (m + 1)..(n - 1) : ~packets[k].wanted
    <3>1. n \in (m + 1)..Len(packets) /\ packets[n].wanted
      BY <1>3, <2>2
    <3>2. ASSUME NEW k \in (m + 1)..(n - 1), packets[k].wanted PROVE FALSE
      <4>1. k \in WantedRest(c) /\ ~(n <= k)
        BY <1>2, <1>3, <3>1, <3>2
      <4> QED
        BY <2>2, <4>1
    <3> QED
      BY <3>1, <3>2
  <2>4. own' \in MuxOwn /\ own'.read = [own.read EXCEPT ![c] = n]
    BY <1>1, <1>2, <2>2 DEF MuxOwn
  <2> QED
    BY <2>2, <2>3, <2>4, MuxWrites
<1>5. CASE MuxStale
  <2> DEFINE n == Len(packets)
             pts == packets[n].pts
  <2>1. WantedRest(c) = {} /\ Rest(c) # {}
    BY <1>5 DEF MuxStale
  <2>2. n \in (m + 1)..Len(packets) /\ \A k \in (m + 1)..(n - 1) : ~packets[k].wanted
    <3>1. n \in (m + 1)..Len(packets)
      BY <1>2, <1>3, <2>1, SMTT(30)
    <3>2. ASSUME NEW k \in (m + 1)..(n - 1) PROVE ~packets[k].wanted
      BY <1>2, <1>3, <2>1, <3>1, SMTT(30)
    <3> QED
      BY <3>1, <3>2
  <2>3. pts \in Int
    BY <1>2, <2>2
  <2>4. own' = [own EXCEPT !.read[c] = n] /\ UNCHANGED <<program, input>>
    BY <1>5 DEF MuxStale, WriteMuxed, GoesTo
  <2>5. out' = [out EXCEPT !["file"] = Append(@, Written(c, n, pts))]
    BY <1>5, <2>1 DEF MuxStale, WriteMuxed, NextMuxed
  <2>6. own' \in MuxOwn /\ own'.read = [own.read EXCEPT ![c] = n]
    BY <1>1, <1>2, <2>4 DEF MuxOwn
  <2> QED
    BY <2>2, <2>3, <2>4, <2>5, <2>6, MuxWrites
<1>6. CASE init_muxer \/ MuxRefused \/ MuxEnd \/ MuxOpenFails \/ MuxLoopFails
            \/ UNCHANGED toolVars
  <2>1. UNCHANGED <<program, input, own, out>>
    BY <1>6
    DEF init_muxer, OpenSucceeds, OnlyGoesTo, GoesTo, MuxRefused, MuxEnd, MuxOpenFails,
        OpenFailure, MuxLoopFails, OnlyExits, Exits, toolVars
  <2> QED
    BY <2>1 DEF MuxerInv
<1> QED
  BY <1>4, <1>5, <1>6 DEF MuxerWorks, MuxerFails

\* For any two files and time bases, with unwanted packets anywhere: of each file
\* 3-7-h264_aac_muxer.c writes the wanted packets up to where it has read, each once
\* and in order, and besides them at most the one that it read last.
THEOREM MuxerKeepsOrder == MuxerSpec => []MuxKeepsOrder
<1>1. ASSUME MuxerInv PROVE MuxKeepsOrder
  <2> DEFINE w == out["file"]
  <2>1. w \in Seq(MuxedPacket) /\ \A f \in Kinds : Muxes(w, f, input[f].packets, own.read[f])
    BY <1>1 DEF MuxerInv
  <2> HIDE DEF w
  <2>2. ASSUME NEW f PROVE {e.n : e \in {v \in Range(w) : v.kind = f}} = NumbersOfKind(w, f)
    BY DEF Range, NumbersOfKind
  <2>3. ASSUME NEW f \in Kinds
        PROVE  \E last \in SUBSET {own.read[f]} :
                 {e.n : e \in {v \in Range(w) : v.kind = f}}
                   = {k \in 1..own.read[f] : input[f].packets[k].wanted} \cup last
    <3> DEFINE m == own.read[f]
               W == WantedUpTo(input[f].packets, m)
    <3>1. NumbersOfKind(w, f) = W \cup {} \/ NumbersOfKind(w, f) = W \cup {m}
      BY <2>1 DEF Muxes
    <3>2. {} \in SUBSET {m} /\ {m} \in SUBSET {m}
      OBVIOUS
    <3> QED
      BY <2>2, <3>1, <3>2 DEF WantedUpTo
  <2>4. \A f \in Kinds : \A i, j \in DOMAIN w :
          i < j /\ w[i].kind = f /\ w[j].kind = f => w[i].n < w[j].n
    BY <2>1 DEF Muxes
  <2> QED
    BY <2>3, <2>4 DEF MuxKeepsOrder, OfKind, w
<1>2. MuxerInv => MuxKeepsOrder
  BY <1>1
<1> QED
  BY <1>2, MuxerInvInit, MuxerKeeps, PTL DEF MuxerSpec

-----------------------------------------------------------------------------
(* Muxer: interleaving. *)

\* The pts of the wanted packets of a file, when it has any, ascend from 0: no
\* pictures that are stored out of order.
Ascends(packets) ==
  LET W == {k \in DOMAIN packets : packets[k].wanted}
  IN \/ \A k \in W : packets[k].pts = NOPTS
     \/ \A k \in W : 0 <= packets[k].pts /\ \A l \in W : k < l => packets[k].pts <= packets[l].pts

PtsAscend == \A i \in MuxFiles : \A f \in Kinds : Ascends(i[f].packets)

\* What headle_data() will give packet k of file f as its pts is not before t.
Follows(f, k, t) ==
  IF input[f].packets[k].pts = NOPTS THEN t <= own.frame_index * input[f].step
  ELSE t <= input[f].packets[k].pts

\* a of file f is no later than b of the other one.
NotAfter(f, a, b) == a * input[Other(f)].base <= b * input[f].base

IsWanted(e) == input[e.kind].packets[e.n].wanted

\* Of the packets w that are written: none is later than cur of its file unless that
\* has ended, and what each of them but the newest of its file was compared with
\* holds for what the other file has given since.
InStep(w, cur, ended) ==
  /\ \A i \in DOMAIN w : w[i].pts <= cur[w[i].kind] \/ w[i].kind \in ended
  /\ \A i, k \in DOMAIN w : i < k /\ w[i].kind = w[k].kind =>
       /\ NotAfter(w[i].kind, w[i].pts, cur[Other(w[i].kind)])
       /\ \A j \in DOMAIN w :
            k < j /\ w[j].kind = Other(w[i].kind) /\ IsWanted(w[j]) =>
              NotAfter(w[i].kind, w[i].pts, w[j].pts)

Ended == {f \in Kinds : Rest(f) = {}}

Following == \A f \in Kinds : \A k \in WantedRest(f) : Follows(f, k, own.cur[f])

Interleaved == Following /\ InStep(out["file"], own.cur, Ended)

LEMMA OtherKind ==
  ASSUME NEW f \in Kinds
  PROVE  Other(f) \in Kinds /\ Other(f) # f /\ Other(Other(f)) = f
         /\ \A g \in Kinds : g = f \/ g = Other(f)
  BY DEF Kinds, Other

LEMMA Times ==
  ASSUME NEW a \in Int, NEW b \in Int, NEW c \in Nat, a <= b
  PROVE  a * c \in Int /\ b * c \in Int /\ a * c <= b * c
  OBVIOUS

\* A later pts is no sooner.
LEMMA LaterStill ==
  ASSUME input \in MuxFiles, NEW f \in Kinds, NEW a \in Int, NEW b \in Int, NEW c \in Int,
         NotAfter(f, a, b), b <= c
  PROVE  NotAfter(f, a, c)
<1> DEFINE u == input[f].base
           v == input[Other(f)].base
<1>1. u \in Nat /\ v \in Nat
  BY MuxedFile, OtherKind
<1> HIDE DEF u, v
<1>2. b * u <= c * u /\ b * u \in Int /\ c * u \in Int /\ a * v \in Int
  BY <1>1, Times
<1>3. a * v <= b * u
  BY DEF NotAfter, u, v
<1>4. a * v <= c * u
  BY <1>2, <1>3
<1> QED
  BY <1>4 DEF NotAfter, u, v

\* An earlier one is no later.
LEMMA EarlierStill ==
  ASSUME input \in MuxFiles, NEW f \in Kinds, NEW a \in Int, NEW b \in Int, NEW c \in Int,
         NotAfter(f, b, c), a <= b
  PROVE  NotAfter(f, a, c)
<1> DEFINE u == input[f].base
           v == input[Other(f)].base
<1>1. u \in Nat /\ v \in Nat
  BY MuxedFile, OtherKind
<1> HIDE DEF u, v
<1>2. a * v <= b * v /\ a * v \in Int /\ b * v \in Int /\ c * u \in Int
  BY <1>1, Times
<1>3. b * v <= c * u
  BY DEF NotAfter, u, v
<1>4. a * v <= c * u
  BY <1>2, <1>3
<1> QED
  BY <1>4 DEF NotAfter, u, v

\* The file that is chosen is not ahead.
LEMMA ChosenIsBehind ==
  ASSUME MuxerInv PROVE NotAfter(Chosen, own.cur[Chosen], own.cur[Other(Chosen)])
<1>1. own.cur \in [Kinds -> Int] /\ input \in MuxFiles
  BY DEF MuxerInv, MuxOwn
<1>2. /\ own.cur["video"] \in Int /\ own.cur["audio"] \in Int
      /\ input["video"].base \in Nat /\ input["audio"].base \in Nat
  BY <1>1, MuxedFile DEF Kinds
<1>3. CASE own.cur["video"] * input["audio"].base <= own.cur["audio"] * input["video"].base
  BY <1>3 DEF Chosen, Other, NotAfter
<1>4. CASE ~(own.cur["video"] * input["audio"].base <= own.cur["audio"] * input["video"].base)
  <2>1. /\ own.cur["video"] * input["audio"].base \in Int
        /\ own.cur["audio"] * input["video"].base \in Int
    BY <1>2, Times
  <2>2. own.cur["audio"] * input["video"].base <= own.cur["video"] * input["audio"].base
    BY <1>4, <2>1
  <2> QED
    BY <1>4, <2>2 DEF Chosen, Other, NotAfter
<1> QED
  BY <1>3, <1>4

\* A packet x of the chosen file c is written.
LEMMA StaysInStep ==
  ASSUME input \in MuxFiles,
         NEW w \in Seq(MuxedPacket), NEW x \in MuxedPacket, NEW c \in Kinds, x.kind = c,
         NEW old \in [Kinds -> Int], NEW cur \in [Kinds -> Int],
         NEW E \in SUBSET Kinds, NEW F \in SUBSET Kinds,
         InStep(w, old, E), c \notin E, E \subseteq F,
         NotAfter(c, old[c], old[Other(c)]),
         cur[Other(c)] = old[Other(c)], old[c] <= cur[c],
         IsWanted(x) => old[c] <= x.pts,
         x.pts <= cur[c] \/ c \in F
  PROVE  InStep(Append(w, x), cur, F)
<1> DEFINE t == Append(w, x)
           n == Len(w)
<1>1. /\ n \in Nat /\ DOMAIN w = 1..n /\ DOMAIN t = 1..(n + 1) /\ t[n + 1] = x
      /\ \A k \in 1..n : t[k] = w[k] /\ w[k] \in MuxedPacket
  BY MuxAppends
<1>2. x.pts \in Int /\ \A k \in 1..n : w[k].pts \in Int /\ w[k].kind \in Kinds
  BY <1>1 DEF MuxedPacket
<1>3. Other(c) \in Kinds /\ Other(c) # c /\ Other(Other(c)) = c
      /\ \A f \in Kinds : Other(f) \in Kinds /\ (f = c \/ f = Other(c))
  BY OtherKind
<1> HIDE DEF t, n
<1>4. \A f \in Kinds : old[f] \in Int /\ cur[f] \in Int /\ old[f] <= cur[f]
  <2> TAKE f \in Kinds
  <2>1. old[f] \in Int /\ cur[f] \in Int
    OBVIOUS
  <2>2. old[f] <= cur[f]
    <3>1. CASE f = c
      BY <3>1
    <3>2. CASE f = Other(c)
      BY <2>1, <3>2
    <3> QED
      BY <1>3, <3>1, <3>2
  <2> QED
    BY <2>1, <2>2
<1>5. ASSUME NEW i \in DOMAIN t PROVE t[i].pts <= cur[t[i].kind] \/ t[i].kind \in F
  <2>1. CASE i = n + 1
    BY <1>1, <2>1
  <2>2. CASE i \in 1..n
    <3>1. w[i].pts <= old[w[i].kind] \/ w[i].kind \in E
      BY <1>1, <2>2 DEF InStep
    <3>2. old[w[i].kind] <= cur[w[i].kind] /\ old[w[i].kind] \in Int /\ cur[w[i].kind] \in Int
          /\ w[i].pts \in Int
      BY <1>2, <1>4, <2>2
    <3> QED
      BY <1>1, <2>2, <3>1, <3>2
  <2> QED
    BY <1>1, <2>1, <2>2
<1>6. ASSUME NEW i \in DOMAIN t, NEW k \in DOMAIN t, i < k, t[i].kind = t[k].kind
      PROVE  NotAfter(t[i].kind, t[i].pts, cur[Other(t[i].kind)])
  <2>1. i \in 1..n /\ t[i] = w[i] /\ w[i].kind \in Kinds /\ w[i].pts \in Int
    BY <1>1, <1>2, <1>6
  <2>2. CASE k \in 1..n
    <3>1. NotAfter(w[i].kind, w[i].pts, old[Other(w[i].kind)])
      BY <1>1, <1>6, <2>1, <2>2 DEF InStep
    <3>2. Other(w[i].kind) \in Kinds
      BY <1>3, <2>1
    <3> QED
      BY <1>4, <2>1, <3>1, <3>2, LaterStill
  <2>3. CASE k = n + 1
    <3>1. w[i].kind = c
      BY <1>1, <1>6, <2>1, <2>3
    <3>2. w[i].pts <= old[c]
      BY <1>1, <2>1, <3>1 DEF InStep
    <3>3. NotAfter(c, w[i].pts, old[Other(c)])
      BY <1>3, <1>4, <2>1, <3>2, EarlierStill
    <3> QED
      BY <2>1, <3>1, <3>3
  <2> QED
    BY <1>1, <2>2, <2>3
<1>7. ASSUME NEW i \in DOMAIN t, NEW k \in DOMAIN t, i < k, t[i].kind = t[k].kind,
             NEW j \in DOMAIN t, k < j, t[j].kind = Other(t[i].kind), IsWanted(t[j])
      PROVE  NotAfter(t[i].kind, t[i].pts, t[j].pts)
  <2>1. i \in 1..n /\ k \in 1..n /\ t[i] = w[i] /\ t[k] = w[k]
        /\ w[i].kind \in Kinds /\ w[i].pts \in Int
    BY <1>1, <1>2, <1>7
  <2>2. CASE j \in 1..n
    BY <1>1, <1>7, <2>1, <2>2 DEF InStep
  <2>3. CASE j = n + 1
    <3>1. t[j] = x /\ Other(w[i].kind) = c
      BY <1>1, <1>7, <2>1, <2>3
    <3>2. NotAfter(w[i].kind, w[i].pts, old[c])
      BY <1>1, <1>7, <2>1, <3>1 DEF InStep
    <3>3. old[c] <= x.pts
      BY <1>7, <3>1
    <3> QED
      BY <1>2, <1>4, <2>1, <3>1, <3>2, <3>3, LaterStill
  <2> QED
    BY <1>1, <2>2, <2>3
<1>8. InStep(t, cur, F)
  BY <1>5, <1>6, <1>7 DEF InStep
<1> QED
  BY <1>8 DEF t

LEMMA FileAscends ==
  ASSUME PtsAscend, input \in MuxFiles, NEW f \in Kinds PROVE Ascends(input[f].packets)
  BY DEF PtsAscend

LEMMA MuxedPackets ==
  ASSUME input \in MuxFiles, NEW f \in Kinds
  PROVE  /\ DOMAIN input[f].packets = 1..Len(input[f].packets)
         /\ Len(input[f].packets) \in Nat
         /\ \A k \in 1..Len(input[f].packets) : input[f].packets[k].pts \in Int
<1>1. input[f] \in MuxFile
  BY MuxedFile
<1>2. input[f].packets \in Seq([wanted : BOOLEAN, pts : Int])
  BY <1>1 DEF MuxFile
<1> QED
  BY <1>2, MuxedFile, LenProperties

LEMMA InterleavedInit == ASSUME PtsAscend, MuxerInit PROVE Interleaved
<1>1. /\ input \in MuxFiles /\ out = [o \in {"file"} |-> <<>>]
      /\ own = [cur |-> [f \in Kinds |-> 0], read |-> [f \in Kinds |-> 0], frame_index |-> 0]
  BY DEF MuxerInit, ToolInit
<1>2. ASSUME NEW f \in Kinds, NEW k \in WantedRest(f) PROVE Follows(f, k, own.cur[f])
  <2> DEFINE p == input[f].packets
  <2>1. /\ input[f].step \in Nat /\ DOMAIN p = 1..Len(p) /\ Len(p) \in Nat
        /\ Ascends(p)
    BY <1>1, MuxedFile, MuxedPackets, FileAscends
  <2>2. k \in DOMAIN p /\ p[k].wanted
    BY <1>1, <2>1 DEF WantedRest, Rest
  <2>3. own.cur[f] = 0 /\ own.frame_index * input[f].step = 0
    BY <1>1, <2>1
  <2>4. p[k].pts = NOPTS \/ 0 <= p[k].pts
    BY <2>1, <2>2 DEF Ascends
  <2> QED
    BY <2>3, <2>4 DEF Follows
<1>3. InStep(out["file"], own.cur, Ended)
  <2>1. out["file"] = <<>>
    BY <1>1
  <2> QED
    BY <2>1 DEF InStep
<1> QED
  BY <1>2, <1>3 DEF Interleaved, Following

\* What stays to be read of a file that is not touched.
LEMMA FollowsOn ==
  ASSUME input \in MuxFiles, input' = input, own \in MuxOwn, NEW f \in Kinds,
         own'.frame_index \in {own.frame_index, own.frame_index + 1},
         NEW k, NEW t \in Int, Follows(f, k, t)
  PROVE  Follows(f, k, t)'
<1> DEFINE i == own.frame_index
           j == own'.frame_index
           step == input[f].step
<1>1. i \in Nat /\ step \in Nat /\ j \in {i, i + 1}
  BY MuxedFile DEF MuxOwn
<1>2. i * step \in Int /\ j * step \in Int /\ i * step <= j * step
  <2> HIDE DEF i, j, step
  <2>1. i \in Int /\ j \in Int /\ i <= j
    BY <1>1
  <2> QED
    BY <1>1, <2>1, Times
<1>3. CASE input[f].packets[k].pts = NOPTS
  <2>1. t <= i * step
    BY <1>3 DEF Follows
  <2>2. t <= j * step
    BY <1>2, <2>1
  <2> QED
    BY <1>3, <2>2 DEF Follows
<1>4. CASE input[f].packets[k].pts # NOPTS
  BY <1>4 DEF Follows
<1> QED
  BY <1>3, <1>4

\* What both steps that write have in common at the end.
LEMMA WrittenInStep ==
  ASSUME MuxerInv, NEW x, out' = [out EXCEPT !["file"] = Append(@, x)], input' = input,
         InStep(Append(out["file"], x), own'.cur, Ended')
  PROVE  InStep(out["file"], own.cur, Ended)'
<1>1. PICK t, u, E : t = Append(out["file"], x) /\ u = own'.cur /\ E = Ended'
  OBVIOUS
<1>2. InStep(t, u, E)
  BY <1>1
<1>3. InStep(t, u, E)'
  BY <1>2 DEF InStep, NotAfter, IsWanted
<1>4. t = out'["file"]
  BY <1>1 DEF MuxerInv
<1> QED
  BY <1>1, <1>3, <1>4, SMTT(30) DEF InStep

LEMMA MuxWantedInterleaves == ASSUME PtsAscend, MuxerInv, Interleaved, MuxWanted PROVE Interleaved'
<1>0. PICK c, n, pts : c = Chosen /\ n = Found(c) /\ pts = FoundPts(c)
  OBVIOUS
<1> DEFINE i == own.frame_index
           p == input[c].packets
           x == Written(c, n, pts)
           w == out["file"]
<1>1. /\ input \in MuxFiles /\ c \in Kinds /\ own \in MuxOwn
      /\ out \in [{"file"} -> Seq(MuxedPacket)] /\ w \in Seq(MuxedPacket)
  BY <1>0, ChosenIsKind DEF MuxerInv
<1>2. /\ n \in WantedRest(c) /\ \A k \in WantedRest(c) : n <= k
      /\ n \in Nat /\ pts \in Int
      /\ own' = [cur |-> [own.cur EXCEPT ![c] = pts], read |-> [own.read EXCEPT ![c] = n],
                 frame_index |-> IF HasPts(c) THEN i ELSE i + 1]
      /\ out' = [out EXCEPT !["file"] = Append(@, x)]
      /\ UNCHANGED <<program, input>>
  BY <1>0, MuxFinds
<1>3. own.cur \in [Kinds -> Int] /\ own.read \in [Kinds -> Nat] /\ i \in Nat
  BY <1>1 DEF MuxOwn
<1>4. /\ DOMAIN p = 1..Len(p) /\ Len(p) \in Nat /\ input[c].step \in Nat
      /\ Ascends(p) /\ n \in 1..Len(p) /\ n \in DOMAIN p /\ p[n].wanted
  <2>1. DOMAIN p = 1..Len(p) /\ Len(p) \in Nat /\ input[c].step \in Nat /\ Ascends(p)
    BY <1>1, MuxedFile, MuxedPackets, FileAscends
  <2>2. n \in (own.read[c] + 1)..Len(p) /\ p[n].wanted
    BY <1>2 DEF WantedRest, Rest
  <2>3. own.read[c] \in Nat
    BY <1>1, <1>3
  <2>4. n \in 1..Len(p)
    BY <2>1, <2>2, <2>3
  <2> QED
    BY <2>1, <2>2, <2>4
<1>5. own.cur[c] \in Int /\ own.cur[c] <= pts
  <2>1. Follows(c, n, own.cur[c])
    BY <1>1, <1>2 DEF Interleaved, Following
  <2> QED
    BY <1>0, <1>1, <1>3, <1>4, <2>1 DEF Follows, FoundPts, HasPts
<1>6. /\ own'.frame_index \in {i, i + 1}
      /\ own'.cur = [own.cur EXCEPT ![c] = pts] /\ own'.read = [own.read EXCEPT ![c] = n]
  BY <1>2
<1>7. \A f \in Kinds : f # c => WantedRest(f)' = WantedRest(f) /\ Rest(f)' = Rest(f)
  BY <1>1, <1>2, <1>3, <1>6 DEF WantedRest, Rest
<1>8. ASSUME NEW k \in WantedRest(c)' PROVE Follows(c, k, pts)'
  <2>1. k \in (n + 1)..Len(p) /\ p[k].wanted
    BY <1>1, <1>2, <1>3, <1>6 DEF WantedRest, Rest
  <2>2. k \in DOMAIN p /\ n < k
    BY <1>2, <1>4, <2>1
  <2>3. CASE p[n].pts = NOPTS
    <3>1. ~HasPts(c) /\ pts = i * input[c].step /\ own'.frame_index = i + 1
      BY <1>0, <1>2, <2>3 DEF HasPts, FoundPts
    <3>2. p[k].pts = NOPTS
      <4>1. ~(0 <= p[n].pts)
        BY <2>3 DEF NOPTS
      <4> QED
        BY <1>4, <2>1, <2>2, <4>1 DEF Ascends
    <3>3. pts <= (i + 1) * input[c].step
      <4>1. i \in Int /\ i + 1 \in Int /\ i <= i + 1
        BY <1>3
      <4> QED
        BY <1>4, <3>1, <4>1, Times
    <3> QED
      BY <1>2, <3>1, <3>2, <3>3 DEF Follows
  <2>4. CASE p[n].pts # NOPTS
    <3>1. pts = p[n].pts
      BY <1>0, <2>4 DEF HasPts, FoundPts
    <3>2. 0 <= p[k].pts /\ p[n].pts <= p[k].pts
      BY <1>4, <2>1, <2>2, <2>4 DEF Ascends
    <3>3. p[k].pts # NOPTS
      BY <3>2 DEF NOPTS
    <3> QED
      BY <1>2, <3>1, <3>2, <3>3 DEF Follows
  <2> QED
    BY <2>3, <2>4
<1>9. Following'
  <2> SUFFICES ASSUME NEW f \in Kinds, NEW k \in WantedRest(f)'
               PROVE  Follows(f, k, own.cur[f])'
    BY DEF Following
  <2>1. CASE f = c
    <3>1. own'.cur[c] = pts
      BY <1>1, <1>3, <1>6
    <3> QED
      BY <1>8, <2>1, <3>1 DEF Follows
  <2>2. CASE f # c
    <3>1. k \in WantedRest(f) /\ own'.cur[f] = own.cur[f] /\ own.cur[f] \in Int
      BY <1>1, <1>3, <1>6, <1>7, <2>2
    <3>2. Follows(f, k, own.cur[f])
      BY <3>1 DEF Interleaved, Following
    <3> QED
      BY <1>1, <1>2, <1>6, <3>1, <3>2, FollowsOn DEF Follows
  <2> QED
    BY <2>1, <2>2
<1>10. x \in MuxedPacket /\ x.kind = c /\ x.pts = pts
  <2>1. Rescale(pts, input[c].base, input.outBase) \in Int
    BY <1>1, <1>2, MuxedFile, RescaleIsInt
  <2> QED
    BY <1>1, <1>2, <2>1 DEF Written, MuxedPacket
<1>11. InStep(Append(w, x), own'.cur, Ended')
  <2>1. own'.cur \in [Kinds -> Int] /\ own'.cur[c] = pts /\ own'.cur[Other(c)] = own.cur[Other(c)]
    BY <1>1, <1>2, <1>3, <1>6, OtherKind
  <2>2. InStep(w, own.cur, Ended) /\ NotAfter(c, own.cur[c], own.cur[Other(c)])
    BY <1>0, ChosenIsBehind DEF Interleaved
  <2>3. Ended \in SUBSET Kinds /\ Ended' \in SUBSET Kinds /\ c \notin Ended
    BY <1>2 DEF Ended, WantedRest
  <2>4. Ended \subseteq Ended'
    BY <1>7, <2>3 DEF Ended
  <2>5. own.cur[c] <= own'.cur[c] /\ own.cur[c] <= x.pts /\ x.pts <= own'.cur[c]
    BY <1>2, <1>5, <1>10, <2>1
  <2> HIDE DEF x, w
  <2> QED
    BY <1>1, <1>3, <1>10, <2>1, <2>2, <2>3, <2>4, <2>5, StaysInStep
<1>12. InStep(out["file"], own.cur, Ended)'
  <2> HIDE DEF x
  <2> QED
    BY <1>2, <1>11, WrittenInStep
<1> QED
  BY <1>9, <1>12 DEF Interleaved

LEMMA MuxStaleInterleaves == ASSUME PtsAscend, MuxerInv, Interleaved, MuxStale PROVE Interleaved'
<1>0. PICK c, n, pts : c = Chosen /\ n = Len(input[c].packets) /\ pts = input[c].packets[n].pts
  OBVIOUS
<1> DEFINE p == input[c].packets
           x == Written(c, n, pts)
           w == out["file"]
<1>1. /\ input \in MuxFiles /\ c \in Kinds /\ own \in MuxOwn /\ w \in Seq(MuxedPacket)
  BY <1>0, ChosenIsKind DEF MuxerInv
<1>2. WantedRest(c) = {} /\ Rest(c) # {}
  BY <1>0 DEF MuxStale
<1>3. /\ own.cur \in [Kinds -> Int] /\ own.read \in [Kinds -> Nat]
      /\ n \in Nat /\ \A k \in 1..n : p[k].pts \in Int
  BY <1>0, <1>1, MuxedPackets DEF MuxOwn
<1>4. n \in Rest(c) /\ n \in 1..n /\ pts \in Int /\ ~p[n].wanted
  <2>1. own.read[c] \in Nat /\ Rest(c) = (own.read[c] + 1)..n
    BY <1>0, <1>1, <1>3 DEF Rest
  <2>2. n \in Rest(c) /\ n \in 1..n
    BY <1>2, <1>3, <2>1
  <2> QED
    BY <1>0, <1>2, <1>3, <2>2 DEF WantedRest
<1>5. /\ own' = [own EXCEPT !.read[c] = n] /\ UNCHANGED <<program, input>>
      /\ out' = [out EXCEPT !["file"] = Append(@, x)]
  BY <1>0, <1>2 DEF MuxStale, WriteMuxed, NextMuxed, GoesTo
<1>6. /\ own'.frame_index = own.frame_index /\ own'.cur = own.cur
      /\ own'.read = [own.read EXCEPT ![c] = n]
  BY <1>1, <1>5 DEF MuxOwn
<1>7. \A f \in Kinds : f # c => WantedRest(f)' = WantedRest(f) /\ Rest(f)' = Rest(f)
  BY <1>1, <1>3, <1>5, <1>6 DEF WantedRest, Rest
<1>8. Rest(c)' = {}
  <2>1. own'.read[c] = n /\ (n + 1)..n = {}
    BY <1>1, <1>3, <1>6
  <2> QED
    BY <1>0, <1>5, <2>1 DEF Rest
<1>9. Following'
  <2> SUFFICES ASSUME NEW f \in Kinds, NEW k \in WantedRest(f)'
               PROVE  Follows(f, k, own.cur[f])'
    BY DEF Following
  <2>1. f # c
    BY <1>8 DEF WantedRest
  <2>2. k \in WantedRest(f) /\ own.cur[f] \in Int /\ own'.cur[f] = own.cur[f]
    BY <1>3, <1>6, <1>7, <2>1
  <2>3. Follows(f, k, own.cur[f])
    BY <2>2 DEF Interleaved, Following
  <2> QED
    BY <1>1, <1>5, <1>6, <2>2, <2>3, FollowsOn DEF Follows
<1>10. x \in MuxedPacket /\ x.kind = c /\ ~IsWanted(x)
  <2>1. Rescale(pts, input[c].base, input.outBase) \in Int
    BY <1>1, <1>4, MuxedFile, RescaleIsInt
  <2>2. x \in MuxedPacket /\ x.kind = c /\ x.n = n
    BY <1>1, <1>3, <1>4, <2>1 DEF Written, MuxedPacket
  <2> HIDE DEF x
  <2> QED
    BY <1>4, <2>2 DEF IsWanted
<1>11. InStep(Append(w, x), own'.cur, Ended')
  <2>1. InStep(w, own.cur, Ended) /\ NotAfter(c, own.cur[c], own.cur[Other(c)])
    BY <1>0, ChosenIsBehind DEF Interleaved
  <2>2. Ended \in SUBSET Kinds /\ Ended' \in SUBSET Kinds /\ c \notin Ended /\ c \in Ended'
    BY <1>1, <1>2, <1>8 DEF Ended
  <2>3. Ended \subseteq Ended'
    BY <1>7, <2>2 DEF Ended
  <2>4. own.cur[c] \in Int /\ own.cur[c] <= own'.cur[c] /\ own'.cur[Other(c)] = own.cur[Other(c)]
    BY <1>1, <1>3, <1>6
  <2> HIDE DEF x, w
  <2> QED
    BY <1>1, <1>3, <1>6, <1>10, <2>1, <2>2, <2>3, <2>4, StaysInStep
<1>12. InStep(out["file"], own.cur, Ended)'
  <2> HIDE DEF x
  <2> QED
    BY <1>5, <1>11, WrittenInStep
<1> QED
  BY <1>9, <1>12 DEF Interleaved

LEMMA InterleavedKeeps ==
  ASSUME PtsAscend, MuxerInv, Interleaved, [MuxerWorks \/ MuxerFails]_toolVars
  PROVE  Interleaved'
<1>1. CASE MuxWanted
  BY <1>1, MuxWantedInterleaves
<1>2. CASE MuxStale
  BY <1>2, MuxStaleInterleaves
<1>3. CASE init_muxer \/ MuxRefused \/ MuxEnd \/ MuxOpenFails \/ MuxLoopFails
            \/ UNCHANGED toolVars
  <2>1. UNCHANGED <<input, own, out>>
    BY <1>3
    DEF init_muxer, OpenSucceeds, OnlyGoesTo, GoesTo, MuxRefused, MuxEnd, MuxOpenFails,
        OpenFailure, MuxLoopFails, OnlyExits, Exits, toolVars
  <2>2. Following'
    BY <2>1 DEF Interleaved, Following, WantedRest, Rest, Follows
  <2>3. Ended' = Ended
    BY <2>1 DEF Ended, Rest
  <2>4. InStep(out["file"], own.cur, Ended)'
    BY <2>1, <2>3 DEF Interleaved, InStep, NotAfter, IsWanted
  <2> QED
    BY <2>2, <2>4 DEF Interleaved
<1> QED
  BY <1>1, <1>2, <1>3 DEF MuxerWorks, MuxerFails

\* Whatever the two time bases and however the packets of each file are spread, as
\* long as the pts in a file ascend or are all missing: av_compare_ts() on the
\* latest pts of each file (3-7-h264_aac_muxer.c) never lets one stream of the output
\* run ahead of the other by more than the packet it has just chosen.
THEOREM MuxerInterleaves == ASSUME PtsAscend PROVE MuxerSpec => []MuxIsInterleaved
<1>1. ASSUME MuxerInv, Interleaved PROVE MuxIsInterleaved
  <2> DEFINE w == out["file"]
  <2>1. /\ input \in MuxFiles /\ own.cur \in [Kinds -> Int] /\ InStep(w, own.cur, Ended)
        /\ w \in Seq(MuxedPacket)
    BY <1>1 DEF MuxerInv, Interleaved, MuxOwn
  <2>2. \A i \in DOMAIN w : w[i] \in MuxedPacket
    BY <2>1, MuxAppends, ElementOfSeq, LenProperties
  <2>3. SUFFICES ASSUME NEW i \in DOMAIN w, NEW k \in DOMAIN w, i < k, w[i].kind = w[k].kind,
                        NEW p \in {w[j] : j \in {m \in k + 1 .. Len(w) :
                                            w[m].kind = Other(w[i].kind) /\ IsWanted(w[m])}}
                                   \cup Unread(Other(w[i].kind))
                 PROVE  NotAfter(w[i].kind, w[i].pts, p.pts)
    BY DEF MuxIsInterleaved, NotAfter, IsWanted
  <2> DEFINE f == w[i].kind
             o == Other(f)
  <2>4. /\ f \in Kinds /\ w[i].pts \in Int /\ o \in Kinds /\ own.cur[o] \in Int
        /\ NotAfter(f, w[i].pts, own.cur[o])
    BY <2>1, <2>2, <2>3, OtherKind DEF InStep, MuxedPacket
  <2>5. CASE p \in Unread(o)
    <3>1. PICK k2 \in WantedRest(o) :
            input[o].packets[k2].pts # NOPTS /\ p.pts = input[o].packets[k2].pts
      <4>1. PICK k2 \in {m \in WantedRest(o) : input[o].packets[m].pts # NOPTS} :
              p = [kind |-> o, pts |-> input[o].packets[k2].pts]
        BY <2>5 DEF Unread
      <4>2. k2 \in WantedRest(o) /\ input[o].packets[k2].pts # NOPTS
            /\ p.pts = input[o].packets[k2].pts
        <5> HIDE DEF o
        <5> QED
          BY <4>1
      <4> QED
        BY <4>2
    <3>2. Follows(o, k2, own.cur[o])
      BY <1>1, <2>4, <3>1 DEF Interleaved, Following
    <3>3. own.cur[o] <= p.pts
      BY <3>1, <3>2 DEF Follows
    <3>4. p.pts \in Int
      <4>1. k2 \in 1..Len(input[o].packets)
        <5>1. own.read[o] \in Nat
          BY <1>1, <2>4 DEF MuxerInv, MuxOwn
        <5>2. k2 \in own.read[o] + 1 .. Len(input[o].packets)
          BY <3>1 DEF WantedRest, Rest
        <5>3. Len(input[o].packets) \in Nat
          BY <2>1, <2>4, MuxedPackets
        <5> HIDE DEF o
        <5> QED
          BY <5>1, <5>2, <5>3
      <4> QED
        BY <2>1, <2>4, <3>1, <4>1, MuxedPackets
    <3> QED
      BY <2>1, <2>4, <3>3, <3>4, LaterStill
  <2>6. CASE p \notin Unread(o)
    <3>1. PICK j \in k + 1 .. Len(w) : p = w[j] /\ w[j].kind = o /\ IsWanted(w[j])
      BY <2>3, <2>6
    <3>2. j \in DOMAIN w /\ k < j
      <4>1. DOMAIN w = 1..Len(w) /\ Len(w) \in Nat
        BY <2>1, LenProperties
      <4> QED
        BY <2>3, <3>1, <4>1
    <3> QED
      BY <2>1, <2>3, <3>1, <3>2 DEF InStep
  <2> QED
    BY <2>5, <2>6
<1>2. MuxerInv /\ Interleaved => MuxIsInterleaved
  BY <1>1
<1>3. MuxerInit => Interleaved
  BY InterleavedInit
<1>4. MuxerInv /\ Interleaved /\ [MuxerWorks \/ MuxerFails]_toolVars => Interleaved'
  BY InterleavedKeeps
<1> QED
  BY <1>2, <1>3, <1>4, MuxerInvInit, MuxerKeeps, PTL DEF MuxerSpec

-----------------------------------------------------------------------------
(* Demuxing and decoding: sequences of frames. *)

FrameOf(s) ==
  {f \in [stream : {s}, n : Nat, part : Nat, quality : Decodable] :
     /\ f.quality = "resized" => s = "video"
     /\ f.quality \in {"odd", "mono"} => s = "audio"}

\* Of the frames f, those that are kept are the parts P, and all come in order.
Complete(f, P) ==
  /\ \A i \in DOMAIN f : IsKept(f[i]) => <<f[i].n, f[i].part>> \in P
  /\ \A x \in P : \E i \in DOMAIN f : IsKept(f[i]) /\ x = <<f[i].n, f[i].part>>
  /\ \A i, j \in DOMAIN f : i < j => Before(f[i], f[j])

\* Whatever is in g is in f.
ElementsIn(g, f) == \A i \in DOMAIN g : \E j \in DOMAIN f : g[i] = f[j]

LEMMA CompleteAppend ==
  ASSUME NEW S, NEW f \in Seq(S), NEW x \in S, NEW P, Complete(f, P),
         \A i \in DOMAIN f : Before(f[i], x)
  PROVE  Complete(Append(f, x), IF IsKept(x) THEN P \cup {<<x.n, x.part>>} ELSE P)
<1> DEFINE g == Append(f, x)
           m == Len(f)
           Q == IF IsKept(x) THEN P \cup {<<x.n, x.part>>} ELSE P
<1>1. /\ m \in Nat /\ DOMAIN f = 1..m /\ DOMAIN g = 1..(m + 1)
      /\ g[m + 1] = x /\ \A i \in 1..m : g[i] = f[i]
  BY AppendProperties
<1>2. P \subseteq Q /\ (IsKept(x) => <<x.n, x.part>> \in Q)
      /\ \A y \in Q : y \in P \/ (IsKept(x) /\ y = <<x.n, x.part>>)
  OBVIOUS
<1> HIDE DEF g, m, Q
<1>3. \A i \in DOMAIN g : IsKept(g[i]) => <<g[i].n, g[i].part>> \in Q
  <2> TAKE i \in DOMAIN g
  <2>1. CASE i = m + 1
    BY <1>1, <1>2, <2>1
  <2>2. CASE i \in 1..m
    BY <1>1, <1>2, <2>2 DEF Complete
  <2> QED
    BY <1>1, <2>1, <2>2
<1>4. \A y \in Q : \E i \in DOMAIN g : IsKept(g[i]) /\ y = <<g[i].n, g[i].part>>
  <2> TAKE y \in Q
  <2>1. CASE IsKept(x) /\ y = <<x.n, x.part>>
    <3>1. m + 1 \in DOMAIN g
      BY <1>1
    <3> QED
      BY <1>1, <2>1, <3>1
  <2>2. CASE y \in P
    <3>1. PICK i \in 1..m : IsKept(f[i]) /\ y = <<f[i].n, f[i].part>>
      BY <1>1, <2>2 DEF Complete
    <3>2. i \in DOMAIN g /\ g[i] = f[i]
      BY <1>1
    <3> QED
      BY <3>1, <3>2
  <2> QED
    BY <1>2, <2>1, <2>2
<1>5. ASSUME NEW i \in DOMAIN g, NEW j \in DOMAIN g, i < j PROVE Before(g[i], g[j])
  <2>1. CASE j = m + 1
    <3>1. i \in 1..m
      BY <1>1, <1>5, <2>1
    <3> QED
      BY <1>1, <2>1, <3>1
  <2>2. CASE j \in 1..m
    <3>1. i \in 1..m
      BY <1>1, <1>5, <2>2
    <3> QED
      BY <1>1, <1>5, <2>2, <3>1 DEF Complete
  <2> QED
    BY <1>1, <2>1, <2>2
<1> QED
  BY <1>3, <1>4, <1>5 DEF Complete, g, Q

LEMMA CompleteDrop ==
  ASSUME NEW S, NEW s \in Seq(S), NEW q \in Seq(S), q # <<>>, ~IsKept(Head(q)),
         NEW P, NEW f, f = s \o q, Complete(f, P), NEW g, g = s \o Tail(q)
  PROVE  Complete(g, P) /\ ElementsIn(g, f)
<1> DEFINE a == Len(s)
           b == Len(q)
           k(i) == IF i <= a THEN i ELSE i + 1
<1>1. a \in Nat /\ b \in Nat \ {0} /\ Tail(q) \in Seq(S) /\ Len(Tail(q)) = b - 1
      /\ Head(q) = q[1] /\ \A i \in 1..(b - 1) : Tail(q)[i] = q[i + 1]
  BY EmptySeq, HeadTailProperties
<1>2. /\ DOMAIN f = 1..(a + b) /\ \A i \in 1..a : f[i] = s[i]
      /\ \A i \in 1..b : f[a + i] = q[i]
  <2>1. f \in Seq(S) /\ Len(f) = a + b
    BY ConcatProperties
  <2>2. \A i \in 1..Len(s) + Len(q) : f[i] = IF i <= Len(s) THEN s[i] ELSE q[i - Len(s)]
    BY ConcatProperties
  <2>3. ASSUME NEW i \in 1..b PROVE f[a + i] = q[i]
    <3>1. a + i \in 1..(a + b) /\ ~(a + i <= a) /\ a + i - a = i
      BY <1>1
    <3> QED
      BY <2>2, <3>1
  <2>4. ASSUME NEW i \in 1..a PROVE f[i] = s[i]
    BY <1>1, <2>2
  <2> QED
    BY <2>1, <2>3, <2>4
<1>3. /\ DOMAIN g = 1..(a + b - 1) /\ \A i \in 1..a : g[i] = s[i]
      /\ \A i \in 1..(b - 1) : g[a + i] = Tail(q)[i]
  <2>1. g \in Seq(S) /\ Len(g) = a + (b - 1)
    BY <1>1, ConcatProperties
  <2>2. \A i \in 1..Len(s) + Len(Tail(q)) : g[i] = IF i <= Len(s) THEN s[i] ELSE Tail(q)[i - Len(s)]
    BY <1>1, ConcatProperties
  <2>3. ASSUME NEW i \in 1..(b - 1) PROVE g[a + i] = Tail(q)[i]
    <3>1. a + i \in 1..(Len(s) + Len(Tail(q))) /\ ~(a + i <= a) /\ a + i - a = i
      BY <1>1
    <3> QED
      BY <2>2, <3>1
  <2>4. ASSUME NEW i \in 1..a PROVE g[i] = s[i]
    BY <1>1, <2>2
  <2>5. a + (b - 1) = a + b - 1
    BY <1>1
  <2> QED
    BY <2>1, <2>3, <2>4, <2>5
<1> HIDE DEF a, b
<1>4. ASSUME NEW i \in DOMAIN g PROVE k(i) \in DOMAIN f /\ g[i] = f[k(i)]
  <2>1. CASE i <= a
    BY <1>1, <1>2, <1>3, <2>1
  <2>2. CASE ~(i <= a)
    <3>1. i \in Int /\ a < i /\ i <= a + b - 1
      BY <1>1, <1>3, <2>2
    <3>2. PICK h \in Int : h = i - a
      BY <1>1, <3>1
    <3>3. /\ h \in 1..(b - 1) /\ a + h = i /\ h + 1 \in 1..b /\ a + (h + 1) = i + 1
          /\ i + 1 \in 1..(a + b)
      <4>1. a + h = i /\ a + (h + 1) = i + 1 /\ h >= 1 /\ h <= b - 1
        BY <1>1, <3>1, <3>2
      <4>0. b \in Int /\ h \in Int
        BY <1>1, <3>2
      <4>2. h \in 1..(b - 1) /\ h + 1 \in 1..b
        BY <4>0, <4>1
      <4>3. i + 1 \in 1..(a + b)
        BY <1>1, <3>1
      <4> QED
        BY <4>1, <4>2, <4>3
    <3>4. g[i] = Tail(q)[h] /\ Tail(q)[h] = q[h + 1] /\ f[i + 1] = q[h + 1]
      BY <1>1, <1>2, <1>3, <3>3
    <3> QED
      BY <1>2, <2>2, <3>3, <3>4
  <2> QED
    BY <2>1, <2>2
<1>5. ASSUME NEW j \in DOMAIN f, IsKept(f[j]) PROVE \E i \in DOMAIN g : g[i] = f[j]
  <2>1. f[a + 1] = q[1]
    BY <1>1, <1>2
  <2>2. j # a + 1
    BY <1>1, <1>5, <2>1
  <2>3. CASE j <= a
    <3>1. j \in DOMAIN g /\ k(j) = j
      BY <1>1, <1>2, <1>3, <2>3
    <3> QED
      BY <1>4, <3>1
  <2>4. CASE ~(j <= a)
    <3>1. j \in Int /\ a + 2 <= j /\ j <= a + b
      BY <1>1, <1>2, <2>2, <2>4
    <3>2. j - 1 \in DOMAIN g
      BY <1>1, <1>3, <3>1
    <3>3. ~(j - 1 <= a) /\ (j - 1) + 1 = j
      BY <1>1, <3>1
    <3> QED
      BY <1>4, <3>2, <3>3
  <2> QED
    BY <2>3, <2>4
<1>6. Complete(f, P)
  OBVIOUS
<1>7. ASSUME NEW i \in DOMAIN g, NEW j \in DOMAIN g, i < j PROVE Before(g[i], g[j])
  <2>1. k(i) < k(j)
    BY <1>1, <1>3, <1>7
  <2>2. Before(f[k(i)], f[k(j)])
    BY <1>4, <1>6, <2>1 DEF Complete
  <2> QED
    BY <1>4, <2>2
<1>8. Complete(g, P)
  <2>1. ASSUME NEW i \in DOMAIN g, IsKept(g[i]) PROVE <<g[i].n, g[i].part>> \in P
    <3>1. PICK j \in DOMAIN f : g[i] = f[j]
      BY <1>4
    <3> QED
      BY <1>6, <2>1, <3>1 DEF Complete
  <2>2. \A x \in P : \E i \in DOMAIN g : IsKept(g[i]) /\ x = <<g[i].n, g[i].part>>
    <3> TAKE x \in P
    <3>1. PICK j \in DOMAIN f : IsKept(f[j]) /\ x = <<f[j].n, f[j].part>>
      BY <1>6 DEF Complete
    <3>2. PICK i \in DOMAIN g : g[i] = f[j]
      BY <1>5, <3>1
    <3> QED
      BY <3>1, <3>2
  <2> QED
    BY <1>7, <2>1, <2>2 DEF Complete
<1>9. \A i \in DOMAIN g : \E j \in DOMAIN f : g[i] = f[j]
  BY <1>4
<1> QED
  BY <1>8, <1>9 DEF ElementsIn

LEMMA TakesNext ==
  ASSUME NEW S, NEW o \in Seq(S), NEW q \in Seq(S), NEW x \in S,
         NEW r, r = Append(q, x), NEW g, g = o \o q, NEW f, f = o \o r
  PROVE  /\ f = Append(g, x) /\ r \in Seq(S) /\ r # <<>> /\ f \in Seq(S)
         /\ g \in Seq(S) /\ Len(g) \in Nat /\ DOMAIN g = 1..Len(g) /\ DOMAIN f = 1..(Len(g) + 1)
         /\ f[Len(g) + 1] = x /\ \A i \in 1..Len(g) : f[i] = g[i]
<1>1. f = Append(g, x)
  BY AppendRight
<1>2. g \in Seq(S)
  BY ConcatProperties
<1>3. r \in Seq(S) /\ r # <<>>
  BY AppendProperties
<1>4. Len(g) \in Nat /\ DOMAIN g = 1..Len(g)
  BY <1>2
<1>5. /\ f \in Seq(S) /\ Len(f) = Len(g) + 1 /\ f[Len(g) + 1] = x
      /\ \A i \in 1..Len(g) : f[i] = g[i]
  BY <1>1, <1>2, AppendProperties
<1>6. DOMAIN f = 1..Len(f)
  BY <1>5
<1> QED
  BY <1>1, <1>2, <1>3, <1>4, <1>5, <1>6

LEMMA GivesFirst ==
  ASSUME NEW S, NEW o \in Seq(S), NEW q \in Seq(S), q # <<>>, NEW h, h = Head(q), NEW t, t = Tail(q)
  PROVE  h \in S /\ t \in Seq(S) /\ Append(o, h) \in Seq(S) /\ Append(o, h) \o t = o \o q
<1>1. h \in S /\ t \in Seq(S)
  BY EmptySeq, HeadTailProperties
<1> QED
  BY <1>1, AppendProperties, MoveHead

LEMMA FirstIsIn ==
  ASSUME NEW S, NEW o \in Seq(S), NEW q \in Seq(S), q # <<>>
  PROVE  \E i \in DOMAIN (o \o q) : (o \o q)[i] = Head(q)
<1>0. PICK f : f = o \o q
  OBVIOUS
<1>1. q[1] = Head(q) /\ Len(q) \in Nat \ {0}
  BY EmptySeq, HeadTailProperties
<1>2. /\ f \in Seq(S) /\ Len(f) = Len(o) + Len(q)
      /\ \A i \in 1..Len(o) + Len(q) : f[i] = IF i <= Len(o) THEN o[i] ELSE q[i - Len(o)]
  BY <1>0, ConcatProperties
<1>3. Len(o) \in Nat /\ DOMAIN f = 1..Len(f)
  BY <1>2
<1>4. PICK i \in Nat : i = Len(o) + 1
  BY <1>3
<1>5. i \in 1..Len(o) + Len(q) /\ ~(i <= Len(o)) /\ i - Len(o) = 1
  BY <1>1, <1>3, <1>4
<1>6. i \in DOMAIN f
  BY <1>2, <1>3, <1>5
<1> QED
  BY <1>0, <1>1, <1>2, <1>5, <1>6

-----------------------------------------------------------------------------
(* Demuxing and decoding: the parts of the packets ps of stream s that are decoded when *)
(* m packets have been read, left parts of the last one are left, and L parts of each   *)
(* are lost.                                                                            *)

Done(ps, L, m, left, k) ==
  IF IsKept(ps[k]) THEN ps[k].parts - L[k] - (IF k = m THEN left ELSE 0) ELSE 0

PartsFor(ps, L, m, left, s) ==
  UNION {{<<k, p>> : p \in 0..(Done(ps, L, m, left, k) - 1)} : k \in {j \in 1..m : ps[j].stream = s}}

LEMMA PartsOfIs == \A s : PartsOf(s) = PartsFor(input.packets, own.lost, taken, own.left, s)
  BY DEF PartsOf, PartsFor, PartsDone, Done

LEMMA InPartsFor ==
  ASSUME NEW ps, NEW L, NEW m, NEW left, NEW s, NEW x
  PROVE  x \in PartsFor(ps, L, m, left, s) <=>
           \E k \in 1..m : ps[k].stream = s /\ \E p \in 0..(Done(ps, L, m, left, k) - 1) : x = <<k, p>>
  BY DEF PartsFor

\* Of the packet read last, a part more is decoded or lost, or it is none that counts.
LEMMA PartsStay ==
  ASSUME NEW ps, NEW L, NEW N, NEW m, NEW l1, NEW l2, NEW s,
         \A k \in 1..m : k = m => ps[k].stream # s \/ ~IsKept(ps[k]),
         \A k \in 1..m : k # m => L[k] = N[k]
  PROVE  PartsFor(ps, L, m, l1, s) = PartsFor(ps, N, m, l2, s)
<1>1. \A k \in 1..m : ps[k].stream = s => Done(ps, L, m, l1, k) = Done(ps, N, m, l2, k)
  BY DEF Done
<1> QED
  BY <1>1 DEF PartsFor

LEMMA PartsRead ==
  ASSUME NEW ps, NEW L, NEW m \in Nat, NEW s, \A k \in 1..(m + 1) : ps[k].parts \in Nat,
         L[m + 1] = 0, \A k \in 1..m : L[k] \in Nat
  PROVE  PartsFor(ps, L, m + 1, ps[m + 1].parts, s) = PartsFor(ps, L, m, 0, s)
<1>1. \A k \in 1..m : Done(ps, L, m + 1, ps[m + 1].parts, k) = Done(ps, L, m, 0, k)
  BY DEF Done
<1>2. Done(ps, L, m + 1, ps[m + 1].parts, m + 1) = 0
  BY DEF Done
<1>3. 1..(m + 1) = 1..m \cup {m + 1} /\ 0..(0 - 1) = {}
  OBVIOUS
<1>4. ASSUME NEW x PROVE x \in PartsFor(ps, L, m + 1, ps[m + 1].parts, s) <=> x \in PartsFor(ps, L, m, 0, s)
  BY <1>1, <1>2, <1>3, InPartsFor
<1> QED
  BY <1>4

\* Parts of the packet read last are lost instead of left.
LEMMA PartsLost ==
  ASSUME NEW ps, NEW m \in Nat \ {0}, NEW s, NEW L, L[m] = 0, NEW l \in Nat, NEW N,
         N[m] = l, \A k \in 1..m : k # m => N[k] = L[k], ps[m].parts \in Nat
  PROVE  PartsFor(ps, N, m, 0, s) = PartsFor(ps, L, m, l, s)
<1>1. \A k \in 1..m : Done(ps, N, m, 0, k) = Done(ps, L, m, l, k)
  BY DEF Done
<1> QED
  BY <1>1 DEF PartsFor

\* With a part less left of the packet read last, there is one more.
Grows(ps, L, m, l, s) ==
  PartsFor(ps, L, m, l - 1, s) = PartsFor(ps, L, m, l, s) \cup {<<m, ps[m].parts - l>>}

LEMMA PartsGrow ==
  ASSUME NEW ps, NEW L, NEW m \in Nat \ {0}, NEW s, ps[m].stream = s, IsKept(ps[m]), L[m] = 0,
         ps[m].parts \in Nat, NEW l \in 1..ps[m].parts
  PROVE  Grows(ps, L, m, l, s)
<1>0. PICK n \in Nat : n = ps[m].parts /\ l \in 1..n
  OBVIOUS
<1>1. \A k \in 1..m : k # m => Done(ps, L, m, l - 1, k) = Done(ps, L, m, l, k)
  BY <1>0 DEF Done
<1>2. Done(ps, L, m, l - 1, m) - 1 = n - l /\ Done(ps, L, m, l, m) - 1 = n - l - 1
  BY <1>0 DEF Done
<1>3. m \in 1..m /\ 0..(n - l) = 0..(n - l - 1) \cup {n - l}
  BY <1>0
<1>4. ASSUME NEW x PROVE x \in PartsFor(ps, L, m, l - 1, s) <=>
                           x \in PartsFor(ps, L, m, l, s) \/ x = <<m, n - l>>
  <2>1. ASSUME x \in PartsFor(ps, L, m, l - 1, s) PROVE x \in PartsFor(ps, L, m, l, s) \/ x = <<m, n - l>>
    <3>1. PICK k \in 1..m : ps[k].stream = s /\ \E p \in 0..(Done(ps, L, m, l - 1, k) - 1) : x = <<k, p>>
      BY <2>1, InPartsFor
    <3>2. CASE k # m
      BY <1>1, <3>1, <3>2, InPartsFor
    <3>3. CASE k = m
      <4>1. PICK p \in 0..(n - l) : x = <<m, p>>
        BY <1>2, <3>1, <3>3
      <4>2. CASE p = n - l
        BY <4>1, <4>2
      <4>3. CASE p # n - l
        <5>1. p \in 0..(Done(ps, L, m, l, m) - 1)
          BY <1>2, <1>3, <4>1, <4>3
        <5> QED
          BY <1>3, <4>1, <5>1, InPartsFor
      <4> QED
        BY <4>2, <4>3
    <3> QED
      BY <3>2, <3>3
  <2>2. ASSUME x \in PartsFor(ps, L, m, l, s) PROVE x \in PartsFor(ps, L, m, l - 1, s)
    <3>1. PICK k \in 1..m : ps[k].stream = s /\ \E p \in 0..(Done(ps, L, m, l, k) - 1) : x = <<k, p>>
      BY <2>2, InPartsFor
    <3>2. 0..(Done(ps, L, m, l, k) - 1) \subseteq 0..(Done(ps, L, m, l - 1, k) - 1)
      <4>1. CASE k = m
        BY <1>2, <1>3, <4>1
      <4>2. CASE k # m
        BY <1>1, <4>2
      <4> QED
        BY <4>1, <4>2
    <3>3. \E p \in 0..(Done(ps, L, m, l - 1, k) - 1) : x = <<k, p>>
      BY <3>1, <3>2
    <3> QED
      BY <3>1, <3>3, InPartsFor
  <2>3. <<m, n - l>> \in PartsFor(ps, L, m, l - 1, s)
    <3>1. n - l \in 0..(Done(ps, L, m, l - 1, m) - 1)
      BY <1>2, <1>3
    <3> QED
      BY <1>3, <3>1, InPartsFor
  <2> QED
    BY <2>1, <2>2, <2>3
<1> QED
  BY <1>0, <1>4 DEF Grows

-----------------------------------------------------------------------------
(* Demuxing and decoding: the inductive invariant. *)

Parts == [stream : {"video", "audio", "other"}, parts : Nat \ {0},
          quality : Qualities]

\* The frame f was decoded before what the decoder is given next.
Reached(f) ==
  /\ f.n \in 1..taken
  /\ f.n = taken /\ tpc = "decode" => f.part < input.packets[taken].parts - own.left

\* What the program has made of stream s.
StreamFine(s) ==
  /\ inside[s] \in Seq(FrameOf(s))
  /\ Complete(Frames(s), PartsOf(s))
  /\ \A i \in DOMAIN Frames(s) : Reached(Frames(s)[i])

DdOwn ==
  [opened : SUBSET Kinds, left : Nat, ret : BOOLEAN,
   index : {"video", "audio", "other", "none"} \cup {input.first},
   lost : [1..Len(input.packets) -> Nat]]

\* In w is a frame, of packet k or before, that could not be resampled.
Excuses(w, k) == \E i \in DOMAIN w : w[i].quality = "odd" /\ w[i].n <= k

\* Parts of packet k are lost behind the first one, for a frame in w.
Excused(L, w, k) ==
  IsKept(input.packets[k]) /\ L[k] > 0 => L[k] < input.packets[k].parts /\ Excuses(w, k)

LostFine ==
  /\ \A k \in 1..Len(input.packets) :
       /\ k > taken => own.lost[k] = 0
       /\ Excused(own.lost, out["audio"], k)
  /\ tpc = "decode" => own.lost[taken] = 0

DdTypeOK ==
  /\ program = "demux_decode"
  /\ input \in DdFiles /\ taken \in 0..Len(input.packets)
  /\ tpc \in {"open", "loop", "decode", "flush", "ended"}
  /\ own \in DdOwn
  /\ out \in [Kinds -> Seq(FrameOf("video") \cup FrameOf("audio"))]
  /\ \A s \in Kinds : out[s] \in Seq(FrameOf(s))

DdInv ==
  /\ DdTypeOK
  /\ tpc = "open" => own.opened = {} /\ taken = 0
  /\ tpc = "open" => out = [s \in Kinds |-> <<>>]
  /\ tpc = "decode" =>
       /\ taken \in 1..Len(input.packets) /\ own.index = input.packets[taken].stream
       /\ own.left \in 1..input.packets[taken].parts
  /\ tpc \notin {"decode", "ended"} => own.left = 0
  /\ own.opened # {} => inside \in [own.opened -> UNION {Seq(FrameOf(s)) : s \in Kinds}]
  /\ \A s \in own.opened : StreamFine(s)
  /\ LostFine
  /\ tpc = "ended" /\ code # Crashed /\ own.index \in own.opened => Held = <<>>

LEMMA FilePackets ==
  ASSUME NEW f \in DdFiles
  PROVE  /\ f.packets \in Seq(Parts) /\ Len(f.packets) \in Nat
         /\ \A i \in 1..Len(f.packets) :
              /\ f.packets[i] \in Parts
              /\ f.packets[i].parts \in Nat \ {0}
              /\ f.packets[i].stream = "video" => f.packets[i].parts = 1
              /\ f.packets[i].quality = "resized" => f.packets[i].stream = "video"
              /\ f.packets[i].quality \in {"odd", "mono"} => f.packets[i].stream = "audio"
<1>1. f.packets \in Seq(Parts)
  BY DemuxDecodeAssumption DEF Parts
<1>2. Len(f.packets) \in Nat /\ DOMAIN f.packets = 1..Len(f.packets)
  BY <1>1
<1>3. \A i \in 1..Len(f.packets) : f.packets[i] \in Parts
  BY <1>1, ElementOfSeq
<1>4. \A i \in 1..Len(f.packets) : f.packets[i].parts \in Nat \ {0}
  BY <1>3 DEF Parts
<1> QED
  BY <1>1, <1>2, <1>3, <1>4, DemuxDecodeAssumption

LEMMA DdInitInv == DdInit => DdInv
<1> SUFFICES ASSUME DdInit PROVE DdInv
  OBVIOUS
<1>1. /\ program = "demux_decode" /\ tpc = "open" /\ input \in DdFiles /\ taken = 0
      /\ out = [o \in Kinds |-> <<>>]
      /\ own = [opened |-> {}, left |-> 0, ret |-> FALSE, index |-> "none",
                lost |-> [k \in DOMAIN input.packets |-> 0]]
  BY DEF DdInit, ToolInit, Kinds
<1>2. taken \in 0..Len(input.packets)
  BY <1>1, FilePackets
<1>3. out \in [Kinds -> Seq(FrameOf("video") \cup FrameOf("audio"))]
      /\ \A s \in Kinds : out[s] \in Seq(FrameOf(s))
  BY <1>1, EmptySeq
<1>4. DOMAIN input.packets = 1..Len(input.packets)
  BY <1>1, FilePackets
<1>5. own \in DdOwn /\ \A k \in 1..Len(input.packets) : own.lost[k] = 0
  BY <1>1, <1>4 DEF DdOwn
<1>6. LostFine
  BY <1>1, <1>5 DEF LostFine, Excused
<1> QED
  BY <1>1, <1>2, <1>3, <1>5, <1>6 DEF DdInv, DdTypeOK

LEMMA OpenedKinds ==
  ASSUME DdInv
  PROVE  /\ own.opened \subseteq Kinds /\ own.left \in Nat /\ own.ret \in BOOLEAN
         /\ own.lost \in [1..Len(input.packets) -> Nat]
  BY DEF DdInv, DdTypeOK, DdOwn

\* What stays true of a stream while neither its decoder nor its file is touched and no
\* part of it is decoded.
LEMMA StreamStays ==
  ASSUME DdInv, NEW s \in own.opened,
         inside'[s] = inside[s], out'[s] = out[s], input' = input,
         PartsOf(s)' = PartsOf(s),
         \A f \in FrameOf(s) : Reached(f) => Reached(f)'
  PROVE  StreamFine(s)'
<1>1. StreamFine(s) /\ out[s] \in Seq(FrameOf(s))
  BY OpenedKinds DEF DdInv, DdTypeOK
<1>2. Frames(s)' = Frames(s)
  BY DEF Frames
<1>3. \A i \in DOMAIN Frames(s) : Frames(s)[i] \in FrameOf(s)
  <2>1. out[s] \o inside[s] \in Seq(FrameOf(s))
    BY <1>1, ConcatProperties DEF StreamFine
  <2>2. Frames(s) \in Seq(FrameOf(s)) /\ DOMAIN Frames(s) = 1..Len(Frames(s))
    BY <2>1 DEF Frames
  <2> QED
    BY <2>2, ElementOfSeq
<1>4. \A i \in DOMAIN Frames(s)' : Reached(Frames(s)[i])'
  BY <1>1, <1>2, <1>3 DEF StreamFine
<1> QED
  BY <1>1, <1>2, <1>4 DEF StreamFine

\* A frame that comes with the packet read last, or before it.
Due(f) ==
  /\ f.n \in 1..taken
  /\ f.n = taken /\ tpc = "decode" => f.part <= input.packets[taken].parts - own.left

\* What is known of a stream with a decoder while a packet is decoded.
LEMMA StreamParts ==
  ASSUME DdInv, NEW s \in own.opened
  PROVE  /\ s \in Kinds /\ out[s] \in Seq(FrameOf(s)) /\ inside[s] \in Seq(FrameOf(s))
         /\ Frames(s) = out[s] \o inside[s] /\ Frames(s) \in Seq(FrameOf(s))
         /\ Complete(Frames(s), PartsFor(input.packets, own.lost, taken, own.left, s))
         /\ inside \in [own.opened -> UNION {Seq(FrameOf(x)) : x \in Kinds}]
<1>1. s \in Kinds
  BY OpenedKinds
<1>2. out[s] \in Seq(FrameOf(s)) /\ inside[s] \in Seq(FrameOf(s))
  BY <1>1 DEF DdInv, DdTypeOK, StreamFine
<1>3. Frames(s) = out[s] \o inside[s]
  BY DEF Frames
<1>4. Frames(s) \in Seq(FrameOf(s))
  BY <1>2, <1>3, ConcatProperties
<1>5. Complete(Frames(s), PartsFor(input.packets, own.lost, taken, own.left, s))
  BY PartsOfIs DEF DdInv, StreamFine
<1> QED
  BY <1>1, <1>2, <1>3, <1>4, <1>5 DEF DdInv

LEMMA PacketParts ==
  ASSUME DdInv, tpc = "decode"
  PROVE  /\ input \in DdFiles /\ taken \in Nat \ {0} /\ taken \in 1..Len(input.packets)
         /\ own.index = pkt.stream /\ pkt = input.packets[taken] /\ pkt \in Parts
         /\ pkt.parts \in Nat \ {0} /\ own.left \in 1..pkt.parts
         /\ pkt.stream = "video" => pkt.parts = 1
         /\ pkt.quality = "resized" => pkt.stream = "video"
         /\ pkt.quality \in {"odd", "mono"} => pkt.stream = "audio"
         /\ own.lost \in [1..Len(input.packets) -> Nat] /\ own.lost[taken] = 0
<1>1. input \in DdFiles /\ taken \in 1..Len(input.packets)
  BY DEF DdInv, DdTypeOK
<1>2. Len(input.packets) \in Nat
  BY <1>1, FilePackets
<1>3. taken \in Nat \ {0}
  BY <1>1, <1>2
<1>4. own.lost \in [1..Len(input.packets) -> Nat] /\ own.lost[taken] = 0
  BY DEF DdInv, DdTypeOK, DdOwn, LostFine
<1> QED
  BY <1>1, <1>3, <1>4, FilePackets DEF DdInv, pkt

\* The decoder of the packet's stream takes a frame.
LEMMA TakesFrame ==
  ASSUME DdInv, NEW s, s = own.index, Decoding(Decodable), NEW f, f = out[s] \o Taken
  PROVE  /\ Taken \in Seq(FrameOf(s)) /\ Taken # <<>> /\ f \in Seq(FrameOf(s))
         /\ Complete(f, PartsFor(input.packets, own.lost, taken, own.left - 1, s))
         /\ \A i \in DOMAIN f : Due(f[i])
<1> DEFINE x == FrameHere
           g == Frames(s)
           n == pkt.parts
           l == own.left
<1>1. tpc = "decode" /\ s \in own.opened /\ pkt.quality \in Decodable
  BY DEF Decoding
<1>2. /\ input \in DdFiles /\ taken \in Nat \ {0} /\ taken \in 1..Len(input.packets)
      /\ s = pkt.stream /\ pkt = input.packets[taken]
      /\ n \in Nat \ {0} /\ l \in 1..n
      /\ pkt.stream = "video" => n = 1
      /\ pkt.quality = "resized" => pkt.stream = "video"
      /\ pkt.quality \in {"odd", "mono"} => pkt.stream = "audio"
      /\ own.lost[taken] = 0
  BY <1>1, PacketParts
<1>3. /\ out[s] \in Seq(FrameOf(s)) /\ inside[s] \in Seq(FrameOf(s))
      /\ g = out[s] \o inside[s] /\ g \in Seq(FrameOf(s))
      /\ Complete(g, PartsFor(input.packets, own.lost, taken, l, s))
  BY <1>1, StreamParts
<1>4. x = [stream |-> s, n |-> taken, part |-> n - l, quality |-> pkt.quality] /\ n - l \in Nat
  BY <1>2 DEF FrameHere
<1>5. x \in FrameOf(s)
  BY <1>1, <1>2, <1>4 DEF FrameOf
<1>6. Taken = Append(inside[s], x)
  BY DEF Taken, Held
<1>7. /\ f = Append(g, x) /\ Taken \in Seq(FrameOf(s)) /\ Taken # <<>> /\ f \in Seq(FrameOf(s))
      /\ Len(g) \in Nat /\ DOMAIN g = 1..Len(g) /\ DOMAIN f = 1..(Len(g) + 1)
      /\ f[Len(g) + 1] = x /\ \A i \in 1..Len(g) : f[i] = g[i]
  <2> HIDE DEF x, g
  <2>1. PICK o, q, r : o = out[s] /\ q = inside[s] /\ r = Taken
    OBVIOUS
  <2>2. o \in Seq(FrameOf(s)) /\ q \in Seq(FrameOf(s)) /\ r = Append(q, x) /\ g = o \o q /\ f = o \o r
    BY <1>3, <1>6, <2>1
  <2>3. x \in FrameOf(s)
    BY <1>5
  <2>4. f = Append(g, x) /\ r \in Seq(FrameOf(s)) /\ r # <<>> /\ f \in Seq(FrameOf(s))
    BY <2>2, <2>3, TakesNext
  <2>5. Len(g) \in Nat /\ DOMAIN g = 1..Len(g) /\ DOMAIN f = 1..(Len(g) + 1)
    BY <2>2, <2>3, TakesNext
  <2>6. f[Len(g) + 1] = x
    BY <2>2, <2>3, TakesNext
  <2>7. \A i \in 1..Len(g) : f[i] = g[i]
    BY <2>2, <2>3, TakesNext
  <2> QED
    BY <2>1, <2>4, <2>5, <2>6, <2>7
<1>8. \A i \in DOMAIN g : g[i].n \in 1..taken /\ (g[i].n = taken => g[i].part < n - l)
  BY <1>1, <1>2 DEF DdInv, StreamFine, Reached
<1>9. \A i \in DOMAIN g : Before(g[i], x)
  <2> TAKE i \in DOMAIN g
  <2>1. g[i].n \in 1..taken /\ (g[i].n = taken => g[i].part < n - l)
    BY <1>8
  <2>2. x.n = taken /\ x.part = n - l
    BY <1>4
  <2> HIDE DEF x, g, n, l
  <2> QED
    BY <1>2, <2>1, <2>2 DEF Before
<1>10. \A i \in DOMAIN g : g[i].part \in Nat
  <2>1. DOMAIN g = 1..Len(g)
    BY <1>3
  <2>2. \A i \in DOMAIN g : g[i] \in FrameOf(s)
    BY <1>3, <2>1, ElementOfSeq
  <2> QED
    BY <2>2 DEF FrameOf
<1> HIDE DEF x, g, n, l
<1>11. Taken \in Seq(FrameOf(s)) /\ Taken # <<>> /\ f \in Seq(FrameOf(s))
  BY <1>7
<1>12. Complete(f, PartsFor(input.packets, own.lost, taken, l - 1, s))
  <2>1. Complete(f, IF IsKept(x) THEN PartsFor(input.packets, own.lost, taken, l, s) \cup {<<x.n, x.part>>}
                    ELSE PartsFor(input.packets, own.lost, taken, l, s))
    <3>1. PICK Q : Q = PartsFor(input.packets, own.lost, taken, l, s)
      OBVIOUS
    <3>2. Complete(g, Q) /\ g \in Seq(FrameOf(s)) /\ x \in FrameOf(s)
      BY <1>3, <1>5, <3>1
    <3>3. Complete(Append(g, x), IF IsKept(x) THEN Q \cup {<<x.n, x.part>>} ELSE Q)
      BY <1>9, <3>2, CompleteAppend
    <3> QED
      BY <1>7, <3>1, <3>3
  <2>2. CASE IsKept(pkt)
    <3>1. PartsFor(input.packets, own.lost, taken, l - 1, s)
            = PartsFor(input.packets, own.lost, taken, l, s) \cup {<<taken, n - l>>}
      <4>0. PICK ps, L : ps = input.packets /\ L = own.lost
        OBVIOUS
      <4>1. PICK m \in Nat \ {0}, c \in Nat : m = taken /\ c = n
        BY <1>2
      <4>5. PICK d \in 1..c : d = l
        BY <1>2, <4>1
      <4>2. ps[m] = pkt /\ pkt.parts = c
        BY <1>2, <4>0, <4>1 DEF n
      <4>3. ps[m].stream = s
        BY <1>2, <4>0, <4>1, <4>2
      <4>4. IsKept(ps[m])
        BY <1>2, <2>2, <4>0, <4>1, <4>2
      <4>6. L[m] = 0
        BY <1>2, <4>0, <4>1
      <4>7. ps[m].parts = c
        BY <4>2
      <4>8. PartsFor(ps, L, m, d - 1, s) = PartsFor(ps, L, m, d, s) \cup {<<m, c - d>>}
        <5>1. ps[m].parts \in Nat /\ d \in 1..ps[m].parts
          BY <4>7
        <5>2. Grows(ps, L, m, d, s)
          BY <4>3, <4>4, <4>6, <5>1, PartsGrow, ZenonT(30)
        <5> QED
          BY <4>7, <5>2 DEF Grows
      <4> QED
        BY <4>0, <4>1, <4>5, <4>8
    <3>2. IsKept(x) /\ x.n = taken /\ x.part = n - l
      BY <1>4, <2>2 DEF IsKept
    <3> QED
      BY <2>1, <3>1, <3>2
  <2>3. CASE ~IsKept(pkt)
    <3>1. PartsFor(input.packets, own.lost, taken, l - 1, s) = PartsFor(input.packets, own.lost, taken, l, s)
      BY <1>2, <2>3, PartsStay
    <3>2. ~IsKept(x)
      BY <1>4, <2>3 DEF IsKept
    <3> QED
      BY <2>1, <3>1, <3>2
  <2> QED
    BY <2>2, <2>3
<1>13. \A i \in DOMAIN f : Due(f[i])
  <2> TAKE i \in DOMAIN f
  <2>1. /\ Len(g) \in Nat /\ DOMAIN g = 1..Len(g) /\ DOMAIN f = 1..(Len(g) + 1)
        /\ f[Len(g) + 1] = x /\ \A j \in 1..Len(g) : f[j] = g[j]
    BY <1>7
  <2>2. CASE i = Len(g) + 1
    <3>1. f[i] = x
      BY <2>1, <2>2
    <3>2. f[i].n = taken /\ f[i].part = n - l
      BY <1>4, <3>1
    <3>3. n - l <= n - l /\ taken \in 1..taken
      BY <1>2, <1>4
    <3> QED
      BY <1>2, <3>2, <3>3 DEF Due, n, l
  <2>3. CASE i \in 1..Len(g)
    <3>1. g[i].n \in 1..taken /\ (g[i].n = taken => g[i].part <= n - l)
      BY <1>4, <1>8, <1>10, <2>1, <2>3
    <3> QED
      BY <1>2, <2>1, <2>3, <3>1 DEF Due, n, l
  <2> QED
    BY <2>1, <2>2, <2>3
<1> QED
  BY <1>11, <1>12, <1>13 DEF l

\* Of the frames q it holds, a decoder gives out the oldest, which is written or dropped.
LEMMA GivesOne ==
  ASSUME DdInv, NEW s \in own.opened, s = own.index,
         NEW q \in Seq(FrameOf(s)), q # <<>>, NEW f, f = out[s] \o q,
         NEW P, Complete(f, P), DdGives(q)
  PROVE  /\ Complete(Frames(s)', P) /\ inside'[s] \in Seq(FrameOf(s)) /\ out'[s] \in Seq(FrameOf(s))
         /\ inside' = [inside EXCEPT ![s] = Tail(q)]
         /\ out' = out \/ (Head(q) \in FrameOf(s) /\ out' = [out EXCEPT ![s] = Append(@, Head(q))])
         /\ ElementsIn(Frames(s)', f)
         /\ \E i \in DOMAIN f : f[i] = Head(q)
         /\ Head(q).quality # "resized" => out' = [out EXCEPT ![s] = Append(@, Head(q))]
<1>1. s \in Kinds /\ out[s] \in Seq(FrameOf(s)) /\ DOMAIN inside = own.opened /\ DOMAIN out = Kinds
  BY StreamParts DEF DdInv, DdTypeOK
<1>2. inside' = [inside EXCEPT ![s] = Tail(q)] /\ inside'[s] = Tail(q)
  BY <1>1 DEF DdGives
<1>3. PICK o, h, t : o = out[s] /\ h = Head(q) /\ t = Tail(q)
  OBVIOUS
<1>4. /\ t \in Seq(FrameOf(s)) /\ h \in FrameOf(s) /\ f = o \o q
      /\ Append(o, h) \in Seq(FrameOf(s)) /\ Append(o, h) \o t = f
  <2>1. o \in Seq(FrameOf(s)) /\ f = o \o q
    BY <1>1, <1>3
  <2>2. h \in FrameOf(s) /\ t \in Seq(FrameOf(s))
    BY <1>3, <2>1, GivesFirst
  <2>3. Append(o, h) \in Seq(FrameOf(s))
    BY <2>1, <2>2, AppendProperties
  <2>4. Append(o, h) \o t = o \o q
    BY <1>3, <2>1, GivesFirst
  <2> QED
    BY <2>1, <2>2, <2>3, <2>4
<1>5. Frames(s)' = out'[s] \o t
  BY <1>2, <1>3 DEF Frames
<1>6. /\ Complete(Frames(s)', P) /\ inside'[s] \in Seq(FrameOf(s)) /\ out'[s] \in Seq(FrameOf(s))
      /\ inside' = [inside EXCEPT ![s] = Tail(q)]
      /\ out' = out \/ (Head(q) \in FrameOf(s) /\ out' = [out EXCEPT ![s] = Append(@, Head(q))])
      /\ ElementsIn(Frames(s)', f)
  <2>1. CASE h.quality = "resized"
    <3>1. out' = out
      BY <1>3, <2>1 DEF DdGives
    <3>2. PICK g : g = o \o t
      OBVIOUS
    <3>3. ~IsKept(Head(q)) /\ o \in Seq(FrameOf(s)) /\ g = o \o Tail(q)
      BY <1>1, <1>3, <2>1, <3>2 DEF IsKept
    <3>4. Complete(g, P) /\ ElementsIn(g, f)
      <4>1. f = o \o q /\ Complete(f, P)
        BY <1>4
      <4>2. Complete(g, P)
        BY <3>3, <4>1, CompleteDrop
      <4>3. ElementsIn(g, f)
        BY <3>3, <4>1, CompleteDrop
      <4> QED
        BY <4>2, <4>3
    <3>5. Frames(s)' = g
      BY <1>3, <1>5, <3>1, <3>2
    <3> QED
      BY <1>1, <1>2, <1>3, <1>4, <3>1, <3>4, <3>5
  <2>2. CASE h.quality # "resized"
    <3>1. out' = [out EXCEPT ![s] = Append(@, h)] /\ out'[s] = Append(o, h)
      BY <1>1, <1>3, <2>2 DEF DdGives
    <3>2. Frames(s)' = f
      BY <1>4, <1>5, <3>1
    <3>3. ElementsIn(f, f)
      BY DEF ElementsIn
    <3> QED
      BY <1>2, <1>3, <1>4, <3>1, <3>2, <3>3
  <2> QED
    BY <2>1, <2>2
<1>7. \E i \in DOMAIN f : f[i] = Head(q)
  <2>1. o \in Seq(FrameOf(s)) /\ f = o \o q
    BY <1>1, <1>3
  <2>2. h = Head(q) /\ q \in Seq(FrameOf(s)) /\ q # <<>>
    BY <1>3
  <2>3. \E i \in DOMAIN (o \o q) : (o \o q)[i] = Head(q)
    BY <2>1, <2>2, FirstIsIn
  <2> QED
    BY <2>1, <2>3
<1>8. Head(q).quality # "resized" => out' = [out EXCEPT ![s] = Append(@, Head(q))]
  BY <1>1 DEF DdGives
<1> QED
  BY <1>6, <1>7, <1>8

-----------------------------------------------------------------------------
(* Demuxing and decoding: the steps keep the invariant. *)

LEMMA ReachedLater ==
  ASSUME DdInv, input' = input, taken' = taken,
         tpc' # "decode" \/ (tpc = "decode" /\ own'.left \in Nat /\ own'.left <= own.left),
         NEW s, NEW f \in FrameOf(s), Reached(f)
  PROVE  Reached(f)'
<1>1. CASE tpc' # "decode"
  BY <1>1 DEF Reached
<1>2. CASE tpc = "decode" /\ own'.left \in Nat /\ own'.left <= own.left
  <2>1. pkt = input.packets[taken] /\ pkt.parts \in Nat /\ own.left \in Nat
    BY <1>2, PacketParts DEF DdInv, DdTypeOK
  <2>2. f.part \in Nat
    BY DEF FrameOf
  <2>3. f.n = taken => f.part < pkt.parts - own'.left
    <3>1. f.n = taken => f.part < pkt.parts - own.left
      BY <1>2, <2>1 DEF Reached
    <3> QED
      BY <1>2, <2>1, <2>2, <3>1
  <2> QED
    BY <2>1, <2>3 DEF Reached
<1> QED
  BY <1>1, <1>2

LEMMA StreamsStay ==
  ASSUME DdInv, UNCHANGED <<input, out, inside>>, own'.opened = own.opened,
         \A s \in own.opened : PartsOf(s)' = PartsOf(s),
         \A s \in own.opened : \A f \in FrameOf(s) : Reached(f) => Reached(f)'
  PROVE  \A s \in own'.opened : StreamFine(s)'
<1> SUFFICES ASSUME NEW s \in own.opened PROVE StreamFine(s)'
  OBVIOUS
<1> QED
  BY StreamStays

LEMMA StreamMoves ==
  ASSUME DdInv, NEW s \in own.opened, input' = input, taken' = taken, own'.left \in Nat,
         NEW g \in Seq(FrameOf(s)), g = Frames(s)', inside'[s] \in Seq(FrameOf(s)),
         Complete(g, PartsFor(input.packets, own'.lost, taken, own'.left, s)),
         \A i \in DOMAIN g : Due(g[i]),
         tpc' # "decode" \/ (tpc = "decode" /\ own'.left < own.left)
  PROVE  StreamFine(s)'
<1>1. PartsOf(s)' = PartsFor(input.packets, own'.lost, taken, own'.left, s)
  BY DEF PartsOf, PartsFor, PartsDone, Done
<1>2. Complete(g, PartsOf(s)')
  BY <1>1
<1>3. DOMAIN g = 1..Len(g)
  OBVIOUS
<1>4. ASSUME NEW i \in DOMAIN g PROVE Reached(g[i])'
  <2>1. PICK f \in FrameOf(s) : f = g[i]
    BY <1>3, <1>4, ElementOfSeq
  <2>2. f.part \in Nat /\ Due(f)
    BY <2>1 DEF FrameOf
  <2>3. CASE tpc' # "decode"
    BY <2>1, <2>2, <2>3 DEF Due, Reached
  <2>4. CASE tpc = "decode" /\ own'.left < own.left
    <3>1. pkt = input.packets[taken] /\ pkt.parts \in Nat /\ own.left \in Nat
      BY <2>4, PacketParts DEF DdInv, DdTypeOK
    <3>2. f.n = taken => f.part < pkt.parts - own'.left
      <4>1. f.n = taken => f.part <= pkt.parts - own.left
        BY <2>2, <2>4, <3>1 DEF Due
      <4> QED
        BY <2>2, <2>4, <3>1, <4>1
    <3>3. Reached(f)'
      BY <2>2, <3>1, <3>2 DEF Due, Reached
    <3> QED
      BY <2>1, <3>3
  <2> QED
    BY <2>3, <2>4
<1> QED
  BY <1>2, <1>4 DEF StreamFine

\* The streams that nothing is decoded for.
LEMMA OthersStay ==
  ASSUME DdInv, NEW s \in own.opened, s # own.index \/ ~IsKept(pkt), tpc = "decode",
         \A k \in 1..taken : k # taken => own'.lost[k] = own.lost[k],
         inside'[s] = inside[s], out'[s] = out[s], input' = input, taken' = taken,
         tpc' # "decode" \/ (own'.left \in Nat /\ own'.left <= own.left)
  PROVE  StreamFine(s)'
<1>1. PartsOf(s)' = PartsFor(input.packets, own'.lost, taken, own'.left, s)
  BY DEF PartsOf, PartsFor, PartsDone, Done
<1>2. PartsFor(input.packets, own'.lost, taken, own'.left, s) = PartsFor(input.packets, own.lost, taken, own.left, s)
  <2>1. input.packets[taken].stream # s \/ ~IsKept(input.packets[taken])
    BY PacketParts
  <2>2. PICK ps, L, N, l1, l2 : /\ ps = input.packets /\ L = own'.lost /\ N = own.lost
                                /\ l1 = own'.left /\ l2 = own.left
    OBVIOUS
  <2>3. \A k \in 1..taken : k = taken => ps[k].stream # s \/ ~IsKept(ps[k])
    BY <2>1, <2>2
  <2>4. \A k \in 1..taken : k # taken => L[k] = N[k]
    BY <2>2
  <2>5. PartsFor(ps, L, taken, l1, s) = PartsFor(ps, N, taken, l2, s)
    BY <2>3, <2>4, PartsStay
  <2> QED
    BY <2>2, <2>5
<1>3. PartsOf(s)' = PartsOf(s)
  BY <1>1, <1>2, PartsOfIs
<1>4. \A f \in FrameOf(s) : Reached(f) => Reached(f)'
  BY ReachedLater
<1> QED
  BY <1>3, <1>4, StreamStays

\* The two streams' files and decoders keep their types when one frame goes on.
LEMMA MoveTypes ==
  ASSUME DdInv, NEW s \in own.opened, NEW t \in Seq(FrameOf(s)), NEW h \in FrameOf(s),
         inside' = [inside EXCEPT ![s] = t],
         out' = out \/ out' = [out EXCEPT ![s] = Append(@, h)]
  PROVE  /\ inside' \in [own.opened -> UNION {Seq(FrameOf(x)) : x \in Kinds}]
         /\ inside'[s] = t
         /\ out' \in [Kinds -> Seq(FrameOf("video") \cup FrameOf("audio"))]
         /\ \A x \in Kinds : out'[x] \in Seq(FrameOf(x))
         /\ \A x \in own.opened : x # s => inside'[x] = inside[x] /\ out'[x] = out[x]
<1>1. s \in Kinds /\ inside \in [own.opened -> UNION {Seq(FrameOf(x)) : x \in Kinds}]
      /\ own.opened \subseteq Kinds
  BY StreamParts, OpenedKinds
<1>2. /\ out \in [Kinds -> Seq(FrameOf("video") \cup FrameOf("audio"))]
      /\ \A x \in Kinds : out[x] \in Seq(FrameOf(x))
  BY DEF DdInv, DdTypeOK
<1>3. t \in UNION {Seq(FrameOf(x)) : x \in Kinds}
  BY <1>1
<1>4. Append(out[s], h) \in Seq(FrameOf(s))
  BY <1>1, <1>2, AppendProperties
<1>5. Append(out[s], h) \in Seq(FrameOf("video") \cup FrameOf("audio"))
  <2>1. h \in FrameOf("video") \cup FrameOf("audio")
    BY <1>1 DEF Kinds
  <2>2. out[s] \in Seq(FrameOf("video") \cup FrameOf("audio"))
    BY <1>1, <1>2
  <2> QED
    BY <2>1, <2>2, AppendProperties
<1>6. /\ inside' \in [own.opened -> UNION {Seq(FrameOf(x)) : x \in Kinds}] /\ inside'[s] = t
      /\ \A x \in own.opened : x # s => inside'[x] = inside[x]
  BY <1>1, <1>3
<1>7. CASE out' = out
  BY <1>2, <1>6, <1>7
<1>8. CASE out' = [out EXCEPT ![s] = Append(@, h)]
  <2>1. out' \in [Kinds -> Seq(FrameOf("video") \cup FrameOf("audio"))]
    BY <1>1, <1>2, <1>5, <1>8
  <2>2. out'[s] = Append(out[s], h) /\ \A x \in Kinds : x # s => out'[x] = out[x]
    BY <1>1, <1>2, <1>8
  <2>3. \A x \in Kinds : out'[x] \in Seq(FrameOf(x))
    BY <1>1, <1>2, <1>4, <2>2
  <2> QED
    BY <1>1, <1>6, <2>1, <2>2, <2>3
<1> QED
  BY <1>7, <1>8

\* A frame that cannot be resampled stays written.
LEMMA ExcusesGrow ==
  ASSUME NEW S, NEW w \in Seq(S), NEW h \in S, NEW g, g = Append(w, h),
         NEW k, Excuses(w, k) \/ (h.quality = "odd" /\ h.n <= k)
  PROVE  Excuses(g, k)
<1>1. /\ Len(w) \in Nat /\ DOMAIN w = 1..Len(w) /\ DOMAIN g = 1..Len(g) /\ Len(g) = Len(w) + 1
      /\ g[Len(w) + 1] = h /\ \A i \in 1..Len(w) : g[i] = w[i]
  BY AppendProperties
<1>2. CASE Excuses(w, k)
  BY <1>1, <1>2 DEF Excuses
<1>3. CASE h.quality = "odd" /\ h.n <= k
  <2>1. Len(w) + 1 \in DOMAIN g
    BY <1>1
  <2> QED
    BY <1>1, <1>3, <2>1 DEF Excuses
<1> QED
  BY <1>2, <1>3

\* No part more is lost, or those of the packet read last, and there is an excuse.
LEMMA LostStays ==
  ASSUME DdInv, input' = input, taken' = taken, NEW e, own'.lost = e, NEW g, g = out'["audio"],
         g = out["audio"] \/ \E h \in FrameOf("audio") : g = Append(out["audio"], h),
         \/ e = own.lost /\ (tpc' = "decode" => tpc = "decode")
         \/ /\ tpc' # "decode" /\ taken \in 1..Len(input.packets) /\ Excused(e, g, taken)
            /\ \A k \in 1..Len(input.packets) : k # taken => e[k] = own.lost[k]
  PROVE  LostFine'
<1>1. LostFine /\ out["audio"] \in Seq(FrameOf("audio")) /\ taken \in Nat
  <2>1. taken \in 0..Len(input.packets) /\ Len(input.packets) \in Nat
    BY FilePackets DEF DdInv, DdTypeOK
  <2> QED
    BY <2>1 DEF DdInv, DdTypeOK, Kinds
<1>2. PICK w : w = out["audio"]
  OBVIOUS
<1>3. ASSUME NEW k, Excuses(w, k) PROVE Excuses(g, k)
  <2>1. w \in Seq(FrameOf("audio"))
    BY <1>1, <1>2
  <2>2. CASE g = w
    BY <1>3, <2>2
  <2>3. ASSUME NEW h \in FrameOf("audio"), g = Append(w, h) PROVE Excuses(g, k)
    BY <1>3, <2>1, <2>3, ExcusesGrow
  <2> QED
    BY <1>2, <2>2, <2>3
<1>4. ASSUME NEW k \in 1..Len(input.packets)
      PROVE  (k > taken => e[k] = 0) /\ Excused(e, g, k)
  <2>1. (k > taken => own.lost[k] = 0) /\ Excused(own.lost, g, k)
    BY <1>1, <1>2, <1>3 DEF LostFine, Excused
  <2>2. CASE k = taken
    BY <1>1, <2>1, <2>2
  <2>3. CASE k # taken
    BY <2>1, <2>3 DEF Excused
  <2> QED
    BY <2>2, <2>3
<1>5. tpc' = "decode" => e[taken] = 0
  BY <1>1 DEF LostFine
<1> QED
  BY <1>4, <1>5 DEF LostFine, Excused

\* main()'s variables once a part of the packet, or all that is left of it, is done.
LEMMA DecodeEnds ==
  ASSUME DdInv, tpc = "decode", UNCHANGED <<program, input, taken>>,
         NEW l \in 0..own.left, NEW r \in BOOLEAN, NEW e \in [1..Len(input.packets) -> Nat],
         own' = [own EXCEPT !.left = l, !.ret = r, !.lost = e], LostFine',
         (l = 0 /\ tpc' = "loop") \/ (l \in 1..own.left /\ tpc' = "decode"),
         inside' \in [own.opened -> UNION {Seq(FrameOf(x)) : x \in Kinds}] \/ inside' = inside,
         out' \in [Kinds -> Seq(FrameOf("video") \cup FrameOf("audio"))],
         \A x \in Kinds : out'[x] \in Seq(FrameOf(x)),
         \A s \in own.opened : StreamFine(s)'
  PROVE  DdInv'
<1>1. DdTypeOK /\ own.left \in Nat /\ own.left \in 1..input.packets[taken].parts
      /\ own.index = input.packets[taken].stream /\ taken \in 1..Len(input.packets)
      /\ input.packets[taken].parts \in Nat
  BY PacketParts, OpenedKinds DEF DdInv, pkt
<1>2. l \in Nat /\ own'.left = l /\ own'.opened = own.opened /\ own'.index = own.index
      /\ own' \in DdOwn
  <2>1. own \in DdOwn
    BY <1>1 DEF DdTypeOK
  <2>2. l \in Nat
    BY <1>1
  <2> QED
    BY <2>1, <2>2 DEF DdOwn
<1>3. DdTypeOK'
  <2>1. DdOwn' = DdOwn
    BY DEF DdOwn
  <2> QED
    BY <1>1, <1>2, <2>1 DEF DdTypeOK
<1>4. /\ tpc' # "open" /\ tpc' # "ended"
      /\ tpc' # "decode" => own'.left = 0
      /\ tpc' = "decode" => own'.left \in 1..input.packets[taken].parts
  BY <1>1, <1>2
<1>5. own'.opened # {} => inside' \in [own'.opened -> UNION {Seq(FrameOf(x)) : x \in Kinds}]
  BY <1>2 DEF DdInv
<1>6. \A s \in own'.opened : StreamFine(s)'
  BY <1>2
<1>7. input' = input /\ taken' = taken /\ own'.index = own.index
  BY <1>2
<1> QED
  BY <1>1, <1>3, <1>4, <1>5, <1>6, <1>7 DEF DdInv

LEMMA ConsumesOne ==
  ASSUME DdInv, tpc = "decode", Consumes(1)
  PROVE  /\ own.left - 1 \in 0..own.left /\ own.lost \in [1..Len(input.packets) -> Nat]
         /\ own' = [own EXCEPT !.left = own.left - 1, !.ret = FALSE, !.lost = own.lost]
         /\ own'.left = own.left - 1 /\ own'.left \in Nat /\ own'.left < own.left
         /\ own'.lost = own.lost
         /\ (own.left - 1 = 0 /\ tpc' = "loop") \/ (own.left - 1 \in 1..own.left /\ tpc' = "decode")
         /\ program' = program
<1>1. own.left \in Nat \ {0} /\ own \in DdOwn
  BY PacketParts, OpenedKinds DEF DdInv, DdTypeOK
<1>2. /\ own' = [own EXCEPT !.left = own.left - 1, !.ret = FALSE, !.lost = own.lost]
      /\ own.lost \in [1..Len(input.packets) -> Nat]
  BY <1>1 DEF Consumes, DdOwn
<1>3. own'.left = own.left - 1 /\ own'.lost = own.lost
  BY <1>1, <1>2 DEF DdOwn
<1>4. (own.left - 1 = 0 /\ tpc' = "loop") \/ (own.left - 1 \in 1..own.left /\ tpc' = "decode")
  BY <1>1 DEF Consumes, GoesTo
<1> QED
  BY <1>1, <1>2, <1>3, <1>4 DEF Consumes, GoesTo

LEMMA LosesPacket ==
  ASSUME DdInv, tpc = "decode", NEW n \in Nat, pktLost(n)
  PROVE  \E e \in [1..Len(input.packets) -> Nat] :
           /\ own' = [own EXCEPT !.left = 0, !.ret = TRUE, !.lost = e]
           /\ own'.left = 0 /\ own'.lost = e /\ e[taken] = n
           /\ \A k \in 1..Len(input.packets) : k # taken => e[k] = own.lost[k]
           /\ tpc' = "loop" /\ program' = program
<1>1. own \in DdOwn /\ taken \in 1..Len(input.packets)
      /\ own.lost \in [1..Len(input.packets) -> Nat]
  BY PacketParts DEF DdInv, DdTypeOK
<1>2. PICK e : e = [own.lost EXCEPT ![taken] = n]
  OBVIOUS
<1>3. /\ e \in [1..Len(input.packets) -> Nat] /\ e[taken] = n
      /\ \A k \in 1..Len(input.packets) : k # taken => e[k] = own.lost[k]
  BY <1>1, <1>2
<1>4. own' = [own EXCEPT !.left = 0, !.ret = TRUE, !.lost = e] /\ tpc' = "loop" /\ program' = program
  BY <1>1, <1>2 DEF pktLost, GoesTo, DdOwn
<1>5. own'.left = 0 /\ own'.lost = e
  BY <1>1, <1>4 DEF DdOwn
<1> QED
  BY <1>3, <1>4, <1>5

LEMMA DdHoldsKeeps == ASSUME DdInv, DdHolds PROVE DdInv'
<1>1. tpc = "decode" /\ own.index \in own.opened /\ Consumes(1)
  BY DEF DdHolds, Decoding
<1>2. PICK s, f : s = own.index /\ f = out[s] \o Taken
  OBVIOUS
<1>3. /\ Taken \in Seq(FrameOf(s)) /\ f \in Seq(FrameOf(s))
      /\ Complete(f, PartsFor(input.packets, own.lost, taken, own.left - 1, s))
      /\ \A i \in DOMAIN f : Due(f[i])
  BY <1>2, TakesFrame DEF DdHolds
<1>4. /\ inside' = [inside EXCEPT ![s] = Taken] /\ UNCHANGED <<input, taken, out>>
      /\ inside \in [own.opened -> UNION {Seq(FrameOf(x)) : x \in Kinds}] /\ s \in Kinds
  BY <1>1, <1>2, StreamParts DEF DdHolds, Taken, Held
<1>5. /\ inside' \in [own.opened -> UNION {Seq(FrameOf(x)) : x \in Kinds}] /\ inside'[s] = Taken
      /\ \A x \in own.opened : x # s => inside'[x] = inside[x]
  BY <1>1, <1>2, <1>3, <1>4
<1>6. f = Frames(s)'
  BY <1>2, <1>4, <1>5 DEF Frames
<1>7. /\ own.left - 1 \in 0..own.left /\ own.lost \in [1..Len(input.packets) -> Nat]
      /\ own' = [own EXCEPT !.left = own.left - 1, !.ret = FALSE, !.lost = own.lost]
      /\ own'.left = own.left - 1 /\ own'.left \in Nat /\ own'.left < own.left
      /\ own'.lost = own.lost
      /\ (own.left - 1 = 0 /\ tpc' = "loop") \/ (own.left - 1 \in 1..own.left /\ tpc' = "decode")
      /\ program' = program
  BY <1>1, ConsumesOne
<1>8. StreamFine(s)'
  BY <1>1, <1>2, <1>3, <1>4, <1>5, <1>6, <1>7, StreamMoves
<1>9. ASSUME NEW x \in own.opened, x # s PROVE StreamFine(x)'
  <2>1. own'.left <= own.left
    BY <1>1, <1>7, OpenedKinds
  <2> QED
    BY <1>1, <1>2, <1>4, <1>5, <1>7, <1>9, <2>1, OthersStay
<1>10. /\ out' \in [Kinds -> Seq(FrameOf("video") \cup FrameOf("audio"))]
       /\ \A x \in Kinds : out'[x] \in Seq(FrameOf(x))
  BY <1>4 DEF DdInv, DdTypeOK
<1>11. \A x \in own.opened : StreamFine(x)'
  BY <1>8, <1>9
<1>12. LostFine'
  <2>1. LostFine
    BY DEF DdInv
  <2> QED
    BY <1>1, <1>4, <1>7, <2>1 DEF LostFine, Excused
<1> QED
  BY <1>1, <1>4, <1>5, <1>7, <1>10, <1>11, <1>12, DecodeEnds

LEMMA DdFrameKeeps == ASSUME DdInv, DdFrame PROVE DdInv'
<1>1. /\ tpc = "decode" /\ own.index \in own.opened /\ DdGives(Taken)
      /\ Decoding(Decodable) /\ UNCHANGED <<input, taken>>
      /\ IF Head(Taken).quality = "good" THEN Consumes(1) ELSE pktLost(own.left - 1)
  BY DEF DdFrame, Decoding
<1>2. PICK s, f, P : /\ s = own.index /\ f = out[s] \o Taken
                     /\ P = PartsFor(input.packets, own.lost, taken, own.left - 1, s)
  OBVIOUS
<1>3. /\ Taken \in Seq(FrameOf(s)) /\ Taken # <<>> /\ f \in Seq(FrameOf(s))
      /\ Complete(f, P) /\ \A i \in DOMAIN f : Due(f[i])
  BY <1>1, <1>2, TakesFrame
<1>4. PICK q : q = Taken
  OBVIOUS
<1>5. PICK t \in Seq(FrameOf(s)), h \in FrameOf(s) : t = Tail(q) /\ h = Head(q)
  <2>1. q \in Seq(FrameOf(s)) /\ q # <<>>
    BY <1>3, <1>4
  <2> QED
    BY <2>1, EmptySeq, HeadTailProperties
<1>6. /\ Complete(Frames(s)', P) /\ inside'[s] \in Seq(FrameOf(s)) /\ out'[s] \in Seq(FrameOf(s))
      /\ inside' = [inside EXCEPT ![s] = t]
      /\ out' = out \/ out' = [out EXCEPT ![s] = Append(@, h)]
      /\ ElementsIn(Frames(s)', f) /\ \E i \in DOMAIN f : f[i] = h
      /\ h.quality # "resized" => out' = [out EXCEPT ![s] = Append(@, h)]
  <2>1. s \in own.opened /\ s = own.index /\ q \in Seq(FrameOf(s)) /\ q # <<>> /\ f = out[s] \o q
        /\ Complete(f, P) /\ DdGives(q)
    BY <1>1, <1>2, <1>3, <1>4
  <2>2. Complete(Frames(s)', P) /\ inside'[s] \in Seq(FrameOf(s)) /\ out'[s] \in Seq(FrameOf(s))
    BY <2>1, GivesOne
  <2>3. inside' = [inside EXCEPT ![s] = Tail(q)]
    BY <2>1 DEF DdGives
  <2>4. out' = out \/ out' = [out EXCEPT ![s] = Append(@, Head(q))]
    BY <2>1 DEF DdGives
  <2>5. ElementsIn(Frames(s)', f)
    BY <2>1, GivesOne
  <2>6. \E i \in DOMAIN f : f[i] = Head(q)
    <3>1. PICK o : o = out[s]
      OBVIOUS
    <3>2. o \in Seq(FrameOf(s)) /\ f = o \o q
      BY <2>1, <3>1, StreamParts
    <3>3. q \in Seq(FrameOf(s)) /\ q # <<>>
      BY <2>1
    <3>4. \E i \in DOMAIN (o \o q) : (o \o q)[i] = Head(q)
      BY <3>2, <3>3, FirstIsIn
    <3> QED
      BY <3>2, <3>4
  <2>7. Head(q).quality # "resized" => out' = [out EXCEPT ![s] = Append(@, Head(q))]
    BY <2>1, GivesOne
  <2> QED
    BY <1>5, <2>2, <2>3, <2>4, <2>5, <2>6, <2>7
<1>7. /\ inside' \in [own.opened -> UNION {Seq(FrameOf(x)) : x \in Kinds}]
      /\ out' \in [Kinds -> Seq(FrameOf("video") \cup FrameOf("audio"))]
      /\ \A x \in Kinds : out'[x] \in Seq(FrameOf(x))
      /\ \A x \in own.opened : x # s => inside'[x] = inside[x] /\ out'[x] = out[x]
  <2>1. s \in own.opened
    BY <1>1, <1>2
  <2> QED
    BY <1>6, <2>1, MoveTypes
<1>8. PICK g : g = Frames(s)'
  OBVIOUS
<1>9. g \in Seq(FrameOf(s)) /\ Complete(g, P) /\ \A i \in DOMAIN g : Due(g[i])
  <2>1. g = out'[s] \o inside'[s]
    BY <1>8 DEF Frames
  <2>2. g \in Seq(FrameOf(s))
    BY <1>6, <2>1, ConcatProperties
  <2> QED
    BY <1>3, <1>6, <1>8, <2>2 DEF ElementsIn
<1>10. /\ own.left \in Nat /\ own.left \in 1..pkt.parts /\ pkt.parts \in Nat \ {0}
       /\ pkt.stream = "video" => pkt.parts = 1
       /\ own.index = pkt.stream /\ pkt = input.packets[taken]
       /\ taken \in Nat \ {0} /\ taken \in 1..Len(input.packets)
       /\ own.lost \in [1..Len(input.packets) -> Nat] /\ own.lost[taken] = 0
  BY <1>1, PacketParts, OpenedKinds
<1>11. Head(Taken) = h /\ s \in Kinds /\ h.stream = s
  BY <1>1, <1>2, <1>4, <1>5, OpenedKinds DEF FrameOf
\* What is left of the packet is one part less, or the rest of it is lost.
<1>12. PICK l \in 0..own.left, r \in BOOLEAN, e \in [1..Len(input.packets) -> Nat] :
         /\ own' = [own EXCEPT !.left = l, !.ret = r, !.lost = e] /\ own'.left = l /\ own'.lost = e
         /\ (l = 0 /\ tpc' = "loop") \/ (l \in 1..own.left /\ tpc' = "decode")
         /\ program' = program
         /\ \/ l = own.left - 1 /\ e = own.lost
            \/ /\ h.quality # "good" /\ l = 0 /\ e[taken] = own.left - 1
               /\ \A k \in 1..Len(input.packets) : k # taken => e[k] = own.lost[k]
  <2>1. CASE h.quality # "good"
    <3>1. own.left - 1 \in Nat /\ pktLost(own.left - 1)
      BY <1>1, <1>10, <1>11, <2>1
    <3>2. PICK m \in Nat : m = own.left - 1
      BY <3>1
    <3>3. pktLost(m)
      BY <3>1, <3>2
    <3>4. PICK e \in [1..Len(input.packets) -> Nat] :
            /\ own' = [own EXCEPT !.left = 0, !.ret = TRUE, !.lost = e]
            /\ own'.left = 0 /\ own'.lost = e /\ e[taken] = m
            /\ \A k \in 1..Len(input.packets) : k # taken => e[k] = own.lost[k]
            /\ tpc' = "loop" /\ program' = program
      BY <1>1, <3>3, LosesPacket
    <3>5. 0 \in 0..own.left
      BY <1>10
    <3> QED
      BY <2>1, <3>2, <3>4, <3>5
  <2>2. CASE h.quality = "good"
    <3>1. Consumes(1)
      BY <1>1, <1>11, <2>2
    <3> QED
      BY <1>1, <3>1, ConsumesOne
  <2> QED
    BY <2>1, <2>2
<1>13. own'.left \in Nat /\ own'.left <= own.left
       /\ (tpc' # "decode" \/ (tpc = "decode" /\ own'.left < own.left))
  <2>1. own'.left = l /\ l \in 0..own.left
    BY <1>12
  <2>2. own'.left \in Nat /\ own'.left <= own.left
    BY <1>10, <2>1
  <2>3. tpc' # "decode" \/ own'.left < own.left
    BY <1>10, <1>12, <2>1
  <2> QED
    BY <1>1, <2>2, <2>3
<1>14. P = PartsFor(input.packets, e, taken, l, s)
  <2>1. CASE l = own.left - 1 /\ e = own.lost
    BY <1>2, <2>1
  <2>2. CASE l = 0 /\ e[taken] = own.left - 1
             /\ \A k \in 1..Len(input.packets) : k # taken => e[k] = own.lost[k]
    <3>0. PICK ps, L : ps = input.packets /\ L = own.lost
      OBVIOUS
    <3>1. PICK m \in Nat \ {0}, d \in Nat : m = taken /\ d = own.left - 1
      <4>1. own.left - 1 \in Nat /\ taken \in Nat \ {0}
        BY <1>10
      <4> QED
        BY <4>1
    <3>2. L[m] = 0
      BY <1>10, <3>0, <3>1
    <3>3. e[m] = d
      BY <2>2, <3>0, <3>1
    <3>4. \A k \in 1..m : k # m => e[k] = L[k]
      <4>1. Len(ps) \in Nat /\ m \in 1..Len(ps)
        BY <1>10, <3>0, <3>1
      <4>2. \A k \in 1..Len(ps) : k # m => e[k] = L[k]
        BY <2>2, <3>0, <3>1
      <4> QED
        BY <4>1, <4>2
    <3>5. ps[m].parts \in Nat
      BY <1>10, <3>0, <3>1
    <3>6. PartsFor(ps, e, m, 0, s) = PartsFor(ps, L, m, d, s)
      BY <3>2, <3>3, <3>4, <3>5, PartsLost, SMT
    <3> QED
      BY <1>2, <2>2, <3>0, <3>1, <3>6
  <2> QED
    BY <1>12, <2>1, <2>2
<1>15. StreamFine(s)'
  <2>1. s \in own.opened /\ input' = input /\ taken' = taken
    BY <1>1, <1>2
  <2>2. Complete(g, PartsFor(input.packets, own'.lost, taken, own'.left, s))
    BY <1>9, <1>12, <1>14
  <2> QED
    BY <1>6, <1>8, <1>9, <1>13, <2>1, <2>2, StreamMoves
<1>16. ASSUME NEW x \in own.opened, x # s PROVE StreamFine(x)'
  <2>1. \A k \in 1..taken : k # taken => own'.lost[k] = own.lost[k]
    <3>1. Len(input.packets) \in Nat /\ taken \in 1..Len(input.packets)
      BY <1>10
    <3>2. \A k \in 1..Len(input.packets) : k # taken => own'.lost[k] = own.lost[k]
      BY <1>12
    <3> QED
      BY <3>1, <3>2
  <2> QED
    BY <1>1, <1>2, <1>7, <1>13, <1>16, <2>1, OthersStay
<1>17. \A x \in own.opened : StreamFine(x)'
  BY <1>15, <1>16
\* The frame that swr_init() refuses is written: it is the excuse.
<1>18. LostFine'
  <2>1. PICK a : a = out'["audio"]
    OBVIOUS
  <2>2. /\ a = out["audio"] \/ \E y \in FrameOf("audio") : a = Append(out["audio"], y)
        /\ s = "audio" /\ h.quality # "resized" => a = Append(out["audio"], h)
    <3>1. DOMAIN out = Kinds
      BY DEF DdInv, DdTypeOK
    <3> QED
      BY <1>6, <1>11, <2>1, <3>1 DEF Kinds
  <2>3. CASE e = own.lost
    <3>1. tpc' = "decode" => tpc = "decode"
      BY <1>1
    <3> QED
      BY <1>1, <1>12, <2>1, <2>2, <2>3, <3>1, LostStays
  <2>4. CASE /\ h.quality # "good" /\ l = 0 /\ e[taken] = own.left - 1
             /\ \A k \in 1..Len(input.packets) : k # taken => e[k] = own.lost[k]
    <3>1. Excused(e, a, taken)
      <4>1. CASE s = "video"
        <5>1. e[taken] = 0
          BY <1>2, <1>10, <2>4, <4>1
        <5> QED
          BY <5>1 DEF Excused
      <4>2. CASE s = "audio"
        <5>1. h.quality # "resized"
          BY <4>2 DEF FrameOf
        <5>2. CASE h.quality = "odd"
          <6>1. h.n <= taken
            <7>1. PICK i \in DOMAIN f : f[i] = h
              BY <1>6
            <7>2. h.n \in 1..taken
              BY <1>3, <7>1 DEF Due
            <7> QED
              BY <7>2
          <6>2. out["audio"] \in Seq(FrameOf("audio")) /\ h \in FrameOf("audio")
            BY <4>2 DEF DdInv, DdTypeOK, Kinds
          <6>3. a = Append(out["audio"], h)
            BY <2>2, <4>2, <5>1
          <6>4. Excuses(a, taken)
            BY <5>2, <6>1, <6>2, <6>3, ExcusesGrow
          <6>5. e[taken] < pkt.parts
            BY <1>10, <2>4
          <6> QED
            BY <1>10, <6>4, <6>5 DEF Excused
        <5>3. h.quality # "mono"
          BY <1>1, <1>11 DEF DdFrame, Writable
        <5> QED
          BY <2>4, <5>1, <5>2, <5>3 DEF FrameOf, Decodable
      <4> QED
        BY <1>11, <4>1, <4>2 DEF Kinds
    <3>2. tpc' # "decode"
      BY <1>10, <1>12, <2>4
    <3> QED
      BY <1>1, <1>10, <1>12, <2>1, <2>2, <2>4, <3>1, <3>2, LostStays
  <2> QED
    BY <1>12, <2>3, <2>4
<1> QED
  BY <1>1, <1>7, <1>12, <1>17, <1>18, DecodeEnds

\* A packet of which nothing is decoded.
LEMMA DdSkipsKeep == ASSUME DdInv, DdOther \/ DdError \/ DdStuck PROVE DdInv'
<1>1. tpc = "decode" /\ UNCHANGED <<input, taken, inside, out>>
  BY DEF DdOther, DdError, DdStuck, Decoding
<1>2. /\ DdTypeOK /\ own \in DdOwn /\ own.left \in Nat \ {0} /\ own.left \in 1..pkt.parts
      /\ own.lost \in [1..Len(input.packets) -> Nat] /\ taken \in 1..Len(input.packets)
      /\ pkt = input.packets[taken]
  BY <1>1, PacketParts DEF DdInv, DdTypeOK
\* The parts of the packet are lost if it is in error, and then they are none that count.
<1>3. PICK l \in 0..own.left, r \in BOOLEAN, e \in [1..Len(input.packets) -> Nat] :
        /\ own' = [own EXCEPT !.left = l, !.ret = r, !.lost = e] /\ own'.left = l /\ own'.lost = e
        /\ program' = program
        /\ (l = 0 /\ tpc' = "loop") \/ (l \in 1..own.left /\ tpc' = "decode")
        /\ \/ e = own.lost
           \/ /\ ~IsKept(pkt) /\ tpc' # "decode"
              /\ \A k \in 1..Len(input.packets) : k # taken => e[k] = own.lost[k]
  <2>1. CASE DdOther
    <3>1. Consumes(own.left) /\ own.left - own.left = 0
      BY <1>2, <2>1 DEF DdOther
    <3>2. own' = [own EXCEPT !.left = own.left - own.left, !.ret = FALSE]
      BY <3>1 DEF Consumes
    <3>3. tpc' = "loop" /\ program' = program
      BY <3>1 DEF Consumes, GoesTo
    <3>4. /\ own' = [own EXCEPT !.left = 0, !.ret = FALSE, !.lost = own.lost]
          /\ tpc' = "loop" /\ program' = program
      BY <1>2, <3>1, <3>2, <3>3 DEF DdOwn
    <3>5. own'.left = 0 /\ own'.lost = own.lost /\ 0 \in 0..own.left
      BY <1>2, <3>4 DEF DdOwn
    <3> QED
      BY <1>2, <3>4, <3>5
  <2>2. CASE DdError
    <3>1. PICK m \in Nat : m = own.left
      BY <1>2
    <3>2. pktLost(m) /\ ~IsKept(pkt)
      BY <2>2, <3>1 DEF DdError, Decoding, IsKept, Decodable
    <3>3. PICK e \in [1..Len(input.packets) -> Nat] :
            /\ own' = [own EXCEPT !.left = 0, !.ret = TRUE, !.lost = e]
            /\ own'.left = 0 /\ own'.lost = e
            /\ \A k \in 1..Len(input.packets) : k # taken => e[k] = own.lost[k]
            /\ tpc' = "loop" /\ program' = program
      BY <1>1, <3>2, LosesPacket
    <3>4. 0 \in 0..own.left
      BY <1>2
    <3> QED
      BY <3>2, <3>3, <3>4
  <2>3. CASE DdStuck
    <3>1. Consumes(0) /\ own.left - 0 = own.left /\ own.left # 0
      BY <1>2, <2>3 DEF DdStuck
    <3>2. own' = [own EXCEPT !.left = own.left - 0, !.ret = FALSE]
      BY <3>1 DEF Consumes
    <3>3. tpc' = "decode" /\ program' = program
      BY <3>1 DEF Consumes, GoesTo
    <3>4. /\ own' = [own EXCEPT !.left = own.left, !.ret = FALSE, !.lost = own.lost]
          /\ tpc' = "decode" /\ program' = program
      BY <1>2, <3>1, <3>2, <3>3 DEF DdOwn
    <3>5. /\ own'.left = own.left /\ own'.lost = own.lost
          /\ own.left \in 0..own.left /\ own.left \in 1..own.left
      BY <1>2, <3>4 DEF DdOwn
    <3> QED
      BY <1>2, <3>4, <3>5
  <2> QED
    BY <2>1, <2>2, <2>3
<1>4. own'.left \in Nat /\ own'.left <= own.left
  BY <1>2, <1>3
<1>5. ASSUME NEW s \in own.opened PROVE StreamFine(s)'
  <2>1. s # own.index \/ ~IsKept(pkt)
    BY DEF DdOther, DdError, DdStuck, Decoding, IsKept, Decodable
  <2>2. \A k \in 1..taken : k # taken => own'.lost[k] = own.lost[k]
    <3>1. Len(input.packets) \in Nat /\ \A k \in 1..taken : k \in 1..Len(input.packets)
      <4>1. Len(input.packets) \in Nat
        BY FilePackets DEF DdInv, DdTypeOK
      <4> QED
        BY <1>2, <4>1
    <3> QED
      BY <1>3, <3>1
  <2> QED
    BY <1>1, <1>4, <2>1, <2>2, OthersStay
<1>6. /\ out' \in [Kinds -> Seq(FrameOf("video") \cup FrameOf("audio"))]
      /\ \A x \in Kinds : out'[x] \in Seq(FrameOf(x))
  BY <1>1, <1>2 DEF DdTypeOK
<1>7. LostFine'
  <2>1. PICK a : a = out'["audio"]
    OBVIOUS
  <2>2. a = out["audio"]
    BY <1>1, <2>1
  <2>3. CASE e = own.lost
    BY <1>1, <1>3, <2>1, <2>2, <2>3, LostStays
  <2>4. CASE /\ ~IsKept(pkt) /\ tpc' # "decode"
             /\ \A k \in 1..Len(input.packets) : k # taken => e[k] = own.lost[k]
    <3>1. Excused(e, a, taken)
      BY <1>2, <2>4 DEF Excused
    <3> QED
      BY <1>1, <1>2, <1>3, <2>1, <2>2, <2>4, <3>1, LostStays
  <2> QED
    BY <1>3, <2>3, <2>4
<1> QED
  BY <1>1, <1>3, <1>5, <1>6, <1>7, DecodeEnds

LEMMA DdReadKeeps == ASSUME DdInv, DdRead PROVE DdInv'
<1>1. /\ tpc = "loop" /\ taken < Len(input.packets) /\ taken' = taken + 1 /\ tpc' = "decode"
      /\ own' = [own EXCEPT !.left = input.packets[taken + 1].parts,
                            !.index = input.packets[taken + 1].stream]
      /\ UNCHANGED <<program, input, inside, out>>
  BY DEF DdRead, AtPacket, Packet, Reads, GoesTo
<1>2. DdTypeOK /\ input \in DdFiles /\ own.left = 0 /\ taken \in Nat
  BY <1>1, FilePackets DEF DdInv, DdTypeOK
<1>3. taken + 1 \in 1..Len(input.packets) /\ taken + 1 \in 0..Len(input.packets)
  BY <1>1, <1>2, FilePackets
<1>4. /\ input.packets[taken + 1].parts \in Nat \ {0}
      /\ input.packets[taken + 1].stream \in {"video", "audio", "other"}
  BY <1>2, <1>3, FilePackets DEF Parts
<1>5. /\ own'.left = input.packets[taken + 1].parts /\ own'.opened = own.opened
      /\ own'.index = input.packets[taken + 1].stream /\ own'.lost = own.lost
      /\ own' \in DdOwn
  <2>1. own \in DdOwn
    BY <1>2 DEF DdTypeOK
  <2> QED
    BY <1>1, <1>4, <2>1 DEF DdOwn
<1>6. DdTypeOK'
  <2>1. DdOwn' = DdOwn
    BY <1>1 DEF DdOwn
  <2> QED
    BY <1>1, <1>2, <1>3, <1>5, <2>1 DEF DdTypeOK
<1>7. ASSUME NEW s \in own.opened PROVE PartsOf(s)' = PartsOf(s)
  <2>1. PartsOf(s)' = PartsFor(input.packets, own.lost, taken + 1, input.packets[taken + 1].parts, s)
    BY <1>1, <1>5 DEF PartsOf, PartsFor, PartsDone, Done
  <2>2. \A k \in 1..(taken + 1) : input.packets[k].parts \in Nat
    BY <1>2, <1>3, FilePackets
  <2>3. own.lost[taken + 1] = 0 /\ \A k \in 1..taken : own.lost[k] \in Nat
    <3>1. taken + 1 > taken /\ Len(input.packets) \in Nat
      BY <1>2, FilePackets
    <3>2. own.lost[taken + 1] = 0
      BY <1>3, <3>1 DEF DdInv, LostFine
    <3>3. \A k \in 1..taken : k \in 1..Len(input.packets)
      BY <1>1, <1>2, <3>1
    <3> QED
      BY <3>2, <3>3, OpenedKinds
  <2>4. PartsFor(input.packets, own.lost, taken + 1, input.packets[taken + 1].parts, s)
          = PartsFor(input.packets, own.lost, taken, 0, s)
    <3>1. PICK ps, L : ps = input.packets /\ L = own.lost
      OBVIOUS
    <3>2. L[taken + 1] = 0
      BY <2>3, <3>1
    <3>3. \A k \in 1..taken : L[k] \in Nat
      BY <2>3, <3>1
    <3>4. \A k \in 1..(taken + 1) : ps[k].parts \in Nat
      BY <2>2, <3>1
    <3>5. PartsFor(ps, L, taken + 1, ps[taken + 1].parts, s) = PartsFor(ps, L, taken, 0, s)
      BY <1>2, <3>2, <3>3, <3>4, PartsRead
    <3> QED
      BY <3>1, <3>5
  <2> QED
    BY <1>2, <2>1, <2>4, PartsOfIs
<1>8. ASSUME NEW s \in own.opened, NEW f \in FrameOf(s), Reached(f) PROVE Reached(f)'
  BY <1>1, <1>2, <1>8 DEF Reached
<1>9. \A s \in own'.opened : StreamFine(s)'
  BY <1>1, <1>5, <1>7, <1>8, StreamsStay
<1>10. own'.opened # {} => inside' \in [own'.opened -> UNION {Seq(FrameOf(x)) : x \in Kinds}]
  BY <1>1, <1>5 DEF DdInv
<1>11. /\ taken' \in 1..Len(input'.packets) /\ own'.index = input'.packets[taken'].stream
       /\ own'.left \in 1..input'.packets[taken'].parts
  BY <1>1, <1>3, <1>4, <1>5
<1>12. LostFine'
  <2>1. taken + 1 > taken /\ \A k \in Nat : k > taken + 1 => k > taken
    BY <1>2
  <2>2. LostFine /\ Len(input.packets) \in Nat
    BY <1>2, FilePackets DEF DdInv
  <2> QED
    BY <1>1, <1>3, <1>5, <2>1, <2>2 DEF LostFine, Excused
<1> QED
  BY <1>1, <1>6, <1>9, <1>10, <1>11, <1>12 DEF DdInv

\* A step that leaves the streams alone.
LEMMA DdRestKeeps ==
  ASSUME DdInv, tpc \in {"open", "loop", "flush"} \/ tpc' = "ended", tpc' \in {"flush", "ended"},
         UNCHANGED <<program, input, taken, inside, out>>,
         own' = own \/ own' = [own EXCEPT !.index = own.index]
                    \/ own' = [own EXCEPT !.index = input.first],
         tpc' = "ended" /\ code' # Crashed /\ own.index \in own.opened => Held = <<>>,
         tpc' = "ended" => own' = own
  PROVE  DdInv'
<1>1. DdTypeOK /\ own \in DdOwn
  BY DEF DdInv, DdTypeOK
<1>2. /\ own'.left = own.left /\ own'.opened = own.opened /\ own'.lost = own.lost
      /\ own' \in DdOwn
  BY <1>1 DEF DdOwn
<1>3. DdTypeOK'
  <2>1. DdOwn' = DdOwn
    BY DEF DdOwn
  <2> QED
    BY <1>1, <1>2, <2>1 DEF DdTypeOK
<1>4. \A s \in own.opened : PartsOf(s)' = PartsOf(s)
  BY <1>2 DEF PartsOf, PartsDone
<1>5. \A s \in own.opened : \A f \in FrameOf(s) : Reached(f) => Reached(f)'
  BY ReachedLater
<1>6. \A s \in own'.opened : StreamFine(s)'
  BY <1>2, <1>4, <1>5, StreamsStay
<1>7. own'.opened # {} => inside' \in [own'.opened -> UNION {Seq(FrameOf(x)) : x \in Kinds}]
  BY <1>2 DEF DdInv
<1>8. tpc' = "ended" /\ code' # Crashed /\ own'.index \in own'.opened => Held' = <<>>
  BY DEF Held
<1>9. LostFine'
  <2>1. LostFine
    BY DEF DdInv
  <2> QED
    BY <1>2, <2>1 DEF LostFine, Excused
<1>10. tpc' # "ended" => own'.left = 0
  BY <1>2 DEF DdInv
<1> QED
  BY <1>1, <1>2, <1>3, <1>6, <1>7, <1>8, <1>9, <1>10 DEF DdInv

LEMMA DdDrainsKeeps == ASSUME DdInv, DdDrains PROVE DdInv'
<1>1. /\ tpc = "flush" /\ own.index \in own.opened /\ Held # <<>> /\ DdGives(Held)
      /\ tpc' = "flush" /\ UNCHANGED <<program, input, taken, own>>
  BY DEF DdDrains, Writable, GoesTo
<1>2. PICK s, f, q, P : /\ s = own.index /\ f = Frames(s) /\ q = Held
                        /\ P = PartsFor(input.packets, own.lost, taken, own.left, s)
  OBVIOUS
<1>3. /\ s \in Kinds /\ q \in Seq(FrameOf(s)) /\ q # <<>> /\ f = out[s] \o q
      /\ f \in Seq(FrameOf(s)) /\ Complete(f, P)
  BY <1>1, <1>2, StreamParts DEF Held
<1>4. PICK t \in Seq(FrameOf(s)), h \in FrameOf(s) : t = Tail(q) /\ h = Head(q)
  BY <1>3, EmptySeq, HeadTailProperties
<1>5. /\ Complete(Frames(s)', P) /\ inside'[s] \in Seq(FrameOf(s)) /\ out'[s] \in Seq(FrameOf(s))
      /\ inside' = [inside EXCEPT ![s] = t]
      /\ out' = out \/ out' = [out EXCEPT ![s] = Append(@, h)]
      /\ ElementsIn(Frames(s)', f)
  <2>1. s \in own.opened /\ s = own.index /\ DdGives(q)
    BY <1>1, <1>2
  <2>2. Complete(Frames(s)', P) /\ inside'[s] \in Seq(FrameOf(s)) /\ out'[s] \in Seq(FrameOf(s))
    BY <1>3, <2>1, GivesOne
  <2>3. inside' = [inside EXCEPT ![s] = Tail(q)]
    BY <2>1 DEF DdGives
  <2>4. out' = out \/ out' = [out EXCEPT ![s] = Append(@, Head(q))]
    BY <2>1 DEF DdGives
  <2>5. ElementsIn(Frames(s)', f)
    BY <1>3, <2>1, GivesOne
  <2> QED
    BY <1>4, <2>2, <2>3, <2>4, <2>5
<1>6. /\ inside' \in [own.opened -> UNION {Seq(FrameOf(x)) : x \in Kinds}]
      /\ out' \in [Kinds -> Seq(FrameOf("video") \cup FrameOf("audio"))]
      /\ \A x \in Kinds : out'[x] \in Seq(FrameOf(x))
      /\ \A x \in own.opened : x # s => inside'[x] = inside[x] /\ out'[x] = out[x]
  <2>1. s \in own.opened
    BY <1>1, <1>2
  <2> QED
    BY <1>5, <2>1, MoveTypes
<1>7. PICK g : g = Frames(s)'
  OBVIOUS
<1>8. g \in Seq(FrameOf(s)) /\ Complete(g, P) /\ \A i \in DOMAIN g : Due(g[i])
  <2>1. g = out'[s] \o inside'[s]
    BY <1>7 DEF Frames
  <2>2. g \in Seq(FrameOf(s))
    BY <1>5, <2>1, ConcatProperties
  <2>3. \A i \in DOMAIN f : Due(f[i])
    BY <1>1, <1>2 DEF DdInv, StreamFine, Reached, Due
  <2> QED
    BY <1>5, <1>7, <2>2, <2>3 DEF ElementsIn
<1>9. StreamFine(s)'
  <2>1. s \in own.opened /\ input' = input /\ taken' = taken /\ own' = own
    BY <1>1, <1>2
  <2>2. own'.left \in Nat
    BY <2>1, OpenedKinds
  <2>3. Complete(g, PartsFor(input.packets, own'.lost, taken, own'.left, s))
    BY <1>2, <1>8, <2>1
  <2> QED
    BY <1>1, <1>5, <1>7, <1>8, <2>1, <2>2, <2>3, StreamMoves
<1>10. ASSUME NEW x \in own.opened, x # s PROVE StreamFine(x)'
  <2>1. inside'[x] = inside[x] /\ out'[x] = out[x]
    BY <1>6, <1>10
  <2>2. PartsOf(x)' = PartsOf(x)
    BY <1>1 DEF PartsOf, PartsDone
  <2>3. \A y \in FrameOf(x) : Reached(y) => Reached(y)'
    BY <1>1 DEF Reached
  <2> QED
    BY <1>1, <2>1, <2>2, <2>3, StreamStays
<1>11. DdTypeOK'
  <2>1. DdOwn' = DdOwn
    BY <1>1 DEF DdOwn
  <2> QED
    BY <1>1, <1>6, <2>1 DEF DdInv, DdTypeOK
<1>12. \A x \in own'.opened : StreamFine(x)'
  BY <1>1, <1>9, <1>10
<1>13. inside' \in [own'.opened -> UNION {Seq(FrameOf(x)) : x \in Kinds}]
  BY <1>1, <1>6
<1>14. own'.left = 0
  BY <1>1 DEF DdInv
<1>15. LostFine'
  <2>1. PICK a, e : a = out'["audio"] /\ e = own.lost
    OBVIOUS
  <2>2. a = out["audio"] \/ \E y \in FrameOf("audio") : a = Append(out["audio"], y)
    <3>1. DOMAIN out = Kinds
      BY DEF DdInv, DdTypeOK
    <3> QED
      BY <1>3, <1>4, <1>5, <2>1, <3>1 DEF Kinds
  <2>3. own'.lost = e /\ tpc' # "decode"
    BY <1>1, <2>1
  <2> QED
    BY <1>1, <2>1, <2>2, <2>3, LostStays
<1> QED
  BY <1>1, <1>11, <1>12, <1>13, <1>14, <1>15 DEF DdInv

LEMMA DdOpenKeeps == ASSUME DdInv, open_codec_context PROVE DdInv'
<1>1. PICK k \in SUBSET Kinds : own' = [own EXCEPT !.opened = k] /\ inside' = [d \in k |-> <<>>]
  BY DEF open_codec_context, Kinds
<1>2. tpc = "open" /\ tpc' = "loop" /\ UNCHANGED <<program, input, taken, out>>
  BY DEF open_codec_context, GoesTo
<1>3. DdTypeOK /\ taken = 0 /\ out = [s \in Kinds |-> <<>>] /\ own.left = 0 /\ LostFine
  BY <1>2 DEF DdInv
<1>4. own'.opened = k /\ own'.left = 0 /\ own'.lost = own.lost /\ own' \in DdOwn
  <2>1. own \in DdOwn
    BY <1>3 DEF DdTypeOK
  <2> QED
    BY <1>1, <1>3, <2>1 DEF DdOwn
<1>5. DdTypeOK'
  <2>1. DdOwn' = DdOwn
    BY <1>2 DEF DdOwn
  <2> QED
    BY <1>2, <1>3, <1>4, <2>1 DEF DdTypeOK
<1>6. \A s : <<>> \in Seq(FrameOf(s))
  BY EmptySeq
<1>7. inside' \in [k -> UNION {Seq(FrameOf(x)) : x \in Kinds}]
  <2>1. <<>> \in UNION {Seq(FrameOf(x)) : x \in Kinds}
    BY <1>6 DEF Kinds
  <2> QED
    BY <1>1, <2>1
<1>8. ASSUME NEW s \in k PROVE StreamFine(s)'
  <2>1. inside'[s] = <<>> /\ out'[s] = <<>>
    BY <1>1, <1>2, <1>3
  <2>2. Frames(s)' = <<>>
    BY <2>1 DEF Frames
  <2>3. PartsOf(s)' = {}
    BY <1>2, <1>3 DEF PartsOf
  <2>4. Complete(<<>>, {})
    BY DEF Complete
  <2> QED
    BY <1>6, <2>1, <2>2, <2>3, <2>4 DEF StreamFine
<1>9. LostFine'
  BY <1>2, <1>3, <1>4 DEF LostFine, Excused
<1> QED
  BY <1>2, <1>4, <1>5, <1>7, <1>8, <1>9 DEF DdInv

LEMMA DdKeeps == DdInv /\ [DdWorks \/ DdFails]_toolVars => DdInv'
<1> SUFFICES ASSUME DdInv, [DdWorks \/ DdFails]_toolVars PROVE DdInv'
  OBVIOUS
<1>1. CASE DdOpenFails
  <2>1. tpc = "open" /\ tpc' = "ended" /\ UNCHANGED <<program, input, taken, inside, out, own>>
    BY <1>1 DEF DdOpenFails, OpenFailure, OnlyExits, Exits
  <2>2. own.index \notin own.opened
    BY <2>1 DEF DdInv
  <2> QED
    BY <2>1, <2>2, DdRestKeeps
<1>2. CASE DdReadFails
  <2>1. tpc = "loop" /\ tpc' = "flush" /\ UNCHANGED <<program, input, taken, inside, out>>
    BY <1>2 DEF DdReadFails, AtReadError, GoesTo
  <2>2. own' = [own EXCEPT !.index = own.index] \/ own' = [own EXCEPT !.index = input.first]
    BY <1>2 DEF DdReadFails
  <2> QED
    BY <2>1, <2>2, DdRestKeeps
<1>3. CASE DdEnd
  <2>1. tpc = "flush" /\ tpc' = "ended" /\ UNCHANGED <<program, input, taken, inside, out, own>>
        /\ (own.index \in own.opened => Held = <<>>)
    BY <1>3 DEF DdEnd, OnlyExits, Exits
  <2> QED
    BY <2>1, DdRestKeeps
<1>5. CASE DdMono
  <2>1. /\ tpc' = "ended" /\ code' = Crashed
        /\ UNCHANGED <<program, input, taken, inside, out, own>>
    BY <1>5 DEF DdMono, OnlyExits, Exits
  <2> QED
    BY <2>1, DdRestKeeps
<1>4. CASE UNCHANGED toolVars
  <2>1. UNCHANGED <<program, tpc, code, input, taken, inside, out, own>>
    BY <1>4 DEF toolVars
  <2>2. \A s : PartsOf(s)' = PartsOf(s) /\ Frames(s)' = Frames(s)
    BY <2>1 DEF PartsOf, PartsDone, Frames
  <2>3. \A f : Reached(f)' <=> Reached(f)
    BY <2>1, Zenon DEF Reached
  <2>4. \A s : StreamFine(s) => StreamFine(s)'
    BY <2>1, <2>2 DEF StreamFine, Reached
  <2>5. Held' = Held
    BY <2>1 DEF Held
  <2>6. LostFine => LostFine'
    BY <2>1 DEF LostFine, Excused
  <2>7. DdOwn' = DdOwn
    BY <2>1 DEF DdOwn
  <2>8. DdTypeOK'
    BY <2>1, <2>7 DEF DdInv, DdTypeOK
  <2> QED
    BY <2>1, <2>4, <2>5, <2>6, <2>8 DEF DdInv
<1> QED
  BY <1>1, <1>2, <1>3, <1>4, <1>5, DdOpenKeeps, DdReadKeeps, DdSkipsKeep, DdHoldsKeeps, DdFrameKeeps,
     DdDrainsKeeps DEF DdWorks, DdFails, DdReadEnd

\* For any files, any size of the decoders' delay and any errors: of each stream, the
\* parts of every packet are decoded once and in order; only of a packet that main()
\* gave up, after a frame that swr_init() refused had been written, are they those up
\* to there; and the decoder that is drained is empty when main() returns
\* (3-4-demuxing_decoding.c, decode_packet() and main()).
THEOREM DemuxDecodesEveryPart == DemuxDecodeSpec => []DecodesEveryPart
<1>1. DdInv => DecodesEveryPart
  <2> SUFFICES ASSUME DdInv PROVE DecodesEveryPart
    OBVIOUS
  <2>1. ASSUME NEW s \in own.opened
        PROVE  /\ {<<f.n, f.part>> : f \in {g \in ToSet(Frames(s)) : IsKept(g)}} = PartsOf(s)
               /\ \A i, j \in DOMAIN Frames(s) : i < j => Before(Frames(s)[i], Frames(s)[j])
    <3>1. PICK f, P : f = Frames(s) /\ P = PartsOf(s)
      OBVIOUS
    <3>2. Complete(f, P)
      BY <3>1 DEF DdInv, StreamFine
    <3>3. {<<x.n, x.part>> : x \in {g \in ToSet(f) : IsKept(g)}} = P
      <4>1. ToSet(f) = {f[i] : i \in DOMAIN f}
        BY DEF ToSet
      <4>2. ASSUME NEW i \in DOMAIN f, IsKept(f[i]) PROVE <<f[i].n, f[i].part>> \in P
        BY <3>2, <4>2 DEF Complete
      <4>3. ASSUME NEW x \in P
            PROVE  \E i \in DOMAIN f : IsKept(f[i]) /\ x = <<f[i].n, f[i].part>>
        BY <3>2 DEF Complete
      <4> QED
        BY <4>1, <4>2, <4>3
    <3>4. \A i, j \in DOMAIN f : i < j => Before(f[i], f[j])
      BY <3>2 DEF Complete
    <3> QED
      BY <3>1, <3>3, <3>4
  <2>2. tpc = "ended" /\ code # Crashed /\ own.index \in own.opened => Held = <<>>
    BY DEF DdInv
  <2>3. ASSUME NEW k \in 1..taken, IsKept(input.packets[k]), own.lost[k] > 0
        PROVE  /\ own.lost[k] < input.packets[k].parts
               /\ \E i \in DOMAIN out["audio"] :
                    out["audio"][i].quality = "odd" /\ out["audio"][i].n <= k
    <3>1. taken \in 0..Len(input.packets) /\ Len(input.packets) \in Nat
      BY FilePackets DEF DdInv, DdTypeOK
    <3>2. k \in 1..Len(input.packets)
      BY <3>1
    <3>3. Excused(own.lost, out["audio"], k)
      BY <3>2 DEF DdInv, LostFine
    <3> QED
      BY <2>3, <3>3 DEF Excused, Excuses
  <2> QED
    BY <2>1, <2>2, <2>3, Zenon DEF DecodesEveryPart
<1> QED
  BY <1>1, DdInitInv, DdKeeps, PTL DEF DemuxDecodeSpec

===============================================================================
