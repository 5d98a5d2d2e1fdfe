------------------------------ MODULE Tools_proofs ------------------------------
(***************************************************************************)
(* The command line examples whose codec, filter or resampler keeps back   *)
(* some of what it is given, each under its own specification.             *)
(***************************************************************************)
EXTENDS Encoders, Watermark, Synthetic, SeqLemmas

-----------------------------------------------------------------------------
(* Watermark. *)

\* A frame of a packet.
WmFrame == Nat \X Nat

\* While a frame is in the graph for filtering, it is one more than may be kept back.
WatermarkInv ==
  /\ program = "watermark"
  /\ inside \in Seq(WmFrame)
  /\ out \in [{"yuv"} -> Seq(WmFrame)]
  /\ own \in [graph : Seq(WmFrame), given : Seq(WmFrame)]
  /\ taken \in Nat /\ input \in WmFiles
  /\ tpc \in {"open", "loop", "receive"} => Len(own.graph) <= FilterDelay
  /\ tpc = "filter" => Len(own.graph) \in 1..(FilterDelay + 1)
  /\ out["yuv"] \o own.graph = own.given

LEMMA WatermarkInvInit == WatermarkInit => WatermarkInv
<1> SUFFICES ASSUME WatermarkInit PROVE WatermarkInv
  OBVIOUS
<1>1. <<>> \in Seq(WmFrame) /\ Len(<<>>) = 0 /\ <<>> \o <<>> = <<>>
  BY ConcatEmptySeq
<1>2. /\ program = "watermark" /\ tpc = "open" /\ inside = <<>> /\ taken = 0
      /\ input \in WmFiles /\ out = [o \in {"yuv"} |-> <<>>]
      /\ own = [graph |-> <<>>, given |-> <<>>]
  BY DEF WatermarkInit, ToolInit
<1>3. out["yuv"] = <<>> /\ own.graph = <<>> /\ own.given = <<>>
  BY <1>2
<1> QED
  BY <1>1, <1>2, <1>3, WatermarkAssumption DEF WatermarkInv

LEMMA WatermarkKeeps ==
  WatermarkInv /\ [WatermarkWorks \/ WatermarkFails]_toolVars => WatermarkInv'
<1> SUFFICES ASSUME WatermarkInv, [WatermarkWorks \/ WatermarkFails]_toolVars
             PROVE  WatermarkInv'
  OBVIOUS
<1> USE DEF GoesTo, Exits, OnlyGoesTo, OnlyExits
<1>1. CASE UNCHANGED <<inside, out, own>>
  <2>1. UNCHANGED <<program, input>> /\ taken' \in Nat
        /\ tpc' \in {"loop", "receive", "filter", "ended", tpc}
    BY DEF WatermarkInv, WatermarkWorks, WatermarkFails, WmOpen, OpenSucceeds, WmOther,
           SkipsPacket, Reads, WmSend, WmSendRefused, WmSendFails, WmReceive, WmReceived,
           WmFilter, WmFilterHolds, WmEnd, WmOpenFails, OpenFailure, WmFeedFails, WmFails,
           WmReadFails, toolVars
  <2>2. \/ tpc' = "ended" \/ tpc' = tpc
        \/ tpc' \in {"loop", "receive"} /\ Len(own.graph) <= FilterDelay
    BY <1>1 DEF WatermarkInv, WatermarkWorks, WatermarkFails, WmOpen, OpenSucceeds, WmOther,
           SkipsPacket, Reads, WmSend, WmSendRefused, WmSendFails, WmReceive, WmReceived,
           WmFilter, WmFilterHolds, WmEnd, WmOpenFails, OpenFailure, WmFeedFails, WmFails,
           WmReadFails, toolVars, AtPacket, AtEnd, AtReadError
  <2> QED
    BY <1>1, <2>1, <2>2 DEF WatermarkInv
<1>2. CASE WmSend
  <2>1. /\ UNCHANGED <<program, input, out, own>> /\ taken' \in Nat
        /\ inside' = [k \in 1..Packet |-> <<taken + 1, k>>]
        /\ tpc = "loop" /\ tpc' = "receive" /\ taken \in Nat
    BY <1>2 DEF WmSend, AtPacket, Reads, WatermarkInv
  <2>2. Packet \in Nat
    <3>1. input.packets \in Seq(Nat) /\ taken + 1 \in 1..Len(input.packets)
      BY <1>2, WatermarkAssumption DEF WmSend, AtPacket, WatermarkInv
    <3> QED
      BY <3>1, ElementOfSeq DEF Packet
  <2>3. inside' \in Seq(WmFrame)
    BY <2>1, <2>2 DEF WmFrame
  <2> QED
    BY <2>1, <2>3 DEF WatermarkInv
<1>3. CASE WmReceive
  <2>1. /\ UNCHANGED <<program, input, taken, out>> /\ inside' = Tail(inside)
        /\ own'.graph = Append(own.graph, Head(inside))
        /\ own'.given = Append(own.given, Head(inside))
        /\ own' = [graph |-> own'.graph, given |-> own'.given]
        /\ tpc = "receive" /\ tpc' = "filter"
    BY <1>3 DEF WmReceive
  <2>2. Head(inside) \in WmFrame /\ Tail(inside) \in Seq(WmFrame)
    BY <1>3, HeadTailProperties DEF WmReceive, WatermarkInv
  <2>3. own.graph \in Seq(WmFrame) /\ own.given \in Seq(WmFrame) /\ out["yuv"] \in Seq(WmFrame)
    BY DEF WatermarkInv
  <2>4. /\ own'.graph \in Seq(WmFrame) /\ own'.given \in Seq(WmFrame)
        /\ Len(own'.graph) = Len(own.graph) + 1
    BY <2>1, <2>2, <2>3, AppendProperties
  <2>5. Len(own'.graph) \in 1..(FilterDelay + 1)
    BY <2>1, <2>3, <2>4, LenProperties, WatermarkAssumption DEF WatermarkInv
  <2>6. out["yuv"] \o Append(own.graph, Head(inside)) = Append(own.given, Head(inside))
    BY <2>2, <2>3, AppendRight DEF WatermarkInv
  <2>7. own' \in [graph : Seq(WmFrame), given : Seq(WmFrame)]
    BY <2>1, <2>4
  <2> QED
    BY <2>1, <2>2, <2>5, <2>6, <2>7 DEF WatermarkInv
<1>4. CASE WmFeedFails
  <2>1. Tail(inside) \in Seq(WmFrame)
    BY <1>4, HeadTailProperties DEF WmFeedFails, WatermarkInv
  <2> QED
    BY <1>4, <2>1 DEF WmFeedFails, WatermarkInv
<1>5. CASE WmFilter
  <2>1. own.graph \in Seq(WmFrame) /\ own.given \in Seq(WmFrame) /\ out["yuv"] \in Seq(WmFrame)
        /\ Len(own.graph) \in 1..(FilterDelay + 1)
    BY <1>5 DEF WmFilter, WatermarkInv
  <2>2. own.graph # <<>>
    BY <2>1, EmptySeq, WatermarkAssumption
  <2>3. /\ UNCHANGED <<program, input, taken, inside>>
        /\ out'["yuv"] = Append(out["yuv"], Head(own.graph))
        /\ own'.graph = Tail(own.graph) /\ own'.given = own.given
        /\ own' \in [graph : {own'.graph}, given : {own.given}]
        /\ out' \in [{"yuv"} -> {out'["yuv"]}]
        /\ tpc' = "receive"
    BY <1>5 DEF WmFilter, WatermarkInv
  <2>4. /\ Head(own.graph) \in WmFrame /\ Tail(own.graph) \in Seq(WmFrame)
        /\ Len(Tail(own.graph)) = Len(own.graph) - 1
    BY <2>1, <2>2, HeadTailProperties
  <2>5. Len(own'.graph) <= FilterDelay
    BY <2>1, <2>3, <2>4, WatermarkAssumption
  <2>6. out'["yuv"] \in Seq(WmFrame)
    BY <2>1, <2>3, <2>4, AppendProperties
  <2>7. out'["yuv"] \o own'.graph = own'.given
    <3>1. Append(out["yuv"], Head(own.graph)) \o Tail(own.graph) = out["yuv"] \o own.graph
      BY <2>1, <2>2, MoveHead
    <3>2. out["yuv"] \o own.graph = own.given
      BY DEF WatermarkInv
    <3> QED
      BY <2>3, <3>1, <3>2
  <2>8. own' \in [graph : Seq(WmFrame), given : Seq(WmFrame)] /\ out' \in [{"yuv"} -> Seq(WmFrame)]
    BY <2>1, <2>3, <2>4, <2>6
  <2> QED
    BY <2>3, <2>5, <2>7, <2>8 DEF WatermarkInv
<1> QED
  BY <1>1, <1>2, <1>3, <1>4, <1>5
  DEF WatermarkWorks, WatermarkFails, WmOpen, OpenSucceeds, WmOther, SkipsPacket,
      WmSendRefused, WmSendFails, WmReceived, WmFilterHolds, WmEnd, WmOpenFails,
      OpenFailure, WmFails, WmReadFails, toolVars

\* Whatever the decoder gives out and the filter graph keeps back, the graph holds no
\* more than FilterDelay frames when a packet is read, and every frame fed to it is
\* in the file or still in it, in order (3-7-watermark.c pulls one frame for one fed).
THEOREM WatermarkKeepsPace == WatermarkSpec => []FilterKeepsPace
<1>1. WatermarkInv => FilterKeepsPace
  BY DEF WatermarkInv, FilterKeepsPace
<1> QED
  BY <1>1, WatermarkInvInit, WatermarkKeeps, PTL DEF WatermarkSpec

-----------------------------------------------------------------------------
(* Resampling. *)

\* One round of swr_convert(): offered n samples, n being what the delay d calls for.
LEMMA ResampleOnce ==
  ASSUME NEW backlog \in Nat, NEW samples \in Nat, NEW taps \in Nat, NEW d \in Nat,
         147 * d + 146 >= backlog,
         NEW n, n = Ceil((d + samples) * Src, Dst),
         NEW ready, ready = backlog + samples * Src,
         NEW some, some = Min({n, Max({0, (ready - taps * Src) \div Dst})}),
         backlog < taps * Src + Dst
  PROVE  n \in Nat /\ ready - some * Dst \in Nat /\ ready - some * Dst < taps * Src + Dst
<1>1. /\ n = ((d + samples) * 147 + 159) \div 160 /\ n \in Nat
      /\ 160 * n >= (d + samples) * 147
  BY DEF Ceil, Src, Dst
<1> DEFINE r == backlog + samples * 147
           e == (r - taps * 147) \div 160
<1>2. ready = r /\ ready \in Nat
  BY DEF Src
<1>3. e \in Int /\ 160 * e <= r - taps * 147 /\ r - taps * 147 < 160 * e + 160
  OBVIOUS
<1>4. some = IF n <= (IF 0 >= e THEN 0 ELSE e) THEN n ELSE (IF 0 >= e THEN 0 ELSE e)
  BY <1>1, <1>2, <1>3, MinOfTwo, MaxOfTwo DEF Src, Dst
<1>5. 160 * n >= r - 146
  BY <1>1
<1> HIDE DEF r, e
<1>6. CASE 0 >= e
  <2>1. some = 0
    BY <1>1, <1>4, <1>6
  <2> QED
    BY <1>1, <1>2, <1>3, <1>6, <2>1 DEF Src, Dst
<1>7. CASE ~(0 >= e) /\ n <= e
  <2>1. some = n
    BY <1>4, <1>7
  <2> QED
    BY <1>1, <1>2, <1>3, <1>5, <1>7, <2>1 DEF Src, Dst
<1>8. CASE ~(0 >= e) /\ ~(n <= e)
  <2>1. some = e
    BY <1>4, <1>8
  <2> QED
    BY <1>1, <1>2, <1>3, <1>8, <2>1 DEF Src, Dst
<1> QED
  BY <1>6, <1>7, <1>8

\* The array is as large as it was ever said to be.
ResamplingInv ==
  /\ program = "resampling"
  /\ own \in [backlog : Nat, allocated : Nat, max : Nat, offered : Nat]
  /\ tpc \in {"open", "loop"} => own.backlog < Taps * Src + Dst
  /\ tpc = "open" => own.offered = 0
  /\ tpc = "loop" => own.max = own.allocated /\ own.offered <= own.max

LEMMA ResamplingInvInit == ResamplingInit => ResamplingInv
<1> SUFFICES ASSUME ResamplingInit PROVE ResamplingInv
  OBVIOUS
<1>1. own = [backlog |-> 0, allocated |-> 0, max |-> 0, offered |-> 0]
      /\ program = "resampling" /\ tpc = "open"
  BY DEF ResamplingInit, ToolInit
<1>2. 0 < Taps * Src + Dst
  BY SyntheticAssumption DEF Src, Dst
<1> QED
  BY <1>1, <1>2 DEF ResamplingInv

LEMMA ResamplingKeeps ==
  ResamplingInv /\ [ResamplingWorks \/ ResamplingFails]_toolVars => ResamplingInv'
<1> SUFFICES ASSUME ResamplingInv, [ResamplingWorks \/ ResamplingFails]_toolVars
             PROVE  ResamplingInv'
  OBVIOUS
<1>1. CASE ResamplingOpen
  <2> DEFINE n == Ceil(SrcSamples * Src, Dst)
  <2>1. n \in Nat
    BY SyntheticAssumption DEF Ceil, Src, Dst
  <2> HIDE DEF n
  <2>2. /\ tpc = "open" /\ tpc' = "loop" /\ program' = program
        /\ own' = [own EXCEPT !.allocated = n, !.max = n]
    BY <1>1 DEF ResamplingOpen, GoesTo, n
  <2>3. own' \in [backlog : Nat, allocated : Nat, max : Nat, offered : Nat]
        /\ own'.allocated = n /\ own'.max = n
        /\ own'.offered = own.offered /\ own'.backlog = own.backlog
    BY <2>1, <2>2 DEF ResamplingInv
  <2> QED
    BY <2>1, <2>2, <2>3 DEF ResamplingInv
<1>2. CASE ResamplingConvert
  <2>1. /\ tpc = "loop" /\ tpc' = "loop" /\ program' = program
        /\ own \in [backlog : Nat, allocated : Nat, max : Nat, offered : Nat]
        /\ own.backlog < Taps * Src + Dst /\ own.max = own.allocated
    BY <1>2 DEF ResamplingConvert, GoesTo, ResamplingInv
  <2>2. PICK d \in Delays :
          LET n == Ceil((d + SrcSamples) * Src, Dst)
              ready == own.backlog + SrcSamples * Src
              some == Min({n, Max({0, (ready - Taps * Src) \div Dst})})
          IN own' = [Sized(n) EXCEPT !.offered = n, !.backlog = ready - some * Dst]
    BY <1>2 DEF ResamplingConvert
  <2> DEFINE n == Ceil((d + SrcSamples) * Src, Dst)
             ready == own.backlog + SrcSamples * Src
             some == Min({n, Max({0, (ready - Taps * Src) \div Dst})})
             rest == ready - some * Dst
  <2>3. d \in Nat /\ 147 * d + 146 >= own.backlog
    BY <2>1 DEF Delays, Src, Ceil
  <2>4. n \in Nat /\ rest \in Nat /\ rest < Taps * Src + Dst
    BY <2>1, <2>3, SyntheticAssumption, ResampleOnce, SMTT(30)
  <2>5. own' = [Sized(n) EXCEPT !.offered = n, !.backlog = rest]
    BY <2>2
  <2> HIDE DEF n, rest
  <2>6. CASE n > own.max
    <3>1. own' = [[own EXCEPT !.max = n, !.allocated = n]
                    EXCEPT !.offered = n, !.backlog = rest]
      BY <2>5, <2>6 DEF Sized
    <3>2. /\ own' \in [backlog : Nat, allocated : Nat, max : Nat, offered : Nat]
          /\ own'.max = n /\ own'.allocated = n /\ own'.offered = n /\ own'.backlog = rest
      BY <2>1, <2>4, <3>1
    <3> QED
      BY <2>1, <2>4, <3>2 DEF ResamplingInv
  <2>7. CASE ~(n > own.max)
    <3>1. own' = [own EXCEPT !.offered = n, !.backlog = rest]
      BY <2>5, <2>7 DEF Sized
    <3>2. /\ own' \in [backlog : Nat, allocated : Nat, max : Nat, offered : Nat]
          /\ own'.max = own.max /\ own'.allocated = own.allocated
          /\ own'.offered = n /\ own'.backlog = rest
      BY <2>1, <2>4, <3>1
    <3> QED
      BY <2>1, <2>4, <2>7, <3>2 DEF ResamplingInv
  <2> QED
    BY <2>6, <2>7
<1>3. CASE ResamplingNoMemory
  <2>1. own' = [own EXCEPT !.allocated = 0] /\ tpc' = "ended" /\ program' = program
    BY <1>3 DEF ResamplingNoMemory, Exits
  <2> QED
    BY <2>1 DEF ResamplingInv
<1>4. CASE ResamplingDone \/ ResamplingOpenFails \/ ResamplingLoopFails
  <2>1. own' = own /\ tpc' = "ended" /\ program' = program
    BY <1>4
    DEF ResamplingDone, ResamplingOpenFails, ResamplingLoopFails, OpenFailure, OnlyExits, Exits
  <2> QED
    BY <2>1 DEF ResamplingInv
<1>5. CASE UNCHANGED toolVars
  BY <1>5 DEF toolVars, ResamplingInv
<1> QED
  BY <1>1, <1>2, <1>3, <1>4, <1>5 DEF ResamplingWorks, ResamplingFails

\* For any number of source samples and any filter, whichever way swr_get_delay()
\* rounds: the destination array is as large as swr_convert() is told, and what stays
\* in the resampler is bounded over any number of rounds.
THEOREM ResamplerAlwaysKeepsUp == ResamplingSpec => []ResamplerKeepsUp
<1>1. ResamplingInv => ResamplerKeepsUp
  BY DEF ResamplingInv, ResamplerKeepsUp
<1> QED
  BY <1>1, ResamplingInvInit, ResamplingKeeps, PTL DEF ResamplingSpec

-----------------------------------------------------------------------------
(* Encoders. *)

Frames == [n : Nat, stale : BOOLEAN, pts : Nat]

AacPackets == {[frame |-> f, size |-> s, header |-> Adts(s)] : f \in Frames, s \in PacketSizes}

PacketsOf(aac) == IF aac THEN AacPackets ELSE [frame : Frames]

\* The pts of frame n is behind by at most the frames that the encoder can hold.
PtsFits(n, pts) == pts <= n - 1 /\ n - 1 - EncoderDelay <= pts

LEMMA PtsFitsLate ==
  ASSUME NEW a \in Nat, NEW b \in Nat, b <= EncoderDelay
  PROVE  PtsFits(a + b + 1, a)
  BY EncoderAssumption DEF PtsFits

\* The frames of the packets w, and then those of q.
Row(w, q) ==
  [k \in 1..(Len(w) + Len(q)) |-> IF k <= Len(w) THEN w[k].frame ELSE q[k - Len(w)]]

\* A row of the numbers 1..L in which some neighbours have changed over, of which the
\* first N are written: nobody further than the first behind them has, and nobody
\* at all with AAC.
ChangedOver(g, N, L, aac) ==
  /\ g \in [1..L -> 1..L]
  /\ \A k \in 1..L : g[k] \in (k - 1)..(k + 1) /\ g[g[k]] = k /\ (aac => g[k] = k)
  /\ \A k \in (N + 2)..L : g[k] = k

Numbers(s) == [k \in DOMAIN s |-> s[k].n]

Numbered(w, q, aac) ==
  /\ ChangedOver(Numbers(Row(w, q)), Len(w), Len(w) + Len(q), aac)
  /\ \A k \in DOMAIN Row(w, q) : PtsFits(Row(w, q)[k].n, Row(w, q)[k].pts)

\* One more comes last.
LEMMA OneMore ==
  ASSUME NEW N \in Nat, NEW L \in Nat, N <= L, NEW aac \in BOOLEAN, NEW g,
         ChangedOver(g, N, L, aac), NEW h, DOMAIN h = 1..(L + 1), h[L + 1] = L + 1,
         \A k \in 1..L : h[k] = g[k], h = [k \in 1..(L + 1) |-> h[k]]
  PROVE  ChangedOver(h, N, L + 1, aac)
<1>1. \A k \in 1..(L + 1) : k \in 1..L \/ k = L + 1
  OBVIOUS
<1>2. \A k \in 1..L : g[k] \in 1..L /\ k \in 1..(L + 1)
  BY DEF ChangedOver
<1>3. h \in [1..(L + 1) -> 1..(L + 1)]
  BY <1>1, <1>2
<1>4. ASSUME NEW k \in 1..(L + 1)
      PROVE  h[k] \in (k - 1)..(k + 1) /\ h[h[k]] = k /\ (aac => h[k] = k)
  <2>1. CASE k \in 1..L
    <3>1. g[k] \in 1..L /\ g[k] \in (k - 1)..(k + 1) /\ g[g[k]] = k /\ (aac => g[k] = k)
      BY <2>1 DEF ChangedOver
    <3>2. h[k] = g[k] /\ h[g[k]] = g[g[k]]
      BY <2>1, <3>1
    <3> QED
      BY <3>1, <3>2
  <2>2. CASE k = L + 1
    BY <2>2
  <2> QED
    BY <1>1, <2>1, <2>2
<1>5. ASSUME NEW k \in (N + 2)..(L + 1) PROVE h[k] = k
  <2>1. k = L + 1 \/ (k \in 1..L /\ k \in (N + 2)..L)
    OBVIOUS
  <2> QED
    BY <2>1 DEF ChangedOver
<1> QED
  BY <1>3, <1>4, <1>5 DEF ChangedOver

\* The oldest of those not written is written.
LEMMA FirstWritten ==
  ASSUME NEW N \in Nat, NEW L \in Nat, NEW aac \in BOOLEAN, NEW g, ChangedOver(g, N, L, aac)
  PROVE  ChangedOver(g, N + 1, L, aac)
<1>1. \A k \in (N + 1 + 2)..L : k \in (N + 2)..L
  OBVIOUS
<1> QED
  BY <1>1 DEF ChangedOver

\* The second is written, behind one that is smaller than the first.
LEMMA SecondWritten ==
  ASSUME NEW N \in Nat \ {0}, NEW L \in Nat, N + 2 <= L, NEW g, ChangedOver(g, N, L, FALSE),
         g[N] < g[N + 1]
  PROVE  ChangedOver([g EXCEPT ![N + 1] = g[N + 2], ![N + 2] = g[N + 1]], N + 1, L, FALSE)
<1> DEFINE h == [g EXCEPT ![N + 1] = g[N + 2], ![N + 2] = g[N + 1]]
<1>1. N \in 1..L /\ N + 1 \in 1..L /\ N + 2 \in 1..L /\ N + 2 \in (N + 2)..L
  OBVIOUS
<1>2. g[N + 2] = N + 2 /\ g[N + 1] \in N..(N + 2) /\ g[g[N + 1]] = N + 1
  BY <1>1 DEF ChangedOver
<1>3. g[N + 1] = N + 1
  BY <1>1, <1>2
<1>4. g \in [1..L -> 1..L]
  BY DEF ChangedOver
<1>5. h \in [1..L -> 1..L] /\ h[N + 1] = N + 2 /\ h[N + 2] = N + 1
      /\ \A k \in 1..L : k \notin {N + 1, N + 2} => h[k] = g[k]
  BY <1>1, <1>2, <1>3, <1>4
<1> HIDE DEF h
<1>6. ASSUME NEW k \in 1..L, k \notin {N + 1, N + 2}
      PROVE  h[k] \in (k - 1)..(k + 1) /\ h[h[k]] = k
  <2>1. h[k] = g[k] /\ g[k] \in 1..L /\ g[k] \in (k - 1)..(k + 1) /\ g[g[k]] = k
    BY <1>5, <1>6 DEF ChangedOver
  <2>2. g[k] \notin {N + 1, N + 2}
    BY <1>2, <1>3, <1>6, <2>1
  <2> QED
    BY <1>5, <2>1, <2>2
<1>7. ASSUME NEW k \in 1..L PROVE h[k] \in (k - 1)..(k + 1) /\ h[h[k]] = k
  <2>1. CASE k = N + 1
    BY <1>5, <2>1
  <2>2. CASE k = N + 2
    BY <1>5, <2>2
  <2> QED
    BY <1>6, <2>1, <2>2
<1>8. \A k \in (N + 1 + 2)..L : h[k] = k
  <2>1. \A k \in (N + 1 + 2)..L : k \in (N + 2)..L /\ k \in 1..L /\ k \notin {N + 1, N + 2}
    OBVIOUS
  <2> QED
    BY <1>5, <2>1 DEF ChangedOver
<1> QED
  BY <1>5, <1>7, <1>8 DEF ChangedOver, h

LEMMA RowIs ==
  ASSUME NEW P, \A p \in P : p.frame \in Frames, NEW w \in Seq(P), NEW q \in Seq(Frames)
  PROVE  /\ Len(w) \in Nat /\ Len(q) \in Nat
         /\ Row(w, q) \in [1..(Len(w) + Len(q)) -> Frames]
         /\ \A k \in 1..Len(w) : k \in 1..(Len(w) + Len(q)) /\ Row(w, q)[k] = w[k].frame
         /\ \A k \in 1..Len(q) : Len(w) + k \in 1..(Len(w) + Len(q)) /\ Row(w, q)[Len(w) + k] = q[k]
<1> DEFINE N == Len(w)
           M == Len(q)
<1>1. /\ N \in Nat /\ M \in Nat
      /\ \A k \in 1..N : w[k].frame \in Frames
      /\ \A k \in 1..M : q[k] \in Frames
  BY LenProperties, ElementOfSeq
<1>2. Row(w, q) = [k \in 1..(N + M) |-> IF k <= N THEN w[k].frame ELSE q[k - N]]
  BY DEF Row
<1> HIDE DEF N, M
<1>3. \A k \in 1..(N + M) : (k <= N /\ k \in 1..N) \/ (~(k <= N) /\ k - N \in 1..M)
  BY <1>1
<1>4. Row(w, q) \in [1..(N + M) -> Frames]
  BY <1>1, <1>2, <1>3
<1>5. \A k \in 1..N : k \in 1..(N + M) /\ Row(w, q)[k] = w[k].frame
  BY <1>1, <1>2
<1>6. \A k \in 1..M : N + k \in 1..(N + M) /\ ~(N + k <= N) /\ N + k - N = k
  BY <1>1
<1>7. ASSUME NEW k \in 1..M PROVE N + k \in 1..(N + M) /\ Row(w, q)[N + k] = q[k]
  <2>1. PICK j \in 1..(N + M) : j = N + k
    BY <1>6
  <2>2. ~(j <= N) /\ j - N = k
    BY <1>1, <1>6, <2>1
  <2> QED
    BY <1>2, <2>1, <2>2
<1> QED
  BY <1>1, <1>4, <1>5, <1>7 DEF N, M

\* Nothing is read yet.
LEMMA NumberedEmpty == ASSUME NEW aac \in BOOLEAN PROVE Numbered(<<>>, <<>>, aac)
<1>1. DOMAIN Row(<<>>, <<>>) = {} /\ Len(<<>>) = 0
  BY DEF Row
<1>2. DOMAIN Numbers(Row(<<>>, <<>>)) = {}
      /\ Numbers(Row(<<>>, <<>>)) = [k \in {} |-> Row(<<>>, <<>>)[k].n]
  BY <1>1 DEF Numbers
<1>3. Numbers(Row(<<>>, <<>>)) \in [1..0 -> 1..0]
  <2>1. 1..0 = {}
    OBVIOUS
  <2> QED
    BY <1>2, <2>1
<1>4. ChangedOver(Numbers(Row(<<>>, <<>>)), 0, 0, aac)
  BY <1>3 DEF ChangedOver
<1> QED
  BY <1>1, <1>4 DEF Numbered

\* The encoder takes a frame.
LEMMA NumberedTakes ==
  ASSUME NEW P, \A p \in P : p.frame \in Frames, NEW w \in Seq(P), NEW q \in Seq(Frames),
         NEW f \in Frames, NEW aac \in BOOLEAN,
         Numbered(w, q, aac), f.n = Len(w) + Len(q) + 1, f.pts = Len(w), Len(q) <= EncoderDelay
  PROVE  Numbered(w, Append(q, f), aac)
<1> DEFINE r == Append(q, f)
           a == Row(w, q)
           b == Row(w, r)
           N == Len(w)
           L == Len(w) + Len(q)
<1>1. r \in Seq(Frames) /\ Len(r) = Len(q) + 1 /\ r[Len(q) + 1] = f
      /\ \A k \in 1..Len(q) : r[k] = q[k]
  BY AppendProperties
<1> HIDE DEF r
<1>2. /\ Len(w) \in Nat /\ Len(q) \in Nat /\ a \in [1..L -> Frames]
      /\ \A k \in 1..Len(w) : a[k] = w[k].frame
      /\ \A k \in 1..Len(q) : a[Len(w) + k] = q[k]
  BY RowIs
<1>3. /\ b \in [1..(Len(w) + Len(r)) -> Frames]
      /\ \A k \in 1..Len(w) : b[k] = w[k].frame
      /\ \A k \in 1..Len(r) : b[Len(w) + k] = r[k]
  BY <1>1, RowIs
<1> HIDE DEF a, b
<1>4. Len(w) + Len(r) = L + 1 /\ L \in Nat /\ N \in Nat /\ N <= L
  BY <1>1, <1>2
<1>5. b[L + 1] = f
  <2>1. Len(q) + 1 \in 1..Len(r) /\ Len(w) + (Len(q) + 1) = L + 1
    BY <1>1, <1>2
  <2> QED
    BY <1>1, <1>3, <2>1
<1>6. ASSUME NEW k \in 1..L PROVE b[k] = a[k]
  <2>1. CASE k <= Len(w)
    <3>1. k \in 1..Len(w)
      BY <1>2, <2>1
    <3> QED
      BY <1>2, <1>3, <3>1
  <2>2. CASE ~(k <= Len(w))
    <3>1. PICK j \in 1..Len(q) : Len(w) + j = k
      <4>1. k - Len(w) \in 1..Len(q) /\ Len(w) + (k - Len(w)) = k
        BY <1>2, <2>2
      <4> QED
        BY <4>1
    <3>2. j \in 1..Len(r)
      BY <1>1, <1>2
    <3>3. b[k] = r[j] /\ a[k] = q[j] /\ r[j] = q[j]
      BY <1>1, <1>2, <1>3, <3>1, <3>2
    <3> QED
      BY <3>3
  <2> QED
    BY <2>1, <2>2
<1>7. /\ Numbers(a) = [k \in 1..L |-> a[k].n] /\ Numbers(b) = [k \in 1..(L + 1) |-> b[k].n]
  BY <1>2, <1>3, <1>4 DEF Numbers
<1>8. ChangedOver(Numbers(a), N, L, aac)
      /\ \A k \in 1..L : PtsFits(a[k].n, a[k].pts)
  BY <1>2 DEF Numbered, a
<1>9. f.n = L + 1 /\ PtsFits(f.n, f.pts)
  BY <1>2, PtsFitsLate
<1> HIDE DEF L, N
<1>10. \A k \in 1..(L + 1) : k \in 1..L \/ k = L + 1
  BY <1>4
<1>11. ChangedOver(Numbers(b), N, L + 1, aac)
  <2>1. /\ DOMAIN Numbers(b) = 1..(L + 1) /\ Numbers(b)[L + 1] = L + 1
        /\ Numbers(b) = [k \in 1..(L + 1) |-> Numbers(b)[k]]
    BY <1>4, <1>5, <1>7, <1>9
  <2>2. \A k \in 1..L : Numbers(b)[k] = Numbers(a)[k]
    BY <1>4, <1>6, <1>7
  <2> QED
    BY <1>4, <1>8, <2>1, <2>2, OneMore
<1>12. \A k \in 1..(L + 1) : PtsFits(b[k].n, b[k].pts)
  BY <1>5, <1>6, <1>8, <1>9, <1>10
<1>13. DOMAIN b = 1..(L + 1)
  BY <1>3, <1>4
<1> QED
  BY <1>4, <1>11, <1>12, <1>13 DEF Numbered, b, r, N

\* It gives out the packet of its oldest frame, or of the second.
LEMMA NumberedGives ==
  ASSUME NEW P, \A p \in P : p.frame \in Frames, NEW w \in Seq(P), NEW q \in Seq(Frames),
         q # <<>>, NEW aac \in BOOLEAN, NEW i \in 1..2, NEW p \in P, p.frame = q[i],
         Numbered(w, q, aac), NEW r,
         r = [k \in 1..(Len(q) - 1) |-> IF k < i THEN q[k] ELSE q[k + 1]],
         i = 2 => ~aac /\ Len(q) > 1 /\ w # <<>> /\ w[Len(w)].frame.n < q[1].n
  PROVE  /\ r \in Seq(Frames) /\ Len(r) = Len(q) - 1
         /\ Numbered(Append(w, p), r, aac)
<1> DEFINE v == Append(w, p)
           a == Row(w, q)
           b == Row(v, r)
           N == Len(w)
           L == Len(w) + Len(q)
<1>1. v \in Seq(P) /\ Len(v) = Len(w) + 1 /\ v[Len(w) + 1] = p
      /\ \A k \in 1..Len(w) : v[k] = w[k]
  BY AppendProperties
<1> HIDE DEF v
<1>2. Len(q) \in Nat \ {0} /\ \A k \in 1..Len(q) : q[k] \in Frames
  BY EmptySeq, LenProperties, ElementOfSeq
<1>3. r \in Seq(Frames) /\ Len(r) = Len(q) - 1
  <2>1. \A k \in 1..(Len(q) - 1) : (IF k < i THEN q[k] ELSE q[k + 1]) \in Frames
    BY <1>2
  <2>2. Len(q) - 1 \in Nat
    BY <1>2
  <2> QED
    BY <2>1, <2>2
<1>4. /\ Len(w) \in Nat /\ a \in [1..L -> Frames]
      /\ \A k \in 1..Len(w) : a[k] = w[k].frame
      /\ \A k \in 1..Len(q) : a[Len(w) + k] = q[k]
  BY RowIs
<1>5. /\ b \in [1..(Len(v) + Len(r)) -> Frames]
      /\ \A k \in 1..Len(v) : b[k] = v[k].frame
      /\ \A k \in 1..Len(r) : b[Len(v) + k] = r[k]
  <2>1. PICK x, y : x = v /\ y = r
    OBVIOUS
  <2>2. x \in Seq(P) /\ y \in Seq(Frames)
    BY <1>1, <1>3, <2>1
  <2>3. /\ Row(x, y) \in [1..(Len(x) + Len(y)) -> Frames]
        /\ \A k \in 1..Len(x) : Row(x, y)[k] = x[k].frame
        /\ \A k \in 1..Len(y) : Row(x, y)[Len(x) + k] = y[k]
    BY <2>2, RowIs
  <2> QED
    BY <2>1, <2>3, Zenon
<1> HIDE DEF a, b
<1>6. Len(v) + Len(r) = L /\ L \in Nat /\ N \in Nat /\ N + 1 <= L /\ N + 1 \in 1..L
  <2>1. PICK x \in Nat, y \in Nat \ {0} : x = Len(w) /\ y = Len(q)
    BY <1>2, <1>4
  <2>2. Len(v) = x + 1 /\ Len(r) = y - 1 /\ L = x + y /\ N = x
    BY <1>1, <1>3, <2>1
  <2> HIDE DEF L, N
  <2>3. \A m \in Nat, n \in Nat \ {0} :
          m + 1 + (n - 1) = m + n /\ m + n \in Nat /\ m + 1 <= m + n /\ m + 1 \in 1..(m + n)
    OBVIOUS
  <2> QED
    BY <2>1, <2>2, <2>3
<1>7. /\ ChangedOver(Numbers(a), N, L, aac)
      /\ \A k \in 1..L : PtsFits(a[k].n, a[k].pts)
  BY <1>4 DEF Numbered, a
<1>8. Numbers(a) = [k \in 1..L |-> a[k].n] /\ Numbers(b) = [k \in 1..L |-> b[k].n]
  BY <1>4, <1>5, <1>6 DEF Numbers
<1>9. \A k \in 1..N : b[k] = a[k]
  <2> SUFFICES ASSUME NEW k \in 1..Len(w) PROVE b[k] = a[k]
    OBVIOUS
  <2>1. k \in 1..Len(v)
    BY <1>1, <1>4
  <2>2. b[k] = v[k].frame /\ v[k] = w[k]
    BY <1>1, <1>5, <2>1
  <2> QED
    BY <1>4, <2>2
<1>10. b[N + 1] = q[i] /\ a[N + 1] = q[1]
  <2>1. N + 1 \in 1..Len(v) /\ 1 \in 1..Len(q)
    BY <1>1, <1>2, <1>4
  <2> QED
    BY <1>1, <1>4, <1>5, <2>1
<1>11. ASSUME NEW k \in (N + 2)..L
       PROVE  b[k] = (IF k - N - 1 < i THEN q[k - N - 1] ELSE q[k - N]) /\ a[k] = q[k - N]
  <2>1. /\ k - N - 1 \in 1..(Len(q) - 1) /\ Len(v) + (k - N - 1) = k
        /\ k - N \in 1..Len(q) /\ Len(w) + (k - N) = k /\ k - N - 1 + 1 = k - N
    BY <1>1, <1>2, <1>3, <1>4, <1>11
  <2>2. r[k - N - 1] = IF k - N - 1 < i THEN q[k - N - 1] ELSE q[k - N - 1 + 1]
    BY <2>1
  <2>3. b[k] = r[k - N - 1]
    BY <1>3, <1>5, <2>1
  <2> QED
    BY <1>4, <2>1, <2>2, <2>3
<1> HIDE DEF N, L
<1>12. DOMAIN a = 1..L /\ DOMAIN b = 1..L
  BY <1>4, <1>5, <1>6
<1>13. \A k \in 1..L : k \in 1..N \/ k = N + 1 \/ k \in (N + 2)..L
  BY <1>6
<1>14. CASE i = 1
  <2>1. \A k \in (N + 2)..L : b[k] = a[k]
    <3>1. \A k \in (N + 2)..L : ~(k - N - 1 < 1)
      BY <1>6
    <3> QED
      BY <1>11, <1>14, <3>1
  <2>2. \A k \in 1..L : b[k] = a[k]
    BY <1>9, <1>10, <1>13, <1>14, <2>1
  <2>3. Numbers(b) = Numbers(a)
    BY <1>8, <2>2
  <2>4. ChangedOver(Numbers(b), N + 1, L, aac)
    BY <1>6, <1>7, <2>3, FirstWritten
  <2>5. \A k \in 1..L : PtsFits(b[k].n, b[k].pts)
    BY <1>7, <2>2
  <2>6. Len(v) = N + 1
    BY <1>1 DEF N
  <2> QED
    BY <1>3, <1>6, <1>12, <2>4, <2>5, <2>6 DEF Numbered, b, v
<1>15. CASE i = 2
  <2>1. /\ aac = FALSE /\ Len(q) > 1 /\ w # <<>> /\ w[Len(w)].frame.n < q[1].n
    BY <1>15
  <2>2. N \in Nat \ {0} /\ N + 2 <= L /\ N + 2 \in (N + 2)..L /\ N \in 1..N
    BY <1>2, <1>4, <2>1, EmptySeq, LenProperties DEF N, L
  <2>3. b[N + 1] = a[N + 2] /\ b[N + 2] = a[N + 1]
    <3>1. N + 2 - N - 1 = 1 /\ N + 2 - N = 2 /\ 1 < i
      BY <1>6, <1>15
    <3>2. b[N + 2] = q[1] /\ a[N + 2] = q[2]
      BY <1>11, <2>2, <3>1
    <3> QED
      BY <1>10, <1>15, <3>2
  <2>4. \A k \in (N + 2)..L : k # N + 2 => b[k] = a[k]
    <3>1. \A k \in (N + 2)..L : k # N + 2 => ~(k - N - 1 < 2)
      BY <1>6
    <3> QED
      BY <1>11, <1>15, <3>1
  <2>5. \A k \in 1..L : k \notin {N + 1, N + 2} => b[k] = a[k]
    BY <1>9, <1>13, <2>4
  <2> DEFINE g == Numbers(a)
             h == [g EXCEPT ![N + 1] = g[N + 2], ![N + 2] = g[N + 1]]
  <2>6. g[N] < g[N + 1]
    <3>1. a[N] = w[Len(w)].frame /\ a[N + 1] = q[1] /\ N \in 1..L
      BY <1>4, <1>6, <1>10, <2>2 DEF N
    <3> QED
      BY <1>6, <1>8, <2>1, <3>1
  <2>7. N + 1 \in 1..L /\ N + 2 \in 1..L /\ N + 1 # N + 2
    BY <1>6, <2>2
  <2>8. Numbers(b) = h
    <3>1. h = [k \in 1..L |-> IF k = N + 2 THEN g[N + 1] ELSE IF k = N + 1 THEN g[N + 2] ELSE g[k]]
      BY <1>8
    <3>2. \A k \in 1..L : b[k].n =
            IF k = N + 2 THEN g[N + 1] ELSE IF k = N + 1 THEN g[N + 2] ELSE g[k]
      BY <1>8, <2>3, <2>5, <2>7
    <3> HIDE DEF g, h
    <3> QED
      BY <1>8, <3>1, <3>2
  <2>9. ChangedOver(Numbers(b), N + 1, L, aac)
    <3>1. ChangedOver(g, N, L, FALSE)
      BY <1>7, <2>1
    <3>2. N \in Nat \ {0} /\ L \in Nat /\ N + 2 <= L
      BY <1>6, <2>2
    <3> HIDE DEF g
    <3>3. ChangedOver(h, N + 1, L, FALSE)
      BY <2>6, <3>1, <3>2, SecondWritten
    <3> HIDE DEF h
    <3> QED
      BY <2>1, <2>8, <3>3
  <2>10. \A k \in 1..L : PtsFits(b[k].n, b[k].pts)
    BY <1>7, <2>3, <2>5, <2>7
  <2>11. Len(v) = N + 1
    BY <1>1 DEF N
  <2> QED
    BY <1>3, <1>6, <1>12, <2>9, <2>10, <2>11 DEF Numbered, b, v
<1> QED
  BY <1>14, <1>15

\* The local variables of main().
EncoderOwn == [aac : BOOLEAN, frameCount : Nat, ret : {0, -1}, garbage : BOOLEAN]

LEMMA EncoderCounts ==
  ASSUME NEW o \in EncoderOwn
  PROVE  LET c == [o EXCEPT !.frameCount = @ + 1]
         IN c \in EncoderOwn /\ c.aac = o.aac /\ c.frameCount = o.frameCount + 1
  BY DEF EncoderOwn

LEMMA EncoderDefines ==
  ASSUME NEW o \in EncoderOwn
  PROVE  LET c == [o EXCEPT !.garbage = FALSE]
         IN c \in EncoderOwn /\ c.aac = o.aac /\ c.frameCount = o.frameCount
  BY DEF EncoderOwn

EncoderInv ==
  /\ own \in EncoderOwn
  /\ program = IF own.aac THEN "encode_aac" ELSE "encode_h264"
  /\ input \in RawFiles
  /\ inside \in Seq(Frames) /\ Len(inside) <= EncoderDelay
  /\ out \in [{"file"} -> Seq(PacketsOf(own.aac))]
  /\ taken = Len(out["file"]) + Len(inside) /\ taken <= Len(input.packets)
  /\ Numbered(out["file"], inside, own.aac)
  /\ tpc \in {"open", "loop"} => own.frameCount = Len(out["file"])
  /\ tpc = "drain" => taken = Len(input.packets)
  /\ tpc # "ended" => code = NoCode
  /\ code = 0 /\ own.ret = 0 => inside = <<>> /\ taken = Len(input.packets)

LEMMA EncoderInvInit == (\E aac \in BOOLEAN : EncoderInit(aac)) => EncoderInv
<1> SUFFICES ASSUME NEW aac \in BOOLEAN, EncoderInit(aac) PROVE EncoderInv
  OBVIOUS
<1>1. /\ program = (IF aac THEN "encode_aac" ELSE "encode_h264")
      /\ own = [aac |-> aac, frameCount |-> 0, ret |-> 0, garbage |-> ~aac]
      /\ input \in RawFiles /\ inside = <<>> /\ taken = 0 /\ tpc = "open" /\ code = NoCode
      /\ out = [o \in {"file"} |-> <<>>]
  BY DEF EncoderInit, ToolInit
<1>2. own \in EncoderOwn
      /\ own.aac = aac /\ own.frameCount = 0
  <2>1. (~aac) \in BOOLEAN
    OBVIOUS
  <2> QED
    BY <1>1, <2>1 DEF EncoderOwn
<1>3. out["file"] = <<>> /\ Len(<<>>) = 0 /\ <<>> \in Seq(Frames)
      /\ out \in [{"file"} -> Seq(PacketsOf(own.aac))]
  BY <1>1
<1>4. Numbered(<<>>, <<>>, own.aac)
  BY <1>2, NumberedEmpty
<1>5. Len(input.packets) \in Nat
  BY <1>1, EncoderAssumption, LenProperties
<1> QED
  BY <1>1, <1>2, <1>3, <1>4, <1>5, EncoderAssumption DEF EncoderInv, EncoderOwn, NoCode

LEMMA PacketsHaveFrames == ASSUME NEW aac \in BOOLEAN PROVE \A p \in PacketsOf(aac) : p.frame \in Frames
  BY DEF PacketsOf, AacPackets

\* The packet of one of the frames q is written.
LEMMA EncoderWrites ==
  ASSUME EncoderInv, NEW q \in Seq(Frames), q # <<>>, Encodes(q),
         Numbered(out["file"], q, own.aac), Len(q) - 1 <= EncoderDelay, own'.aac = own.aac
  PROVE  /\ out' \in [{"file"} -> Seq(PacketsOf(own'.aac))]
         /\ Len(out'["file"]) = Len(out["file"]) + 1
         /\ inside' \in Seq(Frames) /\ Len(inside') = Len(q) - 1 /\ Len(inside') <= EncoderDelay
         /\ Numbered(out'["file"], inside', own'.aac)
<1> DEFINE P == PacketsOf(own.aac)
           w == out["file"]
<1>0. own.aac \in BOOLEAN /\ \A p \in P : p.frame \in Frames
  BY PacketsHaveFrames DEF EncoderInv, EncoderOwn
<1>1. PICK i \in Coded(q) :
        /\ inside' = [k \in 1..(Len(q) - 1) |-> IF k < i THEN q[k] ELSE q[k + 1]]
        /\ WritesPacket(q[i])
  BY DEF Encodes
<1>2. PICK p \in Packed(q[i]) : out' = [out EXCEPT !["file"] = Append(@, p)]
  BY <1>1 DEF WritesPacket
<1>3. Len(q) \in Nat \ {0} /\ Head(q) = q[1] /\ \A k \in 1..Len(q) : q[k] \in Frames
  BY EmptySeq, HeadTailProperties, LenProperties, ElementOfSeq
<1>4. out \in [{"file"} -> Seq(P)] /\ w \in Seq(P)
  BY DEF EncoderInv
<1>5. i \in 1..2 /\ i \in 1..Len(q)
      /\ (i = 2 => ~own.aac /\ Len(q) > 1 /\ w # <<>> /\ w[Len(w)].frame.n < q[1].n)
  BY <1>1, <1>3 DEF Coded, Latest, Last
<1>6. p \in P /\ p.frame = q[i]
  <2>1. q[i] \in Frames
    BY <1>3, <1>5
  <2> QED
    BY <1>2, <2>1 DEF Packed, PacketsOf, AacPackets
<1>7. out'["file"] = Append(w, p)
  BY <1>2, <1>4
<1> HIDE DEF P, w
<1>8. /\ Append(w, p) \in Seq(P) /\ Len(Append(w, p)) = Len(w) + 1
  BY <1>4, <1>6, AppendProperties
<1>9. out' \in [{"file"} -> Seq(P)]
  BY <1>2, <1>4, <1>8 DEF w
<1>10. Numbered(w, q, own.aac)
  BY DEF w
<1>11. /\ inside' \in Seq(Frames) /\ Len(inside') = Len(q) - 1
       /\ Numbered(Append(w, p), inside', own.aac)
  <2>1. PICK r, c, v, S : r = inside' /\ c = own.aac /\ v = w /\ S = P
    OBVIOUS
  <2>2. r \in Seq(Frames) /\ Len(r) = Len(q) - 1 /\ Numbered(Append(v, p), r, c)
    <3>1. /\ c \in BOOLEAN /\ \A x \in S : x.frame \in Frames
          /\ v \in Seq(S) /\ p \in S /\ p.frame = q[i] /\ i \in 1..2
      BY <1>0, <1>4, <1>5, <1>6, <2>1
    <3>2. /\ r = [k \in 1..(Len(q) - 1) |-> IF k < i THEN q[k] ELSE q[k + 1]]
          /\ i = 2 => ~c /\ Len(q) > 1 /\ v # <<>> /\ v[Len(v)].frame.n < q[1].n
      BY <1>1, <1>5, <2>1
    <3>3. Numbered(v, q, c)
      BY <1>10, <2>1
    <3> QED
      BY <3>1, <3>2, <3>3, NumberedGives
  <2> QED
    BY <2>1, <2>2
<1> QED
  BY <1>7, <1>8, <1>9, <1>11 DEF P, w

\* A frame that is read follows those in the file and in the encoder.
LEMMA FrameFollows ==
  ASSUME EncoderInv, AtPacket
  PROVE  /\ Frame \in Frames /\ Frame.n = Len(out["file"]) + Len(inside) + 1
         /\ Frame.pts = Len(out["file"])
         /\ taken + 1 <= Len(input.packets)
<1>1. own.frameCount = Len(out["file"]) /\ out["file"] \in Seq(PacketsOf(own.aac))
      /\ taken = Len(out["file"]) + Len(inside) /\ inside \in Seq(Frames)
  BY DEF EncoderInv, AtPacket
<1>2. taken \in Nat /\ Len(out["file"]) \in Nat
  BY <1>1, LenProperties
<1>3. (Packet = "part") \in BOOLEAN
  OBVIOUS
<1>4. Len(input.packets) \in Nat
  <2>1. input.packets \in Seq({"full", "part"})
    <3>1. input \in RawFiles
      BY DEF EncoderInv
    <3>2. input \in [packets : Seq({"full", "part"})]
      BY <3>1, EncoderAssumption
    <3> QED
      BY <3>2
  <2> QED
    BY <2>1, LenProperties
<1> QED
  BY <1>1, <1>2, <1>3, <1>4 DEF Frame, Frames, AtPacket

LEMMA EncoderKeeps ==
  EncoderInv /\ [EncoderWorks \/ EncoderFails]_toolVars => EncoderInv'
<1> SUFFICES ASSUME EncoderInv, [EncoderWorks \/ EncoderFails]_toolVars
             PROVE  EncoderInv'
  OBVIOUS
<1> USE DEF GoesTo, Exits, OnlyGoesTo, OnlyExits
<1>0. /\ own \in EncoderOwn
      /\ inside \in Seq(Frames) /\ Len(inside) \in Nat
      /\ out["file"] \in Seq(PacketsOf(own.aac)) /\ Len(out["file"]) \in Nat
      /\ taken = Len(out["file"]) + Len(inside) /\ EncoderDelay \in Nat
      /\ Len(inside) <= EncoderDelay
  <2>1. /\ own \in EncoderOwn
        /\ inside \in Seq(Frames) /\ out["file"] \in Seq(PacketsOf(own.aac))
        /\ taken = Len(out["file"]) + Len(inside) /\ Len(inside) <= EncoderDelay
    BY DEF EncoderInv
  <2>2. Len(inside) \in Nat /\ Len(out["file"]) \in Nat
    BY <2>1, LenProperties
  <2> QED
    BY <2>1, <2>2, EncoderAssumption
<1>1. CASE EncodeOpen
  BY <1>1 DEF EncodeOpen, OpenSucceeds, EncoderInv
<1>2. CASE EncodeHolds
  <2>1. /\ UNCHANGED <<program, input, out, code>> /\ taken' = taken + 1
        /\ tpc = "loop" /\ tpc' = "loop" /\ inside' = Append(inside, Frame)
        /\ Len(inside) < EncoderDelay /\ AtPacket
        /\ own' = [own EXCEPT !.garbage = FALSE]
    BY <1>2 DEF EncodeHolds, AtPacket, Reads, Holds
  <2>2. own' \in EncoderOwn
        /\ own'.aac = own.aac /\ own'.frameCount = own.frameCount
    BY <1>0, <2>1, EncoderDefines
  <2>3. Frame \in Frames /\ Frame.n = Len(out["file"]) + Len(inside) + 1
        /\ Frame.pts = Len(out["file"]) /\ taken + 1 <= Len(input.packets)
    BY <2>1, FrameFollows
  <2>4. inside' \in Seq(Frames) /\ Len(inside') = Len(inside) + 1
    BY <1>0, <2>1, <2>3, AppendProperties
  <2>5. Numbered(out["file"], Append(inside, Frame), own.aac)
    <3>1. own.aac \in BOOLEAN /\ \A p \in PacketsOf(own.aac) : p.frame \in Frames
      BY <1>0, PacketsHaveFrames DEF EncoderOwn
    <3>2. Numbered(out["file"], inside, own.aac)
      BY DEF EncoderInv
    <3> QED
      BY <1>0, <2>3, <3>1, <3>2, NumberedTakes
  <2>6. Len(inside') <= EncoderDelay /\ taken' = Len(out["file"]) + Len(inside')
    <3>1. \A a, b, d \in Nat : b < d => b + 1 <= d /\ a + b + 1 = a + (b + 1)
      OBVIOUS
    <3>2. /\ Len(inside) \in Nat /\ Len(out["file"]) \in Nat /\ EncoderDelay \in Nat
          /\ Len(inside) < EncoderDelay
      BY <1>0, <2>1
    <3>3. Len(inside) + 1 <= EncoderDelay
          /\ Len(out["file"]) + Len(inside) + 1 = Len(out["file"]) + (Len(inside) + 1)
      BY <3>1, <3>2
    <3> QED
      BY <1>0, <2>1, <2>4, <3>3
  <2> QED
    BY <2>1, <2>2, <2>3, <2>4, <2>5, <2>6 DEF EncoderInv, NoCode
<1>3. CASE EncodeGives
  <2> DEFINE q == Append(inside, Frame)
  <2>1. /\ UNCHANGED <<program, input, code>> /\ taken' = taken + 1
        /\ tpc = "loop" /\ tpc' = "loop" /\ Encodes(q)
        /\ AtPacket
        /\ own' = [own EXCEPT !.garbage = FALSE, !.frameCount = @ + 1]
    BY <1>3 DEF EncodeGives, AtPacket, Reads
  <2>2. own' \in EncoderOwn
        /\ own'.aac = own.aac /\ own'.frameCount = own.frameCount + 1
    <3>1. own' = [[own EXCEPT !.garbage = FALSE] EXCEPT !.frameCount = @ + 1]
      BY <1>0, <2>1 DEF EncoderOwn
    <3> QED
      BY <1>0, <3>1, EncoderDefines, EncoderCounts
  <2>3. Frame \in Frames /\ Frame.n = Len(out["file"]) + Len(inside) + 1
        /\ Frame.pts = Len(out["file"]) /\ taken + 1 <= Len(input.packets)
    BY <2>1, FrameFollows
  <2>4. q \in Seq(Frames) /\ Len(q) = Len(inside) + 1
    BY <1>0, <2>3, AppendProperties
  <2>5. Numbered(out["file"], q, own.aac)
    <3>1. own.aac \in BOOLEAN /\ \A p \in PacketsOf(own.aac) : p.frame \in Frames
      BY <1>0, PacketsHaveFrames DEF EncoderOwn
    <3>2. Numbered(out["file"], inside, own.aac)
      BY DEF EncoderInv
    <3> QED
      BY <1>0, <2>3, <3>1, <3>2, NumberedTakes
  <2> HIDE DEF q
  <2>6. q # <<>> /\ Len(q) - 1 <= EncoderDelay
    BY <1>0, <2>4, EmptySeq DEF EncoderInv
  <2>7. /\ out' \in [{"file"} -> Seq(PacketsOf(own'.aac))]
        /\ Len(out'["file"]) = Len(out["file"]) + 1
        /\ inside' \in Seq(Frames) /\ Len(inside') = Len(q) - 1 /\ Len(inside') <= EncoderDelay
        /\ Numbered(out'["file"], inside', own'.aac)
    BY <2>1, <2>2, <2>4, <2>5, <2>6, EncoderWrites
  <2>8. taken' = Len(out'["file"]) + Len(inside') /\ own'.frameCount = Len(out'["file"])
    <3>1. own.frameCount = Len(out["file"]) /\ taken' = Len(out["file"]) + Len(inside) + 1
      BY <1>0, <2>1 DEF EncoderInv
    <3>2. Len(inside') = Len(inside) + 1 - 1 /\ Len(out'["file"]) = Len(out["file"]) + 1
      BY <2>4, <2>7
    <3>3. \A a, b \in Nat : a + b + 1 = a + 1 + (b + 1 - 1)
      OBVIOUS
    <3>4. Len(out["file"]) + Len(inside) + 1 = Len(out["file"]) + 1 + (Len(inside) + 1 - 1)
      BY <1>0, <3>3
    <3> QED
      BY <2>2, <3>1, <3>2, <3>4
  <2> QED
    BY <2>1, <2>2, <2>3, <2>7, <2>8 DEF EncoderInv, NoCode
<1>4. CASE EncodeAtEnd
  <2>1. /\ UNCHANGED <<program, input, code, taken, inside, out>>
        /\ tpc = "loop" /\ tpc' = "drain" /\ taken = Len(input.packets)
        /\ own' = [own EXCEPT !.frameCount = @ + 1]
    BY <1>4 DEF EncodeAtEnd, AtEnd
  <2>2. own' \in EncoderOwn
        /\ own'.aac = own.aac
    BY <1>0, <2>1, EncoderCounts
  <2>3. code = NoCode /\ PacketsOf(own'.aac) = PacketsOf(own.aac)
    BY <2>1, <2>2 DEF EncoderInv
  <2>4. program' = (IF own'.aac THEN "encode_aac" ELSE "encode_h264")
    BY <2>1, <2>2 DEF EncoderInv
  <2>5. /\ input' \in RawFiles /\ inside' \in Seq(Frames) /\ Len(inside') <= EncoderDelay
        /\ out' \in [{"file"} -> Seq(PacketsOf(own'.aac))]
    BY <2>1, <2>3 DEF EncoderInv
  <2>6. /\ taken' = Len(out'["file"]) + Len(inside') /\ taken' <= Len(input'.packets)
        /\ Numbered(out'["file"], inside', own'.aac) /\ taken' = Len(input'.packets)
    BY <2>1, <2>2 DEF EncoderInv
  <2>7. tpc' = "drain" /\ code' = NoCode
    BY <2>1, <2>3
  <2> QED
    BY <2>2, <2>4, <2>5, <2>6, <2>7 DEF EncoderInv, NoCode
<1>5. CASE EncodeDrains
  <2>1. /\ UNCHANGED <<program, input, code, taken>>
        /\ tpc = "drain" /\ tpc' = "drain" /\ inside # <<>>
        /\ Encodes(inside)
        /\ own' = [own EXCEPT !.frameCount = @ + 1]
    BY <1>5 DEF EncodeDrains
  <2>2. own' \in EncoderOwn
        /\ own'.aac = own.aac
    BY <1>0, <2>1, EncoderCounts
  <2>3. Numbered(out["file"], inside, own.aac) /\ Len(inside) - 1 <= EncoderDelay
    BY <1>0 DEF EncoderInv
  <2>4. /\ out' \in [{"file"} -> Seq(PacketsOf(own'.aac))]
        /\ Len(out'["file"]) = Len(out["file"]) + 1
        /\ inside' \in Seq(Frames) /\ Len(inside') = Len(inside) - 1
        /\ Len(inside') <= EncoderDelay /\ Numbered(out'["file"], inside', own'.aac)
    BY <1>0, <2>1, <2>2, <2>3, EncoderWrites
  <2>5. taken = Len(out'["file"]) + Len(inside')
    BY <1>0, <2>4
  <2> QED
    BY <2>1, <2>2, <2>4, <2>5 DEF EncoderInv, NoCode
<1>6. CASE EncodeDone
  BY <1>6 DEF EncodeDone, EncoderInv
<1>7. CASE EncodeOpenFails \/ EncodeToGarbage
  <2>1. UNCHANGED <<program, input, taken, inside, out, own>> /\ tpc' = "ended" /\ code' # 0
    BY <1>7 DEF EncodeOpenFails, OpenFailure, EncodeToGarbage, Crashed
  <2> QED
    BY <2>1 DEF EncoderInv
<1>8. CASE EncodeFails
  <2>1. /\ UNCHANGED <<program, input, taken, inside, out>> /\ tpc' = "ended"
        /\ own' = [own EXCEPT !.ret = -1]
    BY <1>8 DEF EncodeFails
  <2>2. own' \in EncoderOwn
        /\ own'.aac = own.aac /\ own'.ret = -1
    BY <1>0, <2>1 DEF EncoderOwn
  <2> QED
    BY <2>1, <2>2 DEF EncoderInv
<1>9. CASE UNCHANGED toolVars
  BY <1>9 DEF toolVars, EncoderInv
<1> QED
  BY <1>1, <1>2, <1>3, <1>4, <1>5, <1>6, <1>7, <1>8, <1>9 DEF EncoderWorks, EncoderFails

\* The packets of the file and the frames inside are the row.
LEMMA NumberedInOrder ==
  ASSUME EncoderInv
  PROVE  LET f == EncodedFrames \o inside
         IN /\ DOMAIN f = 1..taken
            /\ ChangedOver(Numbers(f), Len(out["file"]), taken, own.aac)
            /\ \A k \in 1..taken : f[k] \in Frames /\ PtsFits(f[k].n, f[k].pts)
<1> DEFINE w == out["file"]
           e == EncodedFrames
           f == e \o inside
           r == Row(w, inside)
<1>1. w \in Seq(PacketsOf(own.aac)) /\ inside \in Seq(Frames) /\ taken = Len(w) + Len(inside)
      /\ Numbered(w, inside, own.aac)
  BY DEF EncoderInv
<1>2. \A p \in PacketsOf(own.aac) : p.frame \in Frames
  BY PacketsHaveFrames DEF EncoderInv, EncoderOwn
<1>3. Len(w) \in Nat /\ DOMAIN w = 1..Len(w) /\ \A k \in 1..Len(w) : w[k] \in PacketsOf(own.aac)
  BY <1>1, LenProperties, ElementOfSeq
<1>4. e = [k \in DOMAIN w |-> w[k].frame]
  BY DEF EncodedFrames
<1>5. /\ Len(inside) \in Nat /\ r \in [1..taken -> Frames]
      /\ r = [k \in 1..taken |-> IF k <= Len(w) THEN w[k].frame ELSE inside[k - Len(w)]]
  BY <1>1, <1>2, RowIs DEF Row
<1>6. /\ ChangedOver(Numbers(r), Len(w), taken, own.aac)
      /\ \A k \in 1..taken : PtsFits(r[k].n, r[k].pts)
  BY <1>1, <1>5 DEF Numbered
<1> HIDE DEF w, e, r
<1>7. e \in [1..Len(w) -> Frames]
  BY <1>2, <1>3, <1>4
<1>8. e \in Seq(Frames) /\ Len(e) = Len(w) /\ \A k \in 1..Len(w) : e[k] = w[k].frame
  <2>1. e \in Seq(Frames)
    BY <1>3, <1>7
  <2>2. Len(e) = Len(w)
    BY <1>3, <1>7, <2>1, LenProperties
  <2> QED
    BY <1>3, <1>4, <2>1, <2>2
<1>9. /\ f \in Seq(Frames) /\ Len(f) = taken
      /\ \A k \in 1..taken : f[k] = IF k <= Len(w) THEN e[k] ELSE inside[k - Len(w)]
  BY <1>1, <1>3, <1>5, <1>8, ConcatProperties
<1> HIDE DEF f
<1>10. DOMAIN f = 1..taken
  BY <1>9, LenProperties
<1>11. \A k \in 1..taken : f[k] = r[k]
  <2>1. \A k \in 1..taken : k <= Len(w) => k \in 1..Len(w)
    BY <1>1, <1>3, <1>5
  <2> QED
    BY <1>5, <1>8, <1>9, <2>1
<1>12. DOMAIN r = 1..taken
  BY <1>5
<1>13. Numbers(f) = Numbers(r)
  BY <1>10, <1>11, <1>12 DEF Numbers
<1>14. \A k \in 1..taken : f[k] \in Frames /\ PtsFits(f[k].n, f[k].pts)
  BY <1>5, <1>6, <1>11
<1> QED
  BY <1>6, <1>10, <1>13, <1>14 DEF f, e, w

\* For raw files of any length, an encoder that holds any number of frames and any
\* choice of B-frames, in both encoder examples: every frame that fread() found is
\* written or still in the encoder, once, with AAC in the order read and with H.264
\* at most one place from it, and the loop that drains the encoder leaves none in it.
THEOREM EncoderKeepsFrames == EncoderSpec => []EncodesEveryFrame
<1>1. ASSUME EncoderInv PROVE EncodesEveryFrame
  <2> DEFINE f == EncodedFrames \o inside
  <2>1. /\ DOMAIN f = 1..taken
        /\ ChangedOver(Numbers(f), Len(out["file"]), taken, own.aac)
        /\ \A k \in 1..taken : f[k] \in Frames /\ PtsFits(f[k].n, f[k].pts)
    BY <1>1, NumberedInOrder
  <2> HIDE DEF f
  <2>2. Numbers(f) = [k \in 1..taken |-> f[k].n]
    BY <2>1 DEF Numbers
  <2>3. ASSUME NEW k \in 1..taken
        PROVE  /\ f[k].n \in IF own.aac THEN {k} ELSE (k - 1)..(k + 1) \cap 1..taken
               /\ f[f[k].n].n = k
               /\ f[k].pts \in Max({0, f[k].n - 1 - EncoderDelay}) .. f[k].n - 1
    <3>1. /\ f[k].n \in 1..taken /\ f[k].n \in (k - 1)..(k + 1) /\ f[f[k].n].n = k
          /\ own.aac => f[k].n = k
      BY <2>1, <2>2 DEF ChangedOver
    <3>2. f[k].n \in Nat /\ f[k].pts \in Nat /\ EncoderDelay \in Nat
      <4>1. f[k] \in Frames
        BY <2>1
      <4>2. f[k].n \in Nat /\ f[k].pts \in Nat
        BY <4>1 DEF Frames
      <4>3. EncoderDelay \in Nat
        BY EncoderAssumption
      <4> QED
        BY <4>2, <4>3
    <3>3. Max({0, f[k].n - 1 - EncoderDelay})
            = IF 0 >= f[k].n - 1 - EncoderDelay THEN 0 ELSE f[k].n - 1 - EncoderDelay
      BY <3>2, MaxOfTwo
    <3>4. f[k].pts <= f[k].n - 1 /\ f[k].n - 1 - EncoderDelay <= f[k].pts
      BY <2>1 DEF PtsFits
    <3>5. f[k].pts \in Max({0, f[k].n - 1 - EncoderDelay}) .. f[k].n - 1
      BY <3>2, <3>3, <3>4
    <3>6. f[k].n \in IF own.aac THEN {k} ELSE (k - 1)..(k + 1) \cap 1..taken
      BY <3>1
    <3> QED
      BY <3>1, <3>5, <3>6
  <2>4. code = 0 /\ own.ret = 0 => inside = <<>> /\ taken = Len(input.packets)
    BY <1>1 DEF EncoderInv
  <2> QED
    BY <2>1, <2>3, <2>4 DEF EncodesEveryFrame, f
<1>2. EncoderInv => EncodesEveryFrame
  BY <1>1
<1> QED
  BY <1>2, EncoderInvInit, EncoderKeeps, PTL DEF EncoderSpec

LEMMA RestOfEight == ASSUME NEW x \in Int, NEW d \in 0..7 PROVE (8 * x + d) % 8 = d
  OBVIOUS

LEMMA SplitsLength ==
  ASSUME NEW n \in Nat
  PROVE  n = 2048 * (n \div 2048) + 8 * ((n % 2048) \div 8) + (n % 8)
<1> DEFINE a == n \div 2048
           r == n % 2048
           b == r \div 8
           d == r % 8
           x == 256 * a + b
<1>1. a \in Int /\ r \in Nat /\ n = 2048 * a + r
  OBVIOUS
<1> HIDE DEF a, r
<1>2. b \in Int /\ d \in 0..7 /\ r = 8 * b + d
  BY <1>1
<1> HIDE DEF b, d
<1>3. x \in Int /\ n = 8 * x + d
  BY <1>1, <1>2
<1> HIDE DEF x
<1>4. n % 8 = d
  BY <1>2, <1>3, RestOfEight
<1>5. n = 2048 * a + 8 * b + d
  BY <1>1, <1>2
<1> QED
  BY <1>4, <1>5 DEF a, b, r

\* The length that a decoder adds up from the bytes 3 to 5 of a header.
LengthIn(header) == (header[1] % 4) * 2048 + header[2] * 8 + header[3] \div 32

\* The sizes that the length counts with the 7 bytes of the header.
AdtsSizes == 1..8184

\* Of every size that a packet behind a header may have.
LEMMA AdtsReads ==
  ASSUME NEW size \in AdtsSizes
  PROVE  LengthIn(Adts(size)) = 7 + size
<1> DEFINE n == 7 + size
           a == n \div 2048
           b == (n % 2048) \div 8
           c == n % 8
<1>1. size \in Int /\ n \in 8..8191 /\ a \in 0..3 /\ b \in 0..255 /\ c \in 0..7
  BY SMTT(30) DEF AdtsSizes
<1>2. n = 2048 * a + 8 * b + c
  BY <1>1, SplitsLength
<1> HIDE DEF n, a, b, c
<1>3. (2 * 64 + a) % 256 = 128 + a /\ (128 + a) % 4 = a
  BY <1>1
<1>4. (c * 32 + 31) % 256 = c * 32 + 31 /\ (c * 32 + 31) \div 32 = c
  BY <1>1
<1>5. Adts(size) = <<128 + a, b, c * 32 + 31>>
  BY <1>3, <1>4 DEF Adts, n, a, b, c
<1> QED
  BY <1>1, <1>2, <1>3, <1>4, <1>5 DEF LengthIn, n

\* For any packet that the length of an ADTS header can count, in a file of any
\* length: a decoder that adds up the three bytes finds the next header.
THEOREM AdtsAlwaysReadsBack == EncoderSpec => []AdtsLengthReadsBack
<1>1. ASSUME EncoderInv PROVE AdtsLengthReadsBack
  <2> SUFFICES ASSUME program = "encode_aac", NEW k \in DOMAIN out["file"]
               PROVE  LET w == out["file"][k]
                      IN (w.header[1] % 4) * 2048 + w.header[2] * 8 + w.header[3] \div 32
                           = 7 + w.size
    BY DEF AdtsLengthReadsBack
  <2>1. own.aac
    BY <1>1 DEF EncoderInv
  <2>2. out["file"] \in Seq(AacPackets)
    BY <1>1, <2>1 DEF EncoderInv, PacketsOf
  <2>3. out["file"][k] \in AacPackets
    BY <2>2, ElementOfSeq, LenProperties
  <2>4. PICK s \in PacketSizes : out["file"][k].header = Adts(s) /\ out["file"][k].size = s
    BY <2>3 DEF AacPackets
  <2>5. s \in AdtsSizes
    BY EncoderAssumption DEF AdtsSizes
  <2>6. LengthIn(Adts(s)) = 7 + s
    BY <2>5, AdtsReads
  <2> QED
    BY <2>4, <2>6 DEF LengthIn
<1>2. EncoderInv => AdtsLengthReadsBack
  BY <1>1
<1> QED
  BY <1>2, EncoderInvInit, EncoderKeeps, PTL DEF EncoderSpec

=============================================================================
