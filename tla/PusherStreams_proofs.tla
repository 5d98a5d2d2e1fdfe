------------------------- MODULE PusherStreams_proofs -------------------------
(***************************************************************************)
(* What the clients are sent: every stream is ordered, and the program     *)
(* implements Broadcast, for any number of clients, descriptors and        *)
(* frames.                                                                 *)
(***************************************************************************)
EXTENDS Pusher_proofs

-----------------------------------------------------------------------------
(* The invariant. *)

\* A connection is asked for once, waits in the backlog at one place, and is then
\* behind one descriptor.
Linked ==
  /\ \A p \in Peers : tcp[p] = "none" =>
       /\ \A i \in 1..Len(backlog) : backlog[i] # p
       /\ \A fd \in Fds : conn[fd] # p
  /\ \A i, j \in 1..Len(backlog) : backlog[i] = backlog[j] => i = j
  /\ \A i \in 1..Len(backlog) : \A fd \in Fds : conn[fd] # backlog[i]
  /\ \A fd, gd \in Fds : conn[fd] = conn[gd] /\ conn[fd] # NoPeer => fd = gd

\* Nothing is written to a connection before its terminal is registered.
Fresh ==
  /\ \A p \in Peers : tcp[p] = "none" => stream[p] = <<>>
  /\ \A i \in 1..Len(backlog) : stream[backlog[i]] = <<>>
  /\ \A fd \in Fds \ terminals : conn[fd] # NoPeer => stream[conn[fd]] = <<>>

\* Every frame written has been taken from the pool, and the frame that the observer
\* holds is newer than all that was written to those who will get it.
Marching ==
  /\ \A p \in Peers : \A i \in 1..Len(stream[p]) :
       stream[p][i][2] <= past[stream[p][i][1]]
  /\ obsPc \in {"lock", "send"} => frameBuf <= past[obsType]
  /\ obsPc = "lock" =>
       \A p \in Peers : \A i \in 1..Len(stream[p]) :
         stream[p][i][1] = obsType => stream[p][i][2] < frameBuf
  /\ \A fd \in todo :
       /\ TerminalType(fd) = obsType
       /\ conn[fd] # NoPeer =>
            \A i \in 1..Len(stream[conn[fd]]) : stream[conn[fd]][i][2] < frameBuf

\* A connection gets the frames of its descriptor's parity.
OneKind ==
  \A fd \in Fds : conn[fd] # NoPeer =>
    \A i \in 1..Len(stream[conn[fd]]) : stream[conn[fd]][i][1] = TerminalType(fd)

StreamInv == Linked /\ Fresh /\ Marching /\ OneKind /\ StreamsAreOrdered

-----------------------------------------------------------------------------
(* What the system calls do to the streams. *)

\* A connection that has been asked for is never "none" again.
Asked == \A p \in Peers : tcp'[p] = "none" => tcp[p] = "none"

LEMMA WriteAsked ==
  ASSUME SockTypeOK, NEW fd \in Fds, NEW frame, Write(fd, frame)
  PROVE  Asked /\ backlog' = backlog /\ conn' = conn
<1>1. CASE conn[fd] = NoPeer
  BY <1>1 DEF Write, sockVars, Asked
<1>2. CASE conn[fd] # NoPeer
  <2>1. \A p \in Peers : tcp'[p] \in {tcp[p], "finw", "broken"}
    BY <1>2 DEF Write, SockTypeOK
  <2> QED
    BY <1>2, <2>1 DEF Write, Asked
<1> QED
  BY <1>1, <1>2

\* The server's own write() carries no frame.
LEMMA WriteNothing ==
  ASSUME SockTypeOK, NEW fd \in Fds, Write(fd, <<>>) PROVE stream' = stream
<1>1. CASE conn[fd] = NoPeer
  BY <1>1 DEF Write, sockVars
<1>2. CASE conn[fd] # NoPeer
  <2>1. conn[fd] \in Peers /\ stream[conn[fd]] \in Seq(AudioType \X Nat)
    BY <1>2 DEF SockTypeOK
  <2>2. stream[conn[fd]] \o <<>> = stream[conn[fd]]
    BY <2>1, ConcatEmptySeq
  <2> QED
    BY <1>2, <2>1, <2>2 DEF Write, SockTypeOK
<1> QED
  BY <1>1, <1>2

LEMMA WriteFrame ==
  ASSUME SockTypeOK, NEW fd \in Fds, NEW f \in AudioType \X Nat, Write(fd, <<f>>)
  PROVE  IF conn[fd] = NoPeer THEN stream' = stream
         ELSE stream' = [stream EXCEPT ![conn[fd]] = Append(stream[conn[fd]], f)]
<1>1. CASE conn[fd] = NoPeer
  BY <1>1 DEF Write, sockVars
<1>2. CASE conn[fd] # NoPeer
  <2>1. conn[fd] \in Peers /\ stream[conn[fd]] \in Seq(AudioType \X Nat)
    BY <1>2 DEF SockTypeOK
  <2>2. stream[conn[fd]] \o <<f>> = Append(stream[conn[fd]], f)
    BY <2>1, AppendIsConcat
  <2> QED
    BY <1>2, <2>2 DEF Write
<1> QED
  BY <1>1, <1>2

\* The frames of a stream are of one kind, and each is newer than those before it.
Rising(s) ==
  \A i, j \in 1..Len(s) : i < j => s[i][1] = s[j][1] /\ s[i][2] < s[j][2]

\* The frames of s are of kind t and older than n.
Older(s, t, n) == \A i \in 1..Len(s) : s[i][1] = t /\ s[i][2] < n

\* The frames of r are those of s, and the frame n.
OneMore(r, s, t, n) ==
  \A i \in 1..Len(r) :
    \/ r[i] = <<t, n>>
    \/ r[i][1] = t /\ r[i][2] < n /\ \E j \in 1..Len(s) : r[i] = s[j]

\* A frame of the same kind, newer than all there are, keeps a stream ordered.
LEMMA AppendStream ==
  ASSUME NEW s \in Seq(AudioType \X Nat), NEW t \in AudioType, NEW n \in Nat,
         Older(s, t, n), Rising(s)
  PROVE  OneMore(Append(s, <<t, n>>), s, t, n) /\ Rising(Append(s, <<t, n>>))
<1> DEFINE k == Len(s)
           r == Append(s, <<t, n>>)
<1>1. /\ r \in Seq(AudioType \X Nat) /\ k \in Nat /\ Len(r) = k + 1
      /\ r[k + 1] = <<t, n>>
      /\ \A i \in 1..k : r[i] = s[i]
  BY AppendProperties, LenProperties
<1>2. \A i \in 1..k : s[i][1] \in AudioType /\ s[i][2] \in Nat
  BY ElementOfSeq
<1>3. \A i \in 1..Len(r) : i \in 1..k \/ i = k + 1
  BY <1>1
<1> HIDE DEF k, r
<1>4. ASSUME NEW i \in 1..Len(r)
      PROVE  r[i] = <<t, n>> \/ (r[i][1] = t /\ r[i][2] < n /\ \E j \in 1..k : r[i] = s[j])
  BY <1>1, <1>3, <1>4 DEF k, Older
<1>5. ASSUME NEW i \in 1..Len(r), NEW j \in 1..Len(r), i < j
      PROVE  r[i][1] = r[j][1] /\ r[i][2] < r[j][2]
  <2>1. i \in 1..k
    BY <1>1, <1>5
  <2>2. CASE j \in 1..k
    <3>1. s[i][1] = s[j][1] /\ s[i][2] < s[j][2]
      BY <1>5, <2>1, <2>2 DEF k, Rising
    <3>2. r[i] = s[i] /\ r[j] = s[j]
      BY <1>1, <2>1, <2>2
    <3> QED
      BY <3>1, <3>2
  <2>3. CASE j = k + 1
    <3>1. s[i][1] = t /\ s[i][2] < n
      BY <2>1 DEF k, Older
    <3>2. r[i] = s[i] /\ r[j] = <<t, n>>
      BY <1>1, <2>1, <2>3
    <3> QED
      BY <3>1, <3>2
  <2> QED
    BY <1>3, <2>2, <2>3
<1> QED
  BY <1>1, <1>4, <1>5 DEF k, r, OneMore, Rising

-----------------------------------------------------------------------------
(* The threads keep the invariant. *)

\* What has been taken from the pool only moves on.
Later == PoolTypeOK /\ PoolTypeOK' /\ \A t \in AudioType : past'[t] >= past[t]

\* An entry of a stream, and what is known of it by its type.
LEMMA Entries ==
  ASSUME SockTypeOK, NEW p \in Peers, NEW i \in 1..Len(stream[p])
  PROVE  stream[p][i] \in AudioType \X Nat
  BY ElementOfSeq DEF SockTypeOK

LEMMA StreamInit == Init => StreamInv
  BY Constants
  DEF Init, PoolInit, SockInit, ObsInit, StreamInv, Linked, Fresh, Marching, OneKind,
      StreamsAreOrdered

\* Every frame written stays older than what has been taken.
LEMMA PastKept ==
  ASSUME SockTypeOK, Later, Marching, stream' = stream
  PROVE  \A p \in Peers : \A i \in 1..Len(stream'[p]) :
           stream'[p][i][2] <= past'[stream'[p][i][1]]
<1> SUFFICES ASSUME NEW p \in Peers, NEW i \in 1..Len(stream[p])
             PROVE  stream[p][i][2] <= past'[stream[p][i][1]]
  OBVIOUS
<1> DEFINE t == stream[p][i][1]
           n == stream[p][i][2]
<1>1. t \in AudioType /\ n \in Nat /\ n <= past[t]
  BY Entries DEF Marching
<1> HIDE DEF t, n
<1>2. past[t] \in Nat /\ past'[t] \in Nat /\ past'[t] >= past[t]
  BY <1>1 DEF Later, PoolTypeOK
<1> QED
  BY <1>1, <1>2 DEF t, n

\* Steps that only concern the observer's frame, or none of this.
LEMMA StreamSame ==
  ASSUME TypeInv, Walking, StreamInv, Asked, Later,
         UNCHANGED <<backlog, conn, stream, terminals, todo>>,
         \/ UNCHANGED <<obsPc, obsType, frameBuf>>
         \/ todo = {} /\ obsPc' \notin {"lock", "send"}
  PROVE  StreamInv'
<1>1. Linked' /\ Fresh' /\ OneKind' /\ StreamsAreOrdered'
  BY DEF StreamInv, Linked, Fresh, OneKind, StreamsAreOrdered, Asked
<1>2. Marching'
  <2>1. \A p \in Peers : \A i \in 1..Len(stream'[p]) :
          stream'[p][i][2] <= past'[stream'[p][i][1]]
    BY PastKept DEF TypeInv, StreamInv
  <2>2. CASE UNCHANGED <<obsPc, obsType, frameBuf>>
    <3>1. past[obsType] \in Nat /\ past'[obsType] \in Nat /\ past'[obsType] >= past[obsType]
          /\ frameBuf \in Nat
      BY DEF Later, PoolTypeOK, TypeInv, ObsTypeOK
    <3> QED
      BY <2>1, <2>2, <3>1 DEF StreamInv, Marching
  <2>3. CASE todo = {} /\ obsPc' \notin {"lock", "send"}
    BY <2>1, <2>3 DEF Marching
  <2> QED
    BY <2>2, <2>3
<1> QED
  BY <1>1, <1>2 DEF StreamInv

LEMMA StreamMain ==
  ASSUME TypeInv, Walking, StreamInv, Later, MainStep PROVE StreamInv'
<1>1. UNCHANGED sockVars /\ UNCHANGED <<terminals, todo>>
  BY DEF MainStep, MainNext, MainRegisterPools, MainStartServer, MainStartObserver,
         MainInitCodecs, MainPutMp3, MainPutAac, MainEndOfFile, MainStopServer,
         MainJoinServer, MainStopObserver, MainJoinObserver, StartObserver, StopObserver,
         obsVars
<1>2. UNCHANGED <<obsType, frameBuf>> /\ (obsPc' = obsPc \/ (obsPc = "unstarted" /\ obsPc' = "check"))
  BY DEF MainStep, MainNext, MainRegisterPools, MainStartServer, MainStartObserver,
         MainInitCodecs, MainPutMp3, MainPutAac, MainEndOfFile, MainStopServer,
         MainJoinServer, MainStopObserver, MainJoinObserver, StartObserver, StopObserver,
         obsVars
<1>3. UNCHANGED <<tcp, backlog, conn, stream>> /\ Asked
  BY <1>1 DEF sockVars, Asked
<1> QED
  BY <1>1, <1>2, <1>3, StreamSame DEF Walking

LEMMA StreamObserver ==
  ASSUME PoolInv, TypeInv, Walking, StreamInv, Later, ObserverStep PROVE StreamInv'
<1>1. CASE ObsCheck \/ ObsUnlock
  <2>1. /\ UNCHANGED <<tcp, backlog, conn, stream, terminals, todo>>
        /\ Asked
        /\ todo = {} /\ obsPc' \notin {"lock", "send"}
    BY <1>1 DEF ObsCheck, ObsUnlock, NextHalf, sockVars, Asked, Walking
  <2> QED
    BY <2>1, StreamSame
<1>2. CASE ObsTake
  <2>1. /\ UNCHANGED <<tcp, backlog, conn, stream, terminals, todo>>
        /\ Asked
        /\ todo = {}
        /\ obsType \in AudioType
    BY <1>2 DEF ObsTake, sockVars, Asked, Walking, TypeInv, ObsTypeOK
  <2>2. CASE ~CanTake(obsType)
    <3>1. obsPc' \notin {"lock", "send"}
      BY <1>2, <2>2 DEF ObsTake, NextHalf
    <3> QED
      BY <2>1, <3>1, StreamSame
  <2>3. CASE CanTake(obsType)
    <3>1. /\ obsPc' = "lock" /\ obsType' = obsType
          /\ frameBuf' = past'[obsType] /\ past'[obsType] > past[obsType]
          /\ past[obsType] \in Nat /\ past'[obsType] \in Nat
      BY <1>2, <2>1, <2>3, TakeInv
      DEF ObsTake, TakenFrame, TakeFrame, Later, PoolTypeOK
    <3>2. Linked' /\ Fresh' /\ OneKind' /\ StreamsAreOrdered'
      BY <2>1 DEF StreamInv, Linked, Fresh, OneKind, StreamsAreOrdered, Asked
    <3>3. \A p \in Peers : \A i \in 1..Len(stream'[p]) :
            stream'[p][i][2] <= past'[stream'[p][i][1]]
      BY <2>1, PastKept DEF TypeInv, StreamInv
    <3>4. ASSUME NEW p \in Peers, NEW i \in 1..Len(stream[p]), stream[p][i][1] = obsType
          PROVE  stream[p][i][2] < frameBuf'
      <4>1. stream[p][i][2] \in Nat /\ stream[p][i][2] <= past[obsType]
        BY <3>4, Entries DEF TypeInv, StreamInv, Marching
      <4> QED
        BY <3>1, <4>1
    <3>5. Marching'
      BY <2>1, <3>1, <3>3, <3>4 DEF Marching
    <3> QED
      BY <3>2, <3>5 DEF StreamInv
  <2> QED
    BY <2>2, <2>3
<1>3. CASE ObsLock
  <2>1. /\ UNCHANGED <<tcp, backlog, conn, stream, terminals, obsType, frameBuf, past>>
        /\ obsPc = "lock" /\ obsPc' = "send"
        /\ todo' = {fd \in terminals : TerminalType(fd) = obsType}
        /\ terminals \subseteq Fds
    BY <1>3 DEF ObsLock, sockVars, poolVars, TypeInv, ObsTypeOK
  <2>2. Linked' /\ Fresh' /\ OneKind' /\ StreamsAreOrdered'
    BY <2>1 DEF StreamInv, Linked, Fresh, OneKind, StreamsAreOrdered
  <2>3. ASSUME NEW fd \in todo', conn[fd] # NoPeer, NEW i \in 1..Len(stream[conn[fd]])
        PROVE  stream[conn[fd]][i][2] < frameBuf
    <3>1. conn[fd] \in Peers
      BY <2>1, <2>3 DEF TypeInv, SockTypeOK
    <3> QED
      BY <2>1, <2>3, <3>1 DEF StreamInv, Marching, OneKind
  <2>4. Marching'
    BY <2>1, <2>3 DEF StreamInv, Marching
  <2> QED
    BY <2>2, <2>4 DEF StreamInv
<1>4. CASE ObsSend
  <2>1. PICK fd \in todo : Send(fd) /\ todo' = todo \ {fd}
    BY <1>4 DEF ObsSend
  <2>2. /\ obsPc = "send"
        /\ UNCHANGED <<terminals, obsPc, obsType, frameBuf, past>>
        /\ fd \in Fds /\ fd \in terminals /\ TerminalType(fd) = obsType
        /\ obsType \in AudioType /\ frameBuf \in Nat
    BY <1>4 DEF ObsSend, poolVars, TypeInv, ObsTypeOK, Walking, StreamInv, Marching
  <2>3. Asked /\ backlog' = backlog /\ conn' = conn
    BY <2>1, <2>2, WriteAsked DEF Send, TypeInv
  <2>4. CASE conn[fd] = NoPeer
    <3>1. stream' = stream
      BY <2>1, <2>2, <2>4, WriteFrame DEF Send, TypeInv
    <3>2. Linked' /\ Fresh' /\ OneKind' /\ StreamsAreOrdered'
      BY <2>2, <2>3, <3>1 DEF StreamInv, Linked, Fresh, OneKind, StreamsAreOrdered, Asked
    <3>3. Marching'
      BY <2>1, <2>2, <2>3, <3>1 DEF StreamInv, Marching
    <3> QED
      BY <3>2, <3>3 DEF StreamInv
  <2>5. CASE conn[fd] # NoPeer
    <3> DEFINE p == conn[fd]
               s == stream[p]
               r == Append(s, <<obsType, frameBuf>>)
    <3>1. p \in Peers /\ s \in Seq(AudioType \X Nat)
      BY <2>2, <2>5 DEF TypeInv, SockTypeOK
    <3>2. stream' = [stream EXCEPT ![p] = r]
      BY <2>1, <2>2, <2>5, WriteFrame DEF Send, TypeInv
    <3>3. stream'[p] = r /\ \A q \in Peers \ {p} : stream'[q] = stream[q]
      BY <3>1, <3>2 DEF TypeInv, SockTypeOK
    <3>4. Older(s, obsType, frameBuf)
      BY <2>1, <2>2, <2>5 DEF StreamInv, Marching, OneKind, Older
    <3>5. Rising(s)
      BY <3>1 DEF StreamInv, StreamsAreOrdered, Rising
    <3> HIDE DEF p, s, r
    <3>6. OneMore(r, s, obsType, frameBuf) /\ Rising(r)
      BY <2>2, <3>1, <3>4, <3>5, AppendStream DEF r
    <3>7. \A gd \in Fds : conn[gd] = p => gd = fd
      BY <2>2, <2>5 DEF StreamInv, Linked, p
    <3>8. tcp[p] # "none" /\ \A i \in 1..Len(backlog) : backlog[i] # p
      BY <2>2, <3>1 DEF StreamInv, Linked, p
    <3>9. Linked'
      BY <2>3 DEF StreamInv, Linked, Asked
    <3>10. Fresh'
      <4>1. \A q \in Peers : tcp'[q] = "none" => q # p
        BY <2>3, <3>8 DEF Asked
      <4>2. \A i \in 1..Len(backlog) : backlog[i] \in Peers
        BY ElementOfSeq DEF TypeInv, SockTypeOK
      <4>3. \A gd \in Fds \ terminals : conn[gd] # p
        BY <2>2, <3>7
      <4>4. \A gd \in Fds : conn[gd] \in Peers \cup {NoPeer}
        BY DEF TypeInv, SockTypeOK
      <4> QED
        BY <2>2, <2>3, <3>3, <3>8, <4>1, <4>2, <4>3, <4>4 DEF StreamInv, Fresh, Asked
    <3>11. Marching'
      <4>1. \A q \in Peers : \A i \in 1..Len(stream'[q]) :
              stream'[q][i][2] <= past'[stream'[q][i][1]]
        <5>1. frameBuf <= past[obsType]
          BY <2>2 DEF StreamInv, Marching
        <5>2. \A j \in 1..Len(s) : s[j][2] <= past[s[j][1]]
          BY <3>1 DEF StreamInv, Marching, s
        <5>3. \A i \in 1..Len(r) : r[i][2] <= past[r[i][1]]
          BY <3>6, <5>1, <5>2 DEF OneMore
        <5> QED
          BY <2>2, <3>3, <5>3 DEF StreamInv, Marching
      <4>2. \A gd \in todo' : conn[gd] # p /\ conn[gd] \in Peers \cup {NoPeer}
        BY <2>1, <3>7 DEF TypeInv, ObsTypeOK, SockTypeOK
      <4> QED
        BY <2>1, <2>2, <2>3, <3>3, <4>1, <4>2 DEF StreamInv, Marching
    <3>12. OneKind'
      <4>1. ASSUME NEW gd \in Fds, conn'[gd] # NoPeer, NEW i \in 1..Len(stream'[conn'[gd]])
            PROVE  stream'[conn'[gd]][i][1] = TerminalType(gd)
        <5>1. CASE gd = fd
          BY <2>2, <2>3, <3>3, <3>6, <4>1, <5>1 DEF p, OneMore
        <5>2. CASE gd # fd
          <6>1. conn[gd] \in Peers \ {p}
            BY <2>3, <3>7, <4>1, <5>2 DEF TypeInv, SockTypeOK
          <6> QED
            BY <2>3, <3>3, <4>1, <6>1 DEF StreamInv, OneKind
        <5> QED
          BY <5>1, <5>2
      <4> QED
        BY <4>1 DEF OneKind
    <3>13. StreamsAreOrdered'
      BY <3>1, <3>3, <3>6 DEF StreamInv, StreamsAreOrdered, Rising
    <3> QED
      BY <3>9, <3>10, <3>11, <3>12, <3>13 DEF StreamInv
  <2> QED
    BY <2>4, <2>5
<1> QED
  BY <1>1, <1>2, <1>3, <1>4 DEF ObserverStep, ObserverNext

LEMMA StreamClient ==
  ASSUME TypeInv, Walking, StreamInv, Later, NEW p \in Peers, ClientStep(p)
  PROVE  StreamInv'
<1>1. UNCHANGED <<terminals, todo, obsPc, obsType, frameBuf>>
  BY DEF ClientStep, ConnectStep, PeerReadStep, PeerCloseStep, RstStep, Outside, obsVars
<1>2. CASE ConnectStep(p)
  <2>1. /\ tcp[p] = "none" /\ tcp' = [tcp EXCEPT ![p] = "open"]
        /\ backlog' = Append(backlog, p) /\ UNCHANGED <<conn, stream>>
    BY <1>2 DEF ConnectStep, Connect
  <2>2. /\ backlog \in Seq(Peers) /\ Len(backlog) \in Nat
        /\ Len(backlog') = Len(backlog) + 1
        /\ backlog'[Len(backlog) + 1] = p
        /\ \A i \in 1..Len(backlog) : backlog'[i] = backlog[i] /\ backlog[i] # p
    BY <2>1, AppendProperties, LenProperties DEF TypeInv, SockTypeOK, StreamInv, Linked
  <2>3. \A i \in 1..Len(backlog') : i \in 1..Len(backlog) \/ i = Len(backlog) + 1
    BY <2>2
  <2>4. /\ tcp'[p] = "open"
        /\ \A q \in Peers \ {p} : tcp'[q] = tcp[q]
        /\ stream[p] = <<>> /\ \A fd \in Fds : conn[fd] # p
    BY <2>1 DEF TypeInv, SockTypeOK, StreamInv, Linked, Fresh
  <2>5. Linked'
    <3>1. ASSUME NEW q \in Peers, tcp'[q] = "none"
          PROVE  /\ \A i \in 1..Len(backlog') : backlog'[i] # q
                 /\ \A fd \in Fds : conn'[fd] # q
      BY <2>1, <2>2, <2>3, <2>4, <3>1 DEF StreamInv, Linked
    <3>2. \A i, j \in 1..Len(backlog') : backlog'[i] = backlog'[j] => i = j
      BY <2>2, <2>3 DEF StreamInv, Linked
    <3>3. \A i \in 1..Len(backlog') : \A fd \in Fds : conn'[fd] # backlog'[i]
      BY <2>1, <2>2, <2>3, <2>4 DEF StreamInv, Linked
    <3>4. \A fd, gd \in Fds : conn'[fd] = conn'[gd] /\ conn'[fd] # NoPeer => fd = gd
      BY <2>1 DEF StreamInv, Linked
    <3> QED
      BY <3>1, <3>2, <3>3, <3>4 DEF Linked
  <2>6. Fresh'
    BY <1>1, <2>1, <2>2, <2>3, <2>4 DEF StreamInv, Fresh
  <2>7. OneKind' /\ StreamsAreOrdered'
    BY <1>1, <2>1 DEF StreamInv, OneKind, StreamsAreOrdered
  <2>8. Marching'
    <3>1. past' = past
      BY <1>2 DEF ConnectStep, Outside, poolVars
    <3> QED
      BY <1>1, <2>1, <3>1 DEF StreamInv, Marching
  <2> QED
    BY <2>5, <2>6, <2>7, <2>8 DEF StreamInv
<1>3. CASE PeerReadStep(p) \/ PeerCloseStep(p) \/ RstStep(p)
  <2>1. UNCHANGED <<backlog, conn, stream>>
    BY <1>3 DEF PeerReadStep, PeerCloseStep, RstStep, PeerReads, PeerCloses, RstArrives
  <2>2. Asked
    BY <1>3
    DEF PeerReadStep, PeerCloseStep, RstStep, PeerReads, PeerCloses, RstArrives, Asked,
        TypeInv, SockTypeOK
  <2> QED
    BY <1>1, <2>1, <2>2, StreamSame
<1> QED
  BY <1>2, <1>3 DEF ClientStep

LEMMA StreamServer ==
  ASSUME TypeInv, SafeInv, StreamInv, Later, ServerStep PROVE StreamInv'
<1> USE DEF SafeInv
<1>1. /\ UNCHANGED <<todo, obsPc, obsType, frameBuf>>
      /\ past' = past
  BY DEF ServerStep, ServerNext, SrvCheck, SrvSelect, SrvScanned, SrvClosing, SrvAccept,
         SrvAcceptFails, SrvRegister, SrvRead, SrvReadEnd, SrvFarewell, SrvClose,
         SrvUnregister, SrvLateWrite, RegisterTerminal, UnregisterTerminal, obsVars, poolVars
<1>2. Linked /\ Fresh /\ Marching /\ OneKind /\ StreamsAreOrdered /\ Walking
  BY DEF StreamInv
<1>3. CASE SrvCheck \/ SrvSelect \/ SrvScanned \/ SrvAcceptFails
  <2>1. UNCHANGED <<tcp, backlog, conn, stream, terminals>> /\ Asked
    BY <1>3 DEF SrvCheck, SrvSelect, SrvScanned, SrvAcceptFails, AcceptFails, sockVars,
                obsVars, Asked
  <2> QED
    BY <1>1, <1>2, <2>1, StreamSame
<1>4. ASSUME NEW fd \in ClientFds, SrvRead(fd) \/ SrvReadEnd(fd) PROVE StreamInv'
  <2>1. UNCHANGED <<backlog, conn, stream, terminals>>
    BY <1>4 DEF SrvRead, SrvReadEnd, ReadsData, ReadsError, ReadsEnd, sockVars, obsVars
  <2>2. Asked
    BY <1>4 DEF SrvRead, SrvReadEnd, ReadsData, ReadsError, ReadsEnd, sockVars, Asked,
                TypeInv, SockTypeOK
  <2> QED
    BY <1>1, <1>2, <2>1, <2>2, StreamSame
<1>5. CASE SrvFarewell \/ SrvLateWrite
  <2>1. cur \in Fds /\ Write(cur, <<>>) /\ terminals' = terminals
    BY <1>5 DEF SrvFarewell, SrvLateWrite, TypeInv, SrvTypeOK, obsVars
  <2>2. UNCHANGED <<backlog, conn, stream>> /\ Asked
    BY <2>1, WriteAsked, WriteNothing DEF TypeInv
  <2> QED
    BY <1>1, <1>2, <2>1, <2>2, StreamSame
<1>6. CASE SrvClosing
  <2>1. /\ UNCHANGED <<conn, stream, terminals>> /\ backlog' = <<>>
        /\ \A p \in Peers : tcp'[p] \in {tcp[p], "done"}
    BY <1>6 DEF SrvClosing, CloseListener, obsVars
  <2>2. Len(backlog') = 0 /\ \A p \in Peers : tcp'[p] = "none" => tcp[p] = "none"
    BY <2>1
  <2>3. Linked'
    BY <1>2, <2>1, <2>2, SMTT(30) DEF Linked
  <2>4. Fresh'
    BY <1>2, <2>1, <2>2, SMTT(30) DEF Fresh
  <2>5. Marching' /\ OneKind' /\ StreamsAreOrdered'
    BY <1>1, <1>2, <2>1 DEF Marching, OneKind, StreamsAreOrdered
  <2> QED
    BY <2>3, <2>4, <2>5 DEF StreamInv
<1>7. CASE SrvAccept
  <2>1. PICK fd \in ClientFds : Accepted(fd) /\ cur' = fd
    BY <1>7 DEF SrvAccept
  <2> DEFINE p == Head(backlog)
  <2>2. /\ backlog \in Seq(Peers) /\ backlog # <<>>
        /\ conn[fd] = NoPeer /\ conn' = [conn EXCEPT ![fd] = p]
        /\ UNCHANGED <<tcp, stream, terminals>>
        /\ fd \in Fds
    BY <1>7, <2>1, Constants DEF SrvAccept, Accepted, Free, obsVars, TypeInv, SockTypeOK
  <2>3. /\ p \in Peers /\ p = backlog[1] /\ 1 \in 1..Len(backlog)
        /\ Len(backlog') = Len(backlog) - 1
        /\ \A i \in 1..Len(backlog') : i + 1 \in 1..Len(backlog) /\ backlog'[i] = backlog[i + 1]
    <3>1. backlog' = Tail(backlog)
      BY <2>1 DEF Accepted
    <3> QED
      BY <2>2, <3>1, HeadTailProperties, LenProperties, EmptySeq
  <2> HIDE DEF p
  <2>4. conn'[fd] = p /\ \A gd \in Fds \ {fd} : conn'[gd] = conn[gd]
    BY <2>2 DEF TypeInv, SockTypeOK
  <2>5. fd \notin terminals
    BY <1>7, <2>1, <2>2, Constants DEF SrvAccept, NextReady, TerminalsAreConnected, Closing
  <2>6. Linked'
    <3>1. tcp[p] # "none" /\ \A gd \in Fds : conn[gd] # p
      BY <1>2, <2>3 DEF Linked
    <3>2. \A i, j \in 1..Len(backlog') : backlog'[i] = backlog'[j] => i = j
      BY <1>2, <2>3 DEF Linked
    <3>3. \A i \in 1..Len(backlog') : backlog'[i] # p
      BY <1>2, <2>3 DEF Linked
    <3>4. \A i \in 1..Len(backlog') : \A gd \in Fds : conn'[gd] # backlog'[i]
      BY <1>2, <2>3, <2>4, <3>3 DEF Linked
    <3>5. \A q \in Peers : tcp'[q] = "none" =>
            /\ \A i \in 1..Len(backlog') : backlog'[i] # q
            /\ \A gd \in Fds : conn'[gd] # q
      BY <1>2, <2>2, <2>3, <2>4, <3>1 DEF Linked
    <3>6. \A gd, hd \in Fds : conn'[gd] = conn'[hd] /\ conn'[gd] # NoPeer => gd = hd
      BY <1>2, <2>4, <3>1 DEF Linked
    <3> QED
      BY <3>2, <3>4, <3>5, <3>6 DEF Linked
  <2>7. Fresh' /\ OneKind'
    <3>1. stream[p] = <<>>
      BY <1>2, <2>3 DEF Fresh
    <3>2. Fresh'
      BY <1>2, <2>2, <2>3, <2>4, <3>1 DEF Fresh
    <3>3. OneKind'
      BY <1>2, <2>2, <2>4, <3>1 DEF OneKind
    <3> QED
      BY <3>2, <3>3
  <2>8. Marching' /\ StreamsAreOrdered'
    <3>1. \A gd \in todo : gd \in Fds \ {fd}
      BY <1>2, <2>5 DEF Walking, TypeInv, ObsTypeOK
    <3> QED
      BY <1>1, <1>2, <2>2, <2>4, <3>1 DEF Marching, StreamsAreOrdered
  <2> QED
    BY <2>6, <2>7, <2>8 DEF StreamInv
<1>8. CASE SrvRegister
  <2>1. UNCHANGED <<backlog, conn, stream, tcp>> /\ terminals \subseteq terminals'
    BY <1>8 DEF SrvRegister, RegisterTerminal, sockVars
  <2> QED
    BY <1>1, <1>2, <2>1 DEF StreamInv, Linked, Fresh, Marching, OneKind, StreamsAreOrdered
<1>9. CASE SrvUnregister
  <2>1. /\ UNCHANGED <<backlog, conn, stream, tcp>>
        /\ terminals' = terminals \ {cur} /\ conn[cur] = NoPeer
    BY <1>9 DEF SrvUnregister, UnregisterTerminal, sockVars, Handling
  <2> QED
    BY <1>1, <1>2, <2>1 DEF StreamInv, Linked, Fresh, Marching, OneKind, StreamsAreOrdered
<1>10. CASE SrvClose
  <2>1. /\ UNCHANGED <<backlog, stream, terminals>>
        /\ conn' = [conn EXCEPT ![cur] = NoPeer]
        /\ \A p \in Peers : tcp'[p] \in {tcp[p], "done"}
    BY <1>10 DEF SrvClose, Close, obsVars
  <2>2. \A fd \in Fds : conn'[fd] \in {conn[fd], NoPeer}
    BY <2>1 DEF TypeInv, SockTypeOK
  <2>3. Linked'
    <3>1. \A i \in 1..Len(backlog) : backlog[i] # NoPeer
      BY ElementOfSeq, Constants DEF TypeInv, SockTypeOK
    <3> QED
      BY <1>2, <2>1, <2>2, <3>1, Constants DEF Linked
  <2>4. Fresh' /\ OneKind' /\ StreamsAreOrdered'
    BY <1>2, <2>1, <2>2 DEF Fresh, OneKind, StreamsAreOrdered
  <2>5. Marching'
    <3>1. todo \subseteq Fds
      BY DEF TypeInv, ObsTypeOK
    <3> QED
      BY <1>1, <1>2, <2>1, <2>2, <3>1 DEF Marching
  <2> QED
    BY <2>3, <2>4, <2>5 DEF StreamInv
<1> QED
  BY <1>3, <1>4, <1>5, <1>6, <1>7, <1>8, <1>9, <1>10 DEF ServerStep, ServerNext

LEMMA StreamStep ==
  PoolInv /\ PoolInv' /\ TypeInv /\ SafeInv /\ StreamInv /\ [Next]_vars => StreamInv'
<1> SUFFICES ASSUME PoolInv, PoolInv', TypeInv, SafeInv, StreamInv, [Next]_vars
             PROVE  StreamInv'
  OBVIOUS
<1>1. Later
  <2>1. Halves
    BY DEF TypeInv, ObsTypeOK, Halves
  <2>2. [PoolNext]_poolVars
    BY <2>1, PoolStep
  <2> QED
    BY <2>2, PastGrows DEF Later, PoolInv
<1>2. Walking
  BY DEF SafeInv
<1>3. ASSUME UNCHANGED vars PROVE StreamInv'
  BY <1>1, <1>2, <1>3, StreamSame DEF vars, sockVars, obsVars, Asked
<1> QED
  BY <1>1, <1>2, <1>3, StreamMain, StreamObserver, StreamServer, StreamClient DEF Next, Over

\* Through every interleaving: connections, backlog and descriptors belong to one
\* another, a client without a terminal has been sent nothing (Select()), and the frame
\* in frameBuf_ is newer than all that NotifyAll() has sent to those it comes to next.
THEOREM StreamInvariant == Spec => []StreamInv
  BY PusherUsesPool, PoolInvariant, Safe, StreamInit, StreamStep, PTL DEF Spec

\* What is written to a connection is one kind of audio, in the order it was put
\* into the pool and without repetition: NotifyAll() writing while Select() closes,
\* accepts and reuses descriptors never mixes or repeats anything.
THEOREM StreamsStayOrdered == Spec => []StreamsAreOrdered
<1>1. StreamInv => StreamsAreOrdered
  BY DEF StreamInv
<1> QED
  BY StreamInvariant, <1>1, PTL

-----------------------------------------------------------------------------
(* The queues. *)

\* Both queues exist before a frame is put, and a queue that does not is empty.
Registering ==
  /\ mainPc = "poolMp3" => registered = {}
  /\ mainPc = "poolAac" => registered = {Mp3}
  /\ mainPc \notin {"poolMp3", "poolAac"} => registered = AudioType
  /\ \A t \in AudioType \ registered : queue[t] = <<>>

LEMMA RegisteringInit == Init => Registering
  BY DEF Init, PoolInit, Registering

LEMMA RegisteringStep ==
  ASSUME PoolTypeOK, ObsTypeOK, Registering, [Next]_vars PROVE Registering'
<1>1. AudioType = {Mp3, Aac} /\ Mp3 # Aac
  BY Constants
<1>2. ASSUME mainPc' = mainPc, registered' = registered,
             \A t \in AudioType \ registered : queue'[t] = queue[t]
      PROVE  Registering'
  BY <1>2 DEF Registering
<1>3. CASE MainStep
  <2>1. CASE MainRegisterPools
    <3>1. ASSUME NEW t \in AudioType, RegisterFramesPool(t), t \notin registered
          PROVE  /\ registered' = registered \cup {t}
                 /\ \A u \in AudioType \ registered' : queue'[u] = queue[u]
      BY <3>1 DEF RegisterFramesPool, PoolTypeOK
    <3>2. CASE Goto("poolMp3", "poolAac") /\ RegisterFramesPool(Mp3)
      <4>1. registered = {} /\ mainPc' = "poolAac"
        BY <3>2 DEF Goto, Registering
      <4>2. /\ registered' = {Mp3}
            /\ \A u \in AudioType \ registered' : queue'[u] = queue[u]
        BY <1>1, <3>1, <3>2, <4>1
      <4> QED
        BY <4>1, <4>2 DEF Registering
    <3>3. CASE Goto("poolAac", "startServer") /\ RegisterFramesPool(Aac)
      <4>1. registered = {Mp3} /\ mainPc' = "startServer"
        BY <3>3 DEF Goto, Registering
      <4>2. registered' = AudioType
        BY <1>1, <3>1, <3>3, <4>1
      <4> QED
        BY <4>1, <4>2 DEF Registering
    <3> QED
      BY <2>1, <3>2, <3>3 DEF MainRegisterPools
  <2>2. CASE ~MainRegisterPools
    <3>1. /\ mainPc \notin {"poolMp3", "poolAac"} /\ mainPc' \notin {"poolMp3", "poolAac"}
          /\ registered' = registered
      BY <1>3, <2>2
      DEF MainStep, MainNext, MainStartServer, MainStartObserver, MainInitCodecs,
          MainPutMp3, MainPutAac, MainEndOfFile, MainStopServer, MainJoinServer,
          MainStopObserver, MainJoinObserver, Goto, PutFrame, poolVars
    <3> QED
      BY <3>1 DEF Registering
  <2> QED
    BY <2>1, <2>2
<1>4. CASE ObserverStep
  <2>1. CASE ObsTake
    BY <1>2, <1>4, <2>1 DEF ObserverStep, ObsTake, TakeFrame, CanTake, PoolTypeOK, ObsTypeOK
  <2>2. CASE UNCHANGED poolVars
    BY <1>2, <1>4, <2>2 DEF ObserverStep, poolVars
  <2> QED
    BY <1>4, <2>1, <2>2 DEF ObserverStep, ObserverNext, ObsCheck, ObsLock, ObsSend, ObsUnlock
<1>5. CASE ServerStep
  BY <1>2, <1>5
  DEF ServerStep, ServerNext, SrvCheck, SrvSelect, SrvScanned, SrvClosing, SrvAccept,
      SrvAcceptFails, SrvRegister, SrvRead, SrvReadEnd, SrvFarewell, SrvClose,
      SrvUnregister, SrvLateWrite, poolVars
<1>6. ASSUME NEW p \in Peers, ClientStep(p) PROVE Registering'
  BY <1>2, <1>6
  DEF ClientStep, ConnectStep, PeerReadStep, PeerCloseStep, RstStep, Outside, poolVars
<1>7. CASE Over \/ UNCHANGED vars
  BY <1>2, <1>7 DEF Over, vars, poolVars
<1> QED
  BY <1>3, <1>4, <1>5, <1>6, <1>7 DEF Next

-----------------------------------------------------------------------------
(* The members of Broadcast. *)

\* A connection with a registered descriptor is a member for the descriptor's type
\* and has been handed what was written to it and what it is owed; any other
\* connection is no member.
Roster ==
  \A p \in Peers :
    /\ \A fd \in terminals : conn[fd] = p =>
         /\ Member(p) = TerminalType(fd)
         /\ Feed(p) = IF fd \in todo THEN Append(stream[p], <<obsType, frameBuf>>)
                      ELSE stream[p]
    /\ (\A fd \in terminals : conn[fd] # p) => Member(p) = "nobody" /\ Feed(p) = <<>>

LEMMA RosterHolds == TypeInv /\ Linked => Roster
<1> SUFFICES ASSUME TypeInv, Linked, NEW p \in Peers
             PROVE  /\ \A fd \in terminals : conn[fd] = p =>
                         /\ Member(p) = TerminalType(fd)
                         /\ Feed(p) = IF fd \in todo THEN Append(stream[p], <<obsType, frameBuf>>)
                                      ELSE stream[p]
                    /\ (\A fd \in terminals : conn[fd] # p) =>
                         Member(p) = "nobody" /\ Feed(p) = <<>>
  BY DEF Roster
<1>1. ASSUME NEW fd \in terminals, conn[fd] = p
      PROVE  /\ Member(p) = TerminalType(fd)
             /\ Feed(p) = IF fd \in todo THEN Append(stream[p], <<obsType, frameBuf>>)
                          ELSE stream[p]
  <2>1. ServedBy(p) = {fd}
    <3>1. \A gd \in terminals : conn[gd] = p => gd = fd
      BY <1>1, Constants DEF Linked, TypeInv, ObsTypeOK
    <3> QED
      BY <1>1, <3>1 DEF ServedBy
  <2>2. Member(p) = TerminalType(fd)
    BY <2>1 DEF Member
  <2>3. stream[p] \in Seq(AudioType \X Nat) /\ <<obsType, frameBuf>> \in AudioType \X Nat
    BY DEF TypeInv, SockTypeOK, ObsTypeOK
  <2>4. /\ stream[p] \o << <<obsType, frameBuf>> >> = Append(stream[p], <<obsType, frameBuf>>)
        /\ stream[p] \o <<>> = stream[p]
    BY <2>3, AppendIsConcat, ConcatEmptySeq
  <2> QED
    BY <2>1, <2>2, <2>4 DEF Feed, Owed
<1>2. ASSUME \A fd \in terminals : conn[fd] # p PROVE Member(p) = "nobody" /\ Feed(p) = <<>>
  BY <1>2 DEF Member, Feed, ServedBy
<1> QED
  BY <1>1, <1>2

-----------------------------------------------------------------------------
(* Every step of the program is a step of Broadcast, or none. *)

\* put(round, x) on a queue of a circular pool keeps the newest frames.
LEMMA PutKeepsNewest ==
  ASSUME NEW q \in Seq(Nat \ {0}), NEW c \in Nat \ {0}, NEW x \in Nat \ {0},
         Len(q) <= c, Round # 0
  PROVE  BoundedQueuePut(q, c, x) = Promise!Newest(Append(q, x), c)
<1>1. /\ Append(q, x) \in Seq(Nat \ {0}) /\ Append(q, x) # <<>>
      /\ Len(Append(q, x)) = Len(q) + 1 /\ Len(q) \in Nat
  BY AppendProperties, LenProperties
<1>2. CASE Len(q) # c
  BY <1>1, <1>2 DEF BoundedQueuePut, Promise!Newest
<1>3. CASE Len(q) = c
  <2>1. q # <<>>
    BY <1>3, EmptySeq
  <2>2. SubSeq(Append(q, x), 2, Len(q) + 1) = Append(Tail(q), x)
    BY <1>1, <2>1, TailIsSubSeq, HeadTailAppend
  <2>3. Len(q) + 1 - c + 1 = 2
    BY <1>1, <1>3
  <2> QED
    BY <1>1, <1>3, <2>2, <2>3 DEF BoundedQueuePut, Promise!Newest
<1> QED
  BY <1>2, <1>3

LEMMA PromiseInit == Init => Promise!BInit
<1> SUFFICES ASSUME Init PROVE Promise!BInit
  OBVIOUS
<1>1. Hand = <<>> /\ \A p \in Peers : Member(p) = "nobody" /\ Feed(p) = <<>>
  BY DEF Init, ObsInit, Hand, Member, Feed, ServedBy
<1> QED
  BY <1>1 DEF Init, PoolInit, Promise!BInit, Promise!Nothing, Promise!Nobody

\* Steps that change nothing of what Broadcast knows.
LEMMA PromiseSame ==
  ASSUME UNCHANGED <<offered, queue>>, Hand' = Hand,
         \A p \in Peers : Member(p)' = Member(p) /\ Feed(p)' = Feed(p)
  PROVE  UNCHANGED Promise!bvars
  BY DEF Promise!bvars

\* The main thread publishes what it puts into a queue.
LEMMA PromiseMain ==
  ASSUME PoolInv, Registering, Walking, Round # 0, MainStep
  PROVE  Promise!BNext \/ UNCHANGED Promise!bvars
<1>1. /\ UNCHANGED <<terminals, conn, stream, todo, obsType, frameBuf>>
      /\ (obsPc = "lock") = (obsPc' = "lock")
  BY DEF MainStep, MainNext, MainRegisterPools, MainStartServer, MainStartObserver,
         MainInitCodecs, MainPutMp3, MainPutAac, MainEndOfFile, MainStopServer,
         MainJoinServer, MainStopObserver, MainJoinObserver, StartObserver, StopObserver,
         obsVars, sockVars
<1>2. /\ \A p \in Peers : Member(p)' = Member(p) /\ Feed(p)' = Feed(p)
      /\ Hand' = Hand
  BY <1>1 DEF Member, Feed, ServedBy, Owed, Hand
<1>3. ASSUME NEW t \in AudioType, PutFrame(t), mainPc \in {"loop", "aac1", "aac2"}
      PROVE  Promise!Publish(t)
  <2>1. t \in registered
    BY <1>3 DEF Registering
  <2>2. /\ queue[t] \in Seq(Nat \ {0}) /\ Len(queue[t]) <= MaxFrames[t]
        /\ MaxFrames[t] \in Nat \ {0} /\ offered[t] + 1 \in Nat \ {0}
    BY PoolAssumption DEF PoolInv, PoolTypeOK, QueueInv
  <2>3. /\ offered' = [offered EXCEPT ![t] = offered[t] + 1]
        /\ offered'[t] = offered[t] + 1
    BY <1>3 DEF PutFrame, PoolInv, PoolTypeOK
  <2>4. queue' = [queue EXCEPT ![t] = Promise!Newest(Append(queue[t], offered[t] + 1), MaxFrames[t])]
    BY <1>3, <2>1, <2>2, <2>3, PutKeepsNewest DEF PutFrame
  <2> QED
    BY <1>2, <2>3, <2>4 DEF Promise!Publish
<1>4. CASE MainRegisterPools
  <2>1. ASSUME NEW t \in AudioType, RegisterFramesPool(t) PROVE UNCHANGED <<offered, queue>>
    <3>1. t \notin registered => queue[t] = <<>>
      BY DEF Registering
    <3> QED
      BY <2>1, <3>1 DEF RegisterFramesPool, PoolInv, PoolTypeOK
  <2> QED
    BY <1>2, <1>4, <2>1, PromiseSame, Constants DEF MainRegisterPools
<1>5. CASE MainPutMp3
  <2>1. Promise!Publish(Mp3)
    BY <1>3, <1>5, Constants DEF MainPutMp3, Goto
  <2> QED
    BY <2>1, Constants DEF Promise!BNext
<1>6. CASE MainPutAac /\ PutFrame(Aac)
  <2>1. Promise!Publish(Aac)
    BY <1>3, <1>6, Constants DEF MainPutAac, Goto
  <2> QED
    BY <2>1, Constants DEF Promise!BNext
<1>7. CASE UNCHANGED poolVars
  BY <1>2, <1>7, PromiseSame DEF poolVars
<1> QED
  BY <1>4, <1>5, <1>6, <1>7
  DEF MainStep, MainNext, MainStartServer, MainStartObserver, MainInitCodecs, MainPutAac,
      MainEndOfFile, MainStopServer, MainJoinServer, MainStopObserver, MainJoinObserver

\* TakeFrame() takes; locking mutex_ delivers, to all members; a write only pays
\* what is owed.
LEMMA PromiseObserver ==
  ASSUME PoolInv, TypeInv, TypeInv', Walking, StreamInv, Roster, Roster', ObserverStep
  PROVE  Promise!BNext \/ UNCHANGED Promise!bvars
<1>1. terminals' = terminals /\ conn' = conn /\ obsType \in AudioType
  BY WriteKeepsConn
  DEF ObserverStep, ObserverNext, ObsCheck, ObsTake, ObsLock, ObsSend, ObsUnlock, Send,
      sockVars, TypeInv, ObsTypeOK
<1>2. \A p \in Peers : Member(p)' = Member(p)
  BY <1>1 DEF Member, ServedBy
<1>3. CASE ObsCheck \/ ObsUnlock
  <2>1. /\ UNCHANGED <<stream, todo, offered, queue>> /\ todo = {}
        /\ obsPc # "lock" /\ obsPc' # "lock"
    BY <1>3 DEF ObsCheck, ObsUnlock, NextHalf, sockVars, poolVars, Walking
  <2>2. Hand' = Hand /\ \A p \in Peers : Feed(p)' = Feed(p)
    BY <1>1, <2>1 DEF Hand, Feed, ServedBy, Owed
  <2> QED
    BY <1>2, <2>1, <2>2, PromiseSame
<1>4. CASE ObsTake
  <2>1. /\ UNCHANGED <<stream, todo, offered>> /\ todo = {}
        /\ obsPc = "take"
    BY <1>4 DEF ObsTake, TakeFrame, sockVars, Walking
  <2>2. \A p \in Peers : Feed(p)' = Feed(p)
    BY <1>1, <2>1 DEF Feed, ServedBy, Owed
  <2>3. CASE ~CanTake(obsType)
    <3>1. queue' = queue /\ Hand' = Hand
      BY <1>4, <2>1, <2>3 DEF ObsTake, TakeFrame, NextHalf, Hand
    <3> QED
      BY <1>2, <2>1, <2>2, <3>1, PromiseSame
  <2>4. CASE CanTake(obsType)
    <3>1. /\ Hand = <<>> /\ Hand' = <<obsType, Head(queue[obsType])>>
          /\ queue[obsType] # <<>>
          /\ queue' = [queue EXCEPT ![obsType] = Tail(queue[obsType])]
      BY <1>4, <2>1, <2>4 DEF ObsTake, TakenFrame, TakeFrame, CanTake, Hand
    <3>2. Promise!Take(obsType)
      BY <1>2, <2>1, <2>2, <3>1 DEF Promise!Take, Promise!Nothing
    <3> QED
      BY <1>1, <3>2 DEF Promise!BNext
  <2> QED
    BY <2>3, <2>4
<1>5. CASE ObsLock
  <2>1. /\ UNCHANGED <<stream, offered, queue, obsType, frameBuf>> /\ todo = {}
        /\ obsPc = "lock" /\ obsPc' = "send"
        /\ todo' = {fd \in terminals : TerminalType(fd) = obsType}
    BY <1>5 DEF ObsLock, sockVars, poolVars, Walking
  <2>2. Hand = <<obsType, frameBuf>> /\ Hand # <<>> /\ Hand[1] = obsType /\ Hand' = <<>>
    BY <2>1 DEF Hand
  <2>3. ASSUME NEW p \in Peers
        PROVE  Feed(p)' = IF Member(p) = obsType THEN Append(Feed(p), Hand) ELSE Feed(p)
    <3>1. CASE \E fd \in terminals : conn[fd] = p
      <4>1. PICK fd \in terminals : conn[fd] = p
        BY <3>1
      <4>2. Member(p) = TerminalType(fd) /\ Feed(p) = stream[p]
        BY <2>1, <4>1 DEF Roster
      <4>3. Feed(p)' = IF fd \in todo' THEN Append(stream[p], <<obsType, frameBuf>>)
                       ELSE stream[p]
        BY <1>1, <2>1, <4>1 DEF Roster
      <4> QED
        BY <2>1, <2>2, <4>1, <4>2, <4>3
    <3>2. CASE \A fd \in terminals : conn[fd] # p
      <4>1. Member(p) = "nobody" /\ Feed(p) = <<>> /\ Feed(p)' = <<>>
        BY <1>1, <3>2 DEF Roster
      <4>2. obsType # "nobody"
        BY <1>1, Constants DEF Mp3, Aac
      <4> QED
        BY <4>1, <4>2
    <3> QED
      BY <3>1, <3>2
  <2>4. Promise!Deliver
    BY <1>2, <2>1, <2>2, <2>3 DEF Promise!Deliver, Promise!Nothing
  <2> QED
    BY <2>4 DEF Promise!BNext
<1>6. CASE ObsSend
  <2>1. PICK fd \in todo : Send(fd) /\ todo' = todo \ {fd}
    BY <1>6 DEF ObsSend
  <2>2. /\ obsPc = "send" /\ UNCHANGED <<obsPc, obsType, frameBuf, offered, queue>>
        /\ fd \in terminals /\ fd \in Fds /\ terminals \subseteq Fds
        /\ <<obsType, frameBuf>> \in AudioType \X Nat
    BY <1>6, <2>1 DEF ObsSend, poolVars, Walking, TypeInv, ObsTypeOK
  <2>3. IF conn[fd] = NoPeer THEN stream' = stream
        ELSE stream' = [stream EXCEPT ![conn[fd]] = Append(@, <<obsType, frameBuf>>)]
    BY <2>1, <2>2, WriteFrame DEF Send, TypeInv
  <2>4. ASSUME NEW p \in Peers PROVE Feed(p)' = Feed(p)
    <3>1. CASE \E gd \in terminals : conn[gd] = p
      <4>1. PICK gd \in terminals : conn[gd] = p
        BY <3>1
      <4>2. Feed(p) = IF gd \in todo THEN Append(stream[p], <<obsType, frameBuf>>)
                      ELSE stream[p]
        BY <4>1 DEF Roster
      <4>3. Feed(p)' = IF gd \in todo' THEN Append(stream'[p], <<obsType, frameBuf>>)
                       ELSE stream'[p]
        BY <1>1, <2>2, <4>1 DEF Roster
      <4>4. CASE gd = fd
        <5>1. stream'[p] = Append(stream[p], <<obsType, frameBuf>>)
          BY <2>3, <4>1, <4>4, Constants DEF TypeInv, SockTypeOK
        <5> QED
          BY <2>1, <4>2, <4>3, <4>4, <5>1
      <4>5. CASE gd # fd
        <5>1. conn[fd] # p
          BY <2>2, <4>1, <4>5, Constants DEF StreamInv, Linked
        <5>2. stream'[p] = stream[p]
          BY <2>3, <5>1 DEF TypeInv, SockTypeOK
        <5> QED
          BY <2>1, <4>2, <4>3, <4>5, <5>2
      <4> QED
        BY <4>4, <4>5
    <3>2. CASE \A gd \in terminals : conn[gd] # p
      BY <1>1, <3>2 DEF Roster
    <3> QED
      BY <3>1, <3>2
  <2>5. Hand' = Hand
    BY <2>2 DEF Hand
  <2> QED
    BY <1>2, <2>2, <2>4, <2>5, PromiseSame
<1> QED
  BY <1>3, <1>4, <1>5, <1>6 DEF ObserverStep, ObserverNext

\* Who keeps the same descriptors, and is written nothing, keeps its place.
LEMMA ServedSame ==
  ASSUME Roster, Roster', NEW p \in Peers, ServedBy(p)' = ServedBy(p),
         UNCHANGED <<stream, todo, obsType, frameBuf>>
  PROVE  Member(p)' = Member(p) /\ Feed(p)' = Feed(p)
<1>1. Feed(p)' = Feed(p)
  BY DEF Feed, Owed
<1>2. CASE ServedBy(p) = {}
  BY <1>1, <1>2 DEF Member
<1>3. ASSUME NEW fd \in ServedBy(p) PROVE Member(p)' = Member(p)
  <2>1. fd \in terminals /\ conn[fd] = p /\ fd \in terminals' /\ conn'[fd] = p
    BY DEF ServedBy
  <2> QED
    BY <2>1 DEF Roster
<1> QED
  BY <1>1, <1>2, <1>3

\* A terminal that is registered joins; closing its connection is leaving.
LEMMA PromiseServer ==
  ASSUME TypeInv, TypeInv', SafeInv, StreamInv, Roster, Roster', ServerStep
  PROVE  Promise!BNext \/ UNCHANGED Promise!bvars
<1>1. /\ UNCHANGED <<todo, obsPc, obsType, frameBuf, offered, queue>>
      /\ Hand' = Hand
  BY DEF ServerStep, ServerNext, SrvCheck, SrvSelect, SrvScanned, SrvClosing, SrvAccept,
         SrvAcceptFails, SrvRegister, SrvRead, SrvReadEnd, SrvFarewell, SrvClose,
         SrvUnregister, SrvLateWrite, RegisterTerminal, UnregisterTerminal, obsVars,
         poolVars, Hand
<1>2. ASSUME stream' = stream, \A p \in Peers : ServedBy(p)' = ServedBy(p)
      PROVE  UNCHANGED Promise!bvars
  <2>1. \A p \in Peers : Member(p)' = Member(p) /\ Feed(p)' = Feed(p)
    BY <1>1, <1>2, ServedSame
  <2> QED
    BY <1>1, <2>1, PromiseSame
<1>3. CASE SrvCheck \/ SrvSelect \/ SrvScanned \/ SrvAcceptFails \/ SrvClosing
  <2>1. UNCHANGED <<conn, terminals, stream>>
    BY <1>3 DEF SrvCheck, SrvSelect, SrvScanned, SrvAcceptFails, AcceptFails, SrvClosing,
                CloseListener, sockVars, obsVars
  <2> QED
    BY <1>2, <2>1 DEF ServedBy
<1>4. ASSUME NEW fd \in ClientFds, SrvRead(fd) \/ SrvReadEnd(fd) PROVE UNCHANGED Promise!bvars
  <2>1. UNCHANGED <<conn, terminals, stream>>
    BY <1>4 DEF SrvRead, SrvReadEnd, ReadsData, ReadsError, ReadsEnd, sockVars, obsVars
  <2> QED
    BY <1>2, <2>1 DEF ServedBy
<1>5. CASE SrvFarewell \/ SrvLateWrite
  <2>1. cur \in Fds /\ Write(cur, <<>>) /\ terminals' = terminals
    BY <1>5 DEF SrvFarewell, SrvLateWrite, TypeInv, SrvTypeOK, obsVars
  <2>2. stream' = stream /\ conn' = conn
    BY <2>1, WriteAsked, WriteNothing DEF TypeInv
  <2> QED
    BY <1>2, <2>1, <2>2 DEF ServedBy
<1>6. CASE SrvAccept
  <2>1. PICK fd \in ClientFds : Accepted(fd)
    BY <1>6 DEF SrvAccept
  <2>2. /\ UNCHANGED <<terminals, stream>>
        /\ conn[fd] = NoPeer /\ conn' = [conn EXCEPT ![fd] = Head(backlog)]
    BY <1>6, <2>1 DEF SrvAccept, Accepted, Free, obsVars
  <2>3. fd \notin terminals
    BY <1>6, <2>1, <2>2, Constants
    DEF SrvAccept, NextReady, SafeInv, TerminalsAreConnected, Closing
  <2>4. \A gd \in terminals : conn'[gd] = conn[gd]
    BY <2>2, <2>3 DEF TypeInv, SockTypeOK, ObsTypeOK
  <2> QED
    BY <1>2, <2>2, <2>4 DEF ServedBy
<1>7. CASE SrvRegister
  <2>1. /\ UNCHANGED <<conn, stream>> /\ srvPc = "register" /\ todo = {}
        /\ terminals' = terminals \cup {cur} /\ cur \in Fds /\ terminals \subseteq Fds
    BY <1>7 DEF SrvRegister, RegisterTerminal, MutexFree, sockVars, SafeInv, Walking, TypeInv,
                ObsTypeOK, SrvTypeOK
  <2>2. CASE cur = NoFd
    <3>1. conn[cur] = NoPeer
      BY <2>2 DEF SafeInv
    <3> QED
      BY <1>2, <2>1, <3>1, Constants DEF ServedBy
  <2>3. CASE cur # NoFd
    <3>1. PICK p \in Peers : p = conn[cur] /\ cur \notin terminals
      BY <2>1, <2>3 DEF SafeInv, Handling, TypeInv, SockTypeOK
    <3>2. /\ \A fd \in terminals : conn[fd] # p
          /\ stream[p] = <<>>
      BY <2>1, <3>1, Constants DEF StreamInv, Linked, Fresh
    <3>3. Member(p) = "nobody" /\ Feed(p) = <<>>
      BY <3>1, <3>2 DEF Roster
    <3>4. Member(p)' = TerminalType(cur) /\ Feed(p)' = <<>>
      <4>1. cur \in terminals' /\ conn'[cur] = p /\ cur \notin todo' /\ stream'[p] = <<>>
        BY <1>1, <2>1, <3>1, <3>2
      <4> QED
        BY <3>1, <4>1 DEF Roster
    <3>5. \A q \in Peers \ {p} : Member(q)' = Member(q) /\ Feed(q)' = Feed(q)
      <4>1. \A q \in Peers \ {p} : ServedBy(q)' = ServedBy(q)
        BY <2>1, <3>1 DEF ServedBy
      <4> QED
        BY <1>1, <2>1, <4>1, ServedSame
    <3>6. TerminalType(cur) \in AudioType
      BY Constants DEF TerminalType
    <3>7. Promise!Join(p, TerminalType(cur))
      BY <1>1, <3>1, <3>3, <3>4, <3>5 DEF Promise!Join, Promise!Nobody
    <3> QED
      BY <3>1, <3>6, <3>7 DEF Promise!BNext
  <2> QED
    BY <2>2, <2>3
<1>8. CASE SrvUnregister
  <2>1. /\ UNCHANGED <<conn, stream>>
        /\ terminals' = terminals \ {cur} /\ conn[cur] = NoPeer
    BY <1>8 DEF SrvUnregister, UnregisterTerminal, sockVars, SafeInv, Handling
  <2> QED
    BY <1>2, <2>1, Constants DEF ServedBy
<1>9. CASE SrvClose
  <2>1. /\ UNCHANGED <<terminals, stream>> /\ srvPc = "close" /\ cur \in Fds
        /\ conn' = [conn EXCEPT ![cur] = NoPeer] /\ conn[cur] # NoPeer
    BY <1>9 DEF SrvClose, Close, obsVars, SafeInv, Handling, TypeInv, SrvTypeOK
  <2>2. PICK p \in Peers :
          /\ conn[cur] = p /\ conn'[cur] = NoPeer
          /\ \A fd \in Fds \ {cur} : conn'[fd] = conn[fd]
    BY <2>1 DEF TypeInv, SockTypeOK
  <2>3. cur \in terminals /\ terminals \subseteq Fds
    BY <2>1, Constants DEF SafeInv, OpenIsServed, TypeInv, ObsTypeOK
  <2>4. Member(p) = TerminalType(cur)
    BY <2>2, <2>3 DEF Roster
  <2>5. \A fd \in terminals' : conn'[fd] # p
    BY <2>1, <2>2, <2>3 DEF StreamInv, Linked
  <2>6. Member(p)' = "nobody" /\ Feed(p)' = <<>>
    BY <2>2, <2>5 DEF Roster
  <2>7. \A q \in Peers \ {p} : Member(q)' = Member(q) /\ Feed(q)' = Feed(q)
    <3>1. \A q \in Peers \ {p} : ServedBy(q)' = ServedBy(q)
      BY <2>1, <2>2, <2>3, Constants DEF ServedBy
    <3> QED
      BY <1>1, <2>1, <3>1, ServedSame
  <2>8. TerminalType(cur) # "nobody"
    BY DEF TerminalType, Mp3, Aac
  <2>9. Promise!Leave(p)
    BY <1>1, <2>2, <2>4, <2>6, <2>7, <2>8 DEF Promise!Leave, Promise!Nobody
  <2> QED
    BY <2>2, <2>9 DEF Promise!BNext
<1> QED
  BY <1>3, <1>4, <1>5, <1>6, <1>7, <1>8, <1>9 DEF ServerStep, ServerNext

\* Members neither join nor leave by what the clients do on their own.
LEMMA PromiseClient ==
  ASSUME NEW p \in Peers, ClientStep(p) PROVE UNCHANGED Promise!bvars
<1>1. UNCHANGED <<conn, stream, terminals, todo, obsPc, obsType, frameBuf, offered, queue>>
  BY DEF ClientStep, ConnectStep, PeerReadStep, PeerCloseStep, RstStep, Outside, Connect,
         PeerReads, PeerCloses, RstArrives, obsVars, poolVars
<1>2. /\ Hand' = Hand
      /\ \A q \in Peers : Member(q)' = Member(q) /\ Feed(q)' = Feed(q)
  BY <1>1 DEF Hand, Member, Feed, ServedBy, Owed
<1> QED
  BY <1>1, <1>2, PromiseSame

LEMMA PromiseStep ==
  /\ Round # 0
  /\ PoolInv /\ TypeInv /\ SafeInv /\ StreamInv /\ Registering /\ Roster
  /\ TypeInv' /\ Roster'
  /\ [Next]_vars
  => [Promise!BNext]_(Promise!bvars)
<1> SUFFICES ASSUME Round # 0, PoolInv, TypeInv, SafeInv, StreamInv, Registering, Roster,
                    TypeInv', Roster', [Next]_vars
             PROVE  Promise!BNext \/ UNCHANGED Promise!bvars
  OBVIOUS
<1>1. Walking
  BY DEF SafeInv
<1>2. ASSUME UNCHANGED vars PROVE UNCHANGED Promise!bvars
  <2>1. UNCHANGED <<conn, stream, terminals, todo, obsPc, obsType, frameBuf, offered, queue>>
    BY <1>2 DEF vars, sockVars, obsVars, poolVars
  <2>2. /\ Hand' = Hand
        /\ \A q \in Peers : Member(q)' = Member(q) /\ Feed(q)' = Feed(q)
    BY <2>1 DEF Hand, Member, Feed, ServedBy, Owed
  <2> QED
    BY <2>1, <2>2, PromiseSame
<1> QED
  BY <1>1, <1>2, PromiseMain, PromiseObserver, PromiseServer, PromiseClient DEF Next, Over

\* With a circular pool, as mp3DecodeEncode() makes it (AudioFramePool(1),
\* mp3_decode_encode_test.cc:83), the threads, the mutexes, the select() loop and the
\* descriptors together do what Broadcast says: a frame that leaves the pool reaches
\* every member as if at once, whoever joins and leaves while NotifyAll() is writing.
THEOREM PusherImplementsBroadcast ==
  ASSUME Round # 0 PROVE Spec => ImplementsBroadcast
<1>1. Spec => []PoolInv /\ [](TypeInv /\ SafeInv) /\ []StreamInv
  BY PusherUsesPool, PoolInvariant, Safe, StreamInvariant, PTL
<1>2. PoolInv => PoolTypeOK
  BY DEF PoolInv
<1>3. TypeInv => ObsTypeOK
  BY DEF TypeInv
<1>4. Spec => []Registering
  <2>1. PoolTypeOK /\ ObsTypeOK /\ Registering /\ [Next]_vars => Registering'
    BY RegisteringStep
  <2> QED
    BY <1>1, <1>2, <1>3, <2>1, RegisteringInit, PTL DEF Spec
<1>5. Spec => []Roster
  <2>1. StreamInv => Linked
    BY DEF StreamInv
  <2> QED
    BY <1>1, <2>1, RosterHolds, PTL
<1>6. PoolInv /\ TypeInv /\ SafeInv /\ StreamInv /\ Registering /\ Roster
      /\ TypeInv' /\ Roster' /\ [Next]_vars
      => [Promise!BNext]_(Promise!bvars)
  BY PromiseStep
<1> QED
  BY <1>1, <1>4, <1>5, <1>6, PromiseInit, PTL DEF Spec, ImplementsBroadcast, Promise!BSpec

=============================================================================
