----------------------------- MODULE Pusher_proofs -----------------------------
(***************************************************************************)
(* The registry, the descriptors and the connections of the program stay   *)
(* consistent, for any number of clients, descriptors and frames.          *)
(***************************************************************************)
EXTENDS Pusher, FramePool_proofs

-----------------------------------------------------------------------------
(* Types, component by component. *)

SockTypeOK ==
  /\ tcp \in [Peers -> TcpStates]
  /\ backlog \in Seq(Peers)
  /\ conn \in [Fds -> Peers \cup {NoPeer}]
  /\ inflight \in [Peers -> 0..SendWindow]
  /\ unread \in SUBSET Peers
  /\ stream \in [Peers -> Seq(AudioType \X Nat)]
  /\ killed \in BOOLEAN

ObsTypeOK ==
  /\ terminals \in SUBSET Fds
  /\ madeFor \in [Fds -> Peers \cup {NoPeer}]
  /\ obsPc \in {"unstarted", "check", "take", "lock", "send", "done"}
  /\ obsType \in AudioType
  /\ frameBuf \in Nat
  /\ todo \in SUBSET Fds
  /\ obsExiting \in BOOLEAN

SrvTypeOK ==
  /\ srvPc \in {"unstarted", "check", "select", "scan", "register", "farewell",
                "close", "unregister", "late", "closing", "done"}
  /\ exiting \in BOOLEAN
  /\ reads \in SUBSET (Fds \cup {ServFd})
  /\ fdMax \in Fds \cup {ServFd}
  /\ ready \in SUBSET (ClientFds \cup {ServFd})
  /\ cur \in Fds

MainTypeOK ==
  mainPc \in {"poolMp3", "poolAac", "startServer", "startObserver", "init", "loop",
              "aac1", "aac2", "stopServer", "joinServer", "stopObserver",
              "joinObserver", "done"}

LEMMA TypeParts ==
  TypeOK <=> PoolTypeOK /\ SockTypeOK /\ ObsTypeOK /\ SrvTypeOK /\ MainTypeOK
  BY DEF TypeOK, SockTypeOK, ObsTypeOK, SrvTypeOK, MainTypeOK

LEMMA Constants ==
  /\ ClientFds \subseteq Nat /\ ServFd \in Nat \ ClientFds
  /\ NoFd \notin ClientFds /\ NoFd # ServFd
  /\ Fds = ClientFds \cup {NoFd} /\ Fds \subseteq Int
  /\ NoPeer \notin Peers
  /\ SendWindow \in Nat \ {0}
  /\ AudioType = {Mp3, Aac} /\ Mp3 # Aac
  BY SocketAssumption, PusherAssumption DEF NoFd, Fds, Mp3, Aac

-----------------------------------------------------------------------------
(* The system calls and the clients keep the types of Sockets. *)

LEMMA AcceptedType ==
  ASSUME SockTypeOK, NEW fd \in ClientFds, Accepted(fd) PROVE SockTypeOK'
<1>1. Head(backlog) \in Peers /\ Tail(backlog) \in Seq(Peers)
  BY HeadTailProperties DEF SockTypeOK, Accepted
<1>2. killed' \in BOOLEAN
  BY Zenon DEF SockTypeOK, Accepted
<1> QED
  BY <1>1, <1>2 DEF SockTypeOK, Accepted

LEMMA ReadsType ==
  ASSUME SockTypeOK, NEW fd \in ClientFds, ReadsData(fd) \/ ReadsError(fd) PROVE SockTypeOK'
<1>1. killed' \in BOOLEAN
  BY Zenon DEF SockTypeOK, ReadsData, ReadsError
<1>2. CASE ReadsData(fd)
  BY <1>1, <1>2 DEF SockTypeOK, ReadsData
<1>3. CASE ReadsError(fd)
  BY <1>1, <1>3 DEF SockTypeOK, ReadsError, TcpStates
<1> QED
  BY <1>2, <1>3

LEMMA WriteType ==
  ASSUME SockTypeOK, NEW fd \in Fds, NEW frame \in Seq(AudioType \X Nat), Write(fd, frame)
  PROVE  SockTypeOK'
<1>1. CASE conn[fd] = NoPeer
  BY <1>1 DEF SockTypeOK, Write, sockVars
<1>2. CASE conn[fd] # NoPeer
  <2> DEFINE p == conn[fd]
  <2>1. p \in Peers
    BY <1>2 DEF SockTypeOK
  <2>2. killed' \in BOOLEAN
    <3>1. killed' = (tcp[p] = "broken" /\ ~SigPipeIgnored)
      BY <1>2 DEF Write
    <3> QED
      BY <3>1, Zenon
  <2>3. tcp' \in [Peers -> TcpStates]
    <3> DEFINE after == CASE tcp[p] = "fin" -> "finw" [] tcp[p] = "reset" -> "broken"
                          [] OTHER -> tcp[p]
    <3>1. tcp' = [tcp EXCEPT ![p] = after]
      BY <1>2 DEF Write
    <3>2. after \in TcpStates
      <4>1. tcp[p] \in TcpStates
        BY <2>1 DEF SockTypeOK
      <4>2. CASE tcp[p] = "fin"
        BY <4>2 DEF TcpStates
      <4>3. CASE tcp[p] = "reset"
        BY <4>3 DEF TcpStates
      <4>4. CASE tcp[p] # "fin" /\ tcp[p] # "reset"
        BY <4>1, <4>4
      <4> QED
        BY <4>2, <4>3, <4>4
    <3>3. tcp \in [Peers -> TcpStates]
      BY DEF SockTypeOK
    <3> HIDE DEF after, p
    <3> QED
      BY <2>1, <3>1, <3>2, <3>3
  <2>4. inflight' \in [Peers -> 0..SendWindow]
    <3> DEFINE after == IF tcp[p] = "open" THEN inflight[p] + 1 ELSE inflight[p]
    <3>1. inflight' = [inflight EXCEPT ![p] = after]
      BY <1>2 DEF Write
    <3>2. inflight[p] \in 0..SendWindow /\ (tcp[p] = "open" => inflight[p] # SendWindow)
      BY <1>2, <2>1 DEF SockTypeOK, Write
    <3>3. after \in 0..SendWindow
      BY <3>2, Constants
    <3>4. inflight \in [Peers -> 0..SendWindow]
      BY DEF SockTypeOK
    <3> HIDE DEF after, p
    <3> QED
      BY <2>1, <3>1, <3>3, <3>4
  <2>5. stream' \in [Peers -> Seq(AudioType \X Nat)]
    <3>1. stream[p] \o frame \in Seq(AudioType \X Nat)
      BY <2>1, ConcatProperties DEF SockTypeOK
    <3> QED
      BY <1>2, <2>1, <3>1 DEF SockTypeOK, Write
  <2> QED
    BY <1>2, <2>2, <2>3, <2>4, <2>5 DEF SockTypeOK, Write
<1> QED
  BY <1>1, <1>2

LEMMA CloseType ==
  ASSUME SockTypeOK, NEW fd \in Fds, Close(fd) PROVE SockTypeOK'
<1>1. killed' \in BOOLEAN
  BY Zenon DEF SockTypeOK, Close
<1> QED
  BY <1>1 DEF SockTypeOK, Close, TcpStates

LEMMA CloseListenerType ==
  ASSUME SockTypeOK, CloseListener PROVE SockTypeOK'
<1>1. killed' \in BOOLEAN
  BY Zenon DEF SockTypeOK, CloseListener
<1> QED
  BY <1>1, EmptySeq DEF SockTypeOK, CloseListener, TcpStates

LEMMA ClientType ==
  ASSUME SockTypeOK, NEW p \in Peers,
         Connect(p) \/ PeerReads(p) \/ PeerCloses(p) \/ RstArrives(p)
  PROVE  SockTypeOK'
<1>1. killed' \in BOOLEAN
  BY Zenon DEF SockTypeOK, Connect, PeerReads, PeerCloses, RstArrives
<1>2. CASE Connect(p)
  <2>1. Append(backlog, p) \in Seq(Peers)
    BY AppendProperties DEF SockTypeOK
  <2> QED
    BY <1>1, <1>2, <2>1 DEF SockTypeOK, Connect, TcpStates
<1>3. CASE PeerReads(p)
  BY <1>1, <1>3, Constants DEF SockTypeOK, PeerReads
<1>4. CASE PeerCloses(p)
  BY <1>1, <1>4, Constants DEF SockTypeOK, PeerCloses, TcpStates
<1>5. CASE RstArrives(p)
  BY <1>1, <1>5 DEF SockTypeOK, RstArrives, TcpStates
<1> QED
  BY <1>2, <1>3, <1>4, <1>5

-----------------------------------------------------------------------------
(* The pool inside the program. *)

\* Loop() only ever works on the two types.
Halves == obsType \in AudioType

LEMMA HalvesInit == Init => Halves
  BY Constants DEF Init, ObsInit, Halves

LEMMA HalvesStep == Halves /\ [Next]_vars => Halves'
<1> SUFFICES ASSUME obsType \in AudioType, [Next]_vars PROVE obsType' \in AudioType
  BY DEF Halves
<1>1. CASE ObserverStep
  BY <1>1, Constants
  DEF ObserverStep, ObserverNext, ObsCheck, ObsTake, ObsLock, ObsSend, ObsUnlock, NextHalf
<1>2. CASE MainStep
  BY <1>2
  DEF MainStep, MainNext, MainRegisterPools, MainStartServer, MainStartObserver,
      MainInitCodecs, MainPutMp3, MainPutAac, MainEndOfFile, MainStopServer,
      MainJoinServer, MainStopObserver, MainJoinObserver, StartObserver, StopObserver, obsVars
<1>3. CASE ServerStep
  BY <1>3
  DEF ServerStep, ServerNext, SrvCheck, SrvSelect, SrvScanned, SrvClosing, SrvAccept,
      SrvAcceptFails, SrvRegister, SrvRead, SrvReadEnd, SrvFarewell, SrvClose,
      SrvUnregister, SrvLateWrite, RegisterTerminal, UnregisterTerminal, obsVars
<1>4. CASE \E p \in Peers : ClientStep(p)
  BY <1>4 DEF ClientStep, ConnectStep, PeerReadStep, PeerCloseStep, RstStep, Outside, obsVars
<1>5. CASE Over \/ UNCHANGED vars
  BY <1>5 DEF Over, vars, obsVars
<1> QED
  BY <1>1, <1>2, <1>3, <1>4, <1>5 DEF Next

LEMMA PoolStep == ASSUME Halves, [Next]_vars PROVE [PoolNext]_poolVars
<1>1. Mp3 \in AudioType /\ Aac \in AudioType
  BY Constants
<1>2. ASSUME MainStep PROVE PoolNext \/ UNCHANGED poolVars
  <2>1. CASE MainRegisterPools
    BY <1>1, <2>1 DEF MainRegisterPools, PoolNext
  <2>2. CASE MainPutMp3
    BY <1>1, <2>2 DEF MainPutMp3, PoolNext
  <2>3. CASE MainPutAac
    BY <1>1, <2>3 DEF MainPutAac, PoolNext
  <2>4. CASE UNCHANGED poolVars
    BY <2>4
  <2> QED
    BY <1>2, <2>1, <2>2, <2>3, <2>4
    DEF MainStep, MainNext, MainStartServer, MainStartObserver, MainInitCodecs,
        MainEndOfFile, MainStopServer, MainJoinServer, MainStopObserver, MainJoinObserver
<1>3. ASSUME ObserverStep PROVE PoolNext \/ UNCHANGED poolVars
  BY <1>3
  DEF Halves, ObserverStep, ObserverNext, ObsCheck, ObsTake, ObsLock, ObsSend, ObsUnlock, PoolNext
<1>4. ASSUME ServerStep PROVE UNCHANGED poolVars
  BY <1>4
  DEF ServerStep, ServerNext, SrvCheck, SrvSelect, SrvScanned, SrvClosing, SrvAccept,
      SrvAcceptFails, SrvRegister, SrvRead, SrvReadEnd, SrvFarewell, SrvClose,
      SrvUnregister, SrvLateWrite
<1>5. ASSUME NEW p \in Peers, ClientStep(p) PROVE UNCHANGED poolVars
  BY <1>5 DEF ClientStep, ConnectStep, PeerReadStep, PeerCloseStep, RstStep, Outside
<1>6. ASSUME Over \/ UNCHANGED vars PROVE UNCHANGED poolVars
  BY <1>6 DEF Over, vars
<1> QED
  BY <1>2, <1>3, <1>4, <1>5, <1>6 DEF Next

\* Inside the program, with its three threads, the pool behaves as FramePool says:
\* whatever is proved of PoolSpec holds in the program.
THEOREM PusherUsesPool == Spec => PoolSpec
<1>1. Init => PoolInit
  BY DEF Init
<1>2. Halves /\ [Next]_vars => [PoolNext]_poolVars
  BY PoolStep
<1> QED
  BY <1>1, <1>2, HalvesInit, HalvesStep, PTL DEF Spec, PoolSpec

\* The program never loses anything but the oldest frames to a slow observer.
THEOREM PusherHoldsNewest == Spec => []HoldsNewest
  BY PusherUsesPool, PoolHoldsNewest, PTL

-----------------------------------------------------------------------------
(* The threads keep the types. *)

TypeInv == SockTypeOK /\ ObsTypeOK /\ SrvTypeOK /\ MainTypeOK

LEMMA TypeInit == Init => TypeInv
<1> SUFFICES ASSUME Init PROVE TypeInv
  OBVIOUS
<1>1. killed \in BOOLEAN /\ obsExiting \in BOOLEAN /\ exiting \in BOOLEAN
  BY ServerAssumption, Zenon DEF Init, SockInit, ObsInit, SrvInit
<1>2. SockTypeOK
  BY <1>1, Constants, EmptySeq DEF Init, SockInit, SockTypeOK, TcpStates
<1>3. ObsTypeOK
  BY <1>1, Constants DEF Init, ObsInit, ObsTypeOK, NoFrame
<1>4. SrvTypeOK
  BY <1>1, Constants DEF Init, SrvInit, SrvTypeOK
<1> QED
  BY <1>2, <1>3, <1>4 DEF Init, TypeInv, MainTypeOK

LEMMA SockSame == ASSUME SockTypeOK, UNCHANGED sockVars PROVE SockTypeOK'
<1>1. killed' \in BOOLEAN
  BY Zenon DEF SockTypeOK, sockVars
<1> QED
  BY <1>1 DEF SockTypeOK, sockVars

LEMMA ObsSame == ASSUME ObsTypeOK, UNCHANGED obsVars PROVE ObsTypeOK'
<1>1. obsExiting' \in BOOLEAN
  BY Zenon DEF ObsTypeOK, obsVars
<1> QED
  BY <1>1 DEF ObsTypeOK, obsVars

LEMMA SrvSame == ASSUME SrvTypeOK, UNCHANGED srvVars PROVE SrvTypeOK'
<1>1. exiting' \in BOOLEAN
  BY Zenon DEF SrvTypeOK, srvVars
<1> QED
  BY <1>1 DEF SrvTypeOK, srvVars

LEMMA MainTypeStep == ASSUME TypeInv, MainStep PROVE TypeInv'
<1>1. SockTypeOK'
  BY SockSame
  DEF TypeInv, MainStep, MainNext, MainRegisterPools, MainStartServer, MainStartObserver,
      MainInitCodecs, MainPutMp3, MainPutAac, MainEndOfFile, MainStopServer,
      MainJoinServer, MainStopObserver, MainJoinObserver
<1>2. ObsTypeOK'
  <2>1. CASE StartObserver \/ StopObserver
    <3>1. obsExiting' \in BOOLEAN
      BY <2>1, Zenon DEF StartObserver, StopObserver, TypeInv, ObsTypeOK
    <3> QED
      BY <2>1, <3>1 DEF StartObserver, StopObserver, TypeInv, ObsTypeOK
  <2>2. CASE UNCHANGED obsVars
    BY <2>2, ObsSame DEF TypeInv
  <2> QED
    BY <2>1, <2>2
    DEF MainStep, MainNext, MainRegisterPools, MainStartServer, MainStartObserver,
        MainInitCodecs, MainPutMp3, MainPutAac, MainEndOfFile, MainStopServer,
        MainJoinServer, MainStopObserver, MainJoinObserver
<1>3. SrvTypeOK'
  <2>1. CASE StartServer \/ StopServer
    <3>1. exiting' \in BOOLEAN
      BY <2>1, Zenon DEF StartServer, StopServer, TypeInv, SrvTypeOK
    <3> QED
      BY <2>1, <3>1 DEF StartServer, StopServer, TypeInv, SrvTypeOK
  <2>2. CASE UNCHANGED srvVars
    BY <2>2, SrvSame DEF TypeInv
  <2> QED
    BY <2>1, <2>2
    DEF MainStep, MainNext, MainRegisterPools, MainStartServer, MainStartObserver,
        MainInitCodecs, MainPutMp3, MainPutAac, MainEndOfFile, MainStopServer,
        MainJoinServer, MainStopObserver, MainJoinObserver
<1>4. MainTypeOK'
  BY DEF MainStep, MainNext, MainRegisterPools, MainStartServer, MainStartObserver,
      MainInitCodecs, MainPutMp3, MainPutAac, MainEndOfFile, MainStopServer,
      MainJoinServer, MainStopObserver, MainJoinObserver, Goto, MainTypeOK
<1> QED
  BY <1>1, <1>2, <1>3, <1>4 DEF TypeInv

LEMMA ObserverTypeStep ==
  ASSUME PoolTypeOK, TypeInv, ObserverStep PROVE TypeInv'
<1>1. SrvTypeOK' /\ MainTypeOK'
  BY SrvSame DEF TypeInv, ObserverStep, MainTypeOK
<1>2. obsExiting' \in BOOLEAN
  BY Zenon
  DEF TypeInv, ObsTypeOK, ObserverStep, ObserverNext, ObsCheck, ObsTake, ObsLock,
      ObsSend, ObsUnlock
<1>3. CASE ObsCheck \/ ObsLock \/ ObsUnlock
  <2>1. SockTypeOK'
    BY <1>3, SockSame DEF TypeInv, ObsCheck, ObsLock, ObsUnlock
  <2>2. ObsTypeOK'
    <3>1. obsType' \in AudioType /\ obsPc' \in {"check", "take", "send", "done"}
      BY <1>3, Constants DEF TypeInv, ObsTypeOK, ObsCheck, ObsLock, ObsUnlock, NextHalf
    <3>2. todo' \in SUBSET Fds /\ frameBuf' \in Nat
      BY <1>3 DEF TypeInv, ObsTypeOK, ObsCheck, ObsLock, ObsUnlock, NoFrame
    <3>3. UNCHANGED <<terminals, madeFor>>
      BY <1>3 DEF ObsCheck, ObsLock, ObsUnlock
    <3> QED
      BY <1>2, <3>1, <3>2, <3>3 DEF TypeInv, ObsTypeOK
  <2> QED
    BY <1>1, <2>1, <2>2 DEF TypeInv
<1>4. CASE ObsTake
  <2>1. SockTypeOK'
    BY <1>4, SockSame DEF TypeInv, ObsTake
  <2>2. frameBuf' \in Nat
    <3>1. CanTake(obsType) => Head(queue[obsType]) \in Nat
      BY HeadTailProperties DEF CanTake, TypeInv, ObsTypeOK, PoolTypeOK
    <3> QED
      BY <1>4, <3>1 DEF ObsTake, TakenFrame, TypeInv, ObsTypeOK
  <2>3. ObsTypeOK'
    <3>1. obsType' \in AudioType /\ obsPc' \in {"lock", "take", "check"}
      BY <1>4, Constants DEF TypeInv, ObsTypeOK, ObsTake, NextHalf
    <3>2. UNCHANGED <<terminals, madeFor, todo>>
      BY <1>4 DEF ObsTake
    <3>3. /\ terminals \in SUBSET Fds /\ todo \in SUBSET Fds
          /\ madeFor \in [Fds -> Peers \cup {NoPeer}]
      BY DEF TypeInv, ObsTypeOK
    <3> QED
      BY <1>2, <2>2, <3>1, <3>2, <3>3 DEF ObsTypeOK
  <2> QED
    BY <1>1, <2>1, <2>3 DEF TypeInv
<1>5. CASE ObsSend
  <2>1. PICK fd \in todo : Write(fd, << <<obsType, frameBuf>> >>) /\ todo' = todo \ {fd}
    BY <1>5 DEF ObsSend, Send
  <2>2. << <<obsType, frameBuf>> >> \in Seq(AudioType \X Nat)
    BY DEF TypeInv, ObsTypeOK
  <2>3. SockTypeOK'
    BY <2>1, <2>2, WriteType DEF TypeInv, ObsTypeOK
  <2>4. ObsTypeOK'
    BY <1>2, <1>5, <2>1 DEF ObsSend, Send, TypeInv, ObsTypeOK
  <2> QED
    BY <1>1, <2>3, <2>4 DEF TypeInv
<1> QED
  BY <1>3, <1>4, <1>5 DEF ObserverStep, ObserverNext

LEMMA ServerTypeStep ==
  ASSUME TypeInv, ServerStep PROVE TypeInv'
<1>1. MainTypeOK'
  BY DEF TypeInv, ServerStep, MainTypeOK
<1>2. exiting' \in BOOLEAN
  BY Zenon
  DEF TypeInv, SrvTypeOK, ServerStep, ServerNext, SrvCheck, SrvSelect, SrvScanned,
      SrvClosing, SrvAccept, SrvAcceptFails, SrvRegister, SrvRead, SrvReadEnd,
      SrvFarewell, SrvClose, SrvUnregister, SrvLateWrite
<1>3. SockTypeOK /\ ObsTypeOK /\ SrvTypeOK /\ cur \in Fds
  BY DEF TypeInv, SrvTypeOK
<1>4. CASE SrvCheck \/ SrvSelect \/ SrvScanned
  <2>1. SockTypeOK' /\ ObsTypeOK'
    BY <1>3, <1>4, SockSame, ObsSame DEF SrvCheck, SrvSelect, SrvScanned
  <2>2. SrvTypeOK'
    BY <1>2, <1>3, <1>4, Constants DEF SrvTypeOK, SrvCheck, SrvSelect, SrvScanned
  <2> QED
    BY <1>1, <2>1, <2>2 DEF TypeInv
<1>5. CASE SrvClosing
  <2>1. SockTypeOK' /\ ObsTypeOK'
    BY <1>3, <1>5, CloseListenerType, ObsSame DEF SrvClosing
  <2>2. SrvTypeOK'
    BY <1>2, <1>3, <1>5 DEF SrvTypeOK, SrvClosing
  <2> QED
    BY <1>1, <2>1, <2>2 DEF TypeInv
<1>6. CASE SrvAccept
  <2>1. PICK fd \in ClientFds :
          /\ Accepted(fd) /\ cur' = fd /\ reads' = reads \cup {fd}
          /\ fdMax' = IF fdMax < fd THEN fd ELSE fdMax
    BY <1>6 DEF SrvAccept
  <2>2. SockTypeOK' /\ ObsTypeOK'
    BY <1>3, <1>6, <2>1, AcceptedType, ObsSame DEF SrvAccept
  <2>3. SrvTypeOK'
    BY <1>2, <1>3, <1>6, <2>1, Constants DEF SrvTypeOK, SrvAccept, NextReady
  <2> QED
    BY <1>1, <2>2, <2>3 DEF TypeInv
<1>7. CASE SrvAcceptFails
  <2>1. SockTypeOK' /\ ObsTypeOK'
    BY <1>3, <1>7, SockSame, ObsSame DEF SrvAcceptFails, AcceptFails
  <2>2. SrvTypeOK'
    BY <1>2, <1>3, <1>7, Constants DEF SrvTypeOK, SrvAcceptFails, NextReady
  <2> QED
    BY <1>1, <2>1, <2>2 DEF TypeInv
<1>8. CASE SrvRegister \/ SrvUnregister
  <2>1. SockTypeOK'
    BY <1>3, <1>8, SockSame DEF SrvRegister, SrvUnregister
  <2>2. SrvTypeOK'
    BY <1>2, <1>3, <1>8 DEF SrvTypeOK, SrvRegister, SrvUnregister
  <2>3. obsExiting' \in BOOLEAN
    BY <1>3, <1>8, Zenon
    DEF ObsTypeOK, SrvRegister, SrvUnregister, RegisterTerminal, UnregisterTerminal
  <2>4. terminals' \in SUBSET Fds /\ madeFor' \in [Fds -> Peers \cup {NoPeer}]
    BY <1>3, <1>8
    DEF SockTypeOK, ObsTypeOK, SrvRegister, SrvUnregister, RegisterTerminal, UnregisterTerminal
  <2>5. ObsTypeOK'
    BY <1>3, <1>8, <2>3, <2>4
    DEF ObsTypeOK, SrvRegister, SrvUnregister, RegisterTerminal, UnregisterTerminal
  <2> QED
    BY <1>1, <2>1, <2>2, <2>5 DEF TypeInv
<1>9. ASSUME NEW fd \in ClientFds, SrvRead(fd) \/ SrvReadEnd(fd) PROVE TypeInv'
  <2>1. SockTypeOK' /\ ObsTypeOK'
    BY <1>3, <1>9, ReadsType, SockSame, ObsSame DEF SrvRead, SrvReadEnd, ReadsEnd
  <2>2. SrvTypeOK'
    BY <1>2, <1>3, <1>9, Constants DEF SrvTypeOK, SrvRead, SrvReadEnd, NextReady
  <2> QED
    BY <1>1, <2>1, <2>2 DEF TypeInv
<1>10. CASE SrvFarewell \/ SrvLateWrite
  <2>1. <<>> \in Seq(AudioType \X Nat)
    BY EmptySeq
  <2>2. SockTypeOK' /\ ObsTypeOK'
    BY <1>3, <1>10, <2>1, WriteType, ObsSame DEF SrvFarewell, SrvLateWrite
  <2>3. SrvTypeOK'
    BY <1>2, <1>3, <1>10 DEF SrvTypeOK, SrvFarewell, SrvLateWrite
  <2> QED
    BY <1>1, <2>2, <2>3 DEF TypeInv
<1>11. CASE SrvClose
  <2>1. SockTypeOK' /\ ObsTypeOK'
    BY <1>3, <1>11, CloseType, ObsSame DEF SrvClose
  <2>2. SrvTypeOK'
    BY <1>2, <1>3, <1>11 DEF SrvTypeOK, SrvClose
  <2> QED
    BY <1>1, <2>1, <2>2 DEF TypeInv
<1> QED
  BY <1>4, <1>5, <1>6, <1>7, <1>8, <1>9, <1>10, <1>11 DEF ServerStep, ServerNext

LEMMA ClientTypeStep ==
  ASSUME TypeInv, NEW p \in Peers, ClientStep(p) PROVE TypeInv'
<1>1. SockTypeOK'
  BY ClientType DEF TypeInv, ClientStep, ConnectStep, PeerReadStep, PeerCloseStep, RstStep
<1>2. ObsTypeOK' /\ SrvTypeOK'
  BY ObsSame, SrvSame
  DEF TypeInv, ClientStep, ConnectStep, PeerReadStep, PeerCloseStep, RstStep, Outside
<1>3. MainTypeOK'
  BY DEF TypeInv, MainTypeOK, ClientStep, ConnectStep, PeerReadStep, PeerCloseStep, RstStep,
         Outside
<1> QED
  BY <1>1, <1>2, <1>3 DEF TypeInv

LEMMA TypeStep == PoolTypeOK /\ TypeInv /\ [Next]_vars => TypeInv'
<1>1. ASSUME TypeInv, UNCHANGED vars PROVE TypeInv'
  BY <1>1, SockSame, ObsSame, SrvSame DEF TypeInv, MainTypeOK, vars
<1> QED
  BY <1>1, MainTypeStep, ObserverTypeStep, ServerTypeStep, ClientTypeStep DEF Next, Over

\* All the state keeps its types, for any number of clients and descriptors.
THEOREM TypeCorrect == Spec => []TypeOK
<1>1. PoolTypeOK /\ TypeInv => TypeOK
  BY TypeParts DEF TypeInv
<1> QED
  BY <1>1, TypeInit, TypeStep, PusherUsesPool, PoolTypeCorrect, PTL DEF Spec

-----------------------------------------------------------------------------
(* Descriptors, connections and the registry. *)

\* What is known of the connection that the server's thread is working on.
Handling ==
  /\ srvPc = "unstarted" => \A fd \in ClientFds : conn[fd] = NoPeer
  /\ srvPc = "register" /\ cur # NoFd => conn[cur] # NoPeer /\ cur \notin terminals
  /\ srvPc = "farewell" => conn[cur] # NoPeer
  /\ srvPc = "close" => conn[cur] # NoPeer /\ cur \notin reads
  /\ srvPc \in {"unregister", "late"} => conn[cur] = NoPeer

\* NotifyAll() only holds terminals of the registry, and only while it runs.
Walking == todo \subseteq terminals /\ (obsPc # "send" => todo = {})

\* The inductive invariant.
SafeInv ==
  /\ conn[NoFd] = NoPeer
  /\ TerminalsAreConnected
  /\ OpenIsServed
  /\ Handling
  /\ Walking

LEMMA SafeInvImplies ==
  ASSUME TypeInv, SafeInv
  PROVE  TerminalsAreConnected /\ WritesReachOwnPeer /\ RegistrationSucceeds /\ OpenIsServed
<1>1. \A fd \in todo : fd \in terminals /\ conn[fd] \in {madeFor[fd], NoPeer}
  BY DEF SafeInv, Walking, TerminalsAreConnected
<1> QED
  BY <1>1 DEF SafeInv, Handling, WritesReachOwnPeer, RegistrationSucceeds

LEMMA SafeInit == Init => SafeInv
  BY Constants
  DEF Init, SockInit, ObsInit, SrvInit, SafeInv, TerminalsAreConnected, OpenIsServed,
      Handling, Walking

\* Steps that do not touch what the invariant is about.
LEMMA SafeSame ==
  ASSUME SafeInv, UNCHANGED <<conn, terminals, madeFor, todo, srvPc, reads, fdMax, cur>>,
         obsPc # "send" => obsPc' # "send" \/ todo' = {},
         obsPc = "send" => obsPc' = "send" \/ todo = {}
  PROVE  SafeInv'
  BY DEF SafeInv, TerminalsAreConnected, Closing, OpenIsServed, Handling, Walking

LEMMA WriteKeepsConn == ASSUME NEW fd, NEW frame, Write(fd, frame) PROVE conn' = conn
  BY DEF Write, sockVars

LEMMA SafeMain == ASSUME SafeInv, MainStep PROVE SafeInv'
<1>1. CASE MainStartServer
  BY <1>1, Constants
  DEF MainStartServer, StartServer, sockVars, obsVars, SafeInv, TerminalsAreConnected, Closing,
      OpenIsServed, Handling, Walking
<1>2. CASE MainStartObserver
  BY <1>2, SafeSame DEF MainStartObserver, StartObserver, sockVars, srvVars
<1>3. CASE MainStopServer
  BY <1>3, SafeSame DEF MainStopServer, StopServer, sockVars, obsVars
<1>4. CASE MainStopObserver
  BY <1>4, SafeSame DEF MainStopObserver, StopObserver, sockVars, srvVars
<1>5. CASE UNCHANGED <<sockVars, obsVars, srvVars>>
  BY <1>5, SafeSame DEF sockVars, obsVars, srvVars
<1> QED
  BY <1>1, <1>2, <1>3, <1>4, <1>5
  DEF MainStep, MainNext, MainRegisterPools, MainInitCodecs, MainPutMp3, MainPutAac,
      MainEndOfFile, MainJoinServer, MainJoinObserver

LEMMA SafeObserver == ASSUME SafeInv, ObserverStep PROVE SafeInv'
<1>1. CASE ObsCheck
  BY <1>1, SafeSame DEF ObserverStep, ObsCheck, sockVars, srvVars
<1>2. CASE ObsTake
  BY <1>2, SafeSame DEF ObserverStep, ObsTake, NextHalf, sockVars, srvVars
<1>3. CASE ObsLock
  BY <1>3
  DEF ObserverStep, ObsLock, sockVars, srvVars, SafeInv, TerminalsAreConnected, Closing,
      OpenIsServed, Handling, Walking
<1>4. CASE ObsSend
  <2>1. conn' = conn
    BY <1>4, WriteKeepsConn DEF ObsSend, Send
  <2>2. todo' \subseteq todo /\ obsPc = "send" /\ obsPc' = "send"
    BY <1>4 DEF ObsSend
  <2>3. UNCHANGED <<terminals, madeFor, srvPc, reads, fdMax, cur>>
    BY <1>4 DEF ObserverStep, ObsSend, srvVars
  <2> QED
    BY <2>1, <2>2, <2>3
    DEF SafeInv, TerminalsAreConnected, Closing, OpenIsServed, Handling, Walking
<1>5. CASE ObsUnlock
  BY <1>5, SafeSame DEF ObserverStep, ObsUnlock, NextHalf, sockVars, srvVars
<1> QED
  BY <1>1, <1>2, <1>3, <1>4, <1>5 DEF ObserverStep, ObserverNext

LEMMA SafeClient == ASSUME SafeInv, NEW p \in Peers, ClientStep(p) PROVE SafeInv'
<1>1. conn' = conn
  BY DEF ClientStep, ConnectStep, PeerReadStep, PeerCloseStep, RstStep, Connect, PeerReads,
         PeerCloses, RstArrives
<1> QED
  BY <1>1, SafeSame
  DEF ClientStep, ConnectStep, PeerReadStep, PeerCloseStep, RstStep, Outside, obsVars, srvVars

LEMMA SafeServer == ASSUME TypeInv, SafeInv, ServerStep PROVE SafeInv'
<1>1. CASE SrvCheck \/ SrvSelect \/ SrvScanned
  BY <1>1
  DEF SrvCheck, SrvSelect, SrvScanned, sockVars, obsVars, SafeInv, TerminalsAreConnected,
      Closing, OpenIsServed, Handling, Walking
<1>2. CASE SrvClosing
  BY <1>2
  DEF SrvClosing, CloseListener, obsVars, SafeInv, TerminalsAreConnected, Closing,
      OpenIsServed, Handling, Walking
<1>3. CASE SrvAccept
  <2>1. PICK fd \in ClientFds :
          /\ Accepted(fd) /\ cur' = fd /\ reads' = reads \cup {fd}
          /\ fdMax' = IF fdMax < fd THEN fd ELSE fdMax
    BY <1>3 DEF SrvAccept
  <2>2. /\ conn[fd] = NoPeer /\ conn' = [conn EXCEPT ![fd] = Head(backlog)]
        /\ Head(backlog) \in Peers
    BY <2>1, HeadTailProperties DEF Accepted, Free, TypeInv, SockTypeOK
  <2>3. conn'[fd] # NoPeer /\ \A other \in Fds \ {fd} : conn'[other] = conn[other]
    BY <2>2, Constants DEF TypeInv, SockTypeOK
  <2>4. fd \notin terminals
    BY <1>3, <2>1, <2>2, Constants DEF SrvAccept, NextReady, SafeInv, TerminalsAreConnected, Closing
  <2>5. /\ fd <= fdMax'
        /\ \A other \in ClientFds : other <= fdMax => other <= fdMax'
    BY <2>1, Constants DEF TypeInv, SrvTypeOK
  <2>6. /\ srvPc = "scan" /\ srvPc' = "register"
        /\ UNCHANGED <<terminals, madeFor, todo, obsPc>>
    BY <1>3 DEF SrvAccept, NextReady, obsVars
  <2>7. TerminalsAreConnected'
    BY <2>3, <2>4, <2>6
    DEF SafeInv, TerminalsAreConnected, Closing, TypeInv, ObsTypeOK
  <2>8. OpenIsServed'
    BY <2>1, <2>3, <2>5, <2>6, Constants DEF SafeInv, OpenIsServed, TypeInv, SrvTypeOK
  <2> QED
    BY <2>1, <2>3, <2>4, <2>6, <2>7, <2>8, Constants DEF SafeInv, Handling, Walking
<1>4. CASE SrvAcceptFails
  BY <1>4
  DEF SrvAcceptFails, NextReady, AcceptFails, sockVars, obsVars, SafeInv,
      TerminalsAreConnected, Closing, OpenIsServed, Handling, Walking
<1>5. CASE SrvRegister
  <2>1. /\ srvPc = "register" /\ srvPc' = "scan"
        /\ UNCHANGED <<conn, todo, obsPc, reads, fdMax, cur>>
    BY <1>5 DEF SrvRegister, RegisterTerminal, sockVars
  <2>2. CASE cur \in terminals
    <3>1. cur = NoFd /\ UNCHANGED <<terminals, madeFor>>
      BY <1>5, <2>1, <2>2 DEF SrvRegister, RegisterTerminal, SafeInv, Handling
    <3> QED
      BY <2>1, <3>1, Constants
      DEF SafeInv, TerminalsAreConnected, Closing, OpenIsServed, Handling, Walking
  <2>3. CASE cur \notin terminals
    <3>1. /\ terminals' = terminals \cup {cur}
          /\ madeFor' = [madeFor EXCEPT ![cur] = conn[cur]]
      BY <1>5, <2>3 DEF SrvRegister, RegisterTerminal
    <3>2. /\ madeFor'[cur] = conn[cur]
          /\ \A other \in Fds \ {cur} : madeFor'[other] = madeFor[other]
      BY <3>1 DEF TypeInv, ObsTypeOK, SrvTypeOK
    <3>3. TerminalsAreConnected'
      BY <2>1, <3>1, <3>2
      DEF SafeInv, TerminalsAreConnected, Closing, Handling, TypeInv, ObsTypeOK
    <3> QED
      BY <2>1, <3>1, <3>3 DEF SafeInv, OpenIsServed, Handling, Walking
  <2> QED
    BY <2>2, <2>3
<1>6. ASSUME NEW fd \in ClientFds, SrvRead(fd) PROVE SafeInv'
  BY <1>6, SafeSame DEF SrvRead, NextReady, ReadsData, ReadsError, obsVars
<1>7. ASSUME NEW fd \in ClientFds, SrvReadEnd(fd) PROVE SafeInv'
  BY <1>7
  DEF SrvReadEnd, NextReady, ReadsEnd, sockVars, obsVars, SafeInv, TerminalsAreConnected,
      Closing, OpenIsServed, Handling, Walking
<1>8. CASE SrvFarewell
  <2>1. conn' = conn
    BY <1>8, WriteKeepsConn DEF SrvFarewell
  <2> QED
    BY <1>8, <2>1, Constants
    DEF SrvFarewell, obsVars, SafeInv, TerminalsAreConnected, Closing, OpenIsServed,
        Handling, Walking
<1>9. CASE SrvClose
  <2>1. /\ srvPc = "close" /\ srvPc' = "unregister" /\ conn' = [conn EXCEPT ![cur] = NoPeer]
        /\ UNCHANGED <<terminals, madeFor, todo, obsPc, reads, fdMax, cur>>
    BY <1>9 DEF SrvClose, Close, obsVars
  <2>2. conn'[cur] = NoPeer /\ \A other \in Fds \ {cur} : conn'[other] = conn[other]
    BY <2>1 DEF TypeInv, SockTypeOK, SrvTypeOK
  <2> QED
    BY <2>1, <2>2, Constants
    DEF SafeInv, TerminalsAreConnected, Closing, OpenIsServed, Handling, Walking, TypeInv,
        ObsTypeOK, SrvTypeOK
<1>10. CASE SrvUnregister
  <2>1. /\ srvPc = "unregister" /\ srvPc' = "late" /\ terminals' = terminals \ {cur}
        /\ madeFor' = [madeFor EXCEPT ![cur] = NoPeer] /\ obsPc # "send"
        /\ UNCHANGED <<conn, todo, obsPc, reads, fdMax, cur>>
    BY <1>10 DEF SrvUnregister, UnregisterTerminal, MutexFree, sockVars
  <2>2. \A other \in Fds \ {cur} : madeFor'[other] = madeFor[other]
    BY <2>1 DEF TypeInv, ObsTypeOK
  <2> QED
    BY <2>1, <2>2
    DEF SafeInv, TerminalsAreConnected, Closing, OpenIsServed, Handling, Walking, TypeInv,
        ObsTypeOK
<1>11. CASE SrvLateWrite
  <2>1. conn' = conn
    BY <1>11, WriteKeepsConn DEF SrvLateWrite
  <2> QED
    BY <1>11, <2>1
    DEF SrvLateWrite, obsVars, SafeInv, TerminalsAreConnected, Closing, OpenIsServed,
        Handling, Walking
<1> QED
  BY <1>1, <1>2, <1>3, <1>4, <1>5, <1>6, <1>7, <1>8, <1>9, <1>10, <1>11
  DEF ServerStep, ServerNext

LEMMA SafeStep == TypeInv /\ SafeInv /\ [Next]_vars => SafeInv'
<1>1. ASSUME SafeInv, UNCHANGED vars PROVE SafeInv'
  BY <1>1, SafeSame DEF vars, sockVars, obsVars, srvVars
<1> QED
  BY <1>1, SafeMain, SafeObserver, SafeServer, SafeClient DEF Next, Over

\* Through every interleaving of main(), the observer and the server, the registry
\* agrees with the descriptors, NotifyAll() walks over registered terminals only, and
\* Select() is, at each step of a take-down, where it believes to be.
THEOREM Safe == Spec => [](TypeInv /\ SafeInv)
  BY TypeInit, TypeStep, SafeInit, SafeStep, PusherUsesPool, PoolTypeCorrect, PTL DEF Spec

\* A registered terminal's descriptor is the connection it was made for, except
\* between close( i ) and UnregisterTerminal( i ).
THEOREM TerminalsStayConnected == Spec => []TerminalsAreConnected
  BY Safe, SafeInvImplies, PTL

\* No frame goes to a client that the terminal was not made for, although
\* descriptors are closed before they are unregistered and are then reused.
THEOREM WritesStayWithPeer == Spec => []WritesReachOwnPeer
  BY Safe, SafeInvImplies, PTL

\* RegisterTerminal never refuses a client that was accepted.
THEOREM RegistrationAlwaysSucceeds == Spec => []RegistrationSucceeds
  BY Safe, SafeInvImplies, PTL

\* No open connection is ever forgotten by select() or by the registry.
THEOREM OpenStaysServed == Spec => []OpenIsServed
  BY Safe, SafeInvImplies, PTL

=============================================================================
