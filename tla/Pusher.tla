------------------------------- MODULE Pusher -------------------------------
(***************************************************************************)
(* The program: mp3DecodeEncode() of demo/mp3_decode_encode_test.cc on the *)
(* main thread, the server's thread, the observer's thread, and the        *)
(* clients.  The main thread starts the other two, puts frames into the    *)
(* pool until the file ends, and destroys the objects in reverse order.    *)
(***************************************************************************)
EXTENDS TerminalServer

CONSTANT
  MaxIterations,   \* turns of the frame loop: 1001 in the code (forBreakCount)
  Stalled          \* peers that may stop reading without closing

ASSUME PusherAssumption ==
  /\ AudioType = {Mp3, Aac}
  /\ MaxIterations \in Nat
  /\ Stalled \subseteq Peers

VARIABLE mainPc

vars == <<poolVars, sockVars, obsVars, srvVars, mainPc>>

Init ==
  /\ PoolInit
  /\ SockInit
  /\ ObsInit
  /\ SrvInit
  /\ mainPc = "poolMp3"

-----------------------------------------------------------------------------
(* The main thread. *)

Goto(from, to) == mainPc = from /\ mainPc' = to

\* RegisterFramesPool for MP3, then for AAC.
MainRegisterPools ==
  /\ \/ Goto("poolMp3", "poolAac") /\ RegisterFramesPool(Mp3)
     \/ Goto("poolAac", "startServer") /\ RegisterFramesPool(Aac)
  /\ UNCHANGED <<sockVars, obsVars, srvVars>>

\* terminalServer->startLoop() comes before terminalObserver->startLoop().
MainStartServer ==
  /\ Goto("startServer", "startObserver")
  /\ StartServer
  /\ UNCHANGED <<poolVars, sockVars, obsVars>>

MainStartObserver ==
  /\ Goto("startObserver", "init")
  /\ StartObserver
  /\ UNCHANGED <<poolVars, sockVars, srvVars>>

\* The decoder, an encoder or the input file fails: an early return.
MainInitCodecs ==
  /\ Goto("init", "loop") \/ Goto("init", "stopServer")
  /\ UNCHANGED <<poolVars, sockVars, obsVars, srvVars>>

\* A frame is read and decoded: its MP3 form is put into the pool.
MainPutMp3 ==
  /\ Goto("loop", "aac1")
  /\ offered[Mp3] < MaxIterations
  /\ PutFrame(Mp3)
  /\ UNCHANGED <<sockVars, obsVars, srvVars>>

\* Mutant: putting a frame needs the registry's mutex_, which NotifyAll() holds.
MainPutAacWaits ==
  /\ MutexFree
  /\ \/ Goto("aac1", "aac2")
     \/ Goto("aac1", "loop")
     \/ Goto("aac2", "loop")
  /\ PutFrame(Aac) \/ UNCHANGED poolVars
  /\ UNCHANGED <<sockVars, obsVars, srvVars>>

\* Its PCM fills one AAC frame, or two when the remainder makes up a second
\* one (PcmReframer has the arithmetic); an Encode() that fails puts none.
MainPutAac ==
  /\ \/ Goto("aac1", "aac2")
     \/ Goto("aac1", "loop")
     \/ Goto("aac2", "loop")
  /\ PutFrame(Aac) \/ UNCHANGED poolVars
  /\ UNCHANGED <<sockVars, obsVars, srvVars>>

\* End of file, or the iteration bound: main leaves the loop and returns.
MainEndOfFile ==
  /\ Goto("loop", "stopServer")
  /\ UNCHANGED <<poolVars, sockVars, obsVars, srvVars>>

\* ~TerminalServerThread, then ~TerminalStreamObserver: set the flag, join.
MainStopServer ==
  /\ Goto("stopServer", "joinServer")
  /\ StopServer
  /\ UNCHANGED <<poolVars, sockVars, obsVars>>

MainJoinServer ==
  /\ Goto("joinServer", "stopObserver")
  /\ srvPc = "done"
  /\ UNCHANGED <<poolVars, sockVars, obsVars, srvVars>>

\* Mutant: the observer's destructor sets the flag of nobody.
MainForgetsObserver ==
  /\ Goto("stopObserver", "joinObserver")
  /\ UNCHANGED <<poolVars, sockVars, srvVars, obsVars>>

MainStopObserver ==
  /\ Goto("stopObserver", "joinObserver")
  /\ StopObserver
  /\ UNCHANGED <<poolVars, sockVars, srvVars>>

MainJoinObserver ==
  /\ Goto("joinObserver", "done")
  /\ obsPc = "done"
  /\ UNCHANGED <<poolVars, sockVars, obsVars, srvVars>>

MainNext ==
  \/ MainRegisterPools \/ MainStartServer \/ MainStartObserver \/ MainInitCodecs
  \/ MainPutMp3 \/ MainPutAac \/ MainEndOfFile
  \/ MainStopServer \/ MainJoinServer \/ MainStopObserver \/ MainJoinObserver

-----------------------------------------------------------------------------

\* Steps of the three threads of the process.  SIGPIPE ends them all.
Running == ~killed /\ mainPc # "done"

MainStep == Running /\ MainNext
ObserverStep == Running /\ ObserverNext /\ UNCHANGED <<srvVars, mainPc>>
ServerStep == Running /\ ServerNext /\ UNCHANGED mainPc

\* Steps of the clients and of the network.
Outside == Running /\ UNCHANGED <<poolVars, obsVars, srvVars, mainPc>>

ConnectStep(p) == Outside /\ Listening /\ Connect(p)
PeerReadStep(p) == Outside /\ PeerReads(p)
PeerCloseStep(p) == Outside /\ PeerCloses(p)
RstStep(p) == Outside /\ RstArrives(p)

ClientStep(p) == ConnectStep(p) \/ PeerReadStep(p) \/ PeerCloseStep(p) \/ RstStep(p)

\* The process is over: nothing is left to happen.
Over == ~Running /\ UNCHANGED vars

Next ==
  \/ MainStep
  \/ ObserverStep
  \/ ServerStep
  \/ \E p \in Peers : ClientStep(p)
  \/ Over

Spec == Init /\ [][Next]_vars

\* The server and the observer run and locks are granted: usleep(22000) leaves
\* mutex_ free for long enough, so the server's thread, whose only step that
\* others can disable is to lock it, is not overtaken forever.  A client that
\* does not stall keeps reading, and a RST is delivered.  Nothing makes a client
\* connect or close, and nothing makes the frame loop go on or end.
ServiceFairness ==
  /\ WF_vars(MainStep /\ mainPc \notin {"loop", "aac1", "aac2"})
  /\ WF_vars(ObserverStep)
  /\ SF_vars(ServerStep)
  /\ \A p \in Peers \ Stalled : WF_vars(PeerReadStep(p) \/ RstStep(p))
  /\ \A p \in Stalled : WF_vars(RstStep(p))

ServiceSpec == Spec /\ ServiceFairness

\* The frame loop goes on too: the input file is finite and is read.
LiveSpec == ServiceSpec /\ WF_vars(MainStep)

-----------------------------------------------------------------------------
(* Safety. *)

\* The types of all the state.
TypeOK ==
  /\ PoolTypeOK
  /\ tcp \in [Peers -> TcpStates]
  /\ backlog \in Seq(Peers)
  /\ conn \in [Fds -> Peers \cup {NoPeer}]
  /\ inflight \in [Peers -> 0..SendWindow]
  /\ unread \in SUBSET Peers
  /\ stream \in [Peers -> Seq(AudioType \X Nat)]
  /\ killed \in BOOLEAN
  /\ terminals \in SUBSET Fds
  /\ madeFor \in [Fds -> Peers \cup {NoPeer}]
  /\ obsPc \in {"unstarted", "check", "take", "lock", "send", "done"}
  /\ obsType \in AudioType
  /\ frameBuf \in Nat
  /\ todo \in SUBSET Fds
  /\ obsExiting \in BOOLEAN
  /\ srvPc \in {"unstarted", "check", "select", "scan", "register", "farewell",
                "close", "unregister", "late", "closing", "done"}
  /\ exiting \in BOOLEAN
  /\ reads \in SUBSET (Fds \cup {ServFd})
  /\ fdMax \in Fds \cup {ServFd}
  /\ ready \in SUBSET (ClientFds \cup {ServFd})
  /\ cur \in Fds
  /\ mainPc \in {"poolMp3", "poolAac", "startServer", "startObserver", "init", "loop",
                 "aac1", "aac2", "stopServer", "joinServer", "stopObserver",
                 "joinObserver", "done"}

\* close( i ) comes before UnregisterTerminal( i ), so for a while a terminal is
\* registered under a closed descriptor; at any other time its descriptor is
\* still the connection it was made for.
Closing(fd) == srvPc = "unregister" /\ cur = fd

TerminalsAreConnected ==
  \A fd \in terminals \ {NoFd} :
    IF Closing(fd) THEN conn[fd] = NoPeer
    ELSE conn[fd] # NoPeer /\ conn[fd] = madeFor[fd]

\* Descriptors are reused, but a frame never goes to another client than the one
\* its terminal was made for, and the write after close( i ) meets no client.
WritesReachOwnPeer ==
  /\ \A fd \in todo : fd \in terminals /\ conn[fd] \in {madeFor[fd], NoPeer}
  /\ srvPc = "late" => conn[cur] = NoPeer

\* RegisterTerminal never finds the descriptor of a new connection taken, so no
\* accepted client is left without a terminal.
RegistrationSucceeds ==
  srvPc = "register" /\ cur # NoFd => cur \notin terminals

\* Every open connection is watched by select() and has a terminal, except while
\* the server is in the middle of setting it up or taking it down; and nothing
\* else is watched.
OpenIsServed ==
  /\ \A fd \in ClientFds : conn[fd] # NoPeer =>
       /\ fd \in terminals \/ (srvPc = "register" /\ cur = fd)
       /\ fd \in reads \/ (srvPc = "close" /\ cur = fd)
       /\ fd <= fdMax
  /\ \A fd \in reads \ {ServFd, NoFd} : conn[fd] # NoPeer

\* What is written to one connection is one kind of audio, in the order it was
\* put into the pool, without repetition, across any reuse of descriptors.
StreamsAreOrdered ==
  \A p \in Peers : \A i, j \in 1..Len(stream[p]) :
    i < j => /\ stream[p][i][1] = stream[p][j][1]
             /\ stream[p][i][2] < stream[p][j][2]

-----------------------------------------------------------------------------
(* Refinement. *)

\* A client is a member from RegisterTerminal until its connection is closed.  A
\* frame counts as handed to all of them when NotifyAll() takes mutex_: those the
\* loop has not reached yet are still owed it.
ServedBy(p) == {fd \in terminals : conn[fd] = p}
Owed(p) == IF ServedBy(p) \cap todo # {} THEN << <<obsType, frameBuf>> >> ELSE <<>>

\* What each variable of Broadcast is in the program: the frame on its way to the
\* members, the type a client is a member for, and what it has been handed.
Hand == IF obsPc = "lock" THEN <<obsType, frameBuf>> ELSE <<>>
Member(p) == IF ServedBy(p) = {} THEN "nobody"
             ELSE TerminalType(CHOOSE fd \in ServedBy(p) : TRUE)
Feed(p) == IF ServedBy(p) = {} THEN <<>> ELSE stream[p] \o Owed(p)

Promise == INSTANCE Broadcast WITH
  Clients <- Peers,
  count <- offered,
  fifo <- queue,
  hand <- Hand,
  member <- [p \in Peers |-> Member(p)],
  feed <- [p \in Peers |-> Feed(p)]

\* The threads, the mutex and the descriptors together implement Broadcast: every
\* member gets every frame that leaves the pool, and NotifyAll()'s loop, though it
\* writes to one terminal after the other while clients come and go, acts as one
\* step.
ImplementsBroadcast == Promise!BSpec

-----------------------------------------------------------------------------
(* Liveness. *)

\* Clients that stall never hold up the main thread: it always gets to the end
\* of the file, because PutFrame drops the oldest frame instead of waiting.
ProducerNeverBlocks == <>(killed \/ mainPc \in {"stopServer", "joinServer",
                            "stopObserver", "joinObserver", "done"})

\* A client that was accepted and has closed is taken down while the frame loop
\* goes on, also when the observer is writing to others at the time.
ClosedIsTakenDown ==
  \A p \in Peers :
    ((\E fd \in ClientFds : conn[fd] = p) /\ tcp[p] # "open")
      ~> (tcp[p] = "done" \/ exiting \/ killed)

\* The observer's thread waits in write() for a client that need not read.
WaitsForStalled ==
  /\ obsPc = "send"
  /\ \E fd \in todo :
       /\ \A other \in todo : fd <= other
       /\ conn[fd] \in Stalled
       /\ tcp[conn[fd]] = "open" /\ inflight[conn[fd]] = SendWindow

\* The destructors' joins return, in spite of the mutex_ that both threads lock,
\* unless a client that has stopped reading holds the observer up for ever.
ShutdownCompletes ==
  mainPc = "stopServer" ~> (killed \/ mainPc = "done" \/ []WaitsForStalled)

-----------------------------------------------------------------------------
(* What the comments of the code say, and the code does not do. *)

\* terminal.cc:45 takes a failed write() for "the socket has been closed", prints
\* a line and goes on; but the write to a client that is gone raises SIGPIPE.
ClosedPeerIsOnlyReported == ~killed

\* The demo creates the server (95), starts it (98) and ends it by destroying it
\* (TerminalServerThread's destructor, 11): until then it serves.
ServesUntilDestroyed ==
  srvPc \in {"closing", "done"} => mainPc \in {"joinServer", "stopObserver",
                                               "joinObserver", "done"}

\* terminal_stream_observer.cc:60 says that each terminal keeps its own data and
\* sends it with a thread pool, so a client that does not read delays only itself.
SlowTerminalDelaysOnlyItself ==
  \A fd \in ClientFds : (fd \in todo /\ conn[fd] \notin Stalled) ~> (fd \notin todo \/ killed)

=============================================================================
