---------------------------- MODULE TerminalServer ----------------------------
(***************************************************************************)
(* TerminalServerThread (core/terminal_server_thread.cc): the thread that  *)
(* accepts clients in a select() loop, registers a terminal for each, and  *)
(* unregisters it when the client closes.  One action per system call or   *)
(* locked call, so that the observer's thread can run between any two.     *)
(***************************************************************************)
EXTENDS TerminalObserver

CONSTANT InitialExiting   \* the values exiting_ can have before it is first set

\* The constructor does not initialise exiting_: reading it gives either value.
ASSUME ServerAssumption == InitialExiting \subseteq BOOLEAN /\ InitialExiting # {}

VARIABLES
  srvPc,     \* where the server's thread is in Select()
  exiting,   \* exiting_
  reads,     \* the fd_set reads; NoFd stands for the bit FD_SET(-1) may set
  fdMax,     \* fd_max
  ready,     \* what is left to scan of cpy_reads
  cur        \* clnt_sock or i, while a connection is being handled

srvVars == <<srvPc, exiting, reads, fdMax, ready, cur>>

SrvInit ==
  /\ srvPc = "unstarted"
  /\ exiting \in InitialExiting
  /\ reads = {}
  /\ fdMax = NoFd
  /\ ready = {}
  /\ cur = NoFd

\* The listening socket exists from the thread's start to the end of Select().
Listening == srvPc \notin {"unstarted", "done"}

\* socket(), bind(), listen(), FD_ZERO, FD_SET and the first value of fd_max.
StartServer ==
  /\ srvPc = "unstarted"
  /\ srvPc' = "check"
  /\ reads' = {ServFd}
  /\ fdMax' = ServFd
  /\ UNCHANGED <<exiting, ready, cur>>

-----------------------------------------------------------------------------

\* while ( !exiting_ )
SrvCheck ==
  /\ srvPc = "check"
  /\ srvPc' = IF exiting THEN "closing" ELSE "select"
  /\ UNCHANGED <<exiting, reads, fdMax, ready, cur, poolVars, sockVars, obsVars>>

\* select() waits for a descriptor of reads up to fd_max to be readable.  A
\* descriptor that is not open makes it fail, and a timeout starts over.
SrvSelect ==
  LET readable == {fd \in reads \ {NoFd} : fd <= fdMax /\ Readable(fd)}
  IN /\ srvPc = "select"
     /\ ready' = IF NoFd \in reads THEN {} ELSE readable
     /\ srvPc' = IF NoFd \in reads THEN "closing"
                 ELSE IF readable = {} THEN "check" ELSE "scan"
     /\ UNCHANGED <<exiting, reads, fdMax, cur, poolVars, sockVars, obsVars>>

\* The for loop meets the descriptors of cpy_reads in ascending order.
NextReady(fd) ==
  /\ srvPc = "scan"
  /\ fd \in ready
  /\ \A other \in ready : fd <= other
  /\ ready' = ready \ {fd}

\* Mutant: fd_max is not raised for a new connection.
SrvAcceptKeepsMax ==
  /\ NextReady(ServFd)
  /\ \E fd \in ClientFds :
       /\ Accepted(fd)
       /\ cur' = fd
       /\ reads' = reads \cup {fd}
  /\ srvPc' = "register"
  /\ UNCHANGED <<exiting, fdMax, poolVars, obsVars>>

SrvAccept ==
  /\ NextReady(ServFd)
  /\ \E fd \in ClientFds :
       /\ Accepted(fd)
       /\ cur' = fd
       /\ reads' = reads \cup {fd}
       /\ fdMax' = IF fdMax < fd THEN fd ELSE fdMax
  /\ srvPc' = "register"
  /\ UNCHANGED <<exiting, poolVars, obsVars>>

\* The -1 of a failed accept() is not tested.  FD_SET(-1) is undefined: on this
\* platform it sets the bit of some descriptor, watched already or not open.
SrvAcceptFails ==
  /\ NextReady(ServFd)
  /\ AcceptFails
  /\ cur' = NoFd
  /\ reads' \in {reads, reads \cup {NoFd}}
  /\ srvPc' = "register"
  /\ UNCHANGED <<exiting, fdMax, poolVars, obsVars>>

SrvRegister ==
  /\ srvPc = "register"
  /\ RegisterTerminal(cur)
  /\ srvPc' = "scan"
  /\ UNCHANGED <<exiting, reads, fdMax, ready, cur, poolVars, sockVars>>

\* read() returned data, or failed: nothing else happens to the connection.
SrvRead(fd) ==
  /\ NextReady(fd)
  /\ fd # ServFd
  /\ ReadsData(fd) \/ ReadsError(fd)
  /\ UNCHANGED <<srvPc, exiting, reads, fdMax, cur, poolVars, obsVars>>

\* read() returned 0: the connection is taken down in the next five steps.
SrvReadEnd(fd) ==
  /\ NextReady(fd)
  /\ fd # ServFd
  /\ ReadsEnd(fd)
  /\ cur' = fd
  /\ srvPc' = "farewell"
  /\ UNCHANGED <<exiting, reads, fdMax, poolVars, obsVars>>

\* write( i, buf_, NET_BUF_SIZE ) to the client that closed, then FD_CLR.
SrvFarewell ==
  /\ srvPc = "farewell"
  /\ Write(cur, <<>>)
  /\ reads' = reads \ {cur}
  /\ srvPc' = "close"
  /\ UNCHANGED <<exiting, fdMax, ready, cur, poolVars, obsVars>>

SrvClose ==
  /\ srvPc = "close"
  /\ Close(cur)
  /\ srvPc' = "unregister"
  /\ UNCHANGED <<exiting, reads, fdMax, ready, cur, poolVars, obsVars>>

SrvUnregister ==
  /\ srvPc = "unregister"
  /\ UnregisterTerminal(cur)
  /\ srvPc' = "late"
  /\ UNCHANGED <<exiting, reads, fdMax, ready, cur, poolVars, sockVars>>

\* The second write( i, buf_, NET_BUF_SIZE ), on the descriptor just closed.
SrvLateWrite ==
  /\ srvPc = "late"
  /\ Write(cur, <<>>)
  /\ srvPc' = "scan"
  /\ UNCHANGED <<exiting, reads, fdMax, ready, cur, poolVars, obsVars>>

\* The for loop is over.
SrvScanned ==
  /\ srvPc = "scan"
  /\ ready = {}
  /\ srvPc' = "check"
  /\ UNCHANGED <<exiting, reads, fdMax, ready, cur, poolVars, sockVars, obsVars>>

\* close( serv_sock ) after the loop; the clients' descriptors stay open.
SrvClosing ==
  /\ srvPc = "closing"
  /\ CloseListener
  /\ srvPc' = "done"
  /\ UNCHANGED <<exiting, reads, fdMax, ready, cur, poolVars, obsVars>>

ServerNext ==
  \/ SrvCheck \/ SrvSelect \/ SrvScanned \/ SrvClosing
  \/ SrvAccept \/ SrvAcceptFails \/ SrvRegister
  \/ \E fd \in ClientFds : SrvRead(fd) \/ SrvReadEnd(fd)
  \/ SrvFarewell \/ SrvClose \/ SrvUnregister \/ SrvLateWrite

\* The destructor's exiting_ = true; it then joins the thread.
StopServer ==
  /\ exiting' = TRUE
  /\ UNCHANGED <<srvPc, reads, fdMax, ready, cur>>

=============================================================================
