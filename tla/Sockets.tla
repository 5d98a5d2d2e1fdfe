------------------------------- MODULE Sockets -------------------------------
(***************************************************************************)
(* The TCP sockets between the server process and its clients, as the      *)
(* program uses them: the calls socket/accept/read/write/close/select of   *)
(* core/terminal_server_thread.cc and core/terminal.cc, and clients that   *)
(* behave like test/echo_client.c (read a frame, answer with a byte count, *)
(* until they close).  The kernel is external code: only what the program  *)
(* can tell apart is kept.                                                 *)
(*                                                                         *)
(* A peer is one connection: a client that comes back is another peer.     *)
(***************************************************************************)
EXTENDS Integers, Sequences

CONSTANTS
  Peers,           \* the connections that clients will ask for
  ClientFds,       \* the descriptors accept() can hand out
  ServFd,          \* serv_sock, the listening descriptor
  SendWindow,      \* frames that fit between a write() and the client's read()
  SigPipeIgnored   \* the inherited disposition of SIGPIPE; the program sets none

NoPeer == "no peer"
NoFd == -1         \* what a failed accept() returns

ASSUME SocketAssumption ==
  /\ ClientFds \subseteq Nat
  /\ ServFd \in Nat \ ClientFds
  /\ SendWindow \in Nat \ {0}
  /\ SigPipeIgnored \in BOOLEAN
  /\ NoPeer \notin Peers

VARIABLES
  tcp,       \* the state of each connection, as the server's end sees it
  backlog,   \* connections waiting for accept(), oldest first
  conn,      \* the connection behind each descriptor, NoPeer when it is closed
  inflight,  \* frames written that the peer has not read yet
  unread,    \* peers whose answers the server has not read yet
  stream,    \* history: the frames passed to write() on each connection
  killed     \* the process has been terminated by SIGPIPE

sockVars == <<tcp, backlog, conn, inflight, unread, stream, killed>>

Fds == ClientFds \cup {NoFd}

(***************************************************************************)
(* open    both ends open                                                  *)
(* fin     the peer has closed, nothing written since                      *)
(* finw    written to after the peer closed: its RST is on the way         *)
(* reset   the peer closed with data unread: an ECONNRESET is pending      *)
(* broken  no error pending: read() gives 0, write() gives EPIPE           *)
(* done    closed by the server (or refused when the listener closed)      *)
(***************************************************************************)
TcpStates == {"none", "open", "fin", "finw", "reset", "broken", "done"}

SockInit ==
  /\ tcp = [p \in Peers |-> "none"]
  /\ backlog = <<>>
  /\ conn = [fd \in Fds |-> NoPeer]
  /\ inflight = [p \in Peers |-> 0]
  /\ unread = {}
  /\ stream = [p \in Peers |-> <<>>]
  /\ killed = FALSE

-----------------------------------------------------------------------------
(* System calls of the program. *)

Free(fd) == fd \in ClientFds /\ conn[fd] = NoPeer

\* accept(): the oldest waiting connection gets the lowest free descriptor.
Accepted(fd) ==
  /\ backlog # <<>>
  /\ Free(fd)
  /\ \A other \in ClientFds : Free(other) => fd <= other
  /\ conn' = [conn EXCEPT ![fd] = Head(backlog)]
  /\ backlog' = Tail(backlog)
  /\ UNCHANGED <<tcp, inflight, unread, stream, killed>>

\* accept() returns -1 when the process has no descriptor left.
AcceptFails ==
  /\ \A fd \in ClientFds : ~Free(fd)
  /\ UNCHANGED sockVars

\* What select() reports as readable.
Readable(fd) ==
  IF fd = ServFd THEN backlog # <<>>
  ELSE LET p == conn[fd]
       IN p # NoPeer /\ (p \in unread \/ tcp[p] \in {"fin", "finw", "reset", "broken"})

\* read() on a readable connection: data first, then the pending error, then 0.
ReadsData(fd) ==
  /\ conn[fd] \in unread
  /\ unread' = unread \ {conn[fd]}
  /\ UNCHANGED <<tcp, backlog, conn, inflight, stream, killed>>

ReadsError(fd) ==
  /\ conn[fd] \notin unread
  /\ conn[fd] # NoPeer
  /\ tcp[conn[fd]] = "reset"
  /\ tcp' = [tcp EXCEPT ![conn[fd]] = "broken"]
  /\ UNCHANGED <<backlog, conn, inflight, unread, stream, killed>>

ReadsEnd(fd) ==
  /\ conn[fd] \notin unread
  /\ conn[fd] # NoPeer
  /\ tcp[conn[fd]] \in {"fin", "finw", "broken"}
  /\ UNCHANGED sockVars

\* A blocking write() of one frame (or of the server's own buffer) to fd.  It
\* waits while the window of an open connection is full; on a closed
\* descriptor it fails with EBADF and changes nothing; on a broken connection
\* it raises SIGPIPE.
Write(fd, frame) ==
  LET p == conn[fd]
  IN IF p = NoPeer THEN UNCHANGED sockVars
     ELSE /\ ~(tcp[p] = "open" /\ inflight[p] = SendWindow)
          /\ tcp' = [tcp EXCEPT ![p] = CASE @ = "fin" -> "finw"
                                         [] @ = "reset" -> "broken"
                                         [] OTHER -> @]
          /\ inflight' = [inflight EXCEPT ![p] = IF tcp[p] = "open" THEN @ + 1 ELSE @]
          /\ stream' = [stream EXCEPT ![p] = @ \o frame]
          /\ killed' = (tcp[p] = "broken" /\ ~SigPipeIgnored)
          /\ UNCHANGED <<backlog, conn, unread>>

Close(fd) ==
  /\ tcp' = [p \in Peers |-> IF p = conn[fd] THEN "done" ELSE tcp[p]]
  /\ unread' = unread \ {conn[fd]}
  /\ conn' = [conn EXCEPT ![fd] = NoPeer]
  /\ UNCHANGED <<backlog, inflight, stream, killed>>

\* close(serv_sock): the kernel refuses what still waits in the backlog.
CloseListener ==
  /\ tcp' = [p \in Peers |-> IF \E i \in 1..Len(backlog) : backlog[i] = p
                               THEN "done" ELSE tcp[p]]
  /\ backlog' = <<>>
  /\ UNCHANGED <<conn, inflight, unread, stream, killed>>

-----------------------------------------------------------------------------
(* Steps of the clients and of the network. *)

\* connect(): the request waits in the backlog until it is accepted.
Connect(p) ==
  /\ tcp[p] = "none"
  /\ tcp' = [tcp EXCEPT ![p] = "open"]
  /\ backlog' = Append(backlog, p)
  /\ UNCHANGED <<conn, inflight, unread, stream, killed>>

\* echo_client reads one frame and writes back the bytes received so far.
PeerReads(p) ==
  /\ tcp[p] = "open"
  /\ inflight[p] > 0
  /\ inflight' = [inflight EXCEPT ![p] = @ - 1]
  /\ unread' = unread \cup {p}
  /\ UNCHANGED <<tcp, backlog, conn, stream, killed>>

\* close() by the client, accepted or still waiting in the backlog: a FIN, or a
\* RST when it leaves frames unread.
PeerCloses(p) ==
  /\ tcp[p] = "open"
  /\ tcp' = [tcp EXCEPT ![p] = IF inflight[p] = 0 THEN "fin" ELSE "reset"]
  /\ inflight' = [inflight EXCEPT ![p] = 0]
  /\ UNCHANGED <<backlog, conn, unread, stream, killed>>

\* The answer of the peer's kernel to a write after its FIN.
RstArrives(p) ==
  /\ tcp[p] = "finw"
  /\ tcp' = [tcp EXCEPT ![p] = "broken"]
  /\ UNCHANGED <<backlog, conn, inflight, unread, stream, killed>>

=============================================================================
