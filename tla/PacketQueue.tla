----------------------------- MODULE PacketQueue -----------------------------
(***************************************************************************)
(* The players' queue of audio packets (example/3-1-palyer/packet_queue.c  *)
(* and its copy in 3-3-decode_video): a linked list between the thread     *)
(* that reads the file and the audio thread of SDL.                        *)
(*                                                                         *)
(* Both functions keep the SDL mutex for their whole body except inside    *)
(* SDL_CondWait(), so a call is one step, or one up to the wait and one    *)
(* after it.  A list node is the number of its packet in the file.         *)
(***************************************************************************)
EXTENDS Integers, Sequences, FiniteSets

VARIABLES
  first_pkt, last_pkt,   \* 0 is NULL
  next,                  \* pkt_list->next of the nodes in the list
  nb_packets, bytes,     \* nb_packets and size of the queue
  asleep,                \* the audio thread is in SDL_CondWait()
  entered                \* history: the packets put, in order

queueVars == <<first_pkt, last_pkt, next, nb_packets, bytes, asleep, entered>>

NULL == 0

\* audioQueue is a global, so what packet_queue_init() leaves alone is zero.
packet_queue_init ==
  /\ first_pkt = NULL /\ last_pkt = NULL
  /\ next = <<>>
  /\ nb_packets = 0 /\ bytes = 0
  /\ asleep = FALSE
  /\ entered = <<>>

\* Mutant: the condition is not signalled.
packet_queue_put_silently(p, size) ==
  /\ first_pkt' = IF last_pkt = NULL THEN p ELSE first_pkt
  /\ next' = [n \in DOMAIN next \cup {p} |->
                IF n = p THEN NULL ELSE IF n = last_pkt THEN p ELSE next[n]]
  /\ last_pkt' = p
  /\ nb_packets' = nb_packets + 1
  /\ bytes' = bytes + size
  /\ UNCHANGED asleep
  /\ entered' = Append(entered, p)

\* The packet goes to the end of the list and the waiting thread is woken.
packet_queue_put(p, size) ==
  /\ first_pkt' = IF last_pkt = NULL THEN p ELSE first_pkt
  /\ next' = [n \in DOMAIN next \cup {p} |->
                IF n = p THEN NULL ELSE IF n = last_pkt THEN p ELSE next[n]]
  /\ last_pkt' = p
  /\ nb_packets' = nb_packets + 1
  /\ bytes' = bytes + size
  /\ asleep' = FALSE
  /\ entered' = Append(entered, p)

\* av_dup_packet() or av_malloc() fails: the packet is lost.
packet_queue_put_fails == UNCHANGED queueVars

\* Mutant: last_pkt keeps pointing to a node that is freed.
packet_queue_get_dangling(size) ==
  /\ first_pkt # NULL /\ ~asleep
  /\ first_pkt' = next[first_pkt]
  /\ next' = [n \in DOMAIN next \ {first_pkt} |-> next[n]]
  /\ nb_packets' = nb_packets - 1
  /\ bytes' = bytes - size
  /\ UNCHANGED <<last_pkt, asleep, entered>>

\* The head of the list is unlinked, freed and handed out.
packet_queue_get(size) ==
  /\ first_pkt # NULL /\ ~asleep
  /\ first_pkt' = next[first_pkt]
  /\ last_pkt' = IF next[first_pkt] = NULL THEN NULL ELSE last_pkt
  /\ next' = [n \in DOMAIN next \ {first_pkt} |-> next[n]]
  /\ nb_packets' = nb_packets - 1
  /\ bytes' = bytes - size
  /\ UNCHANGED <<asleep, entered>>

\* block is not 0: the caller waits for a packet.
packet_queue_wait ==
  /\ first_pkt = NULL /\ ~asleep
  /\ asleep' = TRUE
  /\ UNCHANGED <<first_pkt, last_pkt, next, nb_packets, bytes, entered>>

-----------------------------------------------------------------------------

\* The packets not yet taken: puts come in the order of the file.
InQueue == SubSeq(entered, Len(entered) - Cardinality(DOMAIN next) + 1, Len(entered))

\* However put() and get() alternate, and through every time the list runs
\* empty, first_pkt, the next pointers and last_pkt spell out exactly the packets
\* put and not yet taken, in order, and nb_packets counts them.
QueueIsList ==
  LET q == InQueue
  IN /\ {q[i] : i \in DOMAIN q} = DOMAIN next
     /\ nb_packets = Len(q)
     /\ first_pkt = IF q = <<>> THEN NULL ELSE q[1]
     /\ last_pkt = IF q = <<>> THEN NULL ELSE q[Len(q)]
     /\ \A i \in DOMAIN q : next[q[i]] = IF i = Len(q) THEN NULL ELSE q[i + 1]

=============================================================================
