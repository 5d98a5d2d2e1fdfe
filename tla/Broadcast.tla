------------------------------ MODULE Broadcast ------------------------------
(***************************************************************************)
(* What the frame pool, the observer and the server promise together,      *)
(* without threads, descriptors or locks: per audio type a lossy channel   *)
(* that keeps the newest frames, and a set of members who are all handed   *)
(* every frame that leaves the channel while they are members, in order,   *)
(* as if a frame reached all of them at once.                              *)
(***************************************************************************)
EXTENDS Integers, Sequences

CONSTANTS
  Clients,     \* who can be a member
  AudioType,
  MaxFrames    \* what a channel keeps, per audio type

VARIABLES
  count,    \* frames published, per audio type
  fifo,     \* the channels
  hand,     \* the frame <<type, number>> that is about to be handed out
  member,   \* the audio type each client is a member for, or Nobody
  feed      \* the frames handed to each member since it became one

bvars == <<count, fifo, hand, member, feed>>

Nobody == "nobody"
Nothing == <<>>

BInit ==
  /\ count = [t \in AudioType |-> 0]
  /\ fifo = [t \in AudioType |-> <<>>]
  /\ hand = Nothing
  /\ member = [c \in Clients |-> Nobody]
  /\ feed = [c \in Clients |-> <<>>]

\* The last k elements of q.
Newest(q, k) == IF Len(q) <= k THEN q ELSE SubSeq(q, Len(q) - k + 1, Len(q))

Publish(t) ==
  /\ count' = [count EXCEPT ![t] = @ + 1]
  /\ fifo' = [fifo EXCEPT ![t] = Newest(Append(@, count[t] + 1), MaxFrames[t])]
  /\ UNCHANGED <<hand, member, feed>>

Take(t) ==
  /\ hand = Nothing
  /\ fifo[t] # <<>>
  /\ hand' = <<t, Head(fifo[t])>>
  /\ fifo' = [fifo EXCEPT ![t] = Tail(@)]
  /\ UNCHANGED <<count, member, feed>>

\* One step, however many members there are.
Deliver ==
  /\ hand # Nothing
  /\ feed' = [c \in Clients |-> IF member[c] = hand[1] THEN Append(feed[c], hand) ELSE feed[c]]
  /\ hand' = Nothing
  /\ UNCHANGED <<count, fifo, member>>

Join(c, t) ==
  /\ member[c] = Nobody
  /\ member' = [member EXCEPT ![c] = t]
  /\ UNCHANGED <<count, fifo, hand, feed>>

Leave(c) ==
  /\ member[c] # Nobody
  /\ member' = [member EXCEPT ![c] = Nobody]
  /\ feed' = [feed EXCEPT ![c] = <<>>]
  /\ UNCHANGED <<count, fifo, hand>>

BNext ==
  \/ \E t \in AudioType : Publish(t) \/ Take(t)
  \/ Deliver
  \/ \E c \in Clients : Leave(c) \/ \E t \in AudioType : Join(c, t)

BSpec == BInit /\ [][BNext]_bvars

=============================================================================
