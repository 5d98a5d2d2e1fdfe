------------------------------ MODULE FramePool ------------------------------
(***************************************************************************)
(* AudioFramePool (core/audio_frame_pool.c) over the non-blocking          *)
(* BoundedQueue it creates per audio type (base/bounded_queue.h).          *)
(*                                                                         *)
(* Every method of the pool takes the pool's own mutex_ for its whole body *)
(* and never waits while it holds it (the queues are built with            *)
(* block = false), so each method is one atomic action.  A frame is a      *)
(* Buffer::BufferPtr in the code; here it is the number of the PutFrame    *)
(* call that offered it, counted per audio type, which is all that order,  *)
(* loss and duplication need.                                              *)
(***************************************************************************)
EXTENDS Integers, Sequences

CONSTANTS
  AudioType,   \* the EAudioType values: eAudioMp3, eAudioAac
  MaxFrames,   \* maxFrames of RegisterFramesPool, per audio type
  Round        \* round_: not 0 when a full queue overwrites its oldest frame

\* A queue of capacity 0 makes put(round, x) read front() of an empty vector;
\* the program registers its two queues with 10 frames each.
ASSUME PoolAssumption ==
  /\ MaxFrames \in [AudioType -> Nat \ {0}]
  /\ Round \in Int

VARIABLES
  registered,  \* the keys of framePoolMap_
  queue,       \* framePoolMap_[t]->queue_, <<>> while t is not registered
  offered,     \* history: how many frames PutFrame was called with, per type
  past         \* history: the newest frame taken, or offered before the
               \* queue was registered, per type

poolVars == <<registered, queue, offered, past>>

NoFrame == 0   \* an empty Buffer::BufferPtr

-----------------------------------------------------------------------------

\* Mutant: the room left is tested one frame early.
BoundedQueuePutEarly(q, capacity, x) ==
  IF Len(q) + 1 < capacity \/ q = <<>> THEN Append(q, x) ELSE Append(Tail(q), x)

\* The queue after BoundedQueue::put(round, x) in non-blocking mode: with
\* round = 0 a full queue refuses x (eFull), otherwise it drops its front.
BoundedQueuePut(q, capacity, x) ==
  IF Len(q) # capacity THEN Append(q, x)
  ELSE IF Round = 0 THEN q ELSE Append(Tail(q), x)

RegisterFramesPool(t) ==
  /\ IF t \in registered
       THEN UNCHANGED <<registered, queue, past>>               \* returns 1
       ELSE /\ registered' = registered \cup {t}                \* returns 0
            /\ queue' = [queue EXCEPT ![t] = <<>>]
            /\ past' = [past EXCEPT ![t] = offered[t]]
  /\ UNCHANGED offered

UnregisterFramesPool(t) ==
  /\ registered' = registered \ {t}
  /\ queue' = [queue EXCEPT ![t] = <<>>]
  /\ UNCHANGED <<offered, past>>

\* Mutant: the frame was moved out of its pointer before it is put.
PutFrameMovedOut(t) ==
  /\ offered' = [offered EXCEPT ![t] = @ + 1]
  /\ IF t \in registered
       THEN queue' = [queue EXCEPT ![t] = BoundedQueuePut(@, MaxFrames[t], NoFrame)]
       ELSE UNCHANGED queue
  /\ UNCHANGED <<registered, past>>

PutFrame(t) ==
  /\ offered' = [offered EXCEPT ![t] = @ + 1]
  /\ IF t \in registered
       THEN queue' = [queue EXCEPT ![t] =
                        BoundedQueuePut(@, MaxFrames[t], offered'[t])]
       ELSE UNCHANGED queue                                     \* returns -1
  /\ UNCHANGED <<registered, past>>

\* TakeFrame returns 0 exactly when there is a frame to take, and then *buf*
\* is overwritten with it; otherwise the caller's buf keeps what it held.
CanTake(t) == t \in registered /\ queue[t] # <<>>

TakenFrame(t, buf) == IF CanTake(t) THEN Head(queue[t]) ELSE buf

\* Mutant: take() hands out the front and erases the back.
TakeFrameErasesBack(t) ==
  /\ IF CanTake(t)
       THEN /\ queue' = [queue EXCEPT ![t] = SubSeq(@, 1, Len(@) - 1)]
            /\ past' = [past EXCEPT ![t] = Head(queue[t])]
       ELSE UNCHANGED <<queue, past>>
  /\ UNCHANGED <<registered, offered>>

TakeFrame(t) ==
  /\ IF CanTake(t)
       THEN /\ queue' = [queue EXCEPT ![t] = Tail(@)]
            /\ past' = [past EXCEPT ![t] = Head(queue[t])]
       ELSE UNCHANGED <<queue, past>>
  /\ UNCHANGED <<registered, offered>>

PoolInit ==
  /\ registered = {}
  /\ queue = [t \in AudioType |-> <<>>]
  /\ offered = [t \in AudioType |-> 0]
  /\ past = [t \in AudioType |-> 0]

PoolNext ==
  \E t \in AudioType :
    \/ RegisterFramesPool(t)
    \/ UnregisterFramesPool(t)
    \/ PutFrame(t)
    \/ TakeFrame(t)

PoolSpec == PoolInit /\ [][PoolNext]_poolVars

-----------------------------------------------------------------------------

\* The types of the pool's state.
PoolTypeOK ==
  /\ registered \in SUBSET AudioType
  /\ queue \in [AudioType -> Seq(Nat \ {0})]
  /\ offered \in [AudioType -> Nat]
  /\ past \in [AudioType -> Nat]

\* A queue never holds more frames than maxFrames, whatever the order of the
\* calls (BoundedQueue's capacity_).
WithinCapacity == \A t \in AudioType : Len(queue[t]) <= MaxFrames[t]

Smaller(m, n) == IF m <= n THEN m ELSE n

\* What a round_ pool promises its consumer, however far it lags behind: the
\* queue holds exactly the newest min(maxFrames, frames not yet taken) frames
\* offered, in the order they were offered.  So nothing is lost to a consumer
\* that lags by at most maxFrames, and only the oldest frames are lost to a
\* slower one.
HoldsNewest ==
  Round # 0 =>
    \A t \in registered :
      /\ Len(queue[t]) = Smaller(MaxFrames[t], offered[t] - past[t])
      /\ \A i \in 1..Len(queue[t]) : queue[t][i] = offered[t] - Len(queue[t]) + i

\* In either mode: frames are taken in the order they were offered, none twice,
\* and never one that was offered before the queue existed.
TakenInOrder ==
  [][\A t \in AudioType :
       /\ past'[t] >= past[t]
       /\ TakeFrame(t) /\ CanTake(t) => past'[t] > past[t]]_poolVars

\* The frames of a queue are strictly increasing and newer than any taken one.
InOrder ==
  \A t \in AudioType :
    /\ \A i \in 1..Len(queue[t]) : past[t] < queue[t][i] /\ queue[t][i] <= offered[t]
    /\ \A i, j \in 1..Len(queue[t]) : i < j => queue[t][i] < queue[t][j]

=============================================================================
