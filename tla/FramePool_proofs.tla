--------------------------- MODULE FramePool_proofs ---------------------------
(***************************************************************************)
(* What AudioFramePool promises, for any set of audio types, any queue     *)
(* lengths and either value of round_.                                     *)
(***************************************************************************)
EXTENDS FramePool, SequenceTheorems, TLAPS

\* Ordered between lo and n: what InOrder says of one queue.
Ordered(q, k, lo, n) ==
  /\ \A i \in 1..k : lo < q[i] /\ q[i] <= n
  /\ \A i, j \in 1..k : i < j => q[i] < q[j]

\* The newest frames up to n: what HoldsNewest says of one queue.
Newest(q, k, lo, n, capacity) ==
  /\ k = Smaller(capacity, n - lo)
  /\ \A i \in 1..k : q[i] = n - k + i

\* The inductive invariant, type by type: the bound, the order and, for a
\* registered circular queue, the exact content of HoldsNewest.
QueueInv(t) ==
  /\ Len(queue[t]) <= MaxFrames[t]
  /\ past[t] <= offered[t]
  /\ Ordered(queue[t], Len(queue[t]), past[t], offered[t])
  /\ Round # 0 /\ t \in registered =>
       Newest(queue[t], Len(queue[t]), past[t], offered[t], MaxFrames[t])

PoolInv == PoolTypeOK /\ \A t \in AudioType : QueueInv(t)

LEMMA PoolInvImplies == PoolInv => WithinCapacity /\ HoldsNewest /\ InOrder
  BY DEF PoolInv, PoolTypeOK, QueueInv, WithinCapacity, HoldsNewest, InOrder, Ordered, Newest

\* A step that touches the queue of one type only has to preserve QueueInv there.
LEMMA OneQueue ==
  ASSUME PoolInv, NEW t \in AudioType, PoolTypeOK', QueueInv(t)',
         registered' \ {t} = registered \ {t},
         \A u \in AudioType \ {t} :
           queue'[u] = queue[u] /\ past'[u] = past[u] /\ offered'[u] = offered[u]
  PROVE  PoolInv'
<1> SUFFICES ASSUME NEW u \in AudioType \ {t} PROVE QueueInv(u)'
  BY DEF PoolInv
<1>1. QueueInv(u) /\ (u \in registered' <=> u \in registered)
  BY DEF PoolInv
<1> QED
  BY <1>1 DEF QueueInv, Ordered, Newest

\* How put() changes a queue q of k frames into a queue p of m frames, by index.
PutShape(q, k, p, m, capacity, x) ==
  /\ m \in Nat
  /\ m <= capacity
  /\ k # capacity =>
       /\ m = k + 1
       /\ p[k + 1] = x
       /\ \A i \in 1..k : p[i] = q[i]
  /\ k = capacity /\ Round = 0 => m = k /\ p = q
  /\ k = capacity /\ Round # 0 =>
       /\ m = capacity
       /\ p[capacity] = x
       /\ \A i \in 1..(capacity - 1) : p[i] = q[i + 1]

LEMMA PutResult ==
  ASSUME NEW q \in Seq(Nat \ {0}), NEW c \in Nat \ {0}, NEW x \in Nat \ {0},
         Len(q) <= c, Round \in Int
  PROVE  LET p == BoundedQueuePut(q, c, x) IN
           /\ p \in Seq(Nat \ {0})
           /\ PutShape(q, Len(q), p, Len(p), c, x)
<1>1. CASE Len(q) # c
  <2>1. BoundedQueuePut(q, c, x) = Append(q, x)
    BY <1>1 DEF BoundedQueuePut
  <2>2. /\ Append(q, x) \in Seq(Nat \ {0})
        /\ Len(Append(q, x)) = Len(q) + 1
        /\ Append(q, x)[Len(q) + 1] = x
        /\ \A i \in 1..Len(q) : Append(q, x)[i] = q[i]
    BY AppendProperties
  <2> QED
    BY <1>1, <2>1, <2>2 DEF PutShape
<1>2. CASE Len(q) = c /\ Round = 0
  BY <1>2 DEF BoundedQueuePut, PutShape
<1>3. CASE Len(q) = c /\ Round # 0
  <2>1. q # <<>>
    BY <1>3
  <2>2. /\ Tail(q) \in Seq(Nat \ {0})
        /\ Len(Tail(q)) = c - 1
        /\ \A i \in 1..(c - 1) : Tail(q)[i] = q[i + 1]
    BY <1>3, <2>1, HeadTailProperties
  <2>3. BoundedQueuePut(q, c, x) = Append(Tail(q), x)
    BY <1>3 DEF BoundedQueuePut
  <2>4. /\ Append(Tail(q), x) \in Seq(Nat \ {0})
        /\ Len(Append(Tail(q), x)) = c
        /\ Append(Tail(q), x)[c] = x
        /\ \A i \in 1..(c - 1) : Append(Tail(q), x)[i] = Tail(q)[i]
    BY <2>2, AppendProperties
  <2> QED
    BY <1>3, <2>2, <2>3, <2>4 DEF PutShape
<1> QED
  BY <1>1, <1>2, <1>3

\* Putting a frame newer than the whole queue keeps the queue ordered, and a
\* circular queue that holds the newest frames still does afterwards.
LEMMA PutKeeps ==
  ASSUME NEW q, NEW p, NEW k \in Nat, NEW m \in Nat, NEW c \in Nat \ {0},
         NEW n \in Nat, NEW lo \in Nat,
         k <= c, Round \in Int, lo <= n,
         \A i \in 1..k : q[i] \in Nat,
         PutShape(q, k, p, m, c, n + 1)
  PROVE  /\ Ordered(q, k, lo, n) => Ordered(p, m, lo, n + 1)
         /\ Round # 0 /\ Newest(q, k, lo, n, c) => Newest(p, m, lo, n + 1, c)
<1>1. CASE k # c
  <2>1. m = k + 1 /\ p[k + 1] = n + 1 /\ \A i \in 1..k : p[i] = q[i]
    BY <1>1 DEF PutShape
  <2>2. Ordered(q, k, lo, n) => Ordered(p, m, lo, n + 1)
    BY <2>1 DEF Ordered
  <2>3. Newest(q, k, lo, n, c) => Newest(p, m, lo, n + 1, c)
    BY <1>1, <2>1 DEF Newest, Smaller
  <2> QED
    BY <2>2, <2>3
<1>2. CASE k = c /\ Round = 0
  BY <1>2 DEF PutShape, Ordered
<1>3. CASE k = c /\ Round # 0
  <2>1. m = k /\ p[k] = n + 1 /\ \A i \in 1..(k - 1) : p[i] = q[i + 1]
    BY <1>3 DEF PutShape
  <2>2. Ordered(q, k, lo, n) => Ordered(p, m, lo, n + 1)
    BY <1>3, <2>1 DEF Ordered
  <2>3. Newest(q, k, lo, n, c) => Newest(p, m, lo, n + 1, c)
    BY <1>3, <2>1 DEF Newest, Smaller
  <2> QED
    BY <2>2, <2>3
<1> QED
  BY <1>1, <1>2, <1>3

LEMMA PoolInitInv == PoolInit => PoolInv
  BY PoolAssumption DEF PoolInit, PoolInv, PoolTypeOK, QueueInv, Ordered, Newest

\* An emptied queue of a type that has nothing left to take keeps the invariant.
LEMMA EmptiedInv ==
  ASSUME PoolInv, NEW t \in AudioType,
         registered' \in SUBSET AudioType,
         registered' \ {t} = registered \ {t},
         queue' = [queue EXCEPT ![t] = <<>>],
         past' \in {past, [past EXCEPT ![t] = offered[t]]},
         t \in registered' => past'[t] = offered[t],
         UNCHANGED offered
  PROVE  PoolInv'
<1>1. /\ PoolTypeOK /\ QueueInv(t)
      /\ queue'[t] = <<>> /\ Len(queue'[t]) = 0
      /\ offered[t] \in Nat /\ past[t] \in Nat /\ past'[t] \in Nat
      /\ past'[t] <= offered[t] /\ offered'[t] = offered[t]
      /\ MaxFrames[t] \in Nat \ {0}
  <2>1. PoolTypeOK /\ QueueInv(t) /\ MaxFrames[t] \in Nat \ {0}
    BY PoolAssumption DEF PoolInv
  <2>2. queue'[t] = <<>> /\ Len(queue'[t]) = 0
    BY <2>1 DEF PoolTypeOK
  <2>3. offered[t] \in Nat /\ past[t] \in Nat /\ past[t] <= offered[t]
    BY <2>1 DEF PoolTypeOK, QueueInv
  <2>4. past'[t] = past[t] \/ past'[t] = offered[t]
    BY <2>1 DEF PoolTypeOK
  <2> QED
    BY <2>1, <2>2, <2>3, <2>4
<1>2. PoolTypeOK'
  <2>1. queue' \in [AudioType -> Seq(Nat \ {0})]
    <3>1. <<>> \in Seq(Nat \ {0})
      BY EmptySeq
    <3> QED
      BY <1>1, <3>1 DEF PoolTypeOK
  <2>2. past' \in [AudioType -> Nat]
    BY <1>1 DEF PoolTypeOK
  <2> QED
    BY <1>1, <2>1, <2>2 DEF PoolTypeOK
<1>3. QueueInv(t)'
  BY <1>1 DEF QueueInv, Ordered, Newest, Smaller
<1> QED
  BY <1>1, <1>2, <1>3, OneQueue DEF PoolTypeOK

LEMMA RegisterInv ==
  ASSUME PoolInv, NEW t \in AudioType, RegisterFramesPool(t)
  PROVE  PoolInv'
<1>1. CASE t \in registered
  BY <1>1 DEF PoolInv, PoolTypeOK, QueueInv, Ordered, Newest, RegisterFramesPool
<1>2. CASE t \notin registered
  <2>1. /\ registered' = registered \cup {t} /\ registered \in SUBSET AudioType
        /\ queue' = [queue EXCEPT ![t] = <<>>]
        /\ past' = [past EXCEPT ![t] = offered[t]]
        /\ past'[t] = offered[t]
        /\ UNCHANGED offered
    BY <1>2 DEF PoolInv, PoolTypeOK, RegisterFramesPool
  <2> QED
    BY <2>1, EmptiedInv
<1> QED
  BY <1>1, <1>2

LEMMA UnregisterInv ==
  ASSUME PoolInv, NEW t \in AudioType, UnregisterFramesPool(t)
  PROVE  PoolInv'
<1>1. /\ registered' = registered \ {t} /\ registered \in SUBSET AudioType
      /\ queue' = [queue EXCEPT ![t] = <<>>]
      /\ UNCHANGED <<offered, past>>
  BY DEF PoolInv, PoolTypeOK, UnregisterFramesPool
<1> QED
  BY <1>1, EmptiedInv

LEMMA PutInv ==
  ASSUME PoolInv, NEW t \in AudioType, PutFrame(t)
  PROVE  PoolInv'
<1>1. /\ PoolTypeOK /\ QueueInv(t)
      /\ queue[t] \in Seq(Nat \ {0}) /\ Len(queue[t]) <= MaxFrames[t]
      /\ MaxFrames[t] \in Nat \ {0} /\ Round \in Int
      /\ offered[t] \in Nat /\ past[t] \in Nat /\ past[t] <= offered[t]
      /\ offered' = [offered EXCEPT ![t] = offered[t] + 1]
      /\ offered'[t] = offered[t] + 1
      /\ registered' = registered /\ past' = past
  BY PoolAssumption DEF PoolInv, PoolTypeOK, QueueInv, PutFrame
<1>2. Len(queue[t]) \in Nat /\ \A i \in 1..Len(queue[t]) : queue[t][i] \in Nat
  BY <1>1, LenProperties, ElementOfSeq
<1>3. CASE t \notin registered
  <2>1. queue' = queue
    BY <1>3 DEF PutFrame
  <2>2. PoolTypeOK'
    BY <1>1, <2>1 DEF PoolTypeOK
  <2>3. QueueInv(t)'
    BY <1>1, <1>2, <1>3, <2>1 DEF QueueInv, Ordered
  <2> QED
    BY <1>1, <2>1, <2>2, <2>3, OneQueue
<1>4. CASE t \in registered
  <2> DEFINE p == BoundedQueuePut(queue[t], MaxFrames[t], offered[t] + 1)
  <2>1. queue' = [queue EXCEPT ![t] = p]
    BY <1>1, <1>4 DEF PutFrame
  <2>2. /\ p \in Seq(Nat \ {0})
        /\ PutShape(queue[t], Len(queue[t]), p, Len(p), MaxFrames[t], offered[t] + 1)
    BY <1>1, PutResult
  <2> HIDE DEF p
  <2>3. Len(p) \in Nat /\ Len(p) <= MaxFrames[t]
    BY <2>2 DEF PutShape
  <2>4. /\ Ordered(p, Len(p), past[t], offered[t] + 1)
        /\ Round # 0 => Newest(p, Len(p), past[t], offered[t] + 1, MaxFrames[t])
    <3>1. /\ Ordered(queue[t], Len(queue[t]), past[t], offered[t])
          /\ Round # 0 => Newest(queue[t], Len(queue[t]), past[t], offered[t], MaxFrames[t])
      BY <1>1, <1>4 DEF QueueInv
    <3>2. Len(queue[t]) \in Nat /\ Len(queue[t]) <= MaxFrames[t] /\ past[t] <= offered[t]
      BY <1>1, <1>2
    <3> QED
      BY <1>1, <1>2, <2>2, <2>3, <3>1, <3>2, PutKeeps
  <2>5. PoolTypeOK'
    BY <1>1, <2>1, <2>2 DEF PoolTypeOK
  <2>6. QueueInv(t)'
    <3>1. queue'[t] = p /\ past'[t] <= offered'[t]
      BY <1>1, <2>1 DEF PoolTypeOK
    <3> QED
      BY <1>1, <2>3, <2>4, <3>1 DEF QueueInv
  <2> QED
    BY <1>1, <2>1, <2>5, <2>6, OneQueue DEF PoolTypeOK
<1> QED
  BY <1>3, <1>4

\* What Tail leaves of an ordered queue, and of one that holds the newest frames.
LEMMA TailKeeps ==
  ASSUME NEW q, NEW p, NEW k \in Nat \ {0}, NEW c \in Nat \ {0},
         NEW n \in Nat, NEW lo \in Nat, k <= c, lo <= n,
         \A i \in 1..k : q[i] \in Nat,
         \A i \in 1..(k - 1) : p[i] = q[i + 1],
         Ordered(q, k, lo, n)
  PROVE  /\ lo < q[1] /\ q[1] <= n
         /\ Ordered(p, k - 1, q[1], n)
         /\ Newest(q, k, lo, n, c) => Newest(p, k - 1, q[1], n, c)
<1>1. lo < q[1] /\ q[1] <= n /\ q[1] \in Nat
  BY DEF Ordered
<1>2. \A i \in 1..(k - 1) : i + 1 \in 1..k /\ p[i] = q[i + 1]
  OBVIOUS
<1>3. Ordered(p, k - 1, q[1], n)
  BY <1>1, <1>2 DEF Ordered
<1>4. Newest(q, k, lo, n, c) => Newest(p, k - 1, q[1], n, c)
  BY <1>1, <1>2 DEF Newest, Smaller
<1> QED
  BY <1>1, <1>3, <1>4

LEMMA TakeInv ==
  ASSUME PoolInv, NEW t \in AudioType, TakeFrame(t)
  PROVE  PoolInv' /\ (CanTake(t) => past'[t] > past[t])
<1>1. CASE ~CanTake(t)
  BY <1>1 DEF PoolInv, PoolTypeOK, QueueInv, Ordered, Newest, TakeFrame
<1>2. CASE CanTake(t)
  <2> DEFINE q == queue[t]
             p == Tail(q)
  <2>1. /\ PoolTypeOK /\ QueueInv(t)
        /\ q \in Seq(Nat \ {0}) /\ q # <<>>
        /\ MaxFrames[t] \in Nat \ {0} /\ Len(q) <= MaxFrames[t]
        /\ offered[t] \in Nat /\ past[t] \in Nat /\ past[t] <= offered[t]
        /\ t \in registered
    BY <1>2, PoolAssumption DEF CanTake, PoolInv, PoolTypeOK, QueueInv
  <2>2. /\ Len(q) \in Nat \ {0}
        /\ p \in Seq(Nat \ {0}) /\ Len(p) = Len(q) - 1
        /\ \A i \in 1..(Len(q) - 1) : p[i] = q[i + 1]
        /\ Head(q) = q[1] /\ q[1] \in Nat
        /\ \A i \in 1..Len(q) : q[i] \in Nat
    BY <2>1, HeadTailProperties, LenProperties, ElementOfSeq, EmptySeq
  <2>3. /\ queue' = [queue EXCEPT ![t] = p]
        /\ past' = [past EXCEPT ![t] = q[1]]
        /\ registered' = registered /\ offered' = offered
    BY <1>2, <2>2 DEF TakeFrame
  <2> HIDE DEF p, q
  <2>4. /\ past[t] < q[1] /\ q[1] <= offered[t]
        /\ Ordered(p, Len(q) - 1, q[1], offered[t])
        /\ Round # 0 => Newest(p, Len(q) - 1, q[1], offered[t], MaxFrames[t])
    <3>1. /\ Ordered(q, Len(q), past[t], offered[t])
          /\ Round # 0 => Newest(q, Len(q), past[t], offered[t], MaxFrames[t])
      BY <2>1 DEF QueueInv, q
    <3> QED
      BY <2>1, <2>2, <3>1, TailKeeps
  <2>5. PoolTypeOK'
    BY <2>1, <2>2, <2>3 DEF PoolTypeOK
  <2>6. queue'[t] = p /\ past'[t] = q[1] /\ offered'[t] = offered[t]
    BY <2>1, <2>3 DEF PoolTypeOK
  <2>7. QueueInv(t)'
    BY <2>1, <2>2, <2>4, <2>6 DEF QueueInv
  <2>8. PoolInv'
    BY <2>1, <2>3, <2>5, <2>7, OneQueue DEF PoolTypeOK
  <2> QED
    BY <2>1, <2>2, <2>4, <2>6, <2>8
<1> QED
  BY <1>1, <1>2

LEMMA PoolStepInv == PoolInv /\ [PoolNext]_poolVars => PoolInv'
<1>1. ASSUME PoolInv, PoolNext PROVE PoolInv'
  BY <1>1, RegisterInv, UnregisterInv, PutInv, TakeInv DEF PoolNext
<1>2. ASSUME PoolInv, UNCHANGED poolVars PROVE PoolInv'
  BY <1>2 DEF PoolInv, PoolTypeOK, QueueInv, Ordered, Newest, poolVars
<1> QED
  BY <1>1, <1>2

\* After any calls of the pool's methods, in either mode, its queues are bounded and
\* ordered, and those of a circular pool are runs of the newest frames.
THEOREM PoolInvariant == PoolSpec => []PoolInv
  BY PoolInitInv, PoolStepInv, PTL DEF PoolSpec

\* The pool's state always has its types, for any constants.
THEOREM PoolTypeCorrect == PoolSpec => []PoolTypeOK
<1>1. PoolInv => PoolTypeOK
  BY DEF PoolInv
<1> QED
  BY PoolInvariant, <1>1, PTL

\* The queues of a circular pool always hold exactly the newest frames that fit,
\* in order (AudioFramePool::PutFrame and TakeFrame over put(round, x) and take).
THEOREM PoolHoldsNewest == PoolSpec => []HoldsNewest
<1>1. PoolInv => HoldsNewest
  BY PoolInvImplies
<1> QED
  BY PoolInvariant, <1>1, PTL

\* In either mode the queue is ordered and newer than anything taken already.
THEOREM PoolInOrder == PoolSpec => []InOrder
<1>1. PoolInv => InOrder
  BY PoolInvImplies
<1> QED
  BY PoolInvariant, <1>1, PTL

\* What has been taken only moves on.
LEMMA PastGrows ==
  ASSUME PoolInv, [PoolNext]_poolVars, NEW t \in AudioType PROVE past'[t] >= past[t]
<1>1. ASSUME NEW u \in AudioType, RegisterFramesPool(u) PROVE past'[t] >= past[t]
  BY <1>1 DEF RegisterFramesPool, PoolInv, PoolTypeOK, QueueInv
<1>2. ASSUME NEW u \in AudioType, UnregisterFramesPool(u) \/ PutFrame(u)
      PROVE  past'[t] >= past[t]
  BY <1>2 DEF UnregisterFramesPool, PutFrame, PoolInv, PoolTypeOK
<1>3. ASSUME NEW u \in AudioType, TakeFrame(u) PROVE past'[t] >= past[t]
  <2>1. CASE u = t /\ CanTake(t)
    <3>1. past'[t] > past[t] /\ PoolTypeOK /\ PoolTypeOK'
      BY <1>3, <2>1, TakeInv DEF PoolInv
    <3> QED
      BY <3>1 DEF PoolTypeOK
  <2>2. CASE ~(u = t /\ CanTake(t))
    BY <1>3, <2>2 DEF PoolInv, PoolTypeOK, TakeFrame
  <2> QED
    BY <2>1, <2>2
<1>4. CASE UNCHANGED poolVars
  BY <1>4 DEF PoolInv, PoolTypeOK, poolVars
<1> QED
  BY <1>1, <1>2, <1>3, <1>4 DEF PoolNext

\* No call sequence makes take() hand out a frame twice or out of order.
THEOREM PoolTakesInOrder == PoolSpec => TakenInOrder
<1>1. PoolInv /\ [PoolNext]_poolVars =>
        [\A t \in AudioType :
           /\ past'[t] >= past[t]
           /\ TakeFrame(t) /\ CanTake(t) => past'[t] > past[t]]_poolVars
  BY PastGrows, TakeInv
<1> QED
  BY PoolInvariant, <1>1, PTL DEF PoolSpec, TakenInOrder

=============================================================================
