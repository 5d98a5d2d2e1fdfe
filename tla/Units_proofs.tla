--------------------------------- MODULE Units_proofs ---------------------------------
(***************************************************************************)
(* The parts of the pusher that stand alone: the reframing of PCM for any  *)
(* size of an AAC frame and any number of MP3 frames, the blocking queue   *)
(* in either mode for any number of threads and of spurious wake-ups, and  *)
(* the search for the frames of an MP3 file in any file.                   *)
(***************************************************************************)
EXTENDS PcmReframer, BlockingQueue, FrameScanner, SeqLemmas, FiniteSetTheorems

-----------------------------------------------------------------------------
(* The reframer. *)

\* The first n units of aacPcmBuffer are the next n units to be encoded.
Holds(n) == ~stale => \A i \in 0..(n - 1) : aacPcm[i] = sent + i

\* mp3PcmBuffer is the newest decoded frame.
HoldsNewestFrame == ~stale => \A i \in 0..(Mp3Frame - 1) : mp3Pcm[i] = total - Mp3Frame + i

\* The inductive invariant: the account of the units and the content of the two
\* buffers, place by place in the loop's body.
RInv ==
  /\ ReframerTypeOK
  /\ pc = "decode" => index < AacFrame /\ total = sent + index /\ Holds(index)
  /\ pc = "fill" =>
       /\ index < AacFrame /\ total = sent + index + Mp3Frame
       /\ Holds(index) /\ HoldsNewestFrame
  /\ pc = "encode1" =>
       /\ index < AacFrame /\ remain = AacFrame - index
       /\ total = sent + index + Mp3Frame
       /\ Holds(AacFrame) /\ HoldsNewestFrame
  /\ pc = "keep" =>
       /\ index < AacFrame /\ remain = AacFrame - index
       /\ total = sent + Mp3Frame - remain
       /\ HoldsNewestFrame
  /\ pc = "encode2" => total = sent + index /\ Holds(index)

LEMMA FrameSizes == AacFrame \in Nat \ {0} /\ Mp3Frame = AacFrame + 1 /\ Mp3Frame \in Nat \ {0}
  BY ReframerAssumption DEF Mp3Frame

LEMMA RInitInv == ReframerInit => RInv
<1> SUFFICES ASSUME ReframerInit PROVE RInv
  OBVIOUS
<1>1. mp3Pcm \in [0..(Mp3Frame - 1) -> Int] /\ aacPcm \in [0..(AacFrame - 1) -> Int]
  <2>1. Garbage \in Int
    BY DEF Garbage
  <2> QED
    BY <2>1 DEF ReframerInit
<1>2. Holds(index) /\ index < AacFrame /\ total = sent + index
  BY FrameSizes DEF ReframerInit, Holds
<1>3. stale \in BOOLEAN
  BY Zenon DEF ReframerInit
<1> QED
  BY <1>1, <1>2, <1>3, FrameSizes DEF ReframerInit, RInv, ReframerTypeOK

LEMMA DecodeInv == ASSUME RInv, Decode PROVE RInv'
<1>1. mp3Pcm' \in [0..(Mp3Frame - 1) -> Int]
  <2>1. \A i \in 0..(Mp3Frame - 1) : total + i \in Int
    BY FrameSizes DEF RInv, ReframerTypeOK
  <2> QED
    BY <2>1 DEF Decode, RInv, ReframerTypeOK
<1>2. stale' \in BOOLEAN
  BY Zenon DEF Decode, RInv, ReframerTypeOK
<1>3. ReframerTypeOK'
  BY <1>1, <1>2, FrameSizes DEF Decode, RInv, ReframerTypeOK
<1>4. Holds(index)'
  BY DEF Decode, RInv, ReframerTypeOK, Holds
<1>5. HoldsNewestFrame'
  <2>1. CASE UNCHANGED stale /\ mp3Pcm' = [i \in 0..(Mp3Frame - 1) |-> total + i]
    BY <2>1, FrameSizes DEF Decode, RInv, ReframerTypeOK, HoldsNewestFrame
  <2>2. CASE stale'
    BY <2>2 DEF HoldsNewestFrame
  <2> QED
    BY <2>1, <2>2 DEF Decode
<1> QED
  BY <1>3, <1>4, <1>5, FrameSizes DEF Decode, RInv, ReframerTypeOK

LEMMA FillInv == ASSUME RInv, Fill PROVE RInv'
<1>1. /\ ReframerTypeOK /\ index \in Nat /\ index < AacFrame
      /\ remain' = AacFrame - index /\ remain' \in Nat
      /\ aacPcm' = Memcpy(aacPcm, index, mp3Pcm, 0, remain')
      /\ total = sent + index + Mp3Frame /\ total \in Nat /\ sent \in Nat
      /\ Holds(index) /\ HoldsNewestFrame
      /\ index + remain' <= AacFrame /\ 0 + remain' <= Mp3Frame
  BY FrameSizes DEF Fill, RInv, ReframerTypeOK
<1>2. /\ aacPcm' \in [0..(AacFrame - 1) -> Int]
      /\ \A i \in 0..(AacFrame - 1) :
           aacPcm'[i] = IF i < index THEN aacPcm[i] ELSE mp3Pcm[i - index]
  <2>1. aacPcm' = [i \in 0..(AacFrame - 1) |->
                    IF index <= i /\ i < index + remain' THEN mp3Pcm[i - index + 0] ELSE aacPcm[i]]
    BY <1>1 DEF Memcpy, ReframerTypeOK
  <2>2. ASSUME NEW i \in 0..(AacFrame - 1)
        PROVE  /\ (index <= i /\ i < index + remain') <=> ~(i < index)
               /\ i - index + 0 = i - index
               /\ ~(i < index) => i - index \in 0..(Mp3Frame - 1)
    BY <1>1, FrameSizes
  <2>3. \A i \in 0..(AacFrame - 1) :
          aacPcm'[i] = IF i < index THEN aacPcm[i] ELSE mp3Pcm[i - index]
    BY <2>1, <2>2
  <2>4. \A i \in 0..(AacFrame - 1) : aacPcm'[i] \in Int
    BY <1>1, <2>2, <2>3 DEF ReframerTypeOK
  <2> QED
    BY <2>1, <2>3, <2>4
<1>3. ASSUME ~stale, NEW i \in 0..(AacFrame - 1) PROVE aacPcm'[i] = sent + i
  <2>1. CASE i < index
    <3>1. aacPcm'[i] = aacPcm[i] /\ i \in 0..(index - 1)
      BY <1>1, <1>2, <2>1, FrameSizes
    <3> QED
      BY <1>1, <1>3, <3>1 DEF Holds
  <2>2. CASE ~(i < index)
    <3>1. i - index \in 0..(Mp3Frame - 1) /\ aacPcm'[i] = mp3Pcm[i - index]
      BY <1>1, <1>2, <2>2, FrameSizes
    <3>2. aacPcm'[i] = total - Mp3Frame + (i - index)
      BY <1>1, <1>3, <3>1 DEF HoldsNewestFrame
    <3> QED
      BY <1>1, <3>2, FrameSizes
  <2> QED
    BY <2>1, <2>2
<1>4. Holds(AacFrame)' /\ HoldsNewestFrame'
  BY <1>1, <1>3 DEF Fill, Holds, HoldsNewestFrame
<1>5. ReframerTypeOK'
  <2>1. stale' \in BOOLEAN
    BY <1>1, Zenon DEF Fill, ReframerTypeOK
  <2>2. remain' \in 0..AacFrame /\ index' \in 0..AacFrame
    BY <1>1, FrameSizes DEF Fill
  <2>3. pc' = "encode1" /\ UNCHANGED <<mp3Pcm, decodes, total, sent>>
    BY DEF Fill
  <2> QED
    BY <1>1, <1>2, <2>1, <2>2, <2>3 DEF ReframerTypeOK
<1> QED
  BY <1>1, <1>4, <1>5 DEF Fill, RInv

LEMMA Encode1Inv == ASSUME RInv, Encode1 PROVE RInv'
<1>1. ReframerTypeOK' /\ HoldsNewestFrame'
  BY FrameSizes DEF Encode1, RInv, ReframerTypeOK, HoldsNewestFrame
<1> QED
  BY <1>1, FrameSizes DEF Encode1, RInv, ReframerTypeOK

LEMMA KeepInv == ASSUME RInv, Keep PROVE RInv'
<1>1. /\ ReframerTypeOK /\ remain \in Nat /\ 1 <= remain /\ remain <= AacFrame
      /\ index' = Mp3Frame - remain /\ index' \in Nat /\ index' <= AacFrame
      /\ aacPcm' = Memcpy(aacPcm, 0, mp3Pcm, remain, index')
      /\ total = sent + Mp3Frame - remain /\ total \in Nat /\ sent \in Nat
      /\ HoldsNewestFrame
      /\ 0 + index' <= AacFrame /\ remain + index' <= Mp3Frame
  BY FrameSizes DEF Keep, RInv, ReframerTypeOK
<1>2. /\ aacPcm' \in [0..(AacFrame - 1) -> Int]
      /\ \A i \in 0..(AacFrame - 1) : i < index' => aacPcm'[i] = mp3Pcm[i + remain]
  <2>1. aacPcm' = [i \in 0..(AacFrame - 1) |->
                    IF 0 <= i /\ i < 0 + index' THEN mp3Pcm[i - 0 + remain] ELSE aacPcm[i]]
    BY <1>1 DEF Memcpy, ReframerTypeOK
  <2>2. ASSUME NEW i \in 0..(AacFrame - 1)
        PROVE  /\ (0 <= i /\ i < 0 + index') <=> i < index'
               /\ i - 0 + remain = i + remain
               /\ i < index' => i + remain \in 0..(Mp3Frame - 1)
    BY <1>1, FrameSizes
  <2>3. \A i \in 0..(AacFrame - 1) :
          aacPcm'[i] = IF i < index' THEN mp3Pcm[i + remain] ELSE aacPcm[i]
    BY <2>1, <2>2
  <2>4. \A i \in 0..(AacFrame - 1) : aacPcm'[i] \in Int
    BY <1>1, <2>2, <2>3 DEF ReframerTypeOK
  <2> QED
    BY <2>1, <2>3, <2>4
<1>3. ASSUME ~stale, NEW i \in 0..(index' - 1) PROVE aacPcm'[i] = sent + i
  <2>1. i \in 0..(AacFrame - 1) /\ i < index' /\ i + remain \in 0..(Mp3Frame - 1)
    BY <1>1, FrameSizes
  <2>2. aacPcm'[i] = total - Mp3Frame + (i + remain)
    BY <1>1, <1>2, <1>3, <2>1 DEF HoldsNewestFrame
  <2> QED
    BY <1>1, <2>2, FrameSizes
<1>4. Holds(index)'
  BY <1>3 DEF Keep, Holds
<1>5. ReframerTypeOK'
  BY <1>1, <1>2, FrameSizes DEF Keep, ReframerTypeOK
<1> QED
  BY <1>1, <1>4, <1>5, FrameSizes DEF Keep, RInv

LEMMA Encode2Inv == ASSUME RInv, Encode2 PROVE RInv'
<1>1. CASE index >= AacFrame
  BY <1>1, FrameSizes DEF Encode2, RInv, ReframerTypeOK, Holds
<1>2. CASE ~(index >= AacFrame)
  BY <1>2, FrameSizes DEF Encode2, RInv, ReframerTypeOK, Holds
<1> QED
  BY <1>1, <1>2

LEMMA RStepInv == RInv /\ [ReframerNext]_rvars => RInv'
<1>1. ASSUME RInv, UNCHANGED rvars PROVE RInv'
  BY <1>1 DEF RInv, ReframerTypeOK, Holds, HoldsNewestFrame, rvars
<1> QED
  BY <1>1, DecodeInv, FillInv, Encode1Inv, KeepInv, Encode2Inv DEF ReframerNext, Finished

\* The loop's account of PCM holds after any number of turns.
THEOREM ReframerInvariant == ReframerSpec => []RInv
  BY RInitInv, RStepInv, PTL DEF ReframerSpec

\* Type correctness of the loop's variables and buffers, for any frame size.
THEOREM ReframerTypeCorrect == ReframerSpec => []ReframerTypeOK
<1>1. RInv => ReframerTypeOK
  BY DEF RInv
<1> QED
  BY ReframerInvariant, <1>1, PTL

\* Both memcpy()s of the loop stay inside the buffers, whatever the size of an
\* AAC frame, as long as an MP3 frame is one unit longer.
THEOREM ReframerCopiesFit == ReframerSpec => []CopiesFit
<1>1. RInv => CopiesFit
  BY FrameSizes DEF RInv, ReframerTypeOK, CopiesFit
<1> QED
  BY ReframerInvariant, <1>1, PTL

\* No unit of PCM is dropped or encoded twice.
THEOREM ReframerConservesPcm == ReframerSpec => []PcmIsConserved
<1>1. RInv => PcmIsConserved
  BY DEF RInv, PcmIsConserved
<1> QED
  BY ReframerInvariant, <1>1, PTL

\* The AAC encoder is given the decoded PCM in order, as long as the decoder
\* fills its buffer whenever it returns 0.
THEOREM ReframerEncodesInOrder == ReframerSpec => []EncodesPcmInOrder
<1>1. RInv => EncodesPcmInOrder
  BY FrameSizes DEF RInv, ReframerTypeOK, EncodesPcmInOrder, ReadyToEncode, NextFrame, Holds
<1> QED
  BY ReframerInvariant, <1>1, PTL

-----------------------------------------------------------------------------
(* The blocking queue. *)

Types ==
  /\ BlockingQueueTypeOK
  /\ capacity_ \in Nat \ {0}
  /\ queue_ \in Seq(Nat)
  /\ pushed \in Nat /\ gone \in Nat
  /\ waited \subseteq QueueThreads

\* Whoever is between its guard and its unlock() has the pthread mutex, and nobody
\* else; what the test of the predicate found still holds there.
Places ==
  \A t \in QueueThreads :
    /\ at[t] \in {"check", "push", "pop"} <=> pmutex = t
    /\ at[t] \in {"push", "notify"} => t \in Producers
    /\ at[t] = "push" => (Full => t \in Overwriters)
    /\ at[t] = "pop" => t \in Consumers /\ queue_ # <<>>

\* Element by element: what QueueIsFifo says of the queue.
Run(q, lo, n) ==
  /\ Len(q) = n - lo
  /\ \A i \in 1..Len(q) : q[i] = lo + i

Fifo == Len(queue_) <= capacity_ /\ Run(queue_, gone, pushed)

\* m_holder may be stale, but then it names a thread that waits or none.
Holder ==
  /\ \A t \in QueueThreads : at[t] = "waiting" => t \in waited
  /\ \A t \in QueueThreads : at[t] # "waiting" /\ holder = t => pmutex = t
  /\ pmutex # NoThread /\ pmutex \notin waited => holder = pmutex

BQInv == Types /\ Places /\ Fifo /\ Holder

LEMMA ThreadsAreThreads ==
  /\ NoThread \notin QueueThreads
  /\ Producers \subseteq QueueThreads /\ Consumers \subseteq QueueThreads
  /\ Producers \cap Consumers = {}
  /\ Capacities \subseteq Nat \ {0}
  BY BlockingQueueAssumption DEF QueueThreads

LEMMA BQInitInv == BlockingQueueInit => BQInv
<1> SUFFICES ASSUME BlockingQueueInit PROVE BQInv
  OBVIOUS
<1>1. Types
  BY ThreadsAreThreads DEF BlockingQueueInit, Types, BlockingQueueTypeOK, Waiting
<1>2. Places /\ Fifo /\ Holder
  BY ThreadsAreThreads DEF BlockingQueueInit, Places, Fifo, Run, Holder
<1> QED
  BY <1>1, <1>2 DEF BQInv

LEMMA EnterInv == ASSUME BQInv, NEW t \in QueueThreads, Enter(t) PROVE BQInv'
<1> USE ThreadsAreThreads DEF BQInv, Enter, Lock, Goto
<1>1. Types'
  BY DEF Types, BlockingQueueTypeOK, Waiting
<1>2. Places'
  BY DEF Types, BlockingQueueTypeOK, Places, Full
<1>3. Fifo'
  BY DEF Fifo, Run
<1>4. Holder'
  BY DEF Types, BlockingQueueTypeOK, Places, Holder
<1> QED
  BY <1>1, <1>2, <1>3, <1>4

LEMMA WaitInv ==
  ASSUME BQInv, NEW t \in QueueThreads, at[t] = "check", Wait(t),
         UNCHANGED <<capacity_, queue_, pushed, gone>>,
         \/ t \in Producers /\ notFull_' = notFull_ \cup {t} /\ UNCHANGED notEmpty_
         \/ t \in Consumers /\ notEmpty_' = notEmpty_ \cup {t} /\ UNCHANGED notFull_
  PROVE  BQInv'
<1> USE ThreadsAreThreads DEF BQInv, Wait, Goto
<1>1. Types'
  BY DEF Types, BlockingQueueTypeOK, Waiting
<1>2. Places'
  BY DEF Types, BlockingQueueTypeOK, Places, Full
<1>3. Fifo'
  BY DEF Fifo, Run
<1>4. Holder'
  BY DEF Types, BlockingQueueTypeOK, Places, Holder
<1> QED
  BY <1>1, <1>2, <1>3, <1>4

\* Back to the caller, with the mutex freed and the queue in order.
LEMMA LeaveInv ==
  ASSUME BQInv, NEW t \in QueueThreads, at[t] \in {"check", "push", "pop"}, Unlock(t),
         NEW place \in {"outside", "notify"}, Goto(t, place),
         place = "notify" => t \in Producers,
         notEmpty_' \subseteq notEmpty_, notFull_' \subseteq notFull_,
         queue_' \in Seq(Nat), pushed' \in Nat, gone' \in Nat, Fifo',
         UNCHANGED <<capacity_, waited>>
  PROVE  BQInv'
<1> USE ThreadsAreThreads DEF BQInv, Unlock, Goto
<1>1. Types'
  BY DEF Types, BlockingQueueTypeOK, Waiting
<1>2. Places'
  BY DEF Types, BlockingQueueTypeOK, Places
<1>3. Holder'
  BY DEF Types, BlockingQueueTypeOK, Places, Holder
<1> QED
  BY <1>1, <1>2, <1>3

LEMMA RefuseInv ==
  ASSUME BQInv, NEW t \in QueueThreads, at[t] = "check", Refuse(t),
         UNCHANGED <<capacity_, queue_, pushed, gone, notEmpty_, notFull_>>
  PROVE  BQInv'
<1>1. Fifo'
  BY DEF BQInv, Fifo, Run
<1>2. /\ Unlock(t) /\ Goto(t, "outside") /\ UNCHANGED <<capacity_, waited>>
      /\ queue_' \in Seq(Nat) /\ pushed' \in Nat /\ gone' \in Nat
  BY DEF Refuse, BQInv, Types
<1> QED
  BY <1>1, <1>2, LeaveInv

\* The test is passed: on to the push or the pop.
LEMMA PassInv ==
  ASSUME BQInv, NEW t \in QueueThreads, at[t] = "check",
         NEW place \in {"push", "pop"}, Goto(t, place),
         place = "push" => t \in Producers /\ (Full => t \in Overwriters),
         place = "pop" => t \in Consumers /\ queue_ # <<>>,
         UNCHANGED <<capacity_, queue_, pushed, gone, pmutex, holder, notEmpty_,
                     notFull_, waited>>
  PROVE  BQInv'
<1> USE ThreadsAreThreads DEF BQInv, Goto
<1>1. Types'
  BY DEF Types, BlockingQueueTypeOK, Waiting
<1>2. Places'
  BY DEF Types, BlockingQueueTypeOK, Places, Full
<1>3. Fifo'
  BY DEF Fifo, Run
<1>4. Holder'
  BY DEF Types, BlockingQueueTypeOK, Holder
<1> QED
  BY <1>1, <1>2, <1>3, <1>4

LEMMA CheckFullInv == ASSUME BQInv, NEW t \in QueueThreads, CheckFull(t) PROVE BQInv'
<1>1. CASE Full /\ t \notin Overwriters
  BY <1>1, WaitInv, RefuseInv DEF CheckFull
<1>2. CASE ~(Full /\ t \notin Overwriters)
  BY <1>2, PassInv DEF CheckFull
<1> QED
  BY <1>1, <1>2

LEMMA CheckEmptyInv == ASSUME BQInv, NEW t \in QueueThreads, CheckEmpty(t) PROVE BQInv'
<1>1. CASE queue_ = <<>>
  BY <1>1, WaitInv, RefuseInv DEF CheckEmpty
<1>2. CASE queue_ # <<>>
  BY <1>2, PassInv DEF CheckEmpty
<1> QED
  BY <1>1, <1>2

LEMMA WakeInv == ASSUME BQInv, NEW t \in QueueThreads, Wake(t) PROVE BQInv'
<1> USE ThreadsAreThreads DEF BQInv, Wake, Goto
<1>1. Types'
  BY DEF Types, BlockingQueueTypeOK, Waiting
<1>2. Places'
  BY DEF Types, BlockingQueueTypeOK, Places, Full
<1>3. Fifo'
  BY DEF Fifo, Run
<1>4. Holder'
  BY DEF Types, BlockingQueueTypeOK, Places, Holder
<1> QED
  BY <1>1, <1>2, <1>3, <1>4

\* A queue of consecutive elements stays one when its oldest goes ...
LEMMA TailRun ==
  ASSUME NEW q \in Seq(Nat), NEW lo \in Nat, NEW n \in Nat, Run(q, lo, n), q # <<>>
  PROVE  Tail(q) \in Seq(Nat) /\ Len(Tail(q)) = Len(q) - 1 /\ Run(Tail(q), lo + 1, n)
<1>1. Len(q) \in Nat /\ Len(q) # 0
  BY EmptySeq
<1>2. /\ Tail(q) \in Seq(Nat) /\ Len(Tail(q)) = Len(q) - 1
      /\ \A i \in 1..Len(Tail(q)) : Tail(q)[i] = q[i + 1]
  BY <1>1, HeadTailProperties
<1> QED
  BY <1>1, <1>2 DEF Run

\* ... and when the next one comes.
LEMMA AppendRun ==
  ASSUME NEW q \in Seq(Nat), NEW lo \in Nat, NEW n \in Nat, Run(q, lo, n)
  PROVE  /\ Append(q, n + 1) \in Seq(Nat) /\ Len(Append(q, n + 1)) = Len(q) + 1
         /\ Run(Append(q, n + 1), lo, n + 1)
<1>1. Len(q) \in Nat
  OBVIOUS
<1>2. /\ Append(q, n + 1) \in Seq(Nat) /\ Len(Append(q, n + 1)) = Len(q) + 1
      /\ \A i \in 1..Len(q) : Append(q, n + 1)[i] = q[i]
      /\ Append(q, n + 1)[Len(q) + 1] = n + 1
  BY AppendProperties
<1>3. Len(q) = n - lo /\ \A i \in 1..Len(q) : q[i] = lo + i
  BY DEF Run
<1> DEFINE p == Append(q, n + 1)
<1> HIDE DEF p
<1>4. Len(p) = Len(q) + 1 /\ Len(p) = (n + 1) - lo
  BY <1>1, <1>2, <1>3 DEF p
<1>5. ASSUME NEW i \in 1..Len(p) PROVE p[i] = lo + i
  <2>1. CASE i \in 1..Len(q)
    BY <1>2, <1>3, <2>1 DEF p
  <2>2. CASE i \notin 1..Len(q)
    <3>1. i = Len(q) + 1 /\ p[Len(q) + 1] = n + 1
      BY <1>1, <1>2, <1>4, <2>2 DEF p
    <3> QED
      BY <1>1, <1>3, <3>1
  <2> QED
    BY <2>1, <2>2
<1> QED
  BY <1>2, <1>4, <1>5 DEF Run, p

LEMMA PushInv == ASSUME BQInv, NEW t \in QueueThreads, Push(t) PROVE BQInv'
<1>1. /\ capacity_ \in Nat \ {0} /\ queue_ \in Seq(Nat) /\ pushed \in Nat /\ gone \in Nat
      /\ Run(queue_, gone, pushed) /\ Len(queue_) <= capacity_ /\ Len(queue_) \in Nat
  BY DEF BQInv, Types, Fifo
<1> DEFINE rest == IF Full THEN Tail(queue_) ELSE queue_
<1>2. rest \in Seq(Nat) /\ gone' \in Nat /\ Run(rest, gone', pushed) /\ Len(rest) < capacity_
  <2>1. CASE Full
    <3>1. queue_ # <<>>
      BY <1>1, <2>1 DEF Full
    <3> QED
      BY <1>1, <2>1, <3>1, TailRun DEF Push, Full
  <2>2. CASE ~Full
    BY <1>1, <2>2 DEF Push, Full
  <2> QED
    BY <2>1, <2>2
<1>3. queue_' = Append(rest, pushed + 1) /\ pushed' = pushed + 1 /\ UNCHANGED capacity_
  BY DEF Push
<1> HIDE DEF rest
<1>4. queue_' \in Seq(Nat) /\ Len(queue_') = Len(rest) + 1 /\ Run(queue_', gone', pushed')
  BY <1>1, <1>2, <1>3, AppendRun
<1>5. Fifo' /\ pushed' \in Nat
  BY <1>1, <1>2, <1>3, <1>4 DEF Fifo
<1>6. t \in Producers
  BY DEF Push, BQInv, Places
<1> QED
  BY <1>2, <1>4, <1>5, <1>6, LeaveInv DEF Push

LEMMA NotifyShrinks ==
  ASSUME NEW waiters, NEW others, Notify(waiters, others) PROVE others \subseteq waiters
  BY DEF Notify

LEMMA PopInv == ASSUME BQInv, NEW t \in QueueThreads, Pop(t) PROVE BQInv'
<1>1. /\ capacity_ \in Nat \ {0} /\ queue_ \in Seq(Nat) /\ pushed \in Nat /\ gone \in Nat
      /\ Run(queue_, gone, pushed) /\ Len(queue_) <= capacity_ /\ Len(queue_) \in Nat
      /\ queue_ # <<>>
  BY DEF BQInv, Types, Fifo, Places, Pop
<1>2. queue_' = Tail(queue_) /\ gone' = gone + 1 /\ UNCHANGED <<capacity_, pushed>>
  BY DEF Pop
<1>3. queue_' \in Seq(Nat) /\ Len(queue_') = Len(queue_) - 1 /\ Run(queue_', gone', pushed')
  BY <1>1, <1>2, TailRun
<1>4. Fifo' /\ pushed' \in Nat /\ gone' \in Nat
  BY <1>1, <1>2, <1>3 DEF Fifo
<1>5. notFull_' \subseteq notFull_
  BY NotifyShrinks DEF Pop
<1> QED
  BY <1>3, <1>4, <1>5, LeaveInv DEF Pop

LEMMA NotifyInv == ASSUME BQInv, NEW t \in QueueThreads, NotifyNotEmpty(t) PROVE BQInv'
<1>1. notEmpty_' \subseteq notEmpty_
  BY NotifyShrinks DEF NotifyNotEmpty
<1> USE ThreadsAreThreads DEF BQInv, NotifyNotEmpty, Goto
<1>2. Types'
  BY <1>1 DEF Types, BlockingQueueTypeOK, Waiting
<1>3. Places'
  BY DEF Types, BlockingQueueTypeOK, Places, Full
<1>4. Fifo'
  BY DEF Fifo, Run
<1>5. Holder'
  BY DEF Types, BlockingQueueTypeOK, Holder
<1> QED
  BY <1>2, <1>3, <1>4, <1>5

LEMMA BQStepInv == BQInv /\ [BlockingQueueNext]_bqVars => BQInv'
<1>1. ASSUME BQInv, UNCHANGED bqVars PROVE BQInv'
  BY <1>1 DEF BQInv, Types, BlockingQueueTypeOK, Waiting, Places, Full, Fifo, Run, Holder,
              bqVars
<1>2. ASSUME BQInv, NEW t \in QueueThreads, QueueStep(t) PROVE BQInv'
  BY <1>2, EnterInv, CheckFullInv, CheckEmptyInv, PushInv, NotifyInv, PopInv, WakeInv
     DEF QueueStep
<1> QED
  BY <1>1, <1>2 DEF BlockingQueueNext, NothingToDo

\* Places, queue and holder fit together in every reachable state.
THEOREM BQInvariant == BlockingQueueSpec => []BQInv
  BY BQInitInv, BQStepInv, PTL DEF BlockingQueueSpec

\* The state of the queue and its locks has its types, and who is listed with a
\* condition does wait for it.
THEOREM BQTypeCorrect == BlockingQueueSpec => []BlockingQueueTypeOK
<1>1. BQInv => BlockingQueueTypeOK
  BY DEF BQInv, Types
<1> QED
  BY BQInvariant, <1>1, PTL

\* For any number of producers, overwriters and consumers, any capacity and any
\* interleaving, BoundedQueue is a bounded queue of the newest elements.
THEOREM BQIsFifo == BlockingQueueSpec => []QueueIsFifo
<1>1. BQInv => QueueIsFifo
  <2> SUFFICES ASSUME BQInv PROVE QueueIsFifo
    OBVIOUS
  <2>1. Len(queue_) <= capacity_ /\ \A t \in QueueThreads : at[t] = "pop" => queue_ # <<>>
    BY DEF BQInv, Fifo, Places
  <2>2. /\ queue_ \in Seq(Nat) /\ Len(queue_) = pushed - gone
        /\ \A i \in 1..Len(queue_) : queue_[i] = gone + i
    BY DEF BQInv, Types, Fifo, Run
  <2>3. queue_ = [i \in 1..Len(queue_) |-> queue_[i]]
    BY <2>2
  <2>4. queue_ = [i \in 1..(pushed - gone) |-> gone + i]
    BY <2>2, <2>3
  <2> QED
    BY <2>1, <2>4 DEF QueueIsFifo
<1> QED
  BY BQInvariant, <1>1, PTL

\* Although Condition::wait() moves the pthread mutex behind MutexLock's back,
\* m_holder never names a running thread that has not got the mutex.
THEOREM BQHolderIsTruthful == BlockingQueueSpec => []HolderIsTruthful
<1>1. BQInv => HolderIsTruthful
  BY ThreadsAreThreads
     DEF BQInv, Types, BlockingQueueTypeOK, Places, Holder, HolderIsTruthful, Waiting
<1> QED
  BY BQInvariant, <1>1, PTL

-----------------------------------------------------------------------------
(* The search for frames: the header's third byte. *)

\* The values of a byte.
Bytes == 0..255

LEMMA ThirdByteParts ==
  ASSUME NEW b \in Bytes
  PROVE  /\ b \div 16 + 1 \in 1..16 /\ findFramePadding(b) \in 0..1
         /\ ((b \div 4) % 4) + 1 \in 1..4 /\ ((b \div 4) % 4) \div 16 + 1 = 1
<1>1. b \div 16 \in 0..15
  BY DEF Bytes
<1>2. (b \div 2) % 2 \in 0..1
  BY DEF Bytes
<1>3. (b \div 4) % 4 \in 0..3
  BY DEF Bytes
<1>4. \A x \in 0..3 : x \div 16 = 0
  OBVIOUS
<1> QED
  BY <1>1, <1>2, <1>3, <1>4 DEF findFramePadding

LEMMA BitratesRange == \A k \in 1..16 : Bitrates[k] = 0 \/ Bitrates[k] \in 32..320
<1>1. ASSUME NEW k \in 1..16 PROVE Bitrates[k] = 0 \/ Bitrates[k] \in 32..320
  <2>1. CASE k \in 1..8
    BY <2>1 DEF Bitrates
  <2>2. CASE k \in 9..16
    BY <2>2 DEF Bitrates
  <2> QED
    BY <2>1, <2>2
<1> QED
  BY <1>1

\* The quotient in the length of a frame of bit rate r and sampling frequency q.
Slots(r, q) == (144 * 1000 * r) \div q

Rates == 32..320
Frequencies == {44100, 48000, 32000}

\* How long a frame may be: the bit rates and the frequencies of the tables.
LEMMA Quotients ==
  /\ \A r \in Rates : Slots(r, 44100) \in 104..1045
  /\ \A r \in Rates : \A q \in Frequencies : Slots(r, q) \in 96..1440
<1> SUFFICES ASSUME NEW r \in Rates, NEW q \in Frequencies
             PROVE  Slots(r, 44100) \in 104..1045 /\ Slots(r, q) \in 96..1440
  BY DEF Frequencies
<1>0. r \in 32..320 /\ q \in {44100, 48000, 32000}
  BY DEF Rates, Frequencies
<1>1. PICK x \in Int : x = 144 * 1000 * r
  BY <1>0
<1>2. 144 * 1000 = 144000
  OBVIOUS
<1>3. 4608000 <= x /\ x <= 46080000
  BY <1>0, <1>1, <1>2
<1>4. 104 <= x \div 44100 /\ x \div 44100 <= 1045
  BY <1>3
<1>5. 96 <= x \div 48000 /\ x \div 48000 <= 960
  BY <1>3
<1>6. 144 <= x \div 32000 /\ x \div 32000 <= 1440
  BY <1>3
<1>7. x \div 44100 \in Int /\ x \div 48000 \in Int /\ x \div 32000 \in Int
  OBVIOUS
<1>8. Slots(r, 44100) = x \div 44100 /\ Slots(r, q) = x \div q
  BY <1>1 DEF Slots
<1>9. x \div q \in Int /\ 96 <= x \div q /\ x \div q <= 1440
  <2>1. CASE q = 44100
    BY <1>4, <1>7, <2>1
  <2>2. CASE q = 48000
    BY <1>5, <1>7, <2>2
  <2>3. CASE q = 32000
    BY <1>6, <1>7, <2>3
  <2> QED
    BY <1>0, <2>1, <2>2, <2>3
<1>10. Slots(r, 44100) \in 104..1045
  BY <1>4, <1>7, <1>8
<1>11. Slots(r, q) \in 96..1440
  BY <1>8, <1>9
<1> QED
  BY <1>10, <1>11

LEMMA SamplingFrequency ==
  ASSUME NEW b \in Bytes
  PROVE  findFrameSamplingFrequency(b) = 44100 /\ findFrameSamplingFrequency(b) # 0
  BY ThirdByteParts DEF findFrameSamplingFrequency

LEMMA BitRate == \A b \in Bytes : findFrameBitRate(b) = 0 \/ findFrameBitRate(b) \in 32..320
  BY ThirdByteParts, BitratesRange DEF findFrameBitRate

\* How long a frame may be that the parser reads.
LengthsOfFrames == 104..1046

LEMMA LengthsAreSmall == \A l \in LengthsOfFrames : l \in Nat /\ 5 <= l /\ l <= 4608
<1> TAKE l \in LengthsOfFrames
<1>1. l \in Int /\ 104 <= l /\ l <= 1046
  BY DEF LengthsOfFrames
<1> QED
  BY <1>1

LEMMA FrameLengths ==
  ASSUME NEW b \in Bytes, findFrameBitRate(b) # 0
  PROVE  /\ FrameLength(b) \in LengthsOfFrames
         /\ MpegFrequency(b) = 44100 => MpegLength(b) = FrameLength(b)
<1>1. findFrameSamplingFrequency(b) = 44100
  BY SamplingFrequency
<1>2. findFrameBitRate(b) \in 32..320
  BY BitRate
<1>3. FrameLength(b) = Slots(findFrameBitRate(b), 44100) + findFramePadding(b)
  BY <1>1 DEF FrameLength, Slots
<1>4. PICK x, y : x = Slots(findFrameBitRate(b), 44100) /\ y = findFramePadding(b)
  OBVIOUS
<1>5. x \in 104..1045 /\ y \in 0..1
  <2>1. findFrameBitRate(b) \in Rates
    BY <1>2 DEF Rates
  <2>2. x \in 104..1045
    BY <1>4, <2>1, Quotients
  <2>3. y \in 0..1
    BY <1>4, ThirdByteParts
  <2> QED
    BY <2>2, <2>3
<1>6. FrameLength(b) \in LengthsOfFrames
  BY <1>3, <1>4, <1>5 DEF LengthsOfFrames
<1>7. ASSUME MpegFrequency(b) = 44100 PROVE MpegLength(b) = FrameLength(b)
  <2>1. MpegLength(b) = Slots(findFrameBitRate(b), MpegFrequency(b)) + findFramePadding(b)
    BY <1>7 DEF MpegLength, Slots
  <2> QED
    BY <1>3, <1>7, <2>1
<1> QED
  BY <1>6, <1>7

LEMMA MpegLengths == ASSUME NEW b \in Bytes PROVE MpegLength(b) \in Nat \ {0}
<1>1. findFrameBitRate(b) = 0 \/ findFrameBitRate(b) \in 32..320
  BY BitRate
<1>2. MpegFrequency(b) \in {44100, 48000, 32000, 0}
  BY ThirdByteParts DEF MpegFrequency
<1>3. CASE findFrameBitRate(b) = 0 \/ MpegFrequency(b) = 0
  BY <1>3 DEF MpegLength
<1>4. CASE ~(findFrameBitRate(b) = 0 \/ MpegFrequency(b) = 0)
  <2>1. MpegLength(b) = Slots(findFrameBitRate(b), MpegFrequency(b)) + findFramePadding(b)
    BY <1>4 DEF MpegLength, Slots
  <2>2. PICK r, q, y : r = findFrameBitRate(b) /\ q = MpegFrequency(b) /\ y = findFramePadding(b)
    OBVIOUS
  <2>3. r \in Rates /\ q \in Frequencies /\ y \in 0..1
    BY <1>1, <1>2, <1>4, <2>2, ThirdByteParts DEF Rates, Frequencies
  <2>4. PICK x : x = Slots(r, q)
    OBVIOUS
  <2>5. x \in 96..1440
    BY <2>3, <2>4, Quotients
  <2>6. MpegLength(b) = x + y
    BY <2>1, <2>2, <2>4
  <2> QED
    BY <2>3, <2>5, <2>6
<1> QED
  BY <1>3, <1>4

LEMMA LastByteIsNoHeader == findFrameBitRate(255) = 0 /\ 255 \div 16 = 15 /\ 251 \div 16 = 15
  BY DEF findFrameBitRate, Bitrates

-----------------------------------------------------------------------------
(* The search for frames: the files. *)

LEMMA FileParts ==
  ASSUME NEW f \in Files
  PROVE  /\ f.junk \in Seq(Bytes) /\ Len(f.junk) \in Nat
         /\ Len(f.frames) \in Nat /\ DOMAIN f.frames = 1..Len(f.frames)
         /\ \A i \in 1..Len(f.frames) : f.frames[i].third \in Bytes /\ f.frames[i].body \in Bytes
         /\ f.cut \in Nat /\ FileSize(f) >= Len(f.junk)
<1>1. /\ f.junk \in Junks /\ f.cut \in Cuts /\ FileSize(f) >= Len(f.junk)
      /\ f.frames \in SeqOf([third : ThirdBytes, body : BodyBytes], MaxFileFrames)
  BY DEF Files
<1>2. PICK m \in 0..MaxFileFrames : f.frames \in [1..m -> [third : ThirdBytes, body : BodyBytes]]
  BY <1>1 DEF SeqOf
<1>3. m \in Nat
  BY ScannerAssumption
<1>4. Len(f.frames) = m /\ DOMAIN f.frames = 1..m
  BY <1>2, <1>3
<1>5. \A i \in 1..m : f.frames[i].third \in ThirdBytes /\ f.frames[i].body \in BodyBytes
  BY <1>2
<1>6. f.junk \in Seq(Bytes) /\ f.cut \in Nat
  BY <1>1, ScannerAssumption DEF Bytes
<1>7. Len(f.junk) \in Nat
  BY <1>6
<1>8. \A i \in 1..m : f.frames[i].third \in Bytes /\ f.frames[i].body \in Bytes
  BY <1>5, ScannerAssumption DEF Bytes
<1> QED
  BY <1>1, <1>3, <1>4, <1>6, <1>7, <1>8

\* The frames lie one after the other.
LEMMA StartsRise ==
  ASSUME NEW f \in Files
  PROVE  /\ FrameStart(f, 1) = Len(f.junk)
         /\ \A i \in 1..(Len(f.frames) + 1) : FrameStart(f, i) \in Nat
         /\ \A i \in 1..Len(f.frames) :
              FrameStart(f, i + 1) = FrameStart(f, i) + MpegLength(f.frames[i].third)
         /\ \A i, j \in 1..(Len(f.frames) + 1) : i < j => FrameStart(f, i) < FrameStart(f, j)
<1> DEFINE n == Len(f.frames)
           d == [i \in 1..n |-> MpegLength(f.frames[i].third)]
           g == FrameStarts(f)
<1>1. n \in Nat /\ Len(f.junk) \in Nat
  BY FileParts
<1>2. d \in [1..n -> Nat \ {0}]
  <2>1. \A i \in 1..n : f.frames[i].third \in Bytes
    BY FileParts
  <2>2. ASSUME NEW i \in 1..n PROVE MpegLength(f.frames[i].third) \in Nat \ {0}
    <3>1. PICK b \in Bytes : b = f.frames[i].third
      BY <2>1
    <3>2. MpegLength(b) \in Nat \ {0}
      BY <3>1, MpegLengths
    <3> QED
      BY <3>1, <3>2
  <2> QED
    BY <2>2
<1>3. \E h : h = [i \in 1..(n + 1) |-> IF i = 1 THEN Len(f.junk)
                                     ELSE h[i - 1] + MpegLength(f.frames[i - 1].third)]
  <2>1. PICK h : SumsUp(h, n, Len(f.junk), d)
    BY <1>1, SumsExist
  <2>2. h = [i \in 1..(n + 1) |-> IF i = 1 THEN Len(f.junk) ELSE h[i - 1] + d[i - 1]]
    BY <2>1 DEF SumsUp
  <2>3. \A i \in 1..(n + 1) : i # 1 => d[i - 1] = MpegLength(f.frames[i - 1].third)
    BY <1>1
  <2>4. h = [i \in 1..(n + 1) |-> IF i = 1 THEN Len(f.junk)
                                 ELSE h[i - 1] + MpegLength(f.frames[i - 1].third)]
    <3> HIDE DEF d
    <3> QED
      BY <2>2, <2>3
  <2> QED
    BY <2>4
<1>4. g = [i \in 1..(n + 1) |-> IF i = 1 THEN Len(f.junk)
                              ELSE g[i - 1] + MpegLength(f.frames[i - 1].third)]
  BY <1>3, Zenon DEF FrameStarts
<1>5. SumsUp(g, n, Len(f.junk), d)
  <2>1. \A i \in 1..(n + 1) : i # 1 => d[i - 1] = MpegLength(f.frames[i - 1].third)
    BY <1>1
  <2> HIDE DEF d, g
  <2> QED
    BY <1>4, <2>1 DEF SumsUp
<1>6. \A i : FrameStart(f, i) = g[i]
  BY DEF FrameStart
<1>7. \A i \in 1..n : d[i] = MpegLength(f.frames[i].third)
  OBVIOUS
<1> HIDE DEF d, g
<1>8. /\ g[1] = Len(f.junk)
      /\ \A i \in 1..(n + 1) : g[i] \in Nat
      /\ \A i \in 1..n : g[i + 1] = g[i] + d[i]
      /\ \A i, j \in 1..(n + 1) : i < j => g[i] < g[j]
  <2> HIDE DEF n
  <2> QED
    BY <1>1, <1>2, <1>5, SumsRise
<1> QED
  BY <1>6, <1>7, <1>8

LEMMA FileSizes ==
  ASSUME NEW f \in Files
  PROVE  /\ FileSize(f) \in Nat /\ FrameStart(f, 1) <= FileSize(f)
         /\ FileSize(f) <= FrameStart(f, Len(f.frames) + 1)
<1>1. Len(f.frames) + 1 \in 1..(Len(f.frames) + 1)
  BY FileParts
<1>2. FrameStart(f, Len(f.frames) + 1) \in Nat /\ f.cut \in Nat /\ Len(f.junk) \in Nat
  BY <1>1, FileParts, StartsRise
<1> QED
  BY <1>2, FileParts, StartsRise DEF FileSize

\* Every place between the junk and the end of the file is in one frame.
LEMMA InOneFrame ==
  ASSUME NEW f \in Files, NEW p \in Nat, FrameStart(f, 1) <= p, p < FileSize(f)
  PROVE  \E j \in 1..Len(f.frames) : FrameStart(f, j) <= p /\ p < FrameStart(f, j + 1)
<1> DEFINE n == Len(f.frames)
           T == {j \in 1..(n + 1) : p < FrameStart(f, j)}
<1>1. n \in Nat /\ n + 1 \in 1..(n + 1)
  BY FileParts
<1>2. FrameStart(f, n + 1) \in Nat /\ p < FrameStart(f, n + 1)
  BY <1>1, FileSizes, StartsRise
<1>3. n + 1 \in T
  BY <1>1, <1>2
<1>4. PICK j \in T : \A k \in T : j <= k
  BY <1>3, SmallestNat, T \subseteq Nat
<1>5. FrameStart(f, 1) \in Nat
  BY <1>1, StartsRise
<1>6. j # 1
  BY <1>5
<1>7. j - 1 \in 1..n /\ j - 1 \in 1..(n + 1) /\ j - 1 + 1 = j /\ ~(j <= j - 1)
  BY <1>1, <1>6
<1>8. ~(p < FrameStart(f, j - 1)) /\ FrameStart(f, j - 1) \in Nat
  BY <1>4, <1>7, StartsRise
<1>9. p < FrameStart(f, j)
  OBVIOUS
<1> QED
  BY <1>7, <1>8, <1>9

\* The bytes of a file are bytes.
LEMMA ByteIsByte == ASSUME NEW f \in Files, NEW p \in Nat PROVE Byte(f, p) \in Bytes
<1>1. CASE p >= FileSize(f)
  BY <1>1 DEF Byte, Bytes
<1>2. CASE ~(p >= FileSize(f)) /\ p < Len(f.junk)
  <2>1. p + 1 \in 1..Len(f.junk)
    BY <1>2, FileParts
  <2>2. f.junk[p + 1] \in Bytes
    <3>1. f.junk \in Seq(Bytes)
      BY FileParts
    <3> QED
      BY <2>1, <3>1, ElementOfSeq
  <2> QED
    BY <1>2, <2>2 DEF Byte
<1>3. CASE ~(p >= FileSize(f)) /\ ~(p < Len(f.junk))
  <2> DEFINE i == CHOOSE j \in DOMAIN f.frames : FrameStart(f, j) <= p /\ p < FrameStart(f, j + 1)
             k == p - FrameStart(f, i)
  <2>1. Len(f.junk) <= p /\ p < FileSize(f)
    BY <1>3, FileParts, FileSizes
  <2>2. \E j \in DOMAIN f.frames : FrameStart(f, j) <= p /\ p < FrameStart(f, j + 1)
    BY <2>1, FileParts, StartsRise, InOneFrame
  <2>3. i \in DOMAIN f.frames
    BY <2>2
  <2>4. f.frames[i].third \in Bytes /\ f.frames[i].body \in Bytes
    BY <2>3, FileParts
  <2>5. Byte(f, p) = CASE k = 0 -> 255 [] k = 1 -> 251 [] k = 2 -> f.frames[i].third
                       [] OTHER -> f.frames[i].body
    BY <1>3 DEF Byte
  <2>6. 255 \in Bytes /\ 251 \in Bytes
    BY DEF Bytes
  <2> HIDE DEF i, k
  <2> QED
    BY <2>4, <2>5, <2>6
<1> QED
  BY <1>1, <1>2, <1>3

\* What getc() finds is not before the place where it began, nor after the end.
LEMMA NextFFStays ==
  ASSUME mp3File \in Files, NEW p \in 0..FileSize(mp3File)
  PROVE  /\ NextFF(p) \in p..FileSize(mp3File)
         /\ NextFF(p) < FileSize(mp3File) => Byte(mp3File, NextFF(p)) = 255
<1> DEFINE changes == (0..Len(mp3File.junk)) \cup
                        {FrameStart(mp3File, i) + k : i \in DOMAIN mp3File.frames, k \in 0..3}
           ffs == {q \in {p} \cup changes :
                     p <= q /\ q < FileSize(mp3File) /\ Byte(mp3File, q) = 255}
<1>1. FileSize(mp3File) \in Nat /\ Len(mp3File.junk) \in Nat
  BY FileSizes, FileParts
<1>2. \A q \in {p} \cup changes : q \in Nat
  <2>1. \A i \in DOMAIN mp3File.frames : FrameStart(mp3File, i) \in Nat
    BY FileParts, StartsRise
  <2>2. \A q \in changes : q \in Nat
    BY <1>1, <2>1
  <2>3. p \in Nat
    BY <1>1
  <2> HIDE DEF changes
  <2> QED
    BY <2>2, <2>3
<1>3. NextFF(p) = IF ffs = {} THEN FileSize(mp3File) ELSE Min(ffs)
  BY DEF NextFF
<1>4. ffs \subseteq Nat /\ \A q \in ffs : p <= q /\ q < FileSize(mp3File) /\ Byte(mp3File, q) = 255
  <2> HIDE DEF changes
  <2> QED
    BY <1>2, Zenon
<1> HIDE DEF ffs
<1>5. CASE ffs = {}
  BY <1>1, <1>3, <1>5
<1>6. CASE ffs # {}
  <2>1. Min(ffs) \in ffs
    BY <1>4, <1>6, MinOfNats
  <2>2. PICK q \in Nat : q \in ffs /\ NextFF(p) = q
    BY <1>3, <1>4, <1>6, <2>1, Zenon
  <2>3. p <= q /\ q < FileSize(mp3File) /\ Byte(mp3File, q) = 255
    BY <1>4, <2>2
  <2> QED
    BY <1>1, <2>2, <2>3
<1> QED
  BY <1>5, <1>6

LEMMA AfterStays ==
  ASSUME mp3File \in Files, NEW p \in 0..FileSize(mp3File), NEW n \in Nat
  PROVE  After(p, n) \in p..FileSize(mp3File)
  BY FileSizes DEF After

\* The frames that are found lie one after the other, before the place where the
\* file is read next, and each is as long as a frame can be.
ScanInv ==
  /\ mp3File \in Files
  /\ filePos \in 0..FileSize(mp3File)
  /\ found \in Seq(Nat \X Nat)
  /\ \A i \in 1..Len(found) : found[i][2] \in LengthsOfFrames
  /\ \A i \in 1..Len(found) :
       found[i][1] + found[i][2] <= (IF i < Len(found) THEN found[i + 1][1] ELSE filePos)

LEMMA ScanInit == ScannerInit => ScanInv
<1> SUFFICES ASSUME NEW f \in Files, OpenMp3(f) PROVE ScanInv
  BY DEF ScannerInit
<1> QED
  BY FileSizes DEF OpenMp3, ScanInv

LEMMA SyncStays ==
  ASSUME ScanInv
  PROVE  /\ Sync \in filePos..FileSize(mp3File) /\ Sync \in 0..FileSize(mp3File)
         /\ Third \in Bytes
<1>1. FileSize(mp3File) \in Nat
  BY FileSizes DEF ScanInv
<1>2. Sync \in filePos..FileSize(mp3File) /\ Sync \in 0..FileSize(mp3File)
  BY <1>1, NextFFStays DEF ScanInv, Sync
<1>3. Sync + 2 \in Nat
  BY <1>1, <1>2
<1> QED
  BY <1>2, <1>3, ByteIsByte DEF ScanInv, Third

\* Reading on does not touch what was found.
LEMMA ReadsOn ==
  ASSUME ScanInv, UNCHANGED <<mp3File, found>>, filePos' \in filePos..FileSize(mp3File)
  PROVE  ScanInv'
<1>1. FileSize(mp3File) \in Nat /\ FileSize(mp3File)' = FileSize(mp3File)
  BY FileSizes DEF ScanInv
<1>2. filePos' \in 0..FileSize(mp3File)' /\ filePos \in Nat
  BY <1>1 DEF ScanInv
<1>3. \A i \in 1..Len(found) :
        found[i][1] + found[i][2] <= (IF i < Len(found) THEN found[i + 1][1] ELSE filePos')
  <2> TAKE i \in 1..Len(found)
  <2>1. found[i][1] \in Nat /\ found[i][2] \in Nat
    BY ElementOfSeq DEF ScanInv
  <2>2. found[i][1] + found[i][2] <= (IF i < Len(found) THEN found[i + 1][1] ELSE filePos)
    BY DEF ScanInv
  <2>3. CASE i < Len(found)
    BY <2>2, <2>3
  <2>4. CASE ~(i < Len(found))
    <3>1. found[i][1] + found[i][2] <= filePos
      BY <2>2, <2>4
    <3>2. filePos \in Nat /\ filePos' \in Nat /\ filePos <= filePos'
      BY <1>1, <1>2
    <3>3. found[i][1] + found[i][2] <= filePos'
      BY <2>1, <3>1, <3>2
    <3> QED
      BY <2>4, <3>3
  <2> QED
    BY <2>3, <2>4
<1> QED
  BY <1>1, <1>2, <1>3 DEF ScanInv

LEMMA ReadFrameKeeps == ASSUME ScanInv, ReadFrame PROVE ScanInv'
<1>1. FileSize(mp3File) \in Nat /\ FileSize(mp3File)' = FileSize(mp3File)
  BY FileSizes DEF ScanInv, ReadFrame
<1>2. PICK s \in Nat, l \in LengthsOfFrames : s = Sync /\ l = FrameLength(Third)
  <2>1. FrameLength(Third) \in LengthsOfFrames
    <3>1. Third \in Bytes
      BY SyncStays
    <3>2. findFrameBitRate(Third) # 0
      BY DEF ReadFrame, IsHeader
    <3> HIDE DEF Third
    <3>3. \A b \in Bytes : findFrameBitRate(b) # 0 => FrameLength(b) \in LengthsOfFrames
      BY FrameLengths
    <3> QED
      BY <3>1, <3>2, <3>3
  <2>2. Sync \in Nat
    BY <1>1, SyncStays
  <2> QED
    BY <2>1, <2>2
<1> l \in Nat
  BY LengthsAreSmall
<1>3. /\ filePos <= s /\ s + l <= FileSize(mp3File)
      /\ found' = Append(found, <<s, l>>) /\ filePos' = s + l /\ mp3File' = mp3File
  BY <1>1, <1>2, SyncStays DEF ReadFrame, ScanInv
<1>4. /\ Len(found') = Len(found) + 1 /\ Len(found) \in Nat
      /\ \A i \in 1..Len(found) : found'[i] = found[i]
      /\ found'[Len(found) + 1] = <<s, l>> /\ found' \in Seq(Nat \X Nat)
  <2>1. <<s, l>> \in Nat \X Nat
    BY <1>2
  <2> QED
    BY <1>3, <2>1, AppendProperties DEF ScanInv
<1> DEFINE pair == <<s, l>>
<1>. pair[1] = s /\ pair[2] = l
  OBVIOUS
<1>5. \A i \in 1..Len(found') : found'[i][2] \in LengthsOfFrames
  <2> TAKE i \in 1..Len(found')
  <2>1. CASE i = Len(found) + 1
    BY <1>4, <2>1
  <2>2. CASE i \in 1..Len(found)
    <3>1. found'[i] = found[i]
      BY <1>4, <2>2
    <3>2. found[i][2] \in LengthsOfFrames
      BY <2>2 DEF ScanInv
    <3> QED
      BY <3>1, <3>2
  <2> QED
    BY <1>4, <2>1, <2>2
<1>6. \A i \in 1..Len(found') :
        found'[i][1] + found'[i][2] <= (IF i < Len(found') THEN found'[i + 1][1] ELSE filePos')
  <2> TAKE i \in 1..Len(found')
  <2>1. CASE i = Len(found) + 1
    BY <1>2, <1>3, <1>4, <2>1
  <2>2. CASE i = Len(found)
    <3>1. found[i][1] + found[i][2] <= filePos /\ found[i][1] \in Nat /\ found[i][2] \in Nat
      BY <1>4, <2>2, ElementOfSeq DEF ScanInv
    <3>2. found'[i] = found[i] /\ found'[i + 1][1] = s
      BY <1>4, <2>2
    <3> QED
      BY <1>2, <1>3, <1>4, <2>2, <3>1, <3>2 DEF ScanInv
  <2>3. CASE i < Len(found)
    <3>1. i \in 1..Len(found) /\ i + 1 \in 1..Len(found)
      <4>1. PICK n \in Nat : n = Len(found)
        BY <1>4
      <4>2. i \in Nat /\ 1 <= i /\ i < n
        BY <1>4, <2>3, <4>1
      <4>3. i \in 1..n /\ i + 1 \in 1..n
        BY <4>2
      <4> QED
        BY <4>1, <4>3
    <3>2. found[i][1] + found[i][2] <= found[i + 1][1]
      BY <2>3, <3>1 DEF ScanInv
    <3>3. found'[i] = found[i] /\ found'[i + 1] = found[i + 1]
      BY <1>4, <3>1, Zenon
    <3>4. i < Len(found')
      BY <1>4, <2>3
    <3> QED
      BY <3>2, <3>3, <3>4
  <2> QED
    BY <1>4, <2>1, <2>2, <2>3
<1>7. filePos' \in 0..FileSize(mp3File)'
  <2>1. s \in Nat /\ filePos' = s + l /\ s + l <= FileSize(mp3File)
    BY <1>2, <1>3
  <2> QED
    BY <1>1, <2>1
<1> QED
  BY <1>3, <1>4, <1>5, <1>6, <1>7 DEF ScanInv

LEMMA ScanKeeps == ScanInv /\ [ScannerNext]_scanVars => ScanInv'
<1> SUFFICES ASSUME ScanInv, [ScannerNext]_scanVars PROVE ScanInv'
  OBVIOUS
<1>1. mp3File \in Files /\ FileSize(mp3File) \in Nat /\ filePos \in 0..FileSize(mp3File)
  BY FileSizes DEF ScanInv
<1>2. ASSUME NEW n \in Nat PROVE After(Sync, n) \in filePos..FileSize(mp3File)
  <2>1. Sync \in filePos..FileSize(mp3File) /\ Sync \in 0..FileSize(mp3File)
    BY SyncStays
  <2>2. After(Sync, n) \in Sync..FileSize(mp3File)
    BY <1>1, <2>1, AfterStays
  <2> QED
    BY <1>1, <2>1, <2>2
<1>3. CASE SkipBytes
  BY <1>2, <1>3, ReadsOn DEF SkipBytes
<1>4. CASE NotAHeader
  BY <1>2, <1>4, ReadsOn DEF NotAHeader
<1>5. CASE FrameIsShort
  BY <1>1, <1>5, ReadsOn DEF FrameIsShort
<1>6. CASE ReadFrame
  BY <1>6, ReadFrameKeeps
<1>7. CASE EndOfFile
  BY <1>1, <1>7, ReadsOn DEF EndOfFile
<1>8. CASE UNCHANGED scanVars
  BY <1>1, <1>8, ReadsOn DEF scanVars
<1> QED
  BY <1>3, <1>4, <1>5, <1>6, <1>7, <1>8 DEF ScannerNext, ScannerDone

\* In any file, of any junk, frames and length, the loop at syncWordSearch passes to the
\* MP3 decoder pieces that lie inside the file and inside mp3RawBuffer and do not overlap
\* (demo/mp3_decode_encode_test.cc).
THEOREM ScannerKeepsFramesApart == ScannerSpec => []FramesAreApart
<1>1. ScanInv => FramesAreApart
  <2> SUFFICES ASSUME ScanInv PROVE FramesAreApart
    OBVIOUS
  <2>1. FileSize(mp3File) \in Nat /\ DOMAIN found = 1..Len(found)
    BY FileSizes DEF ScanInv
  <2>2. filePos <= FileSize(mp3File)
    BY <2>1 DEF ScanInv
  <2>3. ASSUME NEW i \in 1..Len(found)
        PROVE  /\ 5 <= found[i][2] /\ found[i][2] <= 4608
               /\ found[i][1] + found[i][2]
                    <= (IF i < Len(found) THEN found[i + 1][1] ELSE filePos)
    <3>1. found[i][2] \in LengthsOfFrames
      BY DEF ScanInv
    <3>2. PICK l \in LengthsOfFrames : l = found[i][2]
      BY <3>1
    <3>3. 5 <= l /\ l <= 4608
      BY <3>2, LengthsAreSmall
    <3>4. found[i][1] + found[i][2] <= (IF i < Len(found) THEN found[i + 1][1] ELSE filePos)
      BY DEF ScanInv
    <3> QED
      BY <3>2, <3>3, <3>4
  <2> QED
    BY <2>1, <2>2, <2>3 DEF FramesAreApart
<1> QED
  BY <1>1, ScanInit, ScanKeeps, PTL DEF ScannerSpec

-----------------------------------------------------------------------------
(* The search for frames: regular files. *)

LEMMA RegularFrames ==
  ASSUME NEW f \in Files, Regular(f), NEW j \in 1..Len(f.frames)
  PROVE  /\ f.frames[j].third \in Bytes /\ findFrameBitRate(f.frames[j].third) # 0
         /\ MpegLength(f.frames[j].third) = FrameLength(f.frames[j].third)
         /\ MpegLength(f.frames[j].third) \in Nat
         /\ FrameStart(f, j + 1) = FrameStart(f, j) + MpegLength(f.frames[j].third)
         /\ FrameStart(f, j) + 5 <= FrameStart(f, j + 1)
<1>1. PICK b \in Bytes : b = f.frames[j].third
  BY FileParts
<1>2. findFrameBitRate(b) # 0 /\ MpegFrequency(b) = 44100
  BY <1>1, FileParts DEF Regular
<1>3. FrameLength(b) \in LengthsOfFrames /\ MpegLength(b) = FrameLength(b)
  BY <1>1, <1>2, FrameLengths
<1>4. PICK l \in LengthsOfFrames : l = MpegLength(b)
  BY <1>3
<1>5. l \in Nat /\ 5 <= l
  BY <1>4, LengthsAreSmall
<1>6. FrameStart(f, j + 1) = FrameStart(f, j) + l
  BY <1>1, <1>4, StartsRise
<1>7. FrameStart(f, j) \in Nat
  <2>1. j \in 1..(Len(f.frames) + 1)
    BY FileParts
  <2> QED
    BY <2>1, StartsRise
<1> QED
  BY <1>1, <1>2, <1>3, <1>4, <1>5, <1>6, <1>7

\* A place inside frame j is in no other frame.
LEMMA FrameIsTheOne ==
  ASSUME NEW f \in Files, NEW j \in 1..Len(f.frames), NEW p \in Nat,
         FrameStart(f, j) <= p, p < FrameStart(f, j + 1)
  PROVE  (CHOOSE i \in DOMAIN f.frames : FrameStart(f, i) <= p /\ p < FrameStart(f, i + 1)) = j
<1> DEFINE n == Len(f.frames)
<1>1. n \in Nat /\ DOMAIN f.frames = 1..n
  BY FileParts
<1>2. ASSUME NEW i \in 1..n, FrameStart(f, i) <= p, p < FrameStart(f, i + 1) PROVE i = j
  <2>1. \A x \in 1..(n + 1) : FrameStart(f, x) \in Nat
    BY StartsRise
  <2>2. /\ i \in 1..(n + 1) /\ i + 1 \in 1..(n + 1) /\ j \in 1..(n + 1) /\ j + 1 \in 1..(n + 1)
    BY <1>1
  <2>3. CASE i < j
    <3>1. i + 1 = j \/ i + 1 < j
      BY <2>3
    <3>2. FrameStart(f, i + 1) <= FrameStart(f, j)
      BY <2>1, <2>2, <3>1, StartsRise
    <3> QED
      BY <1>2, <2>1, <2>2, <3>2
  <2>4. CASE j < i
    <3>1. j + 1 = i \/ j + 1 < i
      BY <2>4
    <3>2. FrameStart(f, j + 1) <= FrameStart(f, i)
      BY <2>1, <2>2, <3>1, StartsRise
    <3> QED
      BY <1>2, <2>1, <2>2, <3>2
  <2> QED
    BY <2>2, <2>3, <2>4
<1> QED
  BY <1>1, <1>2

LEMMA HeaderBytes ==
  ASSUME NEW f \in Files, Regular(f), NEW j \in 1..Len(f.frames), NEW k \in 0..2,
         FrameStart(f, j) + k < FileSize(f)
  PROVE  Byte(f, FrameStart(f, j) + k) = CASE k = 0 -> 255 [] k = 1 -> 251
                                           [] k = 2 -> f.frames[j].third
<1> DEFINE p == FrameStart(f, j) + k
           i == CHOOSE x \in DOMAIN f.frames : FrameStart(f, x) <= p /\ p < FrameStart(f, x + 1)
           h == p - FrameStart(f, i)
<1>1. FrameStart(f, j) \in Nat /\ FrameStart(f, 1) <= FrameStart(f, j) /\ FrameStart(f, 1) = Len(f.junk)
  <2>1. j \in 1..(Len(f.frames) + 1) /\ 1 \in 1..(Len(f.frames) + 1) /\ (j = 1 \/ 1 < j)
    BY FileParts
  <2> QED
    BY <2>1, StartsRise
<1>2. p \in Nat /\ FrameStart(f, j) <= p /\ p < FrameStart(f, j + 1)
  BY <1>1, RegularFrames
<1>3. i = j
  BY <1>2, FrameIsTheOne
<1>4. ~(p >= FileSize(f)) /\ ~(p < Len(f.junk))
  BY <1>1, <1>2, FileParts, FileSizes
<1>5. Byte(f, p) = CASE h = 0 -> 255 [] h = 1 -> 251 [] h = 2 -> f.frames[i].third
                     [] OTHER -> f.frames[i].body
  BY <1>4 DEF Byte
<1>6. h = k
  <2> HIDE DEF i
  <2> QED
    BY <1>1, <1>3
<1> HIDE DEF i, h
<1> QED
  BY <1>3, <1>5, <1>6

\* getc() stops at the first 0xFF.
LEMMA NextFFIs ==
  ASSUME mp3File \in Files, NEW p \in 0..FileSize(mp3File),
         NEW j \in 1..Len(mp3File.frames), NEW q \in Nat, q = FrameStart(mp3File, j),
         p <= q, q < FileSize(mp3File), Byte(mp3File, q) = 255,
         \A r \in Nat : p <= r /\ r < q => Byte(mp3File, r) # 255
  PROVE  NextFF(p) = q
<1> DEFINE changes == (0..Len(mp3File.junk)) \cup
                        {FrameStart(mp3File, i) + k : i \in DOMAIN mp3File.frames, k \in 0..3}
           ffs == {r \in {p} \cup changes :
                     p <= r /\ r < FileSize(mp3File) /\ Byte(mp3File, r) = 255}
<1>1. FileSize(mp3File) \in Nat /\ Len(mp3File.junk) \in Nat
  BY FileSizes, FileParts
<1>2. \A r \in {p} \cup changes : r \in Nat
  <2>1. \A i \in DOMAIN mp3File.frames : FrameStart(mp3File, i) \in Nat
    BY FileParts, StartsRise
  <2>2. \A r \in changes : r \in Nat
    BY <1>1, <2>1
  <2>3. p \in Nat
    BY <1>1
  <2> HIDE DEF changes
  <2> QED
    BY <2>2, <2>3
<1>3. NextFF(p) = IF ffs = {} THEN FileSize(mp3File) ELSE Min(ffs)
  BY DEF NextFF
<1>4. q \in changes
  <2>1. q = q + 0 /\ j \in DOMAIN mp3File.frames
    BY FileParts
  <2> QED
    BY <2>1
<1>5. q \in ffs /\ ffs \subseteq Nat
  <2> HIDE DEF changes
  <2> QED
    BY <1>2, <1>4, Zenon
<1>6. NextFF(p) \in p..FileSize(mp3File)
      /\ (NextFF(p) < FileSize(mp3File) => Byte(mp3File, NextFF(p)) = 255)
  BY NextFFStays
<1> HIDE DEF ffs
<1>7. NextFF(p) <= q
  <2>1. Min(ffs) <= q
    BY <1>5, MinOfNats
  <2> QED
    BY <1>3, <1>5, <2>1
<1>8. NextFF(p) \in Nat /\ p <= NextFF(p) /\ NextFF(p) < FileSize(mp3File)
  BY <1>1, <1>6, <1>7
<1> QED
  BY <1>6, <1>7, <1>8

LEMMA JunkHasNone ==
  ASSUME NEW f \in Files, Regular(f), NEW r \in Nat, r < FrameStart(f, 1)
  PROVE  Byte(f, r) # 255
<1>1. FrameStart(f, 1) = Len(f.junk) /\ FrameStart(f, 1) <= FileSize(f) /\ FileSize(f) \in Nat
  BY FileSizes, StartsRise
<1>2. ~(r >= FileSize(f)) /\ r < Len(f.junk) /\ r + 1 \in 1..Len(f.junk)
  BY <1>1, FileParts
<1>3. f.junk[r + 1] # 255
  <2>1. r + 1 \in DOMAIN f.junk
    BY <1>2, FileParts
  <2> QED
    BY <2>1 DEF Regular
<1> QED
  BY <1>2, <1>3 DEF Byte

\* The loop is where frame k + 1 is to be found: at its first byte, or in the junk
\* before the first frame.
AtFrame(k) == filePos = FrameStart(mp3File, k + 1) \/ (k = 0 /\ filePos <= FrameStart(mp3File, 1))

\* Frame k + 1 is not whole.
IsLast(k) == k = Len(mp3File.frames) \/ FrameStart(mp3File, k + 2) > FileSize(mp3File)

\* The first k frames have been passed to the decoder.
Passed(k) ==
  found = [i \in 1..k |-> <<FrameStart(mp3File, i), MpegLength(mp3File.frames[i].third)>>]

\* After k frames of a regular file the loop is at the next one, or has given up
\* because that one is cut off.
HasPassed(k) ==
  /\ Passed(k) /\ k <= MaxTurns /\ FrameStart(mp3File, k + 1) <= FileSize(mp3File)
  /\ scanning => k < MaxTurns /\ (AtFrame(k) \/ (filePos = FileSize(mp3File) /\ IsLast(k)))
  /\ ~scanning => k = MaxTurns \/ IsLast(k)

FindInv ==
  /\ ScanInv
  /\ Regular(mp3File) => \E k \in 0..Len(mp3File.frames) : HasPassed(k)

LEMMA SyncIsFrame ==
  ASSUME ScanInv, Regular(mp3File), NEW k \in 0..Len(mp3File.frames), AtFrame(k),
         FrameStart(mp3File, k + 1) <= FileSize(mp3File)
  PROVE  Sync = FrameStart(mp3File, k + 1)
<1> DEFINE q == FrameStart(mp3File, k + 1)
<1>1. /\ mp3File \in Files /\ FileSize(mp3File) \in Nat /\ filePos \in 0..FileSize(mp3File)
      /\ Len(mp3File.frames) \in Nat
  BY FileSizes, FileParts DEF ScanInv
<1>2. q \in Nat /\ filePos <= q /\ filePos \in Nat
  <2>1. k + 1 \in 1..(Len(mp3File.frames) + 1)
    BY <1>1
  <2> QED
    BY <1>1, <2>1, StartsRise DEF AtFrame
<1>3. ASSUME NEW r \in Nat, filePos <= r, r < q PROVE Byte(mp3File, r) # 255
  <2>1. ~(filePos = q)
    BY <1>2, <1>3
  <2>2. k = 0 /\ q = FrameStart(mp3File, 1)
    BY <2>1 DEF AtFrame
  <2> QED
    BY <1>1, <1>3, <2>2, JunkHasNone
<1>4. CASE q < FileSize(mp3File)
  <2>1. k + 1 \in 1..Len(mp3File.frames)
    <3>1. FileSize(mp3File) <= FrameStart(mp3File, Len(mp3File.frames) + 1)
      BY <1>1, FileSizes
    <3>2. ASSUME k = Len(mp3File.frames) PROVE FALSE
      BY <1>1, <1>2, <1>4, <3>1, <3>2
    <3> QED
      BY <1>1, <3>2
  <2>2. Byte(mp3File, q) = 255
    <3>1. q + 0 = q /\ 0 \in 0..2
      BY <1>2
    <3> HIDE DEF q
    <3>2. q = FrameStart(mp3File, k + 1)
      BY DEF q
    <3> QED
      BY <1>1, <1>4, <2>1, <3>1, <3>2, HeaderBytes
  <2>3. NextFF(filePos) = q
    <3> HIDE DEF q
    <3>1. q = FrameStart(mp3File, k + 1)
      BY DEF q
    <3> QED
      BY <1>1, <1>2, <1>3, <1>4, <2>1, <2>2, <3>1, NextFFIs
  <2> QED
    BY <2>3 DEF Sync
<1>5. CASE q = FileSize(mp3File)
  <2>1. Sync \in filePos..FileSize(mp3File)
        /\ (Sync < FileSize(mp3File) => Byte(mp3File, Sync) = 255)
    BY <1>1, NextFFStays DEF Sync
  <2>2. Sync \in Nat /\ filePos <= Sync /\ Sync <= q
    BY <1>1, <1>2, <1>5, <2>1
  <2>3. ASSUME Sync < q PROVE FALSE
    <3>1. Byte(mp3File, Sync) # 255
      BY <1>3, <2>2, <2>3
    <3> QED
      BY <1>5, <2>1, <2>3, <3>1
  <2> QED
    BY <1>2, <2>2, <2>3
<1> QED
  BY <1>1, <1>2, <1>4, <1>5

\* What the loop reads at the start of frame j.
LEMMA HeaderAt ==
  ASSUME ScanInv, Regular(mp3File), NEW j \in 1..Len(mp3File.frames),
         Sync = FrameStart(mp3File, j), Sync < FileSize(mp3File)
  PROVE  /\ SyncWord
         /\ IsHeader => Sync + 2 < FileSize(mp3File)
                        /\ FrameLength(Third) = MpegLength(mp3File.frames[j].third)
         /\ ~IsHeader => FileSize(mp3File) <= Sync + 2
<1>1. /\ mp3File \in Files /\ FileSize(mp3File) \in Nat /\ Sync \in Nat
  BY FileSizes, SyncStays DEF ScanInv
<1>2. SyncWord
  <2>1. CASE Sync + 1 < FileSize(mp3File)
    <3>1. Byte(mp3File, Sync + 1) = 251
      BY <1>1, <2>1, HeaderBytes
    <3> QED
      BY <3>1, LastByteIsNoHeader DEF SyncWord
  <2>2. CASE ~(Sync + 1 < FileSize(mp3File))
    <3>1. Byte(mp3File, Sync + 1) = 255
      BY <1>1, <2>2 DEF Byte
    <3> QED
      BY <3>1, LastByteIsNoHeader DEF SyncWord
  <2> QED
    BY <2>1, <2>2
<1>3. CASE Sync + 2 < FileSize(mp3File)
  <2>1. Third = mp3File.frames[j].third
    BY <1>1, <1>3, HeaderBytes DEF Third
  <2>2. /\ findFrameBitRate(Third) # 0 /\ Third \in Bytes
        /\ FrameLength(Third) = MpegLength(mp3File.frames[j].third)
    BY <1>1, <2>1, RegularFrames
  <2>3. findFrameSamplingFrequency(Third) # 0
    BY <2>2, SamplingFrequency
  <2>4. IsHeader
    BY <2>2, <2>3 DEF IsHeader
  <2> QED
    BY <1>2, <1>3, <2>2, <2>4
<1>4. CASE ~(Sync + 2 < FileSize(mp3File))
  <2>1. Third = 255
    BY <1>1, <1>4 DEF Third, Byte
  <2>2. ~IsHeader
    BY <2>1, LastByteIsNoHeader DEF IsHeader
  <2> QED
    BY <1>1, <1>2, <1>4, <2>2
<1> QED
  BY <1>3, <1>4

LEMMA FindInit == ScannerInit => FindInv
<1> SUFFICES ASSUME NEW f \in Files, OpenMp3(f) PROVE FindInv
  BY DEF ScannerInit
<1>1. ScanInv
  BY ScanInit DEF ScannerInit
<1>2. mp3File = f /\ filePos = 0 /\ scanning = TRUE /\ found = <<>>
  BY DEF OpenMp3
<1>3. FrameStart(f, 1) \in Nat /\ FrameStart(f, 1) <= FileSize(f) /\ Len(f.frames) \in Nat
  BY FileParts, FileSizes, StartsRise
<1>4. HasPassed(0)
  <2>1. Passed(0)
    BY <1>2 DEF Passed
  <2>2. AtFrame(0)
    BY <1>2, <1>3 DEF AtFrame
  <2>3. 0 < MaxTurns /\ 0 <= MaxTurns
    BY ScannerAssumption
  <2>4. FrameStart(mp3File, 0 + 1) <= FileSize(mp3File)
    BY <1>2, <1>3
  <2> QED
    BY <1>2, <2>1, <2>2, <2>3, <2>4 DEF HasPassed
<1>5. 0 \in 0..Len(mp3File.frames)
  BY <1>2, <1>3
<1> QED
  BY <1>1, <1>4, <1>5 DEF FindInv

\* The loop has given up or stands at the end, and no frame is passed.
LEMMA StaysAtEnd ==
  ASSUME ScanInv, NEW k \in 0..Len(mp3File.frames), HasPassed(k), scanning,
         UNCHANGED <<mp3File, found, scanning>>, filePos' = FileSize(mp3File), IsLast(k)
  PROVE  HasPassed(k)'
  BY DEF HasPassed, Passed, IsLast, AtFrame

\* One step of the loop at frame k + 1.
LEMMA StepAtFrame ==
  ASSUME ScanInv, Regular(mp3File), NEW k \in 0..Len(mp3File.frames), HasPassed(k), scanning,
         AtFrame(k), ~AtEnd, SkipBytes \/ NotAHeader \/ FrameIsShort \/ ReadFrame
  PROVE  \E m \in 0..Len(mp3File.frames) : HasPassed(m)'
<1> DEFINE n == Len(mp3File.frames)
           end == FileSize(mp3File)
           q == FrameStart(mp3File, k + 1)
<1>1. mp3File \in Files /\ end \in Nat /\ filePos \in 0..end /\ n \in Nat
  BY FileSizes, FileParts DEF ScanInv
<1>2. Sync = q /\ q <= end /\ q \in Nat
  <2>1. q \in Nat
    BY <1>1, StartsRise
  <2> QED
    BY <2>1, SyncIsFrame DEF HasPassed
<1>3. mp3File' = mp3File
  BY DEF SkipBytes, NotAHeader, FrameIsShort, ReadFrame
<1>4. CASE q = end
  <2>1. SkipBytes
    <3>1. ~(Sync < FileSize(mp3File))
      BY <1>1, <1>2, <1>4
    <3> QED
      BY <3>1, Zenon DEF NotAHeader, FrameIsShort, ReadFrame
  <2>2. filePos' = end /\ UNCHANGED <<mp3File, found, scanning>>
    BY <1>1, <1>2, <1>4, <2>1 DEF SkipBytes, After
  <2>3. AtFrame(k)'
    BY <1>4, <2>2 DEF AtFrame
  <2> QED
    BY <2>2, <2>3 DEF HasPassed, Passed, IsLast
<1>5. CASE q < end
  <2>1. k + 1 \in 1..n /\ k + 1 + 1 = k + 2
    <3>1. end <= FrameStart(mp3File, n + 1)
      BY <1>1, FileSizes
    <3>2. k # n
      BY <1>1, <1>2, <1>5, <3>1
    <3> QED
      BY <1>1, <3>2
  <2> DEFINE len == MpegLength(mp3File.frames[k + 1].third)
  <2>2. /\ len \in Nat
        /\ FrameStart(mp3File, k + 2) = q + len /\ q + 5 <= q + len
    BY <1>1, <2>1, RegularFrames
  <2>3. /\ SyncWord
        /\ IsHeader => q + 2 < end /\ FrameLength(Third) = len
        /\ ~IsHeader => end <= q + 2
    <3> HIDE DEF q
    <3>1. q = FrameStart(mp3File, k + 1)
      BY DEF q
    <3> QED
      BY <1>2, <1>5, <2>1, <3>1, HeaderAt
  <2> HIDE DEF len, q
  <2>4. ~SkipBytes
    <3>1. Sync # FileSize(mp3File)
      BY <1>1, <1>2, <1>5
    <3> QED
      BY <2>3, <3>1, Zenon DEF SkipBytes
  <2>5. CASE NotAHeader
    <3>1. filePos' = end /\ UNCHANGED <<mp3File, found, scanning>>
      BY <1>1, <1>2, <2>3, <2>5 DEF NotAHeader, After
    <3>2. IsLast(k)
      BY <1>1, <1>2, <2>2, <2>3, <2>5 DEF NotAHeader, IsLast
    <3> QED
      BY <3>1, <3>2, StaysAtEnd
  <2>6. CASE FrameIsShort
    <3>1. filePos' = end /\ UNCHANGED <<mp3File, found, scanning>>
      BY <2>6 DEF FrameIsShort
    <3>2. IsLast(k)
      BY <1>1, <1>2, <2>2, <2>3, <2>6 DEF FrameIsShort, IsLast
    <3> QED
      BY <3>1, <3>2, StaysAtEnd
  <2>7. CASE ReadFrame
    <3>1. /\ q + len <= end /\ found' = Append(found, <<q, len>>) /\ filePos' = q + len
          /\ scanning' = (Len(found) + 1 < MaxTurns)
      BY <1>2, <2>3, <2>7 DEF ReadFrame
    <3>2. Len(found) = k /\ \A i \in 1..k : found[i] =
                              <<FrameStart(mp3File, i), MpegLength(mp3File.frames[i].third)>>
      BY DEF HasPassed, Passed
    <3>3. Passed(k + 1)'
      <4>1. /\ found' \in Seq(Nat \X Nat) /\ Len(found') = k + 1
            /\ \A i \in 1..k : found'[i] = found[i]
            /\ found'[k + 1] = <<q, len>>
        <5>1. <<q, len>> \in Nat \X Nat
          BY <1>2, <2>2
        <5> QED
          BY <3>1, <3>2, <5>1, AppendProperties DEF ScanInv
      <4>2. DOMAIN found' = 1..(k + 1) /\ found' = [i \in 1..(k + 1) |-> found'[i]]
        BY <4>1
      <4>3. ASSUME NEW i \in 1..(k + 1)
            PROVE  found'[i] = <<FrameStart(mp3File, i), MpegLength(mp3File.frames[i].third)>>
        <5>1. i \in 1..k \/ i = k + 1
          OBVIOUS
        <5> QED
          BY <3>2, <4>1, <5>1 DEF q, len
      <4> QED
        BY <1>3, <4>2, <4>3 DEF Passed
    <3>4. AtFrame(k + 1)' /\ FrameStart(mp3File, (k + 1) + 1)' <= FileSize(mp3File)'
      BY <1>3, <2>1, <2>2, <3>1 DEF AtFrame
    <3>5. k < MaxTurns /\ MaxTurns \in Nat
      BY ScannerAssumption DEF HasPassed
    <3>6. k + 1 <= MaxTurns /\ (k + 1 < MaxTurns \/ k + 1 = MaxTurns)
      BY <1>1, <3>5
    <3>7. (scanning' => k + 1 < MaxTurns) /\ (~scanning' => k + 1 = MaxTurns)
      BY <3>1, <3>2, <3>6, Zenon
    <3>8. HasPassed(k + 1)'
      BY <3>3, <3>4, <3>6, <3>7 DEF HasPassed
    <3> QED
      BY <1>1, <2>1, <3>8
  <2> QED
    BY <2>4, <2>5, <2>6, <2>7
<1> QED
  BY <1>1, <1>2, <1>4, <1>5

LEMMA FindKeeps == FindInv /\ [ScannerNext]_scanVars => FindInv'
<1> SUFFICES ASSUME FindInv, [ScannerNext]_scanVars PROVE FindInv'
  OBVIOUS
<1>1. ScanInv /\ ScanInv'
  BY ScanKeeps DEF FindInv
<1>2. mp3File' = mp3File
  BY DEF ScannerNext, SkipBytes, NotAHeader, FrameIsShort, ReadFrame, EndOfFile, ScannerDone,
         scanVars
<1>3. ASSUME Regular(mp3File) PROVE \E m \in 0..Len(mp3File.frames) : HasPassed(m)'
  <2>1. PICK k \in 0..Len(mp3File.frames) : HasPassed(k)
    BY <1>3 DEF FindInv
  <2>2. /\ mp3File \in Files /\ FileSize(mp3File) \in Nat /\ filePos \in 0..FileSize(mp3File)
        /\ Len(mp3File.frames) \in Nat
    BY <1>1, FileSizes, FileParts DEF ScanInv
  <2>3. CASE UNCHANGED scanVars
    BY <2>1, <2>3 DEF scanVars, HasPassed, Passed, AtFrame, IsLast
  <2>4. CASE EndOfFile
    <3>1. IsLast(k)
      <4>1. filePos = FileSize(mp3File) /\ (AtFrame(k) \/ IsLast(k))
        BY <2>1, <2>2, <2>4 DEF EndOfFile, AtEnd, HasPassed
      <4>2. CASE AtFrame(k) /\ k # Len(mp3File.frames)
        <5>1. /\ k + 1 \in 1..Len(mp3File.frames) /\ k + 1 + 1 = k + 2
              /\ 1 \in 1..(Len(mp3File.frames) + 1)
              /\ k + 1 \in 1..(Len(mp3File.frames) + 1) /\ k + 2 \in 1..(Len(mp3File.frames) + 1)
          BY <2>2, <4>2
        <5>2. /\ FrameStart(mp3File, k + 1) \in Nat /\ FrameStart(mp3File, k + 2) \in Nat
              /\ FrameStart(mp3File, k + 1) < FrameStart(mp3File, k + 2)
          BY <2>2, <5>1, StartsRise
        <5>3. FileSize(mp3File) <= FrameStart(mp3File, k + 1)
          BY <2>2, <4>1, <4>2, <5>2 DEF AtFrame
        <5> QED
          BY <2>2, <5>2, <5>3 DEF IsLast
      <4> QED
        BY <4>1, <4>2 DEF IsLast
    <3>2. scanning' = FALSE /\ UNCHANGED <<mp3File, filePos, found>>
      BY <2>4 DEF EndOfFile
    <3> QED
      BY <2>1, <3>1, <3>2 DEF HasPassed, Passed, IsLast
  <2>5. CASE scanning /\ ~AtEnd /\ (SkipBytes \/ NotAHeader \/ FrameIsShort \/ ReadFrame)
    <3>1. AtFrame(k)
      BY <2>1, <2>2, <2>5 DEF HasPassed, AtEnd
    <3> QED
      BY <1>1, <1>3, <2>1, <2>5, <3>1, StepAtFrame
  <2> QED
    BY <2>3, <2>4, <2>5 DEF ScannerNext, SkipBytes, NotAHeader, FrameIsShort, ReadFrame,
                            ScannerDone
<1> QED
  BY <1>1, <1>2, <1>3 DEF FindInv, Regular

\* The whole frames of a file are its first frames.
LEMMA WholeFramesAre ==
  ASSUME NEW f \in Files
  PROVE  \E m \in 0..Len(f.frames) : WholeFrames(f) = 1..m /\ Cardinality(WholeFrames(f)) = m
<1> DEFINE n == Len(f.frames)
           T == {i \in 1..(n + 1) : i = n + 1 \/ FrameStart(f, i + 1) > FileSize(f)}
<1>1. n \in Nat /\ DOMAIN f.frames = 1..n /\ FileSize(f) \in Nat
  BY FileParts, FileSizes
<1>2. n + 1 \in T
  BY <1>1
<1>3. PICK t \in T : \A i \in T : t <= i
  BY <1>2, SmallestNat, T \subseteq Nat
<1>4. \A i \in 1..(n + 1) : FrameStart(f, i) \in Nat
  BY StartsRise
<1>5. ASSUME NEW i \in 1..n, i < t PROVE FrameStart(f, i + 1) <= FileSize(f)
  <2>1. i \notin T
    BY <1>3, <1>5
  <2>2. i + 1 \in 1..(n + 1) /\ i \in 1..(n + 1) /\ i # n + 1
    BY <1>1
  <2> QED
    BY <1>1, <1>4, <2>1, <2>2
<1>6. ASSUME NEW i \in 1..n, ~(i < t) PROVE ~(FrameStart(f, i + 1) <= FileSize(f))
  <2>1. t \in 1..n /\ t + 1 \in 1..(n + 1) /\ i + 1 \in 1..(n + 1) /\ (t = i \/ t + 1 < i + 1)
    BY <1>1, <1>6
  <2>2. FrameStart(f, t + 1) > FileSize(f)
    BY <1>1, <2>1
  <2>3. FrameStart(f, t + 1) <= FrameStart(f, i + 1)
    BY <1>4, <2>1, StartsRise
  <2> QED
    BY <1>1, <1>4, <2>1, <2>2, <2>3
<1>7. t - 1 \in 0..n /\ 1..(t - 1) \subseteq 1..n /\ \A i \in 1..n : i < t <=> i \in 1..(t - 1)
  BY <1>1
<1> HIDE DEF T
<1>8. WholeFrames(f) = 1..(t - 1)
  BY <1>1, <1>5, <1>6, <1>7 DEF WholeFrames
<1>9. Cardinality(1..(t - 1)) = t - 1
  BY <1>1, <1>7, FS_Interval
<1> QED
  BY <1>7, <1>8, <1>9

\* In every regular file, whatever its frames hold and wherever it is cut off, the loop
\* passes exactly the whole frames to the MP3 decoder, in order and each from its first
\* byte to its last (demo/mp3_decode_encode_test.cc).
THEOREM ScannerFindsAll == ScannerSpec => []FindsEveryFrame
<1>1. FindInv => FindsEveryFrame
  <2> SUFFICES ASSUME FindInv, ~scanning, Regular(mp3File) PROVE FindsEveryFrame
    BY DEF FindsEveryFrame
  <2> DEFINE n == Len(mp3File.frames)
             end == FileSize(mp3File)
  <2>1. PICK k \in 0..n : HasPassed(k)
    BY DEF FindInv
  <2>2. mp3File \in Files /\ n \in Nat /\ end \in Nat
    BY FileSizes, FileParts DEF FindInv, ScanInv
  <2>3. PICK m \in 0..n : WholeFrames(mp3File) = 1..m /\ Cardinality(WholeFrames(mp3File)) = m
    BY <2>2, WholeFramesAre
  <2>4. \A i \in 1..n : i \in 1..m <=> FrameStart(mp3File, i + 1) <= end
    BY <2>2, <2>3, FileParts DEF WholeFrames
  <2>5. k <= m
    <3>1. CASE k = 0
      BY <3>1
    <3>2. CASE k # 0
      <4>1. k \in 1..n
        BY <3>2
      <4>2. FrameStart(mp3File, k + 1) <= end
        BY <2>1 DEF HasPassed
      <4> QED
        BY <2>4, <4>1, <4>2
    <3> QED
      BY <3>1, <3>2
  <2>6. IsLast(k) => m = k
    <3> SUFFICES ASSUME IsLast(k), m # k PROVE FALSE
      OBVIOUS
    <3>1. k + 1 \in 1..m /\ k + 1 \in 1..n /\ k + 1 + 1 = k + 2 /\ k + 2 \in 1..(n + 1)
      BY <2>2, <2>5
    <3>2. FrameStart(mp3File, k + 2) <= end /\ FrameStart(mp3File, k + 2) \in Nat
      BY <2>2, <2>4, <3>1, StartsRise
    <3> QED
      BY <2>2, <3>1, <3>2 DEF IsLast
  <2>7. k <= MaxTurns /\ (k = MaxTurns \/ IsLast(k)) /\ MaxTurns \in Nat
    BY <2>1, ScannerAssumption DEF HasPassed
  <2>8. (IF m <= MaxTurns THEN m ELSE MaxTurns) = k
    BY <2>2, <2>5, <2>6, <2>7
  <2>9. Passed(k)
    BY <2>1 DEF HasPassed
  <2> HIDE DEF n, end
  <2> QED
    BY <2>3, <2>8, <2>9 DEF FindsEveryFrame, Passed
<1> QED
  BY <1>1, FindInit, FindKeeps, PTL DEF ScannerSpec

=============================================================================
