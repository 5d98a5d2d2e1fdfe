----------------------------- MODULE Player_proofs -----------------------------
(***************************************************************************)
(* The two players: the packet queue is a list, and the sound comes in the *)
(* order of the packets, for any file, any sizes and any number of         *)
(* callbacks.                                                              *)
(***************************************************************************)
EXTENDS DecodeVideo, SeqLemmas, FiniteSetTheorems

-----------------------------------------------------------------------------
(* The queue. *)

Waiting == Len(entered) - nb_packets + 1 .. Len(entered)

\* The nodes of the list are the last nb_packets packets that were put.
ListInv ==
  /\ entered \in Seq(Nat \ {0})
  /\ \A i, j \in 1..Len(entered) : i < j => entered[i] < entered[j]
  /\ nb_packets \in 0..Len(entered)
  /\ IsFiniteSet(DOMAIN next) /\ Cardinality(DOMAIN next) = nb_packets
  /\ DOMAIN next = {entered[i] : i \in Waiting}
  /\ \A i \in Waiting : next[entered[i]] = IF i = Len(entered) THEN NULL ELSE entered[i + 1]
  /\ first_pkt = IF nb_packets = 0 THEN NULL ELSE entered[Len(entered) - nb_packets + 1]
  /\ last_pkt = IF nb_packets = 0 THEN NULL ELSE entered[Len(entered)]

LEMMA ListInit == packet_queue_init => ListInv
<1> SUFFICES ASSUME packet_queue_init PROVE ListInv
  OBVIOUS
<1>1. entered = <<>> /\ Len(entered) = 0 /\ nb_packets = 0 /\ next = <<>>
      /\ first_pkt = NULL /\ last_pkt = NULL
  BY DEF packet_queue_init
<1>2. DOMAIN next = {} /\ Waiting = {}
  BY <1>1 DEF Waiting
<1>3. IsFiniteSet(DOMAIN next) /\ Cardinality(DOMAIN next) = 0
  BY <1>2, FS_EmptySet
<1>4. entered \in Seq(Nat \ {0})
  BY <1>1
<1> QED
  BY <1>1, <1>2, <1>3, <1>4 DEF ListInv

LEMMA ListPut ==
  ASSUME ListInv, NEW p \in Nat \ {0}, \A i \in 1..Len(entered) : entered[i] < p,
         NEW size, packet_queue_put(p, size)
  PROVE  ListInv'
<1> DEFINE N == Len(entered)
<1>1. /\ N \in Nat /\ N' = N + 1 /\ nb_packets' = nb_packets + 1 /\ nb_packets \in 0..N
      /\ entered' \in Seq(Nat \ {0})
      /\ \A i \in 1..N : entered'[i] = entered[i] /\ entered[i] < p /\ entered[i] \in Nat \ {0}
      /\ entered'[N + 1] = p
  BY AppendProperties, LenProperties, ElementOfSeq DEF packet_queue_put, ListInv
<1> HIDE DEF N
<1>2. Waiting = N - nb_packets + 1 .. N /\ Waiting' = Waiting \cup {N + 1}
  BY <1>1 DEF Waiting, N
<1>3. \A i, j \in 1..N' : i < j => entered'[i] < entered'[j]
  <2>1. \A i \in 1..N' : i \in 1..N \/ i = N + 1
    BY <1>1
  <2>2. \A i, j \in 1..N : i < j => entered[i] < entered[j]
    BY DEF ListInv, N
  <2> QED
    BY <1>1, <2>1, <2>2
<1>4. \A i \in Waiting : i \in 1..N
  BY <1>1, <1>2
<1>5. DOMAIN next = {entered[i] : i \in Waiting} /\ p \notin DOMAIN next
  BY <1>1, <1>4 DEF ListInv
<1>6. DOMAIN next' = DOMAIN next \cup {p}
  BY DEF packet_queue_put
<1>7. DOMAIN next' = {entered'[i] : i \in Waiting'}
  BY <1>1, <1>2, <1>4, <1>5, <1>6
<1>8. IsFiniteSet(DOMAIN next') /\ Cardinality(DOMAIN next') = nb_packets'
  <2>1. IsFiniteSet(DOMAIN next) /\ Cardinality(DOMAIN next) = nb_packets
    BY DEF ListInv
  <2>2. IsFiniteSet(DOMAIN next \cup {p})
        /\ Cardinality(DOMAIN next \cup {p}) = Cardinality(DOMAIN next) + 1
    BY <1>5, <2>1, FS_AddElement
  <2> QED
    BY <1>1, <1>6, <2>1, <2>2
<1>9. ASSUME NEW i \in Waiting'
      PROVE  next'[entered'[i]] = IF i = N' THEN NULL ELSE entered'[i + 1]
  <2>1. \A n \in DOMAIN next \cup {p} :
          next'[n] = IF n = p THEN NULL ELSE IF n = last_pkt THEN p ELSE next[n]
    BY DEF packet_queue_put
  <2>2. CASE i = N + 1
    BY <1>1, <2>1, <2>2
  <2>3. CASE i \in Waiting
    <3>1. i \in 1..N /\ entered'[i] = entered[i] /\ entered[i] \in DOMAIN next
          /\ entered[i] # p /\ nb_packets # 0
      BY <1>1, <1>2, <1>4, <1>5, <2>3
    <3>2. last_pkt = entered[N]
      BY <3>1 DEF ListInv, N
    <3>3. CASE i = N
      BY <1>1, <2>1, <3>1, <3>2, <3>3
    <3>4. CASE i # N
      <4>1. i + 1 \in 1..N /\ N \in 1..N /\ i < N
        BY <1>1, <3>1, <3>4
      <4>2. entered[i] < entered[N]
        BY <3>1, <4>1 DEF ListInv, N
      <4>3. next[entered[i]] = entered[i + 1]
        BY <2>3, <3>4 DEF ListInv, N
      <4>4. entered[i] # last_pkt
        BY <1>1, <3>1, <3>2, <4>1, <4>2
      <4> QED
        BY <1>1, <2>1, <3>1, <4>1, <4>3, <4>4
    <3> QED
      BY <3>3, <3>4
  <2> QED
    BY <1>2, <2>2, <2>3
<1>10. first_pkt' = entered'[N' - nb_packets' + 1] /\ last_pkt' = p
  <2>1. last_pkt = NULL <=> nb_packets = 0
    BY <1>1 DEF ListInv, N, NULL
  <2>2. CASE nb_packets = 0
    BY <1>1, <2>1, <2>2, SMTT(30) DEF packet_queue_put
  <2>3. CASE nb_packets # 0
    <3>1. N - nb_packets + 1 \in 1..N /\ N' - nb_packets' + 1 = N - nb_packets + 1
      BY <1>1, <2>3
    <3>2. first_pkt = entered[N - nb_packets + 1] /\ first_pkt' = first_pkt
      BY <2>1, <2>3 DEF packet_queue_put, ListInv, N
    <3> QED
      BY <1>1, <3>1, <3>2 DEF packet_queue_put
  <2> QED
    BY <2>2, <2>3
<1>11. nb_packets' \in 0..N' /\ nb_packets' # 0
  BY <1>1
<1> QED
  BY <1>1, <1>3, <1>7, <1>8, <1>9, <1>10, <1>11 DEF ListInv, N

LEMMA ListGet ==
  ASSUME ListInv, NEW size, packet_queue_get(size)
  PROVE  /\ ListInv' /\ entered' = entered
         /\ nb_packets > 0 /\ nb_packets' = nb_packets - 1
         /\ first_pkt = entered[Len(entered) - nb_packets + 1]
<1> DEFINE N == Len(entered)
           h == N - nb_packets + 1
<1>1. N \in Nat /\ \A i \in 1..N : entered[i] \in Nat \ {0}
  BY LenProperties, ElementOfSeq DEF ListInv
<1>2. /\ nb_packets # 0 /\ nb_packets \in 1..N /\ nb_packets' = nb_packets - 1
      /\ first_pkt = entered[h] /\ last_pkt = entered[N] /\ entered' = entered
  BY <1>1 DEF packet_queue_get, ListInv
<1>3. N' = N /\ h \in 1..N /\ Waiting = h..N /\ Waiting' = h + 1 .. N
  BY <1>1, <1>2 DEF Waiting
<1> HIDE DEF N, h
<1>4. \A i, j \in 1..N : i < j => entered[i] < entered[j]
  BY DEF ListInv, N
<1>5. \A i \in Waiting' : entered[i] # entered[h] /\ i \in 1..N /\ i \in Waiting
  BY <1>1, <1>3, <1>4
<1>6. DOMAIN next = {entered[i] : i \in Waiting} /\ DOMAIN next' = DOMAIN next \ {entered[h]}
  BY <1>2 DEF ListInv, packet_queue_get
<1>7. DOMAIN next' = {entered'[i] : i \in Waiting'}
  <2>1. \A i \in Waiting : i = h \/ i \in Waiting'
    BY <1>1, <1>3
  <2> QED
    BY <1>2, <1>5, <1>6, <2>1
<1>8. IsFiniteSet(DOMAIN next') /\ Cardinality(DOMAIN next') = nb_packets'
  <2>1. IsFiniteSet(DOMAIN next) /\ Cardinality(DOMAIN next) = nb_packets
    BY DEF ListInv
  <2>2. entered[h] \in DOMAIN next
    BY <1>1, <1>3, <1>6
  <2>3. IsFiniteSet(DOMAIN next \ {entered[h]})
        /\ Cardinality(DOMAIN next \ {entered[h]}) = Cardinality(DOMAIN next) - 1
    BY <2>1, <2>2, FS_RemoveElement
  <2> QED
    BY <1>2, <1>6, <2>1, <2>3
<1>9. \A i \in Waiting' :
        next'[entered'[i]] = IF i = N' THEN NULL ELSE entered'[i + 1]
  <2>1. \A n \in DOMAIN next \ {entered[h]} : next'[n] = next[n]
    BY <1>2 DEF packet_queue_get
  <2>2. \A i \in Waiting : next[entered[i]] = IF i = N THEN NULL ELSE entered[i + 1]
    BY DEF ListInv, N
  <2>3. \A i \in Waiting' : entered[i] \in DOMAIN next \ {entered[h]}
    BY <1>5, <1>6
  <2> QED
    BY <1>2, <1>3, <1>5, <2>1, <2>2, <2>3
<1>10. next[first_pkt] = IF h = N THEN NULL ELSE entered[h + 1]
  <2>1. h \in Waiting
    BY <1>1, <1>3
  <2> QED
    BY <1>2, <2>1 DEF ListInv, N
<1>11. first_pkt' = (IF nb_packets' = 0 THEN NULL ELSE entered'[N' - nb_packets' + 1])
       /\ last_pkt' = (IF nb_packets' = 0 THEN NULL ELSE entered'[N'])
  <2>1. h = N <=> nb_packets' = 0
    BY <1>1, <1>2 DEF h
  <2>2. N' - nb_packets' + 1 = h + 1
    BY <1>1, <1>2, <1>3 DEF h
  <2>3. h # N => entered[h + 1] # NULL
    BY <1>1, <1>3 DEF NULL
  <2> QED
    BY <1>2, <1>3, <1>10, <2>1, <2>2, <2>3 DEF packet_queue_get
<1>12. ListInv'
  BY <1>2, <1>3, <1>4, <1>7, <1>8, <1>9, <1>11 DEF ListInv, N
<1> QED
  BY <1>1, <1>2, <1>12 DEF N, h

\* The invariant says, in terms of places, what QueueIsList says in terms of the list.
LEMMA ListIsQueue == ListInv => QueueIsList
<1> SUFFICES ASSUME ListInv PROVE QueueIsList
  OBVIOUS
<1> DEFINE N == Len(entered)
           q == InQueue
<1>1. N \in Nat /\ nb_packets \in 0..N /\ \A i \in 1..N : entered[i] \in Nat
  BY LenProperties, ElementOfSeq DEF ListInv
<1>2. /\ q \in Seq(Nat) /\ Len(q) = nb_packets
      /\ \A i \in 1..nb_packets : q[i] = entered[N - nb_packets + i]
  <2>1. q = SubSeq(entered, N - nb_packets + 1, N)
    BY DEF InQueue, ListInv
  <2>2. \A i \in N - nb_packets + 1 .. N : entered[i] \in Nat
    BY <1>1
  <2> HIDE DEF q, N
  <2>3. /\ q \in Seq(Nat)
        /\ Len(q) = IF N - nb_packets + 1 <= N THEN N - (N - nb_packets + 1) + 1 ELSE 0
        /\ \A i \in 1 .. N - (N - nb_packets + 1) + 1 :
             q[i] = entered[N - nb_packets + 1 + i - 1]
    BY <1>1, <2>1, <2>2, SubSeqProperties
  <2>4. \A i \in 1..nb_packets :
          i \in 1 .. N - (N - nb_packets + 1) + 1 /\ N - nb_packets + 1 + i - 1 = N - nb_packets + i
    BY <1>1
  <2> QED
    BY <1>1, <2>3, <2>4
<1>3. DOMAIN q = 1..nb_packets /\ (q = <<>> <=> nb_packets = 0)
  BY <1>2, LenProperties, EmptySeq
<1> HIDE DEF q, N
<1>4. Waiting = N - nb_packets + 1 .. N
  BY DEF Waiting, N
<1>5. {q[i] : i \in 1..nb_packets} = DOMAIN next
  <2>1. DOMAIN next = {entered[j] : j \in Waiting}
    BY DEF ListInv
  <2>2. \A i \in 1..nb_packets : N - nb_packets + i \in Waiting
    BY <1>1, <1>4
  <2>3. \A j \in Waiting : j - N + nb_packets \in 1..nb_packets
                           /\ N - nb_packets + (j - N + nb_packets) = j
    BY <1>1, <1>4
  <2> QED
    BY <1>2, <2>1, <2>2, <2>3
<1>6. ASSUME NEW i \in 1..nb_packets
      PROVE  next[q[i]] = IF i = nb_packets THEN NULL ELSE q[i + 1]
  <2>1. N - nb_packets + i \in Waiting /\ (N - nb_packets + i = N <=> i = nb_packets)
    BY <1>1, <1>4
  <2>2. next[q[i]] = IF i = nb_packets THEN NULL ELSE entered[N - nb_packets + i + 1]
    BY <1>2, <2>1 DEF ListInv, N
  <2>3. i # nb_packets => i + 1 \in 1..nb_packets /\ N - nb_packets + i + 1 = N - nb_packets + (i + 1)
    BY <1>1
  <2> QED
    BY <1>2, <2>2, <2>3
<1>7. nb_packets # 0 => first_pkt = q[1] /\ last_pkt = q[nb_packets]
  <2>1. nb_packets # 0 => 1 \in 1..nb_packets /\ nb_packets \in 1..nb_packets
                          /\ N - nb_packets + nb_packets = N
    BY <1>1
  <2> QED
    BY <1>2, <2>1 DEF ListInv, N
<1>8. nb_packets = 0 => first_pkt = NULL /\ last_pkt = NULL
  BY DEF ListInv
<1> QED
  BY <1>2, <1>3, <1>5, <1>6, <1>7, <1>8 DEF QueueIsList, q

-----------------------------------------------------------------------------
(* The sound. *)

Unit == Nat \X Nat

\* SoundOf, with the file as a parameter.
SoundIn(file, p) ==
  CASE file[p].quality \in {"good", "short", "late", "many"} ->
         [k \in 1..(CASE file[p].quality = "short" -> ShortLen
                     [] file[p].quality = "many" -> ManyLen
                     [] OTHER -> FrameLen) |-> IF k <= FrameLen THEN <<p, k>> ELSE Leftover]
    [] file[p].quality = "broken" -> [k \in 1..SilenceLen |-> Silence]
    [] OTHER -> <<>>

\* The sounds of the packets taken from the queue, and the same in one piece.
Sounds ==
  LET takenOnes == SubSeq(entered, 1, Len(entered) - nb_packets)
  IN [i \in DOMAIN takenOnes |-> SoundOf(takenOnes[i])]

Due == FlattenSeq(Sounds)

\* What audio_buf holds and the callbacks have not accounted for.
Pending == [k \in 1..(audio_buf_size - audio_buf_index) |-> audio_buf[audio_buf_index + k - 1]]

SoundTypeOK ==
  /\ apc \in {"idle", "loop", "get", "decode", "mix", "crashed"}
  /\ current \in Nat
  /\ len \in 0..CallbackLen
  /\ audio_buf \in [BufUnits -> Unit]
  /\ audio_buf_size \in 0..ManyLen
  /\ audio_buf_index \in 0..audio_buf_size
  /\ played \in Seq(Unit)

\* The sound of the packets taken is what is accounted for, then what is pending in
\* audio_buf or, while a packet is decoded, what it will give.
SoundInv ==
  /\ SoundTypeOK
  /\ apc \in {"get", "decode"} => audio_buf_index = audio_buf_size
  /\ apc \in {"decode", "crashed"} => played \o SoundIn(media, current) = Due
  /\ apc \notin {"decode", "crashed"} => played \o Pending = Due

LEMMA SoundOfType ==
  ASSUME NEW p \in Nat
  PROVE  /\ SoundOf(p) \in Seq(Unit) /\ SoundOf(p) = SoundIn(media, p)
         /\ Sound(p) \in Seq(Unit) /\ Len(Sound(p)) \in 1..ManyLen
<1>1. Sound(p) \in Seq(Unit) /\ Len(Sound(p)) \in 1..ManyLen
  <2> DEFINE n == CASE media[p].quality = "short" -> ShortLen
                  [] media[p].quality = "many" -> ManyLen
                  [] OTHER -> FrameLen
  <2>1. n \in 1..ManyLen
    BY AudioOutAssumption
  <2> HIDE DEF n
  <2> DEFINE u(k) == IF k <= FrameLen THEN <<p, k>> ELSE Leftover
  <2>2. \A k \in 1..n : u(k) \in Unit
    BY <2>1 DEF Unit, Leftover
  <2>4. Sound(p) = [k \in 1..n |-> u(k)]
    BY DEF Sound, n
  <2> HIDE DEF u
  <2>3. [k \in 1..n |-> u(k)] \in Seq(Unit) /\ Len([k \in 1..n |-> u(k)]) = n
    BY <2>1, <2>2
  <2> QED
    BY <2>1, <2>3, <2>4
<1>2. [k \in 1..SilenceLen |-> Silence] \in Seq(Unit)
  BY AudioOutAssumption DEF Silence, Unit
<1>3. <<>> \in Seq(Unit)
  OBVIOUS
<1>5. SoundOf(p) = SoundIn(media, p)
  BY DEF SoundOf, Sound, SoundIn
<1> HIDE DEF Unit
<1>4. SoundOf(p) \in Seq(Unit)
  BY <1>1, <1>2, <1>3 DEF SoundOf
<1> QED
  BY <1>1, <1>4, <1>5

SoundsOK ==
  /\ Sounds \in Seq(Seq(Unit))
  /\ Len(Sounds) = Len(entered) - nb_packets
  /\ \A i \in 1..(Len(entered) - nb_packets) : Sounds[i] = SoundIn(media, entered[i])

LEMMA SoundsType == ListInv => SoundsOK
<1> SUFFICES ASSUME ListInv
             PROVE  /\ Sounds \in Seq(Seq(Unit))
                    /\ Len(Sounds) = Len(entered) - nb_packets
                    /\ \A i \in 1..(Len(entered) - nb_packets) :
                         Sounds[i] = SoundIn(media, entered[i])
  BY DEF SoundsOK
<1> DEFINE n == Len(entered) - nb_packets
           q == SubSeq(entered, 1, n)
<1>1. n \in Nat /\ n <= Len(entered) /\ \A i \in 1..n : entered[i] \in Nat
  BY LenProperties, ElementOfSeq DEF ListInv
<1> HIDE DEF n
<1>2. q \in Seq(Nat) /\ Len(q) = n /\ \A i \in 1..n : q[i] = entered[i]
  <2>1. /\ q \in Seq(Nat) /\ Len(q) = IF 1 <= n THEN n - 1 + 1 ELSE 0
        /\ \A i \in 1..(n - 1 + 1) : q[i] = entered[1 + i - 1]
    BY <1>1, SubSeqProperties
  <2>2. \A i \in 1..n : i \in 1..(n - 1 + 1) /\ 1 + i - 1 = i
    BY <1>1
  <2> QED
    BY <1>1, <2>1, <2>2
<1>3. DOMAIN q = 1..n
  BY <1>2, LenProperties
<1>4. Sounds = [i \in DOMAIN q |-> SoundOf(q[i])]
  BY DEF Sounds, n
<1> HIDE DEF q
<1>5. Sounds = [i \in 1..n |-> SoundOf(q[i])]
  BY <1>3, <1>4
<1>6. \A i \in 1..n : SoundOf(q[i]) \in Seq(Unit) /\ SoundOf(q[i]) = SoundIn(media, entered[i])
  BY <1>1, <1>2, SoundOfType
<1>7. Sounds \in Seq(Seq(Unit)) /\ Len(Sounds) = n
  BY <1>1, <1>5, <1>6
<1>8. \A i \in 1..n : Sounds[i] = SoundIn(media, entered[i])
  BY <1>5, <1>6
<1> QED
  BY <1>7, <1>8 DEF n

LEMMA DueType == ASSUME ListInv PROVE Due \in Seq(Unit)
<1>1. Sounds \in Seq(Seq(Unit)) /\ <<>> \in Seq(Unit)
  BY SoundsType DEF SoundsOK
<1> QED
  BY <1>1, FlattenAppend DEF Due

PendingOK == Pending \in Seq(Unit) /\ Len(Pending) = audio_buf_size - audio_buf_index

LEMMA PendingType == SoundTypeOK => PendingOK
<1> SUFFICES ASSUME SoundTypeOK PROVE PendingOK
  OBVIOUS
<1> DEFINE n == audio_buf_size - audio_buf_index
<1>1. /\ n \in Nat
      /\ \A k \in 1..n : audio_buf_index + k - 1 \in BufUnits
      /\ \A b \in BufUnits : audio_buf[b] \in Unit
  BY AudioOutAssumption DEF SoundTypeOK, BufUnits
<1> HIDE DEF n
<1>2. \A k \in 1..n : audio_buf[audio_buf_index + k - 1] \in Unit
  BY <1>1
<1>3. Pending = [k \in 1..n |-> audio_buf[audio_buf_index + k - 1]]
  BY DEF Pending, n
<1>4. [k \in 1..n |-> audio_buf[audio_buf_index + k - 1]] \in Seq(Unit)
      /\ Len([k \in 1..n |-> audio_buf[audio_buf_index + k - 1]]) = n
  BY <1>1, <1>2
<1>5. Pending \in Seq(Unit) /\ Len(Pending) = n
  BY <1>3, <1>4
<1> QED
  BY <1>5 DEF n, PendingOK

\* A packet is put: none more is taken.
LEMMA SoundsKept ==
  ASSUME ListInv, ListInv', media' = media,
         Len(entered') - nb_packets' = Len(entered) - nb_packets,
         \A i \in 1..(Len(entered) - nb_packets) : entered'[i] = entered[i]
  PROVE  Due' = Due
<1>1. /\ Sounds \in Seq(Seq(Unit)) /\ Len(Sounds) = Len(entered) - nb_packets
      /\ \A i \in 1..(Len(entered) - nb_packets) : Sounds[i] = SoundIn(media, entered[i])
  BY SoundsType DEF SoundsOK
<1>2. /\ Sounds' \in Seq(Seq(Unit)) /\ Len(Sounds') = Len(entered') - nb_packets'
      /\ \A i \in 1..(Len(entered') - nb_packets') : Sounds'[i] = SoundIn(media', entered'[i])
  <2>1. SoundsOK'
    BY SoundsType, PTL
  <2> QED
    BY <2>1 DEF SoundsOK
<1>3. Sounds' = Sounds
  BY <1>1, <1>2, SeqEqual
<1> QED
  BY <1>3 DEF Due

\* The first packet is taken.
LEMMA SoundsTake ==
  ASSUME ListInv, ListInv', media' = media, entered' = entered,
         nb_packets > 0, nb_packets' = nb_packets - 1
  PROVE  Due' = Due \o SoundIn(media, entered[Len(entered) - nb_packets + 1])
<1> DEFINE n == Len(entered) - nb_packets
           x == SoundIn(media, entered[n + 1])
<1>1. /\ Sounds \in Seq(Seq(Unit)) /\ Len(Sounds) = n
      /\ \A i \in 1..n : Sounds[i] = SoundIn(media, entered[i])
  BY SoundsType DEF SoundsOK
<1>2. /\ Sounds' \in Seq(Seq(Unit)) /\ Len(Sounds') = Len(entered') - nb_packets'
      /\ \A i \in 1..(Len(entered') - nb_packets') : Sounds'[i] = SoundIn(media', entered'[i])
  <2>1. SoundsOK'
    BY SoundsType, PTL
  <2> QED
    BY <2>1 DEF SoundsOK
<1>3. n \in Nat /\ Len(entered') - nb_packets' = n + 1 /\ n + 1 \in 1..Len(entered)
  BY LenProperties DEF ListInv
<1>4. x \in Seq(Unit)
  <2>1. entered[n + 1] \in Nat
    BY <1>3, ElementOfSeq DEF ListInv
  <2> QED
    BY <2>1, SoundOfType
<1> HIDE DEF n
<1>5. Sounds' = Append(Sounds, x)
  <2>1. /\ Append(Sounds, x) \in Seq(Seq(Unit)) /\ Len(Append(Sounds, x)) = n + 1
        /\ Append(Sounds, x)[n + 1] = x
        /\ \A i \in 1..n : Append(Sounds, x)[i] = Sounds[i]
    BY <1>1, <1>4, AppendProperties
  <2>2. Len(Sounds') = n + 1 /\ Sounds' \in Seq(Seq(Unit))
        /\ \A i \in 1..(n + 1) : Sounds'[i] = SoundIn(media, entered[i])
    BY <1>2, <1>3
  <2>3. \A i \in 1..(n + 1) : i \in 1..n \/ i = n + 1
    BY <1>3
  <2>4. \A i \in 1..(n + 1) : Sounds'[i] = Append(Sounds, x)[i]
    BY <1>1, <2>1, <2>2, <2>3
  <2> QED
    BY <2>1, <2>2, <2>4, SeqEqual
<1> HIDE DEF x
<1>6. FlattenSeq(Sounds') = FlattenSeq(Sounds) \o x
  BY <1>1, <1>4, <1>5, FlattenAppend
<1> QED
  BY <1>6 DEF Due, x, n

\* The sound a frame brings is pending, whole.
LEMMA ReturnsSound ==
  ASSUME SoundTypeOK, NEW s \in Seq(Unit), Len(s) \in 0..ManyLen, Returns(s, Len(s))
  PROVE  SoundTypeOK' /\ Pending' = s /\ apc' = "mix"
<1>1. /\ UNCHANGED <<current, len, played>> /\ apc' = "mix"
      /\ audio_buf_size' = Len(s) /\ audio_buf_index' = 0
      /\ audio_buf' = [i \in BufUnits |-> IF i < Len(s) THEN s[i + 1] ELSE audio_buf[i]]
  BY DEF Returns
<1>2. \A k \in 1..Len(s) : k - 1 \in BufUnits /\ k - 1 < Len(s) /\ s[k] \in Unit
  BY AudioOutAssumption, ElementOfSeq DEF BufUnits
<1>3. \A i \in BufUnits : i < Len(s) => i + 1 \in 1..Len(s)
  BY DEF BufUnits
<1>4. \A i \in BufUnits : audio_buf[i] \in Unit
  BY DEF SoundTypeOK
<1>5. audio_buf' \in [BufUnits -> Unit]
  BY <1>1, <1>2, <1>3, <1>4
<1>6. SoundTypeOK'
  BY <1>1, <1>5 DEF SoundTypeOK
<1>7. Pending' \in Seq(Unit) /\ Len(Pending') = Len(s)
  <2>1. Pending' \in Seq(Unit) /\ Len(Pending') = audio_buf_size' - audio_buf_index'
    <3>1. PendingOK'
      BY <1>6, PendingType, PTL
    <3> QED
      BY <3>1 DEF PendingOK
  <2> QED
    BY <1>1, <2>1
<1>8. \A k \in 1..Len(s) : Pending'[k] = s[k]
  <2>1. Pending' = [k \in 1..(Len(s) - 0) |-> audio_buf'[0 + k - 1]]
    BY <1>1 DEF Pending
  <2>2. \A k \in 1..Len(s) : k \in 1..(Len(s) - 0) /\ 0 + k - 1 = k - 1
    OBVIOUS
  <2>3. \A k \in 1..Len(s) : audio_buf'[k - 1] = s[k]
    BY <1>1, <1>2
  <2> QED
    BY <2>1, <2>2, <2>3
<1> QED
  BY <1>1, <1>6, <1>7, <1>8, SeqEqual

\* A callback accounts for the first n units of what is pending.
LEMMA MixSound ==
  ASSUME SoundTypeOK, CallbackMix
  PROVE  SoundTypeOK' /\ played' \o Pending' = played \o Pending /\ apc' = "loop"
<1> DEFINE n == Len1
           a == [k \in 1..n |-> audio_buf[audio_buf_index + k - 1]]
           m == audio_buf_size - audio_buf_index
<1>1. /\ apc' = "loop" /\ UNCHANGED <<current, audio_buf, audio_buf_size>>
      /\ len' = len - n /\ audio_buf_index' = audio_buf_index + n
      /\ played' = played \o a
  BY DEF CallbackMix
<1>2. n \in 0..len /\ n \in 0..m /\ m \in Nat
  BY AudioOutAssumption DEF SoundTypeOK, Len1
<1>3. /\ \A k \in 1..m : audio_buf_index + k - 1 \in BufUnits
      /\ \A b \in BufUnits : audio_buf[b] \in Unit
  BY AudioOutAssumption DEF SoundTypeOK, BufUnits
<1>4. Pending \in Seq(Unit) /\ Len(Pending) = m
  BY PendingType DEF PendingOK, m
<1>5. Pending = [k \in 1..m |-> audio_buf[audio_buf_index + k - 1]]
  BY DEF Pending
<1> HIDE DEF n, m
<1>6. a \in Seq(Unit) /\ Len(a) = n
  <2>1. \A k \in 1..n : audio_buf[audio_buf_index + k - 1] \in Unit
    BY <1>2, <1>3
  <2> QED
    BY <1>2, <2>1
<1>7. played' \in Seq(Unit)
  BY <1>1, <1>6, ConcatProperties DEF SoundTypeOK
<1>8. SoundTypeOK'
  <2>1. len' \in 0..CallbackLen /\ audio_buf_index' \in 0..audio_buf_size'
    BY <1>1, <1>2, AudioOutAssumption DEF SoundTypeOK, m
  <2> QED
    BY <1>1, <1>7, <2>1 DEF SoundTypeOK
<1>9. Pending' \in Seq(Unit) /\ Len(Pending') = m - n
  <2>1. Pending' \in Seq(Unit) /\ Len(Pending') = audio_buf_size' - audio_buf_index'
    <3>1. PendingOK'
      BY <1>8, PendingType, PTL
    <3> QED
      BY <3>1 DEF PendingOK
  <2> QED
    BY <1>1, <1>2, <2>1 DEF m, SoundTypeOK
<1>10. \A k \in 1..(m - n) : Pending'[k] = Pending[n + k]
  <2>1. Pending' = [k \in 1..(m - n) |-> audio_buf[(audio_buf_index + n) + k - 1]]
    <3>1. audio_buf_size' - audio_buf_index' = m - n
      BY <1>1, <1>2 DEF m, SoundTypeOK
    <3> QED
      BY <1>1, <3>1 DEF Pending
  <2>2. \A k \in 1..(m - n) : n + k \in 1..m
          /\ (audio_buf_index + n) + k - 1 = audio_buf_index + (n + k) - 1
    BY <1>2 DEF SoundTypeOK
  <2> QED
    BY <1>5, <2>1, <2>2
<1>11. a \o Pending' = Pending
  <2> HIDE DEF a
  <2>1. /\ a \o Pending' \in Seq(Unit) /\ Len(a \o Pending') = n + (m - n)
        /\ \A i \in 1..(n + (m - n)) :
             (a \o Pending')[i] = IF i <= n THEN a[i] ELSE Pending'[i - n]
    <3>1. /\ a \o Pending' \in Seq(Unit) /\ Len(a \o Pending') = Len(a) + Len(Pending')
          /\ \A i \in 1..(Len(a) + Len(Pending')) :
               (a \o Pending')[i] = IF i <= Len(a) THEN a[i] ELSE Pending'[i - Len(a)]
      BY <1>6, <1>9, ConcatProperties
    <3> QED
      BY <1>6, <1>9, <3>1
  <2>2. ASSUME NEW i \in 1..m PROVE (a \o Pending')[i] = Pending[i]
    <3>1. i \in 1..(n + (m - n))
      BY <1>2
    <3>2. CASE i <= n
      <4>1. i \in 1..n
        BY <1>2, <3>2
      <4>2. a[i] = audio_buf[audio_buf_index + i - 1]
        BY <4>1 DEF a
      <4> QED
        BY <1>5, <2>1, <3>1, <3>2, <4>2
    <3>3. CASE ~(i <= n)
      <4>1. i - n \in 1..(m - n) /\ n + (i - n) = i
        BY <1>2, <3>3
      <4> QED
        BY <1>10, <2>1, <3>1, <3>3, <4>1
    <3> QED
      BY <3>2, <3>3
  <2>3. n + (m - n) = m
    BY <1>2
  <2> QED
    BY <1>4, <2>1, <2>2, <2>3, SeqEqual
<1> HIDE DEF a
<1>12. played \in Seq(Unit)
  BY DEF SoundTypeOK
<1>13. (played \o a) \o Pending' = played \o (a \o Pending')
  <2>1. PICK s, t, u : s = played /\ t = a /\ u = Pending'
    OBVIOUS
  <2>2. s \in Seq(Unit) /\ t \in Seq(Unit) /\ u \in Seq(Unit)
    BY <1>6, <1>9, <1>12, <2>1
  <2>3. (s \o t) \o u = s \o (t \o u)
    BY <2>2, ConcatAssociative
  <2> QED
    BY <2>1, <2>3
<1>14. played' \o Pending' = played \o Pending
  BY <1>1, <1>11, <1>13, Zenon
<1> QED
  BY <1>1, <1>8, <1>14, Zenon

-----------------------------------------------------------------------------
(* The steps of the audio thread. *)

LEMMA SoundInit == AudioInit => SoundInv
<1> SUFFICES ASSUME AudioInit PROVE SoundInv
  OBVIOUS
<1>1. ListInv
  BY ListInit DEF AudioInit
<1>2. SoundTypeOK
  <2>1. audio_buf \in [BufUnits -> Unit]
    BY DEF AudioInit, Silence, Unit
  <2>2. ManyLen \in Nat /\ CallbackLen \in Nat
    BY AudioOutAssumption
  <2> QED
    BY <2>1, <2>2 DEF AudioInit, SoundTypeOK
<1>3. Pending = <<>>
  <2>1. Pending \in Seq(Unit) /\ Len(Pending) = 0
    BY <1>2, PendingType DEF PendingOK, AudioInit
  <2> QED
    BY <2>1, EmptySeq
<1>4. Due = <<>>
  <2>1. Sounds \in Seq(Seq(Unit)) /\ Len(Sounds) = 0
    <3>1. Len(entered) - nb_packets = 0
      BY DEF AudioInit, packet_queue_init
    <3> QED
      BY <1>1, <3>1, SoundsType DEF SoundsOK
  <2>2. Sounds = <<>>
    BY <2>1, EmptySeq
  <2>3. <<>> \in Seq(Seq(Unit)) /\ <<>> \in Seq(Unit)
    OBVIOUS
  <2> QED
    BY <2>2, <2>3, FlattenAppend DEF Due
<1> QED
  BY <1>2, <1>3, <1>4 DEF SoundInv, AudioInit

\* What neither takes a packet nor sound.
LEMMA SoundSame ==
  ASSUME SoundInv, Due' = Due, media' = media,
         UNCHANGED <<current, audio_buf, audio_buf_size, audio_buf_index, played>>,
         len' \in 0..CallbackLen,
         \/ apc' = apc
         \/ apc' \in {"idle", "loop"} /\ apc \notin {"decode", "crashed"}
         \/ apc' = "get" /\ apc \notin {"decode", "crashed"} /\ audio_buf_index >= audio_buf_size
         \/ apc = "decode" /\ apc' = "crashed"
  PROVE  SoundInv'
<1>1. SoundTypeOK'
  BY DEF SoundInv, SoundTypeOK
<1>2. Pending' = Pending
  BY DEF Pending
<1>3. audio_buf_index >= audio_buf_size => audio_buf_index = audio_buf_size
  BY DEF SoundInv, SoundTypeOK
<1> QED
  BY <1>1, <1>2, <1>3 DEF SoundInv

LEMMA AudioThreadStep ==
  ASSUME ListInv, SoundInv, AudioThread, media' = media
  PROVE  ListInv' /\ SoundInv' /\ entered' = entered
<1>1. CASE \/ audio_callback \/ DecodeAgain \/ DecodeFrame \/ DecodeCrashes
           \/ DecodeNothing \/ DecodeFails
  <2>0. UNCHANGED queueVars
    BY <1>1
    DEF audio_callback, CallbackStart, CallbackMix, CallbackEnd, DecodeAgain, DecodeFrame,
        DecodeCrashes, DecodeNothing, DecodeFails, Returns
  <2>1. ListInv' /\ entered' = entered /\ nb_packets' = nb_packets
    BY <2>0 DEF ListInv, Waiting, queueVars
  <2>2. Due' = Due
    BY <2>1, SoundsKept
  <2>3. CASE CallbackStart \/ CallbackEnd \/ DecodeAgain \/ DecodeCrashes
    <3>1. UNCHANGED <<current, audio_buf, audio_buf_size, audio_buf_index, played>>
          /\ len' \in 0..CallbackLen
      BY <2>3, AudioOutAssumption
      DEF CallbackStart, CallbackEnd, DecodeAgain, DecodeCrashes, SoundInv, SoundTypeOK
    <3>2. \/ apc' = apc
          \/ apc' \in {"idle", "loop"} /\ apc \notin {"decode", "crashed"}
          \/ apc = "decode" /\ apc' = "crashed"
      BY <2>3 DEF CallbackStart, CallbackEnd, DecodeAgain, DecodeCrashes
    <3> QED
      BY <2>1, <2>2, <3>1, <3>2, SoundSame
  <2>4. ASSUME NEW s \in Seq(Unit), Len(s) \in 0..ManyLen, Returns(s, Len(s)),
               apc = "decode", SoundIn(media, current) = s
        PROVE  SoundInv'
    <3>1. SoundTypeOK' /\ Pending' = s /\ apc' = "mix" /\ played' = played
      BY <2>4, ReturnsSound DEF SoundInv, Returns
    <3>2. played' \o Pending' = Due'
      BY <2>2, <2>4, <3>1 DEF SoundInv
    <3> QED
      BY <3>1, <3>2 DEF SoundInv
  <2>5. CASE DecodeFrame
    <3>1. Sound(current) \in Seq(Unit) /\ Len(Sound(current)) \in 1..ManyLen
      BY SoundOfType DEF SoundInv, SoundTypeOK
    <3>2. SoundIn(media, current) = Sound(current)
      BY <2>5 DEF DecodeFrame, SoundIn, Sound, quality
    <3> QED
      BY <2>1, <2>4, <2>5, <3>1, <3>2 DEF DecodeFrame
  <2>6. CASE DecodeNothing
    <3>1. SoundIn(media, current) = <<>> /\ <<>> \in Seq(Unit) /\ Len(<<>>) = 0
      BY <2>6 DEF DecodeNothing, SoundIn, quality
    <3>2. 0 \in 0..ManyLen
      BY AudioOutAssumption
    <3> QED
      BY <2>1, <2>4, <2>6, <3>1, <3>2 DEF DecodeNothing
  <2>7. CASE DecodeFails
    <3> DEFINE s == [k \in 1..SilenceLen |-> Silence]
    <3>1. Silence \in Unit /\ SilenceLen \in 1..ManyLen /\ SilenceLen \in Nat
      BY AudioOutAssumption DEF Silence, Unit
    <3>2. s \in Seq(Unit) /\ Len(s) = SilenceLen
      BY <3>1
    <3>3. SoundIn(media, current) = s
      BY <2>7 DEF DecodeFails, SoundIn, quality
    <3>4. Returns(s, Len(s)) /\ Len(s) \in 0..ManyLen
      BY <2>7, <3>1, AudioOutAssumption, <3>2 DEF DecodeFails
    <3> HIDE DEF s
    <3> QED
      BY <2>1, <2>4, <2>7, <3>2, <3>3, <3>4 DEF DecodeFails
  <2>8. CASE CallbackMix
    <3>1. SoundTypeOK' /\ played' \o Pending' = played \o Pending /\ apc' = "loop"
      BY <2>8, MixSound DEF SoundInv
    <3>2. apc \notin {"decode", "crashed"}
      BY <2>8 DEF CallbackMix
    <3>3. played' \o Pending' = Due'
      BY <2>2, <3>1, <3>2 DEF SoundInv
    <3> QED
      BY <2>1, <3>1, <3>3 DEF SoundInv
  <2> QED
    BY <1>1, <2>1, <2>3, <2>5, <2>6, <2>7, <2>8 DEF audio_callback
<1>2. CASE GetPacket
  <2>1. (Needs \/ apc = "get") /\ apc \notin {"decode", "crashed"} /\ audio_buf_index = audio_buf_size
        /\ UNCHANGED <<len, audio_buf, audio_buf_size, audio_buf_index, played>>
    BY <1>2 DEF GetPacket, Needs, SoundInv, SoundTypeOK
  <2>2. CASE packet_queue_wait /\ apc' = "get" /\ UNCHANGED <<current, try_again>>
    <3>1. ListInv' /\ entered' = entered /\ nb_packets' = nb_packets
      BY <2>2 DEF packet_queue_wait, ListInv, Waiting
    <3>2. Due' = Due
      BY <3>1, SoundsKept
    <3>3. len' \in 0..CallbackLen /\ audio_buf_index >= audio_buf_size
      BY <2>1 DEF SoundInv, SoundTypeOK
    <3> QED
      BY <2>1, <2>2, <3>1, <3>2, <3>3, SoundSame
  <2>3. CASE packet_queue_get(PacketSize(first_pkt)) /\ current' = first_pkt /\ apc' = "decode"
    <3>1. /\ ListInv' /\ entered' = entered
          /\ nb_packets > 0 /\ nb_packets' = nb_packets - 1
          /\ first_pkt = entered[Len(entered) - nb_packets + 1]
      BY <2>3, ListGet
    <3>2. Due' = Due \o SoundIn(media, first_pkt)
      BY <3>1, SoundsTake
    <3>3. Pending = <<>>
      <4>1. Pending \in Seq(Unit) /\ Len(Pending) = 0
        BY <2>1, PendingType DEF PendingOK, SoundInv, SoundTypeOK
      <4> QED
        BY <4>1, EmptySeq
    <3>4. played = Due
      <4>1. played \in Seq(Unit) /\ played \o Pending = Due
        BY <2>1 DEF SoundInv, SoundTypeOK
      <4> QED
        BY <3>3, <4>1, ConcatEmptySeq
    <3>5. first_pkt \in Nat
      <4>1. Len(entered) - nb_packets + 1 \in 1..Len(entered)
        BY <3>1, LenProperties DEF ListInv
      <4> QED
        BY <3>1, <4>1, ElementOfSeq DEF ListInv
    <3>6. SoundTypeOK'
      BY <2>1, <2>3, <3>5 DEF SoundInv, SoundTypeOK
    <3> QED
      BY <2>1, <2>3, <3>1, <3>2, <3>4, <3>6 DEF SoundInv
  <2> QED
    BY <1>2, <2>2, <2>3 DEF GetPacket
<1> QED
  BY <1>1, <1>2 DEF AudioThread, audio_decode_frame

\* What is accounted for is the beginning of what is due.
LEMMA SoundIsInOrder == ListInv /\ SoundInv => PlaysInOrder
<1> SUFFICES ASSUME ListInv, SoundInv PROVE PlaysInOrder
  OBVIOUS
<1>1. played \in Seq(Unit) /\ Due \in Seq(Unit)
  BY DueType DEF SoundInv, SoundTypeOK
<1>2. \E rest \in Seq(Unit) : played \o rest = Due
  <2>1. SoundIn(media, current) \in Seq(Unit)
    BY SoundOfType DEF SoundInv, SoundTypeOK
  <2>2. Pending \in Seq(Unit)
    BY PendingType DEF PendingOK, SoundInv
  <2> QED
    BY <2>1, <2>2 DEF SoundInv
<1>3. PICK rest \in Seq(Unit) : played \o rest = Due
  BY <1>2
<1>4. /\ Len(played) \in Nat /\ Len(rest) \in Nat
      /\ Len(Due) = Len(played) + Len(rest)
      /\ \A i \in 1..Len(played) : Due[i] = played[i]
  BY <1>1, <1>3, ConcatProperties, LenProperties
<1>5. SubSeq(Due, 1, Len(played)) = played
  <2> DEFINE n == Len(played)
             s == SubSeq(Due, 1, n)
  <2>1. \A i \in 1..n : Due[i] \in Unit
    BY <1>1, <1>4, ElementOfSeq
  <2> HIDE DEF n
  <2>2. n \in Nat
    BY <1>4 DEF n
  <2>3. /\ s \in Seq(Unit) /\ Len(s) = IF 1 <= n THEN n - 1 + 1 ELSE 0
        /\ \A i \in 1..(n - 1 + 1) : s[i] = Due[1 + i - 1]
    BY <2>1, <2>2, SubSeqProperties
  <2>4. Len(s) = n /\ \A i \in 1..n : s[i] = Due[i]
    <3>1. \A i \in 1..n : i \in 1..(n - 1 + 1) /\ 1 + i - 1 = i
      BY <2>2
    <3> QED
      BY <2>2, <2>3, <3>1
  <2> HIDE DEF s
  <2>5. s = played
    BY <1>1, <1>4, <2>3, <2>4, SeqEqual DEF n
  <2> QED
    BY <2>5 DEF s, n
<1>6. Len(played) <= Len(Due) /\ played = SubSeq(Due, 1, Len(played))
  BY <1>4, <1>5
<1> QED
  BY <1>6 DEF PlaysInOrder, Due, Sounds

-----------------------------------------------------------------------------
(* The two programs. *)

\* Packets are put in the order in which they are read, of a file that is chosen
\* before the first one.
PlayerInv ==
  /\ ListInv /\ SoundInv
  /\ Len(media) \in Nat
  /\ readPos \in 0..Len(media)
  /\ \A i \in 1..Len(entered) : entered[i] <= readPos
  /\ mpc = "start" => entered = <<>> /\ readPos = 0 /\ apc = "idle" /\ device = "closed"

LEMMA PlayerInvInit == PlayerInit => PlayerInv
  BY SoundInit, ListInit DEF PlayerInit, PlayerAt, AudioInit, packet_queue_init, PlayerInv

\* Steps of main() and of the clock that leave the queue and the sound alone.
LEMMA MainRests ==
  ASSUME PlayerInv, UNCHANGED <<media, threadVars, queueVars>>,
         readPos' \in readPos..Len(media),
         mpc' = "start" => mpc = "start" /\ readPos' = readPos /\ device' = device
  PROVE  PlayerInv'
<1>1. ListInv' /\ entered' = entered /\ nb_packets' = nb_packets
  BY DEF PlayerInv, ListInv, Waiting, queueVars
<1>2. Due' = Due
  BY <1>1, SoundsKept DEF PlayerInv
<1>3. SoundInv'
  <2>1. len' \in 0..CallbackLen /\ SoundInv
    BY DEF threadVars, PlayerInv, SoundInv, SoundTypeOK
  <2> QED
    BY <1>2, <2>1, SoundSame DEF threadVars
<1>4. \A i \in 1..Len(entered) : entered[i] \in Nat
  BY ElementOfSeq DEF PlayerInv, ListInv
<1> QED
  BY <1>1, <1>3, <1>4 DEF PlayerInv, threadVars

\* A packet is put, or lost.
LEMMA MainPuts ==
  ASSUME PlayerInv, Reading, NEW size,
         packet_queue_put(readPos + 1, size) \/ packet_queue_put_fails,
         readPos' = readPos + 1, UNCHANGED <<media, threadVars>>,
         mpc' # "start", mpc # "start"
  PROVE  PlayerInv'
<1>1. readPos \in Nat /\ readPos' \in readPos..Len(media)
  BY DEF PlayerInv, Reading
<1>2. CASE packet_queue_put_fails
  BY <1>1, <1>2, MainRests DEF packet_queue_put_fails
<1>3. CASE packet_queue_put(readPos + 1, size)
  <2>1. /\ \A i \in 1..Len(entered) : entered[i] \in Nat /\ entered[i] <= readPos
        /\ Len(entered) \in Nat
    BY ElementOfSeq, LenProperties DEF PlayerInv, ListInv
  <2>2. ListInv'
    <3>1. readPos + 1 \in Nat \ {0} /\ \A i \in 1..Len(entered) : entered[i] < readPos + 1
      BY <1>1, <2>1
    <3> QED
      BY <1>3, <3>1, ListPut DEF PlayerInv
  <2>3. /\ Len(entered') = Len(entered) + 1 /\ nb_packets' = nb_packets + 1
        /\ \A i \in 1..Len(entered) : entered'[i] = entered[i]
        /\ entered'[Len(entered) + 1] = readPos + 1
    BY <1>1, <1>3, AppendProperties DEF packet_queue_put, PlayerInv, ListInv
  <2>4. Due' = Due
    <3>1. /\ Len(entered') - nb_packets' = Len(entered) - nb_packets
          /\ \A i \in 1..(Len(entered) - nb_packets) : entered'[i] = entered[i]
      BY <2>1, <2>3 DEF PlayerInv, ListInv
    <3> QED
      BY <2>2, <3>1, SoundsKept DEF PlayerInv
  <2>5. SoundInv'
    <3>1. len' \in 0..CallbackLen /\ SoundInv
      BY DEF threadVars, PlayerInv, SoundInv, SoundTypeOK
    <3> QED
      BY <2>4, <3>1, SoundSame DEF threadVars
  <2>6. \A i \in 1..Len(entered') : entered'[i] <= readPos'
    <3>1. \A i \in 1..Len(entered') : i \in 1..Len(entered) \/ i = Len(entered) + 1
      BY <2>1, <2>3
    <3> QED
      BY <1>1, <2>1, <2>3, <3>1
  <2> QED
    BY <1>1, <2>2, <2>5, <2>6 DEF PlayerInv
<1> QED
  BY <1>2, <1>3

\* The file is opened: no packet has been put.
LEMMA MainOpens ==
  ASSUME PlayerInv, mpc = "start", media' \in Media, readPos' = readPos,
         UNCHANGED <<threadVars, queueVars>>, mpc' # "start"
  PROVE  PlayerInv'
<1>1. ListInv' /\ entered' = entered /\ nb_packets' = nb_packets /\ entered = <<>>
  BY DEF PlayerInv, ListInv, Waiting, queueVars
<1>2. Len(media') \in Nat
  BY AudioOutAssumption, LenProperties
<1>3. Due' = Due
  <2>1. Len(entered) - nb_packets = 0
    BY <1>1 DEF PlayerInv, ListInv
  <2>2. Sounds \in Seq(Seq(Unit)) /\ Len(Sounds) = 0
    BY <2>1, SoundsType DEF SoundsOK, PlayerInv
  <2>3. Sounds' \in Seq(Seq(Unit)) /\ Len(Sounds') = 0
    <3>1. SoundsOK'
      BY <1>1, SoundsType, PTL
    <3> QED
      BY <1>1, <2>1, <3>1 DEF SoundsOK
  <2>4. Sounds = <<>> /\ Sounds' = <<>>
    BY <2>2, <2>3, EmptySeq
  <2> QED
    BY <2>4 DEF Due
<1>4. SoundInv'
  <2>1. SoundTypeOK' /\ Pending' = Pending
    BY DEF threadVars, PlayerInv, SoundInv, SoundTypeOK, Pending
  <2>2. apc = "idle" /\ apc' = apc /\ played' = played
    BY DEF threadVars, PlayerInv
  <2> QED
    BY <1>3, <2>1, <2>2 DEF PlayerInv, SoundInv
<1>5. readPos' \in 0..Len(media')
  BY <1>2 DEF PlayerInv
<1> QED
  BY <1>1, <1>2, <1>4, <1>5 DEF PlayerInv

LEMMA AudioSteps ==
  ASSUME PlayerInv, AudioThread, UNCHANGED mainVars PROVE PlayerInv'
<1>1. UNCHANGED <<media, readPos, mpc>>
  BY DEF mainVars
<1>2. ListInv' /\ SoundInv' /\ entered' = entered
  BY <1>1, AudioThreadStep DEF PlayerInv
<1>3. mpc # "start"
  BY DEF PlayerInv, AudioThread, audio_callback, audio_decode_frame, CallbackStart,
         CallbackMix, CallbackEnd, GetPacket, Needs, DecodeAgain, DecodeFrame,
         DecodeCrashes, DecodeNothing, DecodeFails
<1> QED
  BY <1>1, <1>2, <1>3 DEF PlayerInv

LEMMA PlayerKeeps == PlayerInv /\ [PlayerNext]_playerVars => PlayerInv'
<1> SUFFICES ASSUME PlayerInv, [PlayerNext]_playerVars PROVE PlayerInv'
  OBVIOUS
<1>1. readPos \in Nat /\ readPos \in readPos..Len(media)
  BY DEF PlayerInv
<1>2. CASE OpenPlayer
  BY <1>2, MainOpens DEF OpenPlayer, SDL2AudioOutInit
<1>3. CASE ReadAudio
  <2>1. \E size : packet_queue_put(readPos + 1, size) \/ packet_queue_put_fails
    BY <1>3 DEF ReadAudio, SDL2AudioPushPacket
  <2> QED
    BY <1>3, <2>1, MainPuts DEF ReadAudio, Reading, audioVars
<1>4. CASE ReadVideo \/ ReadOther
  <2>1. readPos' \in readPos..Len(media) /\ mpc' = "poll"
    BY <1>1, <1>4 DEF ReadVideo, ReadOther, Reading, PlayerInv
  <2> QED
    BY <1>4, <2>1, MainRests DEF ReadVideo, ReadOther, audioVars
<1>5. CASE \/ OpenFails \/ SDL2DisplayInit \/ Pace \/ PollNothing \/ PollQuit \/ Exit
           \/ CloseInput \/ SDL2DisplayDestory \/ Clock
  <2>1. UNCHANGED <<media, readPos, threadVars, queueVars>> /\ mpc' # "start"
    BY <1>5
    DEF OpenFails, SDL2DisplayInit, Pace, PollNothing, PollQuit, Exit, CloseInput,
        SDL2DisplayDestory, Clock, audioVars
  <2> QED
    BY <1>1, <2>1, MainRests
<1>6. CASE Audio
  BY <1>6, AudioSteps DEF Audio
<1>7. CASE UNCHANGED playerVars
  BY <1>1, <1>7, MainRests DEF playerVars, mainVars, audioVars
<1> QED
  BY <1>2, <1>3, <1>4, <1>5, <1>6, <1>7 DEF PlayerNext, Main

LEMMA DvKeeps == PlayerInv /\ [DvMain \/ DvAudio \/ Clock]_playerVars => PlayerInv'
<1> SUFFICES ASSUME PlayerInv, [DvMain \/ DvAudio \/ Clock]_playerVars PROVE PlayerInv'
  OBVIOUS
<1>1. readPos \in Nat /\ readPos \in readPos..Len(media)
  BY DEF PlayerInv
<1>2. CASE DvOpenAudio
  BY <1>2, MainOpens DEF DvOpenAudio
<1>3. CASE DvReadAudio
  <2>1. \E size : packet_queue_put(readPos + 1, size) \/ packet_queue_put_fails
    BY <1>3 DEF DvReadAudio, DvPut
  <2> QED
    BY <1>3, <2>1, MainPuts DEF DvReadAudio, Reading, audioVars
<1>4. CASE DvReadVideo \/ DvReadOther
  <2>1. readPos' \in readPos..Len(media) /\ mpc' = "poll"
    BY <1>1, <1>4 DEF DvReadVideo, DvReadOther, ReadOther, Reading, PlayerInv
  <2> QED
    BY <1>4, <2>1, MainRests DEF DvReadVideo, DvReadOther, ReadOther, audioVars
<1>5. CASE \/ DvOpenFails \/ DvVideoFails \/ DvOpenVideo \/ DvPace \/ DvPoll \/ DvClose
           \/ DvReturn \/ Clock
  <2>1. UNCHANGED <<media, readPos, threadVars, queueVars>> /\ mpc' # "start"
    BY <1>5
    DEF DvOpenFails, DvVideoFails, DvOpenVideo, DvPace, DvPoll, PollNothing, PollQuit,
        Exit, DvClose, DvReturn, Clock, audioVars
  <2> QED
    BY <1>1, <2>1, MainRests
<1>6. CASE DvAudio
  BY <1>6, AudioSteps DEF DvAudio, DvCallback, DvDecodeFrame, AudioThread
<1>7. CASE UNCHANGED playerVars
  BY <1>1, <1>7, MainRests DEF playerVars, mainVars, audioVars
<1> QED
  BY <1>2, <1>3, <1>4, <1>5, <1>6, <1>7 DEF DvMain

-----------------------------------------------------------------------------

\* In both players, whatever the file and however the threads take turns, the linked
\* list is the queue of the packets put and not yet taken.
THEOREM QueueStaysList ==
  (PlayerSpec => []QueueIsList) /\ (DvSpec => []QueueIsList)
<1>1. PlayerInv => QueueIsList
  BY ListIsQueue DEF PlayerInv
<1>2. PlayerSpec => []QueueIsList
  BY <1>1, PlayerInvInit, PlayerKeeps, PTL DEF PlayerSpec
<1>3. DvSpec => []QueueIsList
  BY <1>1, PlayerInvInit, DvKeeps, PTL DEF DvSpec
<1> QED
  BY <1>2, <1>3

\* In both players the sound that callbacks account for is what audio_decode_frame()
\* returned for the packets, in the order in which they were put and every unit once,
\* packets of several frames included, for any length of the callbacks, the frames and
\* the file.
THEOREM SoundStaysInOrder ==
  (PlayerSpec => []PlaysInOrder) /\ (DvSpec => []PlaysInOrder)
<1>1. PlayerInv => PlaysInOrder
  BY SoundIsInOrder DEF PlayerInv
<1>2. PlayerSpec => []PlaysInOrder
  BY <1>1, PlayerInvInit, PlayerKeeps, PTL DEF PlayerSpec
<1>3. DvSpec => []PlaysInOrder
  BY <1>1, PlayerInvInit, DvKeeps, PTL DEF DvSpec
<1> QED
  BY <1>2, <1>3

=============================================================================
