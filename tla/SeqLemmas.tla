------------------------------- MODULE SeqLemmas -------------------------------
(***************************************************************************)
(* Facts about sequences that the proofs about the examples share.  The    *)
(* induction theorems of the library take a predicate as a parameter; the  *)
(* inductions here are arguments about a smallest number instead.          *)
(***************************************************************************)
EXTENDS Integers, SequencesExt, SequenceTheorems, WellFoundedInduction, TLAPS

\* A set of natural numbers that has an element has a smallest one.
LEMMA SmallestNat ==
  ASSUME NEW T, T \subseteq Nat, T # {}
  PROVE  \E x \in T : \A y \in T : x <= y
<1>1. PICK x \in T : \A y \in T : ~(<<y, x>> \in OpToRel(<, Nat))
  BY NatLessThanWellFounded, WFMin
<1>2. \A y \in T : ~(y < x)
  BY <1>1 DEF OpToRel
<1>3. \A y \in T : x <= y
  BY <1>2
<1> QED
  BY <1>3

-----------------------------------------------------------------------------
(* FlattenSeq: it is empty at first, and a sequence more goes to its end. *)

\* f[i] is the concatenation of the first i sequences of s, up to the n-th.
Flattens(f, n, s) ==
  f = [i \in 1..n |-> IF i = 1 THEN s[i] ELSE f[i - 1] \o s[i]]

LEMMA FlattensType ==
  ASSUME NEW S, NEW s \in Seq(Seq(S)), NEW n \in 0..Len(s), NEW f, Flattens(f, n, s)
  PROVE  \A i \in 1..n : f[i] \in Seq(S)
<1> DEFINE T == {i \in 1..n : f[i] \notin Seq(S)}
<1> SUFFICES ASSUME T # {} PROVE FALSE
  OBVIOUS
<1>1. PICK i \in T : \A j \in T : i <= j
  BY SmallestNat, T \subseteq Nat
<1>2. i \in 1..n /\ n <= Len(s) /\ s[i] \in Seq(S)
  BY ElementOfSeq
<1>3. f[i] = IF i = 1 THEN s[i] ELSE f[i - 1] \o s[i]
  BY <1>2 DEF Flattens
<1>4. CASE i # 1
  <2>1. i - 1 \in 1..n /\ ~(i <= i - 1)
    BY <1>2, <1>4
  <2>2. f[i - 1] \in Seq(S)
    BY <1>1, <2>1
  <2>3. PICK q, r : q = f[i - 1] /\ r = s[i]
    OBVIOUS
  <2>4. q \in Seq(S) /\ r \in Seq(S)
    BY <1>2, <2>2, <2>3
  <2>5. q \o r \in Seq(S)
    BY <2>4, ConcatProperties
  <2>6. f[i] = q \o r
    BY <1>3, <1>4, <2>3
  <2> QED
    BY <2>5, <2>6
<1> QED
  BY <1>2, <1>3, <1>4

LEMMA FlattensUnique ==
  ASSUME NEW n \in Nat, NEW s, NEW f, NEW g, Flattens(f, n, s), Flattens(g, n, s)
  PROVE  f = g
<1> DEFINE T == {i \in 1..n : f[i] # g[i]}
<1>1. CASE T # {}
  <2>1. PICK i \in T : \A j \in T : i <= j
    BY <1>1, SmallestNat, T \subseteq Nat
  <2>2. /\ f[i] = IF i = 1 THEN s[i] ELSE f[i - 1] \o s[i]
        /\ g[i] = IF i = 1 THEN s[i] ELSE g[i - 1] \o s[i]
    BY <2>1 DEF Flattens
  <2>3. CASE i # 1
    <3>1. i - 1 \in 1..n /\ ~(i <= i - 1)
      BY <2>1, <2>3
    <3>2. f[i - 1] = g[i - 1]
      BY <2>1, <3>1
    <3> QED
      BY <2>1, <2>2, <2>3, <3>2
  <2> QED
    BY <2>1, <2>2, <2>3
<1>2. CASE T = {}
  <2> DEFINE F == [i \in 1..n |-> f[i]]
             G == [i \in 1..n |-> g[i]]
  <2>1. f = F /\ g = G
    BY DEF Flattens
  <2>2. F = G
    BY <1>2
  <2> HIDE DEF F, G
  <2> QED
    BY <2>1, <2>2
<1> QED
  BY <1>1, <1>2

\* One sequence more.
LEMMA FlattensNext ==
  ASSUME NEW n \in Nat, NEW s, NEW f, Flattens(f, n, s)
  PROVE  Flattens([i \in 1..(n + 1) |->
                     IF i \in 1..n THEN f[i]
                     ELSE IF n = 0 THEN s[1] ELSE f[n] \o s[n + 1]], n + 1, s)
<1> DEFINE g == [i \in 1..(n + 1) |->
                   IF i \in 1..n THEN f[i]
                   ELSE IF n = 0 THEN s[1] ELSE f[n] \o s[n + 1]]
           h == [i \in 1..(n + 1) |-> IF i = 1 THEN s[i] ELSE g[i - 1] \o s[i]]
<1>1. ASSUME NEW i \in 1..(n + 1) PROVE g[i] = h[i]
  <2>1. CASE i \in 1..n
    <3>1. f[i] = IF i = 1 THEN s[i] ELSE f[i - 1] \o s[i]
      BY <2>1 DEF Flattens
    <3>2. i # 1 => g[i - 1] = f[i - 1]
      BY <2>1
    <3> QED
      BY <2>1, <3>1, <3>2
  <2>2. CASE i = n + 1 /\ n # 0
    <3>1. n \in 1..n /\ n + 1 \notin 1..n /\ i - 1 = n /\ i # 1
      BY <2>2
    <3>2. n \in 1..(n + 1) /\ n + 1 \in 1..(n + 1) /\ n # 0
      BY <2>2
    <3> HIDE DEF h
    <3>3. g[n] = f[n]
      BY <3>1, <3>2
    <3>4. g[n + 1] = f[n] \o s[n + 1]
      BY <3>1, <3>2
    <3>5. h[i] = g[i - 1] \o s[i]
      BY <3>1 DEF h
    <3> QED
      BY <2>2, <3>1, <3>3, <3>4, <3>5
  <2>3. CASE i = n + 1 /\ n = 0
    BY <2>3
  <2> QED
    BY <2>1, <2>2, <2>3
<1>2. g = h
  BY <1>1
<1> QED
  BY <1>2 DEF Flattens

LEMMA FlattensExists ==
  ASSUME NEW s, NEW n \in Nat PROVE \E f : Flattens(f, n, s)
<1> DEFINE T == {m \in Nat : ~\E f : Flattens(f, m, s)}
<1> SUFFICES ASSUME T # {} PROVE FALSE
  OBVIOUS
<1>1. PICK m \in T : \A j \in T : m <= j
  BY SmallestNat, T \subseteq Nat
<1>2. CASE m = 0
  <2>1. <<>> = [i \in 1..0 |-> IF i = 1 THEN s[i] ELSE <<>>[i - 1] \o s[i]]
    OBVIOUS
  <2>2. Flattens(<<>>, 0, s)
    BY <2>1 DEF Flattens
  <2> QED
    BY <1>2, <2>2
<1>3. CASE m # 0
  <2>1. m - 1 \in Nat /\ ~(m <= m - 1) /\ (m - 1) + 1 = m
    BY <1>3
  <2>2. PICK f : Flattens(f, m - 1, s)
    BY <1>1, <2>1
  <2>3. \E g : Flattens(g, (m - 1) + 1, s)
    BY <2>1, <2>2, FlattensNext
  <2> QED
    BY <2>1, <2>3
<1> QED
  BY <1>2, <1>3

LEMMA FlattensIs ==
  ASSUME NEW s, Len(s) \in Nat \ {0}, NEW f, Flattens(f, Len(s), s)
  PROVE  FlattenSeq(s) = f[Len(s)]
<1>1. \A g : Flattens(g, Len(s), s) => g = f
  BY FlattensUnique
<1>2. Len(s) # 0
  OBVIOUS
<1> QED
  BY <1>1, <1>2 DEF FlattenSeq, Flattens

LEMMA FlattenAppend ==
  ASSUME NEW S, NEW s \in Seq(Seq(S)), NEW x \in Seq(S)
  PROVE  /\ FlattenSeq(<<>>) = <<>>
         /\ FlattenSeq(s) \in Seq(S)
         /\ FlattenSeq(Append(s, x)) = FlattenSeq(s) \o x
<1> DEFINE n == Len(s)
           r == Append(s, x)
<1>1. n \in Nat /\ Len(r) = n + 1 /\ r \in Seq(Seq(S)) /\ r[n + 1] = x
      /\ \A i \in 1..n : r[i] = s[i]
  BY AppendProperties, LenProperties
<1>2. FlattenSeq(<<>>) = <<>>
  BY DEF FlattenSeq
<1>3. PICK f : Flattens(f, n, s)
  BY <1>1, FlattensExists
<1>4. n # 0 => FlattenSeq(s) = f[n] /\ f[n] \in Seq(S)
  <2>1. ASSUME n # 0 PROVE FlattenSeq(s) = f[n]
    BY <1>1, <1>3, <2>1, FlattensIs
  <2>2. ASSUME n # 0 PROVE f[n] \in Seq(S)
    <3>1. n \in 0..Len(s) /\ n \in 1..n
      BY <1>1, <2>2
    <3> HIDE DEF n
    <3>2. \A i \in 1..n : f[i] \in Seq(S)
      BY <1>3, <3>1, FlattensType
    <3> QED
      BY <3>1, <3>2
  <2> QED
    BY <2>1, <2>2
<1>5. n = 0 => s = <<>>
  BY <1>1, EmptySeq
<1>6. Flattens(f, n, r)
  <2>1. [i \in 1..n |-> IF i = 1 THEN s[i] ELSE f[i - 1] \o s[i]]
          = [i \in 1..n |-> IF i = 1 THEN r[i] ELSE f[i - 1] \o r[i]]
    BY <1>1
  <2> QED
    BY <1>3, <2>1 DEF Flattens
<1> DEFINE g == [i \in 1..(n + 1) |->
                   IF i \in 1..n THEN f[i]
                   ELSE IF n = 0 THEN r[1] ELSE f[n] \o r[n + 1]]
<1>7. Flattens(g, n + 1, r)
  BY <1>1, <1>6, FlattensNext
<1>8. FlattenSeq(r) = g[n + 1]
  <2> HIDE DEF g, n, r
  <2>1. Len(r) \in Nat \ {0} /\ Flattens(g, Len(r), r)
    BY <1>1, <1>7
  <2>2. FlattenSeq(r) = g[Len(r)]
    BY <2>1, FlattensIs
  <2> QED
    BY <1>1, <2>2
<1>9. g[n + 1] = IF n = 0 THEN r[1] ELSE f[n] \o x
  BY <1>1
<1>10. CASE n = 0
  <2>1. FlattenSeq(s) = <<>> /\ r[1] = x
    BY <1>1, <1>2, <1>5, <1>10
  <2> QED
    BY <1>2, <1>8, <1>9, <1>10, <2>1, EmptySeq, ConcatEmptySeq
<1>11. CASE n # 0
  <2> HIDE DEF g, n, r
  <2>1. FlattenSeq(r) = FlattenSeq(s) \o x
    BY <1>4, <1>8, <1>9, <1>11
  <2> QED
    BY <1>2, <1>4, <1>11, <2>1 DEF r
<1> QED
  BY <1>10, <1>11

-----------------------------------------------------------------------------
(* Queues. *)

\* Taking the head off what follows a sequence, to its end.
LEMMA MoveHead ==
  ASSUME NEW S, NEW s \in Seq(S), NEW t \in Seq(S), t # <<>>
  PROVE  Append(s, Head(t)) \o Tail(t) = s \o t
<1>1. /\ Head(t) \in S /\ Tail(t) \in Seq(S) /\ t = <<Head(t)>> \o Tail(t)
  <2>1. Len(t) \in Nat \ {0} /\ Head(t) \in S /\ Tail(t) \in Seq(S)
    BY EmptySeq, HeadTailProperties
  <2>2. Head(t) = t[1] /\ Tail(t) = SubSeq(t, 2, Len(t)) /\ SubSeq(t, 1, Len(t)) = t
    BY <2>1, TailIsSubSeq, SubSeqFull
  <2>3. SubSeq(t, 1, Len(t)) = <<t[1]>> \o SubSeq(t, 1 + 1, Len(t))
    BY <2>1, SubSeqRecursiveFirst
  <2> QED
    BY <2>1, <2>2, <2>3
<1>2. Append(s, Head(t)) = s \o <<Head(t)>> /\ <<Head(t)>> \in Seq(S)
  BY <1>1, AppendIsConcat
<1>3. (s \o <<Head(t)>>) \o Tail(t) = s \o (<<Head(t)>> \o Tail(t))
  BY <1>1, <1>2, ConcatAssociative
<1> QED
  BY <1>1, <1>2, <1>3

LEMMA AppendRight ==
  ASSUME NEW S, NEW s \in Seq(S), NEW t \in Seq(S), NEW x \in S
  PROVE  s \o Append(t, x) = Append(s \o t, x)
<1>1. <<x>> \in Seq(S) /\ Append(t, x) = t \o <<x>> /\ s \o t \in Seq(S)
  BY AppendIsConcat, ConcatProperties
<1>2. Append(s \o t, x) = (s \o t) \o <<x>>
  BY <1>1, AppendIsConcat
<1>3. (s \o t) \o <<x>> = s \o (t \o <<x>>)
  BY <1>1, ConcatAssociative
<1> QED
  BY <1>1, <1>2, <1>3

-----------------------------------------------------------------------------
(* Smallest and largest numbers. *)

LEMMA MinOfTwo == ASSUME NEW a \in Int, NEW b \in Int PROVE Min({a, b}) = IF a <= b THEN a ELSE b
  BY DEF Min

LEMMA MaxOfTwo == ASSUME NEW a \in Int, NEW b \in Int PROVE Max({a, b}) = IF a >= b THEN a ELSE b
  BY DEF Max

LEMMA MinOfNats ==
  ASSUME NEW S, S \subseteq Nat, S # {}
  PROVE  Min(S) \in S /\ \A x \in S : Min(S) <= x
  BY SmallestNat DEF Min

LEMMA MaxOfNats ==
  ASSUME NEW n \in Nat, NEW S, S \subseteq 0..n, S # {}
  PROVE  Max(S) \in S /\ \A x \in S : Max(S) >= x
<1> DEFINE T == {n - x : x \in S}
<1>1. T \subseteq Nat /\ T # {}
  <2>1. PICK x \in S : TRUE
    OBVIOUS
  <2>2. n - x \in T
    BY <2>1
  <2>3. \A z \in S : n - z \in Nat
    OBVIOUS
  <2> QED
    BY <2>2, <2>3
<1>2. PICK y \in T : \A z \in T : y <= z
  BY <1>1, SmallestNat
<1>3. PICK x \in S : y = n - x
  BY <1>2
<1>4. \A z \in S : x >= z
  <2> TAKE z \in S
  <2>1. n - z \in T /\ x \in 0..n /\ z \in 0..n
    OBVIOUS
  <2>2. n - x <= n - z
    BY <1>2, <1>3, <2>1
  <2> QED
    BY <2>1, <2>2
<1> QED
  BY <1>4 DEF Max

-----------------------------------------------------------------------------
(* Sums: g[i] is a with the first i - 1 of the n numbers d added. *)

SumsUp(g, n, a, d) == g = [i \in 1..(n + 1) |-> IF i = 1 THEN a ELSE g[i - 1] + d[i - 1]]

LEMMA SumsNext ==
  ASSUME NEW n \in Nat, NEW a, NEW d, NEW g, SumsUp(g, n, a, d)
  PROVE  SumsUp([i \in 1..(n + 2) |-> IF i \in 1..(n + 1) THEN g[i] ELSE g[n + 1] + d[n + 1]],
                n + 1, a, d)
<1> DEFINE h == [i \in 1..(n + 2) |->
                   IF i \in 1..(n + 1) THEN g[i] ELSE g[n + 1] + d[n + 1]]
           e == [i \in 1..(n + 2) |-> IF i = 1 THEN a ELSE h[i - 1] + d[i - 1]]
<1>1. ASSUME NEW i \in 1..(n + 2) PROVE h[i] = e[i]
  <2>1. CASE i \in 1..(n + 1)
    <3>1. g[i] = IF i = 1 THEN a ELSE g[i - 1] + d[i - 1]
      BY <2>1 DEF SumsUp
    <3>2. i # 1 => h[i - 1] = g[i - 1]
      BY <2>1
    <3> QED
      BY <2>1, <3>1, <3>2
  <2>2. CASE i = n + 2
    <3>1. i # 1 /\ i - 1 = n + 1 /\ n + 1 \in 1..(n + 2) /\ n + 1 \in 1..(n + 1)
          /\ n + 2 \notin 1..(n + 1)
      BY <2>2
    <3> HIDE DEF e
    <3>2. h[n + 1] = g[n + 1] /\ h[i] = g[n + 1] + d[n + 1]
      BY <2>2, <3>1
    <3> HIDE DEF h
    <3>3. e[i] = h[i - 1] + d[i - 1]
      BY <3>1 DEF e
    <3> QED
      BY <3>1, <3>2, <3>3
  <2> QED
    BY <2>1, <2>2
<1>2. h = e
  BY <1>1
<1>3. n + 1 + 1 = n + 2
  OBVIOUS
<1> QED
  BY <1>2, <1>3 DEF SumsUp

LEMMA SumsExist == ASSUME NEW n \in Nat, NEW a, NEW d PROVE \E g : SumsUp(g, n, a, d)
<1> DEFINE T == {m \in Nat : ~\E g : SumsUp(g, m, a, d)}
<1> SUFFICES ASSUME T # {} PROVE FALSE
  OBVIOUS
<1>1. PICK m \in T : \A j \in T : m <= j
  BY SmallestNat, T \subseteq Nat
<1>2. CASE m = 0
  <2> DEFINE g == [i \in 1..1 |-> a]
  <2>1. g = [i \in 1..(0 + 1) |-> IF i = 1 THEN a ELSE g[i - 1] + d[i - 1]]
    OBVIOUS
  <2>2. SumsUp(g, 0, a, d)
    BY <2>1 DEF SumsUp
  <2> QED
    BY <1>2, <2>2
<1>3. CASE m # 0
  <2>1. m - 1 \in Nat /\ ~(m <= m - 1) /\ (m - 1) + 1 = m
    BY <1>3
  <2>2. PICK g : SumsUp(g, m - 1, a, d)
    BY <1>1, <2>1
  <2>3. \E h : SumsUp(h, (m - 1) + 1, a, d)
    BY <2>1, <2>2, SumsNext
  <2> QED
    BY <2>1, <2>3
<1> QED
  BY <1>2, <1>3

LEMMA SumsRise ==
  ASSUME NEW n \in Nat, NEW a \in Nat, NEW d \in [1..n -> Nat \ {0}], NEW g, SumsUp(g, n, a, d)
  PROVE  /\ g[1] = a
         /\ \A i \in 1..(n + 1) : g[i] \in Nat
         /\ \A i \in 1..n : g[i + 1] = g[i] + d[i]
         /\ \A i, j \in 1..(n + 1) : i < j => g[i] < g[j]
<1>1. \A i \in 1..(n + 1) : g[i] = IF i = 1 THEN a ELSE g[i - 1] + d[i - 1]
  BY DEF SumsUp
<1>2. g[1] = a
  BY <1>1
<1>3. \A i \in 1..n : g[i + 1] = g[i] + d[i]
  <2> TAKE i \in 1..n
  <2>1. i + 1 \in 1..(n + 1) /\ i + 1 # 1 /\ i + 1 - 1 = i
    OBVIOUS
  <2> QED
    BY <1>1, <2>1
<1>4. \A i \in 1..(n + 1) : g[i] \in Nat
  <2> DEFINE T == {i \in 1..(n + 1) : g[i] \notin Nat}
  <2> SUFFICES ASSUME T # {} PROVE FALSE
    OBVIOUS
  <2>1. PICK i \in T : \A j \in T : i <= j
    BY SmallestNat, T \subseteq Nat
  <2>2. i # 1
    BY <1>2
  <2>3. i - 1 \in 1..n /\ i - 1 + 1 = i /\ ~(i <= i - 1)
    BY <2>2
  <2>4. g[i - 1] \in Nat /\ d[i - 1] \in Nat
    BY <2>1, <2>3
  <2>5. g[i] = g[i - 1] + d[i - 1]
    BY <1>3, <2>3
  <2> QED
    BY <2>4, <2>5
<1>5. ASSUME NEW i \in 1..(n + 1), NEW j \in 1..(n + 1), i < j PROVE g[i] < g[j]
  <2> DEFINE T == {k \in 1..(n + 1) : i < k /\ ~(g[i] < g[k])}
  <2> SUFFICES ASSUME T # {} PROVE FALSE
    BY <1>5
  <2>1. PICK k \in T : \A l \in T : k <= l
    BY SmallestNat, T \subseteq Nat
  <2>2. k - 1 \in 1..n /\ k - 1 \in 1..(n + 1) /\ k - 1 + 1 = k /\ ~(k <= k - 1) /\ i <= k - 1
    OBVIOUS
  <2>3. g[k] = g[k - 1] + d[k - 1] /\ d[k - 1] \in Nat \ {0}
    BY <1>3, <2>2
  <2>4. g[i] \in Nat /\ g[k - 1] \in Nat
    BY <1>4, <2>2
  <2>5. g[i] <= g[k - 1]
    <3>1. CASE i = k - 1
      BY <2>4, <3>1
    <3>2. CASE i # k - 1
      <4>1. i < k - 1
        BY <2>2, <3>2
      <4>2. g[i] < g[k - 1]
        BY <2>1, <2>2, <4>1
      <4> QED
        BY <2>4, <4>2
    <3> QED
      BY <3>1, <3>2
  <2>6. ~(g[i] < g[k])
    OBVIOUS
  <2> HIDE DEF T
  <2>7. d[k - 1] \in Nat /\ d[k - 1] > 0
    BY <2>3
  <2>8. g[i] < g[k - 1] + d[k - 1]
    BY <2>4, <2>5, <2>7
  <2> QED
    BY <2>3, <2>6, <2>8
<1> QED
  BY <1>2, <1>3, <1>4, <1>5

=============================================================================
