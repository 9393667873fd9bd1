---------------------------- MODULE SequenceLemmas ----------------------------
(* Facts the proofs of several modules rest on: induction on a set of natural  *)
(* numbers, and what FlattenSeq does to the ends of a sequence of sequences.   *)
(* Induction is stated for a set and not for a predicate: the provers cannot   *)
(* instantiate an operator, and a set by comprehension is a term.              *)
EXTENDS Integers, Sequences, SequencesExt, FiniteSets, FiniteSetTheorems,
        WellFoundedInduction, SequenceTheorems, TLAPS

\* The least number principle, from the intervals 0..n under strict inclusion,
\* which is well founded on finite sets.
LEMMA LeastNumber ==
    ASSUME NEW T \in SUBSET Nat, T # {}
    PROVE  \E x \in T : \A y \in T : x <= y
<1> DEFINE R == StrictSubsetOrdering(Nat)
           F == FiniteSubsetsOf(Nat)
           U == {0..n : n \in T}
<1>1. IsWellFoundedOn(R, F)
  BY FS_StrictSubsetOrderingWellFounded
<1>2. U \subseteq F
  <2>1. SUFFICES ASSUME NEW n \in T PROVE 0..n \in F
    OBVIOUS
  <2>2. IsFiniteSet(0..n)
    BY FS_Interval
  <2>3. QED
    BY <2>2 DEF FiniteSubsetsOf
<1>3. U # {}
  OBVIOUS
<1>4. \E u \in U : \A v \in U : <<v, u>> \notin R
  <2> HIDE DEF R, F, U
  <2> QED
    BY <1>1, <1>2, <1>3, WFMin
<1>5. PICK x \in T : \A y \in T : <<0..y, 0..x>> \notin R
  BY <1>4
<1>6. ASSUME NEW y \in T, y < x PROVE FALSE
  <2>1. 0..y \subseteq 0..x /\ 0..y # 0..x /\ 0..x \subseteq Nat
    BY <1>6
  <2>2. <<0..y, 0..x>> \in R
    BY <2>1 DEF StrictSubsetOrdering
  <2>3. QED
    BY <2>2, <1>5
<1>7. QED
  BY <1>6

\* Induction: a set that holds 0 and the successors of its members holds all numbers.
LEMMA Induction ==
    ASSUME NEW T, 0 \in T, \A n \in Nat : n \in T => n + 1 \in T
    PROVE  Nat \subseteq T
<1>1. SUFFICES ASSUME Nat \ T # {} PROVE FALSE
  OBVIOUS
<1>2. PICK x \in Nat \ T : \A y \in Nat \ T : x <= y
  BY <1>1, LeastNumber
<1>3. x # 0 /\ x - 1 \in Nat /\ (x - 1) + 1 = x
  BY <1>2
<1>4. x - 1 \in T
  BY <1>2, <1>3
<1>5. QED
  BY <1>2, <1>3, <1>4

-----------------------------------------------------------------------------
(* Cutting sequences.                                                         *)

\* A function on 1..n is a sequence.
LEMMA FunctionIsSeq ==
    ASSUME NEW Q, NEW n \in Nat, NEW f \in [1..n -> Q]
    PROVE  f \in Seq(Q) /\ Len(f) = n
  OBVIOUS

\* Two ways to cut a sequence at the same place give the same pieces.
LEMMA SameCut ==
    ASSUME NEW S, NEW a \in Seq(S), NEW b \in Seq(S), NEW c \in Seq(S), NEW d \in Seq(S),
           a \o b = c \o d, Len(a) = Len(c)
    PROVE  a = c /\ b = d
<1>1. Len(a) \in Nat /\ Len(b) \in Nat /\ Len(d) \in Nat
  BY LenProperties
<1>2. Len(b) = Len(d)
  <2>1. Len(a \o b) = Len(a) + Len(b)
    BY ConcatProperties
  <2>2. Len(c \o d) = Len(c) + Len(d)
    BY ConcatProperties
  <2>3. QED
    BY <1>1, <2>1, <2>2
<1>3. ASSUME NEW i \in 1..Len(a) PROVE a[i] = c[i]
  <2>1. i \in 1..(Len(a) + Len(b)) /\ i \in 1..(Len(c) + Len(d)) /\ i <= Len(a) /\ i <= Len(c)
    BY <1>1
  <2>2. (a \o b)[i] = a[i] /\ (c \o d)[i] = c[i]
    BY <2>1, ConcatProperties
  <2>3. QED
    BY <2>2
<1>4. ASSUME NEW i \in 1..Len(b) PROVE b[i] = d[i]
  <2> DEFINE j == Len(a) + i
  <2>1. /\ j \in 1..(Len(a) + Len(b)) /\ j \in 1..(Len(c) + Len(d))
        /\ ~(j <= Len(a)) /\ ~(j <= Len(c)) /\ j - Len(a) = i /\ j - Len(c) = i
    BY <1>1, <1>2
  <2> HIDE DEF j
  <2>2. (a \o b)[j] = b[i] /\ (c \o d)[j] = d[i]
    BY <2>1, ConcatProperties
  <2>3. QED
    BY <2>2
<1>5. QED
  BY <1>2, <1>3, <1>4, SeqEqual

\* A sequence is its first n elements and the others.
LEMMA Cut ==
    ASSUME NEW S, NEW s \in Seq(S), NEW n \in 1..Len(s)
    PROVE  /\ SubSeq(s, 1, n) \in Seq(S) /\ Len(SubSeq(s, 1, n)) = n
           /\ SubSeq(s, n + 1, Len(s)) \in Seq(S)
           /\ Len(SubSeq(s, n + 1, Len(s))) = Len(s) - n
           /\ SubSeq(s, 1, n) \o SubSeq(s, n + 1, Len(s)) = s
<1>1. /\ Len(s) \in Nat /\ n \in Int /\ n + 1 \in Int /\ 1 \in Int /\ 1 <= n /\ n <= Len(s)
      /\ \A i \in 1..Len(s) : s[i] \in S
      /\ 1 \in 1..(Len(s) + 1) /\ n \in (1 - 1)..Len(s) /\ Len(s) \in n..Len(s)
  OBVIOUS
<1>2. (\A i \in 1..n : s[i] \in S) /\ (\A i \in (n + 1)..Len(s) : s[i] \in S)
  BY <1>1
<1>3. SubSeq(s, 1, n) \in Seq(S) /\ Len(SubSeq(s, 1, n)) = IF 1 <= n THEN n - 1 + 1 ELSE 0
  BY <1>1, <1>2, SubSeqProperties
<1>4. /\ SubSeq(s, n + 1, Len(s)) \in Seq(S)
      /\ Len(SubSeq(s, n + 1, Len(s))) =
            IF n + 1 <= Len(s) THEN Len(s) - (n + 1) + 1 ELSE 0
  BY <1>1, <1>2, SubSeqProperties
<1>5. SubSeq(s, 1, n) \o SubSeq(s, n + 1, Len(s)) = SubSeq(s, 1, Len(s))
  BY <1>1, ConcatAdjacentSubSeq
<1>6. SubSeq(s, 1, Len(s)) = s
  BY SubSeqFull
<1>7. n - 1 + 1 = n /\ (n + 1 <= Len(s) => Len(s) - (n + 1) + 1 = Len(s) - n)
      /\ (~(n + 1 <= Len(s)) => Len(s) - n = 0)
  BY <1>1
<1>8. Len(SubSeq(s, 1, n)) = n /\ Len(SubSeq(s, n + 1, Len(s))) = Len(s) - n
  BY <1>1, <1>3, <1>4, <1>7
<1>9. QED
  BY <1>3, <1>4, <1>5, <1>6, <1>8

-----------------------------------------------------------------------------
(* FlattenSeq.                                                                *)

\* f holds the concatenations of the first sequences of ss, up to the n-th.
FlattensTo(f, n, ss) ==
    f = [i \in 1..n |-> IF i = 1 THEN ss[i] ELSE f[i - 1] \o ss[i]]

\* One more sequence.
LEMMA FlattensMore ==
    ASSUME NEW Q, NEW ss, NEW n \in Nat, NEW last \in Q,
           NEW f \in [1..n -> Q], FlattensTo(f, n, ss),
           last = IF n = 0 THEN ss[1] ELSE f[n] \o ss[n + 1]
    PROVE  \E g \in [1..(n + 1) -> Q] : FlattensTo(g, n + 1, ss)
<1> DEFINE g == [i \in 1..(n + 1) |-> IF i = n + 1 THEN last ELSE f[i]]
<1>1. ASSUME NEW i \in 1..n PROVE i \in 1..(n + 1) /\ i # n + 1 /\ g[i] = f[i]
  <2>1. i \in 1..(n + 1) /\ i # n + 1
    OBVIOUS
  <2>2. QED
    BY <2>1, Zenon
<1>2. n + 1 \in 1..(n + 1) /\ g[n + 1] = last
  OBVIOUS
<1>3. \A i \in 1..(n + 1) : i = n + 1 \/ i \in 1..n
  OBVIOUS
<1>4. ASSUME NEW i \in 1..(n + 1) PROVE g[i] \in Q
  BY <1>1, <1>2, <1>3
<1>5. \A i \in 1..n : f[i] = IF i = 1 THEN ss[i] ELSE f[i - 1] \o ss[i]
  BY DEF FlattensTo
<1>6. ASSUME NEW i \in 1..(n + 1)
      PROVE  g[i] = IF i = 1 THEN ss[i] ELSE g[i - 1] \o ss[i]
  <2>1. CASE i = n + 1
    <3>1. n # 0 => n \in 1..n
      OBVIOUS
    <3>2. n # 0 => g[n] = f[n]
      BY <3>1, <1>1
    <3>3. QED
      BY <2>1, <3>2, <1>2
  <2>2. CASE i \in 1..n
    <3>1. i # 1 => i - 1 \in 1..n
      BY <2>2
    <3>2. g[i] = f[i] /\ (i # 1 => g[i - 1] = f[i - 1])
      BY <2>2, <3>1, <1>1
    <3>3. QED
      BY <2>2, <3>2, <1>5
  <2>3. QED
    BY <2>1, <2>2, <1>3
<1>7. g = [i \in 1..(n + 1) |-> g[i]]
  OBVIOUS
<1>8. DOMAIN g = 1..(n + 1)
  OBVIOUS
<1> HIDE DEF g
<1>9. g \in [1..(n + 1) -> Q]
  BY <1>4, <1>7
<1>10. FlattensTo(g, n + 1, ss)
  BY <1>6, <1>7 DEF FlattensTo
<1>11. QED
  BY <1>9, <1>10

\* There is such a function for all of ss, by induction on n.
LEMMA FlattensExists ==
    ASSUME NEW S, NEW ss \in Seq(Seq(S))
    PROVE  \E f \in [1..Len(ss) -> Seq(S)] : FlattensTo(f, Len(ss), ss)
<1> DEFINE T == {n \in Nat : n <= Len(ss) => \E f \in [1..n -> Seq(S)] : FlattensTo(f, n, ss)}
<1>1. 0 \in T
  <2> DEFINE f == [i \in 1..0 |-> <<>>]
  <2>1. f \in [1..0 -> Seq(S)]
    OBVIOUS
  <2>2. FlattensTo(f, 0, ss)
    BY DEF FlattensTo
  <2> HIDE DEF f
  <2>3. QED
    BY <2>1, <2>2
<1>2. ASSUME NEW n \in Nat, n \in T PROVE n + 1 \in T
  <2>1. SUFFICES ASSUME n + 1 <= Len(ss)
                 PROVE  \E g \in [1..(n + 1) -> Seq(S)] : FlattensTo(g, n + 1, ss)
    OBVIOUS
  <2>2. Len(ss) \in Nat /\ \A i \in 1..Len(ss) : ss[i] \in Seq(S)
    OBVIOUS
  <2>3. n <= Len(ss)
    BY <2>1, <2>2
  <2>4. PICK f \in [1..n -> Seq(S)] : FlattensTo(f, n, ss)
    BY <1>2, <2>3
  <2> DEFINE last == IF n = 0 THEN ss[1] ELSE f[n] \o ss[n + 1]
  <2>5. last \in Seq(S)
    <3>1. CASE n = 0
      BY <3>1, <2>1, <2>2
    <3>2. CASE n # 0
      <4>1. n \in 1..n /\ n + 1 \in 1..Len(ss)
        BY <3>2, <2>1, <2>2
      <4>2. f[n] \in Seq(S) /\ ss[n + 1] \in Seq(S)
        BY <4>1, <2>2, <2>4
      <4>3. QED
        BY <4>2, <3>2, ConcatProperties
    <3>3. QED
      BY <3>1, <3>2
  <2>6. QED
    BY <2>4, <2>5, FlattensMore
<1>3. Nat \subseteq T
  <2> HIDE DEF T
  <2> QED
    BY <1>1, <1>2, Induction
<1>4. Len(ss) \in Nat /\ Len(ss) <= Len(ss)
  OBVIOUS
<1>5. Len(ss) \in T
  BY <1>3, <1>4
<1>6. QED
  BY <1>4, <1>5

\* The values of such a function are sequences of the same elements.
LEMMA FlattensType ==
    ASSUME NEW S, NEW ss \in Seq(Seq(S)), NEW f, FlattensTo(f, Len(ss), ss)
    PROVE  f \in [1..Len(ss) -> Seq(S)]
<1> DEFINE T == {n \in Nat : n + 1 <= Len(ss) => f[n + 1] \in Seq(S)}
<1>1. Len(ss) \in Nat /\ \A i \in 1..Len(ss) : ss[i] \in Seq(S)
  OBVIOUS
<1>2. /\ f = [i \in 1..Len(ss) |-> f[i]]
      /\ \A i \in 1..Len(ss) : f[i] = IF i = 1 THEN ss[i] ELSE f[i - 1] \o ss[i]
  BY DEF FlattensTo
<1>3. 0 \in T
  <2>1. SUFFICES ASSUME 0 + 1 <= Len(ss) PROVE f[0 + 1] \in Seq(S)
    OBVIOUS
  <2>2. 1 \in 1..Len(ss) /\ 0 + 1 = 1
    BY <2>1, <1>1
  <2>3. QED
    BY <2>2, <1>1, <1>2
<1>4. ASSUME NEW n \in Nat, n \in T PROVE n + 1 \in T
  <2>1. SUFFICES ASSUME (n + 1) + 1 <= Len(ss) PROVE f[(n + 1) + 1] \in Seq(S)
    OBVIOUS
  <2>2. /\ (n + 1) + 1 \in 1..Len(ss) /\ (n + 1) + 1 # 1 /\ ((n + 1) + 1) - 1 = n + 1
        /\ n + 1 <= Len(ss)
    BY <2>1, <1>1
  <2>3. f[n + 1] \in Seq(S)
    BY <1>4, <2>2
  <2>4. f[(n + 1) + 1] = f[n + 1] \o ss[(n + 1) + 1] /\ ss[(n + 1) + 1] \in Seq(S)
    BY <2>2, <1>1, <1>2
  <2>5. QED
    BY <2>3, <2>4, ConcatProperties
<1>5. Nat \subseteq T
  <2> HIDE DEF T
  <2> QED
    BY <1>3, <1>4, Induction
<1>6. ASSUME NEW i \in 1..Len(ss) PROVE f[i] \in Seq(S)
  <2>1. i - 1 \in Nat /\ (i - 1) + 1 = i /\ i <= Len(ss)
    BY <1>1
  <2>2. i - 1 \in T
    BY <1>5, <2>1
  <2>3. QED
    BY <2>1, <2>2
<1>7. QED
  BY <1>2, <1>6

\* FlattenSeq is the last value of such a function.
LEMMA FlattenSeqIs ==
    ASSUME NEW S, NEW ss \in Seq(Seq(S)), ss # <<>>
    PROVE  \E f \in [1..Len(ss) -> Seq(S)] :
               FlattensTo(f, Len(ss), ss) /\ FlattenSeq(ss) = f[Len(ss)]
<1> DEFINE G == CHOOSE f : FlattensTo(f, Len(ss), ss)
<1>1. Len(ss) # 0
  OBVIOUS
<1>2. FlattenSeq(ss) = G[Len(ss)]
  BY <1>1 DEF FlattenSeq, FlattensTo
<1>3. FlattensTo(G, Len(ss), ss)
  <2>1. \E f : FlattensTo(f, Len(ss), ss)
    BY FlattensExists
  <2>2. QED
    BY <2>1
<1> HIDE DEF G
<1>4. G \in [1..Len(ss) -> Seq(S)]
  BY <1>3, FlattensType
<1>5. QED
  BY <1>2, <1>3, <1>4

\* Nothing to concatenate.
LEMMA FlattenEmpty == FlattenSeq(<<>>) = <<>>
  BY DEF FlattenSeq

\* The concatenation is a sequence of the same elements.
LEMMA FlattenType ==
    ASSUME NEW S, NEW ss \in Seq(Seq(S))
    PROVE  FlattenSeq(ss) \in Seq(S)
<1>1. CASE ss = <<>>
  BY <1>1, FlattenEmpty, EmptySeq
<1>2. CASE ss # <<>>
  <2>1. PICK f \in [1..Len(ss) -> Seq(S)] :
            FlattensTo(f, Len(ss), ss) /\ FlattenSeq(ss) = f[Len(ss)]
    BY <1>2, FlattenSeqIs
  <2>2. Len(ss) \in 1..Len(ss)
    BY <1>2
  <2>3. QED
    BY <2>1, <2>2
<1>3. QED
  BY <1>1, <1>2

\* At the end: a sequence appended to ss is appended to the concatenation.
LEMMA FlattenAppend ==
    ASSUME NEW S, NEW ss \in Seq(Seq(S)), NEW t \in Seq(S)
    PROVE  FlattenSeq(Append(ss, t)) = FlattenSeq(ss) \o t
<1> DEFINE tt == Append(ss, t)
<1>1. /\ tt \in Seq(Seq(S)) /\ tt # <<>> /\ Len(tt) = Len(ss) + 1
      /\ \A i \in 1..Len(ss) : tt[i] = ss[i]
      /\ tt[Len(ss) + 1] = t
      /\ Len(ss) \in Nat
  BY AppendProperties
<1> HIDE DEF tt
<1>2. PICK g \in [1..Len(tt) -> Seq(S)] :
          FlattensTo(g, Len(tt), tt) /\ FlattenSeq(tt) = g[Len(tt)]
  BY <1>1, FlattenSeqIs
<1>3. \A i \in 1..Len(tt) : g[i] = IF i = 1 THEN tt[i] ELSE g[i - 1] \o tt[i]
  BY <1>2 DEF FlattensTo
<1>4. CASE ss = <<>>
  <2>1. Len(ss) = 0 /\ g[1] = t
    BY <1>1, <1>3, <1>4
  <2>2. FlattenSeq(tt) = t
    BY <1>1, <1>2, <2>1
  <2>3. <<>> \o t = t
    BY ConcatEmptySeq
  <2>4. QED
    BY <2>2, <2>3, <1>4, FlattenEmpty DEF tt
<1>5. CASE ss # <<>>
  <2>1. PICK f \in [1..Len(ss) -> Seq(S)] :
            FlattensTo(f, Len(ss), ss) /\ FlattenSeq(ss) = f[Len(ss)]
    BY <1>5, FlattenSeqIs
  <2>2. \A i \in 1..Len(ss) : f[i] = IF i = 1 THEN ss[i] ELSE f[i - 1] \o ss[i]
    BY <2>1 DEF FlattensTo
  <2> DEFINE T == {n \in Nat : n + 1 <= Len(ss) => f[n + 1] = g[n + 1]}
  <2>3. 0 \in T
    <3>1. 1 <= Len(ss) => 1 \in 1..Len(ss) /\ 1 \in 1..Len(tt)
      BY <1>1
    <3>2. 1 <= Len(ss) => f[1] = ss[1] /\ g[1] = tt[1] /\ tt[1] = ss[1]
      BY <3>1, <2>2, <1>3, <1>1
    <3>3. QED
      BY <3>2
  <2>4. ASSUME NEW n \in Nat, n \in T PROVE n + 1 \in T
    <3>1. SUFFICES ASSUME n + 2 <= Len(ss) PROVE f[n + 2] = g[n + 2]
      BY <1>1
    <3>2. n + 2 \in 1..Len(ss) /\ n + 2 \in 1..Len(tt) /\ n + 2 # 1 /\ (n + 2) - 1 = n + 1
      BY <3>1, <1>1
    <3>3. f[n + 1] = g[n + 1]
      BY <2>4, <3>1, <1>1
    <3>4. f[n + 2] = f[n + 1] \o ss[n + 2] /\ g[n + 2] = g[n + 1] \o tt[n + 2]
      BY <3>2, <2>2, <1>3
    <3>5. tt[n + 2] = ss[n + 2]
      BY <3>2, <1>1
    <3>6. QED
      BY <3>3, <3>4, <3>5
  <2>5. Nat \subseteq T
    <3> HIDE DEF T
    <3> QED
      BY <2>3, <2>4, Induction
  <2>6. Len(ss) # 0
    BY <1>5, EmptySeq
  <2>7. Len(ss) - 1 \in Nat /\ (Len(ss) - 1) + 1 = Len(ss) /\ Len(ss) <= Len(ss)
    BY <2>6, <1>1
  <2>8. f[Len(ss)] = g[Len(ss)]
    <3>1. Len(ss) - 1 \in T
      BY <2>5, <2>7
    <3>2. QED
      BY <3>1, <2>7
  <2>9. g[Len(ss) + 1] = g[Len(ss)] \o t
    <3>1. Len(ss) + 1 \in 1..Len(tt) /\ Len(ss) + 1 # 1 /\ (Len(ss) + 1) - 1 = Len(ss)
      BY <1>1, <2>6
    <3>2. QED
      BY <3>1, <1>1, <1>3
  <2>10. QED
    BY <1>1, <1>2, <2>1, <2>8, <2>9 DEF tt
<1>6. QED
  BY <1>4, <1>5

\* At the beginning: a sequence put before ss comes before the concatenation.
LEMMA FlattenCons ==
    ASSUME NEW S, NEW ss \in Seq(Seq(S)), NEW t \in Seq(S)
    PROVE  FlattenSeq(<<t>> \o ss) = t \o FlattenSeq(ss)
<1> DEFINE first(n) == SubSeq(ss, 1, n)
           Prepended(n) == FlattenSeq(<<t>> \o first(n)) = t \o FlattenSeq(first(n))
           T == {n \in Nat : n <= Len(ss) => Prepended(n)}
<1>1. Len(ss) \in Nat /\ first(Len(ss)) = ss /\ <<t>> \in Seq(Seq(S))
  BY SubSeqFull
<1>2. Prepended(0)
  <2>1. first(0) = <<>>
    BY SubSeqEmpty
  <2>2. <<t>> \o <<>> = <<t>> /\ <<t>> = Append(<<>>, t)
    BY ConcatEmptySeq, <1>1
  <2>3. <<>> \in Seq(Seq(S))
    OBVIOUS
  <2>4. FlattenSeq(<<t>>) = <<>> \o t
    BY <2>2, <2>3, FlattenAppend, FlattenEmpty
  <2>5. <<>> \o t = t /\ t \o <<>> = t
    BY ConcatEmptySeq
  <2>6. QED
    BY <2>1, <2>2, <2>4, <2>5, FlattenEmpty
<1>3. ASSUME NEW n \in Nat, n + 1 <= Len(ss), Prepended(n) PROVE Prepended(n + 1)
  <2>1. n + 1 \in 1..Len(ss) /\ n + 1 \in 1..(n + 1) /\ n <= Len(ss) /\ (n + 1) - 1 = n
    BY <1>1, <1>3
  <2> DEFINE u == first(n)
             e == ss[n + 1]
  <2>2. e \in Seq(S)
    BY <2>1
  <2>3. \A i \in 1..n : ss[i] \in Seq(S)
    BY <2>1, <1>1
  <2>4. u \in Seq(Seq(S))
    BY <2>3, SubSeqProperties
  <2>5. first(n + 1) = u \o <<e>>
    <3>1. 1 \in 1..Len(ss)
      BY <2>1
    <3>2. SubSeq(ss, 1, n + 1) = SubSeq(ss, 1, (n + 1) - 1) \o <<ss[n + 1]>>
      BY <3>1, <2>1, SubSeqRecursiveSecond
    <3>3. QED
      BY <3>2, <2>1
  <2>6. FlattenSeq(<<t>> \o u) = t \o FlattenSeq(u)
    BY <1>3
  <2> DEFINE w == first(n + 1)
             v == FlattenSeq(u)
  <2>7. w = u \o <<e>>
    BY <2>5
  <2>8. SUFFICES FlattenSeq(<<t>> \o w) = t \o FlattenSeq(w)
    OBVIOUS
  <2>9. v \in Seq(S)
    BY <2>4, FlattenType
  <2>10. FlattenSeq(<<t>> \o u) = t \o v
    BY <2>6
  <2> HIDE DEF w, v, u, e
  <2>11. w = Append(u, e)
    BY <2>2, <2>4, <2>7, AppendIsConcat
  <2>12. <<t>> \o w = Append(<<t>> \o u, e) /\ <<t>> \o u \in Seq(Seq(S))
    <3>1. <<e>> \in Seq(Seq(S))
      BY <2>2
    <3>2. <<t>> \o u \in Seq(Seq(S))
      BY <1>1, <2>4, ConcatProperties
    <3>3. (<<t>> \o u) \o <<e>> = <<t>> \o (u \o <<e>>)
      BY <1>1, <2>4, <3>1, ConcatAssociative
    <3>4. (<<t>> \o u) \o <<e>> = Append(<<t>> \o u, e)
      BY <3>2, <2>2, AppendIsConcat
    <3>5. QED
      BY <3>2, <3>3, <3>4, <2>7
  <2>13. FlattenSeq(<<t>> \o w) = (t \o v) \o e
    BY <2>2, <2>10, <2>12, FlattenAppend
  <2>14. FlattenSeq(w) = v \o e
    BY <2>2, <2>4, <2>11, FlattenAppend DEF v
  <2>15. (t \o v) \o e = t \o (v \o e)
    BY <2>2, <2>9, ConcatAssociative
  <2>16. QED
    BY <2>13, <2>14, <2>15
<1>4. Nat \subseteq T
  <2> HIDE DEF Prepended
  <2>1. 0 \in T
    BY <1>2
  <2>2. ASSUME NEW n \in Nat, n \in T PROVE n + 1 \in T
    BY <1>1, <1>3, <2>2
  <2> HIDE DEF T
  <2>3. QED
    BY <2>1, <2>2, Induction
<1>5. Prepended(Len(ss))
  <2> HIDE DEF Prepended
  <2>1. Len(ss) \in T /\ Len(ss) <= Len(ss)
    <3> HIDE DEF T
    <3> QED
      BY <1>1, <1>4
  <2>2. QED
    BY <2>1
<1>6. QED
  BY <1>1, <1>5
===============================================================================
