------------------------- MODULE MeteringBufferProofs -------------------------
(***************************************************************************)
(* Proofs about MeteringBuffer for any records, sizes, limits and drains.  *)
(* The argument: the buffer's records stand in one line, the windows of    *)
(* the flush under way before the queue, in the order they were held; each *)
(* step takes records off the line, or adds the newest at its end.  The    *)
(* byte counters are the weights of the line's parts, and the loss         *)
(* counters count the records that left it.  First come the lemmas about   *)
(* sequences, their selections and the weight of a finite set it rests on. *)
(***************************************************************************)
EXTENDS MeteringBuffer, TLAPS, SequenceTheorems, FiniteSetTheorems, WellFoundedInduction

-----------------------------------------------------------------------------
(* Least numbers.                                                          *)

\* Every non-empty set of natural numbers has a least element: of its initial
\* segments one has no other below it.
LEMMA LeastNatural ==
    ASSUME NEW T \in SUBSET Nat, T # {}
    PROVE  \E n \in T : \A m \in T : n <= m
  <1> DEFINE Segments == {0 .. n : n \in T}
             R == StrictSubsetOrdering(Nat)
             F == FiniteSubsetsOf(Nat)
  <1>1. IsWellFoundedOn(R, F) BY FS_StrictSubsetOrderingWellFounded
  <1>2. Segments \subseteq F
    <2>1. ASSUME NEW n \in T PROVE 0 .. n \in F
      <3>1. n \in Int /\ 0 \in Int /\ 0 .. n \in SUBSET Nat OBVIOUS
      <3>2. IsFiniteSet(0 .. n) BY <3>1, FS_Interval
      <3> QED BY <3>1, <3>2 DEF FiniteSubsetsOf
    <2> QED BY <2>1
  <1>3. Segments # {} OBVIOUS
  <1> HIDE DEF Segments, R, F
  <1>4. PICK s \in Segments : \A t \in Segments : ~(<<t, s>> \in R)
    BY <1>1, <1>2, <1>3, WFMin
  <1>5. PICK n \in T : s = 0 .. n BY <1>4 DEF Segments
  <1>6. ASSUME NEW m \in T, m < n PROVE FALSE
    <2>1. 0 .. m \in Segments BY DEF Segments
    <2>2. 0 .. m \subseteq 0 .. n /\ 0 .. m # 0 .. n BY <1>6
    <2>3. <<0 .. m, 0 .. n>> \in R BY <2>2 DEF R, StrictSubsetOrdering
    <2> QED BY <1>4, <1>5, <2>1, <2>3
  <1> QED BY <1>6

\* Min of a non-empty set of naturals is its least element.
LEMMA MinIsLeast ==
    ASSUME NEW T \in SUBSET Nat, T # {}
    PROVE  Min(T) \in T /\ \A m \in T : Min(T) <= m
  BY LeastNatural DEF Min

-----------------------------------------------------------------------------
(* Sequences whose elements stand in a relation to all that follow.        *)

Ordered(s, R) == \A i, j \in DOMAIN s : i < j => <<s[i], s[j]>> \in R

\* The elements of a sequence are of its type.
LEMMA ElementsTyped ==
    ASSUME NEW S, NEW s \in Seq(S)
    PROVE  ToSet(s) \in SUBSET S /\ IsFiniteSet(ToSet(s))
  <1>1. Len(s) \in Nat /\ DOMAIN s = 1 .. Len(s) /\ s \in [1 .. Len(s) -> S] BY LenProperties
  <1>2. ToSet(s) \in SUBSET S BY <1>1 DEF ToSet
  <1>3. s \in Surjection(1 .. Len(s), ToSet(s)) BY <1>1 DEF Surjection, ToSet
  <1>4. IsFiniteSet(1 .. Len(s)) BY <1>1, FS_Interval
  <1> QED BY <1>2, <1>3, <1>4, FS_Surjection

\* Nothing is in the empty sequence.
LEMMA EmptyOrdered == ASSUME NEW R PROVE Ordered(<<>>, R) /\ ToSet(<<>>) = {}
  <1>1. DOMAIN <<>> = {} OBVIOUS
  <1> QED BY <1>1 DEF Ordered, ToSet

\* Joining two sequences.
LEMMA OrderedConcat ==
    ASSUME NEW S, NEW s \in Seq(S), NEW t \in Seq(S), NEW R
    PROVE  /\ s \o t \in Seq(S)
           /\ Len(s \o t) = Len(s) + Len(t)
           /\ ToSet(s \o t) = ToSet(s) \cup ToSet(t)
           /\ Ordered(s, R) /\ Ordered(t, R) /\ ToSet(s) \X ToSet(t) \subseteq R => Ordered(s \o t, R)
           /\ Ordered(s \o t, R) => Ordered(s, R) /\ Ordered(t, R) /\ ToSet(s) \X ToSet(t) \subseteq R
  <1> DEFINE m == Len(s)
             n == Len(t)
             u == s \o t
  <1>1. m \in Nat /\ DOMAIN s = 1 .. m /\ n \in Nat /\ DOMAIN t = 1 .. n BY LenProperties
  <1>2. u \in Seq(S) /\ Len(u) = m + n BY ConcatProperties
  <1>3. DOMAIN u = 1 .. m + n BY <1>2, LenProperties
  <1>4. \A i \in 1 .. m + n : u[i] = IF i <= m THEN s[i] ELSE t[i - m] BY ConcatProperties
  <1> HIDE DEF m, n, u
  <1>5. /\ \A i \in 1 .. m : i \in 1 .. m + n /\ u[i] = s[i]
        /\ \A i \in 1 .. n : i + m \in 1 .. m + n /\ u[i + m] = t[i]
    <2>1. ASSUME NEW i \in 1 .. m PROVE i \in 1 .. m + n /\ u[i] = s[i] BY <1>1, <1>4
    <2>2. ASSUME NEW i \in 1 .. n PROVE i + m \in 1 .. m + n /\ u[i + m] = t[i]
      <3>1. i + m \in 1 .. m + n /\ ~(i + m <= m) /\ (i + m) - m = i BY <1>1
      <3> QED BY <1>4, <3>1
    <2> QED BY <2>1, <2>2
  <1>6. \A i \in 1 .. m + n : i \in 1 .. m \/ \E k \in 1 .. n : i = k + m
    <2> SUFFICES ASSUME NEW i \in 1 .. m + n, i \notin 1 .. m PROVE \E k \in 1 .. n : i = k + m
      OBVIOUS
    <2>1. i - m \in 1 .. n /\ i = (i - m) + m BY <1>1
    <2> QED BY <2>1
  <1>7. ToSet(u) = ToSet(s) \cup ToSet(t)
    <2>1. ToSet(u) = {u[i] : i \in 1 .. m + n} BY <1>3 DEF ToSet
    <2>2. ToSet(s) = {s[i] : i \in 1 .. m} /\ ToSet(t) = {t[i] : i \in 1 .. n} BY <1>1 DEF ToSet
    <2>3. ASSUME NEW i \in 1 .. m + n PROVE u[i] \in ToSet(s) \cup ToSet(t)
      BY <1>5, <1>6, <2>2
    <2>4. \A x \in ToSet(s) \cup ToSet(t) : x \in ToSet(u) BY <1>5, <2>1, <2>2
    <2> QED BY <2>1, <2>3, <2>4
  <1>8. ASSUME Ordered(s, R), Ordered(t, R), ToSet(s) \X ToSet(t) \subseteq R PROVE Ordered(u, R)
    <2> SUFFICES ASSUME NEW i \in 1 .. m + n, NEW j \in 1 .. m + n, i < j
                 PROVE  <<u[i], u[j]>> \in R
      BY <1>3 DEF Ordered
    <2>1. CASE i \in 1 .. m /\ j \in 1 .. m BY <1>1, <1>5, <1>8, <2>1 DEF Ordered
    <2>2. ASSUME NEW k \in 1 .. n, i \in 1 .. m, j = k + m PROVE <<u[i], u[j]>> \in R
      BY <1>1, <1>5, <1>8, <2>2 DEF ToSet
    <2>3. ASSUME NEW k \in 1 .. n, NEW l \in 1 .. n, i = k + m, j = l + m PROVE <<u[i], u[j]>> \in R
      <3>1. k < l BY <1>1, <2>3
      <3>2. <<t[k], t[l]>> \in R BY <1>1, <1>8, <3>1 DEF Ordered
      <3> QED BY <1>5, <2>3, <3>2
    <2>4. ASSUME NEW k \in 1 .. n, i = k + m, j \in 1 .. m PROVE FALSE BY <1>1, <2>4
    <2> QED BY <1>6, <2>1, <2>2, <2>3, <2>4
  <1>9. ASSUME Ordered(u, R)
        PROVE  Ordered(s, R) /\ Ordered(t, R) /\ ToSet(s) \X ToSet(t) \subseteq R
    <2>1. ASSUME NEW i \in 1 .. m, NEW j \in 1 .. m, i < j PROVE <<s[i], s[j]>> \in R
      BY <1>3, <1>5, <1>9, <2>1 DEF Ordered
    <2>2. ASSUME NEW i \in 1 .. n, NEW j \in 1 .. n, i < j PROVE <<t[i], t[j]>> \in R
      <3>1. i + m < j + m BY <1>1, <2>2
      <3> QED BY <1>3, <1>5, <1>9, <3>1 DEF Ordered
    <2>3. ASSUME NEW i \in 1 .. m, NEW j \in 1 .. n PROVE <<s[i], t[j]>> \in R
      <3>1. i < j + m BY <1>1
      <3> QED BY <1>3, <1>5, <1>9, <3>1 DEF Ordered
    <2> QED BY <1>1, <2>1, <2>2, <2>3 DEF Ordered, ToSet
  <1> QED BY <1>2, <1>7, <1>8, <1>9 DEF u, m, n

\* A sequence of one element.
LEMMA SingleOrdered ==
    ASSUME NEW S, NEW x \in S, NEW R
    PROVE  <<x>> \in Seq(S) /\ Len(<<x>>) = 1 /\ ToSet(<<x>>) = {x} /\ Ordered(<<x>>, R)
  <1>1. DOMAIN <<x>> = {1} /\ <<x>>[1] = x OBVIOUS
  <1> QED BY <1>1 DEF ToSet, Ordered

\* Adding an element at the end.
LEMMA OrderedAppend ==
    ASSUME NEW S, NEW s \in Seq(S), NEW x \in S, NEW R
    PROVE  /\ Append(s, x) \in Seq(S)
           /\ Len(Append(s, x)) = Len(s) + 1
           /\ ToSet(Append(s, x)) = ToSet(s) \cup {x}
           /\ Ordered(s, R) /\ ToSet(s) \X {x} \subseteq R => Ordered(Append(s, x), R)
  <1>1. <<x>> \in Seq(S) /\ Len(<<x>>) = 1 /\ ToSet(<<x>>) = {x} /\ Ordered(<<x>>, R)
    BY SingleOrdered
  <1>2. Append(s, x) = s \o <<x>> BY AppendIsConcat
  <1> DEFINE e == <<x>>
  <1> HIDE DEF e
  <1>3. e \in Seq(S) /\ Len(e) = 1 /\ ToSet(e) = {x} /\ Ordered(e, R) /\ Append(s, x) = s \o e
    BY <1>1, <1>2 DEF e
  <1>4. /\ s \o e \in Seq(S)
        /\ Len(s \o e) = Len(s) + Len(e)
        /\ ToSet(s \o e) = ToSet(s) \cup ToSet(e)
        /\ Ordered(s, R) /\ Ordered(e, R) /\ ToSet(s) \X ToSet(e) \subseteq R => Ordered(s \o e, R)
    BY <1>3, OrderedConcat
  <1> QED BY <1>3, <1>4

\* Cutting a sequence in two.
LEMMA Cut ==
    ASSUME NEW S, NEW s \in Seq(S), NEW n \in 0 .. Len(s)
    PROVE  LET p == SubSeq(s, 1, n)
               q == SubSeq(s, n + 1, Len(s))
           IN  /\ p \in Seq(S) /\ Len(p) = n
               /\ q \in Seq(S) /\ Len(q) = Len(s) - n
               /\ p \o q = s
  <1> DEFINE m == Len(s)
             p == SubSeq(s, 1, n)
             q == SubSeq(s, n + 1, m)
  <1>1. m \in Nat /\ s \in [1 .. m -> S] /\ n \in 0 .. m BY LenProperties
  <1>2. \A i \in 1 .. m : s[i] \in S BY <1>1
  <1>3. SubSeq(s, 1, m) = s BY SubSeqFull
  <1>4. \A k \in m .. m : 1 \in 1 .. m + 1 => SubSeq(s, 1, n) \o SubSeq(s, n + 1, m) = SubSeq(s, 1, m)
    <2>1. 1 \in 1 .. Len(s) + 1 /\ n \in 1 - 1 .. Len(s) /\ Len(s) \in n .. Len(s)
      BY <1>1
    <2> QED BY <2>1, ConcatAdjacentSubSeq
  <1> HIDE DEF m
  <1>5. n \in Nat /\ n + 1 \in Int /\ m \in Int /\ n <= m BY <1>1
  <1>6. p \in Seq(S) /\ Len(p) = n
    <2>1. \A i \in 1 .. n : s[i] \in S BY <1>1, <1>2
    <2> HIDE DEF p
    <2>2. p \in Seq(S) /\ Len(p) = IF 1 <= n THEN n - 1 + 1 ELSE 0 BY <1>5, <2>1, SubSeqProperties DEF p
    <2> QED BY <1>5, <2>2
  <1>7. q \in Seq(S) /\ Len(q) = m - n
    <2>1. \A i \in n + 1 .. m : s[i] \in S BY <1>1, <1>2, <1>5
    <2> HIDE DEF q
    <2>2. q \in Seq(S) /\ Len(q) = IF n + 1 <= m THEN m - (n + 1) + 1 ELSE 0
      BY <1>5, <2>1, SubSeqProperties DEF q
    <2> QED BY <1>5, <2>2
  <1>8. p \o q = s BY <1>1, <1>3, <1>4
  <1> QED BY <1>6, <1>7, <1>8 DEF m

\* A sequence that is not empty is its head and the rest.
LEMMA HeadAndRest ==
    ASSUME NEW S, NEW s \in Seq(S), s # <<>>
    PROVE  Head(s) \in S /\ Tail(s) \in Seq(S) /\ <<Head(s)>> \o Tail(s) = s
  <1> DEFINE h == <<Head(s)>>
             t == Tail(s)
  <1>1. /\ Head(s) \in S /\ t \in Seq(S) /\ Len(t) = Len(s) - 1
        /\ \A i \in 1 .. Len(t) : t[i] = s[i + 1]
    BY HeadTailProperties
  <1>2. Len(s) \in Nat /\ Len(s) # 0 BY EmptySeq, LenProperties
  <1>3. h \in Seq(S) /\ Len(h) = 1 /\ h[1] = s[1] BY <1>1
  <1> HIDE DEF h, t
  <1>4. h \o t \in Seq(S) /\ Len(h \o t) = Len(s)
    <2>1. h \o t \in Seq(S) /\ Len(h \o t) = Len(h) + Len(t) BY <1>1, <1>3, ConcatProperties
    <2> QED BY <1>1, <1>2, <1>3, <2>1
  <1>5. ASSUME NEW i \in 1 .. Len(h \o t) PROVE (h \o t)[i] = s[i]
    <2>1. (h \o t)[i] = IF i <= 1 THEN h[i] ELSE t[i - 1] BY <1>1, <1>3, <1>4, <1>5, ConcatProperties
    <2>2. CASE i <= 1
      <3>1. i = 1 BY <1>2, <1>4, <2>2
      <3> QED BY <1>3, <2>1, <3>1
    <2>3. CASE ~(i <= 1)
      <3>1. i - 1 \in 1 .. Len(t) /\ (i - 1) + 1 = i BY <1>1, <1>2, <1>4, <2>3
      <3> QED BY <1>1, <2>1, <2>3, <3>1
    <2> QED BY <2>2, <2>3
  <1>6. h \o t = s BY <1>4, <1>5, SeqEqual
  <1> QED BY <1>1, <1>6 DEF h, t

\* A sequence in an irreflexive order has as many elements as positions.
LEMMA OrderedCounts ==
    ASSUME NEW S, NEW s \in Seq(S), NEW R, Ordered(s, R), \A x \in S : <<x, x>> \notin R
    PROVE  IsInjective(s) /\ Cardinality(ToSet(s)) = Len(s)
  <1>1. Len(s) \in Nat /\ DOMAIN s = 1 .. Len(s) /\ s \in [1 .. Len(s) -> S] BY LenProperties
  <1>2. ASSUME NEW i \in 1 .. Len(s), NEW j \in 1 .. Len(s), s[i] = s[j] PROVE i = j
    <2>1. s[i] \in S BY <1>1
    <2>2. ~(i < j) /\ ~(j < i) BY <1>1, <1>2, <2>1 DEF Ordered
    <2> QED BY <1>1, <2>2
  <1>3. IsInjective(s) BY <1>1, <1>2 DEF IsInjective
  <1>4. s \in Bijection(1 .. Len(s), ToSet(s))
    BY <1>1, <1>3 DEF Bijection, Injection, Surjection, ToSet
  <1>5. ExistsBijection(1 .. Len(s), ToSet(s)) BY <1>4 DEF ExistsBijection
  <1>6. \A n \in Nat : IsFiniteSet(1 .. n) /\ Cardinality(1 .. n) = n BY FS_Interval
  <1>7. IsFiniteSet(1 .. Len(s)) /\ Cardinality(1 .. Len(s)) = Len(s) BY <1>1, <1>6
  <1> QED BY <1>3, <1>5, <1>7, FS_Bijection

-----------------------------------------------------------------------------
(* Chosen.                                                                 *)

\* The rank of an element of a finite set of numbers.
Rank(I, i) == Cardinality({j \in I : j <= i})

\* Ranks grow with the elements and run from 1 to the size of the set.
LEMMA RankGrows ==
    ASSUME NEW I \in SUBSET Nat, IsFiniteSet(I)
    PROVE  /\ \A i \in I : Rank(I, i) \in 1 .. Cardinality(I)
           /\ \A i, j \in I : i < j => Rank(I, i) < Rank(I, j)
  <1>1. Cardinality(I) \in Nat BY FS_CardinalityType
  <1>2. ASSUME NEW i \in I PROVE Rank(I, i) \in 1 .. Cardinality(I)
    <2> DEFINE L == {j \in I : j <= i}
    <2>1. IsFiniteSet(L) /\ Cardinality(L) <= Cardinality(I) BY FS_Subset
    <2>2. Cardinality(L) \in Nat BY <2>1, FS_CardinalityType
    <2>3. i \in L OBVIOUS
    <2>4. Cardinality(L) # 0 BY <2>1, <2>3, FS_EmptySet
    <2> HIDE DEF L
    <2>5. Cardinality(L) \in 1 .. Cardinality(I) BY <1>1, <2>1, <2>2, <2>4
    <2> QED BY <2>5 DEF Rank, L
  <1>3. ASSUME NEW i \in I, NEW j \in I, i < j PROVE Rank(I, i) < Rank(I, j)
    <2> DEFINE L == {k \in I : k <= i}
               M == {k \in I : k <= j}
    <2>1. IsFiniteSet(M) BY FS_Subset
    <2>2. L \in SUBSET M /\ j \in M /\ j \notin L
      <3>1. i \in Nat /\ j \in Nat /\ \A k \in I : k \in Nat OBVIOUS
      <3>2. \A k \in I : k <= i => k <= j BY <1>3, <3>1
      <3>3. ~(j <= i) BY <1>3, <3>1
      <3>4. L \in SUBSET M BY <3>2
      <3> QED BY <3>3, <3>4
    <2> HIDE DEF L, M
    <2>3. IsFiniteSet(L) /\ Cardinality(L) <= Cardinality(M) /\ Cardinality(L) # Cardinality(M)
      BY <2>1, <2>2, FS_Subset
    <2>4. Cardinality(L) \in Nat /\ Cardinality(M) \in Nat BY <2>1, <2>3, FS_CardinalityType
    <2>5. Cardinality(L) < Cardinality(M) BY <2>3, <2>4
    <2> QED BY <2>5 DEF Rank, L, M
  <1> QED BY <1>2, <1>3

\* So every rank is the rank of one element, and Ranked finds it.
LEMMA RankedIsInverse ==
    ASSUME NEW I \in SUBSET Nat, IsFiniteSet(I)
    PROVE  /\ \A k \in 1 .. Cardinality(I) : Ranked(I, k) \in I /\ Rank(I, Ranked(I, k)) = k
           /\ \A i \in I : Ranked(I, Rank(I, i)) = i
  <1> DEFINE n == Cardinality(I)
             rank == [i \in I |-> Rank(I, i)]
  <1>1. n \in Nat BY FS_CardinalityType
  <1>2. rank \in [I -> 1 .. n] BY RankGrows
  <1>3. ASSUME NEW i \in I, NEW j \in I, Rank(I, i) = Rank(I, j) PROVE i = j
    <2>1. i \in Nat /\ j \in Nat OBVIOUS
    <2>2. Rank(I, i) \in 1 .. n /\ Rank(I, j) \in 1 .. n BY RankGrows
    <2>3. ~(i < j) /\ ~(j < i) BY <1>1, <1>3, <2>2, RankGrows
    <2> QED BY <2>1, <2>3
  <1>4. rank \in Injection(I, 1 .. n) BY <1>2, <1>3 DEF Injection, IsInjective
  <1>5. IsFiniteSet(1 .. n) /\ Cardinality(1 .. n) = n BY <1>1, FS_Interval
  <1>6. rank \in Surjection(I, 1 .. n) BY <1>4, <1>5, FS_Injection
  <1>7. \A k \in 1 .. n : \E i \in I : Rank(I, i) = k BY <1>6 DEF Surjection
  <1>8. ASSUME NEW k \in 1 .. n PROVE Ranked(I, k) \in I /\ Rank(I, Ranked(I, k)) = k
    <2>1. PICK i \in I : Rank(I, i) = k BY <1>7
    <2> QED BY <2>1 DEF Ranked, Rank
  <1>9. ASSUME NEW i \in I PROVE Ranked(I, Rank(I, i)) = i
    <2>1. Rank(I, i) \in 1 .. n BY RankGrows
    <2>2. Ranked(I, Rank(I, i)) \in I /\ Rank(I, Ranked(I, Rank(I, i))) = Rank(I, i) BY <1>8, <2>1
    <2> QED BY <1>3, <2>2
  <1> QED BY <1>8, <1>9

\* What is chosen from a sequence: the elements at the positions, as many as
\* the positions, in the order they had.
LEMMA ChosenProperties ==
    ASSUME NEW S, NEW s \in Seq(S), NEW I \in SUBSET DOMAIN s, NEW R
    PROVE  /\ Chosen(s, I) \in Seq(S)
           /\ IsFiniteSet(I) /\ Len(Chosen(s, I)) = Cardinality(I)
           /\ ToSet(Chosen(s, I)) = {s[i] : i \in I}
           /\ Ordered(s, R) => Ordered(Chosen(s, I), R)
  <1> DEFINE n == Cardinality(I)
             t == Chosen(s, I)
  <1>1. Len(s) \in Nat /\ DOMAIN s = 1 .. Len(s) /\ s \in [1 .. Len(s) -> S] BY LenProperties
  <1>2. IsFiniteSet(I) /\ I \in SUBSET Nat
    <2>1. IsFiniteSet(1 .. Len(s)) BY <1>1, FS_Interval
    <2> QED BY <1>1, <2>1, FS_Subset
  <1>3. n \in Nat BY <1>2, FS_CardinalityType
  <1>4. \A k \in 1 .. n : Ranked(I, k) \in I /\ Rank(I, Ranked(I, k)) = k BY <1>2, RankedIsInverse
  <1>5. t = [k \in 1 .. n |-> s[Ranked(I, k)]] BY DEF Chosen
  <1>6. t \in [1 .. n -> S] BY <1>1, <1>4, <1>5
  <1>7. t \in Seq(S) BY <1>3, <1>6, SeqDef
  <1>8. Len(t) = n /\ DOMAIN t = 1 .. n
    <2>1. DOMAIN t = 1 .. n BY <1>5
    <2>2. DOMAIN t = 1 .. Len(t) /\ Len(t) \in Nat BY <1>7, LenProperties
    <2> HIDE DEF t, n
    <2>3. Len(t) = n BY <1>3, <2>1, <2>2
    <2> QED BY <2>1, <2>3
  <1>9. ToSet(t) = {s[i] : i \in I}
    <2>1. \A k \in 1 .. n : t[k] \in {s[i] : i \in I} BY <1>4, <1>5
    <2>2. ASSUME NEW i \in I PROVE \E k \in 1 .. n : t[k] = s[i]
      <3>1. Rank(I, i) \in 1 .. n BY <1>2, RankGrows
      <3>2. Ranked(I, Rank(I, i)) = i BY <1>2, RankedIsInverse
      <3> QED BY <1>5, <3>1, <3>2
    <2> HIDE DEF t, n
    <2> QED BY <1>8, <2>1, <2>2 DEF ToSet
  <1>10. ASSUME Ordered(s, R), NEW k \in 1 .. n, NEW l \in 1 .. n, k < l PROVE <<t[k], t[l]>> \in R
    <2> DEFINE i == Ranked(I, k)
               j == Ranked(I, l)
    <2>1. i \in I /\ j \in I /\ Rank(I, i) = k /\ Rank(I, j) = l BY <1>4
    <2>2. t[k] = s[i] /\ t[l] = s[j] BY <1>5
    <2> HIDE DEF i, j
    <2>3. i # j /\ ~(j < i)
      <3>1. k \in Nat /\ l \in Nat BY <1>3
      <3> QED BY <1>2, <1>10, <2>1, <3>1, RankGrows
    <2>4. i < j BY <1>2, <2>1, <2>3
    <2> QED BY <1>10, <2>1, <2>2, <2>4 DEF Ordered
  <1> HIDE DEF t, n
  <1>11. Ordered(s, R) => Ordered(t, R) BY <1>8, <1>10 DEF Ordered
  <1> QED BY <1>2, <1>7, <1>8, <1>9, <1>11 DEF t, n

-----------------------------------------------------------------------------
(* Weight.                                                                 *)

\* A finite set has a weight, and nothing weighs nothing.
LEMMA WeightType ==
    ASSUME NEW T, NEW size \in [T -> Nat], NEW A \in SUBSET T, IsFiniteSet(A)
    PROVE  IsFiniteSet(Units(size, A)) /\ Weight(size, A) \in Nat
  <1> DEFINE part == [r \in A |-> {r} \X (1 .. size[r])]
             Parts == {{r} \X (1 .. size[r]) : r \in A}
  <1>1. part \in Surjection(A, Parts) BY DEF Surjection
  <1>2. IsFiniteSet(Parts) BY <1>1, FS_Surjection
  <1>3. ASSUME NEW r \in A PROVE IsFiniteSet({r} \X (1 .. size[r]))
    <2>1. 1 \in Int /\ size[r] \in Int OBVIOUS
    <2>2. IsFiniteSet({r}) /\ IsFiniteSet(1 .. size[r]) BY <2>1, FS_Singleton, FS_Interval
    <2> QED BY <2>2, FS_Product
  <1>4. \A P \in Parts : IsFiniteSet(P) BY <1>3
  <1>5. IsFiniteSet(UNION Parts) BY <1>2, <1>4, FS_UNION
  <1> QED BY <1>5, FS_CardinalityType DEF Units, Weight

LEMMA WeightOfNone == ASSUME NEW size PROVE Weight(size, {}) = 0
  <1>1. Units(size, {}) = {} BY DEF Units
  <1> QED BY <1>1, FS_EmptySet DEF Weight

\* One element weighs its size.
LEMMA WeightOfOne ==
    ASSUME NEW T, NEW size \in [T -> Nat], NEW r \in T
    PROVE  Weight(size, {r}) = size[r]
  <1> DEFINE n == size[r]
  <1>1. n \in Nat OBVIOUS
  <1>2. Units(size, {r}) = {r} \X (1 .. n) BY DEF Units
  <1> HIDE DEF n
  <1>3. IsFiniteSet(1 .. n) /\ Cardinality(1 .. n) = n BY <1>1, FS_Interval
  <1> DEFINE f == [k \in 1 .. n |-> <<r, k>>]
  <1>4. f \in Bijection(1 .. n, {r} \X (1 .. n))
    BY DEF Bijection, Injection, Surjection, IsInjective
  <1>5. Cardinality({r} \X (1 .. n)) = n
    <2>1. ExistsBijection(1 .. n, {r} \X (1 .. n)) BY <1>4 DEF ExistsBijection
    <2> QED BY <1>3, <2>1, FS_Bijection
  <1> QED BY <1>2, <1>5 DEF Weight, n

\* Disjoint sets weigh together what each weighs.
LEMMA WeightAdds ==
    ASSUME NEW T, NEW size \in [T -> Nat], NEW A \in SUBSET T, NEW B \in SUBSET T,
           IsFiniteSet(A), IsFiniteSet(B), A \cap B = {}
    PROVE  /\ IsFiniteSet(A \cup B)
           /\ Weight(size, A \cup B) = Weight(size, A) + Weight(size, B)
  <1> DEFINE a == Units(size, A)
             b == Units(size, B)
  <1>1. IsFiniteSet(a) /\ IsFiniteSet(b) BY WeightType
  <1>2. Units(size, A \cup B) = a \cup b BY DEF Units
  <1>3. a \cap b = {} BY DEF Units
  <1> HIDE DEF a, b
  <1>4. Cardinality(a \cup b) = Cardinality(a) + Cardinality(b) - Cardinality(a \cap b)
    BY <1>1, FS_Union
  <1>5. Cardinality(a \cap b) = 0 BY <1>3, FS_EmptySet
  <1>6. Cardinality(a) \in Nat /\ Cardinality(b) \in Nat BY <1>1, FS_CardinalityType
  <1>7. Cardinality(a \cup b) = Cardinality(a) + Cardinality(b) BY <1>4, <1>5, <1>6
  <1>8. IsFiniteSet(A \cup B) BY FS_Union
  <1> QED BY <1>2, <1>7, <1>8 DEF Weight, a, b

\* What is taken out of a set is its weight less.
LEMMA WeightTaken ==
    ASSUME NEW T, NEW size \in [T -> Nat], NEW A \in SUBSET T, NEW B \in SUBSET A,
           IsFiniteSet(A)
    PROVE  /\ IsFiniteSet(B) /\ IsFiniteSet(A \ B)
           /\ Weight(size, A \ B) = Weight(size, A) - Weight(size, B)
           /\ Weight(size, B) <= Weight(size, A)
  <1> DEFINE C == A \ B
  <1>1. IsFiniteSet(B) /\ IsFiniteSet(C) /\ B \in SUBSET T /\ C \in SUBSET T BY FS_Subset
  <1>2. A = C \cup B /\ C \cap B = {} OBVIOUS
  <1> HIDE DEF C
  <1>3. Weight(size, C \cup B) = Weight(size, C) + Weight(size, B) BY <1>1, <1>2, WeightAdds
  <1>4. Weight(size, C) \in Nat /\ Weight(size, B) \in Nat BY <1>1, WeightType
  <1>5. Weight(size, A) = Weight(size, C) + Weight(size, B) BY <1>2, <1>3
  <1> QED BY <1>1, <1>4, <1>5 DEF C

\* Disjoint finite sets have together as many elements as each.
LEMMA CountAdds ==
    ASSUME NEW A, NEW B, IsFiniteSet(A), IsFiniteSet(B), A \cap B = {}
    PROVE  /\ IsFiniteSet(A \cup B)
           /\ Cardinality(A \cup B) = Cardinality(A) + Cardinality(B)
  <1>1. IsFiniteSet(A \cup B) /\ Cardinality(A \cup B) = Cardinality(A) + Cardinality(B) - Cardinality(A \cap B)
    BY FS_Union
  <1>2. Cardinality(A \cap B) = 0 BY FS_EmptySet
  <1>3. Cardinality(A) \in Nat /\ Cardinality(B) \in Nat BY FS_CardinalityType
  <1> QED BY <1>1, <1>2, <1>3

-----------------------------------------------------------------------------
(* The inductive invariant.                                                *)

\* Pairs of records in the order they were held.
Ahead == {p \in Records \X Records : p[1] # p[2] /\ PushedBefore(p[1], p[2])}

\* The records a flush has taken, and those that answer to the buffer.
Flying == ToSet(batch) \cup ToSet(kept) \cup ToSet(pending)
Kept == ToSet(kept) \cup ToSet(pending) \cup (IF stage = "settled" THEN {} ELSE ToSet(batch))

Reserved == {r \in Records : place[r] = "reserved"}
Held == {r \in Records : place[r] = "held"}
Lost == {r \in Records : place[r] \in {"dropped", "refused"}}
Replayed == {r \in Records : place[r] = "delivered"}

\* The steps of a flush.
StageInv ==
    /\ stage = "none" => flushBy = Nobody /\ batch = <<>> /\ kept = <<>> /\ pending = <<>>
    /\ stage # "none" => flushBy # Nobody
    /\ stage = "sending" => kept = <<>>
    /\ stage = "settled" => ToSet(kept) \subseteq ToSet(batch)
    /\ stage = "ending" => batch = <<>>

\* The line.
LineInv ==
    /\ Ordered(events, Ahead) /\ Ordered(batch, Ahead)
    /\ Ordered(kept, Ahead) /\ Ordered(pending, Ahead)
    /\ Flying \X ToSet(events) \subseteq Ahead
    /\ (ToSet(batch) \cup ToSet(kept)) \X ToSet(pending) \subseteq Ahead
    /\ Flying \cup ToSet(events) \subseteq ToSet(pushed)

\* Where the records of the line are.
PlaceInv ==
    /\ Held = ToSet(events) \cup Kept
    /\ \A r \in Flying : place[r] \in {"held", "delivered", "refused"}

BytesInv ==
    /\ queuedBytes = Weight(Size, ToSet(events))
    /\ inFlightBytes = Weight(Size, Flying)
    /\ IsFiniteSet(Reserved)
    /\ sendingBytes = Weight(Size, Reserved)
    /\ inFlight = Cardinality(Flying)

CountInv ==
    /\ IsFiniteSet(Lost) /\ eventsEvicted = Cardinality(Lost)
    /\ IsFiniteSet(Replayed) /\ eventsReplayed = Cardinality(Replayed)

ShapeInv == StageInv /\ LineInv /\ PlaceInv
BufferInv ==
    /\ BufferTypeOK /\ ShapeInv /\ BytesInv /\ WithinLimits /\ CountInv /\ WarningsRearmed

-----------------------------------------------------------------------------
(* Data.                                                                   *)

\* No record is ahead of itself.
LEMMA AheadIrreflexive == \A r \in Records : <<r, r>> \notin Ahead
  BY DEF Ahead

\* A part of the line is a finite set of as many records as it is long.
LEMMA PartCounts ==
    ASSUME NEW s \in Seq(Records), Ordered(s, Ahead)
    PROVE  /\ ToSet(s) \in SUBSET Records /\ IsFiniteSet(ToSet(s))
           /\ Cardinality(ToSet(s)) = Len(s) /\ Len(s) \in Nat
           /\ IsInjective(s)
  BY AheadIrreflexive, OrderedCounts, ElementsTyped, LenProperties

\* What two sets of records weigh together.
LEMMA RecordsWeigh ==
    ASSUME NEW A \in SUBSET Records, NEW B \in SUBSET Records, IsFiniteSet(A), IsFiniteSet(B),
           A \cap B = {}
    PROVE  /\ Weight(Size, A) \in Nat /\ Weight(Size, B) \in Nat
           /\ Weight(Size, A \cup B) = Weight(Size, A) + Weight(Size, B)
           /\ Cardinality(A \cup B) = Cardinality(A) + Cardinality(B)
  <1>1. Size \in [Records -> Nat] BY BufferAssumption
  <1>2. Weight(Size, A) \in Nat /\ Weight(Size, B) \in Nat BY <1>1, WeightType
  <1>3. Weight(Size, A \cup B) = Weight(Size, A) + Weight(Size, B) BY <1>1, WeightAdds
  <1>4. Cardinality(A \cup B) = Cardinality(A) + Cardinality(B) BY CountAdds
  <1> QED BY <1>2, <1>3, <1>4

\* What two parts of the line are together.
LEMMA PartsTogether ==
    ASSUME NEW s \in Seq(Records), Ordered(s, Ahead), NEW u \in Seq(Records), Ordered(u, Ahead),
           ToSet(s) \cap ToSet(u) = {}
    PROVE  /\ Weight(Size, ToSet(s)) \in Nat /\ Weight(Size, ToSet(u)) \in Nat
           /\ Weight(Size, ToSet(s) \cup ToSet(u)) = Weight(Size, ToSet(s)) + Weight(Size, ToSet(u))
           /\ Cardinality(ToSet(s) \cup ToSet(u)) = Len(s) + Len(u)
  <1>1. /\ ToSet(s) \in SUBSET Records /\ IsFiniteSet(ToSet(s)) /\ Cardinality(ToSet(s)) = Len(s)
        /\ ToSet(u) \in SUBSET Records /\ IsFiniteSet(ToSet(u)) /\ Cardinality(ToSet(u)) = Len(u)
    BY PartCounts
  <1>2. /\ Weight(Size, ToSet(s)) \in Nat /\ Weight(Size, ToSet(u)) \in Nat
        /\ Weight(Size, ToSet(s) \cup ToSet(u)) = Weight(Size, ToSet(s)) + Weight(Size, ToSet(u))
        /\ Cardinality(ToSet(s) \cup ToSet(u)) = Cardinality(ToSet(s)) + Cardinality(ToSet(u))
    BY <1>1, RecordsWeigh
  <1> QED BY <1>1, <1>2

\* Two parts of which one is ahead of the other have no record in common.
LEMMA PartsApart ==
    ASSUME NEW A \in SUBSET Records, NEW B, A \X B \subseteq Ahead
    PROVE  A \cap B = {}
  BY AheadIrreflexive

\* The first n records and the rest.
LEMMA CutRecords ==
    ASSUME NEW s \in Seq(Records), Ordered(s, Ahead), NEW n \in 0 .. Len(s)
    PROVE  LET p == SubSeq(s, 1, n)
               q == SubSeq(s, n + 1, Len(s))
           IN  /\ p \in Seq(Records) /\ q \in Seq(Records)
               /\ Ordered(p, Ahead) /\ Ordered(q, Ahead)
               /\ Len(p) = n /\ Len(q) = Len(s) - n
               /\ ToSet(s) = ToSet(p) \cup ToSet(q)
               /\ ToSet(p) \X ToSet(q) \subseteq Ahead
               /\ ToSet(p) \cap ToSet(q) = {}
               /\ Cardinality(ToSet(p)) = n
               /\ Weight(Size, ToSet(q)) = Weight(Size, ToSet(s)) - Weight(Size, ToSet(p))
  <1> DEFINE p == SubSeq(s, 1, n)
             q == SubSeq(s, n + 1, Len(s))
  <1>1. p \in Seq(Records) /\ q \in Seq(Records) /\ Len(p) = n /\ Len(q) = Len(s) - n /\ p \o q = s
    BY Cut
  <1> HIDE DEF p, q
  <1>2. /\ ToSet(s) = ToSet(p) \cup ToSet(q)
        /\ Ordered(p, Ahead) /\ Ordered(q, Ahead) /\ ToSet(p) \X ToSet(q) \subseteq Ahead
    BY <1>1, OrderedConcat
  <1>3. /\ ToSet(p) \in SUBSET Records /\ IsFiniteSet(ToSet(p)) /\ Cardinality(ToSet(p)) = n
        /\ ToSet(q) \in SUBSET Records /\ IsFiniteSet(ToSet(q))
    BY <1>1, <1>2, PartCounts
  <1>4. ToSet(p) \cap ToSet(q) = {} BY <1>2, <1>3, PartsApart
  <1>5. Size \in [Records -> Nat] BY BufferAssumption
  <1>6. Weight(Size, ToSet(s)) = Weight(Size, ToSet(p)) + Weight(Size, ToSet(q))
    <2>1. Weight(Size, ToSet(p) \cup ToSet(q)) = Weight(Size, ToSet(p)) + Weight(Size, ToSet(q))
      BY <1>3, <1>4, <1>5, WeightAdds
    <2> QED BY <1>2, <2>1
  <1>7. Weight(Size, ToSet(p)) \in Nat /\ Weight(Size, ToSet(q)) \in Nat
    BY <1>3, <1>5, WeightType
  <1>8. Weight(Size, ToSet(q)) = Weight(Size, ToSet(s)) - Weight(Size, ToSet(p)) BY <1>6, <1>7
  <1> QED BY <1>1, <1>2, <1>3, <1>4, <1>8 DEF p, q

\* Eviction stops at the first record that may stay: the limits hold or
\* nothing is left, and with one record more they would not.
LEMMA EvictionStops ==
    ASSUME NEW evs \in Seq(Records), NEW queued, NEW beside, NEW maxRecords, NEW maxBytes,
           NEW n, n = evictOldestUntil(evs, queued, beside, maxRecords, maxBytes)
    PROVE  /\ n \in 0 .. Len(evs)
           /\ \/ n = Len(evs)
              \/ /\ Len(evs) - n <= maxRecords
                 /\ queued - totalHeldBytes(SubSeq(evs, 1, n)) + beside <= maxBytes
           /\ n > 0 => ~ /\ Len(evs) - (n - 1) <= maxRecords
                         /\ queued - totalHeldBytes(SubSeq(evs, 1, n - 1)) + beside <= maxBytes
  <1> DEFINE fits(k) == /\ Len(evs) - k <= maxRecords
                        /\ queued - totalHeldBytes(SubSeq(evs, 1, k)) + beside <= maxBytes
             T == {k \in 0 .. Len(evs) : k = Len(evs) \/ fits(k)}
  <1>1. Len(evs) \in Nat BY LenProperties
  <1>2. T \in SUBSET Nat /\ T # {} BY <1>1
  <1>3. n = Min(T) BY DEF evictOldestUntil
  <1> HIDE DEF T
  <1>4. n \in T /\ \A k \in T : n <= k BY <1>2, <1>3, MinIsLeast
  <1>5. n \in 0 .. Len(evs) /\ (n = Len(evs) \/ fits(n)) BY <1>4 DEF T
  <1>6. n > 0 => ~fits(n - 1)
    <2> SUFFICES ASSUME n > 0, fits(n - 1) PROVE FALSE
      OBVIOUS
    <2> HIDE DEF fits
    <2>1. n - 1 \in 0 .. Len(evs) BY <1>1, <1>5
    <2>2. n - 1 \in T BY <2>1 DEF T
    <2> QED BY <1>1, <1>4, <1>5, <2>2
  <1> QED BY <1>5, <1>6

\* What the invariant says of the parts of the line as sets.
LEMMA PartFacts ==
    ASSUME BufferInv
    PROVE  /\ ToSet(events) \in SUBSET Records /\ IsFiniteSet(ToSet(events))
           /\ Flying \in SUBSET Records /\ IsFiniteSet(Flying)
           /\ Kept \subseteq Flying
           /\ Flying \cap ToSet(events) = {}
           /\ (ToSet(batch) \cup ToSet(kept)) \cap ToSet(pending) = {}
           /\ Flying \cap {r \in Records : place[r] \in {"new", "reserved"}} = {}
           /\ ToSet(events) \subseteq Held
           /\ queuedBytes \in Nat /\ inFlightBytes \in Nat /\ sendingBytes \in Nat
           /\ Size \in [Records -> Nat] /\ \A r \in Records : Size[r] > 0
  <1>0. BufferTypeOK /\ LineInv /\ PlaceInv BY DEF BufferInv, ShapeInv
  <1>1. /\ ToSet(events) \in SUBSET Records /\ IsFiniteSet(ToSet(events))
        /\ ToSet(batch) \in SUBSET Records /\ IsFiniteSet(ToSet(batch))
        /\ ToSet(kept) \in SUBSET Records /\ IsFiniteSet(ToSet(kept))
        /\ ToSet(pending) \in SUBSET Records /\ IsFiniteSet(ToSet(pending))
    BY <1>0, PartCounts DEF BufferTypeOK, LineInv
  <1>2. Flying \in SUBSET Records /\ IsFiniteSet(Flying)
    BY <1>1, FS_Union DEF Flying
  <1>3. Kept \subseteq Flying BY DEF Kept, Flying
  <1>4. Flying \cap ToSet(events) = {} BY <1>0, <1>2, PartsApart DEF LineInv
  <1>5. (ToSet(batch) \cup ToSet(kept)) \cap ToSet(pending) = {}
    BY <1>0, <1>1, PartsApart DEF LineInv
  <1>6. Flying \cap {r \in Records : place[r] \in {"new", "reserved"}} = {}
    BY <1>0 DEF PlaceInv
  <1>7. ToSet(events) \subseteq Held BY <1>0 DEF PlaceInv
  <1>8. queuedBytes \in Nat /\ inFlightBytes \in Nat /\ sendingBytes \in Nat
    BY <1>0 DEF BufferTypeOK
  <1>9. Size \in [Records -> Nat] /\ \A r \in Records : Size[r] > 0 BY BufferAssumption
  <1> QED BY <1>1, <1>2, <1>3, <1>4, <1>5, <1>6, <1>7, <1>8, <1>9

\* A step that leaves the line, the counters and the latches alone.
LEMMA Bookkeeping ==
    ASSUME BufferInv, BufferTypeOK', UNCHANGED <<queue, flight, counters, latches, place, pushed>>
    PROVE  BufferInv'
  <1>0. /\ UNCHANGED <<events, queuedBytes, sendingBytes, inFlight, inFlightBytes, batch, kept, pending>>
        /\ UNCHANGED <<stage, flushBy, eventsReplayed, eventsEvicted, full, resendFull, place, pushed>>
    BY DEF queue, flight, counters, latches
  <1>1. Ahead' = Ahead BY <1>0 DEF Ahead, PushedBefore
  <1>2. Flying' = Flying /\ Kept' = Kept BY <1>0 DEF Flying, Kept
  <1>3. Held' = Held /\ Reserved' = Reserved /\ Lost' = Lost /\ Replayed' = Replayed
    BY <1>0 DEF Held, Reserved, Lost, Replayed
  <1>4. ShapeInv'
    BY <1>0, <1>1, <1>2, <1>3 DEF BufferInv, ShapeInv, StageInv, LineInv, PlaceInv, Ordered
  <1>5. BytesInv' /\ CountInv'
    BY <1>0, <1>2, <1>3 DEF BufferInv, BytesInv, CountInv
  <1>6. WithinLimits' /\ WarningsRearmed'
    BY <1>0 DEF BufferInv, WithinLimits, heldBytes, WarningsRearmed
  <1> QED BY <1>4, <1>5, <1>6 DEF BufferInv

\* A step that moves a record that is not in the line: the line stays.
LEMMA LineStays ==
    ASSUME BufferInv, NEW r \in Records, place[r] \in {"new", "reserved"},
           NEW w \in {"dropped", "released"}, place' = [place EXCEPT ![r] = w],
           UNCHANGED <<events, flight, pushed>>
    PROVE  /\ ShapeInv'
           /\ Flying' = Flying
           /\ Reserved' = Reserved \ {r}
           /\ Lost' = IF w = "dropped" THEN Lost \cup {r} ELSE Lost
           /\ r \notin Lost
           /\ Replayed' = Replayed
           /\ place' \in [Records -> Places]
  <1>0. UNCHANGED <<events, batch, kept, pending, stage, flushBy, pushed>> BY DEF flight
  <1>1. place \in [Records -> Places] BY DEF BufferInv, BufferTypeOK
  <1>2. place' \in [Records -> Places] BY <1>1 DEF Places, Gone
  <1>3. Ahead' = Ahead /\ Flying' = Flying /\ Kept' = Kept
    BY <1>0 DEF Ahead, PushedBefore, Flying, Kept
  <1>4. Held' = Held BY <1>1 DEF Held
  <1>5. \A x \in Flying : place'[x] = place[x] BY <1>1, PartFacts
  <1>6. ShapeInv'
    BY <1>0, <1>3, <1>4, <1>5 DEF BufferInv, ShapeInv, StageInv, LineInv, PlaceInv, Ordered
  <1>7. /\ Reserved' = Reserved \ {r}
        /\ Replayed' = Replayed
        /\ r \notin Lost
    BY <1>1 DEF Reserved, Replayed, Lost
  <1>8. Lost' = IF w = "dropped" THEN Lost \cup {r} ELSE Lost
    BY <1>1 DEF Lost
  <1> QED BY <1>2, <1>3, <1>6, <1>7, <1>8

\* More records are lost and counted.
LEMMA LossesCounted ==
    ASSUME BufferInv, NEW A, IsFiniteSet(A), A \cap Lost = {}, Lost' = Lost \cup A,
           Replayed' = Replayed, eventsEvicted' = eventsEvicted + Cardinality(A),
           UNCHANGED eventsReplayed
    PROVE  CountInv' /\ eventsEvicted' \in Nat /\ eventsReplayed' \in Nat
  <1>1. IsFiniteSet(Lost) /\ eventsEvicted = Cardinality(Lost)
    BY DEF BufferInv, CountInv
  <1>2. IsFiniteSet(Lost \cup A) /\ Cardinality(Lost \cup A) = Cardinality(Lost) + Cardinality(A)
    BY <1>1, CountAdds
  <1>3. CountInv' BY <1>1, <1>2 DEF BufferInv, CountInv
  <1>4. eventsEvicted' \in Nat /\ eventsReplayed' \in Nat
    BY <1>3, FS_CardinalityType DEF CountInv
  <1> QED BY <1>3, <1>4

\* A reservation is given up: the others weigh its bytes less.
LEMMA ReservationEnds ==
    ASSUME BufferInv, NEW r \in Reserved
    PROVE  /\ IsFiniteSet(Reserved \ {r})
           /\ Weight(Size, Reserved \ {r}) = sendingBytes - Size[r]
           /\ sendingBytes - Size[r] \in Nat
           /\ Size[r] <= ByteLimit
  <1>1. Reserved \in SUBSET Records /\ {r} \in SUBSET Reserved /\ r \in Records BY DEF Reserved
  <1>2. IsFiniteSet(Reserved) /\ sendingBytes = Weight(Size, Reserved) BY DEF BufferInv, BytesInv
  <1>3. /\ IsFiniteSet(Reserved \ {r})
        /\ Weight(Size, Reserved \ {r}) = Weight(Size, Reserved) - Weight(Size, {r})
    <2>1. Size \in [Records -> Nat] BY PartFacts
    <2> QED BY <1>1, <1>2, <2>1, WeightTaken
  <1>4. Weight(Size, {r}) = Size[r] BY <1>1, PartFacts, WeightOfOne
  <1>5. Weight(Size, Reserved \ {r}) \in Nat BY <1>1, <1>3, PartFacts, WeightType
  <1>6. Size[r] \in Nat BY <1>1, PartFacts
  <1>7. Size[r] <= sendingBytes BY <1>2, <1>3, <1>4, <1>5, <1>6, PartFacts
  <1>8. sendingBytes <= ByteLimit BY PartFacts, BufferAssumption DEF BufferInv, WithinLimits, heldBytes
  <1> QED BY <1>2, <1>3, <1>4, <1>5, <1>6, <1>7, <1>8, PartFacts, BufferAssumption

-----------------------------------------------------------------------------
(* What the client asks of the buffer.                                     *)

\* While nothing is in a first send, queued or flying, what is endOutage's
\* re-arms both warnings.
LEMMA OutageEnds ==
    ASSUME NEW sending, endOutage(sending)
    PROVE  /\ sending = 0 => ~full' /\ ~resendFull'
           /\ full \in BOOLEAN /\ resendFull \in BOOLEAN => full' \in BOOLEAN /\ resendFull' \in BOOLEAN
  <1>1. 0 <= ByteLimit \div 2 BY BufferAssumption
  <1>2. sending = 0 => sending <= ByteLimit \div 2 BY <1>1
  <1>3. sending = 0 => ~full' /\ ~resendFull' BY <1>2, Zenon DEF endOutage
  <1>4. full \in BOOLEAN /\ resendFull \in BOOLEAN => full' \in BOOLEAN /\ resendFull' \in BOOLEAN
    BY Zenon DEF endOutage
  <1> QED BY <1>3, <1>4

\* Nothing flies when no flush is under way.
LEMMA NothingFlies ==
    ASSUME ShapeInv, flushBy = Nobody
    PROVE  Flying = {} /\ batch = <<>> /\ kept = <<>> /\ pending = <<>> /\ stage = "none"
  <1>1. stage = "none" BY DEF ShapeInv, StageInv
  <1>2. batch = <<>> /\ kept = <<>> /\ pending = <<>> BY <1>1 DEF ShapeInv, StageInv
  <1> QED BY <1>1, <1>2, EmptyOrdered DEF Flying

LEMMA NothingFlying ==
    ASSUME BufferInv, flushBy = Nobody
    PROVE  Flying = {} /\ inFlight = 0 /\ inFlightBytes = 0
  <1>1. Flying = {} BY NothingFlies DEF BufferInv
  <1> QED BY <1>1, FS_EmptySet, WeightOfNone DEF BufferInv, BytesInv

\* ReleaseSend keeps the invariant.
LEMMA ReleaseSendKeeps ==
    ASSUME BufferInv, NEW r \in Records, ReleaseSend(r)
    PROVE  BufferInv'
  <1>0. /\ place[r] = "reserved" /\ place' = [place EXCEPT ![r] = "released"]
        /\ sendingBytes' = sendingBytes - Size[r]
        /\ UNCHANGED <<events, queuedBytes, flight, counters, monitor, loop, stopped, asking, world, pushed>>
    BY DEF ReleaseSend
  <1>1. /\ ShapeInv' /\ Flying' = Flying /\ Reserved' = Reserved \ {r}
        /\ Lost' = Lost /\ Replayed' = Replayed /\ place' \in [Records -> Places]
    BY <1>0, LineStays
  <1>2. r \in Reserved BY <1>0 DEF Reserved
  <1>3. /\ IsFiniteSet(Reserved') /\ sendingBytes' = Weight(Size, Reserved')
        /\ sendingBytes' \in Nat /\ sendingBytes' <= sendingBytes
    BY <1>0, <1>1, <1>2, ReservationEnds, PartFacts
  <1>4. BytesInv' BY <1>0, <1>1, <1>3 DEF BufferInv, BytesInv, flight
  <1>5. CountInv' BY <1>0, <1>1 DEF BufferInv, CountInv, counters
  <1>6. UNCHANGED <<events, queuedBytes, inFlightBytes, inFlight, batch, kept, pending, stage, flushBy>>
    BY <1>0 DEF flight
  <1>7. WithinLimits'
    BY <1>3, <1>6, PartFacts, BufferAssumption DEF BufferInv, WithinLimits, heldBytes
  <1>8. IF events = <<>> /\ inFlight = 0 THEN endOutage(sendingBytes') ELSE UNCHANGED latches
    BY DEF ReleaseSend
  <1>9. full \in BOOLEAN /\ resendFull \in BOOLEAN BY DEF BufferInv, BufferTypeOK
  <1>10. full' \in BOOLEAN /\ resendFull' \in BOOLEAN
    BY <1>8, <1>9, OutageEnds DEF latches
  <1>11. BufferTypeOK'
    BY <1>0, <1>1, <1>3, <1>6, <1>10
    DEF BufferInv, BufferTypeOK, counters, monitor, world
  <1>12. WarningsRearmed'
    <2> SUFFICES ASSUME events' = <<>>, sendingBytes' = 0, flushBy' = Nobody
                 PROVE  ~full' /\ ~resendFull'
      BY DEF WarningsRearmed
    <2>1. inFlight = 0 BY <1>6, NothingFlying
    <2> QED BY <1>6, <1>8, <2>1, OutageEnds
  <1> QED BY <1>1, <1>4, <1>5, <1>7, <1>11, <1>12 DEF BufferInv

\* NeverHeld keeps the invariant.
LEMMA NeverHeldKeeps ==
    ASSUME BufferInv, NEW r \in Records, NeverHeld(r)
    PROVE  BufferInv'
  <1>0. /\ place[r] = "new" /\ place' = [place EXCEPT ![r] = "released"]
        /\ UNCHANGED <<queue, flight, counters, latches, monitor, loop, stopped, asking, world, pushed>>
    BY DEF NeverHeld
  <1>1. /\ ShapeInv' /\ Flying' = Flying /\ Reserved' = Reserved \ {r}
        /\ Lost' = Lost /\ Replayed' = Replayed /\ place' \in [Records -> Places]
    BY <1>0, LineStays DEF queue
  <1>2. Reserved' = Reserved BY <1>0, <1>1 DEF Reserved
  <1>3. /\ UNCHANGED <<events, queuedBytes, sendingBytes, inFlightBytes, inFlight, batch, kept, pending>>
        /\ UNCHANGED <<stage, flushBy, eventsEvicted, eventsReplayed, full, resendFull>>
    BY <1>0 DEF flight, queue, counters, latches
  <1>4. BytesInv' /\ CountInv' /\ WithinLimits' /\ WarningsRearmed'
    BY <1>1, <1>2, <1>3
    DEF BufferInv, BytesInv, CountInv, WithinLimits, heldBytes, WarningsRearmed
  <1>5. BufferTypeOK' BY <1>0, <1>1, <1>3 DEF BufferInv, BufferTypeOK, monitor, world
  <1> QED BY <1>1, <1>4, <1>5 DEF BufferInv

\* A record that does not fit is dropped, told by one of the latches unless it
\* could never fit.
LEMMA RefusalKeeps ==
    ASSUME BufferInv, NEW r \in Records, place[r] \in {"new", "reserved"},
           place' = [place EXCEPT ![r] = "dropped"],
           sendingBytes' = IF r \in Reserved THEN sendingBytes - Size[r] ELSE sendingBytes,
           ~fitsBesideUndroppable(sendingBytes', Size[r]),
           full' \in {full, full \/ Size[r] <= ByteLimit},
           resendFull' \in {resendFull, resendFull \/ Size[r] <= ByteLimit},
           eventsEvicted' = eventsEvicted + 1,
           UNCHANGED <<events, queuedBytes, flight, eventsReplayed, monitor, loop, stopped, asking, world, pushed>>
    PROVE  BufferInv'
  <1>1. /\ ShapeInv' /\ Flying' = Flying /\ Reserved' = Reserved \ {r}
        /\ Lost' = Lost \cup {r} /\ r \notin Lost
        /\ Replayed' = Replayed /\ place' \in [Records -> Places]
    BY LineStays
  <1>2. /\ IsFiniteSet(Reserved') /\ sendingBytes' = Weight(Size, Reserved')
        /\ sendingBytes' \in Nat /\ sendingBytes' <= sendingBytes
        /\ r \in Reserved => Size[r] <= ByteLimit
    <2>1. CASE r \in Reserved BY <1>1, <2>1, ReservationEnds, PartFacts
    <2>2. CASE r \notin Reserved
      <3>1. Reserved' = Reserved BY <1>1, <2>2
      <3> QED BY <2>2, <3>1, PartFacts DEF BufferInv, BytesInv
    <2> QED BY <2>1, <2>2
  <1>3. BytesInv' BY <1>1, <1>2 DEF BufferInv, BytesInv, flight
  <1>4. CountInv' /\ eventsEvicted' \in Nat /\ eventsReplayed' \in Nat
    <2>1. IsFiniteSet({r}) /\ Cardinality({r}) = 1 BY FS_Singleton
    <2>2. {r} \cap Lost = {} BY <1>1
    <2> QED BY <1>1, <2>1, <2>2, LossesCounted
  <1>5. UNCHANGED <<events, queuedBytes, inFlightBytes, inFlight, batch, kept, pending, stage, flushBy>>
    BY DEF flight
  <1>6. WithinLimits'
    BY <1>2, <1>5, PartFacts, BufferAssumption DEF BufferInv, WithinLimits, heldBytes
  <1>7. full \in BOOLEAN /\ resendFull \in BOOLEAN BY DEF BufferInv, BufferTypeOK
  <1>8. full' \in BOOLEAN /\ resendFull' \in BOOLEAN BY <1>7
  <1>9. BufferTypeOK'
    BY <1>1, <1>2, <1>4, <1>5, <1>8 DEF BufferInv, BufferTypeOK, monitor, world
  <1>10. WarningsRearmed'
    <2> SUFFICES ASSUME events' = <<>>, sendingBytes' = 0, flushBy' = Nobody
                 PROVE  ~full' /\ ~resendFull'
      BY DEF WarningsRearmed
    <2>1. inFlightBytes = 0 BY <1>5, NothingFlying
    <2>2. ~(Size[r] <= ByteLimit)
      BY <2>1, PartFacts, BufferAssumption DEF fitsBesideUndroppable
    <2>3. r \notin Reserved BY <1>2, <2>2
    <2>4. ~full /\ ~resendFull BY <1>5, <2>3 DEF BufferInv, WarningsRearmed
    <2> QED BY <2>2, <2>4
  <1> QED BY <1>1, <1>3, <1>4, <1>6, <1>9, <1>10 DEF BufferInv

\* The n oldest records of the queue go, to make room for another.
LEMMA MakeRoom ==
    ASSUME BufferInv, NEW n \in 0 .. Len(events),
           NEW r \in Records, place[r] \in {"new", "reserved"}, NEW w \in {"reserved", "held"},
           place' = [Placed(SubSeq(events, 1, n), "dropped") EXCEPT ![r] = w],
           eventsEvicted' = eventsEvicted + n,
           UNCHANGED <<flight, eventsReplayed>>
    PROVE  LET q == SubSeq(events, n + 1, Len(events)) IN
           /\ place' \in [Records -> Places]
           /\ CountInv' /\ eventsEvicted' \in Nat /\ eventsReplayed' \in Nat
           /\ Flying' = Flying /\ Kept' = Kept
           /\ \A x \in Flying : place'[x] = place[x]
           /\ w = "held" => Held' = ToSet(q) \cup Kept \cup {r}
           /\ w = "reserved" => Held' = ToSet(q) \cup Kept
           /\ w = "held" => Reserved' = Reserved \ {r}
           /\ w = "reserved" => Reserved' = Reserved \cup {r}
           /\ q \in Seq(Records) /\ Len(q) = Len(events) - n /\ Len(events) \in Nat
           /\ Ordered(q, Ahead) /\ ToSet(q) \subseteq ToSet(events)
           /\ Weight(Size, ToSet(q)) = queuedBytes - totalHeldBytes(SubSeq(events, 1, n))
           /\ Weight(Size, ToSet(q)) \in Nat /\ Weight(Size, ToSet(q)) <= queuedBytes
  <1> DEFINE p == SubSeq(events, 1, n)
             q == SubSeq(events, n + 1, Len(events))
             P == ToSet(p)
             Q == ToSet(q)
  <1>1. events \in Seq(Records) /\ Ordered(events, Ahead) /\ place \in [Records -> Places]
    BY DEF BufferInv, BufferTypeOK, ShapeInv, LineInv
  <1>2. /\ p \in Seq(Records) /\ q \in Seq(Records)
        /\ Ordered(p, Ahead) /\ Ordered(q, Ahead)
        /\ Len(q) = Len(events) - n
        /\ ToSet(events) = P \cup Q /\ P \cap Q = {}
        /\ Cardinality(P) = n
        /\ Weight(Size, Q) = Weight(Size, ToSet(events)) - Weight(Size, P)
    BY <1>1, CutRecords
  <1>3. totalHeldBytes(p) = Weight(Size, P) /\ queuedBytes = Weight(Size, ToSet(events))
    BY DEF totalHeldBytes, BufferInv, BytesInv
  <1>4. P \in SUBSET Records /\ IsFiniteSet(P) /\ Q \in SUBSET Records /\ IsFiniteSet(Q)
    BY <1>2, PartCounts
  <1>5. Weight(Size, P) \in Nat /\ Weight(Size, Q) \in Nat
    <2>1. Size \in [Records -> Nat] BY PartFacts
    <2> QED BY <1>4, <2>1, WeightType
  <1>6. \A x \in Records : place'[x] = IF x = r THEN w ELSE IF x \in P THEN "dropped" ELSE place[x]
    BY <1>4 DEF Placed
  <1>7. place' \in [Records -> Places]
    BY <1>1 DEF Placed, Places, Gone
  <1> HIDE DEF p, q
  <1>8. P \subseteq Held /\ r \notin Held /\ r \notin P
    BY <1>2, PartFacts DEF Held
  <1>9. Flying' = Flying /\ Kept' = Kept BY DEF flight, Flying, Kept
  <1>10. ASSUME NEW x \in Flying PROVE place'[x] = place[x]
    <2>1. x \in Records /\ x # r /\ x \notin P BY <1>2, PartFacts
    <2> QED BY <1>6, <2>1
  <1>11. Held' = Q \cup Kept \cup (IF w = "held" THEN {r} ELSE {})
    <2>1. Held = P \cup Q \cup Kept BY <1>2 DEF BufferInv, ShapeInv, PlaceInv
    <2>2. P \cap Kept = {} BY <1>2, PartFacts
    <2>3. Held' = (Held \ P) \cup (IF w = "held" THEN {r} ELSE {})
      BY <1>6, <1>8 DEF Held
    <2> QED BY <1>2, <2>1, <2>2, <2>3
  <1>12. Reserved' = IF w = "reserved" THEN Reserved \cup {r} ELSE Reserved \ {r}
    <2>1. P \cap Reserved = {} BY <1>8 DEF Held, Reserved
    <2> QED BY <1>6, <2>1 DEF Reserved
  <1>13. CountInv' /\ eventsEvicted' \in Nat /\ eventsReplayed' \in Nat
    <2>1. P \cap Lost = {} BY <1>8 DEF Held, Lost
    <2>2. r \notin Lost /\ r \notin Replayed BY DEF Lost, Replayed
    <2>3. P \cap Replayed = {} BY <1>8 DEF Held, Replayed
    <2>4. Lost' = Lost \cup P BY <1>4, <1>6, <1>8, <2>2 DEF Lost
    <2>5. Replayed' = Replayed BY <1>6, <2>2, <2>3 DEF Replayed
    <2> QED BY <1>2, <1>4, <2>1, <2>4, <2>5, LossesCounted
  <1>14. Len(events) \in Nat BY <1>1, LenProperties
  <1>15. Weight(Size, Q) = queuedBytes - totalHeldBytes(p) /\ Weight(Size, Q) <= queuedBytes
    BY <1>2, <1>3, <1>5, PartFacts
  <1> QED BY <1>2, <1>5, <1>7, <1>9, <1>10, <1>11, <1>12, <1>13, <1>14, <1>15 DEF p, q

\* Reserve keeps the invariant.
LEMMA ReserveKeeps ==
    ASSUME BufferInv, NEW r \in Records, Reserve(r)
    PROVE  BufferInv'
  <1> DEFINE n == evictOldestUntil(events, queuedBytes, inFlightBytes + sendingBytes,
                                   Len(events), ByteLimit - Size[r])
             q == SubSeq(events, n + 1, Len(events))
             gone == totalHeldBytes(SubSeq(events, 1, n))
  <1>0. /\ place[r] = "new" /\ fitsBesideUndroppable(sendingBytes, Size[r])
        /\ events' = q /\ queuedBytes' = queuedBytes - gone /\ full' = (full \/ n > 0)
        /\ eventsEvicted' = eventsEvicted + n
        /\ place' = [Placed(SubSeq(events, 1, n), "dropped") EXCEPT ![r] = "reserved"]
        /\ sendingBytes' = sendingBytes + Size[r]
        /\ UNCHANGED <<flight, resendFull, eventsReplayed, monitor, loop, stopped, asking, world, pushed>>
    BY DEF Reserve, DropOldest
  <1>1. events \in Seq(Records) BY DEF BufferInv, BufferTypeOK
  <1>2. /\ n \in 0 .. Len(events)
        /\ n = Len(events) \/ queuedBytes - gone + (inFlightBytes + sendingBytes) <= ByteLimit - Size[r]
    BY <1>1, EvictionStops
  <1> HIDE DEF n
  <1>3. /\ place' \in [Records -> Places]
        /\ CountInv' /\ eventsEvicted' \in Nat /\ eventsReplayed' \in Nat
        /\ Flying' = Flying /\ Kept' = Kept
        /\ \A x \in Flying : place'[x] = place[x]
        /\ Held' = ToSet(q) \cup Kept
        /\ Reserved' = Reserved \cup {r}
        /\ q \in Seq(Records) /\ Len(q) = Len(events) - n /\ Len(events) \in Nat
        /\ Ordered(q, Ahead) /\ ToSet(q) \subseteq ToSet(events)
        /\ Weight(Size, ToSet(q)) = queuedBytes - gone
        /\ Weight(Size, ToSet(q)) \in Nat /\ Weight(Size, ToSet(q)) <= queuedBytes
    <2>1. /\ place' = [Placed(SubSeq(events, 1, n), "dropped") EXCEPT ![r] = "reserved"]
          /\ eventsEvicted' = eventsEvicted + n /\ UNCHANGED <<flight, eventsReplayed>>
          /\ place[r] \in {"new", "reserved"} /\ n \in 0 .. Len(events)
      BY <1>0, <1>2
    <2>2. "reserved" \in {"reserved", "held"} OBVIOUS
    <2> QED BY <2>1, <2>2, MakeRoom
  <1> HIDE DEF q, gone
  <1>4. UNCHANGED <<batch, kept, pending, stage, flushBy, inFlight, inFlightBytes, pushed>>
    BY <1>0 DEF flight
  <1>5. ShapeInv'
    <2>1. Ahead' = Ahead BY <1>4 DEF Ahead, PushedBefore
    <2>2. StageInv' BY <1>4 DEF BufferInv, ShapeInv, StageInv
    <2>3. LineInv'
      BY <1>0, <1>3, <1>4, <2>1 DEF BufferInv, ShapeInv, LineInv, Ordered
    <2>4. PlaceInv' BY <1>0, <1>3 DEF BufferInv, ShapeInv, PlaceInv
    <2> QED BY <2>2, <2>3, <2>4 DEF ShapeInv
  <1>6. /\ IsFiniteSet(Reserved') /\ sendingBytes' = Weight(Size, Reserved')
        /\ Size[r] \in Nat /\ Size[r] > 0
    <2>1. /\ Reserved \in SUBSET Records /\ {r} \in SUBSET Records /\ Reserved \cap {r} = {}
          /\ IsFiniteSet({r})
      BY <1>0, FS_Singleton DEF Reserved
    <2>2. IsFiniteSet(Reserved) /\ sendingBytes = Weight(Size, Reserved) BY DEF BufferInv, BytesInv
    <2>3. Size \in [Records -> Nat] /\ Size[r] \in Nat /\ Size[r] > 0 BY PartFacts
    <2>4. /\ IsFiniteSet(Reserved \cup {r})
          /\ Weight(Size, Reserved \cup {r}) = Weight(Size, Reserved) + Weight(Size, {r})
      BY <2>1, <2>2, <2>3, WeightAdds
    <2>5. Weight(Size, {r}) = Size[r] BY <2>3, WeightOfOne
    <2> QED BY <1>0, <1>3, <2>2, <2>3, <2>4, <2>5
  <1>7. BytesInv'
    BY <1>0, <1>3, <1>4, <1>6 DEF BufferInv, BytesInv
  <1>8. queuedBytes' \in Nat /\ sendingBytes' \in Nat /\ sendingBytes' > 0
    BY <1>0, <1>3, <1>6, PartFacts
  <1>9. WithinLimits'
    <2>1. queuedBytes' + inFlightBytes + sendingBytes' <= ByteLimit
      <3>1. inFlightBytes + sendingBytes + Size[r] <= ByteLimit
        BY <1>0 DEF fitsBesideUndroppable
      <3>2. CASE n = Len(events)
        <4>1. Len(q) = 0 BY <1>3, <3>2
        <4>2. q = <<>> BY <1>3, <4>1, EmptySeq
        <4>3. queuedBytes' = 0 BY <1>0, <1>3, <4>2, EmptyOrdered, WeightOfNone
        <4> QED BY <1>0, <1>6, <3>1, <4>3, PartFacts, BufferAssumption
      <3>3. CASE queuedBytes - gone + (inFlightBytes + sendingBytes) <= ByteLimit - Size[r]
        <4>1. queuedBytes' \in Nat /\ queuedBytes' + (inFlightBytes + sendingBytes) <= ByteLimit - Size[r]
          BY <1>0, <1>8, <3>3
        <4>2. inFlightBytes \in Nat /\ sendingBytes \in Nat /\ ByteLimit \in Nat
          BY PartFacts, BufferAssumption
        <4>3. sendingBytes' = sendingBytes + Size[r] /\ Size[r] \in Nat BY <1>0, <1>6
        <4> QED BY <4>1, <4>2, <4>3
      <3> QED BY <1>2, <3>2, <3>3
    <2>2. Len(events') <= RecordLimit
      BY <1>0, <1>2, <1>3, BufferAssumption DEF BufferInv, WithinLimits
    <2> QED BY <1>4, <2>1, <2>2 DEF WithinLimits, heldBytes
  <1>10. full' \in BOOLEAN
    BY <1>0 DEF BufferInv, BufferTypeOK
  <1>11. BufferTypeOK'
    BY <1>0, <1>3, <1>4, <1>8, <1>10 DEF BufferInv, BufferTypeOK, monitor, world
  <1>12. WarningsRearmed' BY <1>8 DEF WarningsRearmed
  <1> QED BY <1>3, <1>5, <1>7, <1>9, <1>11, <1>12 DEF BufferInv

\* The record is held behind the queue it was given room in.
LEMMA HoldKeeps ==
    ASSUME BufferInv, NEW r \in Records, place[r] \in {"new", "reserved"},
           sendingBytes' = IF r \in Reserved THEN sendingBytes - Size[r] ELSE sendingBytes,
           fitsBesideUndroppable(sendingBytes', Size[r]),
           push(r, sendingBytes'),
           UNCHANGED <<flight, eventsReplayed, monitor, stopped, asking, world>>
    PROVE  BufferInv'
  <1> DEFINE beside == inFlightBytes + sendingBytes'
             n == evictOldestUntil(events, queuedBytes, beside, RecordLimit - 1, ByteLimit - Size[r])
             q == SubSeq(events, n + 1, Len(events))
             gone == totalHeldBytes(SubSeq(events, 1, n))
  <1>0. /\ events' = Append(q, r) /\ queuedBytes' = queuedBytes - gone + Size[r]
        /\ full' = (full \/ n > 0) /\ UNCHANGED resendFull
        /\ eventsEvicted' = eventsEvicted + n
        /\ place' = [Placed(SubSeq(events, 1, n), "dropped") EXCEPT ![r] = "held"]
        /\ loop' = IF loop = "off" THEN "on" ELSE loop
        /\ pushed' = Append(pushed, r)
    BY DEF push
  <1>1. events \in Seq(Records) /\ pushed \in Seq(Records) BY DEF BufferInv, BufferTypeOK
  <1>2. /\ n \in 0 .. Len(events)
        /\ \/ n = Len(events)
           \/ /\ Len(events) - n <= RecordLimit - 1
              /\ queuedBytes - gone + beside <= ByteLimit - Size[r]
    BY <1>1, EvictionStops
  <1> HIDE DEF n
  <1>3. /\ place' \in [Records -> Places]
        /\ CountInv' /\ eventsEvicted' \in Nat /\ eventsReplayed' \in Nat
        /\ Flying' = Flying /\ Kept' = Kept
        /\ \A x \in Flying : place'[x] = place[x]
        /\ Held' = ToSet(q) \cup Kept \cup {r}
        /\ Reserved' = Reserved \ {r}
        /\ q \in Seq(Records) /\ Len(q) = Len(events) - n /\ Len(events) \in Nat
        /\ Ordered(q, Ahead) /\ ToSet(q) \subseteq ToSet(events)
        /\ Weight(Size, ToSet(q)) = queuedBytes - gone
        /\ Weight(Size, ToSet(q)) \in Nat /\ Weight(Size, ToSet(q)) <= queuedBytes
    <2>1. /\ place' = [Placed(SubSeq(events, 1, n), "dropped") EXCEPT ![r] = "held"]
          /\ eventsEvicted' = eventsEvicted + n /\ UNCHANGED <<flight, eventsReplayed>>
          /\ place[r] \in {"new", "reserved"} /\ n \in 0 .. Len(events)
      BY <1>0, <1>2
    <2>2. "held" \in {"reserved", "held"} OBVIOUS
    <2> QED BY <2>1, <2>2, MakeRoom
  <1> HIDE DEF q, gone, beside
  <1>4. UNCHANGED <<batch, kept, pending, stage, flushBy, inFlight, inFlightBytes>>
    BY DEF flight
  <1>5. /\ ToSet(q) \subseteq Held /\ r \notin Held
        /\ ToSet(q) \in SUBSET Records /\ IsFiniteSet(ToSet(q))
        /\ r \notin ToSet(q) /\ r \notin Flying
    <2>1. ToSet(q) \subseteq Held BY <1>3, PartFacts
    <2>2. r \notin Held BY DEF Held
    <2>3. r \notin Flying BY PartFacts
    <2> QED BY <1>3, <2>1, <2>2, <2>3, PartCounts
  <1>6. /\ events' \in Seq(Records) /\ Len(events') = Len(q) + 1 /\ ToSet(events') = ToSet(q) \cup {r}
        /\ pushed' \in Seq(Records) /\ ToSet(pushed') = ToSet(pushed) \cup {r}
    <2>1. q \in Seq(Records) /\ events' = Append(q, r) BY <1>0, <1>3
    <2>2. events' \in Seq(Records) /\ Len(events') = Len(q) + 1 /\ ToSet(events') = ToSet(q) \cup {r}
      BY <2>1, OrderedAppend
    <2>3. pushed' = Append(pushed, r) BY <1>0
    <2>4. pushed' \in Seq(Records) /\ ToSet(pushed') = ToSet(pushed) \cup {r}
      BY <1>1, <2>3, OrderedAppend
    <2> QED BY <2>2, <2>4
  <1>7. ToSet(events) \cup Flying \subseteq ToSet(pushed) BY DEF BufferInv, ShapeInv, LineInv
  <1>8. Ahead \subseteq Ahead' /\ \A a \in ToSet(pushed) : a # r => <<a, r>> \in Ahead'
    <2> DEFINE m == Len(pushed)
    <2>1. m \in Nat /\ DOMAIN pushed = 1 .. m /\ pushed \in [1 .. m -> Records]
      BY <1>1, LenProperties
    <2>2. Len(pushed') = m + 1 /\ pushed'[m + 1] = r /\ \A i \in 1 .. m : pushed'[i] = pushed[i]
      BY <1>0, <1>1, AppendProperties
    <2>3. DOMAIN pushed' = 1 .. m + 1 BY <1>6, <2>2, LenProperties
    <2> HIDE DEF m
    <2>4. ASSUME NEW a, NEW b, PushedBefore(a, b) PROVE PushedBefore(a, b)'
      <3>1. PICK i \in 1 .. m, j \in 1 .. m : i < j /\ pushed[i] = a /\ pushed[j] = b
        BY <2>1, <2>4 DEF PushedBefore
      <3>2. i \in 1 .. m + 1 /\ j \in 1 .. m + 1 BY <2>1
      <3> QED BY <2>2, <2>3, <3>1, <3>2 DEF PushedBefore
    <2>5. ASSUME NEW a \in ToSet(pushed) PROVE a \in Records /\ PushedBefore(a, r)'
      <3>1. PICK i \in 1 .. m : pushed[i] = a BY <2>1 DEF ToSet
      <3>2. i \in 1 .. m + 1 /\ m + 1 \in 1 .. m + 1 /\ i < m + 1 BY <2>1
      <3> QED BY <2>1, <2>2, <2>3, <3>1, <3>2 DEF PushedBefore
    <2>6. Ahead' = {p \in Records \X Records : p[1] # p[2] /\ PushedBefore(p[1], p[2])'}
      BY DEF Ahead
    <2>7. Ahead \subseteq Ahead' BY <2>4, <2>6 DEF Ahead
    <2>8. ASSUME NEW a \in ToSet(pushed), a # r PROVE <<a, r>> \in Ahead' BY <2>5, <2>6, <2>8
    <2> QED BY <2>7, <2>8
  <1>9. ShapeInv'
    <2>1. StageInv' BY <1>4 DEF BufferInv, ShapeInv, StageInv
    <2>2. PlaceInv'
      <3>1. Held' = ToSet(events') \cup Kept' BY <1>3, <1>6
      <3> QED BY <1>3, <3>1 DEF BufferInv, ShapeInv, PlaceInv
    <2>3. ToSet(q) \X {r} \subseteq Ahead' /\ Flying \X {r} \subseteq Ahead'
      BY <1>3, <1>5, <1>7, <1>8
    <2>4. Ordered(q, Ahead') BY <1>3, <1>8 DEF Ordered
    <2>5. Ordered(events', Ahead') BY <1>0, <1>3, <2>3, <2>4, OrderedAppend
    <2>6. Flying' \X ToSet(events') \subseteq Ahead'
      <3>1. Flying \X ToSet(q) \subseteq Ahead' BY <1>3, <1>8 DEF BufferInv, ShapeInv, LineInv
      <3> QED BY <1>3, <1>6, <2>3, <3>1
    <2>7. Flying' \cup ToSet(events') \subseteq ToSet(pushed') BY <1>3, <1>6, <1>7
    <2>8. /\ Ordered(batch', Ahead') /\ Ordered(kept', Ahead') /\ Ordered(pending', Ahead')
          /\ (ToSet(batch') \cup ToSet(kept')) \X ToSet(pending') \subseteq Ahead'
      BY <1>4, <1>8 DEF BufferInv, ShapeInv, LineInv, Ordered
    <2>9. LineInv' BY <2>5, <2>6, <2>7, <2>8 DEF LineInv
    <2> QED BY <2>1, <2>2, <2>9 DEF ShapeInv
  <1>10. /\ IsFiniteSet(Reserved') /\ sendingBytes' = Weight(Size, Reserved')
         /\ sendingBytes' \in Nat
    <2>1. CASE r \in Reserved BY <1>3, <2>1, ReservationEnds
    <2>2. CASE r \notin Reserved
      <3>1. Reserved' = Reserved BY <1>3, <2>2
      <3> QED BY <2>2, <3>1, PartFacts DEF BufferInv, BytesInv
    <2> QED BY <2>1, <2>2
  <1>11. queuedBytes' = Weight(Size, ToSet(events')) /\ queuedBytes' \in Nat
    <2>1. Size \in [Records -> Nat] /\ Size[r] \in Nat BY PartFacts
    <2>2. {r} \in SUBSET Records /\ IsFiniteSet({r}) /\ ToSet(q) \cap {r} = {}
      BY <1>5, FS_Singleton
    <2>3. Weight(Size, ToSet(q) \cup {r}) = Weight(Size, ToSet(q)) + Weight(Size, {r})
      BY <1>5, <2>1, <2>2, WeightAdds
    <2>4. Weight(Size, {r}) = Size[r] BY <2>1, WeightOfOne
    <2> QED BY <1>0, <1>3, <1>6, <2>1, <2>3, <2>4
  <1>12. BytesInv' BY <1>3, <1>4, <1>10, <1>11 DEF BufferInv, BytesInv
  <1>13. WithinLimits'
    <2>1. inFlightBytes \in Nat /\ Size[r] \in Nat /\ queuedBytes \in Nat /\ ByteLimit \in Nat
          /\ RecordLimit \in Nat \ {0}
      BY PartFacts, BufferAssumption
    <2>2. inFlightBytes + sendingBytes' + Size[r] <= ByteLimit BY DEF fitsBesideUndroppable
    <2>3. CASE n = Len(events)
      <3>1. Len(q) = 0 BY <1>3, <2>3
      <3>2. q = <<>> BY <1>3, <3>1, EmptySeq
      <3>3. Weight(Size, ToSet(q)) = 0 BY <3>2, EmptyOrdered, WeightOfNone
      <3>4. queuedBytes' = Size[r] BY <1>0, <1>3, <2>1, <3>3
      <3>5. Len(events') <= RecordLimit BY <1>6, <2>1, <3>1
      <3> QED BY <1>4, <1>10, <2>1, <2>2, <3>4, <3>5 DEF WithinLimits, heldBytes
    <2>4. CASE /\ Len(events) - n <= RecordLimit - 1
               /\ queuedBytes - gone + beside <= ByteLimit - Size[r]
      <3>1. Len(events') <= RecordLimit BY <1>2, <1>3, <1>6, <2>1, <2>4
      <3>2. queuedBytes - gone + (inFlightBytes + sendingBytes') <= ByteLimit - Size[r]
        BY <2>4 DEF beside
      <3>3. queuedBytes' + inFlightBytes + sendingBytes' <= ByteLimit
        <4>1. PICK v \in Nat : v = queuedBytes - gone BY <1>3
        <4>2. queuedBytes' = v + Size[r] /\ v + (inFlightBytes + sendingBytes') <= ByteLimit - Size[r]
          BY <1>0, <3>2, <4>1
        <4> QED BY <1>10, <2>1, <4>2
      <3> QED BY <1>4, <3>1, <3>3 DEF WithinLimits, heldBytes
    <2> QED BY <1>2, <2>3, <2>4
  <1>14. full' \in BOOLEAN /\ loop' \in {"off", "on", "ended"}
    BY <1>0 DEF BufferInv, BufferTypeOK
  <1>15. BufferTypeOK'
    BY <1>0, <1>3, <1>4, <1>6, <1>10, <1>11, <1>14 DEF BufferInv, BufferTypeOK, monitor, world
  <1>16. WarningsRearmed'
    <2>1. events' # <<>> BY <1>0, <1>3, AppendProperties
    <2> QED BY <2>1 DEF WarningsRearmed
  <1> QED BY <1>3, <1>9, <1>12, <1>13, <1>15, <1>16 DEF BufferInv

-----------------------------------------------------------------------------
(* Flushes.                                                                *)

\* evictExpired parts the queue.
LEMMA Expiry ==
    ASSUME BufferInv
    PROVE  LET y == Young(events)
               o == Old(events)
           IN  /\ y \in Seq(Records) /\ Ordered(y, Ahead)
               /\ ToSet(events) = ToSet(y) \cup ToSet(o) /\ ToSet(y) \cap ToSet(o) = {}
               /\ IsFiniteSet(ToSet(o)) /\ Cardinality(ToSet(o)) = Len(o)
               /\ Weight(Size, ToSet(y)) = queuedBytes - totalHeldBytes(o)
  <1> DEFINE I == {i \in DOMAIN events : events[i] \notin dayOld}
             J == {i \in DOMAIN events : events[i] \in dayOld}
             y == Young(events)
             o == Old(events)
  <1>1. events \in Seq(Records) /\ Ordered(events, Ahead)
    BY DEF BufferInv, BufferTypeOK, ShapeInv, LineInv
  <1>2. y = Chosen(events, I) /\ o = Chosen(events, J) BY DEF Young, Old
  <1>3. y \in Seq(Records) /\ ToSet(y) = {events[i] : i \in I} /\ Ordered(y, Ahead)
    <2>1. I \in SUBSET DOMAIN events OBVIOUS
    <2> HIDE DEF I, y
    <2> QED BY <1>1, <1>2, <2>1, ChosenProperties
  <1>4. o \in Seq(Records) /\ ToSet(o) = {events[i] : i \in J} /\ Ordered(o, Ahead)
    <2>1. J \in SUBSET DOMAIN events OBVIOUS
    <2> HIDE DEF J, o
    <2> QED BY <1>1, <1>2, <2>1, ChosenProperties
  <1> HIDE DEF y, o
  <1>5. ToSet(events) = ToSet(y) \cup ToSet(o) /\ ToSet(y) \cap ToSet(o) = {}
    BY <1>3, <1>4 DEF ToSet
  <1> HIDE DEF I, J
  <1>6. IsFiniteSet(ToSet(o)) /\ Cardinality(ToSet(o)) = Len(o) BY <1>4, PartCounts
  <1>7. Weight(Size, ToSet(y)) = queuedBytes - totalHeldBytes(o)
    <2>1. Size \in [Records -> Nat] BY BufferAssumption
    <2>2. ToSet(events) \in SUBSET Records /\ IsFiniteSet(ToSet(events)) BY PartFacts
    <2>3. ToSet(o) \in SUBSET ToSet(events) /\ ToSet(events) \ ToSet(o) = ToSet(y) BY <1>5
    <2>4. Weight(Size, ToSet(events) \ ToSet(o)) = Weight(Size, ToSet(events)) - Weight(Size, ToSet(o))
      BY <2>1, <2>2, <2>3, WeightTaken
    <2>5. queuedBytes = Weight(Size, ToSet(events)) BY DEF BufferInv, BytesInv
    <2> QED BY <2>3, <2>4, <2>5 DEF totalHeldBytes
  <1> QED BY <1>3, <1>5, <1>6, <1>7 DEF y, o

\* TakePending keeps the invariant.
LEMMA TakePendingKeeps ==
    ASSUME BufferInv, NEW f, TakePending(f)
    PROVE  BufferInv'
  <1> DEFINE y == Young(events)
             o == Old(events)
             O == ToSet(o)
             Y == ToSet(y)
  <1>0. /\ f \in asking /\ flushBy = Nobody
        /\ events' = <<>> /\ queuedBytes' = 0 /\ place' = Placed(o, "dropped")
        /\ eventsEvicted' = eventsEvicted + Len(o)
        /\ \/ /\ y = <<>>
              /\ endOutage(sendingBytes) /\ asking' = asking \ {f} /\ UNCHANGED flight
           \/ /\ y # <<>>
              /\ flushBy' = f /\ inFlight' = Len(y)
              /\ inFlightBytes' = queuedBytes - totalHeldBytes(o)
              /\ resendFull' = FALSE /\ batch' = <<Head(y)>> /\ pending' = Tail(y)
              /\ stage' = "sending" /\ UNCHANGED <<full, kept, asking>>
        /\ UNCHANGED <<sendingBytes, eventsReplayed, monitor, loop, stopped, world, pushed>>
    BY DEF TakePending
  <1>1. /\ y \in Seq(Records) /\ Ordered(y, Ahead)
        /\ ToSet(events) = Y \cup O /\ Y \cap O = {}
        /\ IsFiniteSet(O) /\ Cardinality(O) = Len(o)
        /\ Weight(Size, Y) = queuedBytes - totalHeldBytes(o)
    BY Expiry
  <1>2. /\ Flying = {} /\ batch = <<>> /\ kept = <<>> /\ pending = <<>> /\ stage = "none"
        /\ inFlight = 0 /\ inFlightBytes = 0
    BY <1>0, NothingFlies, NothingFlying DEF BufferInv
  <1>3. Kept = {} BY <1>2, PartFacts
  <1>4. Held = Y \cup O /\ O \in SUBSET Records /\ Y \in SUBSET Records
    BY <1>1, <1>3, PartFacts DEF BufferInv, ShapeInv, PlaceInv
  <1>5. \A x \in Records : place'[x] = IF x \in O THEN "dropped" ELSE place[x]
    BY <1>0 DEF Placed
  <1>6. place' \in [Records -> Places]
    BY <1>0 DEF Placed, Places, Gone, BufferInv, BufferTypeOK
  <1> HIDE DEF y, o
  <1>7. Held' = Y /\ Reserved' = Reserved /\ Replayed' = Replayed /\ Lost' = Lost \cup O /\ O \cap Lost = {}
    <2>1. O \subseteq Held BY <1>4
    <2>2. Held' = Held \ O BY <1>5 DEF Held
    <2>3. Reserved' = Reserved /\ Replayed' = Replayed
      BY <1>5, <2>1 DEF Held, Reserved, Replayed
    <2>4. Lost' = Lost \cup O /\ O \cap Lost = {} BY <1>5, <2>1 DEF Held, Lost
    <2> QED BY <1>1, <1>4, <2>2, <2>3, <2>4
  <1>8. CountInv' /\ eventsEvicted' \in Nat /\ eventsReplayed' \in Nat
    BY <1>0, <1>1, <1>7, LossesCounted
  <1>9. Ahead' = Ahead BY <1>0 DEF Ahead, PushedBefore
  <1>10. Y \subseteq ToSet(pushed) BY <1>1 DEF BufferInv, ShapeInv, LineInv
  <1>11. events' \in Seq(Records) /\ Ordered(events', Ahead) /\ ToSet(events') = {} /\ Len(events') = 0
    BY <1>0, EmptyOrdered
  <1>12. IsFiniteSet(Reserved') /\ sendingBytes' = Weight(Size, Reserved')
    BY <1>0, <1>7 DEF BufferInv, BytesInv
  <1>13. queuedBytes' = Weight(Size, ToSet(events')) BY <1>0, <1>11, WeightOfNone
  <1>14. CASE y = <<>>
    <2>1. Y = {} BY <1>14, EmptyOrdered
    <2>2. UNCHANGED <<inFlight, inFlightBytes, batch, kept, pending, stage, flushBy>>
      BY <1>0, <1>14 DEF flight
    <2>3. Flying' = {} /\ Kept' = {} BY <1>2, <1>3, <2>2 DEF Flying, Kept
    <2>4. ShapeInv'
      <3>1. StageInv' BY <2>2 DEF BufferInv, ShapeInv, StageInv
      <3>2. PlaceInv' BY <1>7, <1>11, <2>1, <2>3 DEF PlaceInv
      <3>3. LineInv'
        BY <1>9, <1>11, <2>2, <2>3 DEF BufferInv, ShapeInv, LineInv, Ordered
      <3> QED BY <3>1, <3>2, <3>3 DEF ShapeInv
    <2>5. BytesInv'
      BY <1>2, <1>12, <1>13, <2>2, <2>3 DEF BufferInv, BytesInv
    <2>6. WithinLimits'
      BY <1>0, <1>2, <1>11, <2>2, PartFacts, BufferAssumption DEF BufferInv, WithinLimits, heldBytes
    <2>7. endOutage(sendingBytes) /\ asking' = asking \ {f} BY <1>0, <1>14
    <2>8. full' \in BOOLEAN /\ resendFull' \in BOOLEAN
      BY <2>7, OutageEnds DEF BufferInv, BufferTypeOK
    <2>9. BufferTypeOK'
      BY <1>0, <1>6, <1>8, <1>11, <2>2, <2>7, <2>8 DEF BufferInv, BufferTypeOK, monitor, world
    <2>10. WarningsRearmed' BY <1>0, <2>7, OutageEnds DEF WarningsRearmed
    <2> QED BY <1>8, <2>4, <2>5, <2>6, <2>9, <2>10 DEF BufferInv
  <1>15. CASE y # <<>>
    <2>1. /\ flushBy' = f /\ inFlight' = Len(y) /\ inFlightBytes' = Weight(Size, Y)
          /\ resendFull' = FALSE /\ batch' = <<Head(y)>> /\ pending' = Tail(y)
          /\ stage' = "sending" /\ UNCHANGED <<full, kept, asking>>
      BY <1>0, <1>1, <1>15
    <2>2. batch' \in Seq(Records) /\ pending' \in Seq(Records) /\ batch' \o pending' = y
      <3>1. Head(y) \in Records /\ Tail(y) \in Seq(Records) /\ <<Head(y)>> \o Tail(y) = y
        BY <1>1, <1>15, HeadAndRest
      <3> QED BY <2>1, <3>1, SingleOrdered
    <2>3. /\ Ordered(batch', Ahead) /\ Ordered(pending', Ahead)
          /\ ToSet(batch') \X ToSet(pending') \subseteq Ahead
          /\ Y = ToSet(batch') \cup ToSet(pending')
      <3> DEFINE b == batch'
                 p == pending'
      <3> HIDE DEF b, p
      <3>1. b \in Seq(Records) /\ p \in Seq(Records) /\ Ordered(b \o p, Ahead)
        BY <1>1, <2>2 DEF b, p
      <3>2. /\ Ordered(b, Ahead) /\ Ordered(p, Ahead) /\ ToSet(b) \X ToSet(p) \subseteq Ahead
            /\ ToSet(b \o p) = ToSet(b) \cup ToSet(p)
        BY <3>1, OrderedConcat
      <3> QED BY <2>2, <3>2 DEF b, p
    <2>4. ToSet(kept') = {} BY <1>2, <2>1, EmptyOrdered
    <2>5. Flying' = Y /\ Kept' = Y BY <2>1, <2>3, <2>4 DEF Flying, Kept
    <2>6. f \in Flushers /\ f # Nobody
      BY <1>0, BufferAssumption DEF BufferInv, BufferTypeOK, Flushers
    <2>7. ShapeInv'
      <3>1. StageInv' BY <1>2, <2>1, <2>6 DEF StageInv
      <3>2. PlaceInv' BY <1>7, <1>11, <2>5 DEF PlaceInv, Held
      <3>3. Ordered(kept', Ahead) BY <1>2, <2>1, EmptyOrdered
      <3>4. LineInv'
        BY <1>0, <1>9, <1>10, <1>11, <2>3, <2>4, <2>5, <3>3 DEF LineInv
      <3> QED BY <3>1, <3>2, <3>4 DEF ShapeInv
    <2>8. IsFiniteSet(Y) /\ Cardinality(Y) = Len(y) /\ Len(y) \in Nat
      BY <1>1, PartCounts
    <2>9. BytesInv' BY <1>12, <1>13, <2>1, <2>5, <2>8 DEF BytesInv
    <2>10. inFlightBytes' \in Nat /\ inFlightBytes' <= queuedBytes
      <3>1. Size \in [Records -> Nat] BY BufferAssumption
      <3>2. ToSet(events) \in SUBSET Records /\ IsFiniteSet(ToSet(events)) BY PartFacts
      <3>3. Y \in SUBSET ToSet(events) BY <1>1
      <3>4. Weight(Size, Y) <= Weight(Size, ToSet(events)) BY <3>1, <3>2, <3>3, WeightTaken
      <3>5. Weight(Size, Y) \in Nat BY <1>4, <2>8, <3>1, WeightType
      <3> QED BY <2>1, <3>4, <3>5 DEF BufferInv, BytesInv
    <2>11. WithinLimits'
      <3>1. queuedBytes + inFlightBytes + sendingBytes <= ByteLimit
        BY DEF BufferInv, WithinLimits, heldBytes
      <3>2. queuedBytes' + inFlightBytes' + sendingBytes' <= ByteLimit
        BY <1>0, <1>2, <2>10, <3>1, PartFacts, BufferAssumption
      <3>3. Len(events') <= RecordLimit BY <1>11, BufferAssumption
      <3> QED BY <3>2, <3>3 DEF WithinLimits, heldBytes
    <2>12. BufferTypeOK'
      BY <1>0, <1>2, <1>6, <1>8, <1>11, <2>1, <2>2, <2>6, <2>8, <2>10
      DEF BufferInv, BufferTypeOK, monitor, world
    <2>13. WarningsRearmed' BY <2>1, <2>6 DEF WarningsRearmed
    <2> QED BY <1>8, <2>7, <2>9, <2>11, <2>12, <2>13 DEF BufferInv
  <1> QED BY <1>14, <1>15

\* The records at some positions of the window.
LEMMA WindowPart ==
    ASSUME BufferInv, NEW I \in SUBSET DOMAIN batch
    PROVE  LET D == {batch[i] : i \in I} IN
           /\ Chosen(batch, I) \in Seq(Records) /\ Ordered(Chosen(batch, I), Ahead)
           /\ ToSet(Chosen(batch, I)) = D
           /\ D \in SUBSET ToSet(batch) /\ IsFiniteSet(D) /\ Cardinality(D) = Cardinality(I)
  <1> DEFINE c == Chosen(batch, I)
             D == {batch[i] : i \in I}
  <1>1. batch \in Seq(Records) /\ Ordered(batch, Ahead)
    BY DEF BufferInv, BufferTypeOK, ShapeInv, LineInv
  <1>2. c \in Seq(Records) /\ Len(c) = Cardinality(I) /\ ToSet(c) = D /\ Ordered(c, Ahead)
    BY <1>1, ChosenProperties
  <1>3. D \in SUBSET ToSet(batch) BY DEF ToSet
  <1> HIDE DEF c, D
  <1>4. IsFiniteSet(D) /\ Cardinality(D) = Cardinality(I) BY <1>2, PartCounts
  <1> QED BY <1>2, <1>3, <1>4 DEF c, D

\* ResendWindow keeps the invariant: its records are delivered, lost or kept.
LEMMA ResendWindowKeeps ==
    ASSUME BufferInv, ResendWindow
    PROVE  BufferInv'
  <1>1. PICK out \in [1 .. Len(batch) -> Outcomes] :
          /\ kept' = Chosen(batch, With(out, "retry") \cup With(out, "open"))
          /\ place' = [r \in Records |->
                         IF \E i \in With(out, "ok") : batch[i] = r THEN "delivered"
                         ELSE IF \E i \in With(out, "refused") : batch[i] = r THEN "refused"
                         ELSE place[r]]
          /\ eventsReplayed' = eventsReplayed + Cardinality(With(out, "ok"))
          /\ eventsEvicted' = eventsEvicted + Cardinality(With(out, "refused"))
          /\ failing' = FailingBefore(out, Len(batch) + 1)
          /\ wake' = (wake \/ \E i \in With(out, "ok") : FailingBefore(out, i))
    BY DEF ResendWindow
  <1>2. /\ stage = "sending" /\ stage' = "settled"
        /\ UNCHANGED <<events, queuedBytes, sendingBytes, inFlight, inFlightBytes, batch, pending>>
        /\ UNCHANGED <<flushBy, full, resendFull, loop, stopped, asking, world, pushed>>
    BY DEF ResendWindow, queue, latches
  <1> DEFINE A == With(out, "ok")
             F == With(out, "refused")
             K == With(out, "retry") \cup With(out, "open")
             D == {batch[i] : i \in A}
             L == {batch[i] : i \in F}
  <1>3. /\ batch \in Seq(Records) /\ Ordered(batch, Ahead) /\ kept = <<>>
        /\ DOMAIN batch = 1 .. Len(batch) /\ batch \in [1 .. Len(batch) -> Records]
        /\ IsInjective(batch)
    BY <1>2, PartCounts, LenProperties DEF BufferInv, BufferTypeOK, ShapeInv, LineInv, StageInv
  <1>4. A \in SUBSET DOMAIN batch /\ F \in SUBSET DOMAIN batch /\ K \in SUBSET DOMAIN batch
    BY DEF With
  <1>5. \A i \in DOMAIN batch : i \in A \/ i \in F \/ i \in K
    BY <1>3 DEF With, Outcomes
  <1>6. A \cap F = {} /\ A \cap K = {} /\ F \cap K = {} BY DEF With
  <1>7. \A x \in Records : place'[x] = IF x \in D THEN "delivered" ELSE IF x \in L THEN "refused" ELSE place[x]
    BY <1>1
  <1>8. place' \in [Records -> Places]
    BY <1>1 DEF Places, Gone, BufferInv, BufferTypeOK
  <1>9. kept' = Chosen(batch, K) /\ eventsReplayed' = eventsReplayed + Cardinality(A)
        /\ eventsEvicted' = eventsEvicted + Cardinality(F)
    BY <1>1
  <1>10. failing' \in BOOLEAN
    <2>1. failing \in BOOLEAN BY DEF BufferInv, BufferTypeOK
    <2> QED BY <1>1, <2>1, Zenon DEF FailingBefore
  <1>11. wake' \in BOOLEAN
    <2>1. wake' = (wake \/ \E i \in With(out, "ok") : FailingBefore(out, i)) BY <1>1
    <2> QED BY <2>1, Zenon
  <1> HIDE DEF A, F, K
  <1>12. D \in SUBSET ToSet(batch) /\ IsFiniteSet(D) /\ Cardinality(D) = Cardinality(A)
    BY <1>4, WindowPart
  <1>13. L \in SUBSET ToSet(batch) /\ IsFiniteSet(L) /\ Cardinality(L) = Cardinality(F)
    BY <1>4, WindowPart
  <1>14. kept' \in Seq(Records) /\ Ordered(kept', Ahead) /\ ToSet(kept') = {batch[i] : i \in K}
    BY <1>4, <1>9, WindowPart
  <1>15. ToSet(kept') = ToSet(batch) \ (D \cup L) /\ D \cap L = {}
    <2>1. ToSet(batch) = {batch[i] : i \in DOMAIN batch} BY DEF ToSet
    <2>2. \A i, j \in DOMAIN batch : batch[i] = batch[j] => i = j BY <1>3 DEF IsInjective
    <2> QED BY <1>4, <1>5, <1>6, <1>14, <2>1, <2>2
  <1> HIDE DEF D, L
  <1>16. Kept = ToSet(batch) \cup ToSet(pending) /\ Flying = ToSet(batch) \cup ToSet(pending)
    <2>1. ToSet(kept) = {} BY <1>3, EmptyOrdered
    <2> QED BY <1>2, <2>1 DEF Kept, Flying
  <1>17. Flying' = Flying /\ Kept' = ToSet(kept') \cup ToSet(pending)
    BY <1>2, <1>15, <1>16 DEF Kept, Flying
  <1>18. D \subseteq Held /\ L \subseteq Held BY <1>12, <1>13, <1>16 DEF BufferInv, ShapeInv, PlaceInv
  <1>19. /\ Held' = Held \ (D \cup L) /\ Reserved' = Reserved
         /\ Lost' = Lost \cup L /\ Lost \cap L = {}
         /\ Replayed' = Replayed \cup D /\ Replayed \cap D = {}
    <2>1. Held' = Held \ (D \cup L) BY <1>7 DEF Held
    <2>2. Reserved' = Reserved BY <1>7, <1>18 DEF Held, Reserved
    <2>3. Lost' = Lost \cup L /\ Lost \cap L = {} BY <1>7, <1>15, <1>18 DEF Held, Lost
    <2>4. Replayed' = Replayed \cup D /\ Replayed \cap D = {} BY <1>7, <1>15, <1>18 DEF Held, Replayed
    <2> QED BY <2>1, <2>2, <2>3, <2>4
  <1>20. CountInv' /\ eventsEvicted' \in Nat /\ eventsReplayed' \in Nat
    <2>1. IsFiniteSet(Lost) /\ eventsEvicted = Cardinality(Lost)
          /\ IsFiniteSet(Replayed) /\ eventsReplayed = Cardinality(Replayed)
      BY DEF BufferInv, CountInv
    <2>2. IsFiniteSet(Lost \cup L) /\ Cardinality(Lost \cup L) = Cardinality(Lost) + Cardinality(L)
      BY <1>13, <1>19, <2>1, CountAdds
    <2>3. IsFiniteSet(Replayed \cup D) /\ Cardinality(Replayed \cup D) = Cardinality(Replayed) + Cardinality(D)
      BY <1>12, <1>19, <2>1, CountAdds
    <2>4. CountInv' BY <1>9, <1>12, <1>13, <1>19, <2>1, <2>2, <2>3 DEF CountInv
    <2> QED BY <2>4, FS_CardinalityType DEF CountInv
  <1>21. Ahead' = Ahead BY <1>2 DEF Ahead, PushedBefore
  <1>22. ShapeInv'
    <2>1. StageInv' BY <1>2, <1>15 DEF BufferInv, ShapeInv, StageInv
    <2>2. PlaceInv'
      <3>1. (ToSet(batch) \cup ToSet(pending)) \cap ToSet(events) = {} /\ ToSet(batch) \cap ToSet(pending) = {}
        BY <1>16, PartFacts
      <3>2. Held = ToSet(events) \cup ToSet(batch) \cup ToSet(pending)
        BY <1>16 DEF BufferInv, ShapeInv, PlaceInv
      <3>3. Held' = ToSet(events') \cup Kept'
        BY <1>2, <1>12, <1>13, <1>15, <1>17, <1>19, <3>1, <3>2
      <3>4. \A x \in Flying : x \in Records /\ place'[x] \in {"held", "delivered", "refused"}
        BY <1>7, PartFacts DEF BufferInv, ShapeInv, PlaceInv
      <3> QED BY <1>17, <3>3, <3>4 DEF PlaceInv
    <2>3. LineInv'
      BY <1>2, <1>14, <1>15, <1>17, <1>21 DEF BufferInv, ShapeInv, LineInv
    <2> QED BY <2>1, <2>2, <2>3 DEF ShapeInv
  <1>23. BytesInv' BY <1>2, <1>17, <1>19 DEF BufferInv, BytesInv
  <1>24. WithinLimits' /\ WarningsRearmed'
    BY <1>2 DEF BufferInv, WithinLimits, heldBytes, WarningsRearmed
  <1>25. BufferTypeOK'
    BY <1>2, <1>8, <1>10, <1>11, <1>14, <1>20 DEF BufferInv, BufferTypeOK, world
  <1> QED BY <1>20, <1>22, <1>23, <1>24, <1>25 DEF BufferInv

\* ReleaseSettled keeps the invariant: the bytes of what has left go, and the
\* next window is cut off the rest.
LEMMA ReleaseSettledKeeps ==
    ASSUME BufferInv, ReleaseSettled
    PROVE  BufferInv'
  <1>1. /\ stage = "settled"
        /\ inFlight' = inFlight - (Len(batch) - Len(kept))
        /\ inFlightBytes' = inFlightBytes - (totalHeldBytes(batch) - totalHeldBytes(kept))
        /\ UNCHANGED <<events, queuedBytes, sendingBytes, flushBy, eventsReplayed, eventsEvicted>>
        /\ UNCHANGED <<full, resendFull, monitor, loop, stopped, asking, place, world, pushed>>
        /\ stage' \in {"ending", "sending"} /\ kept' = kept
    BY DEF ReleaseSettled, queue, counters, latches
  <1> DEFINE Rest == ToSet(kept) \cup ToSet(pending)
  <1>2. /\ batch \in Seq(Records) /\ kept \in Seq(Records) /\ pending \in Seq(Records)
        /\ Ordered(batch, Ahead) /\ Ordered(kept, Ahead) /\ Ordered(pending, Ahead)
        /\ ToSet(kept) \subseteq ToSet(batch) /\ flushBy # Nobody
    BY <1>1 DEF BufferInv, BufferTypeOK, ShapeInv, StageInv, LineInv
  <1>3. /\ ToSet(batch) \in SUBSET Records /\ IsFiniteSet(ToSet(batch)) /\ Cardinality(ToSet(batch)) = Len(batch)
        /\ Len(batch) \in Nat
    BY <1>2, PartCounts
  <1>4. /\ ToSet(kept) \in SUBSET Records /\ IsFiniteSet(ToSet(kept)) /\ Cardinality(ToSet(kept)) = Len(kept)
        /\ Len(kept) \in Nat
    BY <1>2, PartCounts
  <1>5. /\ ToSet(pending) \in SUBSET Records /\ IsFiniteSet(ToSet(pending))
        /\ Cardinality(ToSet(pending)) = Len(pending) /\ Len(pending) \in Nat
    BY <1>2, PartCounts
  <1>6. Flying = ToSet(batch) \cup ToSet(pending) /\ ToSet(batch) \cap ToSet(pending) = {} /\ Kept = Rest
    BY <1>1, <1>2, PartFacts DEF Flying, Kept
  <1>7. ToSet(kept) \cap ToSet(pending) = {} BY <1>2, <1>6
  <1>8. /\ Weight(Size, ToSet(batch)) \in Nat /\ Weight(Size, ToSet(pending)) \in Nat
        /\ Weight(Size, ToSet(batch) \cup ToSet(pending)) = Weight(Size, ToSet(batch)) + Weight(Size, ToSet(pending))
        /\ Cardinality(ToSet(batch) \cup ToSet(pending)) = Len(batch) + Len(pending)
    BY <1>2, <1>6, PartsTogether
  <1>9. /\ Weight(Size, ToSet(kept)) \in Nat
        /\ Weight(Size, Rest) = Weight(Size, ToSet(kept)) + Weight(Size, ToSet(pending))
        /\ Cardinality(Rest) = Len(kept) + Len(pending)
    BY <1>2, <1>7, PartsTogether
  <1>10. Weight(Size, ToSet(kept)) <= Weight(Size, ToSet(batch))
    <2>1. Size \in [Records -> Nat] BY BufferAssumption
    <2> QED BY <1>2, <1>3, <2>1, WeightTaken
  <1>11. /\ inFlightBytes = Weight(Size, ToSet(batch)) + Weight(Size, ToSet(pending))
         /\ inFlight = Len(batch) + Len(pending)
    BY <1>6, <1>8 DEF BufferInv, BytesInv
  <1>12. /\ inFlightBytes' = Weight(Size, Rest) /\ inFlightBytes' \in Nat /\ inFlightBytes' <= inFlightBytes
         /\ inFlight' = Cardinality(Rest) /\ inFlight' \in Nat
    <2>1. inFlightBytes' = inFlightBytes - (Weight(Size, ToSet(batch)) - Weight(Size, ToSet(kept)))
      BY <1>1 DEF totalHeldBytes
    <2>2. /\ inFlightBytes' = Weight(Size, ToSet(kept)) + Weight(Size, ToSet(pending))
          /\ inFlightBytes' \in Nat /\ inFlightBytes' <= inFlightBytes
      BY <1>8, <1>9, <1>10, <1>11, <2>1
    <2>3. inFlight' = Len(kept) + Len(pending) /\ inFlight' \in Nat
      BY <1>1, <1>3, <1>4, <1>5, <1>11
    <2> QED BY <1>9, <2>2, <2>3
  <1>13. Ahead' = Ahead BY <1>1 DEF Ahead, PushedBefore
  <1>14. Held' = Held /\ Reserved' = Reserved /\ Lost' = Lost /\ Replayed' = Replayed
    BY <1>1 DEF Held, Reserved, Lost, Replayed
  <1> DEFINE NextWindow ==
                /\ batch' \in Seq(Records) /\ pending' \in Seq(Records)
                /\ Ordered(batch', Ahead) /\ Ordered(pending', Ahead)
                /\ Flying' = Rest /\ Kept' = Rest
                /\ (ToSet(batch') \cup ToSet(kept')) \X ToSet(pending') \subseteq Ahead
                /\ stage' = "sending" => kept' = <<>>
                /\ stage' = "ending" => batch' = <<>>
  <1>15. NextWindow
    <2>1. CASE stage' = "ending" /\ batch' = <<>> /\ UNCHANGED <<kept, pending>>
      <3>1. batch' \in Seq(Records) /\ Ordered(batch', Ahead) /\ ToSet(batch') = {}
        BY <2>1, EmptyOrdered
      <3>2. Flying' = Rest /\ Kept' = Rest BY <2>1, <3>1 DEF Flying, Kept
      <3> QED BY <1>2, <2>1, <3>1, <3>2 DEF BufferInv, ShapeInv, LineInv
    <2>2. ASSUME NEW w, w = Min({ReplayConcurrency, Len(pending)}),
                 kept = <<>>, stage' = "sending",
                 batch' = SubSeq(pending, 1, w), pending' = SubSeq(pending, w + 1, Len(pending))
          PROVE  NextWindow
      <3>1. {ReplayConcurrency, Len(pending)} \in SUBSET Nat BY <1>5, BufferAssumption
      <3>2. w \in 0 .. Len(pending)
        <4>1. w \in {ReplayConcurrency, Len(pending)} /\ w <= Len(pending)
          BY <2>2, <3>1, MinIsLeast
        <4> QED BY <1>5, <3>1, <4>1
      <3>3. /\ batch' \in Seq(Records) /\ pending' \in Seq(Records)
            /\ Ordered(batch', Ahead) /\ Ordered(pending', Ahead)
            /\ ToSet(pending) = ToSet(batch') \cup ToSet(pending')
            /\ ToSet(batch') \X ToSet(pending') \subseteq Ahead
        <4> DEFINE p == SubSeq(pending, 1, w)
                   q == SubSeq(pending, w + 1, Len(pending))
        <4>1. /\ p \in Seq(Records) /\ q \in Seq(Records)
              /\ Ordered(p, Ahead) /\ Ordered(q, Ahead)
              /\ ToSet(pending) = ToSet(p) \cup ToSet(q) /\ ToSet(p) \X ToSet(q) \subseteq Ahead
          BY <1>2, <3>2, CutRecords
        <4>2. batch' = p /\ pending' = q BY <2>2
        <4> HIDE DEF p, q
        <4> QED BY <4>1, <4>2
      <3>4. ToSet(kept) = {} BY <2>2, EmptyOrdered
      <3>5. Flying' = Rest /\ Kept' = Rest BY <1>1, <2>2, <3>3, <3>4 DEF Flying, Kept
      <3> QED BY <1>1, <2>2, <3>3, <3>4, <3>5
    <2> QED BY <2>1, <2>2 DEF ReleaseSettled
  <1>16. ShapeInv'
    <2>1. StageInv' BY <1>1, <1>2, <1>15 DEF StageInv
    <2>2. PlaceInv'
      BY <1>1, <1>6, <1>14, <1>15 DEF BufferInv, ShapeInv, PlaceInv, Held
    <2>3. Rest \subseteq Flying BY <1>2, <1>6
    <2>4. LineInv'
      BY <1>1, <1>2, <1>13, <1>15, <2>3 DEF BufferInv, ShapeInv, LineInv
    <2> QED BY <2>1, <2>2, <2>4 DEF ShapeInv
  <1>17. BytesInv' BY <1>1, <1>12, <1>14, <1>15 DEF BufferInv, BytesInv
  <1>18. CountInv' BY <1>1, <1>14 DEF BufferInv, CountInv
  <1>19. WithinLimits'
    BY <1>1, <1>12, PartFacts, BufferAssumption DEF BufferInv, WithinLimits, heldBytes
  <1>20. WarningsRearmed' BY <1>1 DEF BufferInv, WarningsRearmed
  <1>21. BufferTypeOK'
    BY <1>1, <1>2, <1>12, <1>15 DEF BufferInv, BufferTypeOK, monitor, world
  <1> QED BY <1>16, <1>17, <1>18, <1>19, <1>20, <1>21 DEF BufferInv

\* What replay returned goes back in front of the queue, and the oldest go when
\* that is more than the limits allow.
LEMMA Requeue ==
    ASSUME BufferInv, stage = "ending"
    PROVE  /\ Returned \in Seq(Records) /\ ToSet(Returned) = Flying
           /\ Len(Returned) = inFlight /\ totalHeldBytes(Returned) = inFlightBytes
           /\ Requeued \in Seq(Records) /\ Ordered(Requeued, Ahead)
           /\ Kept = Flying /\ ToSet(Requeued) = Held
           /\ Len(Requeued) = inFlight + Len(events)
           /\ Weight(Size, ToSet(Requeued)) = queuedBytes + inFlightBytes
  <1>1. /\ batch = <<>> /\ events \in Seq(Records) /\ Ordered(events, Ahead)
        /\ kept \in Seq(Records) /\ pending \in Seq(Records)
        /\ Ordered(kept, Ahead) /\ Ordered(pending, Ahead)
    BY DEF BufferInv, BufferTypeOK, ShapeInv, StageInv, LineInv
  <1>2. ToSet(batch) = {} BY <1>1, EmptyOrdered
  <1>3. Flying = ToSet(kept) \cup ToSet(pending) /\ Kept = Flying BY <1>2 DEF Flying, Kept
  <1>4. ToSet(kept) \X ToSet(pending) \subseteq Ahead /\ Flying \X ToSet(events) \subseteq Ahead
    BY DEF BufferInv, ShapeInv, LineInv
  <1> DEFINE c == Returned
  <1>5. c \in Seq(Records) /\ ToSet(c) = Flying /\ Ordered(c, Ahead)
    BY <1>1, <1>3, <1>4, OrderedConcat DEF Returned
  <1> HIDE DEF c
  <1>6. Cardinality(ToSet(c)) = Len(c) BY <1>5, PartCounts
  <1>7. inFlightBytes = Weight(Size, Flying) /\ inFlight = Cardinality(Flying)
        /\ queuedBytes = Weight(Size, ToSet(events))
    BY DEF BufferInv, BytesInv
  <1>8. Len(c) = inFlight /\ totalHeldBytes(c) = inFlightBytes
    BY <1>5, <1>6, <1>7 DEF totalHeldBytes
  <1>9. Requeued = c \o events BY DEF Requeued, c
  <1>10. /\ Requeued \in Seq(Records) /\ Ordered(Requeued, Ahead)
         /\ ToSet(Requeued) = Flying \cup ToSet(events) /\ Len(Requeued) = Len(c) + Len(events)
    BY <1>1, <1>4, <1>5, <1>9, OrderedConcat
  <1>11. ToSet(Requeued) = Held
    BY <1>3, <1>10 DEF BufferInv, ShapeInv, PlaceInv
  <1>12. Weight(Size, Flying \cup ToSet(events)) = Weight(Size, Flying) + Weight(Size, ToSet(events))
    <2>1. /\ Flying \in SUBSET Records /\ IsFiniteSet(Flying)
          /\ ToSet(events) \in SUBSET Records /\ IsFiniteSet(ToSet(events))
          /\ Flying \cap ToSet(events) = {}
      BY PartFacts
    <2> QED BY <2>1, RecordsWeigh
  <1>13. Weight(Size, ToSet(Requeued)) = queuedBytes + inFlightBytes
    <2>1. Weight(Size, ToSet(Requeued)) = inFlightBytes + queuedBytes BY <1>7, <1>10, <1>12
    <2> QED BY <2>1, PartFacts
  <1> QED BY <1>3, <1>5, <1>8, <1>10, <1>11, <1>13 DEF c

\* PutBack keeps the invariant.
LEMMA PutBackKeeps ==
    ASSUME BufferInv, PutBack
    PROVE  BufferInv'
  <1> DEFINE queued == queuedBytes + totalHeldBytes(Returned)
             beside == inFlightBytes - totalHeldBytes(Returned) + sendingBytes
             n == evictOldestUntil(Requeued, queued, beside, RecordLimit, ByteLimit)
             p == SubSeq(Requeued, 1, n)
             q == SubSeq(Requeued, n + 1, Len(Requeued))
             P == ToSet(p)
             Q == ToSet(q)
  <1>1. /\ stage = "ending" /\ inFlight' = inFlight - Len(Returned)
        /\ \/ /\ Returned = <<>>
              /\ endOutage(sendingBytes)
              /\ UNCHANGED <<events, queuedBytes, inFlightBytes, eventsEvicted, place>>
           \/ /\ Returned # <<>>
              /\ inFlightBytes' = inFlightBytes - totalHeldBytes(Returned)
              /\ events' = q /\ queuedBytes' = queued - totalHeldBytes(p) /\ full' = (full \/ n > 0)
              /\ eventsEvicted' = eventsEvicted + n
              /\ place' = Placed(p, "dropped") /\ UNCHANGED resendFull
        /\ kept' = <<>> /\ pending' = <<>> /\ stage' = "none" /\ flushBy' = Nobody
        /\ asking' = asking \ {flushBy}
        /\ UNCHANGED <<sendingBytes, batch, eventsReplayed, monitor, loop, stopped, world, pushed>>
    BY DEF PutBack, DropOldest
  <1>2. /\ ToSet(Returned) = Flying /\ Len(Returned) = inFlight /\ totalHeldBytes(Returned) = inFlightBytes
        /\ Requeued \in Seq(Records) /\ Ordered(Requeued, Ahead)
        /\ Kept = Flying /\ ToSet(Requeued) = Held
        /\ Len(Requeued) = inFlight + Len(events)
        /\ Weight(Size, ToSet(Requeued)) = queuedBytes + inFlightBytes
    BY <1>1, Requeue
  <1>3. /\ inFlight \in Nat /\ inFlightBytes \in Nat /\ queuedBytes \in Nat /\ sendingBytes \in Nat
        /\ place \in [Records -> Places] /\ batch = <<>>
        /\ queuedBytes + inFlightBytes + sendingBytes <= ByteLimit
        /\ ByteLimit \in Nat /\ RecordLimit \in Nat \ {0}
    BY <1>1, BufferAssumption DEF BufferInv, BufferTypeOK, ShapeInv, StageInv, WithinLimits, heldBytes
  <1>4. inFlight' = 0 BY <1>1, <1>2, <1>3
  <1>5. Flying' = {} /\ Kept' = {}
    <2>1. batch' = <<>> /\ kept' = <<>> /\ pending' = <<>> BY <1>1, <1>3
    <2> QED BY <2>1, EmptyOrdered DEF Flying, Kept
  <1>6. /\ batch' \in Seq(Records) /\ kept' \in Seq(Records) /\ pending' \in Seq(Records)
        /\ Ordered(batch', Ahead) /\ Ordered(kept', Ahead) /\ Ordered(pending', Ahead)
        /\ ToSet(kept') = {} /\ ToSet(batch') = {} /\ ToSet(pending') = {}
    BY <1>1, <1>3, EmptyOrdered
  <1>7. Ahead' = Ahead BY <1>1 DEF Ahead, PushedBefore
  <1>8. StageInv' BY <1>1, <1>3 DEF StageInv
  <1>9. Held \subseteq ToSet(pushed)
    BY <1>2 DEF BufferInv, ShapeInv, LineInv, PlaceInv
  <1>10. Weight(Size, {}) = 0 /\ Cardinality({}) = 0 BY WeightOfNone, FS_EmptySet
  <1>11. IsFiniteSet(Reserved) /\ sendingBytes' = Weight(Size, Reserved)
    BY <1>1 DEF BufferInv, BytesInv
  <1>12. CASE /\ Returned = <<>>
              /\ endOutage(sendingBytes)
              /\ UNCHANGED <<events, queuedBytes, inFlightBytes, eventsEvicted, place>>
    <2>1. Flying = {} BY <1>2, <1>12, EmptyOrdered
    <2>2. inFlightBytes = 0 BY <1>10, <2>1 DEF BufferInv, BytesInv
    <2>3. Held' = Held /\ Reserved' = Reserved /\ Lost' = Lost /\ Replayed' = Replayed
      BY <1>12 DEF Held, Reserved, Lost, Replayed
    <2>4. PlaceInv'
      BY <1>2, <1>5, <1>12, <2>1, <2>3 DEF BufferInv, ShapeInv, PlaceInv
    <2>5. LineInv'
      BY <1>1, <1>5, <1>6, <1>7, <1>12 DEF BufferInv, ShapeInv, LineInv
    <2>6. BytesInv'
      BY <1>4, <1>5, <1>10, <1>11, <1>12, <2>2, <2>3 DEF BufferInv, BytesInv
    <2>7. CountInv' BY <1>1, <1>12, <2>3 DEF BufferInv, CountInv
    <2>8. WithinLimits' BY <1>1, <1>12 DEF BufferInv, WithinLimits, heldBytes
    <2>9. full' \in BOOLEAN /\ resendFull' \in BOOLEAN
      BY <1>12, OutageEnds DEF BufferInv, BufferTypeOK
    <2>10. BufferTypeOK'
      BY <1>1, <1>4, <1>6, <1>12, <2>9 DEF BufferInv, BufferTypeOK, monitor, world
    <2>11. WarningsRearmed' BY <1>1, <1>12, OutageEnds DEF WarningsRearmed
    <2> QED BY <1>8, <2>4, <2>5, <2>6, <2>7, <2>8, <2>10, <2>11 DEF BufferInv, ShapeInv
  <1>13. CASE /\ Returned # <<>>
              /\ inFlightBytes' = inFlightBytes - totalHeldBytes(Returned)
              /\ events' = q /\ queuedBytes' = queued - totalHeldBytes(p) /\ full' = (full \/ n > 0)
              /\ eventsEvicted' = eventsEvicted + n
              /\ place' = Placed(p, "dropped") /\ UNCHANGED resendFull
    <2>1. /\ n \in 0 .. Len(Requeued)
          /\ \/ n = Len(Requeued)
             \/ /\ Len(Requeued) - n <= RecordLimit
                /\ queued - totalHeldBytes(p) + beside <= ByteLimit
          /\ n > 0 => ~ /\ Len(Requeued) - (n - 1) <= RecordLimit
                        /\ queued - totalHeldBytes(SubSeq(Requeued, 1, n - 1)) + beside <= ByteLimit
      BY <1>2, EvictionStops
    <2>2. queued = queuedBytes + inFlightBytes /\ beside = sendingBytes BY <1>2, <1>3
    <2> HIDE DEF n
    <2>3. /\ p \in Seq(Records) /\ q \in Seq(Records)
          /\ Ordered(p, Ahead) /\ Ordered(q, Ahead)
          /\ Len(q) = Len(Requeued) - n
          /\ Held = P \cup Q /\ P \cap Q = {}
          /\ Cardinality(P) = n
          /\ Weight(Size, Q) = queuedBytes + inFlightBytes - Weight(Size, P)
      <3>1. /\ p \in Seq(Records) /\ q \in Seq(Records)
            /\ Ordered(p, Ahead) /\ Ordered(q, Ahead)
            /\ Len(q) = Len(Requeued) - n
            /\ ToSet(Requeued) = P \cup Q /\ P \cap Q = {}
            /\ Cardinality(P) = n
            /\ Weight(Size, Q) = Weight(Size, ToSet(Requeued)) - Weight(Size, P)
        <4>1. Requeued \in Seq(Records) /\ Ordered(Requeued, Ahead) BY <1>2
        <4>2. n \in 0 .. Len(Requeued) BY <2>1
        <4> QED BY <4>1, <4>2, CutRecords
      <3>2. ToSet(Requeued) = Held /\ Weight(Size, ToSet(Requeued)) = queuedBytes + inFlightBytes BY <1>2
      <3> HIDE DEF p, q
      <3>3. Held = P \cup Q BY <3>1, <3>2
      <3>4. Weight(Size, Q) = queuedBytes + inFlightBytes - Weight(Size, P)
        <4>1. Weight(Size, Q) = Weight(Size, ToSet(Requeued)) - Weight(Size, P) BY <3>1
        <4>2. Weight(Size, ToSet(Requeued)) = queuedBytes + inFlightBytes BY <1>2
        <4>3. queuedBytes \in Nat /\ inFlightBytes \in Nat BY <1>3
        <4>4. Weight(Size, P) \in Nat
          <5>1. P \in SUBSET Records /\ IsFiniteSet(P) BY <3>1, PartCounts
          <5>2. Size \in [Records -> Nat] BY BufferAssumption
          <5> QED BY <5>1, <5>2, WeightType
        <4> QED BY <4>1, <4>2, <4>3, <4>4
      <3> QED BY <3>1, <3>3, <3>4
    <2>4. /\ P \in SUBSET Records /\ IsFiniteSet(P) /\ Q \in SUBSET Records /\ IsFiniteSet(Q)
      BY <2>3, PartCounts
    <2>5. Weight(Size, P) \in Nat /\ Weight(Size, Q) \in Nat
      <3>1. Size \in [Records -> Nat] BY BufferAssumption
      <3> QED BY <2>4, <3>1, WeightType
    <2>6. queuedBytes' = Weight(Size, Q) /\ queuedBytes' \in Nat /\ inFlightBytes' = 0
      BY <1>2, <1>3, <1>13, <2>2, <2>3, <2>5 DEF totalHeldBytes
    <2>7. \A x \in Records : place'[x] = IF x \in P THEN "dropped" ELSE place[x]
      BY <1>13 DEF Placed
    <2>8. place' \in [Records -> Places]
      BY <1>3, <1>13 DEF Placed, Places, Gone
    <2> HIDE DEF p, q
    <2>9. Held' = Q /\ Reserved' = Reserved /\ Replayed' = Replayed /\ Lost' = Lost \cup P /\ P \cap Lost = {}
      <3>1. P \subseteq Held BY <2>3
      <3>2. Held' = Held \ P BY <2>7 DEF Held
      <3>3. Reserved' = Reserved /\ Replayed' = Replayed
        BY <2>7, <3>1 DEF Held, Reserved, Replayed
      <3>4. Lost' = Lost \cup P /\ P \cap Lost = {} BY <2>7, <3>1 DEF Held, Lost
      <3> QED BY <2>3, <3>2, <3>3, <3>4
    <2>10. CountInv' /\ eventsEvicted' \in Nat /\ eventsReplayed' \in Nat
      <3>1. UNCHANGED eventsReplayed /\ eventsEvicted' = eventsEvicted + Cardinality(P)
        BY <1>1, <1>13, <2>3
      <3> QED BY <2>4, <2>9, <3>1, LossesCounted
    <2>11. PlaceInv' BY <1>5, <1>13, <2>9 DEF PlaceInv
    <2>12. LineInv'
      BY <1>1, <1>5, <1>6, <1>7, <1>9, <1>13, <2>3 DEF LineInv
    <2>13. BytesInv'
      BY <1>4, <1>5, <1>10, <1>11, <1>13, <2>6, <2>9 DEF BytesInv
    <2>14. Len(Requeued) \in Nat BY <1>2, LenProperties
    <2>15. WithinLimits'
      <3>1. CASE n = Len(Requeued)
        <4>1. Len(q) = 0 BY <2>3, <2>14, <3>1
        <4>2. q = <<>> BY <2>3, <4>1, EmptySeq
        <4>3. queuedBytes' = 0 BY <1>10, <2>6, <4>2, EmptyOrdered
        <4> QED BY <1>1, <1>3, <1>13, <2>6, <4>1, <4>3 DEF WithinLimits, heldBytes
      <3>2. CASE /\ Len(Requeued) - n <= RecordLimit
                 /\ queued - totalHeldBytes(p) + beside <= ByteLimit
        <4>1. Len(events') <= RecordLimit BY <1>13, <2>3, <3>2
        <4>2. queuedBytes' + sendingBytes <= ByteLimit BY <1>13, <2>2, <3>2
        <4> QED BY <1>1, <1>3, <2>6, <4>1, <4>2 DEF WithinLimits, heldBytes
      <3> QED BY <2>1, <3>1, <3>2
    <2>16. full' \in BOOLEAN BY <1>13 DEF BufferInv, BufferTypeOK
    <2>17. BufferTypeOK'
      <3>1. BufferTypeOK BY DEF BufferInv
      <3>2. /\ events' \in Seq(Records) /\ batch' \in Seq(Records) /\ kept' \in Seq(Records)
            /\ pending' \in Seq(Records) /\ pushed' \in Seq(Records)
        BY <1>1, <1>4, <1>6, <1>13, <2>3, <3>1 DEF BufferTypeOK
      <3>3. {queuedBytes', inFlightBytes', sendingBytes', inFlight'} \subseteq Nat
        <4>1. inFlightBytes' \in Nat /\ inFlight' \in Nat BY <1>4, <2>6
        <4>2. sendingBytes' = sendingBytes BY <1>1
        <4> QED BY <1>3, <2>6, <4>1, <4>2
      <3>4. /\ eventsReplayed' \in Nat /\ eventsEvicted' \in Nat /\ place' \in [Records -> Places]
            /\ dayOld' \subseteq Records
        <4>1. dayOld' = dayOld BY <1>1 DEF world
        <4>2. dayOld \subseteq Records BY <3>1 DEF BufferTypeOK
        <4> QED BY <2>8, <2>10, <4>1, <4>2
      <3>5. {full', resendFull', failing', wake', stopped'} \subseteq BOOLEAN
        <4>1. /\ resendFull \in BOOLEAN /\ failing \in BOOLEAN /\ wake \in BOOLEAN /\ stopped \in BOOLEAN
          BY <3>1 DEF BufferTypeOK
        <4>2. failing' = failing /\ wake' = wake /\ stopped' = stopped BY <1>1 DEF monitor
        <4>3. resendFull' = resendFull BY <1>13
        <4> QED BY <2>16, <4>1, <4>2, <4>3
      <3>6. /\ loop' \in {"off", "on", "ended"} /\ asking' \subseteq Flushers
            /\ flushBy' \in asking' \cup {Nobody} /\ service' \in {"up", "down"}
            /\ stage' \in {"none", "sending", "settled", "ending"}
        BY <1>1, <1>4, <1>13, <3>1 DEF BufferTypeOK, world
      <3> QED BY <3>2, <3>3, <3>4, <3>5, <3>6 DEF BufferTypeOK
    <2>18. WarningsRearmed'
      <3> SUFFICES ASSUME events' = <<>>, sendingBytes' = 0 PROVE FALSE
        BY DEF WarningsRearmed
      <3>1. n = Len(Requeued)
        <4>1. Len(q) = 0 BY <1>13, EmptySeq
        <4> QED BY <2>1, <2>3, <2>14, <4>1
      <3>2. Len(Returned) \in Nat /\ Len(Returned) # 0 BY <1>1, <1>13, Requeue, EmptySeq, LenProperties
      <3>3. n > 0
        <4>1. events \in Seq(Records) BY DEF BufferInv, BufferTypeOK
        <4>2. Len(events) \in Nat BY <4>1, LenProperties
        <4> QED BY <1>2, <3>1, <3>2, <4>2
      <3>4. Len(Requeued) - (n - 1) <= RecordLimit BY <1>3, <2>14, <3>1
      <3> DEFINE s == SubSeq(Requeued, 1, n - 1)
      <3>5. totalHeldBytes(s) \in Nat
        <4>1. n - 1 \in 0 .. Len(Requeued) BY <2>1, <2>14, <3>3
        <4>2. s \in Seq(Records) BY <1>2, <4>1, CutRecords
        <4> HIDE DEF s
        <4>3. ToSet(s) \in SUBSET Records /\ IsFiniteSet(ToSet(s)) BY <4>2, ElementsTyped
        <4>4. Size \in [Records -> Nat] BY BufferAssumption
        <4> QED BY <4>3, <4>4, WeightType DEF totalHeldBytes
      <3> HIDE DEF s
      <3>6. queued - totalHeldBytes(s) + beside <= ByteLimit
        BY <1>1, <1>3, <2>2, <3>5
      <3> QED BY <2>1, <3>3, <3>4, <3>6 DEF s
    <2> QED BY <1>8, <2>10, <2>11, <2>12, <2>13, <2>15, <2>17, <2>18 DEF BufferInv, ShapeInv
  <1> QED BY <1>1, <1>12, <1>13

-----------------------------------------------------------------------------
(* The invariant holds at every step.                                      *)

\* Holding a record, with its reservation given up when it had one.
LEMMA PushKeeps ==
    ASSUME BufferInv, NEW r \in Records, place[r] \in {"new", "reserved"},
           sendingBytes' = IF r \in Reserved THEN sendingBytes - Size[r] ELSE sendingBytes,
           push(r, sendingBytes'),
           UNCHANGED <<flight, eventsReplayed, monitor, stopped, asking, world>>
    PROVE  BufferInv'
  <1>1. CASE fitsBesideUndroppable(sendingBytes', Size[r]) BY <1>1, HoldKeeps
  <1>2. CASE ~fitsBesideUndroppable(sendingBytes', Size[r])
    <2>1. /\ resendFull' = (resendFull \/ Size[r] <= ByteLimit)
          /\ eventsEvicted' = eventsEvicted + 1
          /\ place' = [place EXCEPT ![r] = "dropped"]
          /\ UNCHANGED <<events, queuedBytes, full, loop, pushed>>
      BY <1>2 DEF push
    <2> QED BY <1>2, <2>1, RefusalKeeps
  <1> QED BY <1>1, <1>2

\* Every step the client asks of the buffer keeps the invariant.
LEMMA ClientRequestsKeep ==
    ASSUME BufferInv, NEW r \in Records,
           \/ Reserve(r) \/ RefuseReservation(r)
           \/ ReleaseSend(r) \/ HoldSent(r) \/ Push(r) \/ NeverHeld(r)
    PROVE  BufferInv'
  <1>1. CASE Reserve(r) BY <1>1, ReserveKeeps
  <1>2. CASE RefuseReservation(r)
    <2>1. r \notin Reserved BY <1>2 DEF RefuseReservation, Reserved
    <2> QED BY <1>2, <2>1, RefusalKeeps DEF RefuseReservation, queue
  <1>3. CASE ReleaseSend(r) BY <1>3, ReleaseSendKeeps
  <1>4. CASE HoldSent(r)
    <2>1. r \in Reserved BY <1>4 DEF HoldSent, Reserved
    <2> QED BY <1>4, <2>1, PushKeeps DEF HoldSent
  <1>5. CASE Push(r)
    <2>1. r \notin Reserved BY <1>5 DEF Push, Reserved
    <2>2. sendingBytes' = sendingBytes BY <1>5 DEF Push
    <2> QED BY <1>5, <2>1, <2>2, PushKeeps DEF Push
  <1>6. CASE NeverHeld(r) BY <1>6, NeverHeldKeeps
  <1> QED BY <1>1, <1>2, <1>3, <1>4, <1>5, <1>6

\* Every step of a flush, of the loop, of the monitor and of the world does.
LEMMA FlushKeeps ==
    ASSUME BufferInv, Flush
    PROVE  BufferInv'
  <1>1. CASE LoopTicks
    <2>1. BufferTypeOK'
      BY <1>1 DEF LoopTicks, BufferInv, BufferTypeOK, queue, flight, counters, latches, monitor, world, Flushers
    <2> QED BY <1>1, <2>1, Bookkeeping DEF LoopTicks
  <1>2. CASE LoopWakes
    <2>1. BufferTypeOK'
      BY <1>2 DEF LoopWakes, BufferInv, BufferTypeOK, queue, flight, counters, latches, world, Flushers
    <2> QED BY <1>2, <2>1, Bookkeeping DEF LoopWakes
  <1>3. CASE LoopEnds
    <2>1. BufferTypeOK'
      BY <1>3 DEF LoopEnds, BufferInv, BufferTypeOK, queue, flight, counters, latches, monitor, world
    <2> QED BY <1>3, <2>1, Bookkeeping DEF LoopEnds
  <1>4. ASSUME NEW f \in Drainers, StartDrain(f) PROVE BufferInv'
    <2>1. BufferTypeOK'
      BY <1>4 DEF StartDrain, BufferInv, BufferTypeOK, queue, flight, counters, latches, monitor, world, Flushers
    <2> QED BY <1>4, <2>1, Bookkeeping DEF StartDrain
  <1>5. ASSUME NEW f \in Flushers, TakePending(f) PROVE BufferInv' BY <1>5, TakePendingKeeps
  <1>6. CASE ResendWindow BY <1>6, ResendWindowKeeps
  <1>7. CASE ReleaseSettled BY <1>7, ReleaseSettledKeeps
  <1>8. CASE PutBack BY <1>8, PutBackKeeps
  <1> QED BY <1>1, <1>2, <1>3, <1>4, <1>5, <1>6, <1>7, <1>8 DEF Flush

\* One step of the buffer.
LEMMA BufferStepKeeps ==
    ASSUME BufferInv, [BufferNext]_bvars
    PROVE  BufferInv'
  <1>1. ASSUME NEW r \in Records,
               \/ Reserve(r) \/ RefuseReservation(r)
               \/ ReleaseSend(r) \/ HoldSent(r) \/ Push(r) \/ NeverHeld(r)
        PROVE  BufferInv'
    BY <1>1, ClientRequestsKeep
  <1>2. ASSUME NEW r \in Records, Age(r) PROVE BufferInv'
    <2>1. BufferTypeOK'
      BY <1>2 DEF Age, BufferInv, BufferTypeOK, queue, flight, counters, latches, monitor
    <2> QED BY <1>2, <2>1, Bookkeeping DEF Age
  <1>3. ASSUME NEW o \in Outcomes, FirstSend(o) PROVE BufferInv'
    <2>1. failing \in BOOLEAN /\ wake \in BOOLEAN BY DEF BufferInv, BufferTypeOK
    <2>2. failing' \in BOOLEAN /\ wake' \in BOOLEAN
      BY <1>3, <2>1, Zenon DEF FirstSend, RecordOutcome
    <2>3. BufferTypeOK'
      BY <1>3, <2>2 DEF FirstSend, BufferInv, BufferTypeOK, queue, flight, counters, latches, world
    <2> QED BY <1>3, <2>3, Bookkeeping DEF FirstSend
  <1>4. CASE Flush BY <1>4, FlushKeeps
  <1>5. CASE CloseStopCh
    <2>1. BufferTypeOK'
      BY <1>5 DEF CloseStopCh, BufferInv, BufferTypeOK, queue, flight, counters, latches, monitor, world
    <2> QED BY <1>5, <2>1, Bookkeeping DEF CloseStopCh
  <1>6. CASE Heal
    <2>1. BufferTypeOK'
      BY <1>6 DEF Heal, BufferInv, BufferTypeOK, queue, flight, counters, latches, monitor
    <2> QED BY <1>6, <2>1, Bookkeeping DEF Heal
  <1>7. CASE UNCHANGED bvars
    <2>1. BufferTypeOK'
      BY <1>7 DEF bvars, BufferInv, BufferTypeOK, queue, flight, counters, latches, monitor, world
    <2> QED BY <1>7, <2>1, Bookkeeping DEF bvars
  <1> QED BY <1>1, <1>2, <1>3, <1>4, <1>5, <1>6, <1>7 DEF BufferNext

\* The empty buffer.
LEMMA BufferStarts == BufferInit => BufferInv
  <1> SUFFICES ASSUME BufferInit PROVE BufferInv
    OBVIOUS
  <1>0. /\ events = <<>> /\ batch = <<>> /\ kept = <<>> /\ pending = <<>> /\ pushed = <<>>
        /\ queuedBytes = 0 /\ inFlightBytes = 0 /\ sendingBytes = 0 /\ inFlight = 0
        /\ eventsReplayed = 0 /\ eventsEvicted = 0 /\ ~full /\ ~resendFull
        /\ flushBy = Nobody /\ stage = "none" /\ place = [r \in Records |-> "new"]
    BY DEF BufferInit
  <1>1. ToSet(<<>>) = {} /\ Ordered(<<>>, Ahead) BY EmptyOrdered
  <1>2. Flying = {} /\ Kept = {} BY <1>0, <1>1 DEF Flying, Kept
  <1>3. Held = {} /\ Reserved = {} /\ Lost = {} /\ Replayed = {}
    BY <1>0 DEF Held, Reserved, Lost, Replayed
  <1>4. IsFiniteSet({}) /\ Cardinality({}) = 0 /\ Weight(Size, {}) = 0
    BY FS_EmptySet, WeightOfNone
  <1>5. ShapeInv
    BY <1>0, <1>1, <1>2, <1>3 DEF ShapeInv, StageInv, LineInv, PlaceInv
  <1>6. BytesInv /\ CountInv BY <1>0, <1>1, <1>2, <1>3, <1>4 DEF BytesInv, CountInv
  <1>7. WithinLimits
    <2>1. Len(events) = 0 BY <1>0
    <2> QED BY <1>0, <2>1, BufferAssumption DEF WithinLimits, heldBytes
  <1>8. BufferTypeOK
    <2>1. events \in Seq(Records) /\ batch \in Seq(Records) /\ kept \in Seq(Records)
          /\ pending \in Seq(Records) /\ pushed \in Seq(Records)
      BY <1>0
    <2>2. place \in [Records -> Places] BY <1>0 DEF Places
    <2>3. /\ failing = FALSE /\ wake = FALSE /\ stopped = FALSE /\ full = FALSE /\ resendFull = FALSE
          /\ loop = "off" /\ asking = {} /\ dayOld = {} /\ service = "down"
      BY DEF BufferInit
    <2>4. {queuedBytes, inFlightBytes, sendingBytes, inFlight} \subseteq Nat BY <1>0
    <2>5. {full, resendFull, failing, wake, stopped} \subseteq BOOLEAN BY <2>3
    <2>6. eventsReplayed \in Nat /\ eventsEvicted \in Nat /\ flushBy = Nobody /\ stage = "none" BY <1>0
    <2> QED BY <2>1, <2>2, <2>3, <2>4, <2>5, <2>6 DEF BufferTypeOK
  <1>9. WarningsRearmed BY <1>0 DEF WarningsRearmed
  <1> QED BY <1>5, <1>6, <1>7, <1>8, <1>9 DEF BufferInv

\* The invariant the theorems follow from: counters, line and places of the
\* records agree at every step of the buffer.
THEOREM BufferStands == BufferSpec => []BufferInv
  <1>1. BufferInv /\ [BufferNext]_bvars => BufferInv' BY BufferStepKeeps
  <1> QED BY BufferStarts, <1>1, PTL DEF BufferSpec

-----------------------------------------------------------------------------
(* What follows.                                                           *)

\* The line as the properties write it.
LEMMA TheLine ==
    ASSUME BufferInv
    PROVE  LET inFlush == IF stage = "settled" THEN kept \o pending ELSE batch \o kept \o pending IN
           /\ inFlush \in Seq(Records) /\ Ordered(inFlush, Ahead)
           /\ ToSet(inFlush) = Kept
           /\ ToSet(inFlush) \X ToSet(events) \subseteq Ahead
  <1> DEFINE inFlush == IF stage = "settled" THEN kept \o pending ELSE batch \o kept \o pending
  <1>1. /\ batch \in Seq(Records) /\ kept \in Seq(Records) /\ pending \in Seq(Records)
        /\ Ordered(batch, Ahead) /\ Ordered(kept, Ahead) /\ Ordered(pending, Ahead)
        /\ (ToSet(batch) \cup ToSet(kept)) \X ToSet(pending) \subseteq Ahead
        /\ Flying \X ToSet(events) \subseteq Ahead
    BY DEF BufferInv, BufferTypeOK, ShapeInv, LineInv
  <1>2. /\ inFlush \in Seq(Records) /\ Ordered(inFlush, Ahead) /\ ToSet(inFlush) = Kept
    <2>1. CASE stage = "settled"
      <3>1. ToSet(kept) \X ToSet(pending) \subseteq Ahead BY <1>1
      <3>2. /\ kept \o pending \in Seq(Records) /\ Ordered(kept \o pending, Ahead)
            /\ ToSet(kept \o pending) = ToSet(kept) \cup ToSet(pending)
        BY <1>1, <3>1, OrderedConcat
      <3>3. Kept = ToSet(kept) \cup ToSet(pending) BY <2>1 DEF Kept
      <3> QED BY <2>1, <3>2, <3>3
    <2>2. CASE stage # "settled"
      <3>1. ToSet(batch) = {} \/ ToSet(kept) = {}
        BY <2>2, EmptyOrdered DEF BufferInv, BufferTypeOK, ShapeInv, StageInv
      <3> DEFINE front == batch \o kept
      <3>2. /\ front \in Seq(Records) /\ Ordered(front, Ahead)
            /\ ToSet(front) = ToSet(batch) \cup ToSet(kept)
        BY <1>1, <3>1, OrderedConcat
      <3> HIDE DEF front
      <3>3. /\ front \o pending \in Seq(Records) /\ Ordered(front \o pending, Ahead)
            /\ ToSet(front \o pending) = ToSet(front) \cup ToSet(pending)
        BY <1>1, <3>2, OrderedConcat
      <3>4. Kept = ToSet(front) \cup ToSet(pending) BY <2>2, <3>2 DEF Kept
      <3>5. inFlush = front \o pending BY <2>2 DEF front
      <3> QED BY <3>3, <3>4, <3>5
    <2> QED BY <2>1, <2>2
  <1> HIDE DEF inFlush
  <1>3. Kept \subseteq Flying BY DEF Kept, Flying
  <1>4. ToSet(inFlush) \X ToSet(events) \subseteq Ahead BY <1>1, <1>2, <1>3
  <1> QED BY <1>2, <1>4 DEF inFlush

\* The byte counters are what they stand for and the limits hold, for any
\* records, sizes, limits and drains, at every step of the buffer.
THEOREM BytesAreKept == BufferSpec => []BytesKept
  <1>1. ASSUME BufferInv PROVE BytesKept
    <2>1. Unsettled \cup ToSet(pending) = Flying
      BY <1>1 DEF BufferInv, ShapeInv, StageInv, Unsettled, Flying
    <2>2. BytesAccounted
      BY <1>1, <2>1 DEF BufferInv, BytesInv, BytesAccounted, totalHeldBytes, Reserved
    <2> QED BY <1>1, <2>2 DEF BytesKept, BufferInv
  <1> QED BY BufferStands, <1>1, PTL

\* A record held is in the queue or in the flush, once, and the line keeps the
\* order in which records were held, through any number of failed flushes.
THEOREM QueueIsKept == BufferSpec => []QueueKept
  <1>1. ASSUME BufferInv PROVE QueueKept
    <2> DEFINE inFlush == IF stage = "settled" THEN kept \o pending ELSE batch \o kept \o pending
               Other == {p \in Records \X Records : p[1] # p[2]}
    <2>1. /\ inFlush \in Seq(Records) /\ Ordered(inFlush, Ahead) /\ ToSet(inFlush) = Kept
          /\ ToSet(inFlush) \X ToSet(events) \subseteq Ahead
      BY <1>1, TheLine
    <2>2. events \in Seq(Records) /\ Ordered(events, Ahead) /\ Held = ToSet(events) \cup Kept
      BY <1>1 DEF BufferInv, BufferTypeOK, ShapeInv, LineInv, PlaceInv
    <2> HIDE DEF inFlush
    <2>3. EachRecordOnce
      <3> DEFINE both == events \o inFlush
      <3>1. Ahead \subseteq Other /\ \A x \in Records : <<x, x>> \notin Other BY DEF Ahead
      <3>2. Ordered(events, Other) /\ Ordered(inFlush, Other)
        BY <2>1, <2>2, <3>1 DEF Ordered
      <3>3. ToSet(events) \X ToSet(inFlush) \subseteq Other
        <4>1. ToSet(events) \in SUBSET Records /\ ToSet(inFlush) \in SUBSET Records
          BY <2>1, <2>2, ElementsTyped
        <4>2. ToSet(inFlush) \cap ToSet(events) = {} BY <2>1, <4>1, PartsApart
        <4> QED BY <4>1, <4>2
      <3> HIDE DEF Other
      <3>4. both \in Seq(Records) /\ Ordered(both, Other) /\ ToSet(both) = ToSet(events) \cup ToSet(inFlush)
        BY <2>1, <2>2, <3>2, <3>3, OrderedConcat
      <3> HIDE DEF both
      <3>5. IsInjective(both) BY <3>1, <3>4, OrderedCounts
      <3>6. ToSet(both) = {r \in Records : place[r] = "held"} BY <2>1, <2>2, <3>4 DEF Held
      <3> QED BY <3>5, <3>6 DEF EachRecordOnce, both, inFlush
    <2>4. OldestFirst
      <3> DEFINE order == inFlush \o events
      <3>1. Ordered(order, Ahead) BY <2>1, <2>2, OrderedConcat
      <3> HIDE DEF order
      <3>2. \A i, j \in DOMAIN order : i < j => PushedBefore(order[i], order[j])
        BY <3>1 DEF Ordered, Ahead
      <3> QED BY <3>2 DEF OldestFirst, order, inFlush
    <2> QED BY <2>3, <2>4 DEF QueueKept
  <1> QED BY BufferStands, <1>1, PTL

\* Whatever the buffer took and no longer has was replayed or is in
\* eventsEvicted, and a quiet buffer will warn of the next outage.
THEOREM LossesAreTold == BufferSpec => []LossesTold
  <1>1. ASSUME BufferInv PROVE LossesTold
    BY <1>1 DEF BufferInv, CountInv, LossesTold, LossesAreCounted, Lost, Replayed
  <1> QED BY BufferStands, <1>1, PTL
=============================================================================
