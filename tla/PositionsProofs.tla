-------------------------- MODULE PositionsProofs --------------------------
(***************************************************************************)
(* What Positions computes, for sequences of any length, and how something *)
(* is proved for all positions.                                            *)
(***************************************************************************)
EXTENDS Positions, FiniteSetTheorems, SequenceTheorems, TLAPS

-----------------------------------------------------------------------------
(* Induction over the positions of a list.                                   *)

\* What holds at 0, and at the next whenever at one, holds up to n.
LEMMA UpTo ==
  ASSUME NEW n \in Nat, NEW S, 0 \in S, \A i \in 0..n - 1 : i \in S => i + 1 \in S
  PROVE  0..n \subseteq S
  <1> DEFINE Bad == {i \in Nat : i <= n /\ i \notin S}
  <1>1. SUFFICES ASSUME Bad # {} PROVE FALSE
    OBVIOUS
  <1>2. PICK i \in Bad : \A m \in Bad : ~(<<m, i>> \in OpToRel(<, Nat))
    BY <1>1, NatLessThanWellFounded, WFMin
  <1>3. i \in Nat /\ i <= n /\ i \notin S /\ i # 0
    OBVIOUS
  <1>4. <<i - 1, i>> \in OpToRel(<, Nat)
    BY <1>3 DEF OpToRel
  <1>5. i - 1 \in S /\ i - 1 \in 0..n - 1
    <2>1. i - 1 \notin Bad
      BY <1>2, <1>4
    <2>2. i - 1 \in Nat /\ i - 1 <= n /\ i - 1 \in 0..n - 1
      BY <1>3
    <2> QED BY <2>1, <2>2
  <1>6. (i - 1) + 1 = i
    BY <1>3
  <1>7. i \in S
    BY <1>5, <1>6
  <1> QED BY <1>3, <1>7

\* A set of numbers has a least one.
LEMMA Least ==
  ASSUME NEW S \in SUBSET Nat, S # {}
  PROVE  \E i \in S : \A j \in S : i <= j
  <1>1. PICK i \in S : \A j \in S : ~(<<j, i>> \in OpToRel(<, Nat))
    BY NatLessThanWellFounded, WFMin
  <1>2. ASSUME NEW j \in S PROVE i <= j
    <2>1. i \in Nat /\ j \in Nat
      OBVIOUS
    <2>2. j < i => <<j, i>> \in OpToRel(<, Nat)
      BY <2>1 DEF OpToRel
    <2>3. ~(j < i)
      BY <1>1, <2>2
    <2> QED BY <2>1, <2>3
  <1> QED BY <1>2

-----------------------------------------------------------------------------
(* Numbering some of the positions.                                          *)

\* Positions of a list are finitely many.
LEMMA PositionsFinite ==
  ASSUME NEW n \in Nat, NEW K \in SUBSET (1..n)
  PROVE  IsFiniteSet(K) /\ Cardinality(K) \in Nat
  <1>1. IsFiniteSet(1..n)
    BY FS_Interval
  <1>2. IsFiniteSet(K)
    BY <1>1, FS_Subset
  <1> QED BY <1>2, FS_CardinalityType

\* Counting the positions of K up to each numbers them from 1 on in order.
LEMMA RankMonotone ==
  ASSUME NEW n \in Nat, NEW K \in SUBSET (1..n), NEW i \in K, NEW k \in K
  PROVE  /\ IsFiniteSet(K) /\ Cardinality(K) \in Nat
         /\ Rank(K, i) \in 1..Cardinality(K)
         /\ i < k => Rank(K, i) < Rank(K, k)
  <1> DEFINE Upto(m) == {j \in K : j <= m}
  <1>1. IsFiniteSet(K) /\ Cardinality(K) \in Nat
    BY PositionsFinite
  <1>2. ASSUME NEW m \in K
        PROVE  IsFiniteSet(Upto(m)) /\ Cardinality(Upto(m)) \in Nat
                 /\ Cardinality(Upto(m)) <= Cardinality(K)
    BY <1>1, FS_Subset, FS_CardinalityType
  <1>3. Cardinality(Upto(i)) # 0
    <2>1. i \in Upto(i)
      OBVIOUS
    <2> QED BY <1>2, <2>1, FS_EmptySet
  <1>4. ASSUME i < k PROVE Cardinality(Upto(i)) < Cardinality(Upto(k))
    <2>1. Upto(i) \in SUBSET Upto(k)
      <3>1. ASSUME NEW j \in K, j <= i PROVE j <= k
        BY <1>4, <3>1
      <3> QED BY <3>1
    <2>2. k \in Upto(k) /\ k \notin Upto(i)
      BY <1>4
    <2>3. Cardinality(Upto(i)) <= Cardinality(Upto(k)) /\ Cardinality(Upto(i)) # Cardinality(Upto(k))
      BY <1>2, <2>1, <2>2, FS_Subset
    <2> QED BY <1>2, <2>3
  <1> QED BY <1>1, <1>2, <1>3, <1>4 DEF Rank

\* Every number up to that of the positions is the rank of one.
LEMMA RankOnto ==
  ASSUME NEW n \in Nat, NEW K \in SUBSET (1..n), NEW r \in 1..Cardinality(K)
  PROVE  /\ Place(K, r) \in K
         /\ Rank(K, Place(K, r)) = r
  <1> DEFINE f == [i \in K |-> Rank(K, i)]
             T == 1..Cardinality(K)
  <1>1. IsFiniteSet(K) /\ Cardinality(K) \in Nat
    BY PositionsFinite
  <1>2. IsFiniteSet(T) /\ Cardinality(T) = Cardinality(K)
    BY <1>1, FS_Interval
  <1>3. /\ \A i \in K : Rank(K, i) \in T
        /\ \A i, k \in K : i < k => Rank(K, i) < Rank(K, k)
    BY RankMonotone
  <1>4. ASSUME NEW i \in K, NEW k \in K, Rank(K, i) = Rank(K, k) PROVE i = k
    <2>1. i \in Int /\ k \in Int /\ Rank(K, i) \in Int
      BY <1>1, <1>3
    <2> QED BY <1>3, <1>4, <2>1
  <1>5. f \in Injection(K, T)
    <2>1. f \in [K -> T] /\ \A i \in K : f[i] = Rank(K, i)
      BY <1>3
    <2>2. \A i, k \in K : f[i] = f[k] => i = k
      BY <1>4, <2>1
    <2> QED BY <2>1, <2>2 DEF Injection, IsInjective
  <1>6. f \in Surjection(K, T)
    BY <1>2, <1>5, FS_Injection
  <1>7. \E i \in K : f[i] = r
    BY <1>6 DEF Surjection
  <1> QED BY <1>7 DEF Place

\* Only keeps the elements at the positions K, each once, in their order.
LEMMA OnlyProperties ==
  ASSUME NEW S, NEW s \in Seq(S), NEW K \in SUBSET (1..Len(s))
  PROVE  /\ Only(s, K) \in Seq(S)
         /\ Len(Only(s, K)) = Cardinality(K)
         /\ \A n \in 1..Len(Only(s, K)) : Place(K, n) \in K /\ Only(s, K)[n] = s[Place(K, n)]
         /\ \A i \in K : \E n \in 1..Len(Only(s, K)) : Place(K, n) = i
         /\ \A m, n \in 1..Len(Only(s, K)) : m < n <=> Place(K, m) < Place(K, n)
         /\ \A m, n \in 1..Len(Only(s, K)) : Place(K, m) = Place(K, n) => m = n
  <1> DEFINE t == Only(s, K)
             c == Cardinality(K)
  <1>1. Len(s) \in Nat
    OBVIOUS
  <1>2. c \in Nat
    BY <1>1, PositionsFinite
  <1>3. \A n \in 1..c : Place(K, n) \in K /\ Rank(K, Place(K, n)) = n
    BY <1>1, RankOnto
  <1>4. /\ K \subseteq Int
        /\ \A i \in K : Rank(K, i) \in 1..c /\ Rank(K, i) \in Int
        /\ \A i, k \in K : i < k => Rank(K, i) < Rank(K, k)
    <2>1. \A i \in K : Rank(K, i) \in 1..c
      BY <1>1, RankMonotone
    <2>2. \A i, k \in K : i < k => Rank(K, i) < Rank(K, k)
      BY <1>1, RankMonotone
    <2> QED BY <1>1, <1>2, <2>1, <2>2
  <1>5. t = [n \in 1..c |-> s[Place(K, n)]] /\ \A n \in 1..c : s[Place(K, n)] \in S
    BY <1>1, <1>3, ElementOfSeq DEF Only
  <1>6. t \in Seq(S) /\ Len(t) = c
    BY <1>2, <1>5
  <1>7. \A i, k \in K : Rank(K, i) = Rank(K, k) => i = k
    <2> SUFFICES ASSUME NEW i \in K, NEW k \in K, Rank(K, i) = Rank(K, k) PROVE i = k
      OBVIOUS
    <2>1. ~(i < k) /\ ~(k < i) /\ i \in Int /\ k \in Int
      BY <1>4
    <2> QED BY <2>1
  <1>8. \A i \in K : Rank(K, i) \in 1..c /\ Place(K, Rank(K, i)) = i
    BY <1>3, <1>4, <1>7
  <1>9. \A m, n \in 1..c : m < n <=> Place(K, m) < Place(K, n)
    <2> SUFFICES ASSUME NEW m \in 1..c, NEW n \in 1..c
                 PROVE  m < n <=> Place(K, m) < Place(K, n)
      OBVIOUS
    <2>1. /\ Place(K, m) \in K /\ Rank(K, Place(K, m)) = m
          /\ Place(K, n) \in K /\ Rank(K, Place(K, n)) = n
      BY <1>3
    <2>2. /\ Place(K, m) < Place(K, n) => m < n
          /\ Place(K, n) < Place(K, m) => n < m
          /\ Place(K, m) = Place(K, n) => m = n
      BY <1>4, <2>1
    <2>3. m \in Int /\ n \in Int /\ Place(K, m) \in Int /\ Place(K, n) \in Int
      BY <1>2, <1>4, <2>1
    <2> QED BY <2>2, <2>3
  <1>10. \A m, n \in 1..c : Place(K, m) = Place(K, n) => m = n
    BY <1>3
  <1> QED BY <1>3, <1>5, <1>6, <1>8, <1>9, <1>10

-----------------------------------------------------------------------------
(* Filtering a sequence.                                                     *)

\* What holds of the empty sequence, and of a longer one whenever of the
\* shorter, holds of all sequences.
LEMMA ByAppending ==
  ASSUME NEW S, NEW P, <<>> \in P,
         \A s \in Seq(S), x \in S : s \in P => Append(s, x) \in P
  PROVE  Seq(S) \subseteq P
  <1> SUFFICES ASSUME NEW s \in Seq(S) PROVE s \in P
    OBVIOUS
  <1> DEFINE N == {n \in 0..Len(s) : SubSeq(s, 1, n) \in P}
  <1>1. Len(s) \in Nat /\ s = SubSeq(s, 1, Len(s))
    OBVIOUS
  <1>2. 0 \in N
    <2> DEFINE e == SubSeq(s, 1, 0)
    <2>1. e \in Seq(S) /\ Len(e) = 0
      BY <1>1, SubSeqProperties
    <2> HIDE DEF e
    <2>2. e = <<>>
      BY <2>1
    <2>3. e \in P /\ 0 \in 0..Len(s)
      BY <1>1, <2>2
    <2> QED BY <2>3 DEF e
  <1>3. ASSUME NEW n \in 0..Len(s) - 1, n \in N PROVE n + 1 \in N
    <2> DEFINE a == SubSeq(s, 1, n)
               b == SubSeq(s, 1, n + 1)
    <2>1. n \in Nat /\ n + 1 \in 1..Len(s) /\ a \in P
      BY <1>1, <1>3
    <2>2. a \in Seq(S) /\ Len(a) = n /\ \A i \in 1..n : a[i] = s[i]
      BY <1>1, <2>1, SubSeqProperties
    <2>3. b \in Seq(S) /\ Len(b) = n + 1 /\ \A i \in 1..n + 1 : b[i] = s[i]
      BY <1>1, <2>1, SubSeqProperties
    <2>4. s[n + 1] \in S
      BY <2>1
    <2> HIDE DEF a, b
    <2>5. b = Append(a, s[n + 1])
      <3> DEFINE c == Append(a, s[n + 1])
      <3>1. c \in Seq(S) /\ Len(c) = n + 1 /\ \A i \in 1..n + 1 : c[i] = s[i]
        BY <2>1, <2>2, <2>4
      <3> HIDE DEF c
      <3>2. b = c
        BY <2>3, <3>1
      <3> QED BY <3>2 DEF c
    <2>6. b \in P
      BY <2>1, <2>2, <2>4, <2>5 DEF a
    <2> QED BY <2>1, <2>6 DEF b
  <1>4. 0..Len(s) \subseteq N
    <2> HIDE DEF N
    <2> QED BY <1>1, <1>2, <1>3, UpTo
  <1>5. SubSeq(s, 1, Len(s)) \in P
    <2>1. Len(s) \in 0..Len(s)
      BY <1>1
    <2>2. Len(s) \in N
      BY <1>4, <2>1
    <2> QED BY <2>2
  <1> QED BY <1>1, <1>5

\* Filtering the first n of s.
Filters(g, s, T, n) ==
  /\ g = [i \in 0..n |-> g[i]] /\ g[0] = <<>>
  /\ \A i \in 1..n : g[i] = IF s[i] \in T THEN Append(g[i - 1], s[i]) ELSE g[i - 1]

LEMMA FilterIs ==
  ASSUME NEW s, NEW T, Len(s) \in Nat, NEW g, Filters(g, s, T, Len(s))
  PROVE  Filter(s, T) = g[Len(s)]
  <1> DEFINE body(h) == [n \in 0..Len(s) |-> IF n = 0 THEN <<>>
                                             ELSE IF s[n] \in T THEN Append(h[n - 1], s[n])
                                             ELSE h[n - 1]]
             kept == CHOOSE h : h = body(h)
  <1>1. g = body(g)
    <2>1. \A n \in 0..Len(s) : n = 0 \/ n \in 1..Len(s)
      OBVIOUS
    <2>2. \A n \in 0..Len(s) : g[n] = IF n = 0 THEN <<>>
                                      ELSE IF s[n] \in T THEN Append(g[n - 1], s[n])
                                      ELSE g[n - 1]
      BY <2>1 DEF Filters
    <2> QED BY <2>2 DEF Filters
  <1>2. kept = body(kept)
    BY <1>1
  <1> DEFINE E == {n \in Nat : n <= Len(s) => kept[n] = g[n]}
  <1>3. \A n \in 0..Len(s) : kept[n] = IF n = 0 THEN <<>>
                                      ELSE IF s[n] \in T THEN Append(kept[n - 1], s[n])
                                      ELSE kept[n - 1]
    <2> HIDE DEF kept
    <2> QED BY <1>2
  <1>4. 0 \in E
    <2>1. 0 \in 0..Len(s) /\ g[0] = <<>>
      BY DEF Filters
    <2>2. kept[0] = <<>>
      BY <1>3, <2>1
    <2> QED BY <2>1, <2>2
  <1>5. ASSUME NEW n \in 0..Len(s) - 1, n \in E PROVE n + 1 \in E
    <2>1. n + 1 \in 1..Len(s) /\ (n + 1) - 1 = n /\ kept[n] = g[n]
      BY <1>5
    <2>2. kept[n + 1] = IF s[n + 1] \in T THEN Append(kept[n], s[n + 1]) ELSE kept[n]
      BY <1>3, <2>1
    <2>3. g[n + 1] = IF s[n + 1] \in T THEN Append(g[n], s[n + 1]) ELSE g[n]
      BY <2>1 DEF Filters
    <2> QED BY <2>1, <2>2, <2>3
  <1>6. 0..Len(s) \subseteq E
    <2> HIDE DEF E
    <2> QED BY <1>4, <1>5, UpTo
  <1>7. kept[Len(s)] = g[Len(s)]
    BY <1>6
  <1> QED BY <1>7 DEF Filter

LEMMA FilterEmpty ==
  ASSUME NEW T
  PROVE  Filters([i \in 0..0 |-> <<>>], <<>>, T, 0) /\ Filter(<<>>, T) = <<>>
  <1>1. Filters([i \in 0..0 |-> <<>>], <<>>, T, 0)
    BY DEF Filters
  <1>2. Len(<<>>) = 0
    OBVIOUS
  <1> QED BY <1>1, <1>2, FilterIs

\* A longer sequence is filtered like the shorter one, and then its last item.
LEMMA FilterSteps ==
  ASSUME NEW S, NEW T
  PROVE  \A s \in Seq(S), x \in S :
           Filter(Append(s, x), T) = IF x \in T THEN Append(Filter(s, T), x) ELSE Filter(s, T)
  <1> DEFINE P == {s \in Seq(S) : \E g : Filters(g, s, T, Len(s))}
  <1>1. Filters([i \in 0..0 |-> <<>>], <<>>, T, 0)
    BY FilterEmpty
  <1>2. ASSUME NEW s \in Seq(S), NEW x \in S, NEW g, Filters(g, s, T, Len(s))
        PROVE  LET last == IF x \in T THEN Append(g[Len(s)], x) ELSE g[Len(s)]
                   h == [i \in 0..Len(s) + 1 |-> IF i = Len(s) + 1 THEN last ELSE g[i]]
               IN  Filters(h, Append(s, x), T, Len(Append(s, x)))
    <2> DEFINE n == Len(s)
               t == Append(s, x)
               last == IF x \in T THEN Append(g[n], x) ELSE g[n]
               h == [i \in 0..n + 1 |-> IF i = n + 1 THEN last ELSE g[i]]
    <2>1. n \in Nat /\ Len(t) = n + 1 /\ t[n + 1] = x /\ \A i \in 1..n : t[i] = s[i]
      OBVIOUS
    <2> HIDE DEF n, t
    <2>2. h = [i \in 0..n + 1 |-> h[i]] /\ h[0] = <<>>
      BY <1>2, <2>1 DEF Filters, n
    <2>3. ASSUME NEW i \in 1..n + 1
          PROVE  h[i] = IF t[i] \in T THEN Append(h[i - 1], t[i]) ELSE h[i - 1]
      <3>1. CASE i = n + 1
        <4>1. h[i] = last /\ h[i - 1] = g[n] /\ t[i] = x
          BY <2>1, <3>1
        <4> QED BY <4>1
      <3>2. CASE i # n + 1
        <4>1. i \in 1..n /\ h[i] = g[i] /\ h[i - 1] = g[i - 1] /\ t[i] = s[i]
          BY <2>1, <3>2
        <4>2. g[i] = IF s[i] \in T THEN Append(g[i - 1], s[i]) ELSE g[i - 1]
          BY <1>2, <4>1 DEF Filters, n
        <4> HIDE DEF h
        <4> QED BY <4>1, <4>2
      <3> QED BY <3>1, <3>2
    <2>4. Filters(h, t, T, Len(t))
      <3> HIDE DEF h
      <3> QED BY <2>1, <2>2, <2>3 DEF Filters
    <2> QED BY <2>4 DEF n, t
  <1>3. <<>> \in P
    <2>1. Len(<<>>) = 0 /\ <<>> \in Seq(S)
      OBVIOUS
    <2> QED BY <1>1, <2>1
  <1>4. \A s \in Seq(S), x \in S : s \in P => Append(s, x) \in P
    <2> SUFFICES ASSUME NEW s \in Seq(S), NEW x \in S, NEW g, Filters(g, s, T, Len(s))
                 PROVE  Append(s, x) \in P
      OBVIOUS
    <2>1. Append(s, x) \in Seq(S)
      OBVIOUS
    <2> QED BY <1>2, <2>1
  <1>5. Seq(S) \subseteq P
    <2> HIDE DEF P
    <2> QED BY <1>3, <1>4, ByAppending
  <1>6. ASSUME NEW s \in Seq(S), NEW x \in S
        PROVE  Filter(Append(s, x), T) = IF x \in T THEN Append(Filter(s, T), x) ELSE Filter(s, T)
    <2>1. PICK g : Filters(g, s, T, Len(s))
      BY <1>5
    <2> DEFINE n == Len(s)
               t == Append(s, x)
               last == IF x \in T THEN Append(g[n], x) ELSE g[n]
               h == [i \in 0..n + 1 |-> IF i = n + 1 THEN last ELSE g[i]]
    <2>2. n \in Nat /\ Len(t) = n + 1
      OBVIOUS
    <2>3. Filters(h, t, T, Len(t))
      BY <1>2, <2>1
    <2>4. Filter(s, T) = g[n]
      BY <2>1, <2>2, FilterIs
    <2>5. h[n + 1] = last
      BY <2>2
    <2> HIDE DEF t, h
    <2>6. Filter(t, T) = h[n + 1]
      BY <2>2, <2>3, FilterIs
    <2> QED BY <2>4, <2>5, <2>6 DEF t
  <1> QED BY <1>6

LEMMA FilterAppend ==
  ASSUME NEW S, NEW T, NEW s \in Seq(S), NEW x \in S
  PROVE  Filter(Append(s, x), T) = IF x \in T THEN Append(Filter(s, T), x) ELSE Filter(s, T)
  BY FilterSteps

LEMMA FilterType ==
  ASSUME NEW S, NEW T
  PROVE  \A s \in Seq(S) : Filter(s, T) \in Seq(S \cap T) /\ Filter(s, T) \in Seq(S)
  <1> DEFINE P == {s \in Seq(S) : Filter(s, T) \in Seq(S \cap T)}
  <1>1. <<>> \in P
    <2>1. <<>> \in Seq(S) /\ <<>> \in Seq(S \cap T)
      OBVIOUS
    <2> QED BY <2>1, FilterEmpty
  <1>2. ASSUME NEW s \in Seq(S), NEW x \in S, s \in P PROVE Append(s, x) \in P
    <2>1. Filter(Append(s, x), T) = IF x \in T THEN Append(Filter(s, T), x) ELSE Filter(s, T)
      BY FilterAppend
    <2>2. Filter(s, T) \in Seq(S \cap T) /\ Append(s, x) \in Seq(S)
      BY <1>2
    <2>3. Filter(Append(s, x), T) \in Seq(S \cap T)
      BY <2>1, <2>2
    <2> QED BY <2>2, <2>3
  <1>3. Seq(S) \subseteq P
    <2> HIDE DEF P
    <2> QED BY <1>1, <1>2, ByAppending
  <1>4. Seq(S \cap T) \subseteq Seq(S)
    OBVIOUS
  <1> QED BY <1>3, <1>4

\* Sequences are filtered one after the other.
LEMMA FilterConcat ==
  ASSUME NEW S, NEW T, NEW a \in Seq(S)
  PROVE  \A b \in Seq(S) : Filter(a \o b, T) = Filter(a, T) \o Filter(b, T)
  <1> DEFINE P == {b \in Seq(S) : Filter(a \o b, T) = Filter(a, T) \o Filter(b, T)}
  <1>1. <<>> \in P
    <2>1. a \o <<>> = a /\ <<>> \in Seq(S)
      OBVIOUS
    <2>4. Filter(a, T) \in Seq(S)
      BY FilterType
    <2>2. Filter(a, T) \o <<>> = Filter(a, T)
      BY <2>4
    <2>3. Filter(<<>>, T) = <<>>
      BY FilterEmpty
    <2> QED BY <2>1, <2>2, <2>3
  <1>2. ASSUME NEW b \in Seq(S), NEW x \in S, b \in P PROVE Append(b, x) \in P
    <2> DEFINE fa == Filter(a, T)
               fb == Filter(b, T)
               c == a \o b
    <2>1. a \o Append(b, x) = Append(c, x) /\ c \in Seq(S)
      OBVIOUS
    <2> HIDE DEF c
    <2>2. Filter(Append(c, x), T) = IF x \in T THEN Append(Filter(c, T), x) ELSE Filter(c, T)
      BY <2>1, FilterAppend
    <2>3. Filter(Append(b, x), T) = IF x \in T THEN Append(fb, x) ELSE fb
      BY FilterAppend
    <2>4. Filter(c, T) = fa \o fb
      BY <1>2 DEF c
    <2>5. fa \in Seq(S) /\ fb \in Seq(S)
      BY FilterType
    <2> HIDE DEF fa, fb
    <2>6. fa \o Append(fb, x) = Append(fa \o fb, x)
      BY <2>5
    <2>7. Filter(a \o Append(b, x), T) = fa \o Filter(Append(b, x), T)
      BY <2>1, <2>2, <2>3, <2>4, <2>6
    <2>8. Append(b, x) \in Seq(S)
      OBVIOUS
    <2> QED BY <2>7, <2>8 DEF fa
  <1>3. Seq(S) \subseteq P
    <2> HIDE DEF P
    <2> QED BY <1>1, <1>2, ByAppending
  <1> QED BY <1>3

\* What is filtered out first would have been filtered out later.
LEMMA FilterTwice ==
  ASSUME NEW S, NEW T, NEW U, S \cap T \subseteq U
  PROVE  \A s \in Seq(S) : Filter(Filter(s, U), T) = Filter(s, T)
  <1> DEFINE P == {s \in Seq(S) : Filter(Filter(s, U), T) = Filter(s, T)}
  <1>1. <<>> \in P
    BY FilterEmpty
  <1>2. ASSUME NEW s \in Seq(S), NEW x \in S, s \in P PROVE Append(s, x) \in P
    <2> DEFINE u == Filter(s, U)
    <2>1. Filter(Append(s, x), U) = IF x \in U THEN Append(u, x) ELSE u
      BY FilterAppend
    <2>2. Filter(Append(s, x), T) = IF x \in T THEN Append(Filter(s, T), x) ELSE Filter(s, T)
      BY FilterAppend
    <2>3. u \in Seq(S)
      BY FilterType
    <2>4. Filter(Append(u, x), T) = IF x \in T THEN Append(Filter(u, T), x) ELSE Filter(u, T)
      BY <2>3, FilterAppend
    <2>5. Filter(u, T) = Filter(s, T)
      BY <1>2
    <2> HIDE DEF u
    <2>6. Filter(Filter(Append(s, x), U), T) = Filter(Append(s, x), T)
      BY <2>1, <2>2, <2>4, <2>5
    <2>7. Append(s, x) \in Seq(S)
      OBVIOUS
    <2> QED BY <2>6, <2>7
  <1>3. Seq(S) \subseteq P
    <2> HIDE DEF P
    <2> QED BY <1>1, <1>2, ByAppending
  <1> QED BY <1>3

\* Sequences that differ only where they are filtered out.
LEMMA FilterSame ==
  ASSUME NEW S, NEW T
  PROVE  \A s, t \in Seq(S) :
           Len(t) = Len(s) /\ (\A i \in 1..Len(s) : s[i] = t[i] \/ (s[i] \notin T /\ t[i] \notin T)) =>
             Filter(t, T) = Filter(s, T)
  <1> DEFINE Alike(s, t) == Len(t) = Len(s) /\ \A i \in 1..Len(s) :
                              s[i] = t[i] \/ (s[i] \notin T /\ t[i] \notin T)
             P == {s \in Seq(S) : \A t \in Seq(S) : Alike(s, t) => Filter(t, T) = Filter(s, T)}
  <1>1. <<>> \in P
    <2>1. Len(<<>>) = 0 /\ <<>> \in Seq(S)
      OBVIOUS
    <2>2. ASSUME NEW t \in Seq(S), Len(t) = 0 PROVE t = <<>>
      BY <2>2
    <2> QED BY <2>1, <2>2
  <1>2. ASSUME NEW s \in Seq(S), NEW x \in S, s \in P PROVE Append(s, x) \in P
    <2>0. Append(s, x) \in Seq(S)
      OBVIOUS
    <2>1. SUFFICES ASSUME NEW t \in Seq(S), Alike(Append(s, x), t)
                   PROVE  Filter(t, T) = Filter(Append(s, x), T)
      <3> HIDE DEF Alike
      <3> QED BY <2>0
    <2> DEFINE n == Len(s)
               a == SubSeq(t, 1, n)
    <2>2. n \in Nat /\ Len(t) = n + 1 /\ Len(Append(s, x)) = n + 1
      BY <2>1
    <2>3. a \in Seq(S) /\ Len(a) = n /\ \A i \in 1..n : a[i] = t[i]
      BY <2>2, SubSeqProperties
    <2>4. t[n + 1] \in S /\ Append(s, x)[n + 1] = x /\ \A i \in 1..n : Append(s, x)[i] = s[i]
      BY <2>2
    <2>5. t[n + 1] = x \/ (x \notin T /\ t[n + 1] \notin T)
      <3>1. n + 1 \in 1..n + 1
        BY <2>2
      <3> QED BY <2>1, <2>2, <2>4, <3>1
    <2>6. \A i \in 1..n : s[i] = t[i] \/ (s[i] \notin T /\ t[i] \notin T)
      <3>1. \A i \in 1..n : i \in 1..n + 1
        BY <2>2
      <3> QED BY <2>1, <2>2, <2>4, <3>1
    <2> HIDE DEF a
    <2>7. Filter(a, T) = Filter(s, T)
      BY <1>2, <2>3, <2>6
    <2>8. t = Append(a, t[n + 1])
      <3> DEFINE b == Append(a, t[n + 1])
      <3>1. b \in Seq(S) /\ Len(b) = n + 1 /\ \A i \in 1..n + 1 : b[i] = t[i]
        BY <2>2, <2>3, <2>4
      <3> HIDE DEF b
      <3>2. t = b
        BY <2>2, <3>1
      <3> QED BY <3>2 DEF b
    <2> DEFINE y == t[n + 1]
    <2>9. Filter(Append(a, y), T) = IF y \in T THEN Append(Filter(a, T), y) ELSE Filter(a, T)
      <3>1. y \in S /\ a \in Seq(S)
        BY <2>3, <2>4
      <3> HIDE DEF y
      <3> QED BY <3>1, FilterAppend
    <2>10. Filter(Append(s, x), T) = IF x \in T THEN Append(Filter(s, T), x) ELSE Filter(s, T)
      BY FilterAppend
    <2>11. y = x \/ (x \notin T /\ y \notin T)
      BY <2>5
    <2>12. t = Append(a, y)
      BY <2>8
    <2> HIDE DEF y
    <2>13. CASE y = x
      BY <2>7, <2>9, <2>10, <2>12, <2>13
    <2>14. CASE x \notin T /\ y \notin T
      BY <2>7, <2>9, <2>10, <2>12, <2>14
    <2> QED BY <2>11, <2>13, <2>14
  <1>3. Seq(S) \subseteq P
    <2> HIDE DEF P
    <2> QED BY <1>1, <1>2, ByAppending
  <1> QED BY <1>3

\* Filtering leaves a sequence as it is that has nothing to leave out.
LEMMA FilterAll ==
  ASSUME NEW S, NEW T, S \subseteq T
  PROVE  \A s \in Seq(S) : Filter(s, T) = s
  <1> DEFINE P == {s \in Seq(S) : Filter(s, T) = s}
  <1>1. <<>> \in P
    BY FilterEmpty
  <1>2. ASSUME NEW s \in Seq(S), NEW x \in S, s \in P PROVE Append(s, x) \in P
    <2>1. Filter(Append(s, x), T) = Append(Filter(s, T), x) /\ Append(s, x) \in Seq(S)
      BY FilterAppend
    <2> QED BY <1>2, <2>1
  <1>3. Seq(S) \subseteq P
    <2> HIDE DEF P
    <2> QED BY <1>1, <1>2, ByAppending
  <1> QED BY <1>3
=============================================================================
