-------------------------- MODULE CardListProofs --------------------------
(***************************************************************************)
(* Theorems about CardList, for every game: any number of cards, sheets,   *)
(* values and pack types, histories of any length and any clipboard.       *)
(*                                                                         *)
(* The invariant Inv has three parts.  HistoryKept: there is a row of sets *)
(* such that the actions on the undo stack lead back through it and those  *)
(* on the redo stack forth, each exactly inverted by its counterpart       *)
(* (History); with every set it has the styling of its cards, so that undo *)
(* and redo keep StylingFits.  The clipboard holds cards that fit every    *)
(* set.  View: the list shows the cards the filter lets through, once      *)
(* each, and its position is that of the selected card.                    *)
(*                                                                         *)
(* The first half is about the actions themselves, the module SetEditing:  *)
(* which sets they lead to, and that each is inverted by its counterpart.  *)
(*                                                                         *)
(* A new card is a card no set of the history shows and no action on the   *)
(* stacks is about (Unused), so the row of sets is kept with the contents  *)
(* of the new cards put in everywhere: Override, NewCardsKeep.             *)
(***************************************************************************)
EXTENDS CardList, PositionsProofs

-----------------------------------------------------------------------------
(* Adding to and removing from a list.                                       *)

\* An item is inserted at a position, and removed from one.
LEMMA Inserted ==
  ASSUME NEW S, NEW s \in Seq(S), NEW p \in 1..Len(s) + 1, NEW x \in S
  PROVE  /\ InsertAt(s, p, x) \in Seq(S)
         /\ Len(InsertAt(s, p, x)) = Len(s) + 1
         /\ \A i \in 1..Len(s) + 1 : InsertAt(s, p, x)[i] =
              IF i < p THEN s[i] ELSE IF i = p THEN x ELSE s[i - 1]
  <1> DEFINE a == SubSeq(s, 1, p - 1)
             b == SubSeq(s, p, Len(s))
  <1>1. Len(s) \in Nat /\ p \in Nat
    OBVIOUS
  <1>2. a \in Seq(S) /\ Len(a) = p - 1 /\ \A i \in 1..p - 1 : a[i] = s[i]
    BY <1>1, SubSeqProperties
  <1>3. b \in Seq(S) /\ Len(b) = Len(s) + 1 - p /\ \A i \in 1..Len(s) + 1 - p : b[i] = s[p + i - 1]
    BY <1>1, SubSeqProperties
  <1> HIDE DEF a, b
  <1>4. /\ a \o <<x>> \in Seq(S) /\ Len(a \o <<x>>) = p
        /\ \A i \in 1..p : (a \o <<x>>)[i] = IF i < p THEN a[i] ELSE x
    BY <1>1, <1>2
  <1>5. /\ (a \o <<x>>) \o b \in Seq(S) /\ Len((a \o <<x>>) \o b) = Len(s) + 1
        /\ \A i \in 1..Len(s) + 1 : ((a \o <<x>>) \o b)[i] =
             IF i <= p THEN (a \o <<x>>)[i] ELSE b[i - p]
    <2> DEFINE c == a \o <<x>>
    <2>1. c \in Seq(S) /\ Len(c) = p /\ b \in Seq(S)
      BY <1>3, <1>4
    <2> HIDE DEF c
    <2>2. /\ c \o b \in Seq(S) /\ Len(c \o b) = Len(c) + Len(b)
          /\ \A i \in 1..Len(c) + Len(b) : (c \o b)[i] = IF i <= Len(c) THEN c[i] ELSE b[i - Len(c)]
      BY <2>1, ConcatProperties
    <2>3. Len(c) + Len(b) = Len(s) + 1
      BY <1>1, <1>3, <2>1
    <2> QED BY <2>1, <2>2, <2>3 DEF c
  <1>6. ASSUME NEW i \in 1..Len(s) + 1
        PROVE  ((a \o <<x>>) \o b)[i] = IF i < p THEN s[i] ELSE IF i = p THEN x ELSE s[i - 1]
    <2>1. CASE i < p
      BY <1>1, <1>2, <1>4, <1>5, <2>1
    <2>2. CASE i = p
      BY <1>1, <1>4, <1>5, <2>2
    <2>3. CASE i > p
      <3>1. i - p \in 1..Len(s) + 1 - p /\ p + (i - p) - 1 = i - 1
        BY <1>1, <2>3
      <3> QED BY <1>1, <1>3, <1>5, <2>3, <3>1
    <2>4. i < p \/ i = p \/ i > p
      BY <1>1
    <2> QED BY <2>1, <2>2, <2>3, <2>4
  <1>7. InsertAt(s, p, x) = (a \o <<x>>) \o b
    BY DEF InsertAt, a, b
  <1> QED BY <1>5, <1>6, <1>7

\* What RemoveAt leaves: what was behind the position moves up by one.
LEMMA Removed1 ==
  ASSUME NEW S, NEW s \in Seq(S), NEW p \in 1..Len(s)
  PROVE  /\ RemoveAt(s, p) \in Seq(S)
         /\ Len(RemoveAt(s, p)) = Len(s) - 1
         /\ \A i \in 1..Len(s) - 1 : RemoveAt(s, p)[i] = IF i < p THEN s[i] ELSE s[i + 1]
  <1> DEFINE a == SubSeq(s, 1, p - 1)
             b == SubSeq(s, p + 1, Len(s))
  <1>1. Len(s) \in Nat /\ p \in Nat
    OBVIOUS
  <1>2. a \in Seq(S) /\ Len(a) = p - 1 /\ \A i \in 1..p - 1 : a[i] = s[i]
    BY <1>1, SubSeqProperties
  <1>3. b \in Seq(S) /\ Len(b) = Len(s) - p /\ \A i \in 1..Len(s) - p : b[i] = s[p + 1 + i - 1]
    BY <1>1, SubSeqProperties
  <1> HIDE DEF a, b
  <1>4. /\ a \o b \in Seq(S) /\ Len(a \o b) = Len(s) - 1
        /\ \A i \in 1..Len(s) - 1 : (a \o b)[i] = IF i <= p - 1 THEN a[i] ELSE b[i - (p - 1)]
    <2>1. /\ a \o b \in Seq(S) /\ Len(a \o b) = Len(a) + Len(b)
          /\ \A i \in 1..Len(a) + Len(b) : (a \o b)[i] = IF i <= Len(a) THEN a[i] ELSE b[i - Len(a)]
      BY <1>2, <1>3, ConcatProperties
    <2>2. Len(a) + Len(b) = Len(s) - 1
      BY <1>1, <1>2, <1>3
    <2> QED BY <1>2, <2>1, <2>2
  <1>5. ASSUME NEW i \in 1..Len(s) - 1
        PROVE  (a \o b)[i] = IF i < p THEN s[i] ELSE s[i + 1]
    <2>1. CASE i < p
      BY <1>1, <1>2, <1>4, <2>1
    <2>2. CASE i >= p
      <3>1. i - (p - 1) \in 1..Len(s) - p /\ p + 1 + (i - (p - 1)) - 1 = i + 1
        BY <1>1, <2>2
      <3>2. (a \o b)[i] = b[i - (p - 1)]
        BY <1>1, <1>4, <2>2
      <3> QED BY <1>1, <1>3, <2>2, <3>1, <3>2
    <2>3. i < p \/ i >= p
      BY <1>1
    <2> QED BY <2>1, <2>2, <2>3
  <1>6. RemoveAt(s, p) = a \o b
    BY DEF RemoveAt, a, b
  <1> QED BY <1>4, <1>5, <1>6

\* One undoes the other.
LEMMA InsertRemoved ==
  ASSUME NEW S, NEW s \in Seq(S), NEW p \in 1..Len(s)
  PROVE  InsertAt(RemoveAt(s, p), p, s[p]) = s
  <1> DEFINE r == RemoveAt(s, p)
             t == InsertAt(r, p, s[p])
  <1>1. Len(s) \in Nat /\ p \in Nat /\ s[p] \in S
    BY ElementOfSeq
  <1>2. r \in Seq(S) /\ Len(r) = Len(s) - 1 /\ \A i \in 1..Len(s) - 1 : r[i] = IF i < p THEN s[i] ELSE s[i + 1]
    BY Removed1
  <1> HIDE DEF r
  <1>3. p \in 1..Len(r) + 1
    BY <1>1, <1>2
  <1>4. /\ t \in Seq(S) /\ Len(t) = Len(r) + 1
        /\ \A i \in 1..Len(r) + 1 : t[i] = IF i < p THEN r[i] ELSE IF i = p THEN s[p] ELSE r[i - 1]
    <2>1. r \in Seq(S)
      BY <1>2
    <2>2. \A z \in S :
            /\ InsertAt(r, p, z) \in Seq(S) /\ Len(InsertAt(r, p, z)) = Len(r) + 1
            /\ \A i \in 1..Len(r) + 1 :
                 InsertAt(r, p, z)[i] = IF i < p THEN r[i] ELSE IF i = p THEN z ELSE r[i - 1]
      BY ONLY <1>3, <2>1, Inserted
    <2>3. s[p] \in S
      BY <1>1
    <2> QED BY ONLY <2>2, <2>3
  <1> HIDE DEF t
  <1>5. ASSUME NEW i \in 1..Len(s)
        PROVE  t[i] = s[i]
    <2>1. i \in 1..Len(r) + 1
      BY <1>1, <1>2
    <2>2. t[i] = IF i < p THEN r[i] ELSE IF i = p THEN s[p] ELSE r[i - 1]
      BY ONLY <1>4, <2>1
    <2>3. CASE i < p
      <3>1. i \in 1..Len(s) - 1
        BY <1>1, <2>3
      <3> QED BY ONLY <1>2, <2>2, <2>3, <3>1
    <2>4. CASE i = p
      <3>1. ~(i < p)
        BY <1>1, <2>4
      <3> QED BY ONLY <2>2, <2>4, <3>1
    <2>5. CASE i > p
      <3>1. i - 1 \in 1..Len(s) - 1 /\ ~(i - 1 < p) /\ (i - 1) + 1 = i /\ ~(i < p) /\ i # p
        BY <1>1, <2>5
      <3>2. r[i - 1] = s[(i - 1) + 1]
        BY ONLY <1>2, <3>1
      <3> QED BY ONLY <2>2, <3>1, <3>2
    <2> QED BY <1>1, <2>3, <2>4, <2>5
  <1>6. Len(t) = Len(s)
    BY <1>1, <1>2, <1>4
  <1>7. t = s
    BY <1>4, <1>5, <1>6, SeqEqual
  <1> QED BY <1>7 DEF r, t

\* Removing what was inserted gives the list back.
LEMMA RemoveInserted ==
  ASSUME NEW S, NEW s \in Seq(S), NEW p \in 1..Len(s) + 1, NEW x \in S
  PROVE  RemoveAt(InsertAt(s, p, x), p) = s
  <1> DEFINE t == InsertAt(s, p, x)
             r == RemoveAt(t, p)
  <1>1. Len(s) \in Nat /\ p \in Nat
    OBVIOUS
  <1>2. /\ t \in Seq(S) /\ Len(t) = Len(s) + 1
        /\ \A i \in 1..Len(s) + 1 : t[i] = IF i < p THEN s[i] ELSE IF i = p THEN x ELSE s[i - 1]
    <2>1. s \in Seq(S) /\ p \in 1..Len(s) + 1 /\ x \in S
      OBVIOUS
    <2>2. \A z \in S :
            /\ InsertAt(s, p, z) \in Seq(S) /\ Len(InsertAt(s, p, z)) = Len(s) + 1
            /\ \A i \in 1..Len(s) + 1 :
                 InsertAt(s, p, z)[i] = IF i < p THEN s[i] ELSE IF i = p THEN z ELSE s[i - 1]
      BY ONLY <2>1, Inserted
    <2> QED BY ONLY <2>1, <2>2
  <1> HIDE DEF t
  <1>3. r \in Seq(S) /\ Len(r) = Len(t) - 1 /\ \A i \in 1..Len(t) - 1 : r[i] = IF i < p THEN t[i] ELSE t[i + 1]
    BY <1>2, Removed1
  <1>4. Len(r) = Len(s)
    BY <1>1, <1>2, <1>3
  <1>5. ASSUME NEW i \in 1..Len(r)
        PROVE  r[i] = s[i]
    <2>1. i \in 1..Len(t) - 1 /\ i \in 1..Len(s) + 1 /\ i + 1 \in 1..Len(s) + 1 /\ (i + 1) - 1 = i
      BY <1>1, <1>2, <1>4
    <2>2. CASE i < p
      BY <1>1, <1>2, <1>3, <2>1, <2>2
    <2>3. CASE i >= p
      <3>1. ~(i < p) /\ ~(i + 1 < p) /\ i + 1 # p
        BY <1>1, <2>3
      <3>2. r[i] = t[i + 1]
        BY <1>3, <2>1, <3>1
      <3>3. t[i + 1] = s[(i + 1) - 1]
        BY <1>2, <2>1, <3>1
      <3> QED BY <2>1, <3>2, <3>3
    <2>4. i < p \/ i >= p
      BY <1>1
    <2> QED BY <2>2, <2>3, <2>4
  <1>6. r = s
    BY <1>3, <1>4, <1>5, SeqEqual
  <1> QED BY <1>6 DEF t

-----------------------------------------------------------------------------
(* Steps of an action that adds and removes.                                 *)

\* Whatever goes through the steps one by one is what they lead to.
LEMMA InsertChain ==
  ASSUME NEW container, NEW steps, Len(steps) \in Nat, NEW S,
         NEW g \in [0..Len(steps) -> S], g[0] = container,
         \A n \in 1..Len(steps) : g[n] = InsertAt(g[n - 1], steps[n].pos, steps[n].item)
  PROVE  InsertSteps(container, steps) = g[Len(steps)]
  <1> DEFINE m == Len(steps)
             body(h) == [n \in 0..m |-> IF n = 0 THEN container
                                        ELSE InsertAt(h[n - 1], steps[n].pos, steps[n].item)]
             after == CHOOSE h : h = body(h)
  <1>1. g = body(g)
    <2>1. \A n \in 0..m : n = 0 \/ n \in 1..m
      OBVIOUS
    <2>2. \A n \in 0..m : g[n] = IF n = 0 THEN container
                                 ELSE InsertAt(g[n - 1], steps[n].pos, steps[n].item)
      BY <2>1
    <2> QED BY <2>2
  <1>2. after = body(after)
    BY <1>1
  <1>3. InsertSteps(container, steps) = after[m]
    BY DEF InsertSteps
  <1> HIDE DEF after
  <1> DEFINE T == {n \in 0..m : after[n] = g[n]}
  <1>4. 0 \in T
    BY <1>2
  <1>5. ASSUME NEW i \in 0..m - 1, i \in T PROVE i + 1 \in T
    <2>1. i + 1 \in 0..m /\ i + 1 \in 1..m /\ i + 1 # 0 /\ (i + 1) - 1 = i
      OBVIOUS
    <2>2. after[i + 1] = InsertAt(after[i], steps[i + 1].pos, steps[i + 1].item)
      BY <1>2, <2>1
    <2>3. g[i + 1] = InsertAt(g[i], steps[i + 1].pos, steps[i + 1].item)
      BY <2>1
    <2> QED BY <1>5, <2>1, <2>2, <2>3
  <1>6. 0..m \subseteq T
    <2> HIDE DEF T
    <2> QED BY <1>4, <1>5, UpTo
  <1>7. m \in T
    BY <1>6
  <1> QED BY <1>3, <1>7

\* EraseSteps is the last of any chain of lists made by removing the steps from
\* the last to the first.
LEMMA EraseChain ==
  ASSUME NEW container, NEW steps, Len(steps) \in Nat, NEW S,
         NEW g \in [0..Len(steps) -> S], g[0] = container,
         \A n \in 1..Len(steps) : g[n] = RemoveAt(g[n - 1], steps[Len(steps) + 1 - n].pos)
  PROVE  EraseSteps(container, steps) = g[Len(steps)]
  <1> DEFINE m == Len(steps)
             body(h) == [n \in 0..m |-> IF n = 0 THEN container
                                        ELSE RemoveAt(h[n - 1], steps[m + 1 - n].pos)]
             after == CHOOSE h : h = body(h)
  <1>1. g = body(g)
    <2>1. \A n \in 0..m : n = 0 \/ n \in 1..m
      OBVIOUS
    <2>2. \A n \in 0..m : g[n] = IF n = 0 THEN container
                                 ELSE RemoveAt(g[n - 1], steps[m + 1 - n].pos)
      BY <2>1
    <2> QED BY <2>2
  <1>2. after = body(after)
    BY <1>1
  <1>3. EraseSteps(container, steps) = after[m]
    BY DEF EraseSteps
  <1> HIDE DEF after
  <1> DEFINE T == {n \in 0..m : after[n] = g[n]}
  <1>4. 0 \in T
    BY <1>2
  <1>5. ASSUME NEW i \in 0..m - 1, i \in T PROVE i + 1 \in T
    <2>1. i + 1 \in 0..m /\ i + 1 \in 1..m /\ i + 1 # 0 /\ (i + 1) - 1 = i
      OBVIOUS
    <2>2. after[i + 1] = RemoveAt(after[i], steps[m + 1 - (i + 1)].pos)
      BY <1>2, <2>1
    <2>3. g[i + 1] = RemoveAt(g[i], steps[m + 1 - (i + 1)].pos)
      BY <2>1
    <2> QED BY <1>5, <2>1, <2>2, <2>3
  <1>6. 0..m \subseteq T
    <2> HIDE DEF T
    <2> QED BY <1>4, <1>5, UpTo
  <1>7. m \in T
    BY <1>6
  <1> QED BY <1>3, <1>7

\* Items added at the end can be removed again.
LEMMA Adding ==
  ASSUME NEW S, NEW c \in Seq(S), NEW items \in Seq(S), NEW steps, steps = AddSteps(items, c)
  PROVE  /\ InsertSteps(c, steps) \in Seq(S)
         /\ InsertSteps(c, steps) = c \o items
         /\ EraseSteps(InsertSteps(c, steps), steps) = c
  <1> DEFINE m == Len(items)
             k == Len(c)
             G(n) == c \o SubSeq(items, 1, n)
             g == [n \in 0..m |-> G(n)]
             h == [n \in 0..m |-> G(m - n)]
  <1>1. m \in Nat /\ k \in Nat
    OBVIOUS
  <1>2. Len(steps) = m /\ \A n \in 1..m : steps[n].pos = k + n /\ steps[n].item = items[n]
    BY <1>1 DEF AddSteps
  <1>3. ASSUME NEW n \in 0..m
        PROVE  /\ G(n) \in Seq(S) /\ Len(G(n)) = k + n
               /\ \A i \in 1..k + n : G(n)[i] = IF i <= k THEN c[i] ELSE items[i - k]
    <2> DEFINE f == SubSeq(items, 1, n)
    <2>1. f \in Seq(S) /\ Len(f) = n /\ \A i \in 1..n : f[i] = items[i]
      <3>1. \A i \in 1..n : items[i] \in S /\ 1 + i - 1 = i
        BY <1>1
      <3>2. /\ f \in Seq(S) /\ Len(f) = IF 1 <= n THEN n - 1 + 1 ELSE 0
            /\ \A i \in 1..n - 1 + 1 : f[i] = items[1 + i - 1]
        BY <1>1, <3>1, SubSeqProperties
      <3>3. n - 1 + 1 = n /\ (n = 0 \/ 1 <= n)
        BY <1>1
      <3> QED BY <3>1, <3>2, <3>3
    <2> HIDE DEF f
    <2>2. /\ c \o f \in Seq(S) /\ Len(c \o f) = k + n
          /\ \A i \in 1..k + n : (c \o f)[i] = IF i <= k THEN c[i] ELSE f[i - k]
      BY <2>1, ConcatProperties
    <2>3. ASSUME NEW i \in 1..k + n, ~(i <= k)
          PROVE  f[i - k] = items[i - k]
      <3>1. i - k \in 1..n
        BY <1>1, <2>3
      <3> QED BY <2>1, <3>1
    <2> QED BY <2>2, <2>3 DEF f
  <1> HIDE DEF G
  <1>4. ASSUME NEW n \in 1..m
        PROVE  /\ n \in 0..m /\ n - 1 \in 0..m /\ steps[n].pos \in 1..Len(G(n - 1)) + 1
               /\ G(n) = InsertAt(G(n - 1), steps[n].pos, steps[n].item)
    <2> DEFINE p == steps[n].pos
               x == steps[n].item
               s == G(n - 1)
               u == InsertAt(s, p, x)
    <2>1. n \in 0..m /\ n - 1 \in 0..m /\ x \in S /\ p = k + n /\ x = items[n]
      BY <1>1, <1>2
    <2>2. s \in Seq(S) /\ Len(s) = k + (n - 1)
      BY <1>3, <2>1
    <2>3. p \in 1..Len(s) + 1 /\ Len(s) + 1 = k + n
      BY <1>1, <2>1, <2>2
    <2> HIDE DEF p, x, s
    <2>4. /\ u \in Seq(S) /\ Len(u) = k + n
          /\ \A i \in 1..k + n : u[i] = IF i < p THEN s[i] ELSE IF i = p THEN x ELSE s[i - 1]
      <3>1. /\ u \in Seq(S) /\ Len(u) = Len(s) + 1
            /\ \A i \in 1..Len(s) + 1 : u[i] = IF i < p THEN s[i] ELSE IF i = p THEN x ELSE s[i - 1]
        <4>1. s \in Seq(S) /\ p \in 1..Len(s) + 1 /\ x \in S
          BY <2>1, <2>2, <2>3
        <4> QED BY ONLY <4>1, Inserted
      <3> QED BY <2>3, <3>1
    <2>5. G(n) \in Seq(S) /\ Len(G(n)) = k + n
      BY <1>3, <2>1
    <2>6. ASSUME NEW i \in 1..k + n
          PROVE  u[i] = G(n)[i]
      <3>1. G(n)[i] = IF i <= k THEN c[i] ELSE items[i - k]
        BY <1>3, <2>1
      <3>2. CASE i = k + n
        <4>1. ~(i <= k) /\ i - k = n /\ i = p
          BY <1>1, <2>1, <3>2
        <4> QED BY <2>1, <2>4, <3>1, <4>1
      <3>3. CASE i < k + n
        <4>1. i \in 1..k + (n - 1) /\ i < p
          BY <1>1, <2>1, <3>3
        <4>2. s[i] = IF i <= k THEN c[i] ELSE items[i - k]
          BY <1>3, <2>1, <4>1 DEF s
        <4> QED BY <2>4, <3>1, <4>1, <4>2
      <3>4. i = k + n \/ i < k + n
        BY <1>1
      <3> QED BY <3>2, <3>3, <3>4
    <2>7. u = G(n)
      BY <2>4, <2>5, <2>6, SeqEqual
    <2> QED BY <2>1, <2>3, <2>7 DEF p, x, s
  <1>5. ASSUME NEW n \in 1..m
        PROVE  G(n - 1) = RemoveAt(G(n), steps[n].pos)
    <2>1. G(n - 1) \in Seq(S) /\ steps[n].item \in S
      BY <1>1, <1>2, <1>3, <1>4
    <2>2. RemoveAt(InsertAt(G(n - 1), steps[n].pos, steps[n].item), steps[n].pos) = G(n - 1)
      BY <1>4, <2>1, RemoveInserted
    <2> QED BY <1>4, <2>2
  <1>6. G(0) = c
    <2>1. G(0) \in Seq(S) /\ Len(G(0)) = Len(c) /\ \A i \in 1..Len(c) : G(0)[i] = c[i]
      <3>1. 0 \in 0..m /\ k + 0 = k
        BY <1>1
      <3>2. G(0) \in Seq(S) /\ Len(G(0)) = k /\ \A i \in 1..k : G(0)[i] = IF i <= k THEN c[i] ELSE items[i - k]
        BY <1>3, <3>1
      <3>3. \A i \in 1..k : i <= k
        BY <1>1
      <3> QED BY <3>2, <3>3
    <2> QED BY <2>1, SeqEqual
  <1>7. InsertSteps(c, steps) = G(m)
    <2>1. \A n \in 1..Len(steps) : g[n] = InsertAt(g[n - 1], steps[n].pos, steps[n].item)
      BY <1>2, <1>4
    <2>2. g \in [0..Len(steps) -> Seq(S)] /\ g[0] = c /\ g[m] = G(m)
      BY <1>1, <1>2, <1>3, <1>6
    <2> HIDE DEF g
    <2> QED BY <1>1, <1>2, <2>1, <2>2, InsertChain
  <1>8. EraseSteps(G(m), steps) = G(0)
    <2>1. ASSUME NEW n \in 1..Len(steps)
          PROVE  h[n] = RemoveAt(h[n - 1], steps[Len(steps) + 1 - n].pos)
      <3>1. m + 1 - n \in 1..m /\ m - n = (m + 1 - n) - 1 /\ m - (n - 1) = m + 1 - n /\ n \in 0..m /\ n - 1 \in 0..m
        BY <1>1, <1>2
      <3>2. G((m + 1 - n) - 1) = RemoveAt(G(m + 1 - n), steps[m + 1 - n].pos)
        BY <1>5, <3>1
      <3>3. h[n] = G(m - n) /\ h[n - 1] = G(m - (n - 1))
        BY <3>1
      <3>4. h[n] = G((m + 1 - n) - 1) /\ h[n - 1] = G(m + 1 - n)
        BY <3>1, <3>3
      <3> QED BY <1>2, <3>2, <3>4
    <2>2. h \in [0..Len(steps) -> Seq(S)] /\ h[0] = G(m) /\ h[m] = G(0)
      <3>1. m - 0 = m /\ m - m = 0 /\ 0 \in 0..m /\ m \in 0..m
        BY <1>1
      <3>2. h[0] = G(m - 0) /\ h[m] = G(m - m)
        BY <3>1
      <3>3. \A n \in 0..m : m - n \in 0..m
        BY <1>1
      <3> QED BY <1>2, <1>3, <3>1, <3>2, <3>3
    <2> HIDE DEF h
    <2>3. Len(steps) \in Nat
      BY <1>1, <1>2
    <2>4. h \in [0..Len(steps) -> Seq(S)] /\ h[0] = G(m)
      BY <2>2
    <2>5. EraseSteps(G(m), steps) = h[Len(steps)]
      BY ONLY <2>1, <2>3, <2>4, EraseChain
    <2> QED BY <1>2, <2>2, <2>5
  <1>9. G(m) = c \o items
    <2>1. m \in 0..m
      BY <1>1
    <2>2. SubSeq(items, 1, m) = items
      BY SubSeqFull
    <2> QED BY <2>2 DEF G
  <1>10. G(m) \in Seq(S)
    BY <1>1, <1>3
  <1> QED BY <1>6, <1>7, <1>8, <1>9, <1>10

\* Items removed at their positions, the last first, can be put back there.
Unique(s) == \A i, j \in 1..Len(s) : s[i] = s[j] => i = j

\* The steps note items of c with their positions, in ascending order.
StepsIn(c, steps) ==
  /\ Len(steps) \in Nat
  /\ \A n \in 1..Len(steps) : steps[n].pos \in 1..Len(c) /\ steps[n].item = c[steps[n].pos]
  /\ \A m, n \in 1..Len(steps) : m < n => steps[m].pos < steps[n].pos
\* The items that are noted.
ItemsOf(steps) == {steps[i].item : i \in 1..Len(steps)}
\* s has the elements of c, all but some of the Items.
Same(c, s, Items) == Range(s) \subseteq Range(c) /\ Range(c) \subseteq Range(s) \cup Items

\* Removing one element keeps the others, and keeps them different.
LEMMA RemovedSame ==
  ASSUME NEW S, NEW s \in Seq(S), NEW p \in 1..Len(s)
  PROVE  /\ Range(RemoveAt(s, p)) \subseteq Range(s)
         /\ Range(s) \subseteq Range(RemoveAt(s, p)) \cup {s[p]}
         /\ Unique(s) => Unique(RemoveAt(s, p))
  <1> DEFINE r == RemoveAt(s, p)
  <1>1. Len(s) \in Nat /\ p \in Nat
    OBVIOUS
  <1>2. r \in Seq(S) /\ Len(r) = Len(s) - 1 /\ \A i \in 1..Len(s) - 1 : r[i] = IF i < p THEN s[i] ELSE s[i + 1]
    BY Removed1
  <1> HIDE DEF r
  <1>3. Range(r) = {r[i] : i \in 1..Len(r)} /\ Range(s) = {s[i] : i \in 1..Len(s)}
    <2>1. Range(r) = {r[i] : i \in 1..Len(r)}
      BY <1>2, RangeEquality
    <2>2. Range(s) = {s[i] : i \in 1..Len(s)}
      BY RangeEquality
    <2> QED BY <2>1, <2>2
  <1>4. ASSUME NEW i \in 1..Len(r) PROVE i \in 1..Len(s) /\ i + 1 \in 1..Len(s) /\ r[i] \in {s[i], s[i + 1]}
    BY <1>1, <1>2
  <1>5. ASSUME NEW i \in 1..Len(s), i # p PROVE s[i] \in {r[j] : j \in 1..Len(r)}
    <2>1. CASE i < p
      <3>1. i \in 1..Len(s) - 1 /\ i \in 1..Len(r)
        BY <1>1, <1>2, <2>1
      <3> QED BY <1>2, <2>1, <3>1
    <2>2. CASE i > p
      <3>1. i - 1 \in 1..Len(s) - 1 /\ i - 1 \in 1..Len(r) /\ ~(i - 1 < p) /\ (i - 1) + 1 = i
        BY <1>1, <1>2, <2>2
      <3>2. r[i - 1] = s[i]
        BY <1>2, <3>1
      <3> QED BY <3>1, <3>2
    <2> QED BY <1>1, <1>5, <2>1, <2>2
  <1>6. ASSUME Unique(s) PROVE Unique(r)
    <2>1. ASSUME NEW i \in 1..Len(r), NEW j \in 1..Len(r), r[i] = r[j] PROVE i = j
      <3>1. /\ i \in 1..Len(s) - 1 /\ j \in 1..Len(s) - 1 /\ i \in 1..Len(s) /\ j \in 1..Len(s)
            /\ i + 1 \in 1..Len(s) /\ j + 1 \in 1..Len(s)
        BY <1>1, <1>2
      <3>2. /\ r[i] = IF i < p THEN s[i] ELSE s[i + 1]
            /\ r[j] = IF j < p THEN s[j] ELSE s[j + 1]
        BY <1>2, <3>1
      <3>3. \A k, l \in 1..Len(s) : s[k] = s[l] => k = l
        BY <1>6 DEF Unique
      <3>4. CASE i < p /\ j < p
        BY <2>1, <3>1, <3>2, <3>3, <3>4
      <3>5. CASE ~(i < p) /\ ~(j < p)
        <4>1. s[i + 1] = s[j + 1]
          BY <2>1, <3>2, <3>5
        <4>2. i + 1 = j + 1
          BY <3>1, <3>3, <4>1
        <4> QED BY <4>2
      <3>6. CASE i < p /\ ~(j < p)
        <4>1. s[i] = s[j + 1]
          BY <2>1, <3>2, <3>6
        <4>2. i = j + 1
          BY <3>1, <3>3, <4>1
        <4> QED BY <1>1, <3>6, <4>2
      <3>7. CASE ~(i < p) /\ j < p
        <4>1. s[i + 1] = s[j]
          BY <2>1, <3>2, <3>7
        <4>2. i + 1 = j
          BY <3>1, <3>3, <4>1
        <4> QED BY <1>1, <3>7, <4>2
      <3> QED BY <3>4, <3>5, <3>6, <3>7
    <2> QED BY <2>1 DEF Unique
  <1>7. Range(r) \subseteq Range(s)
    BY <1>3, <1>4
  <1>8. Range(s) \subseteq Range(r) \cup {s[p]}
    BY <1>3, <1>5
  <1> QED BY <1>6, <1>7, <1>8 DEF r

\* The positions of some of the items, in ascending order.
LEMMA RemoveStepsIn ==
  ASSUME NEW S, NEW c \in Seq(S), NEW items
  PROVE  StepsIn(c, RemoveSteps(items, c))
  <1> DEFINE at == {p \in 1..Len(c) : c[p] \in items}
             m == Cardinality(at)
             steps == RemoveSteps(items, c)
  <1>1. Len(c) \in Nat /\ at \in SUBSET (1..Len(c))
    OBVIOUS
  <1>2. steps = [i \in 1..m |-> [pos |-> Place(at, i), item |-> c[Place(at, i)]]]
    BY DEF RemoveSteps
  <1> HIDE DEF at, steps
  <1>3. m \in Nat
    BY <1>1, PositionsFinite
  <1> HIDE DEF m
  <1>4. Len(steps) = m /\ \A n \in 1..m : steps[n].pos = Place(at, n) /\ steps[n].item = c[Place(at, n)]
    BY <1>2, <1>3
  <1>5. ASSUME NEW n \in 1..m PROVE Place(at, n) \in at /\ Rank(at, Place(at, n)) = n
    BY <1>1, RankOnto DEF m
  <1>6. ASSUME NEW n \in 1..m PROVE Place(at, n) \in 1..Len(c)
    BY <1>1, <1>5
  <1>7. ASSUME NEW k \in 1..m, NEW n \in 1..m, k < n PROVE Place(at, k) < Place(at, n)
    <2>1. Place(at, k) \in Nat /\ Place(at, n) \in Nat /\ k \in Nat /\ n \in Nat
      BY <1>3, <1>6
    <2>2. ~(Place(at, n) < Place(at, k))
      <3>1. Place(at, n) < Place(at, k) => Rank(at, Place(at, n)) < Rank(at, Place(at, k))
        BY <1>1, <1>5, RankMonotone
      <3> QED BY <1>5, <1>7, <2>1, <3>1
    <2>3. Place(at, n) # Place(at, k)
      BY <1>5, <1>7, <2>1
    <2> QED BY <2>1, <2>2, <2>3
  <1>8. StepsIn(c, steps)
    BY <1>3, <1>4, <1>6, <1>7 DEF StepsIn
  <1> QED BY <1>8 DEF steps

\* What erasing goes through, from one step to the next.
LEMMA ErasedSoFar ==
  ASSUME NEW S, NEW c \in Seq(S), NEW steps, StepsIn(c, steps)
  PROVE  \E g \in [0..Len(steps) -> Seq(S)] :
           /\ g[0] = c
           /\ \A n \in 1..Len(steps) :
                /\ g[n] = RemoveAt(g[n - 1], steps[Len(steps) + 1 - n].pos)
                /\ steps[Len(steps) + 1 - n].pos \in 1..Len(g[n - 1])
                /\ g[n - 1][steps[Len(steps) + 1 - n].pos] = steps[Len(steps) + 1 - n].item
           /\ Same(c, g[Len(steps)], ItemsOf(steps))
           /\ Unique(c) => Unique(g[Len(steps)])
  <1> DEFINE m == Len(steps)
             pos(n) == steps[m + 1 - n].pos
             item(n) == steps[m + 1 - n].item
             Kept(g, k) == Len(g[k]) = Len(c) - k
                           /\ \A j \in 1..Len(c) : (k = 0 \/ j < pos(k)) => g[k][j] = c[j]
             Chain(g, k) ==
               /\ g[0] = c
               /\ \A n \in 1..k : /\ g[n] = RemoveAt(g[n - 1], pos(n))
                                  /\ pos(n) \in 1..Len(g[n - 1])
                                  /\ g[n - 1][pos(n)] = item(n)
               /\ Same(c, g[k], ItemsOf(steps))
               /\ Unique(c) => Unique(g[k])
               /\ Kept(g, k)
             T == {k \in 0..m : \E g \in [0..k -> Seq(S)] : Chain(g, k)}
  <1>1. Len(c) \in Nat /\ m \in Nat
    BY DEF StepsIn
  <1>2. ASSUME NEW n \in 1..m
        PROVE  /\ m + 1 - n \in 1..m /\ pos(n) \in 1..Len(c) /\ item(n) = c[pos(n)]
               /\ item(n) \in ItemsOf(steps)
    BY <1>1 DEF StepsIn, ItemsOf
  <1>3. ASSUME NEW n \in 1..m, n + 1 \in 1..m
        PROVE  pos(n + 1) < pos(n)
    <2>1. m + 1 - (n + 1) \in 1..m /\ m + 1 - n \in 1..m /\ m + 1 - (n + 1) < m + 1 - n
      BY <1>1, <1>3
    <2> QED BY <2>1 DEF StepsIn
  <1>4. 0 \in T
    <2> DEFINE g == [i \in 0..0 |-> c]
    <2>1. g \in [0..0 -> Seq(S)] /\ g[0] = c
      OBVIOUS
    <2>2. Same(c, c, ItemsOf(steps))
      BY DEF Same
    <2>3. Kept(g, 0)
      BY <1>1, <2>1
    <2>4. Chain(g, 0)
      BY <2>1, <2>2, <2>3
    <2>5. 0 \in 0..m
      BY <1>1
    <2> HIDE DEF g, Chain
    <2> QED BY <2>1, <2>4, <2>5
  <1>5. ASSUME NEW k \in 0..m - 1, k \in T PROVE k + 1 \in T
    <2>1. PICK f \in [0..k -> Seq(S)] : Chain(f, k)
      BY <1>5
    <2> DEFINE p == pos(k + 1)
               e == RemoveAt(f[k], p)
               g == [i \in 0..k + 1 |-> IF i <= k THEN f[i] ELSE e]
    <2>2. k \in Nat /\ k + 1 \in 1..m /\ k + 1 \in 0..m /\ k \in 0..k /\ k \in 0..m /\ (k + 1) - 1 = k
      BY <1>1
    <2>3. p \in 1..Len(c) /\ item(k + 1) = c[p] /\ item(k + 1) \in ItemsOf(steps)
      BY <1>2, <2>2
    <2>4. f[k] \in Seq(S) /\ Len(f[k]) = Len(c) - k
      BY <2>1, <2>2
    <2>5. k = 0 \/ (k \in 1..m /\ p < pos(k) /\ pos(k) \in 1..Len(f[k - 1]) /\ Len(f[k - 1]) = Len(f[k]) + 1)
      <3>1. CASE k # 0
        <4>1. k \in 1..m /\ k \in 1..k /\ k - 1 \in 0..k
          BY <2>2, <3>1
        <4>2. p < pos(k)
          BY <1>3, <2>2, <4>1
        <4>3. pos(k) \in 1..Len(f[k - 1]) /\ f[k] = RemoveAt(f[k - 1], pos(k)) /\ f[k - 1] \in Seq(S)
          BY <2>1, <4>1
        <4>4. Len(f[k]) = Len(f[k - 1]) - 1
          BY <4>3, Removed1
        <4>5. Len(f[k - 1]) \in Nat
          BY <4>3
        <4> QED BY <4>1, <4>2, <4>3, <4>4, <4>5
      <3> QED BY <3>1
    <2>6. p \in 1..Len(f[k]) /\ f[k][p] = item(k + 1)
      <3>1. CASE k = 0
        BY <1>1, <2>1, <2>3, <2>4, <3>1
      <3>2. CASE k # 0
        <4>1. f[k][p] = c[p]
          BY <2>1, <2>3, <2>5, <3>2
        <4>2. Len(f[k]) \in Nat /\ pos(k) \in Nat /\ p \in Nat /\ pos(k) <= Len(f[k]) + 1
          BY SMTT(30), <1>2, <2>3, <2>4, <2>5, <3>2
        <4>3. p < pos(k) /\ 1 <= p
          BY <2>3, <2>5, <3>2
        <4> HIDE DEF p, pos
        <4>4. p \in 1..Len(f[k])
          BY <4>2, <4>3
        <4> QED BY <2>3, <4>1, <4>4
      <3> QED BY <3>1, <3>2
    <2>7. /\ e \in Seq(S) /\ Len(e) = Len(f[k]) - 1
          /\ \A i \in 1..Len(f[k]) - 1 : e[i] = IF i < p THEN f[k][i] ELSE f[k][i + 1]
      <3>1. f[k] \in Seq(S) /\ p \in 1..Len(f[k])
        BY <2>4, <2>6
      <3> HIDE DEF p
      <3> QED BY ONLY <3>1, Removed1
    <2>8. Same(c, e, ItemsOf(steps)) /\ (Unique(c) => Unique(e))
      <3>1. /\ Range(e) \subseteq Range(f[k]) /\ Range(f[k]) \subseteq Range(e) \cup {f[k][p]}
            /\ Unique(f[k]) => Unique(e)
        <4>1. f[k] \in Seq(S) /\ p \in 1..Len(f[k])
          BY <2>4, <2>6
        <4> HIDE DEF p
        <4> QED BY ONLY <4>1, RemovedSame
      <3>2. f[k][p] \in ItemsOf(steps)
        BY <2>3, <2>6
      <3>3. Same(c, f[k], ItemsOf(steps)) /\ (Unique(c) => Unique(f[k]))
        BY <2>1
      <3> HIDE DEF e, p
      <3> QED BY <3>1, <3>2, <3>3 DEF Same
    <2> HIDE DEF e
    <2>9. g \in [0..k + 1 -> Seq(S)] /\ g[k + 1] = e /\ \A i \in 0..k : g[i] = f[i]
      BY <2>1, <2>2, <2>7
    <2> HIDE DEF g
    <2>10. g[0] = c
      BY <2>1, <2>2, <2>9
    <2>11. ASSUME NEW n \in 1..k + 1
           PROVE  /\ g[n] = RemoveAt(g[n - 1], pos(n))
                  /\ pos(n) \in 1..Len(g[n - 1])
                  /\ g[n - 1][pos(n)] = item(n)
      <3>1. CASE n = k + 1
        <4>1. g[n - 1] = f[k] /\ g[n] = e
          BY <2>2, <2>9, <3>1
        <4> QED BY <2>6, <3>1, <4>1 DEF e
      <3>2. CASE n # k + 1
        <4>1. n \in 1..k /\ n \in 0..k /\ n - 1 \in 0..k
          BY <2>2, <3>2
        <4>2. g[n] = f[n] /\ g[n - 1] = f[n - 1]
          BY <2>9, <4>1
        <4> QED BY <2>1, <4>1, <4>2
      <3> QED BY <3>1, <3>2
    <2>12. Kept(g, k + 1)
      <3>1. Len(e) = Len(c) - (k + 1)
        BY <1>1, <2>2, <2>4, <2>7
      <3>2. ASSUME NEW j \in 1..Len(c), j < p PROVE e[j] = c[j]
        <4>1. Len(f[k]) \in Nat /\ p <= Len(f[k]) /\ j \in 1..Len(f[k]) - 1
          BY <2>3, <2>4, <2>6, <3>2
        <4>2. e[j] = f[k][j]
          BY <2>7, <3>2, <4>1
        <4>3. k = 0 \/ j < pos(k)
          <5>1. CASE k # 0
            <6>1. p < pos(k) /\ pos(k) \in Nat /\ p \in Nat
              BY SMTT(30), <1>2, <2>3, <2>5, <5>1
            <6> QED BY <3>2, <6>1
          <5> QED BY <5>1
        <4>4. f[k][j] = c[j]
          BY <2>1, <4>3
        <4> QED BY <4>2, <4>4
      <3>3. k + 1 # 0
        BY <2>2
      <3> QED BY <2>9, <3>1, <3>2, <3>3
    <2>13. Chain(g, k + 1)
      BY <2>8, <2>9, <2>10, <2>11, <2>12
    <2> HIDE DEF Chain
    <2> QED BY <2>2, <2>9, <2>13
  <1>6. m \in T
    <2> HIDE DEF T
    <2>1. 0..m \subseteq T
      BY <1>1, <1>4, <1>5, UpTo
    <2> QED BY <1>1, <2>1
  <1>7. PICK g \in [0..m -> Seq(S)] : Chain(g, m)
    BY <1>6
  <1>8. WITNESS g \in [0..Len(steps) -> Seq(S)]
  <1> QED BY <1>7

\* Erasing the steps and inserting them again gives the list back.
LEMMA Removing ==
  ASSUME NEW S, NEW c \in Seq(S), NEW steps, StepsIn(c, steps)
  PROVE  /\ EraseSteps(c, steps) \in Seq(S)
         /\ InsertSteps(EraseSteps(c, steps), steps) = c
         /\ Same(c, EraseSteps(c, steps), ItemsOf(steps))
         /\ Unique(c) => Unique(EraseSteps(c, steps))
  <1> DEFINE m == Len(steps)
  <1>1. PICK g \in [0..Len(steps) -> Seq(S)] :
           /\ g[0] = c
           /\ \A n \in 1..Len(steps) :
                /\ g[n] = RemoveAt(g[n - 1], steps[Len(steps) + 1 - n].pos)
                /\ steps[Len(steps) + 1 - n].pos \in 1..Len(g[n - 1])
                /\ g[n - 1][steps[Len(steps) + 1 - n].pos] = steps[Len(steps) + 1 - n].item
           /\ Same(c, g[Len(steps)], ItemsOf(steps))
           /\ Unique(c) => Unique(g[Len(steps)])
    BY ErasedSoFar
  <1>2. m \in Nat
    BY DEF StepsIn
  <1>3. EraseSteps(c, steps) = g[Len(steps)]
    <2>1. /\ g[0] = c /\ Len(steps) \in Nat
          /\ \A n \in 1..Len(steps) : g[n] = RemoveAt(g[n - 1], steps[Len(steps) + 1 - n].pos)
      BY <1>1, <1>2
    <2> QED BY ONLY <2>1, EraseChain
  <1> DEFINE h == [n \in 0..m |-> g[m - n]]
  <1>4. ASSUME NEW n \in 1..Len(steps)
        PROVE  h[n] = InsertAt(h[n - 1], steps[n].pos, steps[n].item)
    <2>1. /\ m + 1 - n \in 1..m /\ m + 1 - (m + 1 - n) = n /\ (m + 1 - n) - 1 = m - n
          /\ m - (n - 1) = m + 1 - n /\ n \in 0..m /\ n - 1 \in 0..m /\ m - n \in 0..m
      BY <1>2
    <2>2. h[n] = g[m - n] /\ h[n - 1] = g[m + 1 - n]
      BY <2>1
    <2> DEFINE s == g[m - n]
               p == steps[n].pos
    <2>3. g[m + 1 - n] = RemoveAt(s, p) /\ p \in 1..Len(s) /\ s[p] = steps[n].item
      BY <1>1, <2>1
    <2>4. s \in Seq(S)
      BY <2>1
    <2> HIDE DEF s, p
    <2>5. InsertAt(RemoveAt(s, p), p, s[p]) = s
      BY <2>3, <2>4, InsertRemoved
    <2> QED BY <2>2, <2>3, <2>5 DEF s, p
  <1>5. h \in [0..Len(steps) -> Seq(S)] /\ h[0] = g[Len(steps)] /\ h[Len(steps)] = c
    <2>1. m - 0 = m /\ m - m = 0 /\ 0 \in 0..m /\ m \in 0..m
      BY <1>2
    <2>2. h[0] = g[m - 0] /\ h[m] = g[m - m]
      BY <2>1
    <2>3. \A n \in 0..m : m - n \in 0..m
      BY <1>2
    <2> QED BY <1>1, <2>1, <2>2, <2>3
  <1>6. InsertSteps(g[Len(steps)], steps) = c
    <2> HIDE DEF h
    <2>1. Len(steps) \in Nat /\ h[0] = g[Len(steps)] /\ h \in [0..Len(steps) -> Seq(S)]
      BY <1>2, <1>5
    <2>2. \A b : b = h[0] => InsertSteps(b, steps) = h[Len(steps)]
      <3> TAKE b
      <3> HAVE b = h[0]
      <3>1. /\ h[0] = b /\ Len(steps) \in Nat /\ h \in [0..Len(steps) -> Seq(S)]
            /\ \A n \in 1..Len(steps) : h[n] = InsertAt(h[n - 1], steps[n].pos, steps[n].item)
        BY <1>4, <2>1
      <3> QED BY ONLY <3>1, InsertChain
    <2>3. InsertSteps(g[Len(steps)], steps) = h[Len(steps)]
      BY <2>1, <2>2
    <2> QED BY <1>5, <2>3
  <1>7. g[Len(steps)] \in Seq(S)
    BY <1>2
  <1> QED BY <1>1, <1>3, <1>6, <1>7

-----------------------------------------------------------------------------
(* What perform does for each class of actions.                              *)

\* To do and redo an action, to undo it.
Forth == FALSE
Back == TRUE

\* What perform does, for each class of actions.
LEMMA PerformedAddCard ==
  ASSUME NEW s, NEW cs, NEW a, NEW u, a.type = "AddCard"
  PROVE  Perform(s, cs, a, u) =
           [set |-> [s EXCEPT !.cards = GenericAdd(s.cards, a, u)], card |-> cs, action |-> a]
  BY DEF Perform, PerformAddCard

LEMMA PerformedReorder ==
  ASSUME NEW s, NEW cs, NEW a, NEW u, a.type = "Reorder"
  PROVE  Perform(s, cs, a, u) = [set |-> s, card |-> cs, action |-> a]
  BY DEF Perform, PerformReorderCards

LEMMA PerformedValue ==
  ASSUME NEW s, NEW cs, NEW a, NEW u, a.type = "Value"
  PROVE  Perform(s, cs, a, u) =
           [set |-> s, card |-> [cs EXCEPT ![a.card] = [cs[a.card] EXCEPT !.value = a.new_value]],
            action |-> [a EXCEPT !.new_value = cs[a.card].value]]
  BY DEF Perform, PerformValue

LEMMA PerformedCardStyle ==
  ASSUME NEW s, NEW cs, NEW a, NEW u, a.type = "CardStyle"
  PROVE  Perform(s, cs, a, u) =
           [set |-> s,
            card |-> [cs EXCEPT ![a.card] = [cs[a.card] EXCEPT !.stylesheet = a.stylesheet,
                         !.has_styling = a.has_styling, !.styling_data = a.styling_data]],
            action |-> [a EXCEPT !.stylesheet = cs[a.card].stylesheet,
                         !.has_styling = cs[a.card].has_styling,
                         !.styling_data = cs[a.card].styling_data]]
  BY DEF Perform, PerformChangeCardStyle

LEMMA PerformedAddPack ==
  ASSUME NEW s, NEW cs, NEW a, NEW u, a.type = "AddPack"
  PROVE  Perform(s, cs, a, u) =
           [set |-> [s EXCEPT !.pack_types = GenericAdd(s.pack_types, a, u)], card |-> cs, action |-> a]
  BY DEF Perform, PerformAddPack

LEMMA PerformedChangePack ==
  ASSUME NEW s, NEW cs, NEW a, NEW u, a.type = "ChangePack"
  PROVE  Perform(s, cs, a, u) =
           [set |-> [s EXCEPT !.pack_types = [s.pack_types EXCEPT ![a.pos] = a.pack]], card |-> cs,
            action |-> [a EXCEPT !.pack = s.pack_types[a.pos]]]
  BY DEF Perform, PerformChangePack

\* Two changes to a document at once, one after the other.
LEMMA HasStylingParts ==
  ASSUME NEW s, NEW cs, NEW a, NEW x, NEW w, NEW y
  PROVE  [[set |-> s, card |-> cs, action |-> a] EXCEPT !.card[x] = w, !.action.styling_data = y]
           = [set |-> s, card |-> [cs EXCEPT ![x] = w], action |-> [a EXCEPT !.styling_data = y]]
  <1> DEFINE f == [cs EXCEPT ![x] = w]
  <1>1. [[set |-> s, card |-> cs, action |-> a] EXCEPT !.card[x] = w] = [set |-> s, card |-> f, action |-> a]
    OBVIOUS
  <1>2. [[set |-> s, card |-> f, action |-> a] EXCEPT !.action.styling_data = y]
           = [set |-> s, card |-> f, action |-> [a EXCEPT !.styling_data = y]]
    OBVIOUS
  <1> QED BY <1>1, <1>2

\* v is what has_styling becomes; the card with styling v and the given data.
Opposite(x, v) == v \in BOOLEAN /\ (v <=> ~x)

Restyled(c, v, data) == [c EXCEPT !.has_styling = v, !.styling_data = data]

\* The document after PerformChangeCardHasStyling, when has_styling becomes v.
HasStylingDone(s, cs, a, v) ==
  [set |-> s, card |-> [cs EXCEPT ![a.card] = Restyled(cs[a.card], v, a.styling_data)],
   action |-> [a EXCEPT !.styling_data = cs[a.card].styling_data]]

LEMMA PerformedHasStyling ==
  ASSUME NEW s, NEW cs, NEW a, NEW u, a.type = "HasStyling",
         NEW v, Opposite(cs[a.card].has_styling, v)
  PROVE  Perform(s, cs, a, u) = HasStylingDone(s, cs, a, v)
  <1> DEFINE doc == [set |-> s, card |-> cs, action |-> a]
             w == [cs[a.card] EXCEPT !.has_styling = v,
                                               !.styling_data = a.styling_data]
  <1>1. Perform(s, cs, a, u) = PerformChangeCardHasStyling(doc, a, u)
    BY DEF Perform
  <1>2. doc.card[a.card] = cs[a.card] 
    OBVIOUS
  <1> HIDE DEF doc
  <1>4. PerformChangeCardHasStyling(doc, a, u) =
          [doc EXCEPT !.card[a.card] = [doc.card[a.card] EXCEPT !.has_styling = ~doc.card[a.card].has_styling,
                                               !.styling_data = a.styling_data],
                    !.action.styling_data = doc.card[a.card].styling_data]
    BY Zenon DEF PerformChangeCardHasStyling
  <1>3. v = (~cs[a.card].has_styling)
    BY DEF Opposite
  <1>5. PerformChangeCardHasStyling(doc, a, u) =
          [doc EXCEPT !.card[a.card] = w,
                    !.action.styling_data = cs[a.card].styling_data]
    BY Zenon, <1>2, <1>3, <1>4 DEF w
  <1> HIDE DEF w
  <1>6. PerformChangeCardHasStyling(doc, a, u) =
         [set |-> s, card |-> [cs EXCEPT ![a.card] = w],
            action |-> [a EXCEPT !.styling_data = cs[a.card].styling_data]]
    BY <1>5, HasStylingParts DEF doc
  <1> QED BY Zenon, <1>1, <1>6 DEF w, doc, Restyled, HasStylingDone

\* The changes of PerformChangeSetStyle, one after the other.
LEMMA SetStyleParts ==
  ASSUME NEW s, NEW cs, NEW a, NEW w, NEW x, NEW y, NEW z
  PROVE  [[set |-> s, card |-> cs, action |-> a] EXCEPT !.card = w, !.set.stylesheet = x,
               !.action.stylesheet = y, !.action.has_styling = z]
           = [set |-> [s EXCEPT !.stylesheet = x], card |-> w,
              action |-> [a EXCEPT !.stylesheet = y, !.has_styling = z]]
  <1> DEFINE d == [set |-> s, card |-> w, action |-> a]
             r == [s EXCEPT !.stylesheet = x]
             b == [a EXCEPT !.stylesheet = y]
  <1>1. [[set |-> s, card |-> cs, action |-> a] EXCEPT !.card = w] = d
    OBVIOUS
  <1>2. [d EXCEPT !.set.stylesheet = x] = [set |-> r, card |-> w, action |-> a]
    OBVIOUS
  <1>3. [[set |-> r, card |-> w, action |-> a] EXCEPT !.action.stylesheet = y]
           = [set |-> r, card |-> w, action |-> b]
    OBVIOUS
  <1> HIDE DEF r, b
  <1>4. [[set |-> r, card |-> w, action |-> b] EXCEPT !.action.has_styling = z]
           = [set |-> r, card |-> w, action |-> [b EXCEPT !.has_styling = z]]
    OBVIOUS
  <1> HIDE DEF d
  <1> QED BY <1>1, <1>2, <1>3, <1>4 DEF r, b

LEMMA SetStyleUndoParts ==
  ASSUME NEW s, NEW cs, NEW a, NEW w, NEW x
  PROVE  [[set |-> s, card |-> cs, action |-> a] EXCEPT !.card = w, !.set.stylesheet = x]
           = [set |-> [s EXCEPT !.stylesheet = x], card |-> w, action |-> a]
  <1> DEFINE d == [set |-> s, card |-> w, action |-> a]
  <1>1. [[set |-> s, card |-> cs, action |-> a] EXCEPT !.card = w] = d
    OBVIOUS
  <1>2. [d EXCEPT !.set.stylesheet = x] = [set |-> [s EXCEPT !.stylesheet = x], card |-> w, action |-> a]
    OBVIOUS
  <1> HIDE DEF d
  <1> QED BY <1>1, <1>2

LEMMA PerformedSetStyle ==
  ASSUME NEW s, NEW cs, NEW a, NEW u, a.type = "SetStyle"
  PROVE  Perform(s, cs, a, u) = PerformChangeSetStyle([set |-> s, card |-> cs, action |-> a], a, u)
  BY DEF Perform

\* Where the card is in the set, and whether it is.
At(s, c) == CHOOSE i \in 1..Len(s.cards) : s.cards[i] = c

InSet(s, c) == \E i \in 1..Len(s.cards) : s.cards[i] = c

\* A card, and the document, after ChangeSetStyleAction is performed.
Stripped(s, cs, a, c) ==
  [cs[c] EXCEPT !.has_styling = cs[c].has_styling /\ ~(InSet(s, c) /\ cs[c].stylesheet = NULL),
                !.stylesheet = IF c = a.card THEN NULL ELSE @]
SetStyleDone(s, cs, a) ==
  [set |-> [s EXCEPT !.stylesheet = cs[a.card].stylesheet],
   card |-> [c \in CardIds |-> Stripped(s, cs, a, c)],
   action |-> [a EXCEPT !.stylesheet = s.stylesheet,
                        !.has_styling = [i \in 1..Len(s.cards) |-> cs[s.cards[i]].has_styling]]]

\* A card, and the document, after it is undone.
Restored(s, cs, a, c) ==
  [cs[c] EXCEPT !.has_styling = IF InSet(s, c) THEN a.has_styling[At(s, c)] ELSE @,
                !.stylesheet = IF c = a.card THEN s.stylesheet ELSE @]
SetStyleUndone(s, cs, a) ==
  [set |-> [s EXCEPT !.stylesheet = a.stylesheet],
   card |-> [c \in CardIds |-> Restored(s, cs, a, c)], action |-> a]

LEMMA PerformedSetStyleDo ==
  ASSUME NEW s, NEW cs, NEW a, a.type = "SetStyle"
  PROVE  Perform(s, cs, a, Forth) = SetStyleDone(s, cs, a)
  <1> DEFINE doc == [set |-> s, card |-> cs, action |-> a]
  <1>1. Perform(s, cs, a, FALSE) = PerformChangeSetStyle(doc, a, FALSE)
    BY ZenonT(40), PerformedSetStyle
  <1>2. doc.card = cs /\ doc.set = s
    OBVIOUS
  <1> HIDE DEF doc
  <1>3. PerformChangeSetStyle(doc, a, FALSE) = [doc EXCEPT
            !.card = [c \in CardIds |->
                [doc.card[c] EXCEPT
                    !.has_styling = doc.card[c].has_styling /\ ~((\E i \in 1..Len(doc.set.cards) : doc.set.cards[i] = c) /\ doc.card[c].stylesheet = NULL),
                    !.stylesheet = IF c = a.card THEN NULL ELSE @]],
            !.set.stylesheet = doc.card[a.card].stylesheet,
            !.action.stylesheet = doc.set.stylesheet,
            !.action.has_styling = [i \in 1..Len(doc.set.cards) |-> doc.card[doc.set.cards[i]].has_styling]]
    BY Zenon DEF PerformChangeSetStyle
  <1> DEFINE w == [c \in CardIds |->
                [cs[c] EXCEPT
                    !.has_styling = cs[c].has_styling /\ ~((\E i \in 1..Len(s.cards) : s.cards[i] = c) /\ cs[c].stylesheet = NULL),
                    !.stylesheet = IF c = a.card THEN NULL ELSE @]]
             z == [i \in 1..Len(s.cards) |-> cs[s.cards[i]].has_styling]
  <1>4. PerformChangeSetStyle(doc, a, FALSE) = [doc EXCEPT !.card = w,
            !.set.stylesheet = cs[a.card].stylesheet,
            !.action.stylesheet = s.stylesheet,
            !.action.has_styling = z]
    <2>1. [c \in CardIds |->
                [doc.card[c] EXCEPT
                    !.has_styling = doc.card[c].has_styling /\ ~((\E i \in 1..Len(doc.set.cards) : doc.set.cards[i] = c) /\ doc.card[c].stylesheet = NULL),
                    !.stylesheet = IF c = a.card THEN NULL ELSE @]] = w
      BY <1>2
    <2>2. [i \in 1..Len(doc.set.cards) |-> doc.card[doc.set.cards[i]].has_styling] = z
      BY <1>2
    <2> HIDE DEF w, z
    <2> QED BY Zenon, <1>2, <1>3, <2>1, <2>2
  <1> HIDE DEF w, z
  <1>5. PerformChangeSetStyle(doc, a, FALSE) =
           [set |-> [s EXCEPT !.stylesheet = cs[a.card].stylesheet], card |-> w,
            action |-> [a EXCEPT !.stylesheet = s.stylesheet, !.has_styling = z]]
    BY <1>4, SetStyleParts DEF doc
  <1> QED BY Zenon, <1>1, <1>5 DEF w, z, doc, Forth, SetStyleDone, Stripped, InSet

LEMMA PerformedSetStyleUndo ==
  ASSUME NEW s, NEW cs, NEW a, a.type = "SetStyle"
  PROVE  Perform(s, cs, a, Back) = SetStyleUndone(s, cs, a)
  <1> DEFINE doc == [set |-> s, card |-> cs, action |-> a]
  <1>1. Perform(s, cs, a, TRUE) = PerformChangeSetStyle(doc, a, TRUE)
    BY ZenonT(40), PerformedSetStyle
  <1>2. doc.card = cs /\ doc.set = s
    OBVIOUS
  <1> HIDE DEF doc
  <1> DEFINE w == [c \in CardIds |-> [cs[c] EXCEPT
               !.has_styling = IF \E i \in 1..Len(s.cards) : s.cards[i] = c THEN a.has_styling[At(s, c)] ELSE @,
               !.stylesheet = IF c = a.card THEN s.stylesheet ELSE @]]
  <1>4. PerformChangeSetStyle(doc, a, TRUE) = [doc EXCEPT !.card = w, !.set.stylesheet = a.stylesheet]
    BY Zenon, <1>2 DEF PerformChangeSetStyle, At
  <1> HIDE DEF w
  <1>5. PerformChangeSetStyle(doc, a, TRUE) =
           [set |-> [s EXCEPT !.stylesheet = a.stylesheet], card |-> w, action |-> a]
    BY <1>4, SetStyleUndoParts DEF doc
  <1> QED BY Zenon, <1>1, <1>5 DEF w, doc, Back, SetStyleUndone, Restored, InSet

-----------------------------------------------------------------------------
(* An action and its undoing.                                                *)

\* The sets, cards and classes of actions there are.
Sets == [cards : Seq(CardIds), stylesheet : Sheets, pack_types : Seq(PackTypes)]
Cards == [CardIds -> Card]
Kinds == {"AddCard", "Reorder", "Value", "CardStyle", "SetStyle", "HasStyling", "AddPack", "ChangePack"}

\* Performing a on the set s with the cards cs gives t, ct and the action b.
Does(s, cs, a, u, t, ct, b) == Perform(s, cs, a, u) = [set |-> t, card |-> ct, action |-> b]

\* A list that is told of a finds the first card of a among the added or removed.
Moves(s, t, a) ==
  /\ a.adding \in BOOLEAN /\ a.steps[1].item \in CardIds
  /\ a.steps[1].item \in IF a.adding THEN Range(t.cards) ELSE Range(s.cards)

\* Undoing a leads from t back to s and leaves b; doing b leads forth again and
\* leaves a.  No card comes or goes that a is not about.
Linked(s, cs, t, ct, a, b) ==
  /\ Does(t, ct, a, Back, s, cs, b)
  /\ Does(s, cs, b, Forth, t, ct, a)
  /\ a.type \in Kinds /\ b.type = a.type
  /\ CardsOf(a) \subseteq CardIds /\ CardsOf(b) = CardsOf(a)
  /\ Range(s.cards) \subseteq Range(t.cards) \cup CardsOf(a)
  /\ Range(t.cards) \subseteq Range(s.cards) \cup CardsOf(a)
  /\ a.type = "AddCard" => b = a /\ Moves(s, t, a)

\* The styling data of a card, and of all cards of the set, is for the
\* stylesheet it is shown with: StylingFits for any set.
FitsFor(s, c) == c.has_styling => c.styling_data = StylesheetFor(s, c)
Fits(s, cs) == \A c \in Range(s.cards) : FitsFor(s, cs[c])

\* Editing a value can be undone and redone, exactly, and the styling still fits.
LEMMA ValueLinks ==
  ASSUME NEW s \in Sets, NEW cs \in Cards, NEW c \in CardIds, NEW v \in Values,
         NEW t, NEW ct, NEW a, Does(s, cs, ValueAction(c, v), Forth, t, ct, a)
  PROVE  /\ t = s /\ ct \in Cards /\ Linked(s, cs, t, ct, a, ValueAction(c, v))
         /\ Fits(s, cs) => Fits(t, ct)
  <1> DEFINE b == ValueAction(c, v)
             old == cs[c].value
  <1>1. b = [type |-> "Value", card |-> c, new_value |-> v]
    BY DEF ValueAction
  <1>2. cs[c] \in Card /\ old \in Values
    BY DEF Cards, Card
  <1> HIDE DEF b
  <1>3. t = s /\ ct = [cs EXCEPT ![c] = [@ EXCEPT !.value = v]] /\ a = [b EXCEPT !.new_value = old]
    <2>1. b.type = "Value" /\ b.card = c /\ b.new_value = v
      BY <1>1
    <2>2. Perform(s, cs, b, Forth) = 
           [set |-> s, card |-> [cs EXCEPT ![b.card] = [cs[b.card] EXCEPT !.value = b.new_value]],
            action |-> [b EXCEPT !.new_value = cs[b.card].value]]
      <3>1. b.type = "Value"
        BY <2>1
      <3> QED BY ONLY <3>1, PerformedValue
    <2>3. Perform(s, cs, b, Forth) = [set |-> t, card |-> ct, action |-> a]
      BY DEF Does, b
    <2>4. /\ s = t
          /\ [cs EXCEPT ![b.card] = [cs[b.card] EXCEPT !.value = b.new_value]] = ct
          /\ [b EXCEPT !.new_value = cs[b.card].value] = a
      BY <2>2, <2>3
    <2> QED BY <2>1, <2>4
  <1>4. a = [type |-> "Value", card |-> c, new_value |-> old]
    BY <1>1, <1>3
  <1>5. ct \in Cards /\ ct[c].value = v /\ \A x \in CardIds : x # c => ct[x] = cs[x]
    BY <1>2, <1>3 DEF Cards, Card
  <1>6. Perform(s, ct, a, Back) = [set |-> s, card |-> cs, action |-> b]
    <2>1. a.type = "Value" /\ a.card = c /\ a.new_value = old
      BY <1>4
    <2>2. Perform(s, ct, a, Back) = 
           [set |-> s, card |-> [ct EXCEPT ![a.card] = [ct[a.card] EXCEPT !.value = a.new_value]],
            action |-> [a EXCEPT !.new_value = ct[a.card].value]]
      <3>1. a.type = "Value"
        BY <2>1
      <3> QED BY ONLY <3>1, PerformedValue
    <2>3. [ct EXCEPT ![c] = [@ EXCEPT !.value = old]] = cs
      BY <1>2, <1>3 DEF Cards, Card
    <2>4. [a EXCEPT !.new_value = ct[c].value] = b
      BY <1>1, <1>4, <1>5
    <2> QED BY <2>1, <2>2, <2>3, <2>4
  <1>7. a.type # "AddCard" /\ a.type \in Kinds /\ b.type = a.type /\ CardsOf(a) = {c} /\ CardsOf(b) = {c}
    BY <1>1, <1>4 DEF Kinds, CardsOf
  <1>8. Linked(s, cs, t, ct, a, b)
    BY <1>3, <1>6, <1>7 DEF Linked, Does, b
  <1>9. ASSUME Fits(s, cs) PROVE Fits(t, ct)
    <2>1. \A x \in CardIds : /\ ct[x].has_styling = cs[x].has_styling
                             /\ ct[x].styling_data = cs[x].styling_data
                             /\ ct[x].stylesheet = cs[x].stylesheet
      BY <1>2, <1>3 DEF Cards, Card
    <2>2. Range(s.cards) \subseteq CardIds
      BY RangeOfSeq DEF Sets
    <2> QED BY <1>3, <1>9, <2>1, <2>2 DEF Fits, FitsFor, StylesheetFor
  <1> QED BY <1>3, <1>5, <1>8, <1>9 DEF b

\* So can choosing a style for a card,
LEMMA CardStyleLinks ==
  ASSUME NEW s \in Sets, NEW cs \in Cards, NEW c \in CardIds, NEW sheet \in Sheets \cup {NULL},
         NEW t, NEW ct, NEW a, Does(s, cs, ChangeCardStyleAction(c, sheet), Forth, t, ct, a)
  PROVE  /\ t = s /\ ct \in Cards /\ Linked(s, cs, t, ct, a, ChangeCardStyleAction(c, sheet))
         /\ Fits(s, cs) => Fits(t, ct)
  <1> DEFINE b == ChangeCardStyleAction(c, sheet)
             o1 == cs[c].stylesheet
             o2 == cs[c].has_styling
             o3 == cs[c].styling_data
             new == [cs[c] EXCEPT !.stylesheet = sheet, !.has_styling = FALSE, !.styling_data = NULL]
  <1>1. b = [type |-> "CardStyle", card |-> c, stylesheet |-> sheet,
             has_styling |-> FALSE, styling_data |-> NULL]
    BY DEF ChangeCardStyleAction
  <1>2. cs[c] \in Card /\ o1 \in Sheets \cup {NULL} /\ o2 \in BOOLEAN /\ o3 \in Sheets \cup {NULL}
    BY DEF Cards, Card
  <1> HIDE DEF b
  <1>3. t = s /\ ct = [cs EXCEPT ![c] = new]
        /\ a = [b EXCEPT !.stylesheet = o1, !.has_styling = o2, !.styling_data = o3]
    <2>1. /\ b.type = "CardStyle" /\ b.card = c /\ b.stylesheet = sheet
          /\ b.has_styling = FALSE /\ b.styling_data = NULL
      BY <1>1
    <2>2. Perform(s, cs, b, Forth) = 
           [set |-> s,
            card |-> [cs EXCEPT ![b.card] = [cs[b.card] EXCEPT !.stylesheet = b.stylesheet,
                         !.has_styling = b.has_styling, !.styling_data = b.styling_data]],
            action |-> [b EXCEPT !.stylesheet = cs[b.card].stylesheet,
                         !.has_styling = cs[b.card].has_styling,
                         !.styling_data = cs[b.card].styling_data]]
      <3>1. b.type = "CardStyle"
        BY <2>1
      <3> QED BY ONLY <3>1, PerformedCardStyle
    <2>3. Perform(s, cs, b, Forth) = [set |-> t, card |-> ct, action |-> a]
      BY DEF Does, b
    <2>4. /\ s = t
          /\ [cs EXCEPT ![b.card] = [cs[b.card] EXCEPT !.stylesheet = b.stylesheet,
                         !.has_styling = b.has_styling, !.styling_data = b.styling_data]] = ct
          /\ [b EXCEPT !.stylesheet = cs[b.card].stylesheet,
                         !.has_styling = cs[b.card].has_styling,
                         !.styling_data = cs[b.card].styling_data] = a
      BY <2>2, <2>3
    <2> QED BY <2>1, <2>4
  <1>4. a = [type |-> "CardStyle", card |-> c, stylesheet |-> o1, has_styling |-> o2, styling_data |-> o3]
    BY <1>1, <1>3
  <1>5. /\ new \in Card /\ new.stylesheet = sheet /\ new.has_styling = FALSE /\ new.styling_data = NULL
        /\ new.value = cs[c].value
    BY <1>2 DEF Card
  <1> HIDE DEF new
  <1>6. ct \in Cards /\ ct[c] = new /\ \A x \in CardIds : x # c => ct[x] = cs[x]
    BY <1>3, <1>5 DEF Cards
  <1>7. Perform(s, ct, a, Back) = [set |-> s, card |-> cs, action |-> b]
    <2>1. /\ a.type = "CardStyle" /\ a.card = c /\ a.stylesheet = o1
          /\ a.has_styling = o2 /\ a.styling_data = o3
      BY <1>4
    <2>2. Perform(s, ct, a, Back) = 
           [set |-> s,
            card |-> [ct EXCEPT ![a.card] = [ct[a.card] EXCEPT !.stylesheet = a.stylesheet,
                         !.has_styling = a.has_styling, !.styling_data = a.styling_data]],
            action |-> [a EXCEPT !.stylesheet = ct[a.card].stylesheet,
                         !.has_styling = ct[a.card].has_styling,
                         !.styling_data = ct[a.card].styling_data]]
      <3>1. a.type = "CardStyle"
        BY <2>1
      <3> QED BY ONLY <3>1, PerformedCardStyle
    <2>3. [new EXCEPT !.stylesheet = o1, !.has_styling = o2, !.styling_data = o3] = cs[c]
      BY <1>2, <1>5 DEF Card
    <2>4. [ct EXCEPT ![c] = cs[c]] = cs
      BY <1>6 DEF Cards
    <2>5. [a EXCEPT !.stylesheet = new.stylesheet, !.has_styling = new.has_styling,
                    !.styling_data = new.styling_data] = b
      <3>1. PICK y : y = new.has_styling
        OBVIOUS
      <3>2. [a EXCEPT !.stylesheet = new.stylesheet, !.has_styling = y,
                    !.styling_data = new.styling_data]
             = [type |-> "CardStyle", card |-> c, stylesheet |-> new.stylesheet,
                has_styling |-> y, styling_data |-> new.styling_data]
        <4>1. PICK x1, x2, x3 : a = [type |-> "CardStyle", card |-> c, stylesheet |-> x1,
                                     has_styling |-> x2, styling_data |-> x3]
          BY <1>4
        <4>2. PICK z1, z3 : z1 = new.stylesheet /\ z3 = new.styling_data
          OBVIOUS
        <4>3. [[type |-> "CardStyle", card |-> c, stylesheet |-> x1,
                                     has_styling |-> x2, styling_data |-> x3] 
                 EXCEPT !.stylesheet = z1, !.has_styling = y, !.styling_data = z3]
             = [type |-> "CardStyle", card |-> c, stylesheet |-> z1,
                has_styling |-> y, styling_data |-> z3]
          <5>1. [[type |-> "CardStyle", card |-> c, stylesheet |-> x1, has_styling |-> x2,
                  styling_data |-> x3] EXCEPT !.stylesheet = z1]
             = [type |-> "CardStyle", card |-> c, stylesheet |-> z1, has_styling |-> x2,
                styling_data |-> x3]
            OBVIOUS
          <5>2. [[type |-> "CardStyle", card |-> c, stylesheet |-> z1, has_styling |-> x2,
                  styling_data |-> x3] EXCEPT !.has_styling = y]
             = [type |-> "CardStyle", card |-> c, stylesheet |-> z1, has_styling |-> y,
                styling_data |-> x3]
            OBVIOUS
          <5>3. [[type |-> "CardStyle", card |-> c, stylesheet |-> z1, has_styling |-> y,
                  styling_data |-> x3] EXCEPT !.styling_data = z3]
             = [type |-> "CardStyle", card |-> c, stylesheet |-> z1, has_styling |-> y,
                styling_data |-> z3]
            OBVIOUS
          <5> QED BY <5>1, <5>2, <5>3
        <4> QED BY <4>1, <4>2, <4>3
      <3> QED BY <1>1, <1>5, <3>1, <3>2
    <2>6. [ct[a.card] EXCEPT !.stylesheet = a.stylesheet,
                         !.has_styling = a.has_styling, !.styling_data = a.styling_data] = cs[c]
      BY <1>6, <2>1, <2>3
    <2> QED BY <1>6, <2>1, <2>2, <2>4, <2>5, <2>6
  <1>8. a.type # "AddCard" /\ a.type \in Kinds /\ b.type = a.type /\ CardsOf(a) = {c} /\ CardsOf(b) = {c}
    BY <1>1, <1>4 DEF Kinds, CardsOf
  <1>9. Linked(s, cs, t, ct, a, b)
    BY <1>3, <1>7, <1>8 DEF Linked, Does, b
  <1>10. ASSUME Fits(s, cs) PROVE Fits(t, ct)
    <2>1. Range(s.cards) \subseteq CardIds
      BY RangeOfSeq DEF Sets
    <2>2. FitsFor(s, new)
      BY <1>5 DEF FitsFor
    <2> QED BY <1>3, <1>6, <1>10, <2>1, <2>2 DEF Fits
  <1> QED BY <1>3, <1>6, <1>9, <1>10 DEF b

\* giving a card styling of its own for the stylesheet it is shown with,
LEMMA HasStylingLinks ==
  ASSUME NEW s \in Sets, NEW cs \in Cards, NEW c \in CardIds, NEW b, NEW data \in Sheets \cup {NULL},
         b = [type |-> "HasStyling", card |-> c, styling_data |-> data],
         data = IF cs[c].has_styling THEN NULL ELSE StylesheetFor(s, cs[c]),
         NEW t, NEW ct, NEW a, Does(s, cs, b, Forth, t, ct, a)
  PROVE  /\ t = s /\ ct \in Cards /\ Linked(s, cs, t, ct, a, b)
         /\ Fits(s, cs) => Fits(t, ct)
  <1> DEFINE o2 == cs[c].has_styling
             o3 == cs[c].styling_data
  <1>2. /\ cs[c] \in Card /\ cs[c].stylesheet \in Sheets \cup {NULL} /\ o2 \in BOOLEAN
        /\ o3 \in Sheets \cup {NULL}
    BY DEF Cards, Card
  <1>1. PICK no \in BOOLEAN : no <=> ~o2
    BY <1>2
  <1> DEFINE new == Restyled(cs[c], no, data)
  <1>3. t = s /\ ct = [cs EXCEPT ![c] = new] /\ a = [b EXCEPT !.styling_data = o3]
    <2>1. b.type = "HasStyling" /\ b.card = c /\ b.styling_data = data
      OBVIOUS
    <2>2. Perform(s, cs, b, Forth) = 
           [set |-> s,
            card |-> [cs EXCEPT ![b.card] = Restyled(cs[b.card], no, b.styling_data)],
            action |-> [b EXCEPT !.styling_data = cs[b.card].styling_data]]
      <3>1. b.type = "HasStyling" /\ Opposite(cs[b.card].has_styling, no)
        BY <1>1, <2>1 DEF Opposite
      <3>2. Perform(s, cs, b, Forth) = HasStylingDone(s, cs, b, no)
        BY ONLY <3>1, PerformedHasStyling
      <3> QED BY ONLY <3>2 DEF HasStylingDone
    <2>3. Perform(s, cs, b, Forth) = [set |-> t, card |-> ct, action |-> a]
      BY DEF Does
    <2>4. /\ s = t
          /\ [cs EXCEPT ![b.card] = Restyled(cs[b.card], no, b.styling_data)] = ct
          /\ [b EXCEPT !.styling_data = cs[b.card].styling_data] = a
      BY <2>2, <2>3
    <2> QED BY <2>1, <2>4
  <1>4. a = [type |-> "HasStyling", card |-> c, styling_data |-> o3]
    BY <1>3
  <1>5. /\ new \in Card /\ new.stylesheet = cs[c].stylesheet /\ new.has_styling = no
        /\ new.styling_data = data /\ new.value = cs[c].value
    BY <1>2 DEF Card, Restyled
  <1> HIDE DEF new
  <1>6. ct \in Cards /\ ct[c] = new /\ \A x \in CardIds : x # c => ct[x] = cs[x]
    BY <1>3, <1>5 DEF Cards
  <1>7. Perform(s, ct, a, Back) = [set |-> s, card |-> cs, action |-> b]
    <2>1. a.type = "HasStyling" /\ a.card = c /\ a.styling_data = o3
      BY <1>4
    <2>2. Perform(s, ct, a, Back) = 
           [set |-> s,
            card |-> [ct EXCEPT ![a.card] = Restyled(ct[a.card], o2, a.styling_data)],
            action |-> [a EXCEPT !.styling_data = ct[a.card].styling_data]]
      <3>1. a.type = "HasStyling" /\ Opposite(ct[a.card].has_styling, o2)
        BY <1>1, <1>2, <1>5, <1>6, <2>1 DEF Opposite
      <3> HIDE DEF o2
      <3>2. Perform(s, ct, a, Back) = HasStylingDone(s, ct, a, o2)
        BY ONLY <3>1, PerformedHasStyling
      <3> QED BY ONLY <3>2 DEF HasStylingDone
    <2>3. Restyled(new, o2, o3) = cs[c]
      BY <1>2, <1>5 DEF Card, Restyled
    <2>4. [ct EXCEPT ![c] = cs[c]] = cs
      BY <1>6 DEF Cards
    <2>5. [a EXCEPT !.styling_data = new.styling_data] = b
      BY <1>4, <1>5
    <2>6. Restyled(ct[a.card], o2, a.styling_data) = cs[c]
      BY <1>6, <2>1, <2>3
    <2> QED BY <1>6, <2>1, <2>2, <2>4, <2>5, <2>6
  <1>8. a.type # "AddCard" /\ a.type \in Kinds /\ b.type = a.type /\ CardsOf(a) = {c} /\ CardsOf(b) = {c}
    BY <1>4 DEF Kinds, CardsOf
  <1>9. Linked(s, cs, t, ct, a, b)
    BY <1>3, <1>7, <1>8 DEF Linked, Does
  <1>10. ASSUME Fits(s, cs) PROVE Fits(t, ct)
    <2>1. Range(s.cards) \subseteq CardIds
      BY RangeOfSeq DEF Sets
    <2>2. FitsFor(s, new)
      BY <1>1, <1>2, <1>5 DEF FitsFor, StylesheetFor
    <2> QED BY <1>3, <1>6, <1>10, <2>1, <2>2 DEF Fits
  <1> QED BY <1>3, <1>6, <1>9, <1>10

\* A card after the set changed its style.
LEMMA StrippedCard ==
  ASSUME NEW s, NEW cs \in Cards, NEW a, NEW c \in CardIds
  PROVE  /\ Stripped(s, cs, a, c) \in Card
         /\ Stripped(s, cs, a, c).value = cs[c].value
         /\ Stripped(s, cs, a, c).styling_data = cs[c].styling_data
         /\ Stripped(s, cs, a, c).stylesheet = IF c = a.card THEN NULL ELSE cs[c].stylesheet
         /\ Stripped(s, cs, a, c).has_styling
              <=> cs[c].has_styling /\ ~(InSet(s, c) /\ cs[c].stylesheet = NULL)
  <1>1. cs[c] \in Card
    BY DEF Cards
  <1>2. PICK h \in BOOLEAN : h <=> cs[c].has_styling /\ ~(InSet(s, c) /\ cs[c].stylesheet = NULL)
    OBVIOUS
  <1>3. PICK x \in Sheets \cup {NULL} : x = IF c = a.card THEN NULL ELSE cs[c].stylesheet
    BY <1>1 DEF Card
  <1>4. Stripped(s, cs, a, c) = [cs[c] EXCEPT !.has_styling = h, !.stylesheet = x]
    BY <1>2, <1>3 DEF Stripped
  <1> QED BY <1>1, <1>2, <1>3, <1>4 DEF Card

\* and giving the set the style of a card: what has_styling was is kept for
\* undo, and cards that lose their styling keep its data.
LEMMA SetStyleLinks ==
  ASSUME NEW s \in Sets, NEW cs \in Cards, NEW c \in CardIds, cs[c].stylesheet # NULL, NEW b,
         b = [type |-> "SetStyle", card |-> c, stylesheet |-> NULL, has_styling |-> <<>>],
         NEW t, NEW ct, NEW a, Does(s, cs, b, Forth, t, ct, a)
  PROVE  /\ t \in Sets /\ t.cards = s.cards /\ t.pack_types = s.pack_types
         /\ ct \in Cards /\ Linked(s, cs, t, ct, a, a)
         /\ Fits(s, cs) => Fits(t, ct)
  <1> DEFINE H == [i \in 1..Len(s.cards) |-> cs[s.cards[i]].has_styling]
             o == s.stylesheet
             sheet == cs[c].stylesheet
  <1>1. cs[c] \in Card /\ sheet \in Sheets /\ o \in Sheets
    BY DEF Cards, Card, Sets
  <1>2. b.type = "SetStyle" /\ b.card = c
    OBVIOUS
  <1>3. /\ t = [s EXCEPT !.stylesheet = sheet]
        /\ ct = [x \in CardIds |-> Stripped(s, cs, b, x)]
        /\ a = [b EXCEPT !.stylesheet = o, !.has_styling = H]
    <2>1. Perform(s, cs, b, Forth) = SetStyleDone(s, cs, b)
      BY ONLY <1>2, PerformedSetStyleDo
    <2>2. Perform(s, cs, b, Forth) = [set |-> t, card |-> ct, action |-> a]
      BY DEF Does
    <2>3. /\ t = [s EXCEPT !.stylesheet = cs[b.card].stylesheet]
          /\ ct = [x \in CardIds |-> Stripped(s, cs, b, x)]
          /\ a = [b EXCEPT !.stylesheet = s.stylesheet,
                           !.has_styling = [i \in 1..Len(s.cards) |-> cs[s.cards[i]].has_styling]]
      BY <2>1, <2>2 DEF SetStyleDone
    <2> QED BY <1>2, <2>3
  <1> HIDE DEF H
  <1>4. a = [type |-> "SetStyle", card |-> c, stylesheet |-> o, has_styling |-> H]
    BY <1>3
  <1>5. a.type = "SetStyle" /\ a.card = c /\ a.stylesheet = o /\ a.has_styling = H
    BY <1>4
  <1>6. t \in Sets /\ t.cards = s.cards /\ t.pack_types = s.pack_types /\ t.stylesheet = sheet
    BY <1>1, <1>3 DEF Sets
  <1>7. ASSUME NEW x \in CardIds
        PROVE  /\ ct[x] \in Card /\ ct[x].value = cs[x].value
               /\ ct[x].styling_data = cs[x].styling_data
               /\ ct[x].stylesheet = IF x = c THEN NULL ELSE cs[x].stylesheet
               /\ ct[x].has_styling <=> cs[x].has_styling /\ ~(InSet(s, x) /\ cs[x].stylesheet = NULL)
    <2>1. ct[x] = Stripped(s, cs, b, x)
      BY <1>3
    <2> QED BY <1>2, <2>1, StrippedCard
  <1>8. ct \in Cards
    BY <1>3, <1>7 DEF Cards
  <1>9. Perform(t, ct, a, Back) = [set |-> s, card |-> cs, action |-> a]
    <2>1. Perform(t, ct, a, Back) = SetStyleUndone(t, ct, a)
      BY ONLY <1>5, PerformedSetStyleUndo
    <2>2. [t EXCEPT !.stylesheet = a.stylesheet] = s
      BY <1>3, <1>5 DEF Sets
    <2>3. ASSUME NEW x \in CardIds PROVE Restored(t, ct, a, x) = cs[x]
      <3> DEFINE h == cs[x].has_styling
      <3>1. cs[x] \in Card /\ h \in BOOLEAN
        BY DEF Cards, Card
      <3>2. h = IF InSet(t, x) THEN a.has_styling[At(t, x)] ELSE ct[x].has_styling
        <4>1. InSet(t, x) <=> InSet(s, x)
          BY <1>6 DEF InSet
        <4>2. CASE InSet(s, x)
          <5>1. At(t, x) \in 1..Len(s.cards) /\ s.cards[At(t, x)] = x
            BY <1>6, <4>2 DEF InSet, At
          <5>2. H[At(t, x)] = h
            BY <5>1 DEF H
          <5> QED BY <1>5, <4>1, <4>2, <5>2
        <4>3. CASE ~InSet(s, x)
          <5>1. ct[x].has_styling \in BOOLEAN /\ (ct[x].has_styling <=> h)
            BY <1>7, <3>1, <4>3 DEF Card
          <5> QED BY <3>1, <4>1, <4>3, <5>1
        <4> QED BY <4>2, <4>3
      <3> HIDE DEF h
      <3>3. Restored(t, ct, a, x) =
              [ct[x] EXCEPT !.has_styling = h,
                            !.stylesheet = IF x = a.card THEN t.stylesheet ELSE ct[x].stylesheet]
        BY <3>2 DEF Restored
      <3>4. PICK y : y = IF x = a.card THEN t.stylesheet ELSE ct[x].stylesheet
        OBVIOUS
      <3>5. y = cs[x].stylesheet
        BY <1>5, <1>6, <1>7, <3>4
      <3>6. [ct[x] EXCEPT !.has_styling = h, !.stylesheet = y] = cs[x]
        BY <1>7, <3>1, <3>5 DEF Card, h
      <3> QED BY <3>3, <3>4, <3>6
    <2>4. [x \in CardIds |-> Restored(t, ct, a, x)] = cs
      BY <2>3 DEF Cards
    <2> QED BY <2>1, <2>2, <2>4 DEF SetStyleUndone
  <1>10. Perform(s, cs, a, Forth) = [set |-> t, card |-> ct, action |-> a]
    <2>1. Perform(s, cs, a, Forth) = SetStyleDone(s, cs, a)
      BY ONLY <1>5, PerformedSetStyleDo
    <2>2. [s EXCEPT !.stylesheet = cs[a.card].stylesheet] = t
      BY <1>3, <1>5
    <2>3. ASSUME NEW x \in CardIds PROVE Stripped(s, cs, a, x) = ct[x]
      <3>1. Stripped(s, cs, a, x) = Stripped(s, cs, b, x)
        BY <1>2, <1>5 DEF Stripped
      <3> QED BY <1>3, <3>1
    <2>4. [x \in CardIds |-> Stripped(s, cs, a, x)] = ct
      BY <1>8, <2>3 DEF Cards
    <2>5. [i \in 1..Len(s.cards) |-> cs[s.cards[i]].has_styling] = H
      BY DEF H
    <2>6. [a EXCEPT !.stylesheet = o, !.has_styling = H] = a
      <3>1. [a EXCEPT !.stylesheet = o] = a
        BY <1>4
      <3>2. [a EXCEPT !.has_styling = H] = a
        BY <1>4
      <3> QED BY <3>1, <3>2
    <2> QED BY <2>1, <2>2, <2>4, <2>5, <2>6 DEF SetStyleDone
  <1>11. a.type # "AddCard" /\ a.type \in Kinds /\ CardsOf(a) = {c}
    BY <1>5 DEF Kinds, CardsOf
  <1>12. Linked(s, cs, t, ct, a, a)
    BY <1>6, <1>9, <1>10, <1>11 DEF Linked, Does
  <1>13. ASSUME Fits(s, cs) PROVE Fits(t, ct)
    <2>1. ASSUME NEW x \in Range(s.cards), ct[x].has_styling
          PROVE  ct[x].styling_data = StylesheetFor(t, ct[x])
      <3>1. x \in CardIds /\ InSet(s, x)
        BY RangeOfSeq, RangeEquality DEF Sets, InSet
      <3>2. cs[x].has_styling /\ cs[x].stylesheet # NULL
        BY <1>7, <2>1, <3>1
      <3>3. cs[x].styling_data = cs[x].stylesheet
        BY <1>13, <3>2 DEF Fits, FitsFor, StylesheetFor
      <3>4. CASE x = c
        BY <1>6, <1>7, <3>1, <3>3, <3>4 DEF StylesheetFor
      <3>5. CASE x # c
        BY <1>7, <3>1, <3>2, <3>3, <3>5 DEF StylesheetFor
      <3> QED BY <3>4, <3>5
    <2> QED BY <1>6, <2>1 DEF Fits, FitsFor
  <1> QED BY <1>6, <1>8, <1>12, <1>13

\* Any action that leaves the cards alone.
LEMMA FitsSame ==
  ASSUME NEW s, NEW cs, NEW t, Range(t.cards) \subseteq Range(s.cards), t.stylesheet = s.stylesheet,
         Fits(s, cs)
  PROVE  Fits(t, cs)
  BY DEF Fits, FitsFor, StylesheetFor

\* Reordering changes nothing, since its condition is never met in range.
LEMMA ReorderLinks ==
  ASSUME NEW s \in Sets, NEW cs \in Cards, NEW i, NEW j,
         NEW t, NEW ct, NEW a, Does(s, cs, ReorderCardsAction(i, j), Forth, t, ct, a)
  PROVE  t = s /\ ct = cs /\ Linked(s, cs, t, ct, a, a)
  <1> DEFINE b == ReorderCardsAction(i, j)
  <1>1. b.type = "Reorder"
    BY DEF ReorderCardsAction
  <1> HIDE DEF b
  <1>2. Perform(s, cs, b, Forth) = [set |-> s, card |-> cs, action |-> b]
    BY ONLY <1>1, PerformedReorder
  <1>3. Perform(s, cs, b, Back) = [set |-> s, card |-> cs, action |-> b]
    BY ONLY <1>1, PerformedReorder
  <1>4. Perform(s, cs, b, Forth) = [set |-> t, card |-> ct, action |-> a]
    BY DEF Does, b
  <1>5. t = s /\ ct = cs /\ a = b
    BY <1>2, <1>4
  <1>6. b.type # "AddCard" /\ b.type \in Kinds /\ CardsOf(b) = {}
    BY <1>1 DEF Kinds, CardsOf
  <1> QED BY <1>2, <1>3, <1>5, <1>6 DEF Linked, Does

\* Changing a pack type can be undone and redone.
LEMMA ChangePackLinks ==
  ASSUME NEW s \in Sets, NEW cs \in Cards, NEW pos \in 1..Len(s.pack_types), NEW pack \in PackTypes,
         NEW t, NEW ct, NEW a, Does(s, cs, ChangePackAction(pos, pack), Forth, t, ct, a)
  PROVE  /\ t \in Sets /\ t.cards = s.cards /\ t.stylesheet = s.stylesheet
         /\ ct = cs /\ Linked(s, cs, t, ct, a, ChangePackAction(pos, pack))
  <1> DEFINE b == ChangePackAction(pos, pack)
             old == s.pack_types[pos]
             ps == s.pack_types
             qs == [ps EXCEPT ![pos] = pack]
  <1>1. b = [type |-> "ChangePack", pos |-> pos, pack |-> pack]
    BY DEF ChangePackAction
  <1> HIDE DEF b
  <1>2. b.type = "ChangePack" /\ b.pos = pos /\ b.pack = pack
    BY <1>1
  <1>3. t = [s EXCEPT !.pack_types = qs] /\ ct = cs /\ a = [b EXCEPT !.pack = old]
    <2>1. Perform(s, cs, b, Forth) =
           [set |-> [s EXCEPT !.pack_types = [s.pack_types EXCEPT ![b.pos] = b.pack]], card |-> cs,
            action |-> [b EXCEPT !.pack = s.pack_types[b.pos]]]
      BY ONLY <1>2, PerformedChangePack
    <2>2. Perform(s, cs, b, Forth) = [set |-> t, card |-> ct, action |-> a]
      BY DEF Does, b
    <2> QED BY <1>2, <2>1, <2>2
  <1>4. a = [type |-> "ChangePack", pos |-> pos, pack |-> old]
    BY <1>1, <1>3
  <1>5. a.type = "ChangePack" /\ a.pos = pos /\ a.pack = old
    BY <1>4
  <1>6. ps \in Seq(PackTypes) /\ qs \in Seq(PackTypes) /\ qs[pos] = pack /\ [qs EXCEPT ![pos] = old] = ps
    <2>1. ps \in Seq(PackTypes)
      BY DEF Sets
    <2>2. /\ ps \in [1..Len(ps) -> PackTypes] /\ pos \in 1..Len(ps) /\ Len(ps) \in Nat
          /\ old = ps[pos] /\ old \in PackTypes
      BY <2>1
    <2>3. qs \in [1..Len(ps) -> PackTypes] /\ qs[pos] = pack
      BY <2>2
    <2>4. qs \in Seq(PackTypes)
      BY <2>2, <2>3
    <2>5. [qs EXCEPT ![pos] = old] = ps
      BY <2>2
    <2> QED BY <2>1, <2>3, <2>4, <2>5
  <1> HIDE DEF qs
  <1>7. /\ t \in Sets /\ t.cards = s.cards /\ t.stylesheet = s.stylesheet /\ t.pack_types = qs
        /\ [t EXCEPT !.pack_types = ps] = s
    BY <1>3, <1>6 DEF Sets
  <1>8. Perform(t, cs, a, Back) = [set |-> s, card |-> cs, action |-> b]
    <2>1. Perform(t, cs, a, Back) =
           [set |-> [t EXCEPT !.pack_types = [t.pack_types EXCEPT ![a.pos] = a.pack]], card |-> cs,
            action |-> [a EXCEPT !.pack = t.pack_types[a.pos]]]
      BY ONLY <1>5, PerformedChangePack
    <2>2. [a EXCEPT !.pack = pack] = b
      BY <1>1, <1>4
    <2>3. [t.pack_types EXCEPT ![a.pos] = a.pack] = ps
      BY <1>5, <1>6, <1>7
    <2> QED BY <1>5, <1>6, <1>7, <2>1, <2>2, <2>3
  <1>9. a.type # "AddCard" /\ a.type \in Kinds /\ b.type = a.type /\ CardsOf(a) = {} /\ CardsOf(b) = {}
    BY <1>2, <1>5 DEF Kinds, CardsOf
  <1>10. Linked(s, cs, t, ct, a, b)
    BY <1>3, <1>7, <1>8, <1>9 DEF Linked, Does, b
  <1> QED BY <1>3, <1>7, <1>10 DEF b

\* Adding and removing, of cards as of pack types.
Adds(c, a, S) == a.adding = TRUE /\ \E items \in Seq(S) : a.steps = AddSteps(items, c)

\* The action a removes items of c where they are.
Removes(c, a) == a.adding = FALSE /\ StepsIn(c, a.steps)

\* Undoing GenericAdd gives the list back, whichever it does.
LEMMA GenericAddBothWays ==
  ASSUME NEW S, NEW c \in Seq(S), NEW a, Adds(c, a, S) \/ Removes(c, a)
  PROVE  /\ GenericAdd(c, a, Forth) \in Seq(S)
         /\ GenericAdd(GenericAdd(c, a, Forth), a, Back) = c
         /\ Range(GenericAdd(c, a, Forth)) \subseteq Range(c) \cup ItemsOf(a.steps)
         /\ Range(c) \subseteq Range(GenericAdd(c, a, Forth)) \cup ItemsOf(a.steps)
         /\ ItemsOf(a.steps) \subseteq S
         /\ Adds(c, a, S) => ItemsOf(a.steps) \subseteq Range(GenericAdd(c, a, Forth))
         /\ Removes(c, a) => /\ Range(GenericAdd(c, a, Forth)) \subseteq Range(c)
                             /\ ItemsOf(a.steps) \subseteq Range(c)
                             /\ Unique(c) => Unique(GenericAdd(c, a, Forth))
  <1>1. CASE Adds(c, a, S)
    <2>1. PICK items \in Seq(S) : a.steps = AddSteps(items, c)
      BY <1>1 DEF Adds
    <2>2. GenericAdd(c, a, Forth) = InsertSteps(c, a.steps)
      BY <1>1 DEF Adds, GenericAdd, Forth
    <2>3. \A d : GenericAdd(d, a, Back) = EraseSteps(d, a.steps)
      BY <1>1 DEF Adds, GenericAdd, Back
    <2>4. /\ InsertSteps(c, a.steps) \in Seq(S)
          /\ InsertSteps(c, a.steps) = c \o items
          /\ EraseSteps(InsertSteps(c, a.steps), a.steps) = c
      BY ONLY <2>1, Adding
    <2>5. ItemsOf(a.steps) = Range(items)
      <3>1. Len(a.steps) = Len(items) /\ \A i \in 1..Len(items) : a.steps[i].item = items[i]
        BY <2>1 DEF AddSteps
      <3>2. Range(items) = {items[i] : i \in 1..Len(items)}
        BY RangeEquality
      <3> QED BY <3>1, <3>2 DEF ItemsOf
    <2>6. Range(c \o items) = Range(c) \cup Range(items)
      BY RangeConcatenation
    <2>7. Range(items) \subseteq S
      BY RangeOfSeq
    <2>8. ~Removes(c, a)
      BY <1>1 DEF Adds, Removes
    <2> QED BY <2>2, <2>3, <2>4, <2>5, <2>6, <2>7, <2>8
  <1>2. CASE Removes(c, a)
    <2>1. StepsIn(c, a.steps)
      BY <1>2 DEF Removes
    <2>2. GenericAdd(c, a, Forth) = EraseSteps(c, a.steps)
      BY <1>2 DEF Removes, GenericAdd, Forth
    <2>3. \A d : GenericAdd(d, a, Back) = InsertSteps(d, a.steps)
      BY <1>2 DEF Removes, GenericAdd, Back
    <2>4. /\ EraseSteps(c, a.steps) \in Seq(S)
          /\ InsertSteps(EraseSteps(c, a.steps), a.steps) = c
          /\ Same(c, EraseSteps(c, a.steps), ItemsOf(a.steps))
          /\ Unique(c) => Unique(EraseSteps(c, a.steps))
      BY ONLY <2>1, Removing
    <2>5. ItemsOf(a.steps) \subseteq Range(c)
      <3>1. Range(c) = {c[i] : i \in 1..Len(c)}
        BY RangeEquality
      <3> QED BY <2>1, <3>1 DEF ItemsOf, StepsIn
    <2>6. Range(c) \subseteq S
      BY RangeOfSeq
    <2>7. ~Adds(c, a, S)
      BY <1>2 DEF Adds, Removes
    <2> QED BY <2>2, <2>3, <2>4, <2>5, <2>6, <2>7 DEF Same
  <1> QED BY <1>1, <1>2

\* Adding and removing cards can be undone and redone,
LEMMA AddCardLinks ==
  ASSUME NEW s \in Sets, NEW cs \in Cards, NEW b, b.type = "AddCard",
         Adds(s.cards, b, CardIds) \/ Removes(s.cards, b), 1 \in 1..Len(b.steps),
         NEW t, NEW ct, NEW a, Does(s, cs, b, Forth, t, ct, a)
  PROVE  /\ t \in Sets /\ t.stylesheet = s.stylesheet /\ t.pack_types = s.pack_types
         /\ t.cards = GenericAdd(s.cards, b, Forth)
         /\ Range(t.cards) \subseteq Range(s.cards) \cup CardsOf(b)
         /\ Removes(s.cards, b) => /\ Range(t.cards) \subseteq Range(s.cards)
                                   /\ Unique(s.cards) => Unique(t.cards)
         /\ ct = cs /\ a = b /\ Linked(s, cs, t, ct, a, b)
  <1> DEFINE ps == s.cards
             qs == GenericAdd(ps, b, Forth)
  <1>1. t = [s EXCEPT !.cards = qs] /\ ct = cs /\ a = b
    <2>1. Perform(s, cs, b, Forth) =
           [set |-> [s EXCEPT !.cards = GenericAdd(s.cards, b, Forth)], card |-> cs, action |-> b]
      <3>1. b.type = "AddCard"
        OBVIOUS
      <3> QED BY ONLY <3>1, PerformedAddCard
    <2>2. Perform(s, cs, b, Forth) = [set |-> t, card |-> ct, action |-> a]
      BY DEF Does
    <2> QED BY <2>1, <2>2
  <1>2. ps \in Seq(CardIds) /\ (Adds(ps, b, CardIds) \/ Removes(ps, b))
    BY DEF Sets
  <1> HIDE DEF ps
  <1>3. /\ qs \in Seq(CardIds) /\ GenericAdd(qs, b, Back) = ps
        /\ Range(qs) \subseteq Range(ps) \cup ItemsOf(b.steps)
        /\ Range(ps) \subseteq Range(qs) \cup ItemsOf(b.steps)
        /\ ItemsOf(b.steps) \subseteq CardIds
        /\ Adds(ps, b, CardIds) => ItemsOf(b.steps) \subseteq Range(qs)
        /\ Removes(ps, b) => /\ Range(qs) \subseteq Range(ps)
                             /\ ItemsOf(b.steps) \subseteq Range(ps)
                             /\ Unique(ps) => Unique(qs)
    BY ONLY <1>2, GenericAddBothWays
  <1>4. CardsOf(b) = ItemsOf(b.steps)
    BY DEF CardsOf, ItemsOf
  <1> HIDE DEF qs
  <1>5. /\ t \in Sets /\ t.stylesheet = s.stylesheet /\ t.pack_types = s.pack_types /\ t.cards = qs
        /\ [t EXCEPT !.cards = ps] = s
    BY <1>1, <1>3 DEF Sets, ps
  <1>6. Perform(t, ct, a, Back) = [set |-> s, card |-> cs, action |-> b]
    <2>1. b.type = "AddCard"
      OBVIOUS
    <2>2. Perform(t, cs, b, Back) =
           [set |-> [t EXCEPT !.cards = GenericAdd(t.cards, b, Back)], card |-> cs, action |-> b]
      BY ONLY <2>1, PerformedAddCard
    <2> QED BY <1>1, <1>3, <1>5, <2>2
  <1>8. Moves(s, t, b)
    <2>1. b.steps[1].item \in ItemsOf(b.steps)
      BY DEF ItemsOf
    <2>2. b.steps[1].item \in CardIds
      BY <1>3, <2>1
    <2>3. CASE Adds(ps, b, CardIds)
      <3>1. b.adding = TRUE
        BY <2>3 DEF Adds
      <3> QED BY <1>3, <1>5, <2>1, <2>2, <2>3, <3>1 DEF Moves
    <2>4. CASE Removes(ps, b)
      <3>1. b.adding = FALSE
        BY <2>4 DEF Removes
      <3> QED BY <1>3, <2>1, <2>2, <2>4, <3>1 DEF Moves, ps
    <2> QED BY <1>2, <2>3, <2>4
  <1>7. Linked(s, cs, t, ct, a, b)
    BY <1>1, <1>3, <1>4, <1>5, <1>6, <1>8 DEF Linked, Does, Kinds, ps
  <1> QED BY <1>1, <1>3, <1>4, <1>5, <1>7 DEF ps, qs

\* and so can adding and removing pack types.
LEMMA AddPackLinks ==
  ASSUME NEW s \in Sets, NEW cs \in Cards, NEW b, b.type = "AddPack",
         Adds(s.pack_types, b, PackTypes) \/ Removes(s.pack_types, b),
         NEW t, NEW ct, NEW a, Does(s, cs, b, Forth, t, ct, a)
  PROVE  /\ t \in Sets /\ t.stylesheet = s.stylesheet /\ t.cards = s.cards
         /\ ct = cs /\ Linked(s, cs, t, ct, a, b)
  <1> DEFINE ps == s.pack_types
             qs == GenericAdd(ps, b, Forth)
  <1>1. t = [s EXCEPT !.pack_types = qs] /\ ct = cs /\ a = b
    <2>1. Perform(s, cs, b, Forth) =
           [set |-> [s EXCEPT !.pack_types = GenericAdd(s.pack_types, b, Forth)], card |-> cs, action |-> b]
      <3>1. b.type = "AddPack"
        OBVIOUS
      <3> QED BY ONLY <3>1, PerformedAddPack
    <2>2. Perform(s, cs, b, Forth) = [set |-> t, card |-> ct, action |-> a]
      BY DEF Does
    <2> QED BY <2>1, <2>2
  <1>2. ps \in Seq(PackTypes) /\ (Adds(ps, b, PackTypes) \/ Removes(ps, b))
    BY DEF Sets
  <1> HIDE DEF ps
  <1>3. qs \in Seq(PackTypes) /\ GenericAdd(qs, b, Back) = ps
    BY ONLY <1>2, GenericAddBothWays
  <1>4. CardsOf(b) = {} /\ b.type \in Kinds /\ b.type # "AddCard"
    BY DEF CardsOf, Kinds
  <1> HIDE DEF qs
  <1>5. /\ t \in Sets /\ t.stylesheet = s.stylesheet /\ t.cards = s.cards /\ t.pack_types = qs
        /\ [t EXCEPT !.pack_types = ps] = s
    BY <1>1, <1>3 DEF Sets, ps
  <1>6. Perform(t, ct, a, Back) = [set |-> s, card |-> cs, action |-> b]
    <2>1. b.type = "AddPack"
      OBVIOUS
    <2>2. Perform(t, cs, b, Back) =
           [set |-> [t EXCEPT !.pack_types = GenericAdd(t.pack_types, b, Back)], card |-> cs, action |-> b]
      BY ONLY <2>1, PerformedAddPack
    <2> QED BY <1>1, <1>3, <1>5, <2>2
  <1>7. Linked(s, cs, t, ct, a, b)
    BY <1>1, <1>4, <1>5, <1>6 DEF Linked, Does
  <1> QED BY <1>1, <1>5, <1>7

-----------------------------------------------------------------------------
(* Cards that an action does not know of do not matter to it.                *)

\* The cards cs, but those of W as they are in new.
Override(cs, W, new) == [c \in CardIds |-> IF c \in W THEN new[c] ELSE cs[c]]

\* Changing a card outside W commutes with overriding.
LEMMA OverrideExcept ==
  ASSUME NEW cs \in Cards, NEW W, NEW new \in Cards, NEW x \in CardIds \ W, NEW y
  PROVE  /\ [Override(cs, W, new) EXCEPT ![x] = y] = Override([cs EXCEPT ![x] = y], W, new)
         /\ Override(cs, W, new)[x] = cs[x]
  <1> DEFINE f == [Override(cs, W, new) EXCEPT ![x] = y]
             g == Override([cs EXCEPT ![x] = y], W, new)
  <1>1. f = [c \in CardIds |-> IF c = x THEN y ELSE IF c \in W THEN new[c] ELSE cs[c]]
    BY DEF Override
  <1>2. g = [c \in CardIds |-> IF c \in W THEN new[c] ELSE IF c = x THEN y ELSE cs[c]]
    BY DEF Override, Cards
  <1>3. f = g
    BY <1>1, <1>2
  <1> QED BY <1>3 DEF Override

\* So does changing the style of the set, for each of its cards,
LEMMA StrippedOverridden ==
  ASSUME NEW s \in Sets, NEW cs \in Cards, NEW W, NEW new \in Cards, NEW a, a.card \in CardIds \ W,
         W \cap Range(s.cards) = {}, NEW c \in CardIds
  PROVE  Stripped(s, Override(cs, W, new), a, c) = IF c \in W THEN new[c] ELSE Stripped(s, cs, a, c)
  <1> DEFINE os == Override(cs, W, new)
  <1>1. CASE c \notin W
    <2>1. os[c] = cs[c]
      BY <1>1 DEF Override
    <2> HIDE DEF os
    <2>2. Stripped(s, os, a, c) = Stripped(s, cs, a, c)
      BY <2>1 DEF Stripped
    <2> QED BY <1>1, <2>2 DEF os
  <1>2. CASE c \in W
    <2>1. os[c] = new[c] /\ new[c] \in Card
      BY <1>2 DEF Override, Cards
    <2>2. ~InSet(s, c)
      <3>1. Range(s.cards) = {s.cards[i] : i \in 1..Len(s.cards)}
        BY RangeEquality DEF Sets
      <3> QED BY <1>2, <3>1 DEF InSet
    <2>3. c # a.card
      BY <1>2
    <2> HIDE DEF os
    <2>4. PICK h \in BOOLEAN : h = new[c].has_styling
      BY <2>1 DEF Card
    <2>5. (os[c].has_styling /\ ~(InSet(s, c) /\ os[c].stylesheet = NULL)) = h
      BY <2>1, <2>2, <2>4
    <2>6. Stripped(s, os, a, c) = [os[c] EXCEPT !.has_styling = h, !.stylesheet = os[c].stylesheet]
      BY <2>3, <2>5 DEF Stripped
    <2>7. [new[c] EXCEPT !.has_styling = h, !.stylesheet = new[c].stylesheet] = new[c]
      BY <2>1, <2>4 DEF Card
    <2> QED BY <1>2, <2>1, <2>6, <2>7 DEF os
  <1> QED BY <1>1, <1>2

\* and undoing that.
LEMMA RestoredOverridden ==
  ASSUME NEW s \in Sets, NEW cs \in Cards, NEW W, NEW new \in Cards, NEW a, a.card \in CardIds \ W,
         W \cap Range(s.cards) = {}, NEW c \in CardIds
  PROVE  Restored(s, Override(cs, W, new), a, c) = IF c \in W THEN new[c] ELSE Restored(s, cs, a, c)
  <1> DEFINE os == Override(cs, W, new)
  <1>1. CASE c \notin W
    <2>1. os[c] = cs[c]
      BY <1>1 DEF Override
    <2> HIDE DEF os
    <2>2. Restored(s, os, a, c) = Restored(s, cs, a, c)
      BY <2>1 DEF Restored
    <2> QED BY <1>1, <2>2 DEF os
  <1>2. CASE c \in W
    <2>1. os[c] = new[c] /\ new[c] \in Card
      BY <1>2 DEF Override, Cards
    <2>2. ~InSet(s, c)
      <3>1. Range(s.cards) = {s.cards[i] : i \in 1..Len(s.cards)}
        BY RangeEquality DEF Sets
      <3> QED BY <1>2, <3>1 DEF InSet
    <2>3. c # a.card
      BY <1>2
    <2> HIDE DEF os
    <2>4. Restored(s, os, a, c) =
            [os[c] EXCEPT !.has_styling = os[c].has_styling, !.stylesheet = os[c].stylesheet]
      BY <2>2, <2>3 DEF Restored
    <2>5. [new[c] EXCEPT !.has_styling = new[c].has_styling, !.stylesheet = new[c].stylesheet] = new[c]
      BY <2>1 DEF Card
    <2> QED BY <1>2, <2>1, <2>4, <2>5 DEF os
  <1> QED BY <1>1, <1>2

\* Performing an action does not see cards it is not about and the set does not
\* have.
LEMMA PerformOverridden ==
  ASSUME NEW s \in Sets, NEW cs \in Cards, NEW W, NEW new \in Cards, NEW a, NEW u,
         a.type \in Kinds, CardsOf(a) \subseteq CardIds, W \cap CardsOf(a) = {},
         W \cap Range(s.cards) = {}, u = Forth \/ u = Back,
         NEW t, NEW ct, NEW b, Does(s, cs, a, u, t, ct, b)
  PROVE  Does(s, Override(cs, W, new), a, u, t, Override(ct, W, new), b)
  <1> DEFINE os == Override(cs, W, new)
             x == a.card
  <1>1. Perform(s, cs, a, u) = [set |-> t, card |-> ct, action |-> b]
    BY DEF Does
  <1>2. os \in Cards
    BY DEF Override, Cards
  <1>3. ASSUME a.type \in {"Value", "CardStyle", "SetStyle", "HasStyling"}
        PROVE  /\ x \in CardIds \ W /\ os[x] = cs[x] /\ cs[x] \in Card
               /\ \A y : [os EXCEPT ![x] = y] = Override([cs EXCEPT ![x] = y], W, new)
    <2>1. CardsOf(a) = {x}
      BY <1>3 DEF CardsOf
    <2>2. x \in CardIds \ W
      BY <2>1
    <2> HIDE DEF x
    <2>3. ASSUME NEW y PROVE [os EXCEPT ![x] = y] = Override([cs EXCEPT ![x] = y], W, new)
      BY <2>2, OverrideExcept
    <2>4. os[x] = cs[x]
      BY <2>2 DEF Override
    <2> QED BY <2>2, <2>3, <2>4 DEF Cards
  <1>4. CASE a.type = "AddCard"
    <2>1. /\ Perform(s, cs, a, u) = [set |-> [s EXCEPT !.cards = GenericAdd(s.cards, a, u)], card |-> cs, action |-> a]
          /\ Perform(s, os, a, u) = [set |-> [s EXCEPT !.cards = GenericAdd(s.cards, a, u)], card |-> os, action |-> a]
      BY ONLY <1>4, PerformedAddCard
    <2> QED BY <1>1, <2>1 DEF Does
  <1>5. CASE a.type = "Reorder"
    <2>1. /\ Perform(s, cs, a, u) = [set |-> s, card |-> cs, action |-> a]
          /\ Perform(s, os, a, u) = [set |-> s, card |-> os, action |-> a]
      BY ONLY <1>5, PerformedReorder
    <2> QED BY <1>1, <2>1 DEF Does
  <1>6. CASE a.type = "AddPack"
    <2>1. /\ Perform(s, cs, a, u) = [set |-> [s EXCEPT !.pack_types = GenericAdd(s.pack_types, a, u)], card |-> cs, action |-> a]
          /\ Perform(s, os, a, u) = [set |-> [s EXCEPT !.pack_types = GenericAdd(s.pack_types, a, u)], card |-> os, action |-> a]
      BY ONLY <1>6, PerformedAddPack
    <2> QED BY <1>1, <2>1 DEF Does
  <1>7. CASE a.type = "ChangePack"
    <2> DEFINE r == [s EXCEPT !.pack_types = [s.pack_types EXCEPT ![a.pos] = a.pack]]
               d == [a EXCEPT !.pack = s.pack_types[a.pos]]
    <2>1. /\ Perform(s, cs, a, u) = [set |-> r, card |-> cs, action |-> d]
          /\ Perform(s, os, a, u) = [set |-> r, card |-> os, action |-> d]
      BY ONLY <1>7, PerformedChangePack
    <2> HIDE DEF r, d
    <2> QED BY <1>1, <2>1 DEF Does
  <1>8. CASE a.type = "Value"
    <2>1. /\ Perform(s, cs, a, u) =
                [set |-> s, card |-> [cs EXCEPT ![a.card] = [cs[a.card] EXCEPT !.value = a.new_value]],
                 action |-> [a EXCEPT !.new_value = cs[a.card].value]]
          /\ Perform(s, os, a, u) =
                [set |-> s, card |-> [os EXCEPT ![a.card] = [os[a.card] EXCEPT !.value = a.new_value]],
                 action |-> [a EXCEPT !.new_value = os[a.card].value]]
      BY ONLY <1>8, PerformedValue
    <2>2. PICK y, d : y = [cs[x] EXCEPT !.value = a.new_value] /\ d = [a EXCEPT !.new_value = cs[x].value]
      OBVIOUS
    <2>3. /\ Perform(s, cs, a, u) = [set |-> s, card |-> [cs EXCEPT ![x] = y], action |-> d]
          /\ Perform(s, os, a, u) = [set |-> s, card |-> [os EXCEPT ![x] = y], action |-> d]
      BY <1>3, <1>8, <2>1, <2>2
    <2>4. [os EXCEPT ![x] = y] = Override([cs EXCEPT ![x] = y], W, new)
      BY <1>3, <1>8
    <2>9. t = s /\ ct = [cs EXCEPT ![x] = y] /\ b = d
      BY <1>1, <2>3
    <2> HIDE DEF os, x
    <2>10. Perform(s, os, a, u) = [set |-> t, card |-> Override(ct, W, new), action |-> b]
      BY <2>3, <2>4, <2>9
    <2> QED BY <2>10 DEF Does, os
  <1>9. CASE a.type = "CardStyle"
    <2>1. /\ Perform(s, cs, a, u) =
                [set |-> s,
                 card |-> [cs EXCEPT ![a.card] = [cs[a.card] EXCEPT !.stylesheet = a.stylesheet,
                              !.has_styling = a.has_styling, !.styling_data = a.styling_data]],
                 action |-> [a EXCEPT !.stylesheet = cs[a.card].stylesheet,
                              !.has_styling = cs[a.card].has_styling,
                              !.styling_data = cs[a.card].styling_data]]
          /\ Perform(s, os, a, u) =
                [set |-> s,
                 card |-> [os EXCEPT ![a.card] = [os[a.card] EXCEPT !.stylesheet = a.stylesheet,
                              !.has_styling = a.has_styling, !.styling_data = a.styling_data]],
                 action |-> [a EXCEPT !.stylesheet = os[a.card].stylesheet,
                              !.has_styling = os[a.card].has_styling,
                              !.styling_data = os[a.card].styling_data]]
      BY ONLY ZenonT(40), <1>9, PerformedCardStyle
    <2>2. PICK y, d : /\ y = [cs[x] EXCEPT !.stylesheet = a.stylesheet,
                              !.has_styling = a.has_styling, !.styling_data = a.styling_data]
                      /\ d = [a EXCEPT !.stylesheet = cs[x].stylesheet,
                              !.has_styling = cs[x].has_styling,
                              !.styling_data = cs[x].styling_data]
      OBVIOUS
    <2>3. /\ Perform(s, cs, a, u) = [set |-> s, card |-> [cs EXCEPT ![x] = y], action |-> d]
          /\ Perform(s, os, a, u) = [set |-> s, card |-> [os EXCEPT ![x] = y], action |-> d]
      BY <1>3, <1>9, <2>1, <2>2
    <2>4. [os EXCEPT ![x] = y] = Override([cs EXCEPT ![x] = y], W, new)
      BY <1>3, <1>9
    <2>9. t = s /\ ct = [cs EXCEPT ![x] = y] /\ b = d
      BY <1>1, <2>3
    <2> HIDE DEF os, x
    <2>10. Perform(s, os, a, u) = [set |-> t, card |-> Override(ct, W, new), action |-> b]
      BY <2>3, <2>4, <2>9
    <2> QED BY <2>10 DEF Does, os
  <1>10. CASE a.type = "HasStyling"
    <2>1. PICK v : Opposite(cs[x].has_styling, v)
      <3>1. cs[x].has_styling \in BOOLEAN
        BY <1>3, <1>10 DEF Card
      <3>2. Opposite(cs[x].has_styling, ~cs[x].has_styling)
        BY <3>1 DEF Opposite
      <3> QED BY <3>2
    <2>2. os[x] = cs[x]
      BY <1>3, <1>10
    <2>3. Opposite(os[x].has_styling, v)
      BY <2>1, <2>2
    <2>4. Perform(s, cs, a, u) = HasStylingDone(s, cs, a, v)
      BY ONLY <1>10, <2>1, PerformedHasStyling
    <2>5. Perform(s, os, a, u) = HasStylingDone(s, os, a, v)
      BY ONLY <1>10, <2>3, PerformedHasStyling
    <2>6. PICK y, d : y = Restyled(cs[x], v, a.styling_data) /\ d = [a EXCEPT !.styling_data = cs[x].styling_data]
      OBVIOUS
    <2>7. /\ Perform(s, cs, a, u) = [set |-> s, card |-> [cs EXCEPT ![x] = y], action |-> d]
          /\ Perform(s, os, a, u) = [set |-> s, card |-> [os EXCEPT ![x] = y], action |-> d]
      BY <2>2, <2>4, <2>5, <2>6 DEF HasStylingDone
    <2>8. [os EXCEPT ![x] = y] = Override([cs EXCEPT ![x] = y], W, new)
      BY <1>3, <1>10
    <2>9. t = s /\ ct = [cs EXCEPT ![x] = y] /\ b = d
      BY <1>1, <2>7
    <2> HIDE DEF os, x
    <2>10. Perform(s, os, a, u) = [set |-> t, card |-> Override(ct, W, new), action |-> b]
      BY <2>7, <2>8, <2>9
    <2> QED BY <2>10 DEF Does, os
  <1>11. CASE a.type = "SetStyle" /\ u = Forth
    <2>1. Perform(s, cs, a, Forth) = SetStyleDone(s, cs, a) /\ Perform(s, os, a, Forth) = SetStyleDone(s, os, a)
      BY ONLY <1>11, PerformedSetStyleDo
    <2>2. /\ t = [s EXCEPT !.stylesheet = cs[a.card].stylesheet]
          /\ ct = [c \in CardIds |-> Stripped(s, cs, a, c)]
          /\ b = [a EXCEPT !.stylesheet = s.stylesheet,
                           !.has_styling = [i \in 1..Len(s.cards) |-> cs[s.cards[i]].has_styling]]
      BY <1>1, <1>11, <2>1 DEF SetStyleDone
    <2>3. os[x] = cs[x] /\ x \in CardIds \ W
      BY <1>3, <1>11
    <2>4. \A c \in CardIds : Stripped(s, os, a, c) = IF c \in W THEN new[c] ELSE Stripped(s, cs, a, c)
      BY <2>3, StrippedOverridden
    <2>5. \A i \in 1..Len(s.cards) : os[s.cards[i]] = cs[s.cards[i]]
      <3>1. Range(s.cards) = {s.cards[i] : i \in 1..Len(s.cards)} /\ Range(s.cards) \subseteq CardIds
        BY RangeEquality, RangeOfSeq DEF Sets
      <3> QED BY <3>1 DEF Override
    <2> HIDE DEF os, x
    <2>6. [c \in CardIds |-> Stripped(s, os, a, c)] = Override(ct, W, new)
      BY <2>2, <2>4 DEF Override
    <2>7. [i \in 1..Len(s.cards) |-> os[s.cards[i]].has_styling] = [i \in 1..Len(s.cards) |-> cs[s.cards[i]].has_styling]
      BY <2>5
    <2>8. os[a.card] = cs[a.card]
      BY <2>3 DEF x
    <2>9. SetStyleDone(s, os, a) = [set |-> t, card |-> Override(ct, W, new), action |-> b]
      BY <2>2, <2>6, <2>7, <2>8 DEF SetStyleDone
    <2> QED BY <1>11, <2>1, <2>9 DEF Does, os
  <1>12. CASE a.type = "SetStyle" /\ u = Back
    <2>1. Perform(s, cs, a, Back) = SetStyleUndone(s, cs, a) /\ Perform(s, os, a, Back) = SetStyleUndone(s, os, a)
      BY ONLY <1>12, PerformedSetStyleUndo
    <2>2. /\ t = [s EXCEPT !.stylesheet = a.stylesheet]
          /\ ct = [c \in CardIds |-> Restored(s, cs, a, c)]
          /\ b = a
      BY <1>1, <1>12, <2>1 DEF SetStyleUndone
    <2>3. x \in CardIds \ W
      BY <1>3, <1>12
    <2>4. \A c \in CardIds : Restored(s, os, a, c) = IF c \in W THEN new[c] ELSE Restored(s, cs, a, c)
      BY <2>3, RestoredOverridden
    <2> HIDE DEF os, x
    <2>5. [c \in CardIds |-> Restored(s, os, a, c)] = Override(ct, W, new)
      BY <2>2, <2>4 DEF Override
    <2>6. SetStyleUndone(s, os, a) = [set |-> t, card |-> Override(ct, W, new), action |-> b]
      BY <2>2, <2>5 DEF SetStyleUndone
    <2> QED BY <1>12, <2>1, <2>6 DEF Does, os
  <1> QED BY <1>4, <1>5, <1>6, <1>7, <1>8, <1>9, <1>10, <1>11, <1>12 DEF Kinds

\* So what undo and redo do stays true when such a card gets new contents.
LEMMA LinkedOverridden ==
  ASSUME NEW s \in Sets, NEW cs \in Cards, NEW t \in Sets, NEW ct \in Cards, NEW a, NEW b,
         Linked(s, cs, t, ct, a, b),
         NEW W, NEW new \in Cards, W \cap CardsOf(a) = {}, W \cap Range(s.cards) = {}
  PROVE  /\ Linked(s, Override(cs, W, new), t, Override(ct, W, new), a, b)
         /\ W \cap Range(t.cards) = {}
  <1>1. W \cap Range(t.cards) = {}
    BY DEF Linked
  <1>2. /\ a.type \in Kinds /\ b.type \in Kinds /\ CardsOf(a) \subseteq CardIds
        /\ CardsOf(b) = CardsOf(a)
        /\ Does(t, ct, a, Back, s, cs, b) /\ Does(s, cs, b, Forth, t, ct, a)
    BY DEF Linked
  <1>3. Does(t, Override(ct, W, new), a, Back, s, Override(cs, W, new), b)
    BY <1>1, <1>2, PerformOverridden
  <1>4. Does(s, Override(cs, W, new), b, Forth, t, Override(ct, W, new), a)
    BY <1>2, PerformOverridden
  <1> QED BY <1>1, <1>3, <1>4 DEF Linked

-----------------------------------------------------------------------------
(* The sets the stacks lead through.                                         *)

\* x is a sequence, of whatever.
IsSeq(x) == \E S : x \in Seq(S)

\* What Append and SubSeq make of it.
LEMMA SeqParts ==
  ASSUME NEW x, IsSeq(x)
  PROVE  /\ Len(x) \in Nat
         /\ \A e : /\ IsSeq(Append(x, e)) /\ Len(Append(x, e)) = Len(x) + 1
                   /\ Append(x, e)[Len(x) + 1] = e
                   /\ \A i \in 1..Len(x) : Append(x, e)[i] = x[i]
         /\ \A n \in 0..Len(x) : /\ IsSeq(SubSeq(x, 1, n)) /\ Len(SubSeq(x, 1, n)) = n
                                 /\ \A i \in 1..n : SubSeq(x, 1, n)[i] = x[i]
  <1>1. PICK S : x \in Seq(S)
    BY DEF IsSeq
  <1>2. Len(x) \in Nat
    BY <1>1
  <1>3. ASSUME NEW e
        PROVE  /\ IsSeq(Append(x, e)) /\ Len(Append(x, e)) = Len(x) + 1
               /\ Append(x, e)[Len(x) + 1] = e
               /\ \A i \in 1..Len(x) : Append(x, e)[i] = x[i]
    <2>1. x \in Seq(S \cup {e}) /\ e \in S \cup {e}
      BY <1>1
    <2> DEFINE T == S \cup {e}
    <2> HIDE DEF T
    <2>2. x \in Seq(T) /\ e \in T
      BY <2>1 DEF T
    <2>3. /\ Append(x, e) \in Seq(T) /\ Len(Append(x, e)) = Len(x) + 1
          /\ Append(x, e)[Len(x) + 1] = e
          /\ \A i \in 1..Len(x) : Append(x, e)[i] = x[i]
      BY <2>2, AppendProperties
    <2> QED BY <2>3 DEF IsSeq
  <1>4. ASSUME NEW n \in 0..Len(x)
        PROVE  /\ IsSeq(SubSeq(x, 1, n)) /\ Len(SubSeq(x, 1, n)) = n
               /\ \A i \in 1..n : SubSeq(x, 1, n)[i] = x[i]
    <2> DEFINE f == SubSeq(x, 1, n)
    <2>1. \A i \in 1..n : x[i] \in S /\ 1 + i - 1 = i
      BY <1>1, <1>2
    <2>2. /\ f \in Seq(S) /\ Len(f) = IF 1 <= n THEN n - 1 + 1 ELSE 0
          /\ \A i \in 1..n - 1 + 1 : f[i] = x[1 + i - 1]
      BY <1>1, <1>2, <2>1, SubSeqProperties
    <2>3. n - 1 + 1 = n /\ (n = 0 \/ 1 <= n)
      BY <1>2
    <2> HIDE DEF f
    <2>4. f \in Seq(S) /\ Len(f) = n /\ \A i \in 1..n : f[i] = x[i]
      BY <2>1, <2>2, <2>3
    <2> QED BY <2>4 DEF IsSeq, f
  <1> QED BY <1>2, <1>3, <1>4

\* What is kept of every set in the history.
Good(s, cs) == Fits(s, cs) /\ Unique(s.cards)

\* The sets with their cards; what Linked says of two of them.
Docs == [set : Sets, card : Cards]
LinkedDocs(d, e, a, b) == Linked(d.set, d.card, e.set, e.card, a, b)

\* D[1], D[2], ... are the sets the user had; un leads back from where he is,
\* re forth.
History(D, s, cs, un, re, hi) ==
  /\ IsSeq(un) /\ IsSeq(re) /\ IsSeq(hi)
  /\ Len(hi) = Len(un) + Len(re) + 1
  /\ D \in [1..Len(un) + Len(re) + 1 -> Docs]
  /\ s = D[Len(un) + 1].set /\ cs = D[Len(un) + 1].card
  /\ \A i \in 1..Len(un) + Len(re) + 1 :
       hi[i] = Document(D[i].set, D[i].card) /\ Good(D[i].set, D[i].card)
  /\ \A i \in 1..Len(un) : \E b : LinkedDocs(D[i], D[i + 1], un[i], b)
  /\ \A j \in 1..Len(re) :
       \E a : LinkedDocs(D[Len(un) + 1 + Len(re) - j], D[Len(un) + 2 + Len(re) - j], a, re[j])

\* The set the user has is one of the history.
LEMMA HistoryNow ==
  ASSUME NEW D, NEW s, NEW cs, NEW un, NEW re, NEW hi, History(D, s, cs, un, re, hi)
  PROVE  /\ s \in Sets /\ cs \in Cards /\ Good(s, cs) /\ Document(s, cs) = hi[Len(un) + 1]
  <1>1. Len(un) \in Nat /\ Len(re) \in Nat
    BY SeqParts DEF History
  <1>2. Len(un) + 1 \in 1..Len(un) + Len(re) + 1
    BY <1>1
  <1>3. D[Len(un) + 1] \in Docs /\ s = D[Len(un) + 1].set /\ cs = D[Len(un) + 1].card
    BY <1>2 DEF History
  <1>4. s \in Sets /\ cs \in Cards
    BY <1>3 DEF Docs
  <1>5. hi[Len(un) + 1] = Document(s, cs) /\ Good(s, cs)
    BY <1>2, <1>3 DEF History
  <1> QED BY <1>4, <1>5

\* After undo the same history is there, one set further back,
LEMMA HistoryUndone ==
  ASSUME NEW D, NEW s, NEW cs, NEW un, NEW re, NEW hi, History(D, s, cs, un, re, hi),
         un # <<>>, NEW t, NEW ct, NEW b, Does(s, cs, Last(un), Back, t, ct, b)
  PROVE  History(D, t, ct, Front(un), Append(re, b), hi)
  <1> DEFINE N == Len(un)
             M == Len(re)
             fr == Front(un)
             ap == Append(re, b)
  <1>1. N \in Nat /\ M \in Nat /\ N # 0 /\ N \in 1..N /\ N - 1 \in 0..N
    BY SeqParts DEF History, IsSeq
  <1>2. IsSeq(fr) /\ Len(fr) = N - 1 /\ \A i \in 1..N - 1 : fr[i] = un[i]
    BY <1>1, SeqParts DEF History, Front
  <1>3. IsSeq(ap) /\ Len(ap) = M + 1 /\ ap[M + 1] = b /\ \A i \in 1..M : ap[i] = re[i]
    BY SeqParts DEF History
  <1>4. Last(un) = un[N]
    BY DEF Last
  <1>5. PICK b1 : LinkedDocs(D[N], D[N + 1], un[N], b1)
    BY <1>1 DEF History
  <1>6. t = D[N].set /\ ct = D[N].card /\ b1 = b
    <2>1. Perform(s, cs, un[N], Back) = [set |-> D[N].set, card |-> D[N].card, action |-> b1]
      BY <1>5 DEF LinkedDocs, Linked, Does, History
    <2>2. Perform(s, cs, un[N], Back) = [set |-> t, card |-> ct, action |-> b]
      BY <1>4 DEF Does
    <2> QED BY <2>1, <2>2
  <1> HIDE DEF fr, ap
  <1>7. Len(fr) + 1 = N /\ Len(fr) + Len(ap) + 1 = N + M + 1
    BY <1>1, <1>2, <1>3
  <1>8. ASSUME NEW i \in 1..Len(fr) PROVE \E c : LinkedDocs(D[i], D[i + 1], fr[i], c)
    <2>1. i \in 1..N /\ fr[i] = un[i]
      BY <1>1, <1>2
    <2> QED BY <2>1 DEF History
  <1>9. ASSUME NEW j \in 1..Len(ap)
        PROVE  \E a : LinkedDocs(D[Len(fr) + 1 + Len(ap) - j], D[Len(fr) + 2 + Len(ap) - j], a, ap[j])
    <2>1. CASE j = M + 1
      <3>1. Len(fr) + 1 + Len(ap) - j = N /\ Len(fr) + 2 + Len(ap) - j = N + 1
        BY <1>1, <1>2, <1>3, <2>1
      <3> QED BY <1>3, <1>5, <1>6, <2>1, <3>1
    <2>2. CASE j # M + 1
      <3>1. /\ j \in 1..M /\ Len(fr) + 1 + Len(ap) - j = N + 1 + M - j
            /\ Len(fr) + 2 + Len(ap) - j = N + 2 + M - j
        <4>1. Len(fr) = N - 1 /\ Len(ap) = M + 1 /\ N \in Nat /\ M \in Nat
          BY <1>1, <1>2, <1>3
        <4> HIDE DEF N, M
        <4> QED BY <2>2, <4>1
      <3>2. ap[j] = re[j]
        BY <1>3, <3>1
      <3> QED BY <3>1, <3>2 DEF History
    <2> QED BY <2>1, <2>2
  <1>10. History(D, t, ct, fr, ap, hi)
    <2>1. /\ IsSeq(hi) /\ Len(hi) = N + M + 1 /\ D \in [1..N + M + 1 -> Docs]
          /\ \A i \in 1..N + M + 1 : hi[i] = Document(D[i].set, D[i].card) /\ Good(D[i].set, D[i].card)
      BY DEF History
    <2> QED BY <1>2, <1>3, <1>6, <1>7, <1>8, <1>9, <2>1 DEF History
  <1> QED BY <1>10 DEF fr, ap

\* and after redo one further forth.
LEMMA HistoryRedone ==
  ASSUME NEW D, NEW s, NEW cs, NEW un, NEW re, NEW hi, History(D, s, cs, un, re, hi),
         re # <<>>, NEW t, NEW ct, NEW b, Does(s, cs, Last(re), Forth, t, ct, b)
  PROVE  History(D, t, ct, Append(un, b), Front(re), hi)
  <1> DEFINE N == Len(un)
             M == Len(re)
             fr == Front(re)
             ap == Append(un, b)
  <1>1. N \in Nat /\ M \in Nat /\ M # 0 /\ M \in 1..M /\ M - 1 \in 0..M
    BY SeqParts DEF History, IsSeq
  <1>2. IsSeq(fr) /\ Len(fr) = M - 1 /\ \A i \in 1..M - 1 : fr[i] = re[i]
    BY <1>1, SeqParts DEF History, Front
  <1>3. IsSeq(ap) /\ Len(ap) = N + 1 /\ ap[N + 1] = b /\ \A i \in 1..N : ap[i] = un[i]
    BY SeqParts DEF History
  <1>4. Last(re) = re[M]
    BY DEF Last
  <1>5. PICK b1 : LinkedDocs(D[N + 1], D[N + 2], b1, re[M])
    <2>1. N + 1 + M - M = N + 1 /\ N + 2 + M - M = N + 2
      BY <1>1
    <2> QED BY <1>1, <2>1 DEF History
  <1>6. t = D[N + 2].set /\ ct = D[N + 2].card /\ b1 = b
    <2>1. Perform(s, cs, re[M], Forth) = [set |-> D[N + 2].set, card |-> D[N + 2].card, action |-> b1]
      BY <1>5 DEF LinkedDocs, Linked, Does, History
    <2>2. Perform(s, cs, re[M], Forth) = [set |-> t, card |-> ct, action |-> b]
      BY <1>4 DEF Does
    <2> QED BY <2>1, <2>2
  <1> HIDE DEF fr, ap
  <1>7. Len(ap) + 1 = N + 2 /\ Len(ap) + Len(fr) + 1 = N + M + 1
    BY <1>1, <1>2, <1>3
  <1>8. ASSUME NEW i \in 1..Len(ap) PROVE \E c : LinkedDocs(D[i], D[i + 1], ap[i], c)
    <2>1. CASE i = N + 1
      <3>1. i + 1 = N + 2
        BY <1>1, <2>1
      <3> QED BY <1>3, <1>5, <1>6, <2>1, <3>1
    <2>2. CASE i # N + 1
      <3>1. i \in 1..N /\ ap[i] = un[i]
        BY <1>1, <1>3, <2>2
      <3> QED BY <3>1 DEF History
    <2> QED BY <2>1, <2>2
  <1>9. ASSUME NEW j \in 1..Len(fr)
        PROVE  \E a : LinkedDocs(D[Len(ap) + 1 + Len(fr) - j], D[Len(ap) + 2 + Len(fr) - j], a, fr[j])
    <2>1. /\ j \in 1..M /\ fr[j] = re[j] /\ Len(ap) + 1 + Len(fr) - j = N + 1 + M - j
          /\ Len(ap) + 2 + Len(fr) - j = N + 2 + M - j
      <3>1. Len(ap) = N + 1 /\ Len(fr) = M - 1 /\ N \in Nat /\ M \in Nat
        BY <1>1, <1>2, <1>3
      <3>2. j \in 1..M - 1
        BY <1>2
      <3>3. j \in 1..M /\ fr[j] = re[j]
        BY <1>1, <1>2, <3>2
      <3> HIDE DEF N, M
      <3> QED BY <3>1, <3>2, <3>3
    <2> QED BY <2>1 DEF History
  <1>10. History(D, t, ct, ap, fr, hi)
    <2>1. /\ IsSeq(hi) /\ Len(hi) = N + M + 1 /\ D \in [1..N + M + 1 -> Docs]
          /\ \A i \in 1..N + M + 1 : hi[i] = Document(D[i].set, D[i].card) /\ Good(D[i].set, D[i].card)
      BY DEF History
    <2> QED BY <1>2, <1>3, <1>6, <1>7, <1>8, <1>9, <2>1 DEF History
  <1> QED BY <1>10 DEF fr, ap

\* Cards that neither the set nor an action knows of are in no set of the history.
LEMMA NeverShown ==
  ASSUME NEW D, NEW s, NEW cs, NEW un, NEW re, NEW hi, History(D, s, cs, un, re, hi),
         NEW W, W \cap Range(s.cards) = {}, \A i \in 1..Len(un) : W \cap CardsOf(un[i]) = {}
  PROVE  \A i \in 1..Len(un) + 1 : W \cap Range(D[i].set.cards) = {}
  <1> DEFINE N == Len(un)
             T == {k \in 0..N : W \cap Range(D[N + 1 - k].set.cards) = {}}
  <1>1. N \in Nat
    BY SeqParts DEF History
  <1>2. 0 \in T
    <2>1. N + 1 - 0 = N + 1 /\ 0 \in 0..N
      BY <1>1
    <2> QED BY <2>1 DEF History
  <1>3. ASSUME NEW k \in 0..N - 1, k \in T PROVE k + 1 \in T
    <2>1. N - k \in 1..N /\ N + 1 - k = (N - k) + 1 /\ N + 1 - (k + 1) = N - k /\ k + 1 \in 0..N
      BY <1>1
    <2>2. PICK b : LinkedDocs(D[N - k], D[(N - k) + 1], un[N - k], b)
      BY <2>1 DEF History
    <2>3. Range(D[N - k].set.cards) \subseteq Range(D[(N - k) + 1].set.cards) \cup CardsOf(un[N - k])
      BY <2>2 DEF LinkedDocs, Linked
    <2>4. W \cap Range(D[(N - k) + 1].set.cards) = {}
      BY <1>3, <2>1
    <2>5. W \cap CardsOf(un[N - k]) = {}
      BY <2>1
    <2>6. W \cap Range(D[N - k].set.cards) = {}
      BY <2>3, <2>4, <2>5
    <2> QED BY <2>1, <2>6
  <1>4. 0..N \subseteq T
    <2> HIDE DEF T
    <2> QED BY <1>1, <1>2, <1>3, UpTo
  <1>5. ASSUME NEW i \in 1..N + 1 PROVE W \cap Range(D[i].set.cards) = {}
    <2>1. N + 1 - i \in 0..N /\ N + 1 - (N + 1 - i) = i
      BY <1>1
    <2>2. N + 1 - i \in T
      BY <1>4, <2>1
    <2> QED BY <2>1, <2>2
  <1> QED BY <1>5

\* A new action, after cards W were made that nothing knew of.
LEMMA HistoryMore ==
  ASSUME NEW D, NEW s, NEW cs, NEW un, NEW re, NEW hi, History(D, s, cs, un, re, hi),
         NEW W, W \cap Range(s.cards) = {}, \A i \in 1..Len(un) : W \cap CardsOf(un[i]) = {},
         NEW new \in Cards,
         NEW t \in Sets, NEW ct \in Cards, NEW a, NEW b,
         Linked(s, Override(cs, W, new), t, ct, a, b), Good(t, ct)
  PROVE  \E E : History(E, t, ct, Append(un, a), <<>>,
                        Append(SubSeq(hi, 1, Len(un) + 1), Document(t, ct)))
  <1> DEFINE N == Len(un)
             M == Len(re)
             old == SubSeq(hi, 1, N + 1)
             h2 == Append(old, Document(t, ct))
             u2 == Append(un, a)
             Od(i) == [set |-> D[i].set, card |-> Override(D[i].card, W, new)]
             E == [i \in 1..N + 2 |-> IF i <= N + 1 THEN Od(i) ELSE [set |-> t, card |-> ct]]
  <1>1. N \in Nat /\ M \in Nat /\ N + 1 \in 0..Len(hi)
    BY SeqParts DEF History
  <1>2. IsSeq(u2) /\ Len(u2) = N + 1 /\ u2[N + 1] = a /\ \A i \in 1..N : u2[i] = un[i]
    BY SeqParts DEF History
  <1>3. IsSeq(old) /\ Len(old) = N + 1 /\ \A i \in 1..N + 1 : old[i] = hi[i]
    BY <1>1, SeqParts DEF History
  <1> HIDE DEF old, u2
  <1>4. /\ IsSeq(h2) /\ Len(h2) = N + 2 /\ h2[N + 2] = Document(t, ct)
        /\ \A i \in 1..N + 1 : h2[i] = hi[i]
    <2>1. /\ IsSeq(h2) /\ Len(h2) = Len(old) + 1 /\ h2[Len(old) + 1] = Document(t, ct)
          /\ \A i \in 1..Len(old) : h2[i] = old[i]
      BY <1>3, SeqParts
    <2>2. Len(old) + 1 = N + 2
      BY <1>1, <1>3
    <2> QED BY <1>3, <2>1, <2>2
  <1> HIDE DEF h2
  <1>5. ASSUME NEW i \in 1..N + 1
        PROVE  /\ i \in 1..N + M + 1 /\ D[i] \in Docs /\ D[i].set \in Sets /\ D[i].card \in Cards
               /\ W \cap Range(D[i].set.cards) = {}
               /\ Override(D[i].card, W, new) \in Cards
    <2>1. i \in 1..N + M + 1
      BY <1>1
    <2>2. D[i] \in Docs /\ D[i].set \in Sets /\ D[i].card \in Cards
      BY <2>1 DEF History, Docs
    <2>3. Override(D[i].card, W, new) \in Cards
      BY <2>2 DEF Override, Cards
    <2>4. W \cap Range(D[i].set.cards) = {}
      BY NeverShown
    <2> QED BY <2>1, <2>2, <2>3, <2>4
  <1>6. ASSUME NEW i \in 1..N + 1
        PROVE  /\ E[i].set = D[i].set /\ E[i].card = Override(D[i].card, W, new)
               /\ E[i] \in Docs
    <2>1. i \in 1..N + 2 /\ i <= N + 1
      BY <1>1
    <2>2. E[i] = Od(i)
      BY <2>1
    <2> HIDE DEF E
    <2> QED BY <1>5, <2>2 DEF Docs
  <1>7. E[N + 2] = [set |-> t, card |-> ct] /\ E[N + 2] \in Docs
    BY <1>1 DEF Docs
  <1>8. E \in [1..N + 2 -> Docs]
    <2>1. \A i \in 1..N + 2 : i \in 1..N + 1 \/ i = N + 2
      BY <1>1
    <2> HIDE DEF Od
    <2>2. \A i \in 1..N + 2 : E[i] \in Docs
      BY <1>6, <1>7, <2>1
    <2> QED BY <2>2
  <1> HIDE DEF E
  <1>9. ASSUME NEW i \in 1..N + 2
        PROVE  h2[i] = Document(E[i].set, E[i].card) /\ Good(E[i].set, E[i].card)
    <2>1. CASE i = N + 2
      BY <1>4, <1>7, <2>1
    <2>2. CASE i # N + 2
      <3>1. i \in 1..N + 1
        BY <1>1, <2>2
      <3> DEFINE ds == D[i].set
                 dc == D[i].card
                 oc == Override(dc, W, new)
      <3>2. h2[i] = Document(ds, dc) /\ Good(ds, dc)
        <4>1. h2[i] = hi[i]
          BY <1>4, <3>1
        <4>2. hi[i] = Document(D[i].set, D[i].card) /\ Good(D[i].set, D[i].card)
          BY <1>5, <3>1 DEF History
        <4> QED BY <4>1, <4>2
      <3>3. E[i].set = ds /\ E[i].card = oc
        BY <1>6, <3>1
      <3>4. ds \in Sets /\ W \cap Range(ds.cards) = {}
        BY <1>5, <3>1
      <3> HIDE DEF ds, dc
      <3>5. \A c \in Range(ds.cards) : oc[c] = dc[c]
        <4>1. Range(ds.cards) \subseteq CardIds
          BY <3>4, RangeOfSeq DEF Sets
        <4> QED BY <3>4, <4>1 DEF Override
      <3>6. \A k \in 1..Len(ds.cards) : ds.cards[k] \in Range(ds.cards)
        BY <3>4, RangeEquality DEF Sets
      <3> HIDE DEF oc
      <3>7. Document(ds, oc) = Document(ds, dc)
        BY <3>5, <3>6 DEF Document
      <3>8. Good(ds, oc)
        BY <3>2, <3>5 DEF Good, Fits
      <3> QED BY <3>2, <3>3, <3>7, <3>8
    <2> QED BY <2>1, <2>2
  <1>10. ASSUME NEW i \in 1..N + 1 PROVE \E c : LinkedDocs(E[i], E[i + 1], u2[i], c)
    <2>1. CASE i = N + 1
      <3>1. E[i].set = s /\ E[i].card = Override(cs, W, new)
        BY <1>6, <2>1 DEF History
      <3>2. E[i + 1].set = t /\ E[i + 1].card = ct
        <4>1. i + 1 = N + 2
          BY <1>1, <2>1
        <4> QED BY <1>7, <4>1
      <3>3. u2[i] = a
        BY <1>2, <2>1
      <3> QED BY <3>1, <3>2, <3>3 DEF LinkedDocs
    <2>2. CASE i # N + 1
      <3>1. i \in 1..N /\ i + 1 \in 1..N + 1
        BY <1>1, <2>2
      <3>2. PICK c : LinkedDocs(D[i], D[i + 1], un[i], c)
        BY <3>1 DEF History
      <3>3. /\ D[i].set \in Sets /\ D[i].card \in Cards /\ W \cap Range(D[i].set.cards) = {}
            /\ D[i + 1].set \in Sets /\ D[i + 1].card \in Cards
        BY <1>5, <3>1
      <3>4. W \cap CardsOf(un[i]) = {}
        BY <3>1
      <3>5. Linked(D[i].set, Override(D[i].card, W, new),
                   D[i + 1].set, Override(D[i + 1].card, W, new), un[i], c)
        <4>1. Linked(D[i].set, D[i].card, D[i + 1].set, D[i + 1].card, un[i], c)
          BY <3>2 DEF LinkedDocs
        <4> QED BY <3>3, <3>4, <4>1, LinkedOverridden
      <3>6. /\ E[i].set = D[i].set /\ E[i].card = Override(D[i].card, W, new)
            /\ E[i + 1].set = D[i + 1].set /\ E[i + 1].card = Override(D[i + 1].card, W, new)
        BY <1>6, <3>1
      <3>7. u2[i] = un[i]
        BY <1>2, <3>1
      <3> QED BY <3>5, <3>6, <3>7 DEF LinkedDocs
    <2> QED BY <2>1, <2>2
  <1>11. History(E, t, ct, u2, <<>>, h2)
    <2>1. IsSeq(<<>>) /\ Len(<<>>) = 0
      BY DEF IsSeq
    <2>2. Len(u2) = N + 1 /\ Len(u2) + 1 = N + 2 /\ Len(u2) + 0 + 1 = N + 2
      BY <1>1, <1>2
    <2>3. E[N + 2].set = t /\ E[N + 2].card = ct
      BY <1>7
    <2>4. \A j : ~(j \in 1..0)
      OBVIOUS
    <2> QED BY <1>2, <1>4, <1>8, <1>9, <1>10, <2>1, <2>2, <2>3, <2>4 DEF History
  <1> QED BY <1>11 DEF h2, u2, old

\* What an action leaves alone: the list of cards, all the cards, their values.
Keeps(s, cs, a, t, ct) ==
  /\ a.type # "AddCard" => t.cards = s.cards
  /\ a.type = "AddCard" => ct = cs
  /\ a.type # "Value" => \A c \in CardIds : ct[c].value = cs[c].value

\* What a list of the cards has to be told of.
LEMMA StepKeeps ==
  ASSUME NEW s \in Sets, NEW cs \in Cards, NEW a, NEW u, a.type \in Kinds,
         CardsOf(a) \subseteq CardIds, u = Forth \/ u = Back,
         NEW t, NEW ct, NEW b, Does(s, cs, a, u, t, ct, b)
  PROVE  Keeps(s, cs, a, t, ct)
  <1> USE DEF Keeps
  <1> DEFINE x == a.card
  <1>1. Perform(s, cs, a, u) = [set |-> t, card |-> ct, action |-> b]
    BY DEF Does
  <1>2. \A c \in CardIds : cs[c] \in Card
    BY DEF Cards
  <1>3. ASSUME a.type \in {"Value", "CardStyle", "SetStyle", "HasStyling"} PROVE x \in CardIds
    BY <1>3 DEF CardsOf
  <1>4. CASE a.type = "AddCard"
    <2>1. Perform(s, cs, a, u) = [set |-> [s EXCEPT !.cards = GenericAdd(s.cards, a, u)], card |-> cs, action |-> a]
      BY ONLY <1>4, PerformedAddCard
    <2> QED BY <1>1, <1>4, <2>1
  <1>5. CASE a.type = "Reorder"
    <2>1. Perform(s, cs, a, u) = [set |-> s, card |-> cs, action |-> a]
      BY ONLY <1>5, PerformedReorder
    <2> QED BY <1>1, <1>5, <2>1
  <1>6. CASE a.type = "AddPack"
    <2>1. Perform(s, cs, a, u) = [set |-> [s EXCEPT !.pack_types = GenericAdd(s.pack_types, a, u)], card |-> cs, action |-> a]
      BY ONLY <1>6, PerformedAddPack
    <2> QED BY <1>1, <1>6, <2>1 DEF Sets
  <1>7. CASE a.type = "ChangePack"
    <2> DEFINE r == [s EXCEPT !.pack_types = [s.pack_types EXCEPT ![a.pos] = a.pack]]
               d == [a EXCEPT !.pack = s.pack_types[a.pos]]
    <2>1. Perform(s, cs, a, u) = [set |-> r, card |-> cs, action |-> d]
      BY ONLY <1>7, PerformedChangePack
    <2>2. r.cards = s.cards
      BY DEF Sets
    <2> HIDE DEF r, d
    <2> QED BY <1>1, <1>7, <2>1, <2>2
  <1>8. CASE a.type = "Value"
    <2>1. Perform(s, cs, a, u) =
                [set |-> s, card |-> [cs EXCEPT ![a.card] = [cs[a.card] EXCEPT !.value = a.new_value]],
                 action |-> [a EXCEPT !.new_value = cs[a.card].value]]
      BY ONLY <1>8, PerformedValue
    <2>2. PICK y, d : y = [cs EXCEPT ![a.card] = [cs[a.card] EXCEPT !.value = a.new_value]]
                      /\ d = [a EXCEPT !.new_value = cs[a.card].value]
      OBVIOUS
    <2>3. s = t
      BY <1>1, <2>1, <2>2
    <2> QED BY <1>8, <2>3
  <1>9. CASE a.type = "CardStyle"
    <2>1. Perform(s, cs, a, u) =
                [set |-> s,
                 card |-> [cs EXCEPT ![a.card] = [cs[a.card] EXCEPT !.stylesheet = a.stylesheet,
                              !.has_styling = a.has_styling, !.styling_data = a.styling_data]],
                 action |-> [a EXCEPT !.stylesheet = cs[a.card].stylesheet,
                              !.has_styling = cs[a.card].has_styling,
                              !.styling_data = cs[a.card].styling_data]]
      BY ONLY <1>9, PerformedCardStyle
    <2>2. PICK y, d : /\ y = [cs[x] EXCEPT !.stylesheet = a.stylesheet,
                              !.has_styling = a.has_styling, !.styling_data = a.styling_data]
                      /\ d = [a EXCEPT !.stylesheet = cs[x].stylesheet,
                              !.has_styling = cs[x].has_styling,
                              !.styling_data = cs[x].styling_data]
      OBVIOUS
    <2>3. t = s /\ ct = [cs EXCEPT ![x] = y]
      BY <1>1, <2>1, <2>2
    <2>4. y.value = cs[x].value
      BY <1>2, <1>3, <1>9, <2>2 DEF Card
    <2> HIDE DEF x
    <2>5. \A c \in CardIds : ct[c].value = cs[c].value
      BY <2>3, <2>4 DEF Cards
    <2> QED BY <1>9, <2>3, <2>5
  <1>10. CASE a.type = "HasStyling"
    <2>1. PICK v : Opposite(cs[x].has_styling, v)
      <3>1. cs[x].has_styling \in BOOLEAN
        BY <1>2, <1>3, <1>10 DEF Card
      <3>2. Opposite(cs[x].has_styling, ~cs[x].has_styling)
        BY <3>1 DEF Opposite
      <3> QED BY <3>2
    <2>2. Perform(s, cs, a, u) = HasStylingDone(s, cs, a, v)
      BY ONLY <1>10, <2>1, PerformedHasStyling
    <2>3. t = s /\ ct = [cs EXCEPT ![x] = Restyled(cs[x], v, a.styling_data)]
      BY <1>1, <2>2 DEF HasStylingDone
    <2>4. Restyled(cs[x], v, a.styling_data).value = cs[x].value
      BY <1>2, <1>3, <1>10 DEF Card, Restyled
    <2> HIDE DEF x
    <2>5. \A c \in CardIds : ct[c].value = cs[c].value
      BY <2>3, <2>4 DEF Cards
    <2> QED BY <1>10, <2>3, <2>5
  <1>11. CASE a.type = "SetStyle" /\ u = Forth
    <2>1. Perform(s, cs, a, Forth) = SetStyleDone(s, cs, a)
      BY ONLY <1>11, PerformedSetStyleDo
    <2>2. /\ t = [s EXCEPT !.stylesheet = cs[a.card].stylesheet]
          /\ ct = [c \in CardIds |-> Stripped(s, cs, a, c)]
      BY <1>1, <1>11, <2>1 DEF SetStyleDone
    <2>3. \A c \in CardIds : ct[c].value = cs[c].value
      BY <2>2, StrippedCard
    <2> QED BY <1>11, <2>2, <2>3 DEF Sets
  <1>12. CASE a.type = "SetStyle" /\ u = Back
    <2>1. Perform(s, cs, a, Back) = SetStyleUndone(s, cs, a)
      BY ONLY <1>12, PerformedSetStyleUndo
    <2>2. /\ t = [s EXCEPT !.stylesheet = a.stylesheet]
          /\ ct = [c \in CardIds |-> Restored(s, cs, a, c)]
      BY <1>1, <1>12, <2>1 DEF SetStyleUndone
    <2>3. ASSUME NEW c \in CardIds PROVE Restored(s, cs, a, c).value = cs[c].value
      <3>1. PICK h, y : Restored(s, cs, a, c) = [cs[c] EXCEPT !.has_styling = h, !.stylesheet = y]
        BY DEF Restored
      <3> QED BY <1>2, <3>1 DEF Card
    <2> QED BY <1>12, <2>2, <2>3 DEF Sets
  <1> QED BY <1>4, <1>5, <1>6, <1>7, <1>8, <1>9, <1>10, <1>11, <1>12 DEF Kinds

-----------------------------------------------------------------------------
(* Positions in a list.                                                     *)

\* A set of numbers that is not empty has a smallest one.
LEMMA LeastNumber ==
  ASSUME NEW S, S \subseteq Nat, S # {}
  PROVE  Min(S) \in S
  <1>1. PICK x \in S : \A y \in S : ~(<<y, x>> \in OpToRel(<, Nat))
    BY NatLessThanWellFounded, WFMin
  <1>2. \A y \in S : ~(y < x)
    BY <1>1 DEF OpToRel
  <1>3. \A y \in S : x <= y
    BY <1>2
  <1> QED BY <1>3 DEF Min

\* PositionOf finds a row with the item, 0 when there is none.
LEMMA PositionFound ==
  ASSUME NEW S, NEW s \in Seq(S), NEW x
  PROVE  /\ PositionOf(s, x) \in 0..Len(s)
         /\ PositionOf(s, x) # 0 => s[PositionOf(s, x)] = x
         /\ PositionOf(s, x) = 0 => \A i \in 1..Len(s) : s[i] # x
  <1> DEFINE I == {i \in 1..Len(s) : s[i] = x}
  <1>1. PositionOf(s, x) = IF I # {} THEN Min(I) ELSE 0
    BY DEF PositionOf, SelectInSeq
  <1>2. Len(s) \in Nat
    OBVIOUS
  <1>3. ASSUME I # {} PROVE Min(I) \in I
    <2>1. I \subseteq Nat
      OBVIOUS
    <2> HIDE DEF I
    <2> QED BY <1>3, <2>1, LeastNumber
  <1>4. CASE I = {}
    BY <1>1, <1>2, <1>4
  <1>5. CASE I # {}
    BY <1>1, <1>2, <1>3, <1>5
  <1> QED BY <1>4, <1>5

\* In a list that shows every card once, a row is the position of its card.
LEMMA PositionUnique ==
  ASSUME NEW S, NEW s \in Seq(S), Unique(s), NEW i \in 1..Len(s)
  PROVE  PositionOf(s, s[i]) = i
  <1>1. /\ PositionOf(s, s[i]) \in 0..Len(s)
        /\ PositionOf(s, s[i]) # 0 => s[PositionOf(s, s[i])] = s[i]
        /\ PositionOf(s, s[i]) = 0 => \A j \in 1..Len(s) : s[j] # s[i]
    BY PositionFound
  <1> QED BY <1>1 DEF Unique

\* The cards of s that the filter f lets through.
Shown(s, cs, f) == {c \in Range(s.cards) : f = NULL \/ cs[c].value = f}

\* getItems gives each of them once.
LEMMA ItemsShown ==
  ASSUME NEW s \in Sets, NEW cs, NEW f, Unique(s.cards)
  PROVE  /\ getItems(s, cs, f) \in Seq(CardIds)
         /\ Unique(getItems(s, cs, f))
         /\ Range(getItems(s, cs, f)) = Shown(s, cs, f)
  <1> DEFINE ps == s.cards
             K == {p \in 1..Len(ps) : f = NULL \/ cs[ps[p]].value = f}
             t == getItems(s, cs, f)
  <1>1. t = Only(ps, K) /\ K \in SUBSET (1..Len(ps)) /\ ps \in Seq(CardIds)
    BY DEF getItems, Sets
  <1>2. /\ t \in Seq(CardIds)
        /\ \A n \in 1..Len(t) : Place(K, n) \in K /\ t[n] = ps[Place(K, n)]
        /\ \A i \in K : \E n \in 1..Len(t) : Place(K, n) = i
        /\ \A m, n \in 1..Len(t) : Place(K, m) = Place(K, n) => m = n
    <2> HIDE DEF K, t, ps
    <2> QED BY <1>1, OnlyProperties
  <1>3. Unique(t)
    <2> SUFFICES ASSUME NEW m \in 1..Len(t), NEW n \in 1..Len(t), t[m] = t[n] PROVE m = n
      BY DEF Unique
    <2>1. Place(K, m) \in 1..Len(ps) /\ Place(K, n) \in 1..Len(ps)
          /\ ps[Place(K, m)] = ps[Place(K, n)]
      BY <1>2
    <2>2. Place(K, m) = Place(K, n)
      <3> HIDE DEF K, t
      <3> QED BY <2>1 DEF Unique
    <2> QED BY <1>2, <2>2
  <1>4. Range(t) = {t[i] : i \in 1..Len(t)} /\ Range(ps) = {ps[i] : i \in 1..Len(ps)}
    <2> HIDE DEF K, t
    <2> QED BY <1>1, <1>2 DEF Range
  <1>5. ASSUME NEW c \in Range(t) PROVE c \in Shown(s, cs, f)
    <2>1. PICK n \in 1..Len(t) : c = t[n]
      BY <1>4
    <2>2. Place(K, n) \in K /\ c = ps[Place(K, n)]
      BY <1>2, <2>1
    <2> HIDE DEF t
    <2> QED BY <1>4, <2>2 DEF Shown
  <1>6. ASSUME NEW c \in Shown(s, cs, f) PROVE c \in Range(t)
    <2>1. PICK p \in 1..Len(ps) : c = ps[p]
      BY <1>4 DEF Shown
    <2>2. p \in K
      BY <2>1 DEF Shown
    <2>3. PICK n \in 1..Len(t) : Place(K, n) = p
      BY <1>2, <2>2
    <2> HIDE DEF t, K
    <2> QED BY <1>2, <1>4, <2>1, <2>3
  <1> HIDE DEF t
  <1> QED BY <1>2, <1>3, <1>5, <1>6 DEF t

-----------------------------------------------------------------------------
(* Sorting.                                                                 *)

\* The sort orders there are.
Sorts == [by_column : BOOLEAN, ascending : BOOLEAN]

\* Precedes is a strict total order of the rows.
LEMMA PrecedesOrders ==
  ASSUME NEW items \in Seq(CardIds), NEW cs \in Cards, NEW so,
         NEW p \in 1..Len(items), NEW q \in 1..Len(items)
  PROVE  /\ ~Precedes(items, cs, so, p, p)
         /\ p # q => Precedes(items, cs, so, p, q) \/ Precedes(items, cs, so, q, p)
         /\ \A r \in 1..Len(items) :
              Precedes(items, cs, so, r, p) /\ Precedes(items, cs, so, p, q)
                => Precedes(items, cs, so, r, q)
  <1> DEFINE v(i) == cs[items[i]].value
  <1>1. \A i \in 1..Len(items) : v(i) \in Int /\ i \in Int
    <2> SUFFICES ASSUME NEW i \in 1..Len(items) PROVE v(i) \in Int /\ i \in Int
      OBVIOUS
    <2>1. items[i] \in CardIds
      BY ElementOfSeq
    <2>2. cs[items[i]] \in Card
      BY <2>1 DEF Cards
    <2>3. cs[items[i]].value \in Values
      BY <2>2 DEF Card
    <2>4. Values \subseteq Int
      BY ValuesAssumption DEF ValuesAssumption
    <2>5. Len(items) \in Nat
      OBVIOUS
    <2>6. i \in Int
      BY <2>5
    <2>7. PICK w \in Values : w = v(i)
      BY <2>3
    <2>8. w \in Int
      BY <2>4, <2>7
    <2> QED BY <2>6, <2>7, <2>8
  <1>2. \A i, j \in 1..Len(items) :
          Precedes(items, cs, so, i, j) <=>
            IF v(i) = v(j) THEN i < j ELSE IF so.ascending THEN v(i) < v(j) ELSE v(j) < v(i)
    BY DEF Precedes
  <1> HIDE DEF v
  <1>3. CASE so.ascending
    BY <1>1, <1>2, <1>3
  <1>4. CASE ~so.ascending
    BY <1>1, <1>2, <1>4
  <1> QED BY <1>3, <1>4

\* Every row has a place of its own in the sorted list, and every place a row.
LEMMA SortedPlaces ==
  ASSUME NEW items \in Seq(CardIds), NEW cs \in Cards, NEW so, NEW k \in 1..Len(items)
  PROVE  /\ \A p \in 1..Len(items) : SortedPlace(items, cs, so, p) \in 1..Len(items)
         /\ \E p \in 1..Len(items) : SortedPlace(items, cs, so, p) = k
         /\ \A p, q \in 1..Len(items) :
              SortedPlace(items, cs, so, p) = SortedPlace(items, cs, so, q) => p = q
  <1> DEFINE n == Len(items)
             T == 1..n
             P(p, q) == Precedes(items, cs, so, p, q)
             B(p) == {q \in T : P(q, p)}
             f == [p \in T |-> SortedPlace(items, cs, so, p)]
  <1>0. n \in Nat
    OBVIOUS
  <1>1. IsFiniteSet(T) /\ Cardinality(T) = n
    BY <1>0, FS_Interval
  <1>2. \A p \in T : SortedPlace(items, cs, so, p) = Cardinality(B(p)) + 1
    BY DEF SortedPlace
  <1>3. /\ \A p \in T : ~P(p, p)
        /\ \A p, q \in T : p # q => P(p, q) \/ P(q, p)
        /\ \A p, q, r \in T : P(r, p) /\ P(p, q) => P(r, q)
    BY PrecedesOrders
  <1> HIDE DEF P, T, n
  <1>4. ASSUME NEW p \in T PROVE Cardinality(B(p)) \in Nat /\ Cardinality(B(p)) < n
    <2>1. B(p) \in SUBSET T /\ B(p) # T
      BY <1>3
    <2>2. /\ IsFiniteSet(B(p)) /\ Cardinality(B(p)) <= Cardinality(T)
          /\ Cardinality(B(p)) = Cardinality(T) => B(p) = T
      BY <1>1, <2>1, FS_Subset
    <2> QED BY <1>0, <1>1, <2>1, <2>2, FS_CardinalityType
  <1>5. ASSUME NEW p \in T, NEW q \in T, P(p, q) PROVE Cardinality(B(p)) < Cardinality(B(q))
    <2>1. B(p) \in SUBSET B(q) /\ B(p) # B(q)
      BY <1>3, <1>5
    <2>2. IsFiniteSet(B(q))
      BY <1>1, FS_Subset
    <2>3. Cardinality(B(p)) <= Cardinality(B(q)) /\ Cardinality(B(p)) # Cardinality(B(q))
      BY <2>1, <2>2, FS_Subset
    <2> QED BY <1>4, <2>3
  <1> HIDE DEF B
  <1>6. \A p \in T : SortedPlace(items, cs, so, p) \in T
    <2> SUFFICES ASSUME NEW p \in T PROVE SortedPlace(items, cs, so, p) \in T
      OBVIOUS
    <2>1. PICK m : m = Cardinality(B(p))
      OBVIOUS
    <2>2. m \in Nat /\ m < n /\ SortedPlace(items, cs, so, p) = m + 1
      BY <1>2, <1>4, <2>1
    <2>3. m + 1 \in 1..n
      BY <1>0, <2>2
    <2> QED BY <2>2, <2>3 DEF T
  <1>7. ASSUME NEW p \in T, NEW q \in T, SortedPlace(items, cs, so, p) = SortedPlace(items, cs, so, q)
        PROVE  p = q
    <2>1. Cardinality(B(p)) \in Nat /\ Cardinality(B(q)) \in Nat
      BY <1>4
    <2>2. Cardinality(B(p)) = Cardinality(B(q))
      BY <1>2, <1>7, <2>1
    <2>3. ASSUME P(p, q) PROVE FALSE
      <3>1. Cardinality(B(p)) < Cardinality(B(q))
        BY <1>5, <2>3
      <3> QED BY <2>1, <2>2, <3>1
    <2>4. ASSUME P(q, p) PROVE FALSE
      <3>1. Cardinality(B(q)) < Cardinality(B(p))
        BY <1>5, <2>4
      <3> QED BY <2>1, <2>2, <3>1
    <2> QED BY <1>3, <2>3, <2>4
  <1>8. f \in Injection(T, T)
    <2>1. f \in [T -> T] /\ \A p \in T : f[p] = SortedPlace(items, cs, so, p)
      BY <1>6
    <2>2. \A p, q \in T : f[p] = f[q] => p = q
      BY <1>7, <2>1
    <2> QED BY <2>1, <2>2 DEF Injection, IsInjective
  <1>9. f \in Surjection(T, T)
    BY <1>1, <1>8, FS_Injection
  <1>10. \E p \in T : SortedPlace(items, cs, so, p) = k
    BY <1>9 DEF Surjection, T, n
  <1> QED BY <1>6, <1>7, <1>10 DEF T, n

\* Sorting keeps every card, once.
LEMMA SortedSame ==
  ASSUME NEW items \in Seq(CardIds), Unique(items), NEW cs \in Cards, NEW so
  PROVE  /\ Sorted(items, cs, so) \in Seq(CardIds)
         /\ Unique(Sorted(items, cs, so))
         /\ Range(Sorted(items, cs, so)) = Range(items)
  <1> DEFINE n == Len(items)
             SP(p) == SortedPlace(items, cs, so, p)
             R(k) == CHOOSE p \in 1..n : SP(p) = k
             t == [k \in 1..n |-> items[R(k)]]
  <1>1. CASE ~so.by_column
    BY <1>1 DEF Sorted
  <1>2. CASE so.by_column
    <2>1. Sorted(items, cs, so) = t
      BY <1>2 DEF Sorted
    <2>2. n \in Nat /\ \A p \in 1..n : items[p] \in CardIds
      BY ElementOfSeq
    <2>3. \A k \in 1..n : R(k) \in 1..n /\ SP(R(k)) = k
      <3> SUFFICES ASSUME NEW k \in 1..n PROVE R(k) \in 1..n /\ SP(R(k)) = k
        OBVIOUS
      <3>1. \E p \in 1..n : SP(p) = k
        BY SortedPlaces
      <3> HIDE DEF SP
      <3> QED BY <3>1
    <2>4. \A p \in 1..n : SP(p) \in 1..n /\ R(SP(p)) = p
      <3> SUFFICES ASSUME NEW p \in 1..n PROVE SP(p) \in 1..n /\ R(SP(p)) = p
        OBVIOUS
      <3>1. /\ SP(p) \in 1..n
            /\ \A q \in 1..n : SP(p) = SP(q) => p = q
        BY SortedPlaces
      <3> HIDE DEF SP, R
      <3> QED BY <2>3, <3>1
    <2> HIDE DEF SP, R, n
    <2>5. t \in Seq(CardIds) /\ Len(t) = n /\ \A k \in 1..n : t[k] = items[R(k)]
      BY <2>2, <2>3
    <2> HIDE DEF t
    <2>6. Unique(t)
      <3> SUFFICES ASSUME NEW i \in 1..n, NEW j \in 1..n, t[i] = t[j] PROVE i = j
        BY <2>5 DEF Unique
      <3>1. R(i) = R(j)
        BY <2>3, <2>5 DEF Unique, n
      <3> QED BY <2>3, <3>1
    <2>7. Range(t) = {t[i] : i \in 1..n} /\ Range(items) = {items[i] : i \in 1..n}
      BY <2>5 DEF Range, n
    <2>8. Range(t) = Range(items)
      <3>1. ASSUME NEW c \in Range(t) PROVE c \in Range(items)
        BY <2>3, <2>5, <2>7
      <3>2. ASSUME NEW c \in Range(items) PROVE c \in Range(t)
        <4>1. PICK p \in 1..n : c = items[p]
          BY <2>7
        <4> QED BY <2>4, <2>5, <2>7, <4>1
      <3> QED BY <3>1, <3>2
    <2> QED BY <2>1, <2>5, <2>6, <2>8
  <1> QED BY <1>1, <1>2

\* The rows of the list after a refresh.
LEMMA ItemsSorted ==
  ASSUME NEW s \in Sets, NEW cs \in Cards, NEW f, NEW so, Unique(s.cards)
  PROVE  /\ Sorted(getItems(s, cs, f), cs, so) \in Seq(CardIds)
         /\ Unique(Sorted(getItems(s, cs, f), cs, so))
         /\ Range(Sorted(getItems(s, cs, f), cs, so)) = Shown(s, cs, f)
  <1>1. /\ getItems(s, cs, f) \in Seq(CardIds)
        /\ Unique(getItems(s, cs, f))
        /\ Range(getItems(s, cs, f)) = Shown(s, cs, f)
    BY ItemsShown
  <1> QED BY <1>1, SortedSame

-----------------------------------------------------------------------------
(* ItemList, from one state to the next.                                    *)

\* The states a list can be in; its position is that of the selected item; its
\* rows are different cards, and the rows it has selected are rows it has.
Lists == [sorted_list : Seq(CardIds), selected_item : CardIds \cup {NULL},
          selected_item_pos : Nat, focused : SUBSET Nat]
Placed(l) == l.selected_item_pos = PositionOf(l.sorted_list, l.selected_item)
Rows(l) == Unique(l.sorted_list) /\ l.focused \subseteq 1..Len(l.sorted_list)
\* From l to m the rows stay; m has the item selected.
SameRows(l, m) == m.sorted_list = l.sorted_list
Selects(m, item) == m.selected_item = item

\* focusNone leaves no row selected, and nothing else changes.
LEMMA FocusedNone ==
  ASSUME NEW l \in Lists
  PROVE  /\ focusNone(l) \in Lists /\ SameRows(l, focusNone(l))
         /\ Selects(focusNone(l), l.selected_item)
         /\ focusNone(l).selected_item_pos = l.selected_item_pos
         /\ focusNone(l).focused = {}
         /\ Unique(l.sorted_list) => Rows(focusNone(l))
         /\ Placed(l) => Placed(focusNone(l))
  <1>1. focusNone(l) = [l EXCEPT !.focused = {}]
    BY DEF focusNone
  <1> QED BY <1>1 DEF Lists, Placed, Rows, SameRows, Selects

\* findSelectedItemPos makes the position that of the selected item.
LEMMA FoundPos ==
  ASSUME NEW l \in Lists
  PROVE  /\ findSelectedItemPos(l) \in Lists /\ Placed(findSelectedItemPos(l))
         /\ SameRows(l, findSelectedItemPos(l))
         /\ Selects(findSelectedItemPos(l), l.selected_item)
         /\ findSelectedItemPos(l).focused = l.focused
         /\ Rows(l) => Rows(findSelectedItemPos(l))
         /\ Placed(l) => findSelectedItemPos(l) = l
  <1> DEFINE k == PositionOf(l.sorted_list, l.selected_item)
             m == [l EXCEPT !.selected_item_pos = k]
  <1>1. findSelectedItemPos(l) = m
    BY DEF findSelectedItemPos
  <1>2. l.sorted_list \in Seq(CardIds)
    BY DEF Lists
  <1>3. k \in 0..Len(l.sorted_list) /\ Len(l.sorted_list) \in Nat
    BY <1>2, PositionFound
  <1>4. k \in Nat
    BY <1>3
  <1> HIDE DEF k
  <1>5. /\ m \in Lists /\ m.sorted_list = l.sorted_list /\ m.selected_item = l.selected_item
        /\ m.focused = l.focused /\ m.selected_item_pos = k
        /\ l.selected_item_pos = k => m = l
    BY <1>4 DEF Lists
  <1> HIDE DEF m
  <1> QED BY <1>1, <1>5 DEF k, Placed, Rows, SameRows, Selects

\* focusSelectedItem selects the row of the selected item, or one row less.
LEMMA FocusedSelected ==
  ASSUME NEW l \in Lists, Placed(l), Rows(l)
  PROVE  /\ focusSelectedItem(l) \in Lists /\ SameRows(l, focusSelectedItem(l))
         /\ Selects(focusSelectedItem(l), l.selected_item)
         /\ Placed(focusSelectedItem(l)) /\ Rows(focusSelectedItem(l))
  <1>1. PICK F : /\ focusSelectedItem(l) = [l EXCEPT !.focused = F]
                 /\ F \in SUBSET Nat /\ F \subseteq 1..Len(l.sorted_list)
    <2>1. CASE l.sorted_list = <<>>
      <3>1. l = [l EXCEPT !.focused = l.focused]
        BY DEF Lists
      <3>2. l.focused \in SUBSET Nat /\ l.focused \subseteq 1..Len(l.sorted_list)
        BY DEF Lists, Rows
      <3> QED BY <2>1, <3>1, <3>2 DEF focusSelectedItem
    <2>2. CASE l.sorted_list # <<>> /\ l.selected_item_pos = NONE
      <3>1. focusSelectedItem(l)
            = [l EXCEPT !.focused = {p \in l.focused : \E q \in l.focused : q < p}]
        BY <2>2 DEF focusSelectedItem
      <3> QED BY <3>1 DEF Lists, Rows
    <2>3. CASE l.sorted_list # <<>> /\ l.selected_item_pos # NONE
      <3>1. focusSelectedItem(l) = [l EXCEPT !.focused = l.focused \cup {l.selected_item_pos}]
        BY <2>3 DEF focusSelectedItem
      <3>2. l.selected_item_pos \in 0..Len(l.sorted_list) /\ l.selected_item_pos \in Nat
        BY PositionFound DEF Lists, Placed
      <3>3. l.selected_item_pos \in 1..Len(l.sorted_list)
        BY <2>3, <3>2 DEF NONE
      <3>4. l.focused \in SUBSET Nat /\ l.focused \subseteq 1..Len(l.sorted_list)
        BY DEF Lists, Rows
      <3> QED BY <3>1, <3>2, <3>3, <3>4
    <2> QED BY <2>1, <2>2, <2>3
  <1> QED BY <1>1 DEF Lists, Placed, Rows, SameRows, Selects

\* selectItem selects the item and leaves the rows of the list alone.
LEMMA SelectedItem ==
  ASSUME NEW l \in Lists, Rows(l), NEW item \in CardIds \cup {NULL}, NEW focus
  PROVE  /\ selectItem(l, item, focus) \in Lists /\ SameRows(l, selectItem(l, item, focus))
         /\ Selects(selectItem(l, item, focus), item)
         /\ Placed(selectItem(l, item, focus)) /\ Rows(selectItem(l, item, focus))
  <1>1. PICK u : u = IF item # l.selected_item /\ focus THEN focusNone(l) ELSE l
    OBVIOUS
  <1>2. u \in Lists /\ SameRows(l, u) /\ Rows(u)
    BY <1>1, FocusedNone DEF Rows, SameRows
  <1>3. PICK v : v = [u EXCEPT !.selected_item = item]
    OBVIOUS
  <1>4. v \in Lists /\ SameRows(l, v) /\ Rows(v) /\ Selects(v, item)
    BY <1>2, <1>3 DEF Lists, Rows, SameRows, Selects
  <1>5. PICK w : w = findSelectedItemPos(v)
    OBVIOUS
  <1>6. w \in Lists /\ SameRows(l, w) /\ Rows(w) /\ Selects(w, item) /\ Placed(w)
    BY <1>4, <1>5, FoundPos DEF SameRows, Selects
  <1>7. selectItem(l, item, focus) = IF focus THEN focusSelectedItem(w) ELSE w
    BY <1>1, <1>3, <1>5 DEF selectItem
  <1>8. /\ focusSelectedItem(w) \in Lists /\ SameRows(w, focusSelectedItem(w))
        /\ Selects(focusSelectedItem(w), w.selected_item)
        /\ Placed(focusSelectedItem(w)) /\ Rows(focusSelectedItem(w))
    BY <1>6, FocusedSelected
  <1>9. SameRows(l, focusSelectedItem(w)) /\ Selects(focusSelectedItem(w), item)
    BY <1>6, <1>8 DEF SameRows, Selects
  <1> QED BY <1>6, <1>7, <1>8, <1>9

\* So does the event that selecting sends.
LEMMA SelectedItemEvent ==
  ASSUME NEW l \in Lists, Rows(l), NEW item \in CardIds \cup {NULL}
  PROVE  /\ selectItemEvent(l, item) \in Lists /\ SameRows(l, selectItemEvent(l, item))
         /\ Selects(selectItemEvent(l, item), item)
         /\ Placed(selectItemEvent(l, item)) /\ Rows(selectItemEvent(l, item))
  <1>1. PICK u : u = [l EXCEPT !.selected_item = item]
    OBVIOUS
  <1>2. u \in Lists /\ SameRows(l, u) /\ Rows(u)
    BY <1>1 DEF Lists, Rows, SameRows
  <1>3. PICK v : v = selectItem(u, item, TRUE)
    OBVIOUS
  <1>4. PICK T, F : T = TRUE /\ F = FALSE
    OBVIOUS
  <1>5. v = selectItem(u, item, T) /\ selectItemEvent(l, item) = selectItem(v, item, F)
    BY <1>1, <1>3, <1>4 DEF selectItemEvent
  <1>6. v \in Lists /\ SameRows(u, v) /\ Rows(v)
    BY <1>2, <1>5, SelectedItem
  <1>7. /\ selectItem(v, item, F) \in Lists /\ SameRows(v, selectItem(v, item, F))
        /\ Selects(selectItem(v, item, F), item)
        /\ Placed(selectItem(v, item, F)) /\ Rows(selectItem(v, item, F))
    BY <1>6, SelectedItem
  <1>8. SameRows(l, selectItem(v, item, F))
    BY <1>2, <1>6, <1>7 DEF SameRows
  <1> QED BY <1>5, <1>7, <1>8

\* selectItemPos selects a card of the list, if there is one.
LEMMA SelectedPos ==
  ASSUME NEW l \in Lists, Rows(l), Placed(l), NEW pos, NEW focus
  PROVE  /\ selectItemPos(l, pos, focus) \in Lists /\ SameRows(l, selectItemPos(l, pos, focus))
         /\ \/ selectItemPos(l, pos, focus).selected_item \in Range(l.sorted_list)
            \/ l.sorted_list = <<>> /\ Selects(selectItemPos(l, pos, focus), NULL)
         /\ Placed(selectItemPos(l, pos, focus)) /\ Rows(selectItemPos(l, pos, focus))
  <1>1. PICK item : item = IF InRange(l.sorted_list, pos) THEN l.sorted_list[pos]
                           ELSE IF l.sorted_list # <<>> THEN Last(l.sorted_list) ELSE NoItem
    OBVIOUS
  <1>2. \/ item \in Range(l.sorted_list) /\ item \in CardIds
        \/ l.sorted_list = <<>> /\ item = NULL
    <2>1. l.sorted_list \in Seq(CardIds)
      BY DEF Lists
    <2>2. \A i \in 1..Len(l.sorted_list) : l.sorted_list[i] \in Range(l.sorted_list)
                                           /\ l.sorted_list[i] \in CardIds
      BY <2>1, RangeOfSeq, ElementOfSeq DEF Range
    <2>3. CASE InRange(l.sorted_list, pos)
      BY <1>1, <2>2, <2>3 DEF InRange
    <2>4. CASE ~InRange(l.sorted_list, pos) /\ l.sorted_list # <<>>
      <3>1. Len(l.sorted_list) \in 1..Len(l.sorted_list)
        BY <2>1, <2>4
      <3> QED BY <1>1, <2>2, <2>4, <3>1 DEF Last
    <2>5. CASE ~InRange(l.sorted_list, pos) /\ l.sorted_list = <<>>
      BY <1>1, <2>5 DEF NoItem
    <2> QED BY <2>3, <2>4, <2>5
  <1>3. PICK m : m = IF item # l.selected_item THEN selectItemEvent(l, item) ELSE l
    OBVIOUS
  <1>4. m \in Lists /\ SameRows(l, m) /\ Selects(m, item) /\ Placed(m) /\ Rows(m)
    <2>1. CASE item # l.selected_item
      BY <1>2, <1>3, <2>1, SelectedItemEvent
    <2>2. CASE item = l.selected_item
      BY <1>3, <2>2 DEF SameRows, Selects
    <2> QED BY <2>1, <2>2
  <1>5. selectItemPos(l, pos, focus) = IF focus THEN focusSelectedItem(m) ELSE m
    BY <1>1, <1>3 DEF selectItemPos
  <1>6. /\ focusSelectedItem(m) \in Lists /\ SameRows(m, focusSelectedItem(m))
        /\ Selects(focusSelectedItem(m), m.selected_item)
        /\ Placed(focusSelectedItem(m)) /\ Rows(focusSelectedItem(m))
    BY <1>4, FocusedSelected
  <1>7. SameRows(l, focusSelectedItem(m)) /\ Selects(focusSelectedItem(m), item)
    BY <1>4, <1>6 DEF SameRows, Selects
  <1>8. PICK r : r = selectItemPos(l, pos, focus)
    OBVIOUS
  <1>9. r \in Lists /\ SameRows(l, r) /\ Selects(r, item) /\ Placed(r) /\ Rows(r)
    BY <1>4, <1>5, <1>6, <1>7, <1>8
  <1> QED BY <1>2, <1>8, <1>9 DEF Selects

\* After a refresh the list shows the cards the filter lets through, with the
\* item selected that was.
LEMMA Refreshed ==
  ASSUME NEW l \in Lists, NEW s \in Sets, NEW cs \in Cards, Unique(s.cards), NEW so, NEW f, NEW cur,
         cur => Placed(l) /\ Rows(l)
  PROVE  /\ refreshList(l, s, cs, so, f, cur) \in Lists
         /\ Range(refreshList(l, s, cs, so, f, cur).sorted_list) = Shown(s, cs, f)
         /\ Selects(refreshList(l, s, cs, so, f, cur), l.selected_item)
         /\ Placed(refreshList(l, s, cs, so, f, cur)) /\ Rows(refreshList(l, s, cs, so, f, cur))
  <1>1. PICK items : items = Sorted(getItems(s, cs, f), cs, so)
    OBVIOUS
  <1>2. items \in Seq(CardIds) /\ Unique(items) /\ Range(items) = Shown(s, cs, f)
    BY <1>1, ItemsSorted
  <1>3. PICK u : u = [l EXCEPT !.sorted_list = items]
    OBVIOUS
  <1>4. u \in Lists /\ Selects(u, l.selected_item) /\ u.sorted_list = items
    BY <1>2, <1>3 DEF Lists, Selects
  <1>5. PICK v : v = findSelectedItemPos(u)
    OBVIOUS
  <1>6. v \in Lists /\ Placed(v) /\ Selects(v, l.selected_item) /\ v.sorted_list = items
    BY <1>4, <1>5, FoundPos DEF SameRows, Selects
  <1>7. PICK w : w = focusNone(v)
    OBVIOUS
  <1>8. w \in Lists /\ Placed(w) /\ Selects(w, l.selected_item) /\ w.sorted_list = items /\ Rows(w)
    BY <1>2, <1>6, <1>7, FocusedNone DEF SameRows, Selects
  <1>9. PICK x : x = focusSelectedItem(w)
    OBVIOUS
  <1>10. x \in Lists /\ Placed(x) /\ Selects(x, l.selected_item) /\ x.sorted_list = items /\ Rows(x)
    BY <1>8, <1>9, FocusedSelected DEF SameRows, Selects
  <1>11. refreshList(l, s, cs, so, f, cur) = IF cur /\ items = l.sorted_list THEN l ELSE x
    BY <1>1, <1>3, <1>5, <1>7, <1>9 DEF refreshList
  <1>12. CASE cur /\ items = l.sorted_list
    BY <1>2, <1>11, <1>12 DEF Selects
  <1>13. CASE ~(cur /\ items = l.sorted_list)
    BY <1>2, <1>10, <1>11, <1>13
  <1> QED BY <1>12, <1>13

-----------------------------------------------------------------------------
(* What the list shows after an action.                                     *)

\* What the list l shows of the set s with the filter f, and has selected.
View(l, s, cs, f) ==
  /\ l \in Lists /\ Placed(l) /\ Rows(l)
  /\ Range(l.sorted_list) = Shown(s, cs, f)
  /\ l.selected_item # NULL => l.selected_item \in Range(s.cards)

\* If l has a card selected and m shows one, m has one selected.
StillSelected(l, m) ==
  l.selected_item # NULL /\ m.sorted_list # <<>> => m.selected_item # NULL

\* A list only shows cards.
LEMMA NotNull ==
  ASSUME NEW l \in Lists, NEW c \in Range(l.sorted_list)
  PROVE  c \in CardIds /\ c # NULL
  <1>1. c \in CardIds
    BY RangeOfSeq DEF Lists, Range
  <1> QED BY <1>1, NullAssumption

\* A refresh shows what there is to show; a selected item that the set still
\* has stays selected.
LEMMA RefreshedView ==
  ASSUME NEW l \in Lists, NEW s \in Sets, NEW cs \in Cards, Unique(s.cards), NEW so, NEW f,
         NEW cur, cur => Placed(l) /\ Rows(l),
         l.selected_item # NULL => l.selected_item \in Range(s.cards)
  PROVE  /\ View(refreshList(l, s, cs, so, f, cur), s, cs, f)
         /\ StillSelected(l, refreshList(l, s, cs, so, f, cur))
  <1>1. PICK m : m = refreshList(l, s, cs, so, f, cur)
    OBVIOUS
  <1>2. m \in Lists /\ Range(m.sorted_list) = Shown(s, cs, f) /\ Selects(m, l.selected_item)
        /\ Placed(m) /\ Rows(m)
    BY <1>1, Refreshed
  <1>3. View(m, s, cs, f) /\ StillSelected(l, m)
    BY <1>2 DEF View, StillSelected, Selects
  <1> QED BY <1>1, <1>3

\* After cards were added or removed, done or undone.
LEMMA AddedView ==
  ASSUME list \in Lists, Placed(list), Rows(list), set' \in Sets, card' \in Cards,
         Unique(set'.cards), NEW a, NEW undone \in BOOLEAN, a.adding \in BOOLEAN,
         a.adding # undone => a.steps[1].item \in Range(set'.cards) /\ a.steps[1].item \in CardIds
  PROVE  /\ View(OnAddCard(list, a, undone), set', card', filter)
         /\ StillSelected(list, OnAddCard(list, a, undone))
  <1>0. PICK t, ct, F : t = set' /\ ct = card' /\ F = FALSE
    OBVIOUS
  <1>1. PICK m : m = OnAddCard(list, a, undone)
    OBVIOUS
  <1>2. CASE a.adding # undone
    <2>1. PICK item : item = a.steps[1].item
      OBVIOUS
    <2>2. PICK u : u = focusNone(list)
      OBVIOUS
    <2>3. u \in Lists /\ Rows(u)
      BY <2>2, FocusedNone DEF Rows
    <2>4. PICK v : v = selectItemEvent(u, item)
      OBVIOUS
    <2>5. v \in Lists /\ Selects(v, item) /\ Placed(v) /\ Rows(v)
      BY <1>2, <2>1, <2>3, <2>4, SelectedItemEvent
    <2>6. PICK w : w = refreshList(v, t, ct, sort, filter, F)
      OBVIOUS
    <2>7. item \in CardIds /\ item \in Range(t.cards) /\ item # NULL
      BY <1>0, <1>2, <2>1, NullAssumption
    <2>8. View(w, t, ct, filter) /\ Selects(w, item)
      <3>1. t \in Sets /\ ct \in Cards /\ Unique(t.cards)
        BY <1>0
      <3>2. v.selected_item # NULL => v.selected_item \in Range(t.cards)
        BY <2>5, <2>7 DEF Selects
      <3>3. View(w, t, ct, filter)
        BY <2>5, <2>6, <3>1, <3>2, RefreshedView
      <3>4. Selects(w, v.selected_item)
        BY <2>5, <2>6, <3>1, Refreshed
      <3> QED BY <2>5, <3>3, <3>4 DEF Selects
    <2>9. PICK G : /\ m = [w EXCEPT !.focused = G]
                   /\ G \in SUBSET Nat /\ G \subseteq 1..Len(w.sorted_list)
      <3> DEFINE H == w.focused \cup {p \in 1..Len(w.sorted_list) : w.sorted_list[p] \in CardsOf(a)}
      <3>1. m = [w EXCEPT !.focused = H]
        BY <1>0, <1>1, <1>2, <2>1, <2>2, <2>4, <2>6 DEF OnAddCard
      <3>2. w \in Lists /\ Rows(w)
        BY <2>8 DEF View
      <3>3. w.focused \in SUBSET Nat /\ w.focused \subseteq 1..Len(w.sorted_list)
            /\ Len(w.sorted_list) \in Nat
        BY <3>2 DEF Lists, Rows
      <3>4. H \in SUBSET Nat /\ H \subseteq 1..Len(w.sorted_list)
        BY <3>3
      <3> HIDE DEF H
      <3> QED BY <3>1, <3>4
    <2>10. View(m, t, ct, filter) /\ m.selected_item = item
      BY <2>8, <2>9 DEF View, Lists, Placed, Rows, Selects
    <2> QED BY <1>0, <1>1, <2>7, <2>10 DEF StillSelected
  <1>3. CASE a.adding = undone
    <2>1. PICK u : u = refreshList(list, t, ct, sort, filter, F)
      OBVIOUS
    <2>2. u \in Lists /\ Range(u.sorted_list) = Shown(t, ct, filter)
          /\ Selects(u, list.selected_item) /\ Placed(u) /\ Rows(u)
      BY <1>0, <2>1, Refreshed
    <2>3. CASE u.selected_item_pos # NONE
      <3>1. m = u
        BY <1>0, <1>1, <1>3, <2>1, <2>3 DEF OnAddCard
      <3>2. u.selected_item \in Range(t.cards)
        <4>1. u.sorted_list \in Seq(CardIds)
          BY <2>2 DEF Lists
        <4>2. /\ u.selected_item_pos \in 1..Len(u.sorted_list)
              /\ u.sorted_list[u.selected_item_pos] = u.selected_item
          BY <2>2, <2>3, <4>1, PositionFound DEF Placed, NONE
        <4>3. u.selected_item \in Range(u.sorted_list)
          BY <4>1, <4>2 DEF Range
        <4> QED BY <2>2, <4>3 DEF Shown
      <3>3. View(u, t, ct, filter)
        BY <2>2, <3>2 DEF View
      <3>4. StillSelected(list, u)
        BY <2>2 DEF StillSelected, Selects
      <3> QED BY <1>0, <1>1, <3>1, <3>3, <3>4
    <2>4. CASE u.selected_item_pos = NONE
      <3>0. PICK T : T = TRUE
        OBVIOUS
      <3>1. m = selectItemPos(u, list.selected_item_pos, T)
        BY <1>0, <1>1, <1>3, <2>1, <2>4, <3>0 DEF OnAddCard, allowModify
      <3>2. /\ m \in Lists /\ SameRows(u, m) /\ Placed(m) /\ Rows(m)
            /\ \/ m.selected_item \in Range(u.sorted_list)
               \/ u.sorted_list = <<>> /\ Selects(m, NULL)
        BY <2>2, <3>1, SelectedPos
      <3>3. CASE m.selected_item \in Range(u.sorted_list)
        <4>1. m.selected_item # NULL /\ m.selected_item \in Range(t.cards)
          BY <2>2, <3>3, NotNull DEF Shown
        <4> QED BY <1>0, <1>1, <2>2, <3>2, <4>1 DEF View, StillSelected, SameRows
      <3>4. CASE u.sorted_list = <<>> /\ Selects(m, NULL)
        BY <1>0, <1>1, <2>2, <3>2, <3>4 DEF View, StillSelected, SameRows, Selects
      <3> QED BY <3>2, <3>3, <3>4
    <2> QED BY <2>3, <2>4
  <1> QED BY <1>2, <1>3

\* sl with the rows i and j exchanged.
Exchanged(sl, i, j) == [[sl EXCEPT ![i] = sl[j]] EXCEPT ![j] = sl[i]]

\* Exchanging two rows keeps what the list shows, and the position moves along.
LEMMA Swapped ==
  ASSUME NEW S, NEW sl \in Seq(S), Unique(sl), NEW i \in 1..Len(sl), NEW j \in 1..Len(sl),
         NEW m, m = Exchanged(sl, i, j)
  PROVE  /\ m \in Seq(S) /\ Len(m) = Len(sl) /\ Unique(m) /\ Range(m) = Range(sl)
         /\ PositionOf(m, sl[i]) = j /\ PositionOf(m, sl[j]) = i
  <1> DEFINE n == Len(sl)
             o(k) == IF k = i THEN j ELSE IF k = j THEN i ELSE k
  <1>1. n \in Nat /\ sl \in [1..n -> S]
    BY ElementOfSeq
  <1> HIDE DEF n
  <1>1a. i \in 1..n /\ j \in 1..n
    BY DEF n
  <1>2. m \in [1..n -> S] /\ \A k \in 1..n : m[k] = sl[o(k)]
    BY <1>1, <1>1a DEF Exchanged
  <1>3. m \in Seq(S) /\ Len(m) = n
    BY <1>1, <1>2
  <1>4. \A k \in 1..n : o(k) \in 1..n /\ o(o(k)) = k
    BY <1>1a
  <1>5. /\ m[j] = sl[i] /\ m[i] = sl[j]
    BY <1>1a, <1>2
  <1> HIDE DEF o
  <1>6. Unique(m)
    <2> SUFFICES ASSUME NEW k \in 1..n, NEW l \in 1..n, m[k] = m[l] PROVE k = l
      BY <1>3 DEF Unique
    <2>1. sl[o(k)] = sl[o(l)]
      BY <1>2
    <2>2. o(k) = o(l)
      BY <1>4, <2>1 DEF Unique, n
    <2> QED BY <1>4, <2>2
  <1>7. Range(m) = Range(sl)
    <2>1. Range(m) = {m[k] : k \in 1..n} /\ Range(sl) = {sl[k] : k \in 1..n}
      BY <1>1, <1>2 DEF Range
    <2>2. ASSUME NEW x \in Range(m) PROVE x \in Range(sl)
      <3>1. PICK k \in 1..n : x = m[k]
        BY <2>1
      <3>2. x = sl[o(k)] /\ o(k) \in 1..n
        BY <1>2, <1>4, <3>1
      <3> QED BY <2>1, <3>2
    <2>3. ASSUME NEW x \in Range(sl) PROVE x \in Range(m)
      <3>1. PICK k \in 1..n : x = sl[k]
        BY <2>1
      <3>2. x = m[o(k)] /\ o(k) \in 1..n
        BY <1>2, <1>4, <3>1
      <3> QED BY <2>1, <3>2
    <2> QED BY <2>2, <2>3
  <1>8. PositionOf(m, m[j]) = j /\ PositionOf(m, m[i]) = i
    BY <1>1a, <1>3, <1>6, PositionUnique
  <1> QED BY <1>3, <1>5, <1>6, <1>7, <1>8 DEF n

\* After two cards changed places.
LEMMA ReorderedView ==
  ASSUME NEW l, NEW s, NEW cs, NEW f, View(l, s, cs, f), NEW a
  PROVE  View(OnReorderCards(l, a), s, cs, f) /\ StillSelected(l, OnReorderCards(l, a))
  <1> DEFINE i == a.card_id1
             j == a.card_id2
             sl == l.sorted_list
  <1>1. CASE ~ReorderMovesSelected(l, a) \/ ReorderOutOfRange(l, a)
    <2>1. OnReorderCards(l, a) = l
      BY <1>1 DEF OnReorderCards
    <2> QED BY <2>1 DEF StillSelected
  <1>2. CASE ReorderMovesSelected(l, a) /\ ~ReorderOutOfRange(l, a)
    <2>1. i \in 1..Len(sl) /\ j \in 1..Len(sl) /\ l.selected_item_pos \in {i, j}
      BY <1>2 DEF ReorderMovesSelected, ReorderOutOfRange
    <2>2. l \in Lists /\ sl \in Seq(CardIds) /\ Unique(sl) /\ Len(sl) \in Nat /\ Placed(l)
          /\ l.focused \subseteq 1..Len(sl)
      BY DEF View, Lists, Rows
    <2>3. PICK m : m = Exchanged(sl, i, j)
      OBVIOUS
    <2>4. /\ m \in Seq(CardIds) /\ Len(m) = Len(sl) /\ Unique(m) /\ Range(m) = Range(sl)
          /\ PositionOf(m, sl[i]) = j /\ PositionOf(m, sl[j]) = i
      <3>1. PICK p, q, z : p = i /\ q = j /\ z = sl
        OBVIOUS
      <3> HIDE DEF i, j, sl
      <3>2. z \in Seq(CardIds) /\ Unique(z) /\ p \in 1..Len(z) /\ q \in 1..Len(z)
            /\ m = Exchanged(z, p, q)
        BY <2>1, <2>2, <2>3, <3>1
      <3>3. /\ m \in Seq(CardIds) /\ Len(m) = Len(z) /\ Unique(m) /\ Range(m) = Range(z)
            /\ PositionOf(m, z[p]) = q /\ PositionOf(m, z[q]) = p
        BY ONLY <3>2, Swapped
      <3> QED BY <3>1, <3>3
    <2>5. PICK k : k = IF l.selected_item_pos = i THEN j ELSE i
      OBVIOUS
    <2>6. sl[l.selected_item_pos] = l.selected_item
      <3>1. l.selected_item_pos # 0
        BY <2>1, <2>2
      <3> QED BY <2>2, <3>1, PositionFound DEF Placed
    <2>7. PositionOf(m, l.selected_item) = k /\ k \in Nat
      <3> HIDE DEF i, j, sl
      <3>1. CASE l.selected_item_pos = i
        BY <2>1, <2>2, <2>4, <2>5, <2>6, <3>1
      <3>2. CASE l.selected_item_pos # i
        <4>1. l.selected_item_pos = j /\ k = i
          BY <2>1, <2>5, <3>2
        <4> QED BY <2>1, <2>2, <2>4, <2>6, <4>1
      <3> QED BY <3>1, <3>2
    <2>8. PICK w : w = [[l EXCEPT !.sorted_list = m] EXCEPT !.selected_item_pos = k]
      OBVIOUS
    <2>9. w \in Lists /\ Placed(w) /\ Rows(w) /\ w.sorted_list = m
          /\ Selects(w, l.selected_item)
      <3> HIDE DEF i, j, sl
      <3>1. /\ w \in Lists /\ w.sorted_list = m /\ w.selected_item = l.selected_item
            /\ w.selected_item_pos = k /\ w.focused = l.focused
        BY <2>2, <2>4, <2>7, <2>8 DEF Lists
      <3> QED BY <2>2, <2>4, <2>7, <3>1 DEF Placed, Rows, Selects
    <2>10. PICK r : r = focusSelectedItem(w)
      OBVIOUS
    <2>11. r \in Lists /\ SameRows(w, r) /\ Selects(r, w.selected_item) /\ Placed(r) /\ Rows(r)
      BY <2>9, <2>10, FocusedSelected
    <2>12. OnReorderCards(l, a) = r
      <3>1. OnReorderCards(l, a) = focusSelectedItem(
              [l EXCEPT !.sorted_list[a.card_id1] = l.sorted_list[a.card_id2],
                  !.sorted_list[a.card_id2] = l.sorted_list[a.card_id1],
                  !.selected_item_pos = IF @ = a.card_id1 THEN a.card_id2 ELSE a.card_id1])
        BY <1>2 DEF OnReorderCards
      <3>2. [l EXCEPT !.sorted_list[a.card_id1] = l.sorted_list[a.card_id2],
                  !.sorted_list[a.card_id2] = l.sorted_list[a.card_id1],
                  !.selected_item_pos = IF @ = a.card_id1 THEN a.card_id2 ELSE a.card_id1] = w
        BY <2>2, <2>3, <2>5, <2>8 DEF Lists, Exchanged
      <3> QED BY <2>10, <3>1, <3>2
    <2>13. View(r, s, cs, f) /\ StillSelected(l, r)
      BY <2>4, <2>9, <2>11 DEF View, StillSelected, SameRows, Selects
    <2> QED BY <2>12, <2>13
  <1> QED BY <1>1, <1>2

\* What the list shows after an action it is told of.
LEMMA ActionView ==
  ASSUME View(list, set, card, filter), set \in Sets, set' \in Sets, card' \in Cards,
         Unique(set'.cards), NEW a, NEW undone \in BOOLEAN, a.type \in Kinds,
         a.type # "AddCard" => set'.cards = set.cards,
         a.type \notin {"AddCard", "Value"} => \A c \in CardIds : card'[c].value = card[c].value,
         a.type = "AddCard" =>
           /\ a.adding \in BOOLEAN
           /\ a.adding # undone => a.steps[1].item \in Range(set'.cards) /\ a.steps[1].item \in CardIds,
         onAction(a, undone)
  PROVE  View(list', set', card', filter) /\ StillSelected(list, list')
  <1>0. PICK t, ct, T : t = set' /\ ct = card' /\ T = TRUE
    OBVIOUS
  <1>1. list \in Lists /\ Placed(list) /\ Rows(list)
    BY DEF View
  <1>2. CASE a.type = "AddCard"
    <2>1. list' = OnAddCard(list, a, undone)
      BY <1>2 DEF onAction
    <2>2. /\ View(OnAddCard(list, a, undone), set', card', filter)
          /\ StillSelected(list, OnAddCard(list, a, undone))
      BY <1>1, <1>2, AddedView
    <2> QED BY <2>1, <2>2
  <1>3. CASE a.type \notin {"AddCard", "Value"}
    <2>1. Shown(set', card', filter) = Shown(set, card, filter)
      <3>1. set'.cards = set.cards /\ Range(set.cards) \subseteq CardIds
        BY <1>3, RangeOfSeq DEF Sets, Range
      <3> QED BY <1>3, <3>1 DEF Shown
    <2>2. View(list, set', card', filter)
      BY <1>3, <2>1 DEF View
    <2>3. CASE a.type = "Reorder"
      <3>1. list' = OnReorderCards(list, a)
        BY <2>3 DEF onAction
      <3>2. View(list, t, ct, filter)
        BY <1>0, <2>2
      <3>3. View(OnReorderCards(list, a), t, ct, filter) /\ StillSelected(list, OnReorderCards(list, a))
        BY <3>2, ReorderedView
      <3> QED BY <1>0, <3>1, <3>3
    <2>4. CASE a.type # "Reorder"
      <3>1. list' = list
        BY <1>3, <2>4 DEF onAction
      <3> QED BY <2>2, <3>1 DEF StillSelected
    <2> QED BY <2>3, <2>4
  <1>4. CASE a.type = "Value"
    <2>1. list' = refreshList(list, t, ct, sort, filter, T)
      BY <1>0, <1>4 DEF onAction
    <2>2. list.selected_item # NULL => list.selected_item \in Range(t.cards)
      BY <1>0, <1>4 DEF View
    <2>3. t \in Sets /\ ct \in Cards /\ Unique(t.cards)
      BY <1>0
    <2>4. /\ View(refreshList(list, t, ct, sort, filter, T), t, ct, filter)
          /\ StillSelected(list, refreshList(list, t, ct, sort, filter, T))
      BY <1>1, <2>2, <2>3, RefreshedView
    <2> QED BY <1>0, <2>1, <2>4
  <1> QED BY <1>2, <1>3, <1>4

-----------------------------------------------------------------------------
(* The history, and the list that is told of it.                            *)

\* What the clipboard holds: cards written out with the stylesheet that their
\* styling is for.
Copied == {c \in Card : c.has_styling => c.stylesheet # NULL /\ c.styling_data = c.stylesheet}

\* The row of sets is there; the invariant.
HistoryKept == \E D : History(D, set, card, undo_actions, redo_actions, hist)
Inv == HistoryKept /\ clipboard \in Seq(Copied) /\ View(list, set, card, filter)

\* Every action can be performed.
LEMMA Doable ==
  ASSUME NEW s, NEW cs \in Cards, NEW a, a.type \in Kinds, CardsOf(a) \subseteq CardIds
  PROVE  \E t, ct, b : Does(s, cs, a, Forth, t, ct, b)
  <1> SUFFICES \E t, ct, b : Perform(s, cs, a, Forth) = [set |-> t, card |-> ct, action |-> b]
    BY DEF Does
  <1>1. CASE a.type = "AddCard"
    BY <1>1, PerformedAddCard
  <1>2. CASE a.type = "Reorder"
    BY <1>2, PerformedReorder
  <1>3. CASE a.type = "Value"
    <2>1. Perform(s, cs, a, Forth) =
           [set |-> s, card |-> [cs EXCEPT ![a.card] = [cs[a.card] EXCEPT !.value = a.new_value]],
            action |-> [a EXCEPT !.new_value = cs[a.card].value]]
      BY ONLY <1>3, PerformedValue
    <2>2. PICK y, d : /\ y = [cs EXCEPT ![a.card] = [cs[a.card] EXCEPT !.value = a.new_value]]
                      /\ d = [a EXCEPT !.new_value = cs[a.card].value]
      OBVIOUS
    <2>3. Perform(s, cs, a, Forth) = [set |-> s, card |-> y, action |-> d]
      BY ONLY <2>1, <2>2
    <2> QED BY ONLY <2>3
  <1>4. CASE a.type = "CardStyle"
    <2>1. Perform(s, cs, a, Forth) =
           [set |-> s,
            card |-> [cs EXCEPT ![a.card] = [cs[a.card] EXCEPT !.stylesheet = a.stylesheet,
                         !.has_styling = a.has_styling, !.styling_data = a.styling_data]],
            action |-> [a EXCEPT !.stylesheet = cs[a.card].stylesheet,
                         !.has_styling = cs[a.card].has_styling,
                         !.styling_data = cs[a.card].styling_data]]
      BY ONLY <1>4, PerformedCardStyle
    <2>2. PICK y, d :
            /\ y = [cs EXCEPT ![a.card] = [cs[a.card] EXCEPT !.stylesheet = a.stylesheet,
                       !.has_styling = a.has_styling, !.styling_data = a.styling_data]]
            /\ d = [a EXCEPT !.stylesheet = cs[a.card].stylesheet,
                       !.has_styling = cs[a.card].has_styling,
                       !.styling_data = cs[a.card].styling_data]
      OBVIOUS
    <2>3. Perform(s, cs, a, Forth) = [set |-> s, card |-> y, action |-> d]
      BY ONLY <2>1, <2>2
    <2> QED BY ONLY <2>3
  <1>5. CASE a.type = "SetStyle"
    <2>1. Perform(s, cs, a, Forth) = SetStyleDone(s, cs, a)
      BY ONLY <1>5, PerformedSetStyleDo
    <2>2. \E t, ct, b : SetStyleDone(s, cs, a) = [set |-> t, card |-> ct, action |-> b]
      <3>1. PICK t, ct, b : /\ t = [s EXCEPT !.stylesheet = cs[a.card].stylesheet]
                            /\ ct = [c \in CardIds |-> Stripped(s, cs, a, c)]
                            /\ b = [a EXCEPT !.stylesheet = s.stylesheet,
                                 !.has_styling = [i \in 1..Len(s.cards) |-> cs[s.cards[i]].has_styling]]
        OBVIOUS
      <3>2. SetStyleDone(s, cs, a) = [set |-> t, card |-> ct, action |-> b]
        BY <3>1 DEF SetStyleDone
      <3> QED BY ONLY <3>2
    <2> QED BY ONLY <2>1, <2>2
  <1>6. CASE a.type = "HasStyling"
    <2>1. a.card \in CardIds
      BY <1>6 DEF CardsOf
    <2>2. cs[a.card].has_styling \in BOOLEAN
      BY <2>1 DEF Cards, Card
    <2>3. PICK v : Opposite(cs[a.card].has_styling, v)
      <3>1. Opposite(cs[a.card].has_styling, ~cs[a.card].has_styling)
        BY <2>2 DEF Opposite
      <3> QED BY <3>1
    <2> QED BY <1>6, <2>3, PerformedHasStyling DEF HasStylingDone
  <1>7. CASE a.type = "AddPack"
    BY <1>7, PerformedAddPack
  <1>8. CASE a.type = "ChangePack"
    BY <1>8, PerformedChangePack
  <1> QED BY <1>1, <1>2, <1>3, <1>4, <1>5, <1>6, <1>7, <1>8 DEF Kinds

\* Making no new cards changes nothing.
LEMMA NothingNew ==
  ASSUME NEW cs \in Cards
  PROVE  Override(cs, {}, cs) = cs
  <1>1. \A c \in CardIds : Override(cs, {}, cs)[c] = cs[c]
    BY DEF Override
  <1> QED BY <1>1 DEF Override, Cards

\* An action that is made puts the set it leads to on the history.
LEMMA MadeHistory ==
  ASSUME NEW D, History(D, set, card, undo_actions, redo_actions, hist),
         NEW W, W \cap Range(set.cards) = {},
         \A i \in 1..Len(undo_actions) : W \cap CardsOf(undo_actions[i]) = {},
         NEW new \in Cards, NEW cs, cs = Override(card, W, new), NEW b, addActionWith(cs, b),
         NEW t \in Sets, NEW ct \in Cards, NEW a, NEW b2,
         Does(set, cs, b, Forth, t, ct, a), Linked(set, cs, t, ct, a, b2), Good(t, ct)
  PROVE  /\ HistoryKept' /\ set' = t /\ card' = ct
         /\ set \in Sets /\ card \in Cards
  <1>1. Perform(set, cs, b, FALSE) = [set |-> t, card |-> ct, action |-> a]
    BY DEF Does, Forth
  <1>2. /\ set' = t /\ card' = ct
        /\ undo_actions' = Append(undo_actions, a) /\ redo_actions' = <<>>
        /\ hist' = Append(SubSeq(hist, 1, Len(undo_actions) + 1), Document(t, ct))
    <2>1. PICK doc : doc = Perform(set, cs, b, FALSE)
      OBVIOUS
    <2>2. /\ set' = doc.set /\ card' = doc.card
          /\ undo_actions' = Append(undo_actions, doc.action) /\ redo_actions' = <<>>
          /\ hist' = Append(SubSeq(hist, 1, Len(undo_actions) + 1), Document(doc.set, doc.card))
      BY <2>1, Zenon DEF addActionWith, Apply
    <2>3. doc = [set |-> t, card |-> ct, action |-> a]
      BY ONLY <1>1, <2>1, Zenon
    <2> QED BY <2>2, <2>3
  <1>3. PICK E : History(E, t, ct, Append(undo_actions, a), <<>>,
                         Append(SubSeq(hist, 1, Len(undo_actions) + 1), Document(t, ct)))
    BY HistoryMore
  <1>4. History(E, set', card', undo_actions', redo_actions', hist')
    BY <1>2, <1>3
  <1>5. HistoryKept'
    BY <1>4 DEF HistoryKept
  <1> QED BY <1>2, <1>5, HistoryNow

\* And the list shows it.
LEMMA MadeShown ==
  ASSUME NEW D, History(D, set, card, undo_actions, redo_actions, hist),
         View(list, set, card, filter),
         NEW W, W \cap Range(set.cards) = {},
         \A i \in 1..Len(undo_actions) : W \cap CardsOf(undo_actions[i]) = {},
         NEW new \in Cards, NEW cs, cs = Override(card, W, new), NEW b, addActionWith(cs, b),
         NEW t \in Sets, NEW ct \in Cards, NEW a, NEW b2,
         Does(set, cs, b, Forth, t, ct, a), Linked(set, cs, t, ct, a, b2), Good(t, ct),
         b.type = a.type, b.type = "AddCard" => b = a, b.type # "AddCard" => cs = card,
         onAction(b, FALSE), filter' = filter
  PROVE  HistoryKept' /\ View(list', set', card', filter') /\ StillSelected(list, list')
  <1>0. PICK F : F = FALSE
    OBVIOUS
  <1>1. HistoryKept' /\ set' = t /\ card' = ct /\ set \in Sets /\ card \in Cards
    BY MadeHistory
  <1>2. /\ Does(set, cs, b2, Forth, t, ct, a) /\ b2.type \in Kinds /\ b2.type = b.type
        /\ CardsOf(b2) \subseteq CardIds
        /\ b.type = "AddCard" => Moves(set, t, b)
    BY DEF Linked
  <1>3. cs \in Cards
    BY <1>1 DEF Override, Cards
  <1>4. Keeps(set, cs, b2, t, ct)
    BY <1>1, <1>2, <1>3, StepKeeps
  <1>5. b.type = "AddCard" =>
           /\ b.adding \in BOOLEAN
           /\ b.adding # F => b.steps[1].item \in Range(set'.cards) /\ b.steps[1].item \in CardIds
    BY <1>0, <1>1, <1>2 DEF Moves
  <1>6. F \in BOOLEAN /\ onAction(b, F) /\ Unique(set'.cards)
    BY <1>0, <1>1 DEF Good
  <1>7. View(list', set', card', filter) /\ StillSelected(list, list')
    BY <1>1, <1>2, <1>4, <1>5, <1>6, ActionView DEF Keeps
  <1> QED BY <1>1, <1>7

\* What every command does that makes an action for cards there already are.
LEMMA Told ==
  ASSUME Inv, NEW b, Perform_and_tell(b),
         NEW t \in Sets, NEW ct \in Cards, NEW a, NEW b2,
         Does(set, card, b, Forth, t, ct, a), Linked(set, card, t, ct, a, b2), Good(t, ct),
         b.type = "AddCard" => b = a, b.type = a.type
  PROVE  Inv' /\ StillSelected(list, list')
  <1>1. PICK D : History(D, set, card, undo_actions, redo_actions, hist)
    BY DEF Inv, HistoryKept
  <1>2. card \in Cards
    BY <1>1, HistoryNow
  <1>3. PICK W : W = {}
    OBVIOUS
  <1>4. card = Override(card, W, card)
    BY <1>2, <1>3, NothingNew
  <1>5. W \cap Range(set.cards) = {}
        /\ \A i \in 1..Len(undo_actions) : W \cap CardsOf(undo_actions[i]) = {}
    BY <1>3
  <1>6. addActionWith(card, b) /\ onAction(b, FALSE) /\ filter' = filter /\ clipboard' = clipboard
    BY DEF Perform_and_tell, addAction, OtherSettings
  <1>7. View(list, set, card, filter)
    BY DEF Inv
  <1>8. HistoryKept' /\ View(list', set', card', filter') /\ StillSelected(list, list')
    BY <1>1, <1>2, <1>4, <1>5, <1>6, <1>7, MadeShown
  <1> QED BY <1>6, <1>8 DEF Inv

\* What the history says of the set, where Inv holds.
LEMMA Now ==
  ASSUME Inv
  PROVE  /\ set \in Sets /\ card \in Cards /\ Fits(set, card) /\ Unique(set.cards)
         /\ View(list, set, card, filter) /\ clipboard \in Seq(Copied)
         /\ IsSeq(undo_actions)
         /\ Document(set, card) = hist[Len(undo_actions) + 1]
  <1>1. PICK D : History(D, set, card, undo_actions, redo_actions, hist)
    BY DEF Inv, HistoryKept
  <1>2. IsSeq(undo_actions)
    BY <1>1 DEF History
  <1>3. set \in Sets /\ card \in Cards /\ Good(set, card)
        /\ Document(set, card) = hist[Len(undo_actions) + 1]
    BY <1>1, HistoryNow
  <1> QED BY <1>2, <1>3 DEF Inv, Good

\* Undo goes back to the set before the last action; the list is told of the
\* cards that come back or go.
LEMMA UndoKeeps ==
  ASSUME Inv, Undo
  PROVE  Inv' /\ StillSelected(list, list')
  <1>1. PICK D : History(D, set, card, undo_actions, redo_actions, hist)
    BY DEF Inv, HistoryKept
  <1>2. PICK N, M : N = Len(undo_actions) /\ M = Len(redo_actions)
    OBVIOUS
  <1>3. N \in Nat /\ M \in Nat /\ N # 0 /\ undo_actions # <<>> /\ Last(undo_actions) = undo_actions[N]
    <2>1. IsSeq(undo_actions) /\ IsSeq(redo_actions) /\ undo_actions # <<>>
      BY <1>1 DEF History, Undo, undo
    <2>2. N \in Nat /\ M \in Nat
      BY <1>2, <2>1, SeqParts
    <2>3. N # 0
      BY <1>2, <2>1 DEF IsSeq
    <2> QED BY <1>2, <2>1, <2>2, <2>3 DEF Last
  <1>4. PICK a : a = Last(undo_actions)
    OBVIOUS
  <1>5. PICK d, e : /\ d = D[N] /\ e = D[N + 1] /\ d \in Docs /\ e \in Docs
                    /\ e.set = set /\ e.card = card /\ Good(d.set, d.card)
                    /\ \E b : LinkedDocs(d, e, a, b)
    <2>1. N \in 1..N + M + 1 /\ N + 1 \in 1..N + M + 1 /\ N \in 1..N
      BY <1>3
    <2>2. D \in [1..N + M + 1 -> Docs]
      BY <1>1, <1>2 DEF History
    <2>3. D[N] \in Docs /\ D[N + 1] \in Docs
      BY <2>1, <2>2
    <2>4. D[N + 1].set = set /\ D[N + 1].card = card
      BY <1>1, <1>2 DEF History
    <2>5. Good(D[N].set, D[N].card)
      BY <1>1, <1>2, <2>1 DEF History
    <2>6. \E b : LinkedDocs(D[N], D[N + 1], undo_actions[N], b)
      BY <1>1, <1>2, <2>1 DEF History
    <2> QED BY <1>3, <1>4, <2>3, <2>4, <2>5, <2>6
  <1>6. PICK b : LinkedDocs(d, e, a, b)
    BY <1>5
  <1>7. PICK s, cs : s = d.set /\ cs = d.card
    OBVIOUS
  <1>8. s \in Sets /\ cs \in Cards /\ set \in Sets /\ card \in Cards /\ Good(s, cs)
    BY <1>5, <1>7 DEF Docs
  <1>9. Linked(s, cs, set, card, a, b)
    BY <1>5, <1>6, <1>7 DEF LinkedDocs
  <1>10. Does(set, card, a, Back, s, cs, b) /\ a.type \in Kinds /\ CardsOf(a) \subseteq CardIds
         /\ (a.type = "AddCard" => Moves(s, set, a))
    BY <1>9 DEF Linked
  <1>11. /\ set' = s /\ card' = cs /\ undo_actions' = Front(undo_actions)
         /\ redo_actions' = Append(redo_actions, b) /\ hist' = hist /\ clipboard' = clipboard
         /\ onAction(a, TRUE) /\ filter' = filter
    <2>1. Perform(set, card, Last(undo_actions), TRUE) = [set |-> s, card |-> cs, action |-> b]
      BY <1>4, <1>10 DEF Does, Back
    <2>2. PICK doc : doc = Perform(set, card, Last(undo_actions), TRUE)
      OBVIOUS
    <2>3. /\ set' = doc.set /\ card' = doc.card
          /\ undo_actions' = Front(undo_actions) /\ redo_actions' = Append(redo_actions, doc.action)
      BY <2>2, Zenon DEF Undo, undo, Apply
    <2>4. doc = [set |-> s, card |-> cs, action |-> b]
      BY ONLY <2>1, <2>2, Zenon
    <2>5. hist' = hist /\ clipboard' = clipboard /\ onAction(a, TRUE) /\ filter' = filter
      BY <1>4 DEF Undo, undo, OtherSettings
    <2> QED BY <2>3, <2>4, <2>5
  <1>12. History(D, s, cs, Front(undo_actions), Append(redo_actions, b), hist)
    BY <1>1, <1>3, <1>4, <1>10, HistoryUndone
  <1>13. HistoryKept'
    BY <1>11, <1>12 DEF HistoryKept
  <1>14. PICK T : T = TRUE
    OBVIOUS
  <1>15. Keeps(set, card, a, s, cs)
    BY <1>8, <1>10, StepKeeps
  <1>16. a.type = "AddCard" =>
           /\ a.adding \in BOOLEAN
           /\ a.adding # T => a.steps[1].item \in Range(set'.cards) /\ a.steps[1].item \in CardIds
    BY <1>10, <1>11, <1>14 DEF Moves
  <1>17. T \in BOOLEAN /\ onAction(a, T) /\ Unique(set'.cards) /\ set' \in Sets /\ card' \in Cards
         /\ View(list, set, card, filter)
    BY <1>8, <1>11, <1>14 DEF Good, Inv
  <1>18. View(list', set', card', filter) /\ StillSelected(list, list')
    BY <1>8, <1>10, <1>11, <1>15, <1>16, <1>17, ActionView DEF Keeps
  <1> QED BY <1>11, <1>13, <1>18 DEF Inv

\* Redo goes on to the set after the action that was undone last.
LEMMA RedoKeeps ==
  ASSUME Inv, Redo
  PROVE  Inv' /\ StillSelected(list, list')
  <1>1. PICK D : History(D, set, card, undo_actions, redo_actions, hist)
    BY DEF Inv, HistoryKept
  <1>2. PICK N, M : N = Len(undo_actions) /\ M = Len(redo_actions)
    OBVIOUS
  <1>3. N \in Nat /\ M \in Nat /\ M # 0 /\ redo_actions # <<>> /\ Last(redo_actions) = redo_actions[M]
    <2>1. IsSeq(undo_actions) /\ IsSeq(redo_actions) /\ redo_actions # <<>>
      BY <1>1 DEF History, Redo, redo
    <2>2. N \in Nat /\ M \in Nat
      BY <1>2, <2>1, SeqParts
    <2>3. M # 0
      BY <1>2, <2>1 DEF IsSeq
    <2> QED BY <1>2, <2>1, <2>2, <2>3 DEF Last
  <1>4. PICK b : b = Last(redo_actions)
    OBVIOUS
  <1>5. PICK d, e : /\ d \in Docs /\ e \in Docs
                    /\ d.set = set /\ d.card = card /\ Good(e.set, e.card)
                    /\ \E a : LinkedDocs(d, e, a, b)
    <2>1. N + 1 \in 1..N + M + 1 /\ N + 2 \in 1..N + M + 1 /\ M \in 1..M
          /\ N + 1 + M - M = N + 1 /\ N + 2 + M - M = N + 2
      BY <1>3
    <2>2. D \in [1..N + M + 1 -> Docs]
      BY <1>1, <1>2 DEF History
    <2>3. D[N + 1] \in Docs /\ D[N + 2] \in Docs
      BY <2>1, <2>2
    <2>4. D[N + 1].set = set /\ D[N + 1].card = card
      BY <1>1, <1>2 DEF History
    <2>5. Good(D[N + 2].set, D[N + 2].card)
      BY <1>1, <1>2, <2>1 DEF History
    <2>6. \E a : LinkedDocs(D[N + 1 + M - M], D[N + 2 + M - M], a, redo_actions[M])
      BY <1>1, <1>2, <2>1 DEF History
    <2>7. \E a : LinkedDocs(D[N + 1], D[N + 2], a, redo_actions[M])
      BY <2>1, <2>6
    <2> QED BY <1>3, <1>4, <2>3, <2>4, <2>5, <2>7
  <1>6. PICK a : LinkedDocs(d, e, a, b)
    BY <1>5
  <1>7. PICK s, cs : s = e.set /\ cs = e.card
    OBVIOUS
  <1>8. s \in Sets /\ cs \in Cards /\ set \in Sets /\ card \in Cards /\ Good(s, cs)
    BY <1>5, <1>7 DEF Docs
  <1>9. Linked(set, card, s, cs, a, b)
    BY <1>5, <1>6, <1>7 DEF LinkedDocs
  <1>10. Does(set, card, b, Forth, s, cs, a) /\ b.type \in Kinds /\ CardsOf(b) \subseteq CardIds
         /\ (b.type = "AddCard" => Moves(set, s, b))
    BY <1>9 DEF Linked
  <1>11. /\ set' = s /\ card' = cs /\ redo_actions' = Front(redo_actions)
         /\ undo_actions' = Append(undo_actions, a) /\ hist' = hist /\ clipboard' = clipboard
         /\ onAction(b, FALSE) /\ filter' = filter
    <2>1. Perform(set, card, Last(redo_actions), FALSE) = [set |-> s, card |-> cs, action |-> a]
      BY <1>4, <1>10 DEF Does, Forth
    <2>2. PICK doc : doc = Perform(set, card, Last(redo_actions), FALSE)
      OBVIOUS
    <2>3. /\ set' = doc.set /\ card' = doc.card
          /\ redo_actions' = Front(redo_actions) /\ undo_actions' = Append(undo_actions, doc.action)
      BY <2>2, Zenon DEF Redo, redo, Apply
    <2>4. doc = [set |-> s, card |-> cs, action |-> a]
      BY ONLY <2>1, <2>2, Zenon
    <2>5. hist' = hist /\ clipboard' = clipboard /\ onAction(b, FALSE) /\ filter' = filter
      BY <1>4 DEF Redo, redo, OtherSettings
    <2> QED BY <2>3, <2>4, <2>5
  <1>12. History(D, s, cs, Append(undo_actions, a), Front(redo_actions), hist)
    BY <1>1, <1>3, <1>4, <1>10, HistoryRedone
  <1>13. HistoryKept'
    BY <1>11, <1>12 DEF HistoryKept
  <1>14. PICK F : F = FALSE
    OBVIOUS
  <1>15. Keeps(set, card, b, s, cs)
    BY <1>8, <1>10, StepKeeps
  <1>16. b.type = "AddCard" =>
           /\ b.adding \in BOOLEAN
           /\ b.adding # F => b.steps[1].item \in Range(set'.cards) /\ b.steps[1].item \in CardIds
    BY <1>10, <1>11, <1>14 DEF Moves
  <1>17. F \in BOOLEAN /\ onAction(b, F) /\ Unique(set'.cards) /\ set' \in Sets /\ card' \in Cards
         /\ View(list, set, card, filter)
    BY <1>8, <1>11, <1>14 DEF Good, Inv
  <1>18. View(list', set', card', filter) /\ StillSelected(list, list')
    BY <1>8, <1>10, <1>11, <1>15, <1>16, <1>17, ActionView DEF Keeps
  <1> QED BY <1>11, <1>13, <1>18 DEF Inv

-----------------------------------------------------------------------------
(* The commands of the user.                                                *)

\* Editing the value of the selected card.
LEMMA EditKeeps ==
  ASSUME Inv, NEW v \in Values, editValue(v)
  PROVE  Inv' /\ StillSelected(list, list')
  <1>1. PICK c, b : c = list.selected_item /\ b = ValueAction(c, v)
    OBVIOUS
  <1>2. c \in CardIds /\ Perform_and_tell(b)
    BY <1>1 DEF editValue, CardSelected
  <1>3. set \in Sets /\ card \in Cards /\ Fits(set, card) /\ Unique(set.cards)
    BY Now
  <1>4. b.type = "Value" /\ b.type \in Kinds /\ CardsOf(b) \subseteq CardIds
    BY <1>1, <1>2 DEF ValueAction, CardsOf, Kinds
  <1>5. PICK t, ct, a : Does(set, card, b, Forth, t, ct, a)
    BY <1>3, <1>4, Doable
  <1>6. t = set /\ ct \in Cards /\ Linked(set, card, t, ct, a, b) /\ Fits(t, ct)
    BY <1>1, <1>2, <1>3, <1>5, ValueLinks
  <1>7. a.type = b.type
    BY <1>6 DEF Linked
  <1>8. t \in Sets /\ Good(t, ct)
    BY <1>3, <1>6 DEF Good
  <1> QED BY <1>2, <1>4, <1>5, <1>6, <1>7, <1>8, Told

\* Choosing a style for the selected card.
LEMMA StyleKeeps ==
  ASSUME Inv, NEW sheet \in Sheets, onStyleSelect(sheet)
  PROVE  Inv' /\ StillSelected(list, list')
  <1>1. PICK c, x, b : /\ c = list.selected_item
                       /\ x = IF sheet = set.stylesheet THEN NULL ELSE sheet
                       /\ b = ChangeCardStyleAction(c, x)
    OBVIOUS
  <1>2. c \in CardIds /\ x \in Sheets \cup {NULL} /\ Perform_and_tell(b)
    BY <1>1 DEF onStyleSelect, CardSelected
  <1>3. set \in Sets /\ card \in Cards /\ Fits(set, card) /\ Unique(set.cards)
    BY Now
  <1>4. b.type = "CardStyle" /\ b.type \in Kinds /\ CardsOf(b) \subseteq CardIds
    BY <1>1, <1>2 DEF ChangeCardStyleAction, CardsOf, Kinds
  <1>5. PICK t, ct, a : Does(set, card, b, Forth, t, ct, a)
    BY <1>3, <1>4, Doable
  <1>6. t = set /\ ct \in Cards /\ Linked(set, card, t, ct, a, b) /\ Fits(t, ct)
    BY <1>1, <1>2, <1>3, <1>5, CardStyleLinks
  <1>7. a.type = b.type
    BY <1>6 DEF Linked
  <1>8. t \in Sets /\ Good(t, ct)
    BY <1>3, <1>6 DEF Good
  <1> QED BY <1>2, <1>4, <1>5, <1>6, <1>7, <1>8, Told

\* Giving it styling of its own, or taking that away.
LEMMA CustomKeeps ==
  ASSUME Inv, onUseCustom
  PROVE  Inv' /\ StillSelected(list, list')
  <1>1. PICK c, x, b : /\ c = list.selected_item
                       /\ x = IF card[c].has_styling THEN NULL ELSE StylesheetFor(set, card[c])
                       /\ b = [type |-> "HasStyling", card |-> c, styling_data |-> x]
    OBVIOUS
  <1>2. c \in CardIds /\ Perform_and_tell(b)
    BY <1>1 DEF onUseCustom, CardSelected, ChangeCardHasStylingAction
  <1>3. set \in Sets /\ card \in Cards /\ Fits(set, card) /\ Unique(set.cards)
    BY Now
  <1>4. b.type = "HasStyling" /\ b.type \in Kinds /\ CardsOf(b) \subseteq CardIds
    BY <1>1, <1>2 DEF CardsOf, Kinds
  <1>5. PICK t, ct, a : Does(set, card, b, Forth, t, ct, a)
    BY <1>3, <1>4, Doable
  <1>6. x \in Sheets \cup {NULL}
    <2>1. card[c].stylesheet \in Sheets \cup {NULL} /\ set.stylesheet \in Sheets
      BY <1>2, <1>3 DEF Cards, Card, Sets
    <2> QED BY <1>1, <2>1 DEF StylesheetFor
  <1>7. t = set /\ ct \in Cards /\ Linked(set, card, t, ct, a, b) /\ Fits(t, ct)
    BY <1>1, <1>2, <1>3, <1>5, <1>6, HasStylingLinks
  <1>8. a.type = b.type
    BY <1>7 DEF Linked
  <1>9. t \in Sets /\ Good(t, ct)
    BY <1>3, <1>7 DEF Good
  <1> QED BY <1>2, <1>4, <1>5, <1>7, <1>8, <1>9, Told

\* Making its style that of the set.
LEMMA ForAllKeeps ==
  ASSUME Inv, onUseForAll
  PROVE  Inv' /\ StillSelected(list, list')
  <1>1. PICK c, b : /\ c = list.selected_item
                    /\ b = [type |-> "SetStyle", card |-> c, stylesheet |-> NULL, has_styling |-> <<>>]
    OBVIOUS
  <1>2. c \in CardIds /\ card[c].stylesheet # NULL /\ Perform_and_tell(b)
    BY <1>1 DEF onUseForAll, CardSelected, ChangeSetStyleAction
  <1>3. set \in Sets /\ card \in Cards /\ Fits(set, card) /\ Unique(set.cards)
    BY Now
  <1>4. b.type = "SetStyle" /\ b.type \in Kinds /\ CardsOf(b) \subseteq CardIds
    BY <1>1, <1>2 DEF CardsOf, Kinds
  <1>5. PICK t, ct, a : Does(set, card, b, Forth, t, ct, a)
    BY <1>3, <1>4, Doable
  <1>6. /\ t \in Sets /\ t.cards = set.cards /\ ct \in Cards
        /\ Linked(set, card, t, ct, a, a) /\ Fits(t, ct)
    BY <1>1, <1>2, <1>3, <1>5, SetStyleLinks
  <1>7. a.type = b.type
    <2>1. Perform(set, card, b, Forth) = SetStyleDone(set, card, b)
      BY ONLY <1>4, PerformedSetStyleDo
    <2>2. a = [b EXCEPT !.stylesheet = set.stylesheet,
                 !.has_styling = [i \in 1..Len(set.cards) |-> card[set.cards[i]].has_styling]]
      BY <1>5, <2>1 DEF Does, SetStyleDone
    <2> QED BY <1>1, <2>2
  <1>8. Good(t, ct)
    BY <1>3, <1>6 DEF Good
  <1> QED BY <1>2, <1>4, <1>5, <1>6, <1>7, <1>8, Told

\* Adding or removing a pack type, as an action.
LEMMA PackKept ==
  ASSUME Inv, NEW b, b.type = "AddPack", Perform_and_tell(b),
         Adds(set.pack_types, b, PackTypes) \/ Removes(set.pack_types, b)
  PROVE  Inv' /\ StillSelected(list, list')
  <1>1. set \in Sets /\ card \in Cards /\ Fits(set, card) /\ Unique(set.cards)
    BY Now
  <1>2. b.type \in Kinds /\ CardsOf(b) \subseteq CardIds
    BY DEF CardsOf, Kinds
  <1>3. PICK t, ct, a : Does(set, card, b, Forth, t, ct, a)
    BY <1>1, <1>2, Doable
  <1>4. t \in Sets /\ t.stylesheet = set.stylesheet /\ t.cards = set.cards
        /\ ct = card /\ Linked(set, card, t, ct, a, b)
    BY <1>1, <1>3, AddPackLinks
  <1>5. a.type = b.type
    BY <1>4 DEF Linked
  <1>6. Good(t, ct)
    BY <1>1, <1>4, FitsSame DEF Good
  <1> QED BY <1>1, <1>3, <1>4, <1>5, <1>6, Told

\* The commands of the random pack panel.
LEMMA PacksKeep ==
  ASSUME Inv, NEW p, NEW pos,
         (p \in PackTypes /\ (addPack(p) \/ changePack(pos, p))) \/ removePack(pos)
  PROVE  Inv' /\ StillSelected(list, list')
  <1>1. set \in Sets /\ card \in Cards /\ Fits(set, card) /\ Unique(set.cards)
    BY Now
  <1>2. CASE p \in PackTypes /\ addPack(p)
    <2>1. PICK b : b = AddPackAction(p)
      OBVIOUS
    <2>2. b.type = "AddPack" /\ Perform_and_tell(b)
      BY <1>2, <2>1 DEF addPack, AddPackAction
    <2>3. Adds(set.pack_types, b, PackTypes)
      <3>1. <<p>> \in Seq(PackTypes)
        BY <1>2
      <3> QED BY <2>1, <3>1 DEF Adds, AddPackAction
    <2> QED BY <2>2, <2>3, PackKept
  <1>3. CASE removePack(pos)
    <2>1. PICK b : b = RemovePackAction(pos)
      OBVIOUS
    <2>2. b.type = "AddPack" /\ Perform_and_tell(b) /\ pos \in 1..Len(set.pack_types)
      BY <1>3, <2>1 DEF removePack, RemovePackAction, InRange
    <2>3. Removes(set.pack_types, b)
      BY <2>1, <2>2 DEF Removes, RemovePackAction, StepsIn
    <2> QED BY <2>2, <2>3, PackKept
  <1>4. CASE p \in PackTypes /\ changePack(pos, p)
    <2>1. PICK b : b = ChangePackAction(pos, p)
      OBVIOUS
    <2>2. b.type = "ChangePack" /\ Perform_and_tell(b) /\ pos \in 1..Len(set.pack_types)
      BY <1>4, <2>1 DEF changePack, ChangePackAction, InRange
    <2>3. b.type \in Kinds /\ CardsOf(b) \subseteq CardIds
      BY <2>2 DEF CardsOf, Kinds
    <2>4. PICK t, ct, a : Does(set, card, b, Forth, t, ct, a)
      BY <1>1, <2>3, Doable
    <2>5. t \in Sets /\ t.cards = set.cards /\ t.stylesheet = set.stylesheet
          /\ ct = card /\ Linked(set, card, t, ct, a, b)
      BY <1>1, <1>4, <2>1, <2>2, <2>4, ChangePackLinks
    <2>6. a.type = b.type
      BY <2>5 DEF Linked
    <2>7. Good(t, ct)
      BY <1>1, <2>5, FitsSame DEF Good
    <2> QED BY <1>1, <2>2, <2>4, <2>5, <2>6, <2>7, Told
  <1> QED BY <1>2, <1>3, <1>4

\* The rows that are selected are cards of the set.
LEMMA SelectionInSet ==
  ASSUME Inv
  PROVE  /\ getSelection \in Seq(CardIds)
         /\ Range(getSelection) \subseteq Range(set.cards)
         /\ \A n \in 1..Len(getSelection) : getSelection[n] \in Range(set.cards)
         /\ list.focused # {} => 1 \in 1..Len(getSelection)
  <1> DEFINE s == list.sorted_list
             K == list.focused
             t == Only(s, K)
  <1>1. View(list, set, card, filter)
    BY Now
  <1>2. s \in Seq(CardIds) /\ K \in SUBSET (1..Len(s)) /\ Range(s) \subseteq Range(set.cards)
    BY <1>1 DEF View, Lists, Rows, Shown
  <1> HIDE DEF s, K
  <1>3. /\ t \in Seq(CardIds)
        /\ Len(t) = Cardinality(K)
        /\ \A n \in 1..Len(t) : Place(K, n) \in K /\ t[n] = s[Place(K, n)]
    BY <1>2, OnlyProperties
  <1>4. Len(s) \in Nat /\ Range(s) = {s[i] : i \in 1..Len(s)}
    BY <1>2 DEF Range
  <1>5. IsFiniteSet(K) /\ Cardinality(K) \in Nat
    BY <1>2, <1>4, PositionsFinite
  <1>6. K # {} => 1 \in 1..Cardinality(K)
    BY <1>5, FS_EmptySet
  <1> HIDE DEF t
  <1>7. \A n \in 1..Len(t) : t[n] \in Range(set.cards)
    BY <1>2, <1>3, <1>4
  <1>8. Range(t) \subseteq Range(set.cards)
    BY <1>3, <1>7 DEF Range
  <1>9. getSelection = t
    BY DEF getSelection, t, s, K
  <1> QED BY <1>3, <1>6, <1>7, <1>8, <1>9 DEF K

\* Deleting the selected cards.
LEMMA DeleteKeeps ==
  ASSUME Inv, doDelete
  PROVE  Inv' /\ StillSelected(list, list')
  <1>1. set \in Sets /\ card \in Cards /\ Fits(set, card) /\ Unique(set.cards)
    BY Now
  <1>2. PICK items, b : items = Range(getSelection) /\ b = RemoveCardAction(items)
    OBVIOUS
  <1>3. Perform_and_tell(b) /\ list.focused # {}
    BY <1>2 DEF doDelete
  <1>4. b.type = "AddCard" /\ b.type \in Kinds /\ b.adding = FALSE
        /\ b.steps = RemoveSteps(items, set.cards)
    BY <1>2 DEF RemoveCardAction, Kinds
  <1>5. set.cards \in Seq(CardIds) /\ Len(set.cards) \in Nat
    BY <1>1 DEF Sets
  <1>6. StepsIn(set.cards, b.steps)
    BY <1>4, <1>5, RemoveStepsIn
  <1>7. Removes(set.cards, b)
    BY <1>4, <1>6 DEF Removes
  <1>8. 1 \in 1..Len(b.steps)
    <2> DEFINE at == {p \in 1..Len(set.cards) : set.cards[p] \in items}
    <2>1. Len(b.steps) = Cardinality(at)
      <3>1. IsFiniteSet(at) /\ Cardinality(at) \in Nat
        BY <1>5, PositionsFinite
      <3> QED BY <1>4, <3>1 DEF RemoveSteps
    <2>2. 1 \in 1..Len(getSelection) /\ getSelection[1] \in Range(set.cards)
          /\ getSelection \in Seq(CardIds)
      BY <1>3, SelectionInSet
    <2>3. getSelection[1] \in items
      BY <1>2, <2>2 DEF Range
    <2>4. PICK p \in 1..Len(set.cards) : set.cards[p] = getSelection[1]
      BY <1>5, <2>2 DEF Range
    <2>5. at # {}
      BY <2>3, <2>4
    <2>6. IsFiniteSet(at) /\ Cardinality(at) \in Nat
      BY <1>5, PositionsFinite
    <2> HIDE DEF at
    <2> QED BY <2>1, <2>5, <2>6, FS_EmptySet
  <1>9. CardsOf(b) \subseteq CardIds
    <2>1. CardsOf(b) = {b.steps[i].item : i \in 1..Len(b.steps)}
      BY <1>4 DEF CardsOf
    <2>2. \A i \in 1..Len(b.steps) : b.steps[i].item \in CardIds
      BY <1>5, <1>6, ElementOfSeq DEF StepsIn
    <2> QED BY <2>1, <2>2
  <1>10. PICK t, ct, a : Does(set, card, b, Forth, t, ct, a)
    BY <1>1, <1>4, <1>9, Doable
  <1>11. /\ t \in Sets /\ t.stylesheet = set.stylesheet
         /\ Range(t.cards) \subseteq Range(set.cards) /\ Unique(t.cards)
         /\ ct = card /\ a = b /\ Linked(set, card, t, ct, a, b)
    BY <1>1, <1>4, <1>7, <1>8, <1>10, AddCardLinks
  <1>12. Good(t, ct)
    BY <1>1, <1>11, FitsSame DEF Good
  <1> QED BY <1>1, <1>3, <1>10, <1>11, <1>12, Told

\* Dragging the selected card.
LEMMA DragKeeps ==
  ASSUME Inv, NEW item, onDrag(item)
  PROVE  Inv' /\ StillSelected(list, list')
  <1>1. set \in Sets /\ card \in Cards /\ Fits(set, card) /\ Unique(set.cards)
        /\ View(list, set, card, filter)
    BY Now
  <1>2. PICK D : History(D, set, card, undo_actions, redo_actions, hist)
    BY DEF Inv, HistoryKept
  <1>3. findSelectedItemPos(list) = list
    BY <1>1, FoundPos DEF View
  <1>4. PICK j, b : j = list.selected_item_pos /\ b = ReorderCardsAction(item, j)
    OBVIOUS
  <1>5. /\ addActionWith(card, b) /\ list' = OnReorderCards(list, b)
        /\ filter' = filter /\ clipboard' = clipboard
    BY <1>3, <1>4 DEF onDrag, addAction
  <1>6. b.type = "Reorder" /\ b.type \in Kinds /\ CardsOf(b) \subseteq CardIds
    BY <1>4 DEF ReorderCardsAction, CardsOf, Kinds
  <1>7. PICK t, ct, a : Does(set, card, b, Forth, t, ct, a)
    BY <1>1, <1>6, Doable
  <1>8. t = set /\ ct = card /\ Linked(set, card, t, ct, a, a)
    BY <1>1, <1>4, <1>7, ReorderLinks
  <1>9. PICK W : W = {}
    OBVIOUS
  <1>10. /\ card = Override(card, W, card) /\ W \cap Range(set.cards) = {}
         /\ \A i \in 1..Len(undo_actions) : W \cap CardsOf(undo_actions[i]) = {}
    BY <1>1, <1>9, NothingNew
  <1>11. t \in Sets /\ ct \in Cards /\ Good(t, ct)
    BY <1>1, <1>8 DEF Good
  <1>12. HistoryKept' /\ set' = t /\ card' = ct
    BY <1>1, <1>2, <1>5, <1>7, <1>8, <1>10, <1>11, MadeHistory
  <1>13. View(OnReorderCards(list, b), set, card, filter)
         /\ StillSelected(list, OnReorderCards(list, b))
    BY <1>1, ReorderedView
  <1> QED BY <1>5, <1>8, <1>12, <1>13 DEF Inv

\* A new card can be written out.
LEMMA NewCardCopied == NewCard \in Copied
  <1>1. Min(Values) \in Values
    BY ValuesAssumption, LeastNumber
  <1>2. NewCard \in Card /\ NewCard.has_styling = FALSE
    BY <1>1 DEF NewCard, Card
  <1> QED BY <1>2 DEF Copied

\* A card that was written out fits every set.
LEMMA CopiedFits ==
  ASSUME NEW s, NEW c \in Copied
  PROVE  c \in Card /\ FitsFor(s, c)
  BY DEF Copied, FitsFor, StylesheetFor

\* Cards cs that nothing refers to are added, with the given contents.
LEMMA NewCardsKeep ==
  ASSUME Inv, NEW cs, cs \in Seq(Unused), Unique(cs), cs # <<>>,
         NEW contents \in Seq(Copied), Len(contents) = Len(cs), NewCards(cs, contents)
  PROVE  Inv' /\ StillSelected(list, list')
  <1>1. /\ set \in Sets /\ card \in Cards /\ Fits(set, card) /\ Unique(set.cards)
        /\ View(list, set, card, filter) /\ clipboard \in Seq(Copied) /\ IsSeq(undo_actions)
    BY Now
  <1>2. PICK D : History(D, set, card, undo_actions, redo_actions, hist)
    BY DEF Inv, HistoryKept
  <1>3. PICK W, n : W = Range(cs) /\ n = Len(cs)
    OBVIOUS
  <1>4. W = {cs[i] : i \in 1..n} /\ n \in Nat /\ n # 0 /\ W \subseteq Unused /\ W \subseteq CardIds
        /\ cs \in Seq(CardIds)
    <2>1. W = {cs[i] : i \in 1..n} /\ n \in Nat /\ n # 0
      BY <1>3 DEF Range
    <2>2. \A i \in 1..n : cs[i] \in Unused
      BY <1>3, ElementOfSeq
    <2>3. Unused \subseteq CardIds
      BY DEF Unused
    <2>4. cs \in Seq(CardIds)
      <3>1. cs \in [1..n -> CardIds]
        BY <1>3, <2>2, <2>3
      <3> QED BY <2>1, <3>1
    <2> QED BY <2>1, <2>2, <2>3, <2>4
  <1>5. W \cap Range(set.cards) = {}
        /\ \A i \in 1..Len(undo_actions) : W \cap CardsOf(undo_actions[i]) = {}
    <2>1. W \cap Range(set.cards) = {}
      BY <1>4 DEF Unused
    <2>2. ASSUME NEW i \in 1..Len(undo_actions) PROVE W \cap CardsOf(undo_actions[i]) = {}
      <3>1. undo_actions[i] \in Range(undo_actions)
        BY <1>1 DEF IsSeq, Range
      <3> QED BY <1>4, <3>1 DEF Unused
    <2> QED BY <2>1, <2>2
  <1>6. \A c \in W : contents[PositionOf(cs, c)] \in Copied
    <2> SUFFICES ASSUME NEW c \in W PROVE contents[PositionOf(cs, c)] \in Copied
      OBVIOUS
    <2>1. PICK i \in 1..n : c = cs[i]
      BY <1>4
    <2>2. PositionOf(cs, c) = i
      BY <1>3, <2>1, PositionUnique
    <2> QED BY <1>3, <2>1, <2>2, ElementOfSeq
  <1>7. PICK new : new = [c \in CardIds |-> IF c \in W THEN contents[PositionOf(cs, c)] ELSE card[c]]
    OBVIOUS
  <1>8. new \in Cards
    BY <1>1, <1>6, <1>7, CopiedFits DEF Cards
  <1>9. PICK made : made = Override(card, W, new)
    OBVIOUS
  <1>10. /\ made \in Cards
         /\ \A c \in W : made[c] \in Copied
         /\ \A c \in CardIds \ W : made[c] = card[c]
    BY <1>1, <1>4, <1>6, <1>7, <1>8, <1>9 DEF Override, Cards
  <1>11. PICK b : b = AddCardAction(cs)
    OBVIOUS
  <1>12. addActionWith(made, b) /\ onAction(b, FALSE) /\ filter' = filter /\ clipboard' = clipboard
    <2>1. made = [c \in CardIds |-> IF \E i \in 1..Len(cs) : cs[i] = c
                                    THEN contents[PositionOf(cs, c)] ELSE card[c]]
      <3>1. \A c : (\E i \in 1..Len(cs) : cs[i] = c) <=> c \in W
        BY <1>3, <1>4
      <3> QED BY <1>7, <1>9, <3>1 DEF Override
    <2> QED BY <1>11, <2>1 DEF NewCards, OtherSettings
  <1>13. b.type = "AddCard" /\ b.type \in Kinds /\ b.adding = TRUE /\ b.steps = AddSteps(cs, set.cards)
    BY <1>11 DEF AddCardAction, Kinds
  <1>14. Adds(set.cards, b, CardIds) /\ 1 \in 1..Len(b.steps)
    <2>1. Len(b.steps) = n
      BY <1>3, <1>4, <1>13 DEF AddSteps
    <2> QED BY <1>4, <1>13, <2>1 DEF Adds
  <1>15. CardsOf(b) \subseteq CardIds
    <2>1. CardsOf(b) = {b.steps[i].item : i \in 1..Len(b.steps)}
      BY <1>13 DEF CardsOf
    <2>2. Len(b.steps) = n /\ \A i \in 1..n : b.steps[i].item = cs[i]
      BY <1>3, <1>4, <1>13 DEF AddSteps
    <2> QED BY <1>3, <1>4, <2>1, <2>2
  <1>16. PICK t, ct, a : Does(set, made, b, Forth, t, ct, a)
    BY <1>10, <1>13, <1>15, Doable
  <1>17. /\ t \in Sets /\ t.stylesheet = set.stylesheet
         /\ t.cards = GenericAdd(set.cards, b, Forth)
         /\ ct = made /\ a = b /\ Linked(set, made, t, ct, a, b)
    BY <1>1, <1>10, <1>13, <1>14, <1>16, AddCardLinks
  <1>18. t.cards = set.cards \o cs
    <2>1. set.cards \in Seq(CardIds)
      BY <1>1 DEF Sets
    <2>2. InsertSteps(set.cards, b.steps) = set.cards \o cs
      <3>1. PICK S, c, steps : S = CardIds /\ c = set.cards /\ steps = b.steps
        OBVIOUS
      <3>2. c \in Seq(S) /\ cs \in Seq(S) /\ steps = AddSteps(cs, c)
        BY <1>4, <1>13, <2>1, <3>1
      <3>3. /\ InsertSteps(c, steps) \in Seq(S)
            /\ InsertSteps(c, steps) = c \o cs
            /\ EraseSteps(InsertSteps(c, steps), steps) = c
        BY ONLY <3>2, Adding
      <3> QED BY <3>1, <3>3
    <2>3. GenericAdd(set.cards, b, Forth) = InsertSteps(set.cards, b.steps)
      BY <1>13 DEF GenericAdd, Forth
    <2> QED BY <1>17, <2>2, <2>3
  <1>19. Unique(t.cards) /\ Range(t.cards) \subseteq Range(set.cards) \cup W
    <2> DEFINE m == Len(set.cards)
               p == set.cards
               q == t.cards
    <2>1. p \in Seq(CardIds) /\ m \in Nat
      BY <1>1 DEF Sets
    <2>2. /\ q \in Seq(CardIds) /\ Len(q) = m + n
          /\ \A i \in 1..m + n : q[i] = IF i <= m THEN p[i] ELSE cs[i - m]
      BY <1>3, <1>4, <1>18, <2>1
    <2>3. Range(p) = {p[i] : i \in 1..m} /\ Range(q) = {q[i] : i \in 1..m + n}
      BY <2>1, <2>2 DEF Range
    <2>4. \A i, j \in 1..m : p[i] = p[j] => i = j
      BY <1>1 DEF Unique
    <2>5. \A i, j \in 1..n : cs[i] = cs[j] => i = j
      BY <1>3 DEF Unique
    <2>6. \A i \in 1..m, j \in 1..n : p[i] # cs[j]
      BY <1>4, <1>5, <2>3
    <2> HIDE DEF m, p, q
    <2>7. \A i \in 1..m + n : (i <= m /\ i \in 1..m) \/ (~(i <= m) /\ i - m \in 1..n)
      <3>1. n \in Nat /\ m \in Nat
        BY <1>4, <2>1
      <3> QED BY ONLY <3>1
    <2>8. ASSUME NEW i \in 1..m + n, NEW j \in 1..m + n, q[i] = q[j] PROVE i = j
      <3>1. CASE i <= m /\ j <= m
        BY <2>2, <2>4, <2>7, <2>8, <3>1
      <3>2. CASE ~(i <= m) /\ ~(j <= m)
        <4>1. cs[i - m] = cs[j - m] /\ i - m \in 1..n /\ j - m \in 1..n
          BY <2>2, <2>7, <2>8, <3>2
        <4>2. i - m = j - m
          BY <2>5, <4>1
        <4> QED BY <1>4, <2>1, <4>2
      <3>3. CASE i <= m /\ ~(j <= m)
        BY <2>2, <2>6, <2>7, <2>8, <3>3
      <3>4. CASE ~(i <= m) /\ j <= m
        BY <2>2, <2>6, <2>7, <2>8, <3>4
      <3> QED BY <3>1, <3>2, <3>3, <3>4
    <2>9. Unique(q)
      BY <2>2, <2>8 DEF Unique
    <2>10. \A i \in 1..m + n : q[i] \in Range(p) \cup W
      BY <1>4, <2>2, <2>3, <2>7
    <2> QED BY <2>3, <2>9, <2>10 DEF p, q
  <1>20. Fits(t, ct)
    <2> SUFFICES ASSUME NEW c \in Range(t.cards) PROVE FitsFor(t, made[c])
      BY <1>17 DEF Fits
    <2>1. CASE c \in W
      BY <1>10, <2>1, CopiedFits
    <2>2. CASE c \notin W
      <3>1. c \in Range(set.cards) /\ Range(set.cards) \subseteq CardIds
        BY <1>1, <1>19, <2>2, RangeOfSeq DEF Sets, Range
      <3>2. made[c] = card[c] /\ FitsFor(set, card[c])
        BY <1>1, <1>10, <2>2, <3>1 DEF Fits
      <3> QED BY <1>17, <3>2 DEF FitsFor, StylesheetFor
    <2> QED BY <2>1, <2>2
  <1>21. Good(t, ct) /\ b.type = a.type
    BY <1>17, <1>19, <1>20 DEF Good
  <1>22. ct \in Cards
    BY <1>10, <1>17
  <1>23. HistoryKept' /\ View(list', set', card', filter') /\ StillSelected(list, list')
    BY <1>1, <1>2, <1>5, <1>8, <1>9, <1>12, <1>13, <1>16, <1>17, <1>21, <1>22, MadeShown
  <1> QED BY <1>1, <1>12, <1>23 DEF Inv

\* Adding one new card.
LEMMA AddKeeps ==
  ASSUME Inv, addCard
  PROVE  Inv' /\ StillSelected(list, list')
  <1>1. PICK c \in Unused : NewCards(<<c>>, <<NewCard>>)
    BY DEF addCard
  <1>2. PICK cs, contents : cs = <<c>> /\ contents = <<NewCard>>
    OBVIOUS
  <1>3. cs \in Seq(Unused) /\ Unique(cs) /\ cs # <<>> /\ Len(cs) = 1
    BY <1>2 DEF Unique
  <1>4. contents \in Seq(Copied) /\ Len(contents) = 1
    BY <1>2, NewCardCopied
  <1>5. NewCards(cs, contents)
    BY <1>1, <1>2
  <1> QED BY <1>3, <1>4, <1>5, NewCardsKeep

\* Pasting makes a new card of every card of the clipboard.
LEMMA PasteKeeps ==
  ASSUME Inv, doPaste
  PROVE  Inv' /\ StillSelected(list, list')
  <1>1. PICK cs \in [1..Len(clipboard) -> Unused] : IsInjective(cs) /\ NewCards(cs, clipboard)
    BY DEF doPaste
  <1>2. clipboard \in Seq(Copied) /\ clipboard # <<>>
    BY Now DEF doPaste
  <1>3. cs \in Seq(Unused) /\ Len(cs) = Len(clipboard) /\ cs # <<>>
    BY <1>1, <1>2
  <1>4. Unique(cs)
    BY <1>1, <1>3 DEF IsInjective, Unique
  <1> QED BY <1>1, <1>2, <1>3, <1>4, NewCardsKeep

\* Copying writes the cards out with the stylesheet they are shown with.
LEMMA CopyKeeps ==
  ASSUME Inv, doCopy
  PROVE  Inv' /\ StillSelected(list, list')
  <1>1. /\ set \in Sets /\ card \in Cards /\ Fits(set, card)
        /\ View(list, set, card, filter)
    BY Now
  <1>2. PICK n : n = Len(getSelection)
    OBVIOUS
  <1>3. /\ getSelection \in Seq(CardIds) /\ n \in Nat
        /\ \A i \in 1..n : getSelection[i] \in Range(set.cards)
    BY <1>2, SelectionInSet
  <1>4. ASSUME NEW i \in 1..n PROVE Written(card[getSelection[i]]) \in Copied
    <2>1. PICK c : c = card[getSelection[i]]
      OBVIOUS
    <2>2. c \in Card /\ FitsFor(set, c)
      <3>1. getSelection[i] \in CardIds
        BY <1>2, <1>3, ElementOfSeq
      <3> QED BY <1>1, <1>3, <2>1, <3>1 DEF Fits, Cards
    <2>3. StylesheetFor(set, c) \in Sheets /\ StylesheetFor(set, c) # NULL
      <3>1. set.stylesheet \in Sheets /\ c.stylesheet \in Sheets \cup {NULL}
        BY <1>1, <2>2 DEF Sets, Card
      <3>2. StylesheetFor(set, c) \in Sheets
        BY <3>1 DEF StylesheetFor
      <3> QED BY <3>2, NullAssumption
    <2>4. CASE c.has_styling
      <3>1. Written(c) = [c EXCEPT !.stylesheet = StylesheetFor(set, c)]
        BY <2>4 DEF Written
      <3>2. c.styling_data = StylesheetFor(set, c)
        BY <2>2, <2>4 DEF FitsFor
      <3>3. PICK x : x = StylesheetFor(set, c)
        OBVIOUS
      <3>4. [c EXCEPT !.stylesheet = x] \in Copied
        BY <2>2, <2>3, <3>2, <3>3 DEF Card, Copied
      <3> QED BY <2>1, <3>1, <3>3, <3>4
    <2>5. CASE ~c.has_styling
      <3>1. Written(c) = [c EXCEPT !.styling_data = NULL]
        BY <2>5 DEF Written
      <3> QED BY <2>1, <2>2, <2>5, <3>1 DEF Card, Copied
    <2> QED BY <2>4, <2>5
  <1>5. clipboard' \in Seq(Copied)
    <2>1. clipboard' = [i \in 1..n |-> Written(card[getSelection[i]])]
      BY <1>2 DEF doCopy
    <2> QED BY <1>3, <1>4, <2>1
  <1>6. UNCHANGED <<set, card, undo_actions, redo_actions, hist, list, filter>>
    BY DEF doCopy
  <1>7. HistoryKept'
    BY <1>6 DEF Inv, HistoryKept
  <1> QED BY <1>1, <1>5, <1>6, <1>7 DEF Inv, StillSelected

\* What only concerns the list.
LEMMA ListOnly ==
  ASSUME Inv, UNCHANGED editing, View(list', set, card, filter')
  PROVE  Inv'
  <1>1. UNCHANGED <<set, card, undo_actions, redo_actions, hist, clipboard>>
    BY DEF editing
  <1>2. HistoryKept'
    BY <1>1 DEF Inv, HistoryKept
  <1> QED BY <1>1, <1>2 DEF Inv

\* Selecting the card of a row.
LEMMA RowSelected ==
  ASSUME Inv, NEW l \in Lists, Placed(l), Rows(l), l.sorted_list = list.sorted_list, NEW pos, NEW focus,
         list' = selectItemPos(l, pos, focus), UNCHANGED editing, filter' = filter
  PROVE  Inv' /\ StillSelected(list, list')
  <1>1. View(list, set, card, filter)
    BY Now
  <1>2. PICK m : m = selectItemPos(l, pos, focus)
    OBVIOUS
  <1>3. /\ m \in Lists /\ SameRows(l, m) /\ Placed(m) /\ Rows(m)
        /\ \/ m.selected_item \in Range(l.sorted_list)
           \/ l.sorted_list = <<>> /\ Selects(m, NULL)
    BY <1>2, SelectedPos
  <1>4. CASE m.selected_item \in Range(l.sorted_list)
    <2>1. m.selected_item # NULL /\ m.selected_item \in Range(set.cards)
      BY <1>1, <1>4, NotNull DEF View, Shown
    <2>2. View(m, set, card, filter) /\ StillSelected(list, m)
      BY <1>1, <1>3, <2>1 DEF View, StillSelected, SameRows
    <2> QED BY <1>2, <2>2, ListOnly
  <1>5. CASE l.sorted_list = <<>> /\ Selects(m, NULL)
    <2>1. View(m, set, card, filter) /\ StillSelected(list, m)
      BY <1>1, <1>3, <1>5 DEF View, StillSelected, SameRows, Selects
    <2> QED BY <1>2, <2>1, ListOnly
  <1> QED BY <1>3, <1>4, <1>5

\* A click on a row.
LEMMA FocusKeeps ==
  ASSUME Inv, NEW pos, NEW others, onItemFocus(pos, others)
  PROVE  Inv' /\ StillSelected(list, list')
  <1>1. View(list, set, card, filter)
    BY Now
  <1>2. PICK F, l : /\ F = {pos} \cup (IF others THEN list.focused ELSE {})
                    /\ l = [list EXCEPT !.focused = F]
    OBVIOUS
  <1>3. pos \in 1..Len(list.sorted_list) /\ Len(list.sorted_list) \in Nat
    BY <1>1 DEF onItemFocus, InRange, View, Lists
  <1>4. F \in SUBSET Nat /\ F \subseteq 1..Len(list.sorted_list)
    BY <1>1, <1>2, <1>3 DEF View, Rows
  <1>5. l \in Lists /\ Placed(l) /\ Rows(l) /\ l.sorted_list = list.sorted_list
    BY <1>1, <1>2, <1>4 DEF View, Lists, Placed, Rows
  <1>6. PICK B : B = FALSE
    OBVIOUS
  <1>7. list' = selectItemPos(l, pos, B) /\ UNCHANGED editing /\ filter' = filter
    BY <1>2, <1>6 DEF onItemFocus
  <1> QED BY <1>5, <1>7, RowSelected

\* The previous and the next row.
LEMMA StepThrough ==
  ASSUME Inv, selectPrevious \/ selectNext
  PROVE  Inv' /\ StillSelected(list, list')
  <1>1. View(list, set, card, filter)
    BY Now
  <1>2. PICK l, B : l = focusNone(list) /\ B = TRUE
    OBVIOUS
  <1>3. l \in Lists /\ Placed(l) /\ Rows(l) /\ l.sorted_list = list.sorted_list
    BY <1>1, <1>2, FocusedNone DEF View, Rows, SameRows
  <1>4. PICK pos : list' = selectItemPos(l, pos, B)
    BY <1>2 DEF selectPrevious, selectNext
  <1>5. UNCHANGED editing /\ filter' = filter
    BY DEF selectPrevious, selectNext
  <1> QED BY <1>3, <1>4, <1>5, RowSelected

\* Sorting and searching.
LEMMA OrderKeeps ==
  ASSUME Inv, NEW f, onColumnClick \/ setFilter(f)
  PROVE  Inv' /\ StillSelected(list, list')
  <1>1. set \in Sets /\ card \in Cards /\ Unique(set.cards) /\ View(list, set, card, filter)
    BY Now
  <1>2. PICK F, so, g : F = FALSE /\ so = sort' /\ g = filter'
    OBVIOUS
  <1>3. PICK l : /\ l \in Lists /\ l.selected_item = list.selected_item
                 /\ list' = refreshList(l, set, card, so, g, F)
    <2>1. CASE onColumnClick
      <3>1. list' = refreshList(list, set, card, so, g, F)
        BY <1>2, <2>1 DEF onColumnClick
      <3> QED BY <1>1, <3>1 DEF View
    <2>2. CASE setFilter(f)
      <3>1. PICK l : l = [list EXCEPT !.selected_item_pos = NONE, !.focused = {}]
        OBVIOUS
      <3>2. list' = refreshList(l, set, card, so, g, F)
        BY <1>2, <2>2, <3>1 DEF setFilter
      <3>3. l \in Lists /\ l.selected_item = list.selected_item
        BY <1>1, <3>1 DEF View, Lists, NONE
      <3> QED BY <3>2, <3>3
    <2> QED BY <2>1, <2>2
  <1>4. UNCHANGED editing
    BY DEF onColumnClick, setFilter
  <1>5. l.selected_item # NULL => l.selected_item \in Range(set.cards)
    BY <1>1, <1>3 DEF View
  <1>6. /\ View(refreshList(l, set, card, so, g, F), set, card, g)
        /\ StillSelected(l, refreshList(l, set, card, so, g, F))
    BY <1>1, <1>2, <1>3, <1>5, RefreshedView
  <1>7. View(list', set, card, filter') /\ StillSelected(list, list')
    BY <1>2, <1>3, <1>6 DEF StillSelected
  <1> QED BY <1>4, <1>7, ListOnly

-----------------------------------------------------------------------------
(* The theorems.                                                            *)

\* The set that was opened.
LEMMA InitHolds == Init => Inv
  <1> SUFFICES ASSUME Init PROVE Inv
    OBVIOUS
  <1>1. PICK n : n = MaxCards - 1
    OBVIOUS
  <1>2. n \in Nat /\ n # 0
    BY <1>1, BoundsAssumption
  <1>3. PICK cs \in [1..n -> CardIds], sheet \in Sheets :
          /\ IsInjective(cs)
          /\ set = [cards |-> cs, stylesheet |-> sheet, pack_types |-> <<>>]
          /\ card = [c \in CardIds |-> IF c = cs[1]
                        THEN [NewCard EXCEPT !.has_styling = TRUE, !.styling_data = sheet]
                        ELSE NewCard]
    BY <1>1 DEF Init
  <1>4. /\ cs \in Seq(CardIds) /\ Len(cs) = n /\ 1 \in 1..n /\ cs[1] \in CardIds
        /\ Range(cs) = {cs[i] : i \in 1..n}
    BY <1>2, <1>3 DEF Range
  <1>5. Unique(cs)
    BY <1>3, <1>4 DEF IsInjective, Unique
  <1>6. set \in Sets /\ set.cards = cs /\ set.stylesheet = sheet
    BY <1>3, <1>4 DEF Sets
  <1>7. NewCard \in Card /\ NewCard.has_styling = FALSE /\ NewCard.stylesheet = NULL
    BY NewCardCopied DEF Copied, NewCard
  <1>8. PICK first : first = [NewCard EXCEPT !.has_styling = TRUE, !.styling_data = sheet]
    OBVIOUS
  <1>9. first \in Card /\ first.stylesheet = NULL /\ first.styling_data = sheet
    BY <1>7, <1>8 DEF Card
  <1>10. card \in Cards /\ \A c \in CardIds : card[c] \in {first, NewCard}
    BY <1>3, <1>7, <1>8, <1>9 DEF Cards
  <1>11. Good(set, card)
    <2>1. FitsFor(set, first) /\ FitsFor(set, NewCard)
      BY <1>6, <1>7, <1>9 DEF FitsFor, StylesheetFor
    <2>2. \A c \in Range(set.cards) : c \in CardIds
      BY <1>4, <1>6, ElementOfSeq
    <2> QED BY <1>5, <1>6, <1>10, <2>1, <2>2 DEF Good, Fits
  <1>12. /\ undo_actions = <<>> /\ redo_actions = <<>> /\ clipboard = <<>>
         /\ hist = <<Document(set, card)>> /\ filter = NULL
         /\ list = [sorted_list |-> cs, selected_item |-> cs[1], selected_item_pos |-> 1, focused |-> {1}]
    BY <1>6 DEF Init
  <1>13. HistoryKept
    <2> DEFINE D == [i \in 1..1 |-> [set |-> set, card |-> card]]
    <2>1. PICK e, hi : e = <<>> /\ hi = <<Document(set, card)>>
      OBVIOUS
    <2>2. IsSeq(e) /\ Len(e) = 0 /\ IsSeq(hi) /\ Len(hi) = 1 /\ hi[1] = Document(set, card)
      <3>1. PICK d : d = Document(set, card)
        OBVIOUS
      <3>2. e \in Seq({}) /\ hi \in Seq({d})
        BY <2>1, <3>1
      <3> QED BY <2>1, <3>1, <3>2 DEF IsSeq
    <2>3. D \in [1..1 -> Docs] /\ D[1].set = set /\ D[1].card = card
      BY <1>6, <1>10 DEF Docs
    <2> HIDE DEF D
    <2>4. History(D, set, card, e, e, hi)
      <3>1. Len(e) + Len(e) + 1 = 1 /\ Len(e) + 1 = 1
        BY <2>2
      <3>2. \A i \in 1..1 : hi[i] = Document(D[i].set, D[i].card) /\ Good(D[i].set, D[i].card)
        BY <1>11, <2>2, <2>3
      <3>3. 1..Len(e) = {}
        BY <2>2
      <3> QED BY <2>2, <2>3, <3>1, <3>2, <3>3 DEF History
    <2> QED BY <1>12, <2>1, <2>4 DEF HistoryKept
  <1>14. View(list, set, card, filter)
    <2>1. PositionOf(cs, cs[1]) = 1
      BY <1>4, <1>5, PositionUnique
    <2>2. list \in Lists /\ Placed(list) /\ Rows(list)
      BY <1>4, <1>5, <1>12, <2>1 DEF Lists, Placed, Rows
    <2>3. Range(list.sorted_list) = Shown(set, card, filter)
      BY <1>6, <1>12 DEF Shown
    <2>4. list.selected_item \in Range(set.cards)
      BY <1>4, <1>6, <1>12
    <2> QED BY <2>2, <2>3, <2>4 DEF View
  <1>15. clipboard \in Seq(Copied)
    BY <1>12
  <1> QED BY <1>13, <1>14, <1>15 DEF Inv

\* Every step.
LEMMA NextKeeps == Inv /\ [Next]_vars => Inv' /\ StillSelected(list, list')
  <1> SUFFICES ASSUME Inv, [Next]_vars PROVE Inv' /\ StillSelected(list, list')
    OBVIOUS
  <1>1. CASE UNCHANGED vars
    <2>1. UNCHANGED <<set, card, undo_actions, redo_actions, clipboard, hist, list, filter>>
      BY <1>1 DEF vars, view, editing
    <2>2. HistoryKept'
      BY <2>1 DEF Inv, HistoryKept
    <2> QED BY <2>1, <2>2 DEF Inv, StillSelected
  <1>2. CASE addCard
    BY <1>2, AddKeeps
  <1>3. CASE doPaste
    BY <1>3, PasteKeeps
  <1>4. CASE doCopy
    BY <1>4, CopyKeeps
  <1>5. CASE doDelete
    BY <1>5, DeleteKeeps
  <1>6. CASE \E v \in Values : editValue(v)
    BY <1>6, EditKeeps
  <1>7. CASE \E i \in 1..MaxCards : onDrag(i)
    BY <1>7, DragKeeps
  <1>8. CASE \E sheet \in Sheets : onStyleSelect(sheet)
    BY <1>8, StyleKeeps
  <1>9. CASE onUseForAll
    BY <1>9, ForAllKeeps
  <1>10. CASE onUseCustom
    BY <1>10, CustomKeeps
  <1>11. CASE \E p \in PackTypes : addPack(p)
    BY <1>11, PacksKeep
  <1>12. CASE \E pos \in 1..MaxPacks : removePack(pos)
    BY <1>12, PacksKeep
  <1>13. CASE \E pos \in 1..MaxPacks, p \in PackTypes : changePack(pos, p)
    BY <1>13, PacksKeep
  <1>14. CASE Undo
    BY <1>14, UndoKeeps
  <1>15. CASE Redo
    BY <1>15, RedoKeeps
  <1>16. CASE \E i \in 1..MaxCards, others \in BOOLEAN : onItemFocus(i, others)
    BY <1>16, FocusKeeps
  <1>17. CASE selectPrevious \/ selectNext
    BY <1>17, StepThrough
  <1>18. CASE onColumnClick
    BY <1>18, OrderKeeps
  <1>19. CASE \E f \in Values \cup {NULL} : setFilter(f)
    BY <1>19, OrderKeeps
  <1> QED BY <1>1, <1>2, <1>3, <1>4, <1>5, <1>6, <1>7, <1>8, <1>9, <1>10, <1>11, <1>12, <1>13,
             <1>14, <1>15, <1>16, <1>17, <1>18, <1>19 DEF Next

\* Inv holds in every state.
LEMMA Invariant == Spec => []Inv
  <1>1. Inv /\ [Next]_vars => Inv'
    BY NextKeeps
  <1> QED BY InitHolds, <1>1, PTL DEF Spec

\* Undo and redo lead back through exactly the sets the user had (perform of
\* every action class, src/src/data/action/), whatever mix of commands made
\* them and however long the history is.
THEOREM UndoRedoCorrect == Spec => []HistoryCorrect
  <1>1. Inv => HistoryCorrect
    BY Now DEF HistoryCorrect
  <1> QED BY <1>1, Invariant, PTL

\* The styling data of a card is for the stylesheet it is shown with
\* (Set::stylingDataFor), also after its set changed its style for all cards,
\* after undo and redo, and when it was copied and pasted.
THEOREM StylingAlwaysFits == Spec => []StylingFits
  <1>1. Inv => StylingFits
    BY Now DEF Fits, FitsFor, StylingFits
  <1> QED BY <1>1, Invariant, PTL

\* The card the panels edit is a card of the set, and the card list shows what
\* passes the filter once each (CardListBase::onAction, ItemList::refreshList).
THEOREM SelectionAlwaysShown == Spec => []SelectionShown
  <1>1. Inv => SelectionShown
    <2> SUFFICES ASSUME Inv PROVE SelectionShown
      OBVIOUS
    <2>1. set \in Sets /\ Unique(set.cards) /\ View(list, set, card, filter)
      BY Now
    <2>2. Range(getItems(set, card, filter)) = Range(list.sorted_list)
      BY <2>1, ItemsShown DEF View
    <2>3. PICK sl : sl = list.sorted_list
      OBVIOUS
    <2>4. sl \in Seq(CardIds) /\ Unique(sl)
      BY <2>1, <2>3 DEF View, Lists, Rows
    <2>5. DOMAIN sl = 1..Len(sl) /\ Range(sl) = {sl[i] : i \in 1..Len(sl)}
      BY <2>4 DEF Range
    <2>6. IsInjective(sl)
      BY <2>4, <2>5 DEF IsInjective, Unique
    <2>7. \A c \in CardIds : (\E i \in 1..Len(sl) : sl[i] = c) <=> c \in Range(sl)
      BY <2>5
    <2> QED BY <2>1, <2>2, <2>3, <2>6, <2>7 DEF SelectionShown, View, Placed, NoItem
  <1> QED BY <1>1, Invariant, PTL

\* While the list shows a card, one stays selected once one was
\* (ItemList::selectItemPos).
THEOREM SelectionAlwaysKept == Spec => SelectionKept
  <1>1. Inv /\ [Next]_vars
          => [list.selected_item # NoItem /\ list'.sorted_list # <<>>
                => list'.selected_item # NoItem]_vars
    BY NextKeeps DEF StillSelected, NoItem
  <1> QED BY <1>1, Invariant, PTL DEF Spec, SelectionKept
=============================================================================
