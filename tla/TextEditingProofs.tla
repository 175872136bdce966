------------------------- MODULE TextEditingProofs -------------------------
(***************************************************************************)
(* Theorems about TextEditing, for texts of any length, with any tags,     *)
(* formats and blocks, and any number of edits.                            *)
(*                                                                         *)
(* The invariant Inv says that the text and the texts on the stacks have   *)
(* all their tags closed, their blocks whole and their separators as they  *)
(* were written (Sound), that the actions of a stack lead from one to the  *)
(* next (Chained), and that the selection is valid (Selected).  Whether    *)
(* blocks are whole is told by reading a text once (Scan), which also      *)
(* counts its items: the parts before and after an edit can be looked at   *)
(* apart, and the number of items before a place outside of blocks is the  *)
(* cursor position there.  A second reading (Read) goes through the        *)
(* separators token by token and counts them.                              *)
(***************************************************************************)
EXTENDS TextEditing, PositionsProofs

Names == STRING \cup Formats \cup Blocks
Token == Kinds \X Names
Texts == Seq(Token)

LEMMA Joining ==
  ASSUME NEW a \in Texts, NEW b \in Texts, NEW u \in Token
  PROVE  /\ a \o b \in Texts /\ Append(a, u) \in Texts /\ <<>> \in Texts
         /\ a \o <<>> = a /\ <<>> \o a = a
         /\ Append(a, u) = a \o <<u>> /\ <<u>> \in Texts
  BY DEF Texts

LEMMA Joined ==
  ASSUME NEW a \in Texts, NEW b \in Texts
  PROVE  /\ a \o b \in Texts /\ Len(a \o b) = Len(a) + Len(b) /\ Len(a) \in Nat
         /\ a \o <<>> = a /\ <<>> \o a = a /\ <<>> \in Texts
  BY DEF Texts

LEMMA JoinLast ==
  ASSUME NEW a \in Texts, NEW b \in Texts, NEW u \in Token
  PROVE  a \o Append(b, u) = Append(a \o b, u)
  BY DEF Texts

LEMMA JoinThree ==
  ASSUME NEW a \in Texts, NEW b \in Texts, NEW c \in Texts
  PROVE  a \o (b \o c) = (a \o b) \o c
  <1> DEFINE l == a \o (b \o c)
             r == (a \o b) \o c
  <1>1. l \in Texts /\ r \in Texts /\ Len(l) = Len(a) + Len(b) + Len(c) /\ Len(r) = Len(l)
    BY DEF Texts
  <1>2. ASSUME NEW i \in 1..Len(l) PROVE l[i] = r[i]
    <2>1. Len(a) \in Nat /\ Len(b) \in Nat /\ Len(c) \in Nat /\ i \in Nat
      BY DEF Texts
    <2>2. CASE i <= Len(a)
      BY <1>1, <2>1, <2>2 DEF Texts
    <2>3. CASE Len(a) < i /\ i <= Len(a) + Len(b)
      BY <1>1, <2>1, <2>3 DEF Texts
    <2>4. CASE Len(a) + Len(b) < i
      BY <1>1, <2>1, <2>4 DEF Texts
    <2> QED BY <2>1, <2>2, <2>3, <2>4
  <1> HIDE DEF l, r
  <1>3. l = r
    BY <1>1, <1>2 DEF Texts
  <1> QED BY <1>3 DEF l, r

-----------------------------------------------------------------------------
(* How often a token is in a text.                                           *)

Count(s, t, n) == Cardinality({p \in 1..n : s[p] = t})
HowMany(s, t) == Count(s, t, Len(s))
One(u, t) == IF u = t THEN 1 ELSE 0

LEMMA CountSteps ==
  ASSUME NEW s, NEW t, NEW n \in Nat
  PROVE  /\ Count(s, t, n) \in Nat
         /\ Count(s, t, 0) = 0
         /\ Count(s, t, n + 1) = Count(s, t, n) + One(s[n + 1], t)
  <1> DEFINE C(m) == {p \in 1..m : s[p] = t}
  <1>1. ASSUME NEW m \in Nat PROVE IsFiniteSet(C(m)) /\ Cardinality(C(m)) \in Nat
    BY PositionsFinite
  <1>2. C(0) = {}
    OBVIOUS
  <1>3. CASE s[n + 1] = t
    <2>1. C(n + 1) = C(n) \cup {n + 1} /\ n + 1 \notin C(n)
      BY <1>3
    <2>2. IsFiniteSet(C(n)) /\ Cardinality(C(n)) \in Nat
      BY <1>1
    <2> HIDE DEF C
    <2>3. Cardinality(C(n + 1)) = Cardinality(C(n)) + 1
      BY <2>1, <2>2, FS_AddElement
    <2> QED BY <1>1, <1>2, <1>3, <2>3, FS_EmptySet DEF Count, C, One
  <1>4. CASE s[n + 1] # t
    <2>1. C(n + 1) = C(n)
      BY <1>4
    <2> QED BY <1>1, <1>2, <1>4, <2>1, FS_EmptySet DEF Count, One
  <1> QED BY <1>3, <1>4

LEMMA CountSame ==
  ASSUME NEW s, NEW r, NEW t, NEW n \in Nat, \A p \in 1..n : s[p] = r[p]
  PROVE  Count(s, t, n) = Count(r, t, n)
  <1>1. {p \in 1..n : s[p] = t} = {p \in 1..n : r[p] = t}
    OBVIOUS
  <1> QED BY <1>1 DEF Count

LEMMA HowManyAppend ==
  ASSUME NEW S, NEW s \in Seq(S), NEW u \in S, NEW t
  PROVE  /\ HowMany(s, t) \in Nat
         /\ HowMany(Append(s, u), t) = HowMany(s, t) + One(u, t)
  <1> DEFINE r == Append(s, u)
  <1>1. Len(s) \in Nat /\ Len(r) = Len(s) + 1 /\ r[Len(s) + 1] = u /\ \A p \in 1..Len(s) : r[p] = s[p]
    OBVIOUS
  <1> HIDE DEF r
  <1>2. Count(r, t, Len(s)) = Count(s, t, Len(s))
    BY <1>1, CountSame
  <1>3. Count(r, t, Len(s) + 1) = Count(r, t, Len(s)) + One(u, t)
    BY <1>1, CountSteps
  <1> QED BY <1>1, <1>2, <1>3, CountSteps DEF HowMany, r

LEMMA HowManyEmpty ==
  ASSUME NEW t PROVE HowMany(<<>>, t) = 0
  <1>1. Len(<<>>) = 0
    OBVIOUS
  <1> QED BY <1>1, CountSteps DEF HowMany

LEMMA HowManyConcat ==
  ASSUME NEW S, NEW t, NEW a \in Seq(S)
  PROVE  \A b \in Seq(S) : /\ HowMany(a \o b, t) = HowMany(a, t) + HowMany(b, t)
                           /\ HowMany(a, t) \in Nat /\ HowMany(b, t) \in Nat
  <1> DEFINE P == {b \in Seq(S) : /\ HowMany(a \o b, t) = HowMany(a, t) + HowMany(b, t)
                                  /\ HowMany(a, t) \in Nat /\ HowMany(b, t) \in Nat}
  <1>1. <<>> \in P
    <2>1. a \o <<>> = a /\ <<>> \in Seq(S) /\ Len(a) \in Nat
      OBVIOUS
    <2>2. HowMany(a, t) \in Nat
      BY <2>1, CountSteps DEF HowMany
    <2> QED BY <2>1, <2>2, HowManyEmpty
  <1>2. ASSUME NEW b \in Seq(S), NEW u \in S, b \in P PROVE Append(b, u) \in P
    <2>1. a \o Append(b, u) = Append(a \o b, u) /\ a \o b \in Seq(S) /\ Append(b, u) \in Seq(S)
      OBVIOUS
    <2>2. HowMany(Append(a \o b, u), t) = HowMany(a \o b, t) + One(u, t)
      BY <2>1, HowManyAppend
    <2>3. HowMany(Append(b, u), t) = HowMany(b, t) + One(u, t) /\ HowMany(b, t) \in Nat
      BY HowManyAppend
    <2>4. One(u, t) \in Nat
      BY DEF One
    <2>5. HowMany(a \o b, t) = HowMany(a, t) + HowMany(b, t) /\ HowMany(a, t) \in Nat
      BY <1>2
    <2>6. /\ HowMany(a \o Append(b, u), t) = HowMany(a, t) + HowMany(Append(b, u), t)
          /\ HowMany(Append(b, u), t) \in Nat
      BY <2>1, <2>2, <2>3, <2>4, <2>5
    <2> QED BY <2>1, <2>5, <2>6
  <1>3. Seq(S) \subseteq P
    <2> HIDE DEF P
    <2> QED BY <1>1, <1>2, ByAppending
  <1> QED BY <1>3

\* What is counted is there.
LEMMA HowManyZero ==
  ASSUME NEW S, NEW s \in Seq(S), NEW t
  PROVE  HowMany(s, t) = 0 <=> \A p \in 1..Len(s) : s[p] # t
  <1> DEFINE C == {p \in 1..Len(s) : s[p] = t}
  <1>1. IsFiniteSet(C)
    <2>1. Len(s) \in Nat
      OBVIOUS
    <2> QED BY <2>1, PositionsFinite
  <1>2. Cardinality(C) = 0 <=> C = {}
    BY <1>1, FS_EmptySet
  <1> QED BY <1>2 DEF HowMany, Count

-----------------------------------------------------------------------------
(* How many tags are open.                                                   *)

Delta(t, x) == One(t, Open(x)) - One(t, Close(x))
Net(s, x) == Level(s, x, Len(s))
NonNeg(s, x) == \A pos \in 0..Len(s) : Level(s, x, pos) >= 0

LEMMA LevelSteps ==
  ASSUME NEW s, NEW x, NEW n \in Nat
  PROVE  /\ Level(s, x, n) \in Int
         /\ Level(s, x, 0) = 0
         /\ Level(s, x, n + 1) = Level(s, x, n) + Delta(s[n + 1], x)
  <1>1. \A t : /\ Count(s, t, n) \in Nat /\ Count(s, t, 0) = 0
               /\ Count(s, t, n + 1) = Count(s, t, n) + One(s[n + 1], t)
    BY CountSteps
  <1>2. \A m : Level(s, x, m) = Count(s, Open(x), m) - Count(s, Close(x), m)
    BY DEF Level, Count
  <1>3. \A u, t : One(u, t) \in Nat
    BY DEF One
  <1> QED BY <1>1, <1>2, <1>3 DEF Delta

LEMMA LevelSame ==
  ASSUME NEW s, NEW r, NEW x, NEW n \in Nat, \A p \in 1..n : s[p] = r[p]
  PROVE  Level(s, x, n) = Level(r, x, n)
  <1>1. \A t : Count(s, t, n) = Count(r, t, n)
    BY CountSame
  <1> QED BY <1>1 DEF Level, Count

LEMMA NetIs ==
  ASSUME NEW s, NEW x
  PROVE  Net(s, x) = HowMany(s, Open(x)) - HowMany(s, Close(x))
  BY DEF Net, Level, HowMany, Count

LEMMA NetAppend ==
  ASSUME NEW S, NEW s \in Seq(S), NEW t \in S, NEW x
  PROVE  /\ Net(s, x) \in Int
         /\ Net(Append(s, t), x) = Net(s, x) + Delta(t, x)
         /\ NonNeg(Append(s, t), x) <=> NonNeg(s, x) /\ Net(s, x) + Delta(t, x) >= 0
  <1> DEFINE r == Append(s, t)
  <1>1. Len(s) \in Nat /\ Len(r) = Len(s) + 1 /\ r[Len(s) + 1] = t /\ \A p \in 1..Len(s) : r[p] = s[p]
    OBVIOUS
  <1> HIDE DEF r
  <1>2. ASSUME NEW n \in 0..Len(s) PROVE Level(r, x, n) = Level(s, x, n)
    BY <1>1, LevelSame
  <1>3. Level(r, x, Len(s) + 1) = Level(s, x, Len(s)) + Delta(t, x) /\ Level(s, x, Len(s)) \in Int
    <2>1. Level(r, x, Len(s) + 1) = Level(r, x, Len(s)) + Delta(r[Len(s) + 1], x)
      BY <1>1, LevelSteps
    <2>2. Level(s, x, Len(s)) \in Int
      BY <1>1, LevelSteps
    <2>3. Len(s) \in 0..Len(s)
      BY <1>1
    <2>4. Level(r, x, Len(s)) = Level(s, x, Len(s))
      BY <1>2, <2>3
    <2> QED BY <1>1, <2>1, <2>2, <2>4
  <1>4. 0..Len(r) = 0..Len(s) \cup {Len(s) + 1}
    BY <1>1
  <1> QED BY <1>1, <1>2, <1>3, <1>4 DEF Net, NonNeg, r

LEMMA LevelConcat ==
  ASSUME NEW S, NEW a \in Seq(S), NEW b \in Seq(S), NEW x
  PROVE  /\ \A n \in 0..Len(a) : Level(a \o b, x, n) = Level(a, x, n)
         /\ \A n \in 0..Len(b) : Level(a \o b, x, Len(a) + n) = Net(a, x) + Level(b, x, n)
         /\ Net(a \o b, x) = Net(a, x) + Net(b, x)
         /\ Net(a, x) \in Int /\ Net(b, x) \in Int
         /\ NonNeg(a \o b, x) <=> NonNeg(a, x) /\ \A n \in 0..Len(b) : Net(a, x) + Level(b, x, n) >= 0
  <1> DEFINE c == a \o b
  <1>1. /\ Len(a) \in Nat /\ Len(b) \in Nat /\ Len(c) = Len(a) + Len(b)
        /\ \A p \in 1..Len(a) : c[p] = a[p]
        /\ \A p \in 1..Len(b) : c[Len(a) + p] = b[p]
    OBVIOUS
  <1> HIDE DEF c
  <1>2. ASSUME NEW n \in 0..Len(a) PROVE Level(c, x, n) = Level(a, x, n)
    BY <1>1, LevelSame
  <1>3. Net(a, x) \in Int /\ Net(b, x) \in Int
    BY <1>1, LevelSteps DEF Net
  <1> DEFINE E == {n \in Nat : n <= Len(b) => Level(c, x, Len(a) + n) = Net(a, x) + Level(b, x, n)}
  <1>4. 0 \in E
    <2>1. Len(a) + 0 = Len(a) /\ Len(a) \in 0..Len(a)
      BY <1>1
    <2>2. Level(c, x, Len(a) + 0) = Net(a, x)
      BY <1>2, <2>1 DEF Net
    <2>3. Level(b, x, 0) = 0
      BY LevelSteps
    <2> QED BY <1>3, <2>2, <2>3
  <1>5. ASSUME NEW n \in 0..Len(b) - 1, n \in E PROVE n + 1 \in E
    <2>1. n \in Nat /\ n + 1 \in 1..Len(b) /\ Len(a) + n \in Nat /\ Len(a) + (n + 1) = (Len(a) + n) + 1
      BY <1>1
    <2>2. Level(c, x, Len(a) + (n + 1)) = Level(c, x, Len(a) + n) + Delta(c[Len(a) + (n + 1)], x)
      BY <2>1, LevelSteps
    <2>3. Level(b, x, n + 1) = Level(b, x, n) + Delta(b[n + 1], x) /\ Level(b, x, n) \in Int
      BY <2>1, LevelSteps
    <2>4. c[Len(a) + (n + 1)] = b[n + 1]
      BY <1>1, <2>1
    <2>5. Level(c, x, Len(a) + n) = Net(a, x) + Level(b, x, n)
      BY <1>5, <2>1
    <2>6. Delta(b[n + 1], x) \in Int
      BY DEF Delta, One
    <2> QED BY <1>3, <2>1, <2>2, <2>3, <2>4, <2>5, <2>6
  <1>6. 0..Len(b) \subseteq E
    <2> HIDE DEF E
    <2> QED BY <1>1, <1>4, <1>5, UpTo
  <1>7. ASSUME NEW n \in 0..Len(b) PROVE Level(c, x, Len(a) + n) = Net(a, x) + Level(b, x, n)
    BY <1>6
  <1>8. Net(c, x) = Net(a, x) + Net(b, x)
    BY <1>1, <1>7 DEF Net
  <1>9. NonNeg(c, x) <=> NonNeg(a, x) /\ \A n \in 0..Len(b) : Net(a, x) + Level(b, x, n) >= 0
    <2>1. \A n \in 0..Len(c) : n \in 0..Len(a) \/ (n - Len(a) \in 0..Len(b) /\ n = Len(a) + (n - Len(a)))
      BY <1>1
    <2>2. \A n \in 0..Len(a) : n \in 0..Len(c)
      BY <1>1
    <2>3. \A n \in 0..Len(b) : Len(a) + n \in 0..Len(c)
      BY <1>1
    <2>4. ASSUME NonNeg(c, x)
          PROVE  NonNeg(a, x) /\ \A n \in 0..Len(b) : Net(a, x) + Level(b, x, n) >= 0
      BY <1>2, <1>7, <2>2, <2>3, <2>4 DEF NonNeg
    <2>5. ASSUME NonNeg(a, x), \A n \in 0..Len(b) : Net(a, x) + Level(b, x, n) >= 0
          PROVE  NonNeg(c, x)
      <3> SUFFICES ASSUME NEW n \in 0..Len(c) PROVE Level(c, x, n) >= 0
        BY DEF NonNeg
      <3>1. CASE n \in 0..Len(a)
        BY <1>2, <2>5, <3>1 DEF NonNeg
      <3>2. CASE n - Len(a) \in 0..Len(b) /\ n = Len(a) + (n - Len(a))
        <4>1. Level(c, x, n) = Net(a, x) + Level(b, x, n - Len(a))
          BY <1>7, <3>2
        <4> QED BY <2>5, <3>2, <4>1
      <3> QED BY <2>1, <3>1, <3>2
    <2> QED BY <2>4, <2>5
  <1> QED BY <1>2, <1>3, <1>7, <1>8, <1>9 DEF c

\* Closing no more tags than are open before never goes below zero.
LEMMA NonNegConcat ==
  ASSUME NEW S, NEW a \in Seq(S), NEW b \in Seq(S), NEW x, NonNeg(a, x),
         Net(a, x) >= HowMany(b, Close(x))
  PROVE  NonNeg(a \o b, x)
  <1> SUFFICES ASSUME NEW n \in 0..Len(b) PROVE Net(a, x) + Level(b, x, n) >= 0
    BY LevelConcat
  <1>1. Level(b, x, n) = Count(b, Open(x), n) - Count(b, Close(x), n)
    BY DEF Level, Count
  <1>2. n \in Nat /\ Len(b) \in Nat
    OBVIOUS
  <1>3. Count(b, Open(x), n) \in Nat /\ Count(b, Close(x), n) \in Nat
    BY <1>2, CountSteps
  <1>4. Count(b, Close(x), n) <= HowMany(b, Close(x)) /\ HowMany(b, Close(x)) \in Nat
    <2> DEFINE C(m) == {p \in 1..m : b[p] = Close(x)}
    <2>1. C(n) \subseteq C(Len(b))
      BY <1>2
    <2>2. IsFiniteSet(C(Len(b))) /\ Cardinality(C(Len(b))) \in Nat
      BY <1>2, PositionsFinite
    <2> HIDE DEF C
    <2>3. Cardinality(C(n)) <= Cardinality(C(Len(b)))
      BY <2>1, <2>2, FS_Subset
    <2> QED BY <2>2, <2>3 DEF HowMany, Count, C
  <1>5. Net(a, x) \in Int
    BY LevelConcat
  <1> QED BY <1>1, <1>3, <1>4, <1>5

\* Balanced tags, of whichever name.
LEMMA BalancedIs ==
  ASSUME NEW s \in Texts
  PROVE  Balanced(s) <=> \A x : NonNeg(s, x) /\ Net(s, x) = 0
  <1> DEFINE Tags == {t[2] : t \in {u \in Range(s) : IsTag(u)}}
  <1>1. Balanced(s) <=> \A x \in Tags : NonNeg(s, x) /\ Net(s, x) = 0
    BY DEF Balanced, NonNeg, Net
  <1>2. ASSUME NEW x, x \notin Tags PROVE NonNeg(s, x) /\ Net(s, x) = 0
    <2>1. ASSUME NEW p \in 1..Len(s) PROVE s[p] # Open(x) /\ s[p] # Close(x)
      <3>1. s[p] \in Range(s)
        BY DEF Range
      <3>2. IsTag(s[p]) => s[p][2] \in Tags
        BY <3>1
      <3>3. IsTag(Open(x)) /\ Open(x)[2] = x /\ IsTag(Close(x)) /\ Close(x)[2] = x
        BY DEF IsTag, IsChar, Open, Close
      <3> HIDE DEF Tags
      <3> QED BY <1>2, <3>2, <3>3
    <2>2. ASSUME NEW n \in 0..Len(s) PROVE Level(s, x, n) = 0
      <3>1. {p \in 1..n : s[p] = Open(x)} = {} /\ {p \in 1..n : s[p] = Close(x)} = {}
        BY <2>1
      <3>2. Level(s, x, n) = Cardinality({}) - Cardinality({})
        BY <3>1 DEF Level
      <3> QED BY <3>2, FS_EmptySet
    <2>3. Len(s) \in 0..Len(s)
      BY DEF Texts
    <2> QED BY <2>2, <2>3 DEF NonNeg, Net
  <1> HIDE DEF Tags
  <1> QED BY <1>1, <1>2

-----------------------------------------------------------------------------
(* Going through a text, token by token.                                     *)

Runs(g, s, init, step) ==
    /\ g = [i \in 0..Len(s) |-> g[i]] /\ g[0] = init
    /\ \A i \in 1..Len(s) : g[i] = step[<<g[i - 1], s[i]>>]
Through(s, init, step) ==
    LET run[n \in 0..Len(s)] == IF n = 0 THEN init ELSE step[<<run[n - 1], s[n]>>]
    IN  run[Len(s)]

LEMMA ThroughIs ==
  ASSUME NEW s, NEW init, NEW step, Len(s) \in Nat, NEW g, Runs(g, s, init, step)
  PROVE  Through(s, init, step) = g[Len(s)]
  <1> DEFINE body(h) == [n \in 0..Len(s) |-> IF n = 0 THEN init ELSE step[<<h[n - 1], s[n]>>]]
             run == CHOOSE h : h = body(h)
  <1>1. g = body(g)
    <2>1. \A n \in 0..Len(s) : n = 0 \/ n \in 1..Len(s)
      OBVIOUS
    <2>2. \A n \in 0..Len(s) : g[n] = IF n = 0 THEN init ELSE step[<<g[n - 1], s[n]>>]
      BY <2>1 DEF Runs
    <2> QED BY <2>2 DEF Runs
  <1>2. run = body(run)
    BY <1>1
  <1>3. \A n \in 0..Len(s) : run[n] = IF n = 0 THEN init ELSE step[<<run[n - 1], s[n]>>]
    <2> HIDE DEF run
    <2> QED BY <1>2
  <1> DEFINE E == {n \in Nat : n <= Len(s) => run[n] = g[n]}
  <1>4. 0 \in E
    <2>1. 0 \in 0..Len(s) /\ g[0] = init
      BY DEF Runs
    <2>2. run[0] = init
      BY <1>3, <2>1
    <2> QED BY <2>1, <2>2
  <1>5. ASSUME NEW n \in 0..Len(s) - 1, n \in E PROVE n + 1 \in E
    <2>1. n + 1 \in 1..Len(s) /\ n + 1 \in 0..Len(s) /\ (n + 1) - 1 = n /\ run[n] = g[n] /\ n + 1 # 0
      BY <1>5
    <2>2. run[n + 1] = step[<<run[n], s[n + 1]>>]
      <3> HIDE DEF run
      <3>1. run[n + 1] = step[<<run[(n + 1) - 1], s[n + 1]>>]
        BY <1>3, <2>1
      <3> QED BY <2>1, <3>1
    <2>3. g[n + 1] = step[<<g[n], s[n + 1]>>]
      <3>1. g[n + 1] = step[<<g[(n + 1) - 1], s[n + 1]>>]
        BY <2>1 DEF Runs
      <3> QED BY <2>1, <3>1
    <2>4. run[n + 1] = g[n + 1]
      <3> HIDE DEF run
      <3> QED BY <2>1, <2>2, <2>3
    <2> HIDE DEF run
    <2> QED BY <2>4
  <1>6. 0..Len(s) \subseteq E
    <2> HIDE DEF E
    <2> QED BY <1>4, <1>5, UpTo
  <1>7. run[Len(s)] = g[Len(s)]
    BY <1>6
  <1> QED BY <1>7 DEF Through

LEMMA ThroughEmpty ==
  ASSUME NEW init, NEW step
  PROVE  Runs([i \in 0..0 |-> init], <<>>, init, step) /\ Through(<<>>, init, step) = init
  <1> DEFINE g == [i \in 0..0 |-> init]
  <1>1. Len(<<>>) = 0 /\ g[0] = init
    OBVIOUS
  <1>2. g = [i \in 0..0 |-> g[i]]
    OBVIOUS
  <1>3. \A i \in 1..0 : FALSE
    OBVIOUS
  <1> HIDE DEF g
  <1>4. Runs(g, <<>>, init, step)
    BY <1>1, <1>2, <1>3 DEF Runs
  <1> QED BY <1>1, <1>4, ThroughIs DEF g

\* One more token is one more step.
LEMMA ThroughSteps ==
  ASSUME NEW S, NEW init, NEW step
  PROVE  \A s \in Seq(S), x \in S :
           Through(Append(s, x), init, step) = step[<<Through(s, init, step), x>>]
  <1> DEFINE Longer(s, x, g) == [i \in 0..Len(s) + 1 |-> IF i = Len(s) + 1 THEN step[<<g[Len(s)], x>>]
                                                         ELSE g[i]]
             P == {s \in Seq(S) : \E g : Runs(g, s, init, step)}
  <1>1. ASSUME NEW s \in Seq(S), NEW x \in S, NEW g, Runs(g, s, init, step)
        PROVE  Runs(Longer(s, x, g), Append(s, x), init, step)
    <2> DEFINE n == Len(s)
               t == Append(s, x)
               h == [i \in 0..n + 1 |-> IF i = n + 1 THEN step[<<g[n], x>>] ELSE g[i]]
    <2>1. n \in Nat /\ Len(t) = n + 1 /\ t[n + 1] = x /\ \A i \in 1..n : t[i] = s[i]
      OBVIOUS
    <2> HIDE DEF n, t
    <2>2. h = [i \in 0..n + 1 |-> h[i]] /\ h[0] = init
      BY <1>1, <2>1 DEF Runs, n
    <2>3. ASSUME NEW i \in 1..n + 1 PROVE h[i] = step[<<h[i - 1], t[i]>>]
      <3>1. CASE i = n + 1
        <4>1. h[i] = step[<<g[n], x>>] /\ h[i - 1] = g[n] /\ t[i] = x
          BY <2>1, <3>1
        <4> QED BY <4>1
      <3>2. CASE i # n + 1
        <4>1. i \in 1..n /\ h[i] = g[i] /\ h[i - 1] = g[i - 1] /\ t[i] = s[i]
          BY <2>1, <3>2
        <4>2. g[i] = step[<<g[i - 1], s[i]>>]
          BY <1>1, <4>1 DEF Runs, n
        <4> HIDE DEF h
        <4> QED BY <4>1, <4>2
      <3> QED BY <3>1, <3>2
    <2>4. Runs(h, t, init, step)
      <3> HIDE DEF h
      <3> QED BY <2>1, <2>2, <2>3 DEF Runs
    <2> QED BY <2>4 DEF n, t
  <1>2. <<>> \in P
    <2>1. <<>> \in Seq(S)
      OBVIOUS
    <2>2. Runs([i \in 0..0 |-> init], <<>>, init, step)
      BY ThroughEmpty
    <2> QED BY <2>1, <2>2
  <1>3. \A s \in Seq(S), x \in S : s \in P => Append(s, x) \in P
    <2> SUFFICES ASSUME NEW s \in Seq(S), NEW x \in S, NEW g, Runs(g, s, init, step)
                 PROVE  Append(s, x) \in P
      OBVIOUS
    <2>1. Append(s, x) \in Seq(S)
      OBVIOUS
    <2> HIDE DEF Longer
    <2> QED BY <1>1, <2>1
  <1>4. Seq(S) \subseteq P
    <2> HIDE DEF P
    <2> QED BY <1>2, <1>3, ByAppending
  <1>5. ASSUME NEW s \in Seq(S), NEW x \in S
        PROVE  Through(Append(s, x), init, step) = step[<<Through(s, init, step), x>>]
    <2>1. PICK g : Runs(g, s, init, step)
      BY <1>4
    <2> DEFINE t == Append(s, x)
               h == Longer(s, x, g)
    <2>2. Len(s) \in Nat /\ Len(t) = Len(s) + 1 /\ h[Len(s) + 1] = step[<<g[Len(s)], x>>]
      OBVIOUS
    <2>3. Runs(h, t, init, step)
      <3> HIDE DEF Longer
      <3> QED BY <1>1, <2>1
    <2>4. Through(s, init, step) = g[Len(s)]
      BY <2>1, <2>2, ThroughIs
    <2> HIDE DEF t, h
    <2>5. Through(t, init, step) = h[Len(s) + 1]
      BY <2>2, <2>3, ThroughIs
    <2> QED BY <2>2, <2>4, <2>5 DEF t
  <1> QED BY <1>5

LEMMA ThroughAppend ==
  ASSUME NEW S, NEW init, NEW step, NEW s \in Seq(S), NEW x \in S
  PROVE  Through(Append(s, x), init, step) = step[<<Through(s, init, step), x>>]
  BY ThroughSteps

\* Through one text and then through the other.
LEMMA ThroughConcat ==
  ASSUME NEW S, NEW init, NEW step, NEW a \in Seq(S)
  PROVE  \A b \in Seq(S) :
           Through(a \o b, init, step) = Through(b, Through(a, init, step), step)
  <1> DEFINE mid == Through(a, init, step)
             P == {b \in Seq(S) : Through(a \o b, init, step) = Through(b, mid, step)}
  <1> HIDE DEF mid
  <1>1. <<>> \in P
    <2>1. a \o <<>> = a /\ <<>> \in Seq(S)
      OBVIOUS
    <2> QED BY <2>1, ThroughEmpty DEF mid
  <1>2. ASSUME NEW b \in Seq(S), NEW u \in S, b \in P PROVE Append(b, u) \in P
    <2> DEFINE c == a \o b
    <2>1. a \o Append(b, u) = Append(c, u) /\ c \in Seq(S) /\ Append(b, u) \in Seq(S)
      OBVIOUS
    <2> HIDE DEF c
    <2>2. Through(Append(c, u), init, step) = step[<<Through(c, init, step), u>>]
      BY <2>1, ThroughAppend
    <2>3. Through(Append(b, u), mid, step) = step[<<Through(b, mid, step), u>>]
      BY ThroughAppend
    <2>4. Through(c, init, step) = Through(b, mid, step)
      BY <1>2 DEF c
    <2>5. Through(a \o Append(b, u), init, step) = Through(Append(b, u), mid, step)
      BY <2>1, <2>2, <2>3, <2>4
    <2> QED BY <2>1, <2>5
  <1>3. Seq(S) \subseteq P
    <2> HIDE DEF P
    <2> QED BY <1>1, <1>2, ByAppending
  <1> QED BY <1>3 DEF mid

\* What a loop over a text can come to.
LEMMA LoopIsThrough ==
  ASSUME NEW S, NEW D, NEW init \in D, NEW s \in Seq(S), NEW step \in [D \X S -> D]
  PROVE  /\ \E g \in [0..Len(s) -> D] : Runs(g, s, init, step)
         /\ Through(s, init, step) \in D
  <1> DEFINE P == {r \in Seq(S) : \E g \in [0..Len(r) -> D] : Runs(g, r, init, step)}
  <1>1. <<>> \in P
    <2> DEFINE g == [i \in 0..0 |-> init]
    <2>1. <<>> \in Seq(S) /\ Len(<<>>) = 0 /\ g \in [0..0 -> D]
      OBVIOUS
    <2>2. Runs(g, <<>>, init, step)
      BY ThroughEmpty
    <2> HIDE DEF g
    <2> QED BY <2>1, <2>2
  <1>2. ASSUME NEW r \in Seq(S), NEW x \in S, r \in P PROVE Append(r, x) \in P
    <2> DEFINE n == Len(r)
               t == Append(r, x)
    <2>1. PICK g \in [0..Len(r) -> D] : Runs(g, r, init, step)
      BY <1>2
    <2> DEFINE h == [i \in 0..n + 1 |-> IF i = n + 1 THEN step[<<g[n], x>>] ELSE g[i]]
    <2>2. n \in Nat /\ Len(t) = n + 1 /\ t[n + 1] = x /\ t \in Seq(S) /\ \A i \in 1..n : t[i] = r[i]
      OBVIOUS
    <2>3. g \in [0..n -> D]
      BY <2>1
    <2> HIDE DEF n, t
    <2>4. g[n] \in D
      BY <2>2, <2>3
    <2>5. step[<<g[n], x>>] \in D
      BY <2>4
    <2>6. h \in [0..n + 1 -> D]
      BY <2>2, <2>3, <2>5
    <2>7. h = [i \in 0..n + 1 |-> h[i]] /\ h[0] = init
      BY <2>1, <2>2 DEF Runs, n
    <2>8. ASSUME NEW i \in 1..n + 1 PROVE h[i] = step[<<h[i - 1], t[i]>>]
      <3>1. CASE i = n + 1
        <4>1. h[i] = step[<<g[n], x>>] /\ h[i - 1] = g[n] /\ t[i] = x
          BY <2>2, <3>1
        <4> QED BY <4>1
      <3>2. CASE i # n + 1
        <4>1. i \in 1..n /\ h[i] = g[i] /\ h[i - 1] = g[i - 1] /\ t[i] = r[i]
          BY <2>2, <3>2
        <4>2. g[i] = step[<<g[i - 1], r[i]>>]
          BY <2>1, <4>1 DEF Runs, n
        <4> HIDE DEF h
        <4> QED BY <4>1, <4>2
      <3> QED BY <3>1, <3>2
    <2> HIDE DEF h
    <2>9. Runs(h, t, init, step)
      BY <2>2, <2>7, <2>8 DEF Runs
    <2> QED BY <2>2, <2>6, <2>9 DEF t
  <1>3. Seq(S) \subseteq P
    <2> HIDE DEF P
    <2> QED BY <1>1, <1>2, ByAppending
  <1>4. PICK g \in [0..Len(s) -> D] : Runs(g, s, init, step)
    BY <1>3
  <1>5. Through(s, init, step) = g[Len(s)] /\ g[Len(s)] \in D
    <2>1. Len(s) \in Nat
      OBVIOUS
    <2> QED BY <1>4, <2>1, ThroughIs
  <1> QED BY <1>4, <1>5

\* A loop that does at each token what the function does comes to the same.
Loops(done, s, init, step, S, D) ==
    /\ s \in Seq(S) /\ init \in D /\ step \in [D \X S -> D]
    /\ done = [i \in 0..Len(s) |-> done[i]] /\ done[0] = init
    /\ \A i \in 1..Len(s) : done[i - 1] \in D => done[i] = step[<<done[i - 1], s[i]>>]

LEMMA LoopEnds ==
  ASSUME NEW S, NEW D, NEW init, NEW s, NEW step, NEW done, Loops(done, s, init, step, S, D)
  PROVE  /\ done[Len(s)] = Through(s, init, step)
         /\ \A n \in 0..Len(s) : done[n] \in D
  <1>0. /\ s \in Seq(S) /\ init \in D /\ step \in [D \X S -> D]
        /\ done = [i \in 0..Len(s) |-> done[i]] /\ done[0] = init
        /\ \A i \in 1..Len(s) : done[i - 1] \in D => done[i] = step[<<done[i - 1], s[i]>>]
    BY DEF Loops
  <1> DEFINE E == {n \in Nat : n <= Len(s) => done[n] \in D}
  <1>1. Len(s) \in Nat /\ \A i \in 1..Len(s) : s[i] \in S
    BY <1>0
  <1>2. 0 \in E
    BY <1>0
  <1>3. ASSUME NEW n \in 0..Len(s) - 1, n \in E PROVE n + 1 \in E
    <2>1. n + 1 \in 1..Len(s) /\ (n + 1) - 1 = n /\ done[n] \in D /\ s[n + 1] \in S
      BY <1>1, <1>3
    <2>2. done[n + 1] = step[<<done[n], s[n + 1]>>]
      BY <1>0, <2>1
    <2> QED BY <1>0, <2>1, <2>2
  <1>4. 0..Len(s) \subseteq E
    <2> HIDE DEF E
    <2> QED BY <1>1, <1>2, <1>3, UpTo
  <1>5. \A n \in 0..Len(s) : done[n] \in D
    BY <1>4
  <1>6. Runs(done, s, init, step)
    <2>1. ASSUME NEW i \in 1..Len(s) PROVE done[i] = step[<<done[i - 1], s[i]>>]
      <3>1. i - 1 \in 0..Len(s)
        BY <1>1
      <3>2. done[i - 1] \in D
        BY <1>5, <3>1
      <3> QED BY <1>0, <3>2
    <2> QED BY <1>0, <2>1 DEF Runs
  <1> QED BY <1>1, <1>5, <1>6, ThroughIs

-----------------------------------------------------------------------------
(* Cancelling tags.                                                          *)

LEMMA TokenIs ==
  ASSUME NEW t \in Token
  PROVE  /\ t[1] \in Kinds /\ t[2] \in Names /\ t = <<t[1], t[2]>>
         /\ IsChar(t) <=> ~IsTag(t)
         /\ IsTag(t) => /\ t = Open(t[2]) \/ t = Close(t[2])
                        /\ t = Open(t[2]) => anti_tag(t) = Close(t[2])
                        /\ t = Close(t[2]) => anti_tag(t) = Open(t[2])
                        /\ anti_tag(t) \in Token /\ IsTag(anti_tag(t))
                        /\ IsFormat(anti_tag(t)) <=> IsFormat(t)
                        /\ IsBlockTag(anti_tag(t)) <=> IsBlockTag(t)
  BY DEF Token, Kinds, IsChar, IsTag, IsFormat, IsBlockTag, Open, Close, anti_tag

LEMMA TagsDiffer ==
  ASSUME NEW x, NEW y
  PROVE  /\ Open(x) # Close(y)
         /\ Open(x) = Open(y) <=> x = y
         /\ Close(x) = Close(y) <=> x = y
         /\ IsTag(Open(x)) /\ IsTag(Close(x)) /\ Open(x)[2] = x /\ Close(x)[2] = x
         /\ anti_tag(Open(x)) = Close(x) /\ anti_tag(Close(x)) = Open(x)
         /\ Open(x)[1] = "open" /\ Close(x)[1] = "close"
  BY DEF Open, Close, IsTag, IsChar, anti_tag

\* A set of numbers has a least one.
LEMMA LeastIs ==
  ASSUME NEW S \in SUBSET Nat, S # {}
  PROVE  Min(S) \in S /\ \A i \in S : Min(S) <= i
  <1>1. \E i \in S : \A j \in S : i <= j
    BY Least
  <1> QED BY <1>1 DEF Min

\* A token in the middle taken out.
LEMMA TakenOut ==
  ASSUME NEW a \in Texts, NEW b \in Texts, NEW u \in Token
  PROVE  /\ a \o <<u>> = Append(a, u) /\ Append(a, u) \o b \in Texts /\ a \o b \in Texts
         /\ \A v : HowMany(Append(a, u) \o b, v) = HowMany(a \o b, v) + One(u, v)
         /\ \A v : HowMany(a \o b, v) \in Nat
  <1>1. a \o <<u>> = Append(a, u) /\ Append(a, u) \o b \in Texts /\ a \o b \in Texts /\ Append(a, u) \in Texts
    BY DEF Texts
  <1>2. ASSUME NEW v
        PROVE  /\ HowMany(Append(a, u) \o b, v) = HowMany(a \o b, v) + One(u, v)
               /\ HowMany(a \o b, v) \in Nat
    <2>1. /\ HowMany(Append(a, u) \o b, v) = HowMany(Append(a, u), v) + HowMany(b, v)
          /\ HowMany(b, v) \in Nat
      BY <1>1, HowManyConcat DEF Texts
    <2>2. HowMany(a \o b, v) = HowMany(a, v) + HowMany(b, v)
      BY HowManyConcat DEF Texts
    <2>3. HowMany(Append(a, u), v) = HowMany(a, v) + One(u, v) /\ HowMany(a, v) \in Nat
      BY HowManyAppend DEF Texts
    <2>4. One(u, v) \in Nat
      BY DEF One
    <2> QED BY <2>1, <2>2, <2>3, <2>4
  <1> QED BY <1>1, <1>2

\* A tag takes the first opposite tag with it, or it is added.
Cancels(t, all) == all \/ t[1] = "close" \/ IsFormat(t)

LEMMA Cancelled ==
  ASSUME NEW t \in Token, IsTag(t), NEW stack \in Texts, NEW all \in BOOLEAN
  PROVE  \/ \E a, b \in Texts : /\ stack = Append(a, anti_tag(t)) \o b
                                /\ add_or_cancel_tag(t, stack, all) = a \o b
                                /\ Cancels(t, all)
         \/ /\ add_or_cancel_tag(t, stack, all) = Append(stack, t)
            /\ Cancels(t, all) => HowMany(stack, anti_tag(t)) = 0
  <1> DEFINE u == anti_tag(t)
             I == {i \in 1..Len(stack) : stack[i] = u}
             found == SelectInSeq(stack, LAMBDA s : s = anti_tag(t))
  <1>1. found = IF I # {} THEN Min(I) ELSE 0
    BY DEF SelectInSeq
  <1>2. Len(stack) \in Nat /\ I \in SUBSET Nat
    BY DEF Texts
  <1>3. add_or_cancel_tag(t, stack, all) =
          IF Cancels(t, all) /\ found # 0 THEN RemoveAt(stack, found) ELSE Append(stack, t)
    BY DEF add_or_cancel_tag, Cancels
  <1> HIDE DEF found
  <1>4. CASE I = {}
    <2>1. found = 0
      BY <1>1, <1>4
    <2>2. \A i \in 1..Len(stack) : stack[i] # u
      BY <1>4
    <2>3. HowMany(stack, u) = 0
      BY <2>2, HowManyZero DEF Texts
    <2> QED BY <1>3, <2>1, <2>3
  <1>5. CASE I # {} /\ Cancels(t, all)
    <2>1. found \in I
      BY <1>1, <1>2, <1>5, LeastIs
    <2>2. found \in 1..Len(stack) /\ stack[found] = u /\ found # 0
      BY <1>2, <2>1
    <2> DEFINE a == SubSeq(stack, 1, found - 1)
               b == SubSeq(stack, found + 1, Len(stack))
    <2>3. /\ a \in Texts /\ Len(a) = found - 1 /\ \A i \in 1..found - 1 : a[i] = stack[i]
      BY <1>2, <2>2, SubSeqProperties DEF Texts
    <2>4. /\ b \in Texts /\ Len(b) = Len(stack) - found
          /\ \A i \in 1..Len(stack) - found : b[i] = stack[found + i]
      BY <1>2, <2>2, SubSeqProperties DEF Texts
    <2>5. RemoveAt(stack, found) = a \o b
      BY DEF RemoveAt
    <2> HIDE DEF a, b
    <2>6. u \in Token
      BY TokenIs
    <2>7. stack = Append(a, u) \o b
      <3> DEFINE c == Append(a, u) \o b
      <3>1. c \in Seq(Token) /\ Len(c) = Len(stack)
        BY <1>2, <2>2, <2>3, <2>4, <2>6 DEF Texts
      <3>2. ASSUME NEW i \in 1..Len(stack) PROVE c[i] = stack[i]
        <4>1. CASE i < found
          BY <1>2, <2>2, <2>3, <2>4, <4>1 DEF Texts
        <4>2. CASE i = found
          BY <1>2, <2>2, <2>3, <2>4, <4>2 DEF Texts
        <4>3. CASE i > found
          <5>1. i - found \in 1..Len(stack) - found /\ i = found + (i - found)
            BY <1>2, <2>2, <4>3
          <5>2. c[i] = b[i - found]
            BY <1>2, <2>2, <2>3, <2>4, <4>3 DEF Texts
          <5> QED BY <2>4, <5>1, <5>2
        <4>4. i \in Int /\ found \in Int
          BY <1>2, <2>2
        <4>5. i < found \/ i = found \/ i > found
          BY ONLY <4>4
        <4> QED BY <4>1, <4>2, <4>3, <4>5
      <3> HIDE DEF c
      <3>3. stack \in Seq(Token)
        BY DEF Texts
      <3>4. c = stack
        BY <3>1, <3>2, <3>3
      <3> QED BY <3>4 DEF c
    <2>8. add_or_cancel_tag(t, stack, all) = a \o b
      BY <1>3, <1>5, <2>2, <2>5
    <2> QED BY <1>5, <2>3, <2>4, <2>7, <2>8
  <1>6. CASE I # {} /\ ~Cancels(t, all)
    BY <1>3, <1>6
  <1> QED BY <1>4, <1>5, <1>6

LEMMA CancelType ==
  ASSUME NEW t \in Token, IsTag(t), NEW stack \in Texts, NEW all \in BOOLEAN
  PROVE  add_or_cancel_tag(t, stack, all) \in Texts
  <1>1. \A a, b \in Texts : a \o b \in Texts
    BY DEF Texts
  <1>2. Append(stack, t) \in Texts
    BY DEF Texts
  <1> QED BY <1>1, <1>2, Cancelled

-----------------------------------------------------------------------------
(* Merging: the tags wait for the next character.                            *)

Doing == [ret : Texts, waiting : Texts]
Blank == [ret |-> <<>>, waiting |-> <<>>]
MergeStep(all) == [p \in Doing \X Token |-> Merge(p[1], p[2], all)]
Merged(s, all) == Through(s, Blank, MergeStep(all))

LEMMA MergeType ==
  ASSUME NEW done \in Doing, NEW t \in Token, NEW all \in BOOLEAN
  PROVE  Merge(done, t, all) \in Doing
  <1>1. CASE IsTag(t)
    <2>1. add_or_cancel_tag(t, done.waiting, all) \in Texts
      BY <1>1, CancelType DEF Doing
    <2> QED BY <1>1, <2>1 DEF Merge, Doing
  <1>2. CASE ~IsTag(t)
    <2>1. Append(done.ret \o done.waiting, t) \in Texts /\ <<>> \in Texts
      BY DEF Doing, Texts
    <2> QED BY <1>2, <2>1 DEF Merge, Doing
  <1> QED BY <1>1, <1>2

LEMMA MergeStepType ==
  ASSUME NEW all \in BOOLEAN
  PROVE  /\ MergeStep(all) \in [Doing \X Token -> Doing] /\ Blank \in Doing
         /\ \A done \in Doing, t \in Token : MergeStep(all)[<<done, t>>] = Merge(done, t, all)
  <1>1. \A p \in Doing \X Token : Merge(p[1], p[2], all) \in Doing
    BY MergeType
  <1>2. Blank \in Doing
    BY DEF Blank, Doing, Texts
  <1> QED BY <1>1, <1>2 DEF MergeStep

LEMMA MergeAppend ==
  ASSUME NEW all \in BOOLEAN
  PROVE  /\ Merged(<<>>, all) = Blank
         /\ \A s \in Texts : Merged(s, all) \in Doing
         /\ \A s \in Texts, t \in Token : Merged(Append(s, t), all) = Merge(Merged(s, all), t, all)
  <1>1. Merged(<<>>, all) = Blank
    BY ThroughEmpty DEF Merged
  <1>2. ASSUME NEW s \in Texts PROVE Merged(s, all) \in Doing
    BY MergeStepType, LoopIsThrough DEF Merged, Texts
  <1>3. ASSUME NEW s \in Texts, NEW t \in Token
        PROVE  Merged(Append(s, t), all) = Merge(Merged(s, all), t, all)
    <2>1. Merged(Append(s, t), all) = MergeStep(all)[<<Merged(s, all), t>>]
      BY ThroughAppend DEF Merged, Texts
    <2> QED BY <1>2, <2>1, MergeStepType
  <1> QED BY <1>1, <1>2, <1>3

LEMMA MergeIs ==
  ASSUME NEW s \in Texts, NEW all \in BOOLEAN
  PROVE  simplify_tagged_merge(s, all) = Written(Merged(s, all))
  <1> DEFINE body(h) == [n \in 0..Len(s) |-> IF n = 0 THEN Blank ELSE Merge(h[n - 1], s[n], all)]
             done == CHOOSE h : h = body(h)
             step == MergeStep(all)
  <1>1. /\ step \in [Doing \X Token -> Doing] /\ Blank \in Doing
        /\ \A d \in Doing, t \in Token : step[<<d, t>>] = Merge(d, t, all)
    BY MergeStepType
  <1>2. Len(s) \in Nat /\ \A i \in 1..Len(s) : s[i] \in Token
    BY DEF Texts
  <1> HIDE DEF step
  <1>3. PICK g \in [0..Len(s) -> Doing] : Runs(g, s, Blank, step)
    BY <1>1, LoopIsThrough DEF Texts
  <1>4. g = body(g)
    <2>1. ASSUME NEW n \in 0..Len(s)
          PROVE  g[n] = IF n = 0 THEN Blank ELSE Merge(g[n - 1], s[n], all)
      <3>1. CASE n = 0
        BY <1>3, <3>1 DEF Runs
      <3>2. CASE n # 0
        <4>1. n \in 1..Len(s) /\ n - 1 \in 0..Len(s)
          BY <3>2
        <4>2. g[n] = step[<<g[n - 1], s[n]>>]
          BY <1>3, <4>1 DEF Runs
        <4>3. g[n - 1] \in Doing /\ s[n] \in Token
          BY <1>2, <1>3, <4>1
        <4> QED BY <1>1, <3>2, <4>2, <4>3
      <3> QED BY <3>1, <3>2
    <2> QED BY <1>3, <2>1
  <1>5. done = body(done)
    BY <1>4
  <1>6. \A n \in 0..Len(s) : done[n] = IF n = 0 THEN Blank ELSE Merge(done[n - 1], s[n], all)
    <2> HIDE DEF done
    <2> QED BY <1>5
  <1>7. simplify_tagged_merge(s, all) = Written(done[Len(s)])
    BY DEF simplify_tagged_merge, Blank
  <1>8. done = [i \in 0..Len(s) |-> done[i]]
    <2> HIDE DEF done
    <2> QED BY <1>5
  <1> HIDE DEF done
  <1>9. ASSUME NEW i \in 1..Len(s), done[i - 1] \in Doing PROVE done[i] = step[<<done[i - 1], s[i]>>]
    <2>1. i \in 0..Len(s) /\ i # 0 /\ s[i] \in Token
      BY <1>2
    <2>2. done[i] = Merge(done[i - 1], s[i], all)
      BY <1>6, <2>1
    <2> QED BY <1>1, <1>9, <2>1, <2>2
  <1>10. done[0] = Blank
    BY <1>2, <1>6
  <1>11. Loops(done, s, Blank, step, Token, Doing)
    BY <1>1, <1>8, <1>9, <1>10 DEF Loops, Texts
  <1>12. done[Len(s)] = Through(s, Blank, step)
    BY <1>11, LoopEnds
  <1> QED BY <1>7, <1>12 DEF Merged, step

\* The simplified text has as many open tags, and never closes one that is not.
MergedTo(s, x, done) ==
    /\ NonNeg(done.ret, x)
    /\ Net(done.ret, x) + Net(done.waiting, x) = Net(s, x)
    /\ Net(done.ret, x) >= HowMany(done.waiting, Close(x))

LEMMA MergedTag ==
  ASSUME NEW s \in Texts, NEW x, NEW t \in Token, NEW done \in Doing, IsTag(t),
         MergedTo(s, x, done), NonNeg(Append(s, t), x)
  PROVE  MergedTo(Append(s, t), x, Merge(done, t, FALSE))
  <1> DEFINE w == done.waiting
             v == add_or_cancel_tag(t, w, FALSE)
             C(u) == HowMany(u, Close(x))
             O(u) == HowMany(u, Open(x))
  <1>1. w \in Texts /\ done.ret \in Texts
    BY DEF Doing
  <1> DEFINE m == Merge(done, t, FALSE)
  <1>2. m.ret = done.ret /\ m.waiting = v
    <2>1. m = [ret |-> done.ret, waiting |-> v]
      BY DEF Merge, Doing
    <2> HIDE DEF m
    <2> QED BY <2>1
  <1>3. /\ Net(Append(s, t), x) = Net(s, x) + Delta(t, x) /\ Net(s, x) \in Int
        /\ Net(s, x) + Delta(t, x) >= 0
    BY NetAppend DEF Texts
  <1>4. Net(done.ret, x) \in Int
    BY <1>1, NetAppend DEF Texts
  <1>5. t = Open(t[2]) \/ t = Close(t[2])
    BY TokenIs
  <1>6. Delta(t, x) = One(t, Open(x)) - One(t, Close(x)) /\ One(t, Open(x)) \in Nat /\ One(t, Close(x)) \in Nat
    BY DEF Delta, One
  <1>7. \A u \in Texts : Net(u, x) = O(u) - C(u) /\ O(u) \in Nat /\ C(u) \in Nat
    BY NetIs, HowManyConcat DEF Texts
  <1>8. \/ \E a, b \in Texts : w = Append(a, anti_tag(t)) \o b /\ v = a \o b
        \/ v = Append(w, t) /\ (Cancels(t, FALSE) => HowMany(w, anti_tag(t)) = 0)
    BY <1>1, Cancelled
  <1>9. MergedTo(s, x, done) <=> /\ NonNeg(done.ret, x)
                                /\ Net(done.ret, x) + Net(w, x) = Net(s, x)
                                /\ Net(done.ret, x) >= C(w)
    BY DEF MergedTo
  <1>10. ASSUME Net(done.ret, x) + Net(v, x) = Net(Append(s, t), x), Net(done.ret, x) >= C(v)
         PROVE  MergedTo(Append(s, t), x, m)
    BY <1>2, <1>9, <1>10 DEF MergedTo
  <1> HIDE DEF w, v, m
  <1>11. CASE v = Append(w, t) /\ (Cancels(t, FALSE) => HowMany(w, anti_tag(t)) = 0)
    <2>1. O(v) = O(w) + One(t, Open(x)) /\ C(v) = C(w) + One(t, Close(x)) /\ v \in Texts
      BY <1>1, <1>11, HowManyAppend DEF Texts
    <2>2. t = Close(x) => O(w) = 0
      BY <1>11, TagsDiffer DEF Cancels
    <2>3. t = Close(x) => One(t, Close(x)) = 1 /\ One(t, Open(x)) = 0
      BY TagsDiffer DEF One
    <2>4. t # Close(x) => One(t, Close(x)) = 0
      BY DEF One
    <2> HIDE DEF O, C
    <2>5. Net(w, x) = O(w) - C(w) /\ Net(v, x) = O(v) - C(v) /\ O(w) \in Nat /\ C(w) \in Nat
      BY <1>1, <1>7, <2>1
    <2>6. Net(done.ret, x) + Net(v, x) = Net(Append(s, t), x)
      BY <1>3, <1>4, <1>6, <1>9, <2>1, <2>5
    <2>7. Net(done.ret, x) >= C(v)
      BY <1>3, <1>4, <1>6, <1>9, <2>1, <2>2, <2>3, <2>4, <2>5
    <2> QED BY <1>10, <2>6, <2>7 DEF m
  <1>12. CASE \E a, b \in Texts : w = Append(a, anti_tag(t)) \o b /\ v = a \o b
    <2>1. PICK a, b \in Texts : w = Append(a, anti_tag(t)) \o b /\ v = a \o b
      BY <1>12
    <2>2. anti_tag(t) \in Token
      BY TokenIs
    <2>3. /\ O(w) = O(v) + One(anti_tag(t), Open(x)) /\ C(w) = C(v) + One(anti_tag(t), Close(x))
          /\ v \in Texts
      BY <2>1, <2>2, TakenOut
    <2>4. One(anti_tag(t), Open(x)) = One(t, Close(x)) /\ One(anti_tag(t), Close(x)) = One(t, Open(x))
      BY <1>5, TagsDiffer DEF One
    <2> HIDE DEF O, C
    <2>5. Net(w, x) = O(w) - C(w) /\ Net(v, x) = O(v) - C(v) /\ O(w) \in Nat /\ C(w) \in Nat
            /\ O(v) \in Nat /\ C(v) \in Nat
      BY <1>1, <1>7, <2>3
    <2>6. Net(done.ret, x) + Net(v, x) = Net(Append(s, t), x)
      BY <1>3, <1>4, <1>6, <1>9, <2>3, <2>4, <2>5
    <2>7. Net(done.ret, x) >= C(v)
      BY <1>4, <1>6, <1>9, <2>3, <2>4, <2>5
    <2> QED BY <1>10, <2>6, <2>7 DEF m
  <1> QED BY <1>8, <1>11, <1>12 DEF m

LEMMA MergedChar ==
  ASSUME NEW s \in Texts, NEW x, NEW t \in Token, NEW done \in Doing, ~IsTag(t),
         MergedTo(s, x, done)
  PROVE  MergedTo(Append(s, t), x, Merge(done, t, FALSE))
  <1> DEFINE r == done.ret \o done.waiting
  <1>1. done.ret \in Texts /\ done.waiting \in Texts /\ r \in Texts /\ Append(r, t) \in Texts
    BY DEF Doing, Texts
  <1> DEFINE m == Merge(done, t, FALSE)
  <1>2. m.ret = Append(r, t) /\ m.waiting = <<>>
    <2>1. m = [ret |-> Append(r, t), waiting |-> <<>>]
      BY DEF Merge
    <2> HIDE DEF m
    <2> QED BY <2>1
  <1>3. NonNeg(r, x)
    BY <1>1, NonNegConcat DEF MergedTo, Texts
  <1>4. Net(r, x) = Net(s, x)
    BY <1>1, LevelConcat DEF MergedTo, Texts
  <1> HIDE DEF r, m
  <1>5. Delta(t, x) = 0
    BY TagsDiffer DEF Delta, One
  <1>6. Net(Append(r, t), x) = Net(r, x) + Delta(t, x) /\ Net(r, x) \in Int
    BY <1>1, NetAppend DEF Texts
  <1>7. Net(Append(s, t), x) = Net(s, x) + Delta(t, x) /\ Net(s, x) \in Int
    BY NetAppend DEF Texts
  <1>8. Net(r, x) >= 0
    <2>1. Len(r) \in 0..Len(r)
      BY <1>1 DEF Texts
    <2> QED BY <1>3, <2>1 DEF NonNeg, Net
  <1>9. NonNeg(Append(r, t), x)
    BY <1>1, <1>3, <1>5, <1>6, <1>8, NetAppend DEF Texts
  <1>10. Net(<<>>, x) = 0
    BY NetIs, HowManyEmpty
  <1>11. MergedTo(Append(s, t), x, m)
    BY <1>2, <1>4, <1>5, <1>6, <1>7, <1>8, <1>9, <1>10, HowManyEmpty DEF MergedTo
  <1> QED BY <1>11 DEF m

LEMMA MergeKeepsLevels ==
  ASSUME NEW s \in Texts, NEW x, NonNeg(s, x)
  PROVE  LET r == simplify_tagged_merge(s, FALSE)
         IN  r \in Texts /\ NonNeg(r, x) /\ Net(r, x) = Net(s, x)
  <1> DEFINE P == {u \in Texts : NonNeg(u, x) => MergedTo(u, x, Merged(u, FALSE))}
  <1>1. <<>> \in P
    <2>1. <<>> \in Texts /\ Len(<<>>) = 0
      BY DEF Texts
    <2>2. Net(<<>>, x) = 0
      BY NetIs, HowManyEmpty
    <2>3. NonNeg(<<>>, x)
      BY <2>1, LevelSteps DEF NonNeg
    <2>4. Merged(<<>>, FALSE) = Blank
      BY MergeAppend
    <2>5. MergedTo(<<>>, x, Blank)
      BY <2>2, <2>3, HowManyEmpty DEF MergedTo, Blank
    <2> QED BY <2>1, <2>4, <2>5
  <1>2. ASSUME NEW u \in Texts, NEW t \in Token, u \in P PROVE Append(u, t) \in P
    <2>1. Append(u, t) \in Texts
      BY DEF Texts
    <2>2. ASSUME NonNeg(Append(u, t), x) PROVE MergedTo(Append(u, t), x, Merged(Append(u, t), FALSE))
      <3>1. NonNeg(u, x)
        BY <2>2, NetAppend DEF Texts
      <3>2. MergedTo(u, x, Merged(u, FALSE))
        BY <1>2, <3>1
      <3>3. Merged(Append(u, t), FALSE) = Merge(Merged(u, FALSE), t, FALSE) /\ Merged(u, FALSE) \in Doing
        BY MergeAppend
      <3> QED BY <2>2, <3>2, <3>3, MergedTag, MergedChar
    <2> QED BY <2>1, <2>2
  <1>3. Texts \subseteq P
    <2> HIDE DEF P
    <2> QED BY <1>1, <1>2, ByAppending DEF Texts
  <1> DEFINE done == Merged(s, FALSE)
  <1>4. MergedTo(s, x, done)
    BY <1>3
  <1>5. done \in Doing
    BY MergeAppend
  <1> HIDE DEF done
  <1>6. done.ret \in Texts /\ done.waiting \in Texts /\ done.ret \o done.waiting \in Texts
    BY <1>5 DEF Doing, Texts
  <1>7. NonNeg(done.ret \o done.waiting, x)
    BY <1>4, <1>6, NonNegConcat DEF MergedTo, Texts
  <1>8. Net(done.ret \o done.waiting, x) = Net(s, x)
    BY <1>4, <1>6, LevelConcat DEF MergedTo, Texts
  <1>9. simplify_tagged_merge(s, FALSE) = done.ret \o done.waiting
    BY MergeIs DEF Written, done
  <1> QED BY <1>6, <1>7, <1>8, <1>9

-----------------------------------------------------------------------------
(* Overlapping formats: only the first that opens and the last that closes.  *)

Overlapping == [ret : Texts, open_tags : Texts]
Nothing == [ret |-> <<>>, open_tags |-> <<>>]
OverlapStep == [p \in Overlapping \X Token |-> Overlap(p[1], p[2])]
Overlapped(s) == Through(s, Nothing, OverlapStep)

LEMMA OverlapType ==
  ASSUME NEW done \in Overlapping, NEW t \in Token
  PROVE  Overlap(done, t) \in Overlapping
  <1>1. Append(done.ret, t) \in Texts
    BY DEF Overlapping, Texts
  <1>2. CASE IsFormat(t)
    <2>1. add_or_cancel_tag(t, done.open_tags, TRUE) \in Texts
      BY <1>2, CancelType DEF Overlapping, IsFormat
    <2> QED BY <1>1, <1>2, <2>1 DEF Overlap, OverlapFormat, Overlapping
  <1>3. CASE ~IsFormat(t)
    BY <1>1, <1>3 DEF Overlap, Overlapping
  <1> QED BY <1>2, <1>3

LEMMA OverlapStepType ==
  /\ OverlapStep \in [Overlapping \X Token -> Overlapping] /\ Nothing \in Overlapping
  /\ \A done \in Overlapping, t \in Token : OverlapStep[<<done, t>>] = Overlap(done, t)
  <1>1. \A p \in Overlapping \X Token : Overlap(p[1], p[2]) \in Overlapping
    BY OverlapType
  <1>2. Nothing \in Overlapping
    BY DEF Nothing, Overlapping, Texts
  <1> QED BY <1>1, <1>2 DEF OverlapStep

LEMMA OverlapAppend ==
  /\ Overlapped(<<>>) = Nothing
  /\ \A s \in Texts : Overlapped(s) \in Overlapping
  /\ \A s \in Texts, t \in Token : Overlapped(Append(s, t)) = Overlap(Overlapped(s), t)
  <1>1. Overlapped(<<>>) = Nothing
    BY ThroughEmpty DEF Overlapped
  <1>2. ASSUME NEW s \in Texts PROVE Overlapped(s) \in Overlapping
    BY OverlapStepType, LoopIsThrough DEF Overlapped, Texts
  <1>3. ASSUME NEW s \in Texts, NEW t \in Token
        PROVE  Overlapped(Append(s, t)) = Overlap(Overlapped(s), t)
    <2>1. Overlapped(Append(s, t)) = OverlapStep[<<Overlapped(s), t>>]
      BY ThroughAppend DEF Overlapped, Texts
    <2> QED BY <1>2, <2>1, OverlapStepType
  <1> QED BY <1>1, <1>2, <1>3

LEMMA OverlapIs ==
  ASSUME NEW s \in Texts
  PROVE  simplify_tagged_overlap(s) = Overlapped(s).ret
  <1> DEFINE body(h) == [n \in 0..Len(s) |-> IF n = 0 THEN Nothing ELSE Overlap(h[n - 1], s[n])]
             done == CHOOSE h : h = body(h)
             step == OverlapStep
  <1>1. /\ step \in [Overlapping \X Token -> Overlapping] /\ Nothing \in Overlapping
        /\ \A d \in Overlapping, t \in Token : step[<<d, t>>] = Overlap(d, t)
    BY OverlapStepType
  <1>2. Len(s) \in Nat /\ \A i \in 1..Len(s) : s[i] \in Token
    BY DEF Texts
  <1> HIDE DEF step
  <1>3. PICK g \in [0..Len(s) -> Overlapping] : Runs(g, s, Nothing, step)
    BY <1>1, LoopIsThrough DEF Texts
  <1>4. g = body(g)
    <2>1. ASSUME NEW n \in 0..Len(s)
          PROVE  g[n] = IF n = 0 THEN Nothing ELSE Overlap(g[n - 1], s[n])
      <3>1. CASE n = 0
        BY <1>3, <3>1 DEF Runs
      <3>2. CASE n # 0
        <4>1. n \in 1..Len(s) /\ n - 1 \in 0..Len(s)
          BY <3>2
        <4>2. g[n] = step[<<g[n - 1], s[n]>>]
          BY <1>3, <4>1 DEF Runs
        <4>3. g[n - 1] \in Overlapping /\ s[n] \in Token
          BY <1>2, <1>3, <4>1
        <4> QED BY <1>1, <3>2, <4>2, <4>3
      <3> QED BY <3>1, <3>2
    <2> QED BY <1>3, <2>1
  <1>5. done = body(done)
    BY <1>4
  <1>6. \A n \in 0..Len(s) : done[n] = IF n = 0 THEN Nothing ELSE Overlap(done[n - 1], s[n])
    <2> HIDE DEF done
    <2> QED BY <1>5
  <1>7. simplify_tagged_overlap(s) = done[Len(s)].ret
    BY DEF simplify_tagged_overlap, Nothing
  <1>8. done = [i \in 0..Len(s) |-> done[i]]
    <2> HIDE DEF done
    <2> QED BY <1>5
  <1> HIDE DEF done
  <1>9. ASSUME NEW i \in 1..Len(s), done[i - 1] \in Overlapping
        PROVE  done[i] = step[<<done[i - 1], s[i]>>]
    <2>1. i \in 0..Len(s) /\ i # 0 /\ s[i] \in Token
      BY <1>2
    <2>2. done[i] = Overlap(done[i - 1], s[i])
      BY <1>6, <2>1
    <2> QED BY <1>1, <1>9, <2>1, <2>2
  <1>10. done[0] = Nothing
    BY <1>2, <1>6
  <1>11. Loops(done, s, Nothing, step, Token, Overlapping)
    BY <1>1, <1>8, <1>9, <1>10 DEF Loops, Texts
  <1>12. done[Len(s)] = Through(s, Nothing, step)
    BY <1>11, LoopEnds
  <1> QED BY <1>7, <1>12 DEF Overlapped, step

\* What is written of a format is one pair of tags; of the others, all.
OverlappedTo(s, x, done) ==
    /\ NonNeg(done.ret, x)
    /\ x \notin Formats => Net(done.ret, x) = Net(s, x)
    /\ x \in Formats => /\ HowMany(done.open_tags, Close(x)) = 0
                        /\ HowMany(done.open_tags, Open(x)) = Net(s, x)
                        /\ Net(done.ret, x) = IF Net(s, x) > 0 THEN 1 ELSE 0

LEMMA InRange ==
  ASSUME NEW s \in Texts, NEW t
  PROVE  t \in Range(s) <=> HowMany(s, t) # 0
  <1>1. t \in Range(s) <=> \E p \in 1..Len(s) : s[p] = t
    BY DEF Range, Texts
  <1> QED BY <1>1, HowManyZero DEF Texts

LEMMA OverlapTag ==
  ASSUME NEW s \in Texts, NEW x \in Formats, NEW t \in Token, NEW done \in Overlapping,
         IsTag(t), t[2] = x, OverlappedTo(s, x, done), NonNeg(Append(s, t), x)
  PROVE  OverlappedTo(Append(s, t), x, Overlap(done, t))
  <1> DEFINE w == done.open_tags
             v == add_or_cancel_tag(t, w, TRUE)
             m == Overlap(done, t)
             O(u) == HowMany(u, Open(x))
             C(u) == HowMany(u, Close(x))
  <1>1. w \in Texts /\ done.ret \in Texts /\ v \in Texts /\ Append(done.ret, t) \in Texts
    <2>1. w \in Texts /\ done.ret \in Texts
      BY DEF Overlapping
    <2>2. v \in Texts
      BY <2>1, CancelType
    <2>3. Append(done.ret, t) \in Texts
      BY <2>1 DEF Texts
    <2> QED BY <2>1, <2>2, <2>3
  <1>2. /\ m.open_tags = v
        /\ m.ret = IF t \in Range(w) \/ anti_tag(t) \in Range(v) THEN done.ret ELSE Append(done.ret, t)
    <2>1. m = OverlapFormat(done, t, v)
      BY DEF Overlap, IsFormat
    <2> HIDE DEF m, v
    <2> QED BY <2>1 DEF OverlapFormat
  <1>3. \/ \E a, b \in Texts : w = Append(a, anti_tag(t)) \o b /\ v = a \o b
        \/ v = Append(w, t) /\ HowMany(w, anti_tag(t)) = 0
    BY <1>1, Cancelled DEF Cancels
  <1>4. \/ t = Open(x) /\ anti_tag(t) = Close(x)
        \/ t = Close(x) /\ anti_tag(t) = Open(x)
    <2>1. /\ t = Open(t[2]) \/ t = Close(t[2])
          /\ t = Open(t[2]) => anti_tag(t) = Close(t[2])
          /\ t = Close(t[2]) => anti_tag(t) = Open(t[2])
      BY TokenIs
    <2> QED BY <2>1
  <1>5. /\ NonNeg(done.ret, x) /\ C(w) = 0 /\ O(w) = Net(s, x)
        /\ Net(done.ret, x) = IF Net(s, x) > 0 THEN 1 ELSE 0
    BY DEF OverlappedTo
  <1>6. /\ Net(Append(s, t), x) = Net(s, x) + Delta(t, x) /\ Net(s, x) \in Int
        /\ Net(s, x) + Delta(t, x) >= 0
    BY NetAppend DEF Texts
  <1>7. /\ Net(Append(done.ret, t), x) = Net(done.ret, x) + Delta(t, x)
        /\ Net(done.ret, x) + Delta(t, x) >= 0 => NonNeg(Append(done.ret, t), x)
    BY <1>1, <1>5, NetAppend DEF Texts
  <1>8. \A u \in Texts : O(u) \in Nat /\ C(u) \in Nat
    BY HowManyConcat DEF Texts
  <1>9. ASSUME C(v) = 0, O(v) = Net(Append(s, t), x), NonNeg(m.ret, x),
               Net(m.ret, x) = IF Net(Append(s, t), x) > 0 THEN 1 ELSE 0
        PROVE  OverlappedTo(Append(s, t), x, m)
    <2> HIDE DEF m, v
    <2> QED BY <1>2, <1>9 DEF OverlappedTo
  <1>10. \A u \in Texts : (Open(x) \in Range(u) <=> O(u) # 0) /\ (Close(x) \in Range(u) <=> C(u) # 0)
    BY InRange
  <1> HIDE DEF w, v, m
  <1>11. CASE t = Open(x)
    <2>1. Delta(t, x) = 1 /\ anti_tag(t) = Close(x)
      BY <1>11, TagsDiffer DEF Delta, One
    <2>2. v = Append(w, t)
      <3>1. ASSUME NEW a \in Texts, NEW b \in Texts, w = Append(a, Close(x)) \o b PROVE FALSE
        <4>1. Close(x) \in Token
          BY <2>1, TokenIs
        <4>2. HowMany(w, Close(x)) = HowMany(a \o b, Close(x)) + One(Close(x), Close(x))
          BY <3>1, <4>1, TakenOut
        <4>3. HowMany(a \o b, Close(x)) \in Nat
          BY <4>1, TakenOut
        <4> QED BY <1>5, <4>2, <4>3 DEF One
      <3> QED BY <1>3, <2>1, <3>1
    <2>3. O(v) = O(w) + 1 /\ C(v) = C(w)
      <3>1. O(v) = O(w) + One(t, Open(x)) /\ C(v) = C(w) + One(t, Close(x)) /\ C(w) \in Nat
        BY <1>1, <2>2, HowManyAppend DEF Texts
      <3> QED BY <1>11, <3>1, TagsDiffer DEF One
    <2>4. t \in Range(w) <=> Net(s, x) # 0
      BY <1>1, <1>5, <1>10, <1>11
    <2>5. anti_tag(t) \notin Range(v)
      BY <1>1, <1>5, <1>10, <2>1, <2>3
    <2> HIDE DEF O, C
    <2>6. m.ret = IF Net(s, x) # 0 THEN done.ret ELSE Append(done.ret, t)
      BY <1>2, <2>4, <2>5
    <2>7. Net(s, x) >= 0
      BY <1>1, <1>5, <1>8
    <2>8. CASE Net(s, x) = 0
      <3>1. m.ret = Append(done.ret, t)
        BY <2>6, <2>8
      <3>2. Net(m.ret, x) = 1 /\ NonNeg(m.ret, x)
        BY <1>5, <1>7, <2>1, <2>8, <3>1
      <3> QED BY <1>5, <1>6, <1>9, <2>1, <2>3, <2>8, <3>2 DEF m
    <2>9. CASE Net(s, x) > 0
      <3>1. m.ret = done.ret
        BY <1>6, <2>6, <2>9
      <3>2. Net(m.ret, x) = 1 /\ NonNeg(m.ret, x)
        BY <1>5, <2>9, <3>1
      <3> QED BY <1>5, <1>6, <1>9, <2>1, <2>3, <2>9, <3>2 DEF m
    <2> QED BY <1>6, <2>7, <2>8, <2>9
  <1>12. CASE t = Close(x)
    <2>1. Delta(t, x) = -1 /\ anti_tag(t) = Open(x)
      BY <1>12, TagsDiffer DEF Delta, One
    <2>2. Net(s, x) >= 1
      BY <1>6, <2>1
    <2>3. PICK a, b \in Texts : w = Append(a, Open(x)) \o b /\ v = a \o b
      <3>1. HowMany(w, anti_tag(t)) # 0
        BY <1>5, <2>1, <2>2
      <3> QED BY <1>3, <2>1, <3>1
    <2>4. O(w) = O(v) + 1 /\ C(w) = C(v)
      <3>1. Open(x) \in Token
        BY <2>1, TokenIs
      <3>2. O(w) = O(v) + One(Open(x), Open(x)) /\ C(w) = C(v) + One(Open(x), Close(x)) /\ C(v) \in Nat
        BY <1>8, <1>1, <2>3, <3>1, TakenOut
      <3> QED BY <3>2, TagsDiffer DEF One
    <2>5. t \notin Range(w)
      BY <1>1, <1>5, <1>10, <1>12
    <2>6. anti_tag(t) \in Range(v) <=> O(v) # 0
      BY <1>1, <1>10, <2>1
    <2> HIDE DEF O, C
    <2>7. m.ret = IF O(v) # 0 THEN done.ret ELSE Append(done.ret, t)
      BY <1>2, <2>5, <2>6
    <2>8. O(v) \in Nat /\ Net(s, x) = O(v) + 1
      BY <1>1, <1>5, <1>8, <2>4
    <2>9. CASE O(v) = 0
      <3>1. m.ret = Append(done.ret, t)
        BY <2>7, <2>9
      <3>2. Net(m.ret, x) = 0 /\ NonNeg(m.ret, x)
        BY <1>5, <1>7, <2>1, <2>8, <2>9, <3>1
      <3> QED BY <1>5, <1>6, <1>9, <2>1, <2>4, <2>8, <2>9, <3>2 DEF m
    <2>10. CASE O(v) # 0
      <3>1. m.ret = done.ret
        BY <2>7, <2>10
      <3>2. Net(m.ret, x) = 1 /\ NonNeg(m.ret, x)
        BY <1>5, <1>6, <2>2, <3>1
      <3> QED BY <1>5, <1>6, <1>9, <2>1, <2>4, <2>8, <2>10, <3>2 DEF m
    <2> QED BY <2>9, <2>10
  <1> QED BY <1>4, <1>11, <1>12

LEMMA DeltaOther ==
  ASSUME NEW t, NEW x, ~IsTag(t) \/ t[2] # x
  PROVE  Delta(t, x) = 0 /\ t # Open(x) /\ t # Close(x)
  <1>1. t # Open(x) /\ t # Close(x)
    BY TagsDiffer
  <1> QED BY <1>1 DEF Delta, One

LEMMA OverlapOther ==
  ASSUME NEW s \in Texts, NEW x, NEW t \in Token, NEW done \in Overlapping,
         ~IsTag(t) \/ t[2] # x \/ x \notin Formats,
         OverlappedTo(s, x, done), NonNeg(Append(s, t), x)
  PROVE  OverlappedTo(Append(s, t), x, Overlap(done, t))
  <1> DEFINE w == done.open_tags
             v == add_or_cancel_tag(t, w, TRUE)
             m == Overlap(done, t)
  <1>1. w \in Texts /\ done.ret \in Texts
    BY DEF Overlapping
  <1>2. /\ Net(Append(s, t), x) = Net(s, x) + Delta(t, x) /\ Net(s, x) \in Int
        /\ Net(s, x) + Delta(t, x) >= 0
    BY NetAppend DEF Texts
  <1>3. /\ Net(Append(done.ret, t), x) = Net(done.ret, x) + Delta(t, x) /\ Net(done.ret, x) \in Int
        /\ NonNeg(done.ret, x) /\ Net(done.ret, x) + Delta(t, x) >= 0 => NonNeg(Append(done.ret, t), x)
    BY <1>1, NetAppend DEF Texts
  <1>4. NonNeg(done.ret, x) => Net(done.ret, x) >= 0
    <2>1. Len(done.ret) \in 0..Len(done.ret)
      BY <1>1 DEF Texts
    <2> QED BY <2>1 DEF NonNeg, Net
  <1>5. CASE IsFormat(t)
    <2>1. IsTag(t) /\ t[2] # x /\ Delta(t, x) = 0 /\ v \in Texts
      <3>1. IsTag(t) /\ t[2] # x
        BY <1>5 DEF IsFormat
      <3> QED BY <1>1, <3>1, DeltaOther, CancelType
    <2>2. anti_tag(t) # Open(x) /\ anti_tag(t) # Close(x) /\ anti_tag(t) \in Token
            /\ t # Open(x) /\ t # Close(x)
      BY <2>1, TokenIs, TagsDiffer
    <2>3. /\ m.open_tags = v
          /\ m.ret = done.ret \/ m.ret = Append(done.ret, t)
      <3>1. m = OverlapFormat(done, t, v)
        BY <1>5 DEF Overlap
      <3> HIDE DEF m, v
      <3> QED BY <3>1 DEF OverlapFormat
    <2>4. HowMany(v, Open(x)) = HowMany(w, Open(x)) /\ HowMany(v, Close(x)) = HowMany(w, Close(x))
      <3>1. CASE v = Append(w, t)
        <4> HIDE DEF v, w
        <4>1. /\ HowMany(v, Open(x)) = HowMany(w, Open(x)) + One(t, Open(x))
              /\ HowMany(v, Close(x)) = HowMany(w, Close(x)) + One(t, Close(x))
              /\ HowMany(w, Open(x)) \in Nat /\ HowMany(w, Close(x)) \in Nat
          BY <1>1, <3>1, HowManyAppend DEF Texts
        <4> QED BY <2>2, <4>1 DEF One
      <3>2. CASE \E a, b \in Texts : w = Append(a, anti_tag(t)) \o b /\ v = a \o b
        <4> HIDE DEF v, w
        <4>1. PICK a, b \in Texts : w = Append(a, anti_tag(t)) \o b /\ v = a \o b
          BY <3>2
        <4>2. /\ HowMany(w, Open(x)) = HowMany(v, Open(x)) + One(anti_tag(t), Open(x))
              /\ HowMany(w, Close(x)) = HowMany(v, Close(x)) + One(anti_tag(t), Close(x))
              /\ HowMany(v, Open(x)) \in Nat /\ HowMany(v, Close(x)) \in Nat
          BY <2>2, <4>1, TakenOut
        <4> QED BY <2>2, <4>2 DEF One
      <3> QED BY <1>1, <2>1, <3>1, <3>2, Cancelled
    <2> HIDE DEF m, v
    <2>5. NonNeg(m.ret, x) /\ Net(m.ret, x) = Net(done.ret, x)
      <3>1. NonNeg(done.ret, x)
        BY DEF OverlappedTo
      <3>2. NonNeg(Append(done.ret, t), x) /\ Net(Append(done.ret, t), x) = Net(done.ret, x)
        BY <1>3, <1>4, <2>1, <3>1
      <3> QED BY <2>3, <3>1, <3>2
    <2>6. Net(Append(s, t), x) = Net(s, x)
      BY <1>2, <2>1
    <2>7. OverlappedTo(Append(s, t), x, m)
      BY <2>3, <2>4, <2>5, <2>6 DEF OverlappedTo
    <2> QED BY <2>7 DEF m
  <1>6. CASE ~IsFormat(t)
    <2>1. m.ret = Append(done.ret, t) /\ m.open_tags = w
      <3>1. m = [done EXCEPT !.ret = Append(@, t)]
        BY <1>6 DEF Overlap
      <3> HIDE DEF m
      <3> QED BY <3>1 DEF Overlapping
    <2>2. x \in Formats => Delta(t, x) = 0
      BY <1>6, DeltaOther DEF IsFormat
    <2> HIDE DEF m
    <2>3. CASE x \in Formats
      <3>1. NonNeg(m.ret, x) /\ Net(m.ret, x) = Net(done.ret, x)
        BY <1>3, <1>4, <2>1, <2>2, <2>3 DEF OverlappedTo
      <3>2. Net(Append(s, t), x) = Net(s, x)
        BY <1>2, <2>2, <2>3
      <3>3. OverlappedTo(Append(s, t), x, m)
        BY <2>1, <2>3, <3>1, <3>2 DEF OverlappedTo
      <3> QED BY <3>3 DEF m
    <2>4. CASE x \notin Formats
      <3>1. Net(done.ret, x) = Net(s, x) /\ NonNeg(done.ret, x)
        BY <2>4 DEF OverlappedTo
      <3>2. NonNeg(m.ret, x) /\ Net(m.ret, x) = Net(Append(s, t), x)
        BY <1>2, <1>3, <2>1, <3>1
      <3>3. OverlappedTo(Append(s, t), x, m)
        BY <2>4, <3>2 DEF OverlappedTo
      <3> QED BY <3>3 DEF m
    <2> QED BY <2>3, <2>4
  <1> QED BY <1>5, <1>6

LEMMA OverlapKeepsLevels ==
  ASSUME NEW s \in Texts, NEW x, NonNeg(s, x), Net(s, x) = 0
  PROVE  LET r == simplify_tagged_overlap(s)
         IN  r \in Texts /\ NonNeg(r, x) /\ Net(r, x) = 0
  <1> DEFINE P == {u \in Texts : NonNeg(u, x) => OverlappedTo(u, x, Overlapped(u))}
  <1>1. <<>> \in P
    <2>1. <<>> \in Texts /\ Len(<<>>) = 0
      BY DEF Texts
    <2>2. Net(<<>>, x) = 0
      BY NetIs, HowManyEmpty
    <2>3. NonNeg(<<>>, x)
      BY <2>1, LevelSteps DEF NonNeg
    <2>4. Overlapped(<<>>) = Nothing
      BY OverlapAppend
    <2>5. OverlappedTo(<<>>, x, Nothing)
      BY <2>2, <2>3, HowManyEmpty DEF OverlappedTo, Nothing
    <2> QED BY <2>1, <2>4, <2>5
  <1>2. ASSUME NEW u \in Texts, NEW t \in Token, u \in P PROVE Append(u, t) \in P
    <2>1. Append(u, t) \in Texts
      BY DEF Texts
    <2>2. ASSUME NonNeg(Append(u, t), x) PROVE OverlappedTo(Append(u, t), x, Overlapped(Append(u, t)))
      <3>1. NonNeg(u, x)
        BY <2>2, NetAppend DEF Texts
      <3>2. OverlappedTo(u, x, Overlapped(u))
        BY <1>2, <3>1
      <3>3. Overlapped(Append(u, t)) = Overlap(Overlapped(u), t) /\ Overlapped(u) \in Overlapping
        BY OverlapAppend
      <3>4. CASE IsTag(t) /\ t[2] = x /\ x \in Formats
        BY <2>2, <3>2, <3>3, <3>4, OverlapTag
      <3>5. CASE ~(IsTag(t) /\ t[2] = x /\ x \in Formats)
        BY <2>2, <3>2, <3>3, <3>5, OverlapOther
      <3> QED BY <3>4, <3>5
    <2> QED BY <2>1, <2>2
  <1>3. Texts \subseteq P
    <2> HIDE DEF P
    <2> QED BY <1>1, <1>2, ByAppending DEF Texts
  <1>4. OverlappedTo(s, x, Overlapped(s))
    BY <1>3
  <1>5. simplify_tagged_overlap(s) = Overlapped(s).ret /\ Overlapped(s).ret \in Texts
    BY OverlapIs, OverlapAppend DEF Overlapping
  <1> QED BY <1>4, <1>5 DEF OverlappedTo

\* Simplifying keeps tags balanced.
LEMMA SimplifiedBalanced ==
  ASSUME NEW s \in Texts, Balanced(s)
  PROVE  simplify_tagged(s) \in Texts /\ Balanced(simplify_tagged(s))
  <1> DEFINE r == simplify_tagged_merge(s, FALSE)
  <1>1. \A x : NonNeg(s, x) /\ Net(s, x) = 0
    BY BalancedIs
  <1>2. r \in Texts /\ \A x : NonNeg(r, x) /\ Net(r, x) = 0
    BY <1>1, MergeKeepsLevels
  <1> HIDE DEF r
  <1>3. /\ simplify_tagged_overlap(r) \in Texts
        /\ \A x : NonNeg(simplify_tagged_overlap(r), x) /\ Net(simplify_tagged_overlap(r), x) = 0
    BY <1>2, OverlapKeepsLevels
  <1> QED BY <1>3, BalancedIs DEF simplify_tagged, r

-----------------------------------------------------------------------------
(* Going through the blocks of a text.                                       *)

Scanning == [at : {"outside", "empty", "filled", "broken"}, of : Blocks \cup {"none"}, width : Nat]
Outside(width) == [at |-> "outside", of |-> "none", width |-> width]
Broken == [at |-> "broken", of |-> "none", width |-> 0]
\* In a block, of which no other block begins and that has a character when it
\* ends; width is the number of items.
ScanTo(st, t) ==
    IF OpensBlock(t)
    THEN IF st.at = "outside" THEN [at |-> "empty", of |-> t[2], width |-> st.width + 1] ELSE Broken
    ELSE IF IsBlockTag(t)
    THEN IF st.at = "filled" /\ st.of = t[2] THEN Outside(st.width) ELSE Broken
    ELSE IF IsTag(t) \/ st.at = "broken" THEN st
    ELSE IF st.at = "outside" THEN Outside(st.width + 1) ELSE [st EXCEPT !.at = "filled"]
ScanStep == [p \in Scanning \X Token |-> ScanTo(p[1], p[2])]
ScanFrom(st, s) == Through(s, st, ScanStep)
Scan(s) == ScanFrom(Outside(0), s)
Whole(s) == s \in Texts /\ Scan(s).at = "outside"

LEMMA ScanType ==
  /\ \A width \in Nat : Outside(width) \in Scanning
  /\ Broken \in Scanning
  /\ \A st \in Scanning, t \in Token : ScanTo(st, t) \in Scanning
  /\ ScanStep \in [Scanning \X Token -> Scanning]
  /\ \A st \in Scanning, t \in Token : ScanStep[<<st, t>>] = ScanTo(st, t)
  <1>1. (\A width \in Nat : Outside(width) \in Scanning) /\ Broken \in Scanning
    BY DEF Outside, Broken, Scanning
  <1>2. ASSUME NEW st \in Scanning, NEW t \in Token PROVE ScanTo(st, t) \in Scanning
    <2>1. st.width \in Nat /\ st.width + 1 \in Nat
      BY DEF Scanning
    <2>2. OpensBlock(t) => [at |-> "empty", of |-> t[2], width |-> st.width + 1] \in Scanning
      BY <2>1 DEF OpensBlock, Scanning
    <2>3. [st EXCEPT !.at = "filled"] \in Scanning
      BY DEF Scanning
    <2> QED BY <1>1, <2>1, <2>2, <2>3 DEF ScanTo
  <1>3. ScanStep \in [Scanning \X Token -> Scanning]
    BY <1>2 DEF ScanStep
  <1>4. \A st \in Scanning, t \in Token : ScanStep[<<st, t>>] = ScanTo(st, t)
    BY DEF ScanStep
  <1> QED BY <1>1, <1>2, <1>3, <1>4

LEMMA ScanAppend ==
  ASSUME NEW st \in Scanning
  PROVE  /\ ScanFrom(st, <<>>) = st
         /\ \A s \in Texts : ScanFrom(st, s) \in Scanning
         /\ \A s \in Texts, t \in Token : ScanFrom(st, Append(s, t)) = ScanTo(ScanFrom(st, s), t)
  <1>1. ScanFrom(st, <<>>) = st
    BY ThroughEmpty DEF ScanFrom
  <1>2. ASSUME NEW s \in Texts PROVE ScanFrom(st, s) \in Scanning
    BY ScanType, LoopIsThrough DEF ScanFrom, Texts
  <1>3. ASSUME NEW s \in Texts, NEW t \in Token
        PROVE  ScanFrom(st, Append(s, t)) = ScanTo(ScanFrom(st, s), t)
    <2>1. ScanFrom(st, Append(s, t)) = ScanStep[<<ScanFrom(st, s), t>>]
      BY ThroughAppend DEF ScanFrom, Texts
    <2> QED BY <1>2, <2>1, ScanType
  <1> QED BY <1>1, <1>2, <1>3

LEMMA ScanConcat ==
  ASSUME NEW st \in Scanning, NEW a \in Texts, NEW b \in Texts
  PROVE  ScanFrom(st, a \o b) = ScanFrom(ScanFrom(st, a), b) /\ ScanFrom(st, a) \in Scanning
  BY ThroughConcat, ScanAppend DEF ScanFrom, Texts

LEMMA ScanBegins ==
  /\ Scan(<<>>) = Outside(0) /\ Outside(0) \in Scanning
  /\ \A s \in Texts : Scan(s) \in Scanning
  /\ \A s \in Texts, t \in Token : Scan(Append(s, t)) = ScanTo(Scan(s), t)
  /\ \A a, b \in Texts : Scan(a \o b) = ScanFrom(Scan(a), b)
  <1>1. Outside(0) \in Scanning
    BY ScanType
  <1> QED BY <1>1, ScanAppend, ScanConcat DEF Scan

\* Once broken, a text stays so.
LEMMA ScanBroken ==
  ASSUME NEW st \in Scanning, st.at = "broken"
  PROVE  /\ \A t \in Token : ScanTo(st, t).at = "broken"
         /\ \A s \in Texts : ScanFrom(st, s).at = "broken"
  <1>1. ASSUME NEW u \in Scanning, u.at = "broken", NEW t \in Token PROVE ScanTo(u, t).at = "broken"
    BY <1>1 DEF ScanTo, Broken
  <1> DEFINE P == {s \in Texts : ScanFrom(st, s).at = "broken"}
  <1>2. <<>> \in P
    BY ScanAppend DEF Texts
  <1>3. ASSUME NEW s \in Texts, NEW t \in Token, s \in P PROVE Append(s, t) \in P
    <2>1. Append(s, t) \in Texts
      BY DEF Texts
    <2>2. ScanFrom(st, s) \in Scanning /\ ScanFrom(st, Append(s, t)) = ScanTo(ScanFrom(st, s), t)
      BY ScanAppend
    <2> QED BY <1>1, <1>3, <2>1, <2>2
  <1>4. Texts \subseteq P
    <2> HIDE DEF P
    <2> QED BY <1>2, <1>3, ByAppending DEF Texts
  <1> QED BY <1>1, <1>4

\* What comes before only counts for the width.
Wider(st, more) == IF st.at = "broken" THEN st ELSE [st EXCEPT !.width = @ + more]

LEMMA ScanWider ==
  ASSUME NEW st \in Scanning, NEW more \in Nat, Wider(st, more) \in Scanning
  PROVE  \A s \in Texts : ScanFrom(Wider(st, more), s) = Wider(ScanFrom(st, s), more)
  <1> DEFINE P == {s \in Texts : ScanFrom(Wider(st, more), s) = Wider(ScanFrom(st, s), more)}
  <1>1. <<>> \in P
    BY ScanAppend DEF Texts
  <1>2. ASSUME NEW s \in Texts, NEW t \in Token, s \in P PROVE Append(s, t) \in P
    <2> DEFINE u == ScanFrom(st, s)
    <2>1. Append(s, t) \in Texts
      BY DEF Texts
    <2>2. u \in Scanning /\ ScanFrom(st, Append(s, t)) = ScanTo(u, t)
      BY ScanAppend
    <2>3. ScanFrom(Wider(st, more), Append(s, t)) = ScanTo(Wider(u, more), t)
      BY <1>2, ScanAppend
    <2> HIDE DEF u
    <2>4. u.width \in Nat /\ u.width + more \in Nat
      BY <2>2 DEF Scanning
    <2>5. ScanTo(Wider(u, more), t) = Wider(ScanTo(u, t), more)
      <3>1. CASE u.at = "broken"
        BY <3>1 DEF Wider, ScanTo, Broken
      <3>2. CASE u.at # "broken"
        <4> DEFINE v == [u EXCEPT !.width = u.width + more]
        <4>1. Wider(u, more) = v
          BY <3>2 DEF Wider
        <4>2. v.at = u.at /\ v.of = u.of /\ v.width = u.width + more
          BY <2>2 DEF Scanning
        <4>3. CASE OpensBlock(t) /\ u.at = "outside"
          <5> DEFINE y == [at |-> "empty", of |-> t[2], width |-> u.width + 1]
                     z == [at |-> "empty", of |-> t[2], width |-> (u.width + more) + 1]
          <5>1. ScanTo(u, t) = y
            BY <4>3 DEF ScanTo
          <5>2. ScanTo(v, t) = z
            <6> HIDE DEF v
            <6> QED BY <4>2, <4>3 DEF ScanTo
          <5>3. Wider(y, more) = z
            BY <2>4 DEF Wider
          <5> QED BY <4>1, <5>1, <5>2, <5>3
        <4>4. CASE OpensBlock(t) /\ u.at # "outside"
          <5>1. ScanTo(u, t) = Broken /\ Wider(Broken, more) = Broken
            BY <4>4 DEF ScanTo, Broken, Wider
          <5>2. ScanTo(v, t) = Broken
            <6> HIDE DEF v
            <6> QED BY <4>2, <4>4 DEF ScanTo
          <5> QED BY <4>1, <5>1, <5>2
        <4>5. CASE ~OpensBlock(t) /\ IsBlockTag(t) /\ u.at = "filled" /\ u.of = t[2]
          <5>1. ScanTo(u, t) = Outside(u.width) /\ Wider(Outside(u.width), more) = Outside(u.width + more)
            BY <4>5 DEF ScanTo, Outside, Wider
          <5>2. ScanTo(v, t) = Outside(u.width + more)
            <6> HIDE DEF v
            <6> QED BY <4>2, <4>5 DEF ScanTo
          <5> QED BY <4>1, <5>1, <5>2
        <4>6. CASE ~OpensBlock(t) /\ IsBlockTag(t) /\ ~(u.at = "filled" /\ u.of = t[2])
          <5>1. ScanTo(u, t) = Broken /\ Wider(Broken, more) = Broken
            BY <4>6 DEF ScanTo, Broken, Wider
          <5>2. ScanTo(v, t) = Broken
            <6> HIDE DEF v
            <6> QED BY <4>2, <4>6 DEF ScanTo
          <5> QED BY <4>1, <5>1, <5>2
        <4>7. CASE ~OpensBlock(t) /\ ~IsBlockTag(t) /\ IsTag(t)
          <5>1. ScanTo(u, t) = u
            BY <4>7 DEF ScanTo
          <5>2. ScanTo(v, t) = v
            <6> HIDE DEF v
            <6> QED BY <4>7 DEF ScanTo
          <5> QED BY <4>1, <5>1, <5>2
        <4>8. CASE ~IsTag(t) /\ u.at = "outside"
          <5>0. ~OpensBlock(t) /\ ~IsBlockTag(t)
            BY <4>8 DEF OpensBlock, IsBlockTag, IsTag, IsChar
          <5>1. ScanTo(u, t) = Outside(u.width + 1)
            BY <4>8, <5>0 DEF ScanTo
          <5>2. ScanTo(v, t) = Outside((u.width + more) + 1)
            <6> HIDE DEF v
            <6> QED BY <4>2, <4>8, <5>0 DEF ScanTo
          <5>3. Wider(Outside(u.width + 1), more) = Outside((u.width + more) + 1)
            BY <2>4 DEF Wider, Outside
          <5> QED BY <4>1, <5>1, <5>2, <5>3
        <4>9. CASE ~IsTag(t) /\ u.at # "outside"
          <5>0. ~OpensBlock(t) /\ ~IsBlockTag(t)
            BY <4>9 DEF OpensBlock, IsBlockTag, IsTag, IsChar
          <5>1. ScanTo(u, t) = [u EXCEPT !.at = "filled"]
            BY <3>2, <4>9, <5>0 DEF ScanTo
          <5>2. ScanTo(v, t) = [v EXCEPT !.at = "filled"]
            <6> HIDE DEF v
            <6> QED BY <3>2, <4>2, <4>9, <5>0 DEF ScanTo
          <5>3. [v EXCEPT !.at = "filled"] = Wider([u EXCEPT !.at = "filled"], more)
            BY <2>2 DEF Wider, Scanning
          <5> QED BY <4>1, <5>1, <5>2, <5>3
        <4> HIDE DEF v
        <4> QED BY <4>3, <4>4, <4>5, <4>6, <4>7, <4>8, <4>9
      <3> QED BY <3>1, <3>2
    <2> QED BY <2>1, <2>2, <2>3, <2>5
  <1>3. Texts \subseteq P
    <2> HIDE DEF P
    <2> QED BY <1>1, <1>2, ByAppending DEF Texts
  <1> QED BY <1>3

-----------------------------------------------------------------------------
(* Simplifying keeps the blocks.                                             *)

\* Other tags than those of blocks.
Inert(t) == IsTag(t) /\ ~IsBlockTag(t)

LEMMA InertIs ==
  ASSUME NEW t \in Token
  PROVE  /\ Inert(t) => Inert(anti_tag(t)) /\ anti_tag(t) \in Token
         /\ IsFormat(t) => Inert(t)
         /\ IsTag(t) => Inert(t) \/ OpensBlock(t) \/ (\E x \in Blocks : t = Close(x))
         /\ IsBlockTag(t) => ~IsFormat(t)
         /\ \A st \in Scanning : Inert(t) => ScanTo(st, t) = st
  <1>1. Inert(t) => Inert(anti_tag(t)) /\ anti_tag(t) \in Token
    BY TokenIs DEF Inert
  <1>2. (IsFormat(t) => Inert(t)) /\ (IsBlockTag(t) => ~IsFormat(t))
    BY DEF IsFormat, Inert, IsBlockTag, Formats, Blocks
  <1>3. OpensBlock(t) => IsBlockTag(t)
    BY DEF OpensBlock, IsBlockTag, IsTag, IsChar
  <1>4. \A st \in Scanning : Inert(t) => ScanTo(st, t) = st
    BY <1>3 DEF ScanTo, Inert
  <1>5. IsTag(t) => Inert(t) \/ OpensBlock(t) \/ (\E x \in Blocks : t = Close(x))
    <2>1. IsTag(t) => t = Open(t[2]) \/ t = Close(t[2])
      BY TokenIs
    <2>2. t = Open(t[2]) => t[1] = "open"
      BY TagsDiffer
    <2> QED BY <2>1, <2>2 DEF Inert, IsBlockTag, OpensBlock
  <1> QED BY <1>1, <1>2, <1>4, <1>5

LEMMA ScanInert ==
  ASSUME NEW a \in Texts, NEW b \in Texts, NEW u \in Token, Inert(u)
  PROVE  Scan(Append(a, u) \o b) = Scan(a \o b)
  <1>1. Append(a, u) \in Texts
    BY DEF Texts
  <1>2. Scan(Append(a, u)) = Scan(a)
    BY ScanBegins, InertIs
  <1> QED BY <1>1, <1>2, ScanBegins

\* No block is closed in vain: one that waits has nothing in it yet.
MergedScan(s, done) ==
    /\ Scan(done.ret \o done.waiting) = Scan(s)
    /\ \A x \in Blocks : HowMany(done.waiting, Open(x)) # 0 => Scan(s).at = "empty"

LEMMA MergedScanTag ==
  ASSUME NEW s \in Texts, NEW t \in Token, NEW done \in Doing, IsTag(t),
         MergedScan(s, done), Scan(Append(s, t)).at # "broken"
  PROVE  MergedScan(Append(s, t), Merge(done, t, FALSE))
  <1> DEFINE w == done.waiting
             v == add_or_cancel_tag(t, w, FALSE)
             m == Merge(done, t, FALSE)
  <1>1. w \in Texts /\ done.ret \in Texts
    BY DEF Doing
  <1>2. m.ret = done.ret /\ m.waiting = v
    <2>1. m = [ret |-> done.ret, waiting |-> v]
      BY DEF Merge, Doing
    <2> HIDE DEF m
    <2> QED BY <2>1
  <1>3. \/ \E a, b \in Texts : /\ w = Append(a, anti_tag(t)) \o b /\ v = a \o b
                               /\ Cancels(t, FALSE)
        \/ v = Append(w, t)
    BY <1>1, Cancelled
  <1>4. Scan(Append(s, t)) = ScanTo(Scan(s), t) /\ Scan(s) \in Scanning
    BY ScanBegins
  <1>5. /\ Scan(done.ret \o w) = Scan(s)
        /\ \A x \in Blocks : HowMany(w, Open(x)) # 0 => Scan(s).at = "empty"
    BY DEF MergedScan
  <1>6. IsBlockTag(t) /\ Scan(s).at = "empty" => FALSE
    BY <1>4 DEF ScanTo, Broken
  <1>7. SUFFICES /\ Scan(done.ret \o v) = Scan(Append(s, t))
                 /\ \A x \in Blocks : HowMany(v, Open(x)) # 0 => Scan(Append(s, t)).at = "empty"
    <2> HIDE DEF m, v
    <2> QED BY <1>2 DEF MergedScan, m
  <1> HIDE DEF w, v, m
  <1>8. CASE v = Append(w, t)
    <2>1. done.ret \o v = Append(done.ret \o w, t) /\ done.ret \o w \in Texts
      <3>1. done.ret \o w \in Texts
        BY <1>1, Joining
      <3>2. done.ret \o Append(w, t) = Append(done.ret \o w, t)
        BY <1>1, JoinLast
      <3> QED BY <1>8, <3>1, <3>2
    <2>2. Scan(done.ret \o v) = Scan(Append(s, t))
      BY <1>4, <1>5, <2>1, ScanBegins
    <2>3. ASSUME NEW x \in Blocks, HowMany(v, Open(x)) # 0 PROVE Scan(Append(s, t)).at = "empty"
      <3>1. HowMany(v, Open(x)) = HowMany(w, Open(x)) + One(t, Open(x)) /\ HowMany(w, Open(x)) \in Nat
        BY <1>1, <1>8, HowManyAppend DEF Texts
      <3>2. CASE t = Open(x)
        <4>1. OpensBlock(t)
          BY <3>2, TagsDiffer DEF OpensBlock
        <4> QED BY <1>4, <4>1 DEF ScanTo, Broken
      <3>3. CASE t # Open(x)
        <4>1. Scan(s).at = "empty"
          BY <1>5, <2>3, <3>1, <3>3 DEF One
        <4>2. Inert(t)
          BY <1>6, <4>1 DEF Inert
        <4> QED BY <1>4, <4>1, <4>2, InertIs
      <3> QED BY <3>2, <3>3
    <2> QED BY <2>2, <2>3
  <1>9. CASE \E a, b \in Texts : /\ w = Append(a, anti_tag(t)) \o b /\ v = a \o b
                                 /\ Cancels(t, FALSE)
    <2>1. PICK a, b \in Texts : /\ w = Append(a, anti_tag(t)) \o b /\ v = a \o b
                                /\ Cancels(t, FALSE)
      BY <1>9
    <2>2. anti_tag(t) \in Token
      BY TokenIs
    <2>3. \A x : HowMany(w, x) = HowMany(v, x) + One(anti_tag(t), x) /\ HowMany(v, x) \in Nat
      BY <2>1, <2>2, TakenOut
    <2>4. CASE Inert(t)
      <3>1. Scan(Append(s, t)) = Scan(s)
        BY <1>4, <2>4, InertIs
      <3> DEFINE c == done.ret \o a
      <3>2. /\ done.ret \o w = Append(c, anti_tag(t)) \o b
            /\ done.ret \o v = c \o b /\ c \in Texts
        <4>1. c \in Texts /\ c = done.ret \o a
          BY <1>1, Joining
        <4>2. Append(a, anti_tag(t)) \in Texts
          BY <2>2, Joining
        <4>3. Append(c, anti_tag(t)) = done.ret \o Append(a, anti_tag(t))
          BY <1>1, <2>2, JoinLast
        <4>4. done.ret \o (Append(a, anti_tag(t)) \o b) = (done.ret \o Append(a, anti_tag(t))) \o b
          BY <1>1, <4>2, JoinThree
        <4>5. done.ret \o (a \o b) = (done.ret \o a) \o b
          BY <1>1, JoinThree
        <4> QED BY <2>1, <4>1, <4>3, <4>4, <4>5
      <3> HIDE DEF c
      <3>3. Scan(Append(c, anti_tag(t)) \o b) = Scan(c \o b)
        BY <2>4, <3>2, InertIs, ScanInert
      <3>4. \A x : HowMany(v, Open(x)) # 0 => HowMany(w, Open(x)) # 0
        BY <2>3 DEF One
      <3> QED BY <1>5, <3>1, <3>2, <3>3, <3>4
    <2>5. CASE ~Inert(t)
      <3>1. IsBlockTag(t)
        BY <2>5 DEF Inert
      <3>2. t[1] = "close"
        BY <2>1, <3>1, InertIs DEF Cancels
      <3>3. t = Close(t[2]) /\ anti_tag(t) = Open(t[2]) /\ t[2] \in Blocks
        BY <3>1, <3>2, TokenIs DEF IsBlockTag, Close
      <3>4. HowMany(w, Open(t[2])) # 0
        BY <2>3, <3>3 DEF One
      <3> QED BY <1>5, <1>6, <3>1, <3>3, <3>4
    <2> QED BY <2>4, <2>5
  <1> QED BY <1>3, <1>8, <1>9

LEMMA MergedScanChar ==
  ASSUME NEW s \in Texts, NEW t \in Token, NEW done \in Doing, ~IsTag(t), MergedScan(s, done)
  PROVE  MergedScan(Append(s, t), Merge(done, t, FALSE))
  <1> DEFINE r == done.ret \o done.waiting
             m == Merge(done, t, FALSE)
  <1>1. r \in Texts /\ Append(r, t) \in Texts /\ Append(r, t) \o <<>> = Append(r, t)
    BY DEF Doing, Texts
  <1>2. m.ret = Append(r, t) /\ m.waiting = <<>>
    <2>1. m = [ret |-> Append(r, t), waiting |-> <<>>]
      BY DEF Merge
    <2> HIDE DEF m
    <2> QED BY <2>1
  <1>3. Scan(r) = Scan(s)
    BY DEF MergedScan
  <1> HIDE DEF r, m
  <1>4. Scan(Append(r, t)) = Scan(Append(s, t))
    BY <1>1, <1>3, ScanBegins
  <1>5. MergedScan(Append(s, t), m)
    BY <1>1, <1>2, <1>4, HowManyEmpty DEF MergedScan
  <1> QED BY <1>5 DEF m

LEMMA MergeKeepsScan ==
  ASSUME NEW s \in Texts, Scan(s).at # "broken"
  PROVE  simplify_tagged_merge(s, FALSE) \in Texts /\ Scan(simplify_tagged_merge(s, FALSE)) = Scan(s)
  <1> DEFINE P == {u \in Texts : Scan(u).at # "broken" => MergedScan(u, Merged(u, FALSE))}
  <1>1. <<>> \in P
    <2>1. <<>> \in Texts /\ <<>> \o <<>> = <<>>
      BY DEF Texts
    <2>2. Merged(<<>>, FALSE) = Blank
      BY MergeAppend
    <2>3. MergedScan(<<>>, Blank)
      BY <2>1, HowManyEmpty DEF MergedScan, Blank
    <2> QED BY <2>1, <2>2, <2>3
  <1>2. ASSUME NEW u \in Texts, NEW t \in Token, u \in P PROVE Append(u, t) \in P
    <2>1. Append(u, t) \in Texts
      BY DEF Texts
    <2>2. ASSUME Scan(Append(u, t)).at # "broken"
          PROVE  MergedScan(Append(u, t), Merged(Append(u, t), FALSE))
      <3>1. Scan(u).at # "broken"
        BY <2>2, ScanBegins, ScanBroken
      <3>2. MergedScan(u, Merged(u, FALSE))
        BY <1>2, <3>1
      <3>3. Merged(Append(u, t), FALSE) = Merge(Merged(u, FALSE), t, FALSE) /\ Merged(u, FALSE) \in Doing
        BY MergeAppend
      <3> QED BY <2>2, <3>2, <3>3, MergedScanTag, MergedScanChar
    <2> QED BY <2>1, <2>2
  <1>3. Texts \subseteq P
    <2> HIDE DEF P
    <2> QED BY <1>1, <1>2, ByAppending DEF Texts
  <1> DEFINE done == Merged(s, FALSE)
  <1>4. MergedScan(s, done)
    BY <1>3
  <1>5. done \in Doing
    BY MergeAppend
  <1> HIDE DEF done
  <1>6. done.ret \o done.waiting \in Texts
    BY <1>5 DEF Doing, Texts
  <1>7. simplify_tagged_merge(s, FALSE) = done.ret \o done.waiting
    BY MergeIs DEF Written, done
  <1> QED BY <1>4, <1>6, <1>7 DEF MergedScan

LEMMA OverlapKeepsScan ==
  ASSUME NEW s \in Texts
  PROVE  simplify_tagged_overlap(s) \in Texts /\ Scan(simplify_tagged_overlap(s)) = Scan(s)
  <1> DEFINE P == {u \in Texts : Scan(Overlapped(u).ret) = Scan(u)}
  <1>1. <<>> \in P
    <2>1. Overlapped(<<>>) = Nothing
      BY OverlapAppend
    <2> QED BY <2>1 DEF Nothing, Texts
  <1>2. ASSUME NEW u \in Texts, NEW t \in Token, u \in P PROVE Append(u, t) \in P
    <2> DEFINE done == Overlapped(u)
               m == Overlap(done, t)
    <2>1. Append(u, t) \in Texts
      BY DEF Texts
    <2>2. done \in Overlapping /\ Overlapped(Append(u, t)) = m /\ done.ret \in Texts
      BY OverlapAppend DEF Overlapping
    <2>3. Scan(done.ret) = Scan(u)
      BY <1>2
    <2> HIDE DEF done
    <2>4. \/ m.ret = Append(done.ret, t)
          \/ m.ret = done.ret /\ Inert(t)
      <3>1. CASE IsFormat(t)
        <4> DEFINE v == add_or_cancel_tag(t, done.open_tags, TRUE)
        <4>1. m = OverlapFormat(done, t, v)
          BY <3>1 DEF Overlap
        <4> HIDE DEF m, v
        <4> QED BY <3>1, <4>1, InertIs DEF OverlapFormat
      <3>2. CASE ~IsFormat(t)
        <4>1. m = [done EXCEPT !.ret = Append(@, t)]
          BY <3>2 DEF Overlap
        <4> HIDE DEF m
        <4> QED BY <2>2, <4>1 DEF Overlapping
      <3> QED BY <3>1, <3>2
    <2> HIDE DEF m
    <2>5. Scan(Append(u, t)) = ScanTo(Scan(u), t) /\ Scan(u) \in Scanning
      BY ScanBegins
    <2>6. Scan(m.ret) = Scan(Append(u, t))
      <3>1. CASE m.ret = Append(done.ret, t)
        BY <2>2, <2>3, <2>5, <3>1, ScanBegins
      <3>2. CASE m.ret = done.ret /\ Inert(t)
        BY <2>3, <2>5, <3>2, InertIs
      <3> QED BY <2>4, <3>1, <3>2
    <2> QED BY <2>1, <2>2, <2>6
  <1>3. Texts \subseteq P
    <2> HIDE DEF P
    <2> QED BY <1>1, <1>2, ByAppending DEF Texts
  <1>4. Overlapped(s).ret \in Texts
    BY OverlapAppend DEF Overlapping
  <1> QED BY <1>3, <1>4, OverlapIs

LEMMA SimplifiedScan ==
  ASSUME NEW s \in Texts, Scan(s).at # "broken"
  PROVE  simplify_tagged(s) \in Texts /\ Scan(simplify_tagged(s)) = Scan(s)
  BY MergeKeepsScan, OverlapKeepsScan DEF simplify_tagged

-----------------------------------------------------------------------------
(* Taking the tags out of a text.                                            *)

OfSort(kinds) == {t \in Token : t[1] \in kinds}

LEMMA FilterAlike ==
  ASSUME NEW S, NEW T, NEW U, \A x \in S : x \in T <=> x \in U
  PROVE  \A s \in Seq(S) : Filter(s, T) = Filter(s, U)
  <1> DEFINE P == {s \in Seq(S) : Filter(s, T) = Filter(s, U)}
  <1>1. <<>> \in P
    BY FilterEmpty
  <1>2. ASSUME NEW s \in Seq(S), NEW x \in S, s \in P PROVE Append(s, x) \in P
    <2>1. /\ Filter(Append(s, x), T) = IF x \in T THEN Append(Filter(s, T), x) ELSE Filter(s, T)
          /\ Filter(Append(s, x), U) = IF x \in U THEN Append(Filter(s, U), x) ELSE Filter(s, U)
      BY FilterAppend
    <2>2. Append(s, x) \in Seq(S)
      OBVIOUS
    <2> QED BY <1>2, <2>1, <2>2
  <1>3. Seq(S) \subseteq P
    <2> HIDE DEF P
    <2> QED BY <1>1, <1>2, ByAppending
  <1> QED BY <1>3

LEMMA FilterCount ==
  ASSUME NEW T, NEW t
  PROVE  \A s \in Texts : HowMany(Filter(s, T), t) = IF t \in T THEN HowMany(s, t) ELSE 0
  <1> DEFINE P == {s \in Texts : HowMany(Filter(s, T), t) = IF t \in T THEN HowMany(s, t) ELSE 0}
  <1>1. <<>> \in P
    BY FilterEmpty, HowManyEmpty DEF Texts
  <1>2. ASSUME NEW s \in Texts, NEW u \in Token, s \in P PROVE Append(s, u) \in P
    <2> DEFINE f == Filter(s, T)
    <2>1. Append(s, u) \in Texts
      BY DEF Texts
    <2>2. Filter(Append(s, u), T) = IF u \in T THEN Append(f, u) ELSE f
      BY FilterAppend DEF Texts
    <2>3. f \in Texts
      BY FilterType DEF Texts
    <2>4. HowMany(f, t) = IF t \in T THEN HowMany(s, t) ELSE 0
      BY <1>2
    <2> HIDE DEF f
    <2>5. HowMany(Append(f, u), t) = HowMany(f, t) + One(u, t)
      BY <2>3, HowManyAppend DEF Texts
    <2>6. HowMany(Append(s, u), t) = HowMany(s, t) + One(u, t) /\ HowMany(s, t) \in Nat
      BY HowManyAppend DEF Texts
    <2>7. HowMany(Filter(Append(s, u), T), t) = IF t \in T THEN HowMany(Append(s, u), t) ELSE 0
      <3>1. CASE u = t
        BY <2>2, <2>4, <2>5, <2>6, <3>1
      <3>2. CASE u # t
        BY <2>2, <2>4, <2>5, <2>6, <3>2 DEF One
      <3> QED BY <3>1, <3>2
    <2> QED BY <2>1, <2>7
  <1>3. Texts \subseteq P
    <2> HIDE DEF P
    <2> QED BY <1>1, <1>2, ByAppending DEF Texts
  <1> QED BY <1>3

LEMMA OfKindIs ==
  ASSUME NEW s \in Texts, NEW kinds
  PROVE  /\ OfKind(s, kinds) = Filter(s, OfSort(kinds))
         /\ OfKind(s, kinds) \in Texts /\ OfKind(s, kinds) \in Seq(OfSort(kinds))
         /\ \A t : HowMany(OfKind(s, kinds), t) = IF t \in OfSort(kinds) THEN HowMany(s, t) ELSE 0
         /\ \A n \in 1..Len(OfKind(s, kinds)) : OfKind(s, kinds)[n] \in OfSort(kinds)
  <1> DEFINE T == {t \in Range(s) : t[1] \in kinds}
             U == OfSort(kinds)
             r == OfKind(s, kinds)
  <1>1. s \in Seq(Range(s)) /\ Range(s) \subseteq Token
    BY DEF Texts, Range
  <1>2. \A x \in Range(s) : x \in T <=> x \in U
    BY <1>1 DEF OfSort
  <1>3. Filter(s, T) = Filter(s, U)
    <2> HIDE DEF T, U
    <2> QED BY <1>1, <1>2, FilterAlike
  <1>4. r = Filter(s, U)
    BY <1>3 DEF OfKind
  <1>5. Filter(s, U) \in Seq(Token \cap U) /\ Filter(s, U) \in Texts
    BY FilterType DEF Texts
  <1>6. Token \cap U = U
    BY DEF OfSort
  <1> HIDE DEF U, r
  <1>7. \A n \in 1..Len(r) : r[n] \in U
    BY <1>4, <1>5, <1>6
  <1> QED BY <1>4, <1>5, <1>6, <1>7, FilterCount DEF U, r

-----------------------------------------------------------------------------
(* The tags of a part that is replaced.                                      *)

\* What remains of them cannot cancel any more.
Collected(u, x, done) ==
    /\ done.ret = <<>>
    /\ Net(done.waiting, x) = Net(u, x)
    /\ HowMany(done.waiting, Open(x)) = 0 \/ HowMany(done.waiting, Close(x)) = 0

LEMMA CollectedTag ==
  ASSUME NEW s \in Texts, NEW x, NEW t \in Token, IsTag(t), NEW done \in Doing, Collected(s, x, done)
  PROVE  Collected(Append(s, t), x, Merge(done, t, TRUE))
  <1> DEFINE w == done.waiting
             v == add_or_cancel_tag(t, w, TRUE)
             m == Merge(done, t, TRUE)
             C(u) == HowMany(u, Close(x))
             O(u) == HowMany(u, Open(x))
  <1>1. w \in Texts
    BY DEF Doing
  <1>2. m.ret = <<>> /\ m.waiting = v
    <2>1. m = [ret |-> done.ret, waiting |-> v] /\ done.ret = <<>>
      BY DEF Merge, Doing, Collected
    <2> HIDE DEF m
    <2> QED BY <2>1
  <1>3. Net(w, x) = Net(s, x) /\ (O(w) = 0 \/ C(w) = 0)
    BY DEF Collected
  <1>4. Net(Append(s, t), x) = Net(s, x) + Delta(t, x) /\ Net(s, x) \in Int
    BY NetAppend DEF Texts
  <1>5. Delta(t, x) = One(t, Open(x)) - One(t, Close(x)) /\ One(t, Open(x)) \in Nat /\ One(t, Close(x)) \in Nat
    BY DEF Delta, One
  <1>6. \A u \in Texts : Net(u, x) = O(u) - C(u) /\ O(u) \in Nat /\ C(u) \in Nat
    BY NetIs, HowManyConcat DEF Texts
  <1>7. \/ \E a, b \in Texts : w = Append(a, anti_tag(t)) \o b /\ v = a \o b
        \/ v = Append(w, t) /\ HowMany(w, anti_tag(t)) = 0
    BY <1>1, Cancelled DEF Cancels
  <1>8. /\ One(anti_tag(t), Open(x)) = One(t, Close(x)) /\ One(anti_tag(t), Close(x)) = One(t, Open(x))
        /\ t = Open(x) => anti_tag(t) = Close(x)
        /\ t = Close(x) => anti_tag(t) = Open(x)
    <2>1. t = Open(t[2]) \/ t = Close(t[2])
      BY TokenIs
    <2> QED BY <2>1, TagsDiffer DEF One
  <1>9. SUFFICES ASSUME TRUE
                 PROVE  Net(v, x) = Net(s, x) + Delta(t, x) /\ (O(v) = 0 \/ C(v) = 0)
    <2> HIDE DEF m, v
    <2> QED BY <1>2, <1>4 DEF Collected, m
  <1> HIDE DEF w, v, m
  <1>10. CASE v = Append(w, t) /\ HowMany(w, anti_tag(t)) = 0
    <2>1. O(v) = O(w) + One(t, Open(x)) /\ C(v) = C(w) + One(t, Close(x)) /\ v \in Texts
      BY <1>1, <1>10, HowManyAppend DEF Texts
    <2>2. (t = Open(x) => C(w) = 0) /\ (t = Close(x) => O(w) = 0)
      BY <1>8, <1>10
    <2>3. (t # Open(x) => One(t, Open(x)) = 0) /\ (t # Close(x) => One(t, Close(x)) = 0)
      BY DEF One
    <2>4. Open(x) # Close(x)
      BY TagsDiffer
    <2> HIDE DEF O, C
    <2> QED BY <1>1, <1>3, <1>4, <1>5, <1>6, <2>1, <2>2, <2>3, <2>4
  <1>11. CASE \E a, b \in Texts : w = Append(a, anti_tag(t)) \o b /\ v = a \o b
    <2>1. PICK a, b \in Texts : w = Append(a, anti_tag(t)) \o b /\ v = a \o b
      BY <1>11
    <2>2. anti_tag(t) \in Token
      BY TokenIs
    <2>3. /\ O(w) = O(v) + One(anti_tag(t), Open(x)) /\ C(w) = C(v) + One(anti_tag(t), Close(x))
          /\ v \in Texts
      BY <2>1, <2>2, TakenOut
    <2> HIDE DEF O, C
    <2> QED BY <1>1, <1>3, <1>4, <1>5, <1>6, <1>8, <2>3
  <1> QED BY <1>7, <1>10, <1>11

LEMMA CollectedTags ==
  ASSUME NEW u \in Seq(OfSort({"open", "close"})), NEW x
  PROVE  LET c == simplify_tagged_merge(u, TRUE)
         IN  /\ c \in Texts /\ Net(c, x) = Net(u, x)
             /\ HowMany(c, Open(x)) = 0 \/ HowMany(c, Close(x)) = 0
  <1> DEFINE T == OfSort({"open", "close"})
             P == {s \in Seq(T) : Collected(s, x, Merged(s, TRUE))}
  <1>0. \A t \in T : t \in Token /\ IsTag(t)
    BY DEF OfSort, IsTag, IsChar
  <1>1. Seq(T) \subseteq Texts
    BY <1>0 DEF Texts
  <1>2. <<>> \in P
    <2>1. Merged(<<>>, TRUE) = Blank
      BY MergeAppend
    <2>2. Collected(<<>>, x, Blank)
      BY HowManyEmpty DEF Collected, Blank
    <2>3. <<>> \in Seq(T)
      OBVIOUS
    <2> QED BY <2>1, <2>2, <2>3
  <1>3. ASSUME NEW s \in Seq(T), NEW t \in T, s \in P PROVE Append(s, t) \in P
    <2>1. s \in Texts /\ t \in Token /\ IsTag(t)
      BY <1>0, <1>1
    <2>2. Append(s, t) \in Seq(T)
      OBVIOUS
    <2>3. Merged(Append(s, t), TRUE) = Merge(Merged(s, TRUE), t, TRUE) /\ Merged(s, TRUE) \in Doing
      BY <2>1, MergeAppend
    <2>4. Collected(s, x, Merged(s, TRUE))
      BY <1>3
    <2>5. Collected(Append(s, t), x, Merge(Merged(s, TRUE), t, TRUE))
      BY <2>1, <2>3, <2>4, CollectedTag
    <2> QED BY <2>2, <2>3, <2>5
  <1>4. Seq(T) \subseteq P
    <2> HIDE DEF P, T
    <2> QED BY <1>2, <1>3, ByAppending
  <1> DEFINE done == Merged(u, TRUE)
  <1>5. Collected(u, x, done) /\ u \in Texts
    BY <1>1, <1>4
  <1>6. done \in Doing /\ simplify_tagged_merge(u, TRUE) = done.ret \o done.waiting
    BY <1>5, MergeAppend, MergeIs DEF Written
  <1> HIDE DEF done
  <1>7. done.waiting \in Texts /\ done.ret \o done.waiting = done.waiting
    BY <1>5, <1>6 DEF Doing, Collected, Texts
  <1> QED BY <1>5, <1>6, <1>7 DEF Collected

-----------------------------------------------------------------------------
(* The blocks that a text is in.                                             *)

\* Outside of all blocks, or in one that was counted.
Tidy(st) == /\ st \in Scanning
            /\ st.at = "outside" => st = Outside(st.width)
            /\ st.at \in {"empty", "filled"} => st.of \in Blocks /\ st.width > 0

LEMMA TidyStep ==
  ASSUME NEW st, Tidy(st), NEW t \in Token
  PROVE  Tidy(ScanTo(st, t))
  <1>1. st \in Scanning /\ st.width \in Nat /\ ScanTo(st, t) \in Scanning
    BY ScanType DEF Tidy, Scanning
  <1>2. \A w \in Nat : Tidy(Outside(w))
    BY DEF Tidy, Outside, Scanning
  <1>3. Tidy(Broken)
    BY DEF Tidy, Broken, Scanning
  <1>4. CASE OpensBlock(t) /\ st.at = "outside"
    <2> DEFINE y == [at |-> "empty", of |-> t[2], width |-> st.width + 1]
    <2>1. ScanTo(st, t) = y
      BY <1>4 DEF ScanTo
    <2>2. y \in Scanning /\ y.of \in Blocks /\ y.width > 0 /\ y.at = "empty"
      BY <1>1, <1>4 DEF OpensBlock, Scanning
    <2> QED BY <2>1, <2>2 DEF Tidy
  <1>5. CASE ~IsTag(t) /\ st.at # "broken"
    <2>0. ~OpensBlock(t) /\ ~IsBlockTag(t)
      BY <1>5 DEF OpensBlock, IsBlockTag, IsTag, IsChar
    <2>1. CASE st.at = "outside"
      BY <1>1, <1>2, <1>5, <2>0, <2>1 DEF ScanTo
    <2>2. CASE st.at # "outside"
      <3> DEFINE y == [st EXCEPT !.at = "filled"]
      <3>1. ScanTo(st, t) = y
        BY <1>5, <2>0, <2>2 DEF ScanTo
      <3>2. y.of = st.of /\ y.width = st.width /\ y.at = "filled"
        BY <1>1 DEF Scanning
      <3>3. st.at \in {"empty", "filled"}
        BY <1>1, <1>5, <2>2 DEF Scanning
      <3> HIDE DEF y
      <3> QED BY <1>1, <3>1, <3>2, <3>3 DEF Tidy
    <2> QED BY <2>1, <2>2
  <1>6. CASE ScanTo(st, t) = st \/ ScanTo(st, t) = Broken \/ ScanTo(st, t) = Outside(st.width)
    BY <1>1, <1>2, <1>3, <1>6
  <1>7. \/ OpensBlock(t) /\ st.at = "outside"
        \/ ~IsTag(t) /\ st.at # "broken"
        \/ ScanTo(st, t) = st \/ ScanTo(st, t) = Broken \/ ScanTo(st, t) = Outside(st.width)
    BY DEF ScanTo
  <1> QED BY <1>4, <1>5, <1>6, <1>7

LEMMA ScanTidy ==
  ASSUME NEW st, Tidy(st)
  PROVE  \A s \in Texts : Tidy(ScanFrom(st, s))
  <1> DEFINE P == {s \in Texts : Tidy(ScanFrom(st, s))}
  <1>0. st \in Scanning
    BY DEF Tidy
  <1>1. <<>> \in P
    BY <1>0, ScanAppend DEF Texts
  <1>2. ASSUME NEW s \in Texts, NEW t \in Token, s \in P PROVE Append(s, t) \in P
    <2>1. Append(s, t) \in Texts
      BY DEF Texts
    <2> QED BY <1>0, <1>2, <2>1, ScanAppend, TidyStep
  <1>3. Texts \subseteq P
    <2> HIDE DEF P
    <2> QED BY <1>1, <1>2, ByAppending DEF Texts
  <1> QED BY <1>3

LEMMA OutsideTidy ==
  /\ \A w \in Nat : Tidy(Outside(w)) /\ Outside(w).at = "outside" /\ Outside(w).width = w
  /\ \A s \in Texts : Tidy(Scan(s)) /\ Scan(s).width \in Nat
  <1>1. ASSUME NEW w \in Nat PROVE Tidy(Outside(w)) /\ Outside(w).at = "outside" /\ Outside(w).width = w
    BY DEF Tidy, Outside, Scanning
  <1>2. ASSUME NEW s \in Texts PROVE Tidy(Scan(s)) /\ Scan(s).width \in Nat
    BY <1>1, ScanTidy DEF Scan, Tidy, Scanning
  <1> QED BY <1>1, <1>2

\* A block is open where its tag is.
InBlock(st, x) == IF st.at \in {"empty", "filled"} /\ st.of = x THEN 1 ELSE 0

LEMMA BlockStep ==
  ASSUME NEW st, Tidy(st), NEW t \in Token, NEW x \in Blocks, ScanTo(st, t).at # "broken"
  PROVE  InBlock(ScanTo(st, t), x) = InBlock(st, x) + Delta(t, x)
  <1>1. st \in Scanning /\ st.at # "broken" /\ (st.at = "outside" => st.of = "none")
    BY ScanBroken DEF Tidy, Outside
  <1>2. x # "none" /\ Open(x) # Close(x)
    BY TagsDiffer DEF Blocks
  <1>3. t = Open(x) <=> OpensBlock(t) /\ t[2] = x
    BY TokenIs, TagsDiffer DEF OpensBlock, Open
  <1>4. CASE OpensBlock(t)
    <2> DEFINE y == [at |-> "empty", of |-> t[2], width |-> st.width + 1]
    <2>1. ScanTo(st, t) = y /\ st.at = "outside"
      BY <1>4 DEF ScanTo, Broken
    <2>2. InBlock(y, x) = IF t[2] = x THEN 1 ELSE 0
      BY DEF InBlock
    <2>3. InBlock(st, x) = 0
      BY <2>1 DEF InBlock
    <2>4. t # Close(x)
      BY <1>4, TagsDiffer DEF OpensBlock
    <2>5. Delta(t, x) = IF t[2] = x THEN 1 ELSE 0
      BY <1>3, <1>4, <2>4 DEF Delta, One
    <2> QED BY <2>1, <2>2, <2>3, <2>5
  <1>5. CASE ~OpensBlock(t) /\ IsBlockTag(t)
    <2>1. ScanTo(st, t) = Outside(st.width) /\ st.at = "filled" /\ st.of = t[2]
      BY <1>5 DEF ScanTo, Broken
    <2>2. t = Close(t[2]) /\ t # Open(x)
      <3>1. t = Open(t[2]) \/ t = Close(t[2])
        BY <1>5, TokenIs DEF IsBlockTag
      <3>2. t # Open(t[2])
        BY <1>5, TagsDiffer DEF OpensBlock, IsBlockTag
      <3> QED BY <1>3, <1>5, <3>1, <3>2
    <2>3. t = Close(x) <=> t[2] = x
      BY <2>2, TagsDiffer
    <2>4. InBlock(Outside(st.width), x) = 0
      BY DEF InBlock, Outside
    <2> QED BY <2>1, <2>2, <2>3, <2>4 DEF InBlock, Delta, One
  <1>6. CASE ~IsBlockTag(t)
    <2>1. ~OpensBlock(t)
      BY <1>6 DEF OpensBlock, IsBlockTag, IsTag, IsChar
    <2>2. t # Open(x) /\ t # Close(x)
      BY <1>6, TagsDiffer DEF IsBlockTag
    <2>3. Delta(t, x) = 0
      BY <2>2 DEF Delta, One
    <2>4. InBlock(ScanTo(st, t), x) = InBlock(st, x)
      <3>1. CASE IsTag(t)
        BY <1>6, <2>1, <3>1 DEF ScanTo
      <3>2. CASE ~IsTag(t) /\ st.at = "outside"
        <4>1. ScanTo(st, t) = Outside(st.width + 1)
          BY <1>6, <2>1, <3>2 DEF ScanTo
        <4> QED BY <3>2, <4>1 DEF InBlock, Outside
      <3>3. CASE ~IsTag(t) /\ st.at # "outside"
        <4> DEFINE y == [st EXCEPT !.at = "filled"]
        <4>1. ScanTo(st, t) = y
          BY <1>1, <1>6, <2>1, <3>3 DEF ScanTo
        <4>2. y.at = "filled" /\ y.of = st.of
          BY <1>1 DEF Scanning
        <4>3. st.at \in {"empty", "filled"}
          BY <1>1, <3>3 DEF Scanning
        <4> HIDE DEF y
        <4> QED BY <4>1, <4>2, <4>3 DEF InBlock
      <3> QED BY <3>1, <3>2, <3>3
    <2>5. InBlock(st, x) \in Nat
      BY DEF InBlock
    <2> QED BY <2>3, <2>4, <2>5
  <1> QED BY <1>4, <1>5, <1>6

LEMMA BlockOpen ==
  ASSUME NEW st, Tidy(st), st.at = "outside", NEW x \in Blocks
  PROVE  \A s \in Texts : ScanFrom(st, s).at # "broken" => Net(s, x) = InBlock(ScanFrom(st, s), x)
  <1> DEFINE P == {s \in Texts : ScanFrom(st, s).at # "broken" => Net(s, x) = InBlock(ScanFrom(st, s), x)}
  <1>0. st \in Scanning
    BY DEF Tidy
  <1>1. <<>> \in P
    <2>1. Net(<<>>, x) = 0 /\ <<>> \in Texts
      BY NetIs, HowManyEmpty DEF Texts
    <2>2. InBlock(st, x) = 0
      BY DEF InBlock
    <2> QED BY <1>0, <2>1, <2>2, ScanAppend
  <1>2. ASSUME NEW s \in Texts, NEW t \in Token, s \in P PROVE Append(s, t) \in P
    <2> DEFINE u == ScanFrom(st, s)
    <2>1. Append(s, t) \in Texts
      BY DEF Texts
    <2>2. ScanFrom(st, Append(s, t)) = ScanTo(u, t) /\ Tidy(u) /\ u \in Scanning
      BY <1>0, ScanAppend, ScanTidy
    <2>3. Net(Append(s, t), x) = Net(s, x) + Delta(t, x) /\ Net(s, x) \in Int
      BY NetAppend DEF Texts
    <2>4. u.at # "broken" => Net(s, x) = InBlock(u, x)
      BY <1>2
    <2> HIDE DEF u
    <2>5. ASSUME ScanTo(u, t).at # "broken" PROVE Net(Append(s, t), x) = InBlock(ScanTo(u, t), x)
      BY <2>2, <2>3, <2>4, <2>5, BlockStep, ScanBroken
    <2> QED BY <2>1, <2>2, <2>5
  <1>3. Texts \subseteq P
    <2> HIDE DEF P
    <2> QED BY <1>1, <1>2, ByAppending DEF Texts
  <1> QED BY <1>3

\* In a text without blocks, its characters are what counts.
LEMMA ScanQuiet ==
  ASSUME NEW st \in Scanning, NEW s \in Texts, \A n \in 1..Len(s) : Inert(s[n])
  PROVE  ScanFrom(st, s) = st
  <1> DEFINE T == {t \in Token : Inert(t)}
             P == {r \in Seq(T) : ScanFrom(st, r) = st}
  <1>1. Seq(T) \subseteq Texts
    BY DEF Texts
  <1>2. <<>> \in P
    <2>1. <<>> \in Seq(T)
      OBVIOUS
    <2> QED BY <2>1, ScanAppend
  <1>3. ASSUME NEW r \in Seq(T), NEW t \in T, r \in P PROVE Append(r, t) \in P
    <2>1. r \in Texts /\ t \in Token /\ Inert(t)
      BY <1>1
    <2>2. Append(r, t) \in Seq(T)
      OBVIOUS
    <2>3. ScanFrom(st, Append(r, t)) = ScanTo(st, t)
      BY <1>3, <2>1, ScanAppend
    <2> QED BY <2>1, <2>2, <2>3, InertIs
  <1>4. Seq(T) \subseteq P
    <2> HIDE DEF P, T
    <2> QED BY <1>2, <1>3, ByAppending
  <1>5. s \in Seq(T)
    BY DEF Texts
  <1> QED BY <1>4, <1>5

LEMMA ScanFlat ==
  ASSUME NEW w \in Nat, NEW s \in Texts, \A n \in 1..Len(s) : ~IsBlockTag(s[n])
  PROVE  /\ Len(OfKind(s, {"char"})) \in Nat
         /\ ScanFrom(Outside(w), s) = Outside(w + Len(OfKind(s, {"char"})))
  <1> DEFINE T == {t \in Token : ~IsBlockTag(t)}
             C == OfSort({"char"})
             P == {r \in Seq(T) : ScanFrom(Outside(w), r) = Outside(w + Len(Filter(r, C)))}
  <1>0. Seq(T) \subseteq Texts /\ Outside(w) \in Scanning
    BY ScanType DEF Texts
  <1>1. <<>> \in P
    <2>1. <<>> \in Seq(T) /\ Filter(<<>>, C) = <<>> /\ w + Len(<<>>) = w
      BY FilterEmpty
    <2> QED BY <1>0, <2>1, ScanAppend
  <1>2. ASSUME NEW r \in Seq(T), NEW t \in T, r \in P PROVE Append(r, t) \in P
    <2> DEFINE f == Filter(r, C)
    <2>1. r \in Texts /\ t \in Token /\ ~IsBlockTag(t) /\ ~OpensBlock(t)
      BY <1>0 DEF OpensBlock, IsBlockTag, IsTag, IsChar
    <2>2. Append(r, t) \in Seq(T)
      OBVIOUS
    <2>3. ScanFrom(Outside(w), Append(r, t)) = ScanTo(Outside(w + Len(f)), t)
      BY <1>0, <1>2, <2>1, ScanAppend
    <2>4. Filter(Append(r, t), C) = IF t \in C THEN Append(f, t) ELSE f
      BY <2>1, FilterAppend DEF Texts
    <2>5. f \in Texts /\ Len(f) \in Nat
      <3>1. f \in Texts
        BY <2>1, FilterType DEF Texts
      <3> HIDE DEF f
      <3> QED BY <3>1 DEF Texts
    <2>6. t \in C <=> ~IsTag(t)
      BY <2>1 DEF OfSort, IsTag, IsChar
    <2> HIDE DEF f, C
    <2>7. CASE t \in C
      <3>1. Len(Append(f, t)) = Len(f) + 1
        BY <2>5 DEF Texts
      <3>2. ScanTo(Outside(w + Len(f)), t) = Outside((w + Len(f)) + 1)
        BY <2>1, <2>6, <2>7 DEF ScanTo, Outside
      <3>3. (w + Len(f)) + 1 = w + Len(Filter(Append(r, t), C))
        BY <2>4, <2>5, <2>7, <3>1
      <3> QED BY <2>2, <2>3, <3>2, <3>3
    <2>8. CASE t \notin C
      <3>1. ScanTo(Outside(w + Len(f)), t) = Outside(w + Len(f))
        BY <2>1, <2>6, <2>8 DEF ScanTo
      <3> QED BY <2>2, <2>3, <2>4, <2>8, <3>1 DEF f
    <2> QED BY <2>7, <2>8
  <1>3. Seq(T) \subseteq P
    <2> HIDE DEF P, T
    <2> QED BY <1>1, <1>2, ByAppending
  <1>4. s \in Seq(T)
    BY DEF Texts
  <1>5. OfKind(s, {"char"}) = Filter(s, C) /\ Len(OfKind(s, {"char"})) \in Nat
    BY OfKindIs DEF Texts
  <1> QED BY <1>3, <1>4, <1>5

-----------------------------------------------------------------------------
(* Parts of a text.                                                          *)

ScanAt(s, n) == Scan(Sub(s, 0, n))

LEMMA SubIs ==
  ASSUME NEW s \in Texts, NEW a \in 0..Len(s), NEW b \in 0..Len(s), a <= b
  PROVE  /\ Sub(s, a, b) = SubSeq(s, a + 1, b) /\ Sub(s, a, b) \in Texts /\ Len(Sub(s, a, b)) = b - a
         /\ \A i \in 1..b - a : Sub(s, a, b)[i] = s[a + i]
  <1>1. Len(s) \in Nat /\ {b, Len(s)} \in SUBSET Nat /\ {b, Len(s)} # {}
    BY DEF Texts
  <1>2. Min({b, Len(s)}) \in {b, Len(s)} /\ \A i \in {b, Len(s)} : Min({b, Len(s)}) <= i
    BY <1>1, LeastIs
  <1>3. Min({b, Len(s)}) = b
    BY <1>1, <1>2
  <1>4. Sub(s, a, b) = SubSeq(s, a + 1, b)
    BY <1>3 DEF Sub
  <1>5. \A i \in a + 1..b : s[i] \in Token
    BY <1>1 DEF Texts
  <1>6. /\ SubSeq(s, a + 1, b) \in Seq(Token) /\ Len(SubSeq(s, a + 1, b)) = b - a
        /\ \A i \in 1..b - a : SubSeq(s, a + 1, b)[i] = s[a + i]
    BY <1>1, <1>5 DEF Texts
  <1> QED BY <1>4, <1>6 DEF Texts

LEMMA Cut ==
  ASSUME NEW s \in Texts, NEW a \in 0..Len(s), NEW b \in 0..Len(s), a <= b
  PROVE  Sub(s, 0, b) = Sub(s, 0, a) \o Sub(s, a, b)
  <1> DEFINE l == Sub(s, 0, b)
             p == Sub(s, 0, a)
             m == Sub(s, a, b)
             r == p \o m
  <1>0. Len(s) \in Nat /\ 0 \in 0..Len(s) /\ 0 <= a /\ 0 <= b /\ b - 0 = b /\ a - 0 = a
    BY DEF Texts
  <1>1. l \in Texts /\ Len(l) = b /\ \A i \in 1..b : l[i] = s[i]
    BY <1>0, SubIs
  <1>2. p \in Texts /\ Len(p) = a /\ \A i \in 1..a : p[i] = s[i]
    BY <1>0, SubIs
  <1>3. m \in Texts /\ Len(m) = b - a /\ \A i \in 1..b - a : m[i] = s[a + i]
    BY SubIs
  <1> HIDE DEF l, p, m
  <1>4. r \in Texts /\ Len(r) = b
    <2>0. p \in Texts /\ m \in Texts /\ Len(p) = a /\ Len(m) = b - a
      BY <1>2, <1>3
    <2>1. r \in Texts /\ Len(r) = Len(p) + Len(m)
      BY <2>0 DEF Texts
    <2>2. a + (b - a) = b
      BY <1>0
    <2> HIDE DEF r
    <2> QED BY <2>0, <2>1, <2>2
  <1>5. ASSUME NEW i \in 1..b PROVE r[i] = s[i]
    <2>1. CASE i <= a
      BY <1>2, <1>3, <2>1 DEF Texts
    <2>2. CASE i > a
      <3>1. i - a \in 1..b - a /\ i = a + (i - a)
        BY <1>0, <2>2
      <3>2. r[i] = m[i - a]
        BY <1>2, <1>3, <2>2 DEF Texts
      <3> QED BY <1>3, <3>1, <3>2
    <2>3. i <= a \/ i > a
      BY <1>0
    <2> QED BY <2>1, <2>2, <2>3
  <1> HIDE DEF r
  <1>6. l = r
    BY <1>1, <1>4, <1>5 DEF Texts
  <1> QED BY <1>6 DEF l, r, p, m

LEMMA CutAll ==
  ASSUME NEW s \in Texts
  PROVE  /\ Sub(s, 0, Len(s)) = s /\ Sub(s, 0, 0) = <<>> /\ Len(s) \in Nat
         /\ \A n \in 0..Len(s) - 1 : Sub(s, 0, n + 1) = Append(Sub(s, 0, n), s[n + 1])
         /\ \A n \in 0..Len(s) : Sub(s, 0, n) \in Texts
         /\ \A n \in 1..Len(s) : s[n] \in Token
         /\ \A n \in 0..Len(s) : \A x : Level(s, x, n) = Net(Sub(s, 0, n), x)
  <1>0. Len(s) \in Nat /\ 0 \in 0..Len(s) /\ Len(s) \in 0..Len(s) /\ \A n \in 1..Len(s) : s[n] \in Token
    BY DEF Texts
  <1>1. ASSUME NEW n \in 0..Len(s)
        PROVE  Sub(s, 0, n) \in Texts /\ Len(Sub(s, 0, n)) = n /\ \A i \in 1..n : Sub(s, 0, n)[i] = s[i]
    BY <1>0, SubIs
  <1>2. Sub(s, 0, Len(s)) = s
    <2> DEFINE r == Sub(s, 0, Len(s))
    <2>1. r \in Texts /\ Len(r) = Len(s) /\ \A i \in 1..Len(s) : r[i] = s[i]
      BY <1>0, <1>1
    <2> HIDE DEF r
    <2>2. r = s
      BY <2>1 DEF Texts
    <2> QED BY <2>2 DEF r
  <1>3. Sub(s, 0, 0) = <<>>
    <2> DEFINE r == Sub(s, 0, 0)
    <2>1. r \in Texts /\ Len(r) = 0
      BY <1>0, <1>1
    <2> HIDE DEF r
    <2>2. r = <<>>
      BY <2>1 DEF Texts
    <2> QED BY <2>2 DEF r
  <1>4. ASSUME NEW n \in 0..Len(s) - 1 PROVE Sub(s, 0, n + 1) = Append(Sub(s, 0, n), s[n + 1])
    <2> DEFINE r == Sub(s, 0, n)
               l == Sub(s, 0, n + 1)
    <2>1. n \in 0..Len(s) /\ n + 1 \in 0..Len(s) /\ n + 1 \in 1..Len(s) /\ s[n + 1] \in Token
      BY <1>0
    <2>2. r \in Texts /\ Len(r) = n /\ \A i \in 1..n : r[i] = s[i]
      BY <1>1, <2>1
    <2>3. l \in Texts /\ Len(l) = n + 1 /\ \A i \in 1..n + 1 : l[i] = s[i]
      BY <1>1, <2>1
    <2> HIDE DEF r, l
    <2>4. l = Append(r, s[n + 1])
      BY <2>1, <2>2, <2>3 DEF Texts
    <2> QED BY <2>4 DEF r, l
  <1>5. ASSUME NEW n \in 0..Len(s), NEW x PROVE Level(s, x, n) = Net(Sub(s, 0, n), x)
    <2> DEFINE r == Sub(s, 0, n)
    <2>1. Len(r) = n /\ n \in Nat /\ \A i \in 1..n : s[i] = r[i]
      BY <1>0, <1>1
    <2> HIDE DEF r
    <2>2. Level(s, x, n) = Level(r, x, n)
      BY <2>1, LevelSame
    <2> QED BY <2>1, <2>2 DEF Net, r
  <1> QED BY <1>0, <1>1, <1>2, <1>3, <1>4, <1>5

LEMMA ScanMoved ==
  ASSUME NEW v \in Nat, NEW s \in Texts, ScanFrom(Outside(v), s).at = "outside"
  PROVE  \E k \in Nat : /\ ScanFrom(Outside(v), s) = Outside(v + k)
                        /\ \A w \in Nat : ScanFrom(Outside(w), s) = Outside(w + k)
  <1> DEFINE base == ScanFrom(Outside(0), s)
  <1>1. \A w \in Nat : Wider(Outside(0), w) = Outside(w) /\ Outside(w) \in Scanning
    <2> SUFFICES ASSUME NEW w \in Nat PROVE Wider(Outside(0), w) = Outside(w)
      BY ScanType
    <2>1. Outside(0).at # "broken" /\ Outside(0).width + w = w
      BY DEF Outside
    <2>2. [Outside(0) EXCEPT !.width = w] = Outside(w)
      BY DEF Outside
    <2> QED BY <2>1, <2>2 DEF Wider
  <1>2. \A w \in Nat : ScanFrom(Outside(w), s) = Wider(base, w)
    BY <1>1, ScanWider
  <1>3. Tidy(base) /\ base \in Scanning /\ base.width \in Nat
    BY OutsideTidy, ScanTidy DEF Tidy, Scanning
  <1> HIDE DEF base
  <1>4. base.at = "outside"
    <2>1. Wider(base, v).at = "outside"
      BY <1>2
    <2> QED BY <1>3, <2>1 DEF Wider, Scanning
  <1> DEFINE k == base.width
  <1>5. k \in Nat /\ base = Outside(k)
    BY <1>3, <1>4 DEF Tidy
  <1> HIDE DEF k
  <1>6. ASSUME NEW w \in Nat PROVE ScanFrom(Outside(w), s) = Outside(w + k)
    <2>1. Wider(Outside(k), w) = Outside(k + w)
      BY <1>5 DEF Wider, Outside
    <2>2. k + w = w + k
      BY <1>5
    <2> QED BY <1>2, <1>5, <2>1, <2>2
  <1> QED BY <1>5, <1>6

-----------------------------------------------------------------------------
(* Replacing a part of a text.                                               *)

Around(p, cl, rep, op, q) == (((p \o cl) \o rep) \o op) \o q

\* Tags x take the place of m, and nothing else of x.
Fits(p, m, q, cl, rep, op, x) ==
    /\ p \in Texts /\ m \in Texts /\ q \in Texts /\ cl \in Texts /\ rep \in Texts /\ op \in Texts
    /\ HowMany(cl, Close(x)) = 0 \/ HowMany(op, Open(x)) = 0
    /\ NonNeg((p \o m) \o q, x) /\ Net((p \o m) \o q, x) = 0
    /\ Net(m, x) = HowMany(op, Open(x)) - HowMany(cl, Close(x))
    /\ HowMany(cl, Open(x)) = 0 /\ HowMany(op, Close(x)) = 0
    /\ NonNeg(rep, x) /\ Net(rep, x) = 0

LEMMA ReplacedLevels ==
  ASSUME NEW p, NEW m, NEW q, NEW cl, NEW rep, NEW op, NEW x, Fits(p, m, q, cl, rep, op, x)
  PROVE  NonNeg(Around(p, cl, rep, op, q), x) /\ Net(Around(p, cl, rep, op, q), x) = 0
  <1> DEFINE a == p \o cl
             b == a \o rep
             c == b \o op
             pm == p \o m
             C == HowMany(cl, Close(x))
             O == HowMany(op, Open(x))
  <1>0. /\ p \in Texts /\ m \in Texts /\ q \in Texts /\ cl \in Texts /\ rep \in Texts /\ op \in Texts
        /\ C = 0 \/ O = 0
        /\ NonNeg((p \o m) \o q, x) /\ Net((p \o m) \o q, x) = 0 /\ Net(m, x) = O - C
        /\ HowMany(cl, Close(x)) = C /\ HowMany(op, Open(x)) = O
        /\ HowMany(cl, Open(x)) = 0 /\ HowMany(op, Close(x)) = 0
        /\ NonNeg(rep, x) /\ Net(rep, x) = 0
    BY DEF Fits
  <1>00. C \in Nat /\ O \in Nat
    BY <1>0, HowManyConcat DEF Texts
  <1> HIDE DEF C, O
  <1>1. a \in Texts /\ b \in Texts /\ c \in Texts /\ pm \in Texts
    BY <1>0, <1>00 DEF Texts
  <1>2. Net(cl, x) = -C /\ Net(op, x) = O
    BY <1>0, <1>00, NetIs
  <1>3. Net(p, x) \in Int /\ Net(q, x) \in Int /\ Net(pm, x) = Net(p, x) + Net(m, x)
    BY <1>0, <1>00, LevelConcat DEF Texts
  <1>4. Net(pm, x) + Net(q, x) = 0 /\ NonNeg(pm, x)
    <2> HIDE DEF pm
    <2>1. Net(pm \o q, x) = 0 /\ NonNeg(pm \o q, x)
      BY <1>0, <1>00 DEF pm
    <2> QED BY <1>0, <1>00, <1>1, <2>1, LevelConcat DEF Texts
  <1>5. NonNeg(p, x) /\ Net(p, x) >= 0 /\ Net(pm, x) >= 0
    <2>1. NonNeg(p, x)
      BY <1>0, <1>00, <1>4, LevelConcat DEF Texts
    <2>2. \A s \in Texts : NonNeg(s, x) => Net(s, x) >= 0
      BY <1>0, <1>00 DEF NonNeg, Net, Texts
    <2> QED BY <1>0, <1>00, <1>1, <1>4, <2>1, <2>2
  <1>6. Net(p, x) >= C
    BY <1>0, <1>00, <1>3, <1>5
  <1>7. NonNeg(a, x) /\ Net(a, x) = Net(p, x) - C
    <2>1. NonNeg(a, x)
      BY <1>0, <1>00, <1>5, <1>6, NonNegConcat DEF Texts
    <2>2. Net(a, x) = Net(p, x) + Net(cl, x)
      BY <1>0, <1>00, LevelConcat DEF Texts
    <2> QED BY <1>0, <1>00, <1>2, <1>3, <2>1, <2>2
  <1> HIDE DEF a, pm
  <1>8. NonNeg(b, x) /\ Net(b, x) = Net(p, x) - C
    <2>1. ASSUME NEW n \in 0..Len(rep) PROVE Net(a, x) + Level(rep, x, n) >= 0
      <3>1. n \in Nat
        BY <1>0, <1>00 DEF Texts
      <3>2. Level(rep, x, n) >= 0 /\ Level(rep, x, n) \in Int
        BY <1>0, <1>00, <3>1, LevelSteps DEF NonNeg
      <3> QED BY <1>0, <1>00, <1>3, <1>6, <1>7, <3>2
    <2>2. NonNeg(b, x)
      BY <1>0, <1>00, <1>1, <1>7, <2>1, LevelConcat DEF Texts
    <2>3. Net(b, x) = Net(a, x) + Net(rep, x)
      BY <1>0, <1>00, <1>1, LevelConcat DEF Texts
    <2> QED BY <1>0, <1>00, <1>3, <1>7, <2>2, <2>3
  <1> HIDE DEF b
  <1>9. NonNeg(c, x) /\ Net(c, x) = Net(pm, x)
    <2>1. Net(b, x) >= HowMany(op, Close(x))
      BY <1>0, <1>00, <1>3, <1>6, <1>8
    <2>2. NonNeg(c, x)
      BY <1>0, <1>00, <1>1, <1>8, <2>1, NonNegConcat DEF Texts
    <2>3. Net(c, x) = Net(b, x) + Net(op, x)
      BY <1>0, <1>00, <1>1, LevelConcat DEF Texts
    <2> QED BY <1>0, <1>00, <1>2, <1>3, <1>8, <2>2, <2>3
  <1> HIDE DEF c
  <1>10. \A n \in 0..Len(q) : Net(pm, x) + Level(q, x, n) >= 0
    <2>1. NonNeg(pm \o q, x)
      BY <1>0, <1>00 DEF pm
    <2> QED BY <1>0, <1>00, <1>1, <2>1, LevelConcat DEF Texts
  <1>11. NonNeg(c \o q, x)
    BY <1>0, <1>00, <1>1, <1>9, <1>10, LevelConcat DEF Texts
  <1>12. Net(c \o q, x) = 0
    <2>1. Net(c \o q, x) = Net(c, x) + Net(q, x)
      BY <1>0, <1>00, <1>1, LevelConcat DEF Texts
    <2> QED BY <1>0, <1>00, <1>4, <1>9, <2>1
  <1> QED BY <1>0, <1>00, <1>11, <1>12 DEF c, b, a, Around

FitsBlocks(p, q, cl, rep, op, v, w) ==
    /\ p \in Texts /\ q \in Texts /\ cl \in Texts /\ rep \in Texts /\ op \in Texts
    /\ v \in Nat /\ w \in Nat
    /\ Scan(p) = Outside(v) /\ ScanFrom(Outside(w), q).at = "outside"
    /\ \A n \in 1..Len(cl) : Inert(cl[n])
    /\ \A n \in 1..Len(op) : Inert(op[n])
    /\ \A n \in 1..Len(rep) : ~IsBlockTag(rep[n])

LEMMA ReplacedScan ==
  ASSUME NEW p, NEW q, NEW cl, NEW rep, NEW op, NEW v, NEW w, FitsBlocks(p, q, cl, rep, op, v, w)
  PROVE  \E k \in Nat : /\ ScanFrom(Outside(w), q) = Outside(w + k)
                        /\ Scan(Around(p, cl, rep, op, q))
                             = Outside((v + Len(OfKind(rep, {"char"}))) + k)
                        /\ Len(OfKind(rep, {"char"})) \in Nat
  <1> DEFINE a == p \o cl
             b == a \o rep
             c == b \o op
             n == Len(OfKind(rep, {"char"}))
  <1>0. /\ p \in Texts /\ q \in Texts /\ cl \in Texts /\ rep \in Texts /\ op \in Texts
        /\ v \in Nat /\ w \in Nat
        /\ Scan(p) = Outside(v) /\ ScanFrom(Outside(w), q).at = "outside"
        /\ \A i \in 1..Len(cl) : Inert(cl[i])
        /\ \A i \in 1..Len(op) : Inert(op[i])
        /\ \A i \in 1..Len(rep) : ~IsBlockTag(rep[i])
    BY DEF FitsBlocks
  <1>1. a \in Texts /\ b \in Texts /\ c \in Texts
    BY <1>0 DEF Texts
  <1>2. \A u \in Nat : Outside(u) \in Scanning
    BY <1>0, ScanType
  <1>3. Scan(a) = Outside(v)
    BY <1>0, <1>2, ScanBegins, ScanQuiet
  <1> HIDE DEF a
  <1>4. n \in Nat /\ ScanFrom(Outside(v), rep) = Outside(v + n)
    BY <1>0, ScanFlat
  <1>5. Scan(b) = Outside(v + n)
    BY <1>0, <1>1, <1>3, <1>4, ScanBegins
  <1> HIDE DEF b, n
  <1>6. Scan(c) = Outside(v + n)
    <2>1. Scan(c) = ScanFrom(Outside(v + n), op)
      BY <1>0, <1>1, <1>5, ScanBegins
    <2> QED BY <1>0, <1>2, <1>4, <2>1, ScanQuiet
  <1> HIDE DEF c
  <1>7. PICK k \in Nat : /\ ScanFrom(Outside(w), q) = Outside(w + k)
                         /\ \A u \in Nat : ScanFrom(Outside(u), q) = Outside(u + k)
    BY <1>0, ScanMoved
  <1>8. Scan(c \o q) = Outside((v + n) + k)
    BY <1>0, <1>1, <1>4, <1>6, <1>7, ScanBegins
  <1> QED BY <1>0, <1>4, <1>7, <1>8 DEF a, b, c, n, Around

LEMMA Gathered ==
  ASSUME NEW m \in Texts
  PROVE  LET c == simplify_tagged_merge(get_tags(m, {"open", "close"}), TRUE)
             cl == get_tags(c, {"close"})
             op == get_tags(c, {"open"})
         IN  /\ c \in Texts /\ cl \in Texts /\ op \in Texts
             /\ \A x : /\ HowMany(c, Open(x)) \in Nat /\ HowMany(c, Close(x)) \in Nat
                       /\ HowMany(c, Open(x)) = 0 \/ HowMany(c, Close(x)) = 0
                       /\ Net(m, x) = HowMany(c, Open(x)) - HowMany(c, Close(x))
                       /\ HowMany(cl, Close(x)) = HowMany(c, Close(x)) /\ HowMany(cl, Open(x)) = 0
                       /\ HowMany(op, Open(x)) = HowMany(c, Open(x)) /\ HowMany(op, Close(x)) = 0
             /\ (\A x \in Blocks : Net(m, x) = 0) =>
                   /\ \A n \in 1..Len(cl) : Inert(cl[n])
                   /\ \A n \in 1..Len(op) : Inert(op[n])
  <1> DEFINE u == get_tags(m, {"open", "close"})
             c == simplify_tagged_merge(u, TRUE)
             cl == get_tags(c, {"close"})
             op == get_tags(c, {"open"})
  <1>1. /\ u \in Texts /\ u \in Seq(OfSort({"open", "close"}))
        /\ \A t : HowMany(u, t) = IF t \in OfSort({"open", "close"}) THEN HowMany(m, t) ELSE 0
    BY OfKindIs DEF get_tags
  <1> HIDE DEF u
  <1>2. /\ c \in Texts
        /\ \A x : Net(c, x) = Net(u, x) /\ (HowMany(c, Open(x)) = 0 \/ HowMany(c, Close(x)) = 0)
    BY <1>1, CollectedTags
  <1> HIDE DEF c
  <1>3. /\ cl \in Texts
        /\ \A t : HowMany(cl, t) = IF t \in OfSort({"close"}) THEN HowMany(c, t) ELSE 0
        /\ \A n \in 1..Len(cl) : cl[n] \in OfSort({"close"})
    BY <1>2, OfKindIs DEF get_tags
  <1>4. /\ op \in Texts
        /\ \A t : HowMany(op, t) = IF t \in OfSort({"open"}) THEN HowMany(c, t) ELSE 0
        /\ \A n \in 1..Len(op) : op[n] \in OfSort({"open"})
    BY <1>2, OfKindIs DEF get_tags
  <1> HIDE DEF cl, op
  <1>5. ASSUME NEW s \in Texts, NEW t, t \notin Token PROVE HowMany(s, t) = 0
    BY <1>5, HowManyZero DEF Texts
  <1>6. \A x : /\ Open(x) \in Token => Open(x) \in OfSort({"open"}) /\ Open(x) \in OfSort({"open", "close"})
               /\ Open(x) \notin OfSort({"close"})
               /\ Close(x) \in Token => Close(x) \in OfSort({"close"}) /\ Close(x) \in OfSort({"open", "close"})
               /\ Close(x) \notin OfSort({"open"})
    BY DEF OfSort, Open, Close
  <1>7. ASSUME NEW x
        PROVE  /\ HowMany(c, Open(x)) \in Nat /\ HowMany(c, Close(x)) \in Nat
               /\ HowMany(c, Open(x)) = 0 \/ HowMany(c, Close(x)) = 0
               /\ Net(m, x) = HowMany(c, Open(x)) - HowMany(c, Close(x))
               /\ HowMany(cl, Close(x)) = HowMany(c, Close(x)) /\ HowMany(cl, Open(x)) = 0
               /\ HowMany(op, Open(x)) = HowMany(c, Open(x)) /\ HowMany(op, Close(x)) = 0
    <2>1. HowMany(u, Open(x)) = HowMany(m, Open(x)) /\ HowMany(u, Close(x)) = HowMany(m, Close(x))
      BY <1>1, <1>5, <1>6
    <2>2. Net(m, x) = HowMany(c, Open(x)) - HowMany(c, Close(x))
      BY <1>2, <2>1, NetIs
    <2>3. HowMany(c, Open(x)) \in Nat /\ HowMany(c, Close(x)) \in Nat
      BY <1>2, HowManyConcat DEF Texts
    <2>4. HowMany(cl, Close(x)) = HowMany(c, Close(x)) /\ HowMany(cl, Open(x)) = 0
      BY <1>2, <1>3, <1>5, <1>6
    <2>5. HowMany(op, Open(x)) = HowMany(c, Open(x)) /\ HowMany(op, Close(x)) = 0
      BY <1>2, <1>4, <1>5, <1>6
    <2> QED BY <1>2, <2>2, <2>3, <2>4, <2>5
  <1>8. ASSUME \A x \in Blocks : Net(m, x) = 0
        PROVE  /\ \A n \in 1..Len(cl) : Inert(cl[n])
               /\ \A n \in 1..Len(op) : Inert(op[n])
    <2>1. \A x \in Blocks : HowMany(c, Open(x)) = 0 /\ HowMany(c, Close(x)) = 0
      BY <1>7, <1>8
    <2>2. ASSUME NEW n \in 1..Len(cl) PROVE Inert(cl[n])
      <3> DEFINE t == cl[n]
      <3>1. t \in Token /\ t[1] = "close" /\ HowMany(cl, t) # 0
        BY <1>3, HowManyZero DEF OfSort, Texts
      <3>2. t = Close(t[2]) /\ IsTag(t)
        BY <3>1, TokenIs DEF Close, IsTag, IsChar
      <3>3. t[2] \notin Blocks
        BY <1>7, <2>1, <3>1, <3>2
      <3> QED BY <3>2, <3>3 DEF Inert, IsBlockTag
    <2>3. ASSUME NEW n \in 1..Len(op) PROVE Inert(op[n])
      <3> DEFINE t == op[n]
      <3>1. t \in Token /\ t[1] = "open" /\ HowMany(op, t) # 0
        BY <1>4, HowManyZero DEF OfSort, Texts
      <3>2. t = Open(t[2]) /\ IsTag(t)
        BY <3>1, TokenIs DEF Open, IsTag, IsChar
      <3>3. t[2] \notin Blocks
        BY <1>7, <2>1, <3>1, <3>2
      <3> QED BY <3>2, <3>3 DEF Inert, IsBlockTag
    <2> QED BY <2>2, <2>3
  <1> QED BY <1>2, <1>3, <1>4, <1>7, <1>8 DEF cl, op, c, u

\* Replacing what is between two places outside of blocks, with text that has
\* none: the tags stay balanced, and the blocks that are left stay as they are.
LEMMA Replaced ==
  ASSUME NEW s \in Texts, Balanced(s), Whole(s), NEW a \in 0..Len(s), NEW b \in 0..Len(s), a <= b,
         ScanAt(s, a).at = "outside", ScanAt(s, b).at = "outside",
         NEW rep \in Texts, Balanced(rep), \A n \in 1..Len(rep) : ~IsBlockTag(rep[n])
  PROVE  LET r == tagged_substr_replace(s, a, b, rep)
         IN  /\ r \in Texts /\ Balanced(r) /\ Whole(r)
             /\ \E k \in Nat : /\ Scan(s).width = ScanAt(s, b).width + k
                               /\ Scan(r).width = (ScanAt(s, a).width + Len(OfKind(rep, {"char"}))) + k
             /\ Len(OfKind(rep, {"char"})) \in Nat
  <1> DEFINE p == Sub(s, 0, a)
             m == Sub(s, a, b)
             q == Sub(s, b, Len(s))
             v == ScanAt(s, a).width
             w == ScanAt(s, b).width
             c == simplify_tagged_merge(get_tags(m, {"open", "close"}), TRUE)
             cl == get_tags(c, {"close"})
             op == get_tags(c, {"open"})
             r == Around(p, cl, rep, op, q)
  <1>1. Len(s) \in Nat /\ 0 \in 0..Len(s) /\ Len(s) \in 0..Len(s) /\ 0 <= a /\ b <= Len(s)
    BY CutAll
  <1>2. p \in Texts /\ m \in Texts /\ q \in Texts
    BY <1>1, SubIs
  <1>3. p \o m = Sub(s, 0, b) /\ (p \o m) \o q = s
    <2>1. Sub(s, 0, b) = p \o m
      BY Cut
    <2>2. Sub(s, 0, Len(s)) = Sub(s, 0, b) \o q
      BY <1>1, Cut
    <2>3. Sub(s, 0, Len(s)) = s
      BY CutAll
    <2> HIDE DEF p, m, q
    <2> QED BY <2>1, <2>2, <2>3
  <1>4. /\ c \in Texts /\ cl \in Texts /\ op \in Texts
        /\ \A x : /\ HowMany(c, Open(x)) \in Nat /\ HowMany(c, Close(x)) \in Nat
                  /\ HowMany(c, Open(x)) = 0 \/ HowMany(c, Close(x)) = 0
                  /\ Net(m, x) = HowMany(c, Open(x)) - HowMany(c, Close(x))
                  /\ HowMany(cl, Close(x)) = HowMany(c, Close(x)) /\ HowMany(cl, Open(x)) = 0
                  /\ HowMany(op, Open(x)) = HowMany(c, Open(x)) /\ HowMany(op, Close(x)) = 0
        /\ (\A x \in Blocks : Net(m, x) = 0) =>
              /\ \A n \in 1..Len(cl) : Inert(cl[n])
              /\ \A n \in 1..Len(op) : Inert(op[n])
    BY <1>2, Gathered
  <1>5. tagged_substr_replace(s, a, b, rep) = simplify_tagged((p \o ((cl \o rep) \o op)) \o q)
    BY DEF tagged_substr_replace
  <1> HIDE DEF c, cl, op
  <1>6. Scan(p) = Outside(v) /\ v \in Nat /\ Scan(p \o m) = Outside(w) /\ w \in Nat
    <2>1. Sub(s, 0, b) \in Texts
      BY <1>1, CutAll
    <2> QED BY <1>2, <1>3, <2>1, OutsideTidy DEF Tidy, ScanAt
  <1>7. ScanFrom(Outside(w), q) = Scan(s)
    <2>1. p \o m \in Texts
      BY <1>2, Joined
    <2> QED BY <1>2, <1>3, <1>6, <2>1, ScanBegins
  <1> HIDE DEF p, m, q, v, w
  <1>8. (p \o ((cl \o rep) \o op)) \o q = r
    <2>0. p \in Texts /\ cl \in Texts /\ op \in Texts
      BY <1>2, <1>4
    <2>1. cl \o rep \in Texts /\ p \o cl \in Texts
      BY <2>0, Joined
    <2>2. p \o ((cl \o rep) \o op) = (p \o (cl \o rep)) \o op
      BY <2>0, <2>1, JoinThree
    <2>3. p \o (cl \o rep) = (p \o cl) \o rep
      BY <2>0, JoinThree
    <2> QED BY <2>2, <2>3 DEF Around
  <1>9. \A x \in Blocks : Net(m, x) = 0
    <2> SUFFICES ASSUME NEW x \in Blocks PROVE Net(m, x) = 0
      OBVIOUS
    <2>1. Scan(p \o m) = ScanFrom(Outside(v), m)
      BY <1>2, <1>6, ScanBegins
    <2>2. ScanFrom(Outside(v), m).at = "outside" /\ Tidy(Outside(v)) /\ Outside(v).at = "outside"
      BY <1>6, <2>1, OutsideTidy
    <2>3. InBlock(ScanFrom(Outside(v), m), x) = 0
      BY <2>2 DEF InBlock
    <2> QED BY <1>2, <2>2, <2>3, BlockOpen
  <1>10. r \in Texts
    <2>1. p \o cl \in Texts
      BY <1>2, <1>4, Joined
    <2>2. (p \o cl) \o rep \in Texts
      BY <2>1, Joined
    <2>3. ((p \o cl) \o rep) \o op \in Texts
      BY <1>4, <2>2, Joined
    <2> QED BY <1>2, <2>3, Joined DEF Around
  <1>11. Balanced(r)
    <2>1. ASSUME NEW x PROVE NonNeg(r, x) /\ Net(r, x) = 0
      <3>1. NonNeg(s, x) /\ Net(s, x) = 0 /\ NonNeg(rep, x) /\ Net(rep, x) = 0
        BY BalancedIs
      <3>2. NonNeg((p \o m) \o q, x) /\ Net((p \o m) \o q, x) = 0
        BY <1>3, <3>1
      <3> HIDE DEF r
      <3>3. /\ HowMany(c, Open(x)) \in Nat /\ HowMany(c, Close(x)) \in Nat
            /\ HowMany(c, Close(x)) = 0 \/ HowMany(c, Open(x)) = 0
            /\ Net(m, x) = HowMany(c, Open(x)) - HowMany(c, Close(x))
            /\ HowMany(cl, Close(x)) = HowMany(c, Close(x)) /\ HowMany(cl, Open(x)) = 0
            /\ HowMany(op, Open(x)) = HowMany(c, Open(x)) /\ HowMany(op, Close(x)) = 0
        BY <1>4
      <3>4. cl \in Texts /\ op \in Texts
        BY <1>4
      <3>5. Fits(p, m, q, cl, rep, op, x)
        BY <1>2, <3>1, <3>2, <3>3, <3>4 DEF Fits
      <3> QED BY <3>5, ReplacedLevels DEF r
    <2> HIDE DEF r
    <2> QED BY <1>10, <2>1, BalancedIs
  <1>12. \E k \in Nat : /\ ScanFrom(Outside(w), q) = Outside(w + k)
                        /\ Scan(r) = Outside((v + Len(OfKind(rep, {"char"}))) + k)
                        /\ Len(OfKind(rep, {"char"})) \in Nat
    <2>1. ScanFrom(Outside(w), q).at = "outside"
      BY <1>7 DEF Whole
    <2>2. /\ cl \in Texts /\ op \in Texts
          /\ \A n \in 1..Len(cl) : Inert(cl[n])
          /\ \A n \in 1..Len(op) : Inert(op[n])
      BY <1>4, <1>9
    <2>3. FitsBlocks(p, q, cl, rep, op, v, w)
      BY <1>2, <1>6, <2>1, <2>2 DEF FitsBlocks
    <2> QED BY <2>3, ReplacedScan
  <1> HIDE DEF r
  <1>13. Scan(r).at # "broken"
    BY <1>12 DEF Outside
  <1>14. simplify_tagged(r) \in Texts /\ Balanced(simplify_tagged(r)) /\ Scan(simplify_tagged(r)) = Scan(r)
    BY <1>10, <1>11, <1>13, SimplifiedBalanced, SimplifiedScan
  <1>15. tagged_substr_replace(s, a, b, rep) = simplify_tagged(r)
    BY <1>5, <1>8
  <1> QED BY <1>7, <1>12, <1>14, <1>15 DEF Whole, Outside, v, w

LEMMA LevelIn ==
  ASSUME NEW a \in Texts, NEW b \in Texts, NEW x, NEW n
  PROVE  /\ n \in 0..Len(a) => Level(a \o b, x, n) = Level(a, x, n)
         /\ n \in 0..Len(b) => Level(a \o b, x, Len(a) + n) = Net(a, x) + Level(b, x, n)
  <1>1. a \in Seq(Token) /\ b \in Seq(Token)
    BY DEF Texts
  <1>2. \A k \in 0..Len(a) : Level(a \o b, x, k) = Level(a, x, k)
    BY <1>1, LevelConcat
  <1>3. \A k \in 0..Len(b) : Level(a \o b, x, Len(a) + k) = Net(a, x) + Level(b, x, k)
    BY <1>1, LevelConcat
  <1> QED BY <1>2, <1>3

\* A format around a part of a text, or taken away from a part that has it.
Formatted(p, m, q, u) == Append(Append(p, u) \o m, anti_tag(u)) \o q

LEMMA FormattedLevels ==
  ASSUME NEW p \in Texts, NEW m \in Texts, NEW q \in Texts, NEW u \in Token, IsTag(u), NEW x,
         NonNeg((p \o m) \o q, x), Net((p \o m) \o q, x) = 0,
         u = Close(x) => \A n \in 0..Len(m) : Net(p, x) + Level(m, x, n) > 0
  PROVE  NonNeg(Formatted(p, m, q, u), x) /\ Net(Formatted(p, m, q, u), x) = 0
  <1> DEFINE d == Delta(u, x)
             pm == p \o m
             a == Append(p, u)
             b == a \o m
             c == Append(b, anti_tag(u))
  <1>1. anti_tag(u) \in Token /\ pm \in Texts /\ a \in Texts
    BY TokenIs, Joined, Joining
  <1>2. b \in Texts /\ c \in Texts
    BY <1>1, Joined, Joining
  <1>3. d \in Int /\ Delta(anti_tag(u), x) = -d /\ (u # Close(x) => d >= 0) /\ d >= -1
    <2>1. u = Open(u[2]) \/ u = Close(u[2])
      BY TokenIs
    <2> QED BY <2>1, TagsDiffer DEF Delta, One
  <1>4. /\ NonNeg(pm, x) /\ \A n \in 0..Len(q) : Net(pm, x) + Level(q, x, n) >= 0
        /\ Net(pm, x) + Net(q, x) = 0 /\ Net(pm, x) \in Int /\ Net(q, x) \in Int
    <2> HIDE DEF pm
    <2>1. NonNeg(pm \o q, x) /\ Net(pm \o q, x) = 0
      BY DEF pm
    <2> QED BY <1>1, <2>1, LevelConcat DEF Texts
  <1>5. /\ NonNeg(p, x) /\ \A n \in 0..Len(m) : Net(p, x) + Level(m, x, n) >= 0
        /\ Net(pm, x) = Net(p, x) + Net(m, x) /\ Net(p, x) \in Int /\ Net(m, x) \in Int
    BY <1>4, LevelConcat DEF Texts
  <1>6. \A n \in 0..Len(m) : Level(m, x, n) \in Int /\ Level(m, x, 0) = 0
    BY LevelSteps DEF Texts
  <1> HIDE DEF d, pm
  <1>7. \A n \in 0..Len(m) : (Net(p, x) + d) + Level(m, x, n) >= 0
    BY <1>3, <1>5, <1>6
  <1>8. Net(a, x) = Net(p, x) + d /\ NonNeg(a, x)
    <2>1. 0 \in 0..Len(m)
      BY DEF Texts
    <2>2. Net(p, x) + d >= 0
      BY <1>3, <1>5, <1>6, <1>7, <2>1
    <2> QED BY <1>5, <2>2, NetAppend DEF Texts, d
  <1> HIDE DEF a
  <1>9. NonNeg(b, x) /\ Net(b, x) = (Net(p, x) + d) + Net(m, x)
    BY <1>1, <1>7, <1>8, LevelConcat DEF Texts
  <1> HIDE DEF b
  <1>10. Net(pm, x) >= 0
    <2>1. Len(pm) \in 0..Len(pm)
      BY <1>1 DEF Texts
    <2> QED BY <1>4, <2>1 DEF NonNeg, Net
  <1>11. Net(c, x) = Net(pm, x) /\ NonNeg(c, x)
    <2>1. /\ Net(c, x) = Net(b, x) + Delta(anti_tag(u), x)
          /\ NonNeg(c, x) <=> NonNeg(b, x) /\ Net(b, x) + Delta(anti_tag(u), x) >= 0
      BY <1>1, <1>2, NetAppend DEF Texts
    <2>2. Net(b, x) + Delta(anti_tag(u), x) = Net(pm, x)
      BY <1>3, <1>5, <1>9
    <2> QED BY <1>9, <1>10, <2>1, <2>2
  <1> HIDE DEF c
  <1>12. NonNeg(c \o q, x) /\ Net(c \o q, x) = 0
    BY <1>2, <1>4, <1>11, LevelConcat DEF Texts
  <1> QED BY <1>12 DEF Formatted, c, b, a

LEMMA FormattedScan ==
  ASSUME NEW p \in Texts, NEW m \in Texts, NEW q \in Texts, NEW u \in Token, Inert(u)
  PROVE  /\ Formatted(p, m, q, u) \in Texts
         /\ Scan(Formatted(p, m, q, u)) = Scan((p \o m) \o q)
  <1> DEFINE a == Append(p, u)
             b == a \o m
  <1>1. anti_tag(u) \in Token /\ Inert(anti_tag(u)) /\ a \in Texts /\ m \o q \in Texts
    BY InertIs, Joined, Joining
  <1>2. b \in Texts
    BY <1>1, Joined
  <1> HIDE DEF b
  <1>3. Append(b, anti_tag(u)) \in Texts
    BY <1>1, <1>2, Joining
  <1>4. Scan(Append(b, anti_tag(u)) \o q) = Scan(b \o q)
    BY <1>1, <1>2, ScanInert
  <1> HIDE DEF a
  <1>5. b \o q = a \o (m \o q)
    BY <1>1, JoinThree DEF b
  <1>6. Scan(a \o (m \o q)) = Scan(p \o (m \o q))
    BY <1>1, ScanInert DEF a
  <1>7. p \o (m \o q) = (p \o m) \o q
    BY JoinThree
  <1>8. Append(b, anti_tag(u)) \o q \in Texts
    BY <1>3, Joined
  <1> QED BY <1>4, <1>5, <1>6, <1>7, <1>8 DEF Formatted, a, b

LEMMA FormatAround ==
  ASSUME NEW s \in Texts, Balanced(s), Whole(s), NEW a \in 0..Len(s), NEW b \in 0..Len(s), a <= b,
         NEW u \in Token, IsFormat(u),
         u = Close(u[2]) => \A pos \in a..b : Level(s, u[2], pos) > 0
  PROVE  LET r == Sub(s, 0, a) \o <<u>> \o Sub(s, a, b) \o <<anti_tag(u)>> \o Sub(s, b, Len(s))
         IN  r \in Texts /\ Balanced(r) /\ Scan(r) = Scan(s)
  <1> DEFINE p == Sub(s, 0, a)
             m == Sub(s, a, b)
             q == Sub(s, b, Len(s))
             r == Formatted(p, m, q, u)
  <1>1. Len(s) \in Nat /\ 0 \in 0..Len(s) /\ Len(s) \in 0..Len(s) /\ 0 <= a /\ b <= Len(s)
    BY CutAll
  <1>2. p \in Texts /\ m \in Texts /\ q \in Texts /\ Len(p) = a /\ Len(m) = b - a
    BY <1>1, SubIs
  <1>3. (p \o m) \o q = s
    <2>1. Sub(s, 0, b) = p \o m
      BY Cut
    <2>2. Sub(s, 0, Len(s)) = Sub(s, 0, b) \o q
      BY <1>1, Cut
    <2>3. Sub(s, 0, Len(s)) = s
      BY CutAll
    <2> HIDE DEF p, m, q
    <2> QED BY <2>1, <2>2, <2>3
  <1>4. Inert(u) /\ IsTag(u) /\ anti_tag(u) \in Token
    BY InertIs DEF Inert
  <1> HIDE DEF p, m, q
  <1>5. p \o <<u>> \o m \o <<anti_tag(u)>> \o q = r
    <2>1. Append(p, u) = p \o <<u>>
      BY <1>2, Joining
    <2>2. Append(p, u) \o m \in Texts
      BY <1>2, Joined, Joining
    <2>3. Append(Append(p, u) \o m, anti_tag(u)) = (Append(p, u) \o m) \o <<anti_tag(u)>>
      BY <1>4, <2>2, Joining
    <2> QED BY <2>1, <2>3 DEF Formatted
  <1>6. r \in Texts /\ Scan(r) = Scan(s)
    <2>1. r \in Texts /\ Scan(r) = Scan((p \o m) \o q)
      BY <1>2, <1>4, FormattedScan
    <2> QED BY <1>3, <2>1
  <1>7. ASSUME NEW x PROVE NonNeg(r, x) /\ Net(r, x) = 0
    <2>1. NonNeg((p \o m) \o q, x) /\ Net((p \o m) \o q, x) = 0
      BY <1>3, BalancedIs
    <2>2. ASSUME u = Close(x), NEW n \in 0..Len(m) PROVE Net(p, x) + Level(m, x, n) > 0
      <3>1. u[2] = x /\ a + n \in a..b
        BY <1>1, <1>2, <2>2, TagsDiffer
      <3>2. Level(s, x, a + n) > 0
        BY <2>2, <3>1
      <3>3. p \o m \in Texts /\ Len(p \o m) = a + (b - a) /\ a + n \in 0..Len(p \o m)
        BY <1>1, <1>2, Joined
      <3>4. Level((p \o m) \o q, x, a + n) = Level(p \o m, x, a + n)
        <4> DEFINE pm == p \o m
        <4>1. pm \in Texts /\ a + n \in 0..Len(pm)
          BY <3>3
        <4> HIDE DEF pm
        <4>2. Level(pm \o q, x, a + n) = Level(pm, x, a + n)
          BY <1>2, <4>1, LevelIn
        <4> QED BY <4>2 DEF pm
      <3>5. Level(p \o m, x, a + n) = Net(p, x) + Level(m, x, n)
        <4>1. Level(p \o m, x, Len(p) + n) = Net(p, x) + Level(m, x, n)
          BY <1>2, <2>2, LevelIn
        <4> QED BY <1>2, <4>1
      <3> QED BY <1>3, <3>2, <3>4, <3>5
    <2> QED BY <1>2, <1>4, <2>1, <2>2, FormattedLevels
  <1> HIDE DEF r
  <1>8. Balanced(r)
    BY <1>6, <1>7, BalancedIs
  <1> QED BY <1>5, <1>6, <1>8 DEF p, m, q

-----------------------------------------------------------------------------
(* Where the blocks of a text begin and end.                                 *)

Out(s, n) == ScanAt(s, n).at = "outside"
Width(s, n) == ScanAt(s, n).width

LEMMA OutsideStep ==
  ASSUME NEW st, Tidy(st), st.at = "outside", NEW t \in Token, ScanTo(st, t).at # "broken"
  PROVE  \/ /\ OpensBlock(t) /\ ScanTo(st, t).at = "empty" /\ ScanTo(st, t).of = t[2]
            /\ ScanTo(st, t).width = st.width + 1
         \/ IsChar(t) /\ ScanTo(st, t).at = "outside" /\ ScanTo(st, t).width = st.width + 1
         \/ ~IsChar(t) /\ ~OpensBlock(t) /\ ScanTo(st, t) = st
  <1>1. CASE OpensBlock(t)
    <2> DEFINE y == [at |-> "empty", of |-> t[2], width |-> st.width + 1]
    <2>1. ScanTo(st, t) = y
      BY <1>1 DEF ScanTo
    <2>2. y.at = "empty" /\ y.of = t[2] /\ y.width = st.width + 1
      OBVIOUS
    <2> QED BY <1>1, <2>1, <2>2
  <1>2. CASE ~OpensBlock(t) /\ IsBlockTag(t)
    BY <1>2 DEF ScanTo, Broken
  <1>3. CASE ~OpensBlock(t) /\ ~IsBlockTag(t) /\ IsTag(t)
    BY <1>3 DEF ScanTo, IsTag
  <1>4. CASE ~IsTag(t)
    <2>1. ~OpensBlock(t) /\ ~IsBlockTag(t) /\ IsChar(t)
      BY <1>4 DEF OpensBlock, IsBlockTag, IsTag, IsChar
    <2>2. ScanTo(st, t) = Outside(st.width + 1)
      BY <1>4, <2>1 DEF ScanTo
    <2> QED BY <2>1, <2>2 DEF Outside
  <1> QED BY <1>1, <1>2, <1>3, <1>4

LEMMA InsideStep ==
  ASSUME NEW st, Tidy(st), st.at \in {"empty", "filled"}, NEW t \in Token, ScanTo(st, t).at # "broken"
  PROVE  /\ ScanTo(st, t).width = st.width /\ ~OpensBlock(t)
         /\ \/ ScanTo(st, t).at = "outside" /\ t = Close(st.of) /\ IsBlockTag(t)
            \/ ScanTo(st, t).at \in {"empty", "filled"} /\ ScanTo(st, t).of = st.of /\ ~IsBlockTag(t)
  <1>0. st \in Scanning
    BY DEF Tidy
  <1>1. CASE OpensBlock(t)
    BY <1>1 DEF ScanTo, Broken
  <1>2. CASE ~OpensBlock(t) /\ IsBlockTag(t)
    <2>1. ScanTo(st, t) = Outside(st.width) /\ st.of = t[2]
      BY <1>2 DEF ScanTo, Broken
    <2>2. t = Close(t[2])
      <3>1. t = Open(t[2]) \/ t = Close(t[2])
        BY <1>2, TokenIs DEF IsBlockTag
      <3>2. t # Open(t[2])
        BY <1>2, TagsDiffer DEF OpensBlock, IsBlockTag
      <3> QED BY <3>1, <3>2
    <2> QED BY <1>2, <2>1, <2>2 DEF Outside
  <1>3. CASE ~OpensBlock(t) /\ ~IsBlockTag(t) /\ IsTag(t)
    BY <1>3 DEF ScanTo
  <1>4. CASE ~IsTag(t)
    <2>1. ~OpensBlock(t) /\ ~IsBlockTag(t)
      BY <1>4 DEF OpensBlock, IsBlockTag, IsTag, IsChar
    <2> DEFINE y == [st EXCEPT !.at = "filled"]
    <2>2. ScanTo(st, t) = y
      BY <1>4, <2>1 DEF ScanTo
    <2>3. y.at = "filled" /\ y.of = st.of /\ y.width = st.width
      BY <1>0 DEF Scanning
    <2> HIDE DEF y
    <2> QED BY <2>1, <2>2, <2>3
  <1> QED BY <1>1, <1>2, <1>3, <1>4

LEMMA PlaceSteps ==
  ASSUME NEW s \in Texts
  PROVE  /\ ScanAt(s, 0) = Outside(0) /\ Out(s, 0) /\ Width(s, 0) = 0
         /\ ScanAt(s, Len(s)) = Scan(s)
         /\ \A n \in 0..Len(s) : Tidy(ScanAt(s, n)) /\ Width(s, n) \in Nat
         /\ \A n \in 0..Len(s) - 1 : ScanAt(s, n + 1) = ScanTo(ScanAt(s, n), s[n + 1])
  <1>1. ScanAt(s, 0) = Outside(0) /\ Out(s, 0) /\ Width(s, 0) = 0
    BY CutAll, ScanBegins DEF ScanAt, Out, Width, Outside
  <1>2. ScanAt(s, Len(s)) = Scan(s)
    BY CutAll DEF ScanAt
  <1>3. ASSUME NEW n \in 0..Len(s) PROVE Tidy(ScanAt(s, n)) /\ Width(s, n) \in Nat
    BY CutAll, OutsideTidy DEF ScanAt, Width
  <1>4. ASSUME NEW n \in 0..Len(s) - 1 PROVE ScanAt(s, n + 1) = ScanTo(ScanAt(s, n), s[n + 1])
    <2>1. n \in 0..Len(s) /\ n + 1 \in 1..Len(s)
      BY CutAll
    <2>2. Sub(s, 0, n) \in Texts /\ s[n + 1] \in Token /\ Sub(s, 0, n + 1) = Append(Sub(s, 0, n), s[n + 1])
      BY <2>1, CutAll
    <2> QED BY <2>2, ScanBegins DEF ScanAt
  <1> QED BY <1>1, <1>2, <1>3, <1>4

LEMMA NotBroken ==
  ASSUME NEW s, Whole(s)
  PROVE  /\ s \in Texts
         /\ \A n \in 0..Len(s) : ScanAt(s, n).at \in {"outside", "empty", "filled"}
         /\ Out(s, Len(s))
  <1>1. s \in Texts /\ Scan(s).at = "outside"
    BY DEF Whole
  <1>2. ASSUME NEW n \in 0..Len(s) PROVE ScanAt(s, n).at \in {"outside", "empty", "filled"}
    <2>1. Len(s) \in Nat /\ Len(s) \in 0..Len(s) /\ n <= Len(s)
      BY <1>1, CutAll
    <2>2. Sub(s, 0, Len(s)) = Sub(s, 0, n) \o Sub(s, n, Len(s)) /\ Sub(s, 0, Len(s)) = s
      BY <1>1, <2>1, Cut, CutAll
    <2>3. Sub(s, 0, n) \in Texts /\ Sub(s, n, Len(s)) \in Texts
      BY <1>1, <2>1, CutAll, SubIs
    <2>4. Scan(s) = ScanFrom(ScanAt(s, n), Sub(s, n, Len(s))) /\ ScanAt(s, n) \in Scanning
      BY <2>2, <2>3, ScanBegins DEF ScanAt
    <2>5. ScanAt(s, n).at # "broken"
      BY <1>1, <2>3, <2>4, ScanBroken
    <2> QED BY <2>4, <2>5 DEF Scanning
  <1>3. Out(s, Len(s))
    BY <1>1, PlaceSteps DEF Out
  <1> QED BY <1>1, <1>2, <1>3

\* From a block to its end is not outside.
LEMMA BlockEnds ==
  ASSUME NEW s, Whole(s), NEW p \in 0..Len(s) - 1, OpensBlock(s[p + 1])
  PROVE  LET e == match_close_tag_end(s, p)
         IN  /\ e \in p + 2..Len(s) /\ Out(s, p) /\ Out(s, e)
             /\ \A k \in p + 1..e - 1 : ~Out(s, k)
             /\ Width(s, e) = Width(s, p) + 1
  <1> DEFINE x == s[p + 1][2]
             Ends == {k \in p + 1..Len(s) : Out(s, k)}
             end == Min(Ends)
             closed == {k \in p + 2..Len(s) : /\ At(s, k - 1) = Close(x)
                                              /\ Level(Sub(s, p, k), x, k - p) = 0}
             S == closed \cup {Len(s)}
             Good(k) == /\ ScanAt(s, k).at \in {"empty", "filled"} /\ ScanAt(s, k).of = x
                        /\ Width(s, k) = Width(s, p) + 1
  <1>1. s \in Texts /\ Len(s) \in Nat /\ Len(s) \in 0..Len(s) /\ Out(s, Len(s))
    BY NotBroken, CutAll
  <1>2. p \in Nat /\ p <= Len(s) - 1 /\ p \in 0..Len(s) /\ p + 1 \in 1..Len(s) /\ s[p + 1] \in Token
    BY <1>1, CutAll
  <1>3. /\ \A n \in 0..Len(s) : Tidy(ScanAt(s, n)) /\ ScanAt(s, n).at \in {"outside", "empty", "filled"}
        /\ \A n \in 0..Len(s) - 1 : ScanAt(s, n + 1) = ScanTo(ScanAt(s, n), s[n + 1]) /\ s[n + 1] \in Token
    <2>1. \A n \in 0..Len(s) - 1 : s[n + 1] \in Token
      BY <1>1 DEF Texts
    <2> QED BY <1>1, <2>1, NotBroken, PlaceSteps
  <1>4. Out(s, p) /\ Good(p + 1) /\ x \in Blocks
    <2>1. ScanAt(s, p + 1) = ScanTo(ScanAt(s, p), s[p + 1]) /\ p + 1 \in 0..Len(s)
      BY <1>2, <1>3
    <2>2. ScanAt(s, p).at = "outside"
      BY <1>2, <1>3, <2>1 DEF ScanTo, Broken
    <2>3. /\ ScanAt(s, p + 1).at = "empty" /\ ScanAt(s, p + 1).of = x
          /\ ScanAt(s, p + 1).width = ScanAt(s, p).width + 1
      <3>1. Tidy(ScanAt(s, p)) /\ ScanTo(ScanAt(s, p), s[p + 1]).at # "broken"
        BY <1>2, <1>3, <2>1
      <3> QED BY <1>2, <2>1, <2>2, <3>1, OutsideStep DEF OpensBlock, IsChar
    <2> QED BY <2>2, <2>3 DEF Out, Width, OpensBlock
  <1>5. end \in Ends /\ \A k \in Ends : end <= k
    <2>1. Ends \in SUBSET Nat /\ Len(s) \in Ends
      BY <1>1, <1>2
    <2> HIDE DEF Ends
    <2> QED BY <2>1, LeastIs
  <1>6. end \in p + 1..Len(s) /\ Out(s, end) /\ end # p + 1
    BY <1>4, <1>5 DEF Out
  <1> HIDE DEF end, x
  <1>7. end \in p + 2..Len(s) /\ end - 1 \in p + 1..Len(s) - 1 /\ end - p - 2 \in Nat
    BY <1>1, <1>2, <1>6
  <1>8. ASSUME NEW k \in p + 1..Len(s) - 1, Good(k)
        PROVE  \/ /\ Out(s, k + 1) /\ s[k + 1] = Close(x) /\ Width(s, k + 1) = Width(s, p) + 1
               \/ Good(k + 1) /\ ~IsBlockTag(s[k + 1])
    <2>1. k \in 0..Len(s) - 1 /\ k \in 0..Len(s) /\ k + 1 \in 0..Len(s)
      BY <1>1, <1>2
    <2>2. Tidy(ScanAt(s, k)) /\ ScanAt(s, k + 1) = ScanTo(ScanAt(s, k), s[k + 1]) /\ s[k + 1] \in Token
            /\ ScanAt(s, k + 1).at # "broken"
      BY <1>3, <2>1
    <2>3. /\ ScanAt(s, k + 1).width = ScanAt(s, k).width
          /\ \/ ScanAt(s, k + 1).at = "outside" /\ s[k + 1] = Close(x)
             \/ /\ ScanAt(s, k + 1).at \in {"empty", "filled"} /\ ScanAt(s, k + 1).of = x
                /\ ~IsBlockTag(s[k + 1])
      BY <1>8, <2>2, InsideStep
    <2> QED BY <1>8, <2>3 DEF Out, Width
  <1>9. \A k \in p + 1..end - 1 : Good(k)
    <2> DEFINE E == {i \in Nat : i <= end - p - 2 => Good(p + 1 + i)}
    <2>1. 0 \in E
      BY <1>2, <1>4
    <2>2. ASSUME NEW i \in 0..(end - p - 2) - 1, i \in E PROVE i + 1 \in E
      <3>1. p + 1 + i \in p + 1..Len(s) - 1 /\ (p + 1 + i) + 1 = p + 1 + (i + 1) /\ i <= end - p - 2
              /\ (p + 1 + i) + 1 \in p + 1..Len(s) /\ (p + 1 + i) + 1 < end /\ i + 1 \in Nat
        BY <1>1, <1>2, <1>7
      <3>2. Good(p + 1 + i)
        BY <2>2, <3>1
      <3>3. ~Out(s, (p + 1 + i) + 1)
        <4>1. (p + 1 + i) + 1 \notin Ends
          <5> HIDE DEF Ends
          <5>1. end \in Int
            BY <1>7, <1>2, <1>1
          <5> QED BY <1>5, <3>1, <5>1
        <4> QED BY <3>1, <4>1
      <3>4. Good((p + 1 + i) + 1)
        <4> HIDE DEF Good
        <4> QED BY <1>8, <3>1, <3>2, <3>3
      <3> HIDE DEF Good
      <3> QED BY <3>1, <3>4
    <2>3. 0..end - p - 2 \subseteq E
      <3> HIDE DEF E
      <3> QED BY <1>7, <2>1, <2>2, UpTo
    <2> SUFFICES ASSUME NEW k \in p + 1..end - 1 PROVE Good(k)
      OBVIOUS
    <2>4. k - p - 1 \in 0..end - p - 2 /\ k = p + 1 + (k - p - 1) /\ k - p - 1 <= end - p - 2
      BY <1>2, <1>7
    <2> HIDE DEF Good
    <2> QED BY <2>3, <2>4
  <1>10. s[end] = Close(x) /\ Width(s, end) = Width(s, p) + 1
    <2>1. end - 1 \in p + 1..Len(s) - 1 /\ (end - 1) + 1 = end /\ Good(end - 1)
      <3> HIDE DEF Good
      <3> QED BY <1>1, <1>2, <1>7, <1>9
    <2>2. ~Good(end)
      BY <1>6 DEF Out
    <2> HIDE DEF Good
    <2> QED BY <1>8, <2>1, <2>2
  <1>11. end \in S
    <2>1. At(s, end - 1) = Close(x)
      BY <1>1, <1>2, <1>7, <1>10 DEF At
    <2>2. end \in 0..Len(s) /\ p <= end /\ end - p \in Nat
      BY <1>1, <1>2, <1>7
    <2>3. Sub(s, 0, end) = Sub(s, 0, p) \o Sub(s, p, end) /\ Sub(s, p, end) \in Texts /\ Len(Sub(s, p, end)) = end - p
            /\ Sub(s, 0, p) \in Texts
      BY <1>1, <1>2, <2>2, Cut, SubIs, CutAll
    <2>4. ScanAt(s, end) = ScanFrom(ScanAt(s, p), Sub(s, p, end))
      BY <2>3, ScanBegins DEF ScanAt
    <2>5. ScanAt(s, end).at = "outside" /\ ScanAt(s, p).at = "outside" /\ Tidy(ScanAt(s, p))
      BY <1>2, <1>3, <1>4, <1>6 DEF Out
    <2>6. Net(Sub(s, p, end), x) = InBlock(ScanAt(s, end), x)
      BY <1>4, <2>3, <2>4, <2>5, BlockOpen
    <2>7. InBlock(ScanAt(s, end), x) = 0
      BY <2>5 DEF InBlock
    <2>8. Level(Sub(s, p, end), x, end - p) = 0
      BY <2>3, <2>6, <2>7 DEF Net
    <2> QED BY <1>7, <2>1, <2>8
  <1>12. ASSUME NEW k \in S PROVE end <= k
    <2>1. CASE k = Len(s)
      BY <1>7, <2>1
    <2>2. CASE k \in closed /\ k < end
      <3>1. k \in p + 2..Len(s) /\ s[k] = Close(x)
        BY <1>1, <1>2, <2>2 DEF At
      <3>2. k - 1 \in p + 1..Len(s) - 1 /\ k - 1 \in p + 1..end - 1 /\ k \in p + 1..end - 1 /\ (k - 1) + 1 = k
        BY <1>1, <1>2, <1>7, <2>2, <3>1
      <3>3. Good(k - 1) /\ ~Out(s, k)
        BY <1>9, <3>2 DEF Out
      <3>4. ~IsBlockTag(s[k])
        <4> HIDE DEF Good
        <4> QED BY <1>8, <3>2, <3>3
      <3>5. IsBlockTag(s[k])
        BY <1>4, <3>1, TagsDiffer DEF IsBlockTag
      <3> QED BY <3>4, <3>5
    <2>3. k \in Int /\ end \in Int
      BY <1>1, <1>2, <1>7
    <2> QED BY <2>1, <2>2, <2>3
  <1>13. Min(S) = end
    <2>1. S \in SUBSET Nat
      BY <1>1, <1>2
    <2> HIDE DEF S
    <2>2. Min(S) \in S /\ \A k \in S : Min(S) <= k
      BY <1>11, <2>1, LeastIs
    <2>3. Min(S) \in Nat /\ end \in Nat
      BY <1>11, <2>1, <2>2
    <2>4. Min(S) <= end /\ end <= Min(S)
      BY <1>11, <1>12, <2>2
    <2> QED BY <2>3, <2>4
  <1>14. match_close_tag_end(s, p) = Min(S)
    BY DEF match_close_tag_end, At, x
  <1>15. \A k \in p + 1..end - 1 : ~Out(s, k)
    BY <1>9 DEF Out
  <1> QED BY <1>4, <1>6, <1>7, <1>10, <1>13, <1>14, <1>15

-----------------------------------------------------------------------------
(* The items of a text, and the cursor positions between them.               *)

LEMMA BlocksAre ==
  ASSUME NEW s, NEW p
  PROVE  p \in BlocksOf(s) <=> p \in 0..Len(s) - 1 /\ OpensBlock(s[p + 1])
  BY DEF BlocksOf, Positions, At

LEMMA WithinIs ==
  ASSUME NEW s, Whole(s), NEW p \in BlocksOf(s)
  PROVE  LET e == match_close_tag_end(s, p)
         IN  /\ p \in 0..Len(s) - 1 /\ e \in p + 2..Len(s) /\ Out(s, p) /\ Out(s, e)
             /\ \A k \in 0..Len(s) : Within(s, p, k) => ~Out(s, k)
             /\ Width(s, e) = Width(s, p) + 1
             /\ \A k : Within(s, p, k) <=> p < k /\ k < e
  <1> DEFINE e == match_close_tag_end(s, p)
  <1>1. p \in 0..Len(s) - 1 /\ OpensBlock(s[p + 1]) /\ s \in Texts /\ Len(s) \in Nat
    BY BlocksAre, NotBroken, CutAll
  <1>2. /\ e \in p + 2..Len(s) /\ Out(s, p) /\ Out(s, e)
        /\ \A k \in p + 1..e - 1 : ~Out(s, k)
        /\ Width(s, e) = Width(s, p) + 1
    BY <1>1, BlockEnds
  <1>3. \A k : Within(s, p, k) <=> p < k /\ k < e
    BY DEF Within
  <1> HIDE DEF e
  <1>4. ASSUME NEW k \in 0..Len(s), Within(s, p, k) PROVE k \in p + 1..e - 1
    BY <1>1, <1>2, <1>3, <1>4
  <1> QED BY <1>1, <1>2, <1>3, <1>4 DEF e

\* A place that is not outside is in a block.
LEMMA InOneBlock ==
  ASSUME NEW s, Whole(s)
  PROVE  \A n \in 0..Len(s) : ~Out(s, n) => \E p \in BlocksOf(s) : Within(s, p, n)
  <1> DEFINE Fine(n) == Out(s, n) \/ \E p \in BlocksOf(s) : Within(s, p, n)
             E == {n \in Nat : n <= Len(s) => Fine(n)}
  <1>1. s \in Texts /\ Len(s) \in Nat
    BY NotBroken, CutAll
  <1>2. Fine(0)
    BY <1>1, PlaceSteps
  <1>3. ASSUME NEW n \in 0..Len(s) - 1, Fine(n) PROVE Fine(n + 1)
    <2>1. n \in 0..Len(s) /\ n + 1 \in 0..Len(s) /\ n + 1 \in 1..Len(s) /\ s[n + 1] \in Token
      BY <1>1, CutAll
    <2>2. CASE Out(s, n)
      <3>1. Tidy(ScanAt(s, n)) /\ ScanAt(s, n).at = "outside" /\ ScanAt(s, n + 1).at # "broken"
              /\ ScanAt(s, n + 1) = ScanTo(ScanAt(s, n), s[n + 1])
        BY <1>1, <2>1, <2>2, NotBroken, PlaceSteps DEF Out
      <3>2. OpensBlock(s[n + 1]) \/ Out(s, n + 1)
        <4>1. \/ OpensBlock(s[n + 1])
              \/ ScanTo(ScanAt(s, n), s[n + 1]).at = "outside"
              \/ ScanTo(ScanAt(s, n), s[n + 1]) = ScanAt(s, n)
          BY <2>1, <3>1, OutsideStep
        <4> QED BY <3>1, <4>1 DEF Out
      <3>3. ASSUME OpensBlock(s[n + 1]) PROVE Within(s, n, n + 1) /\ n \in BlocksOf(s)
        <4>1. n \in BlocksOf(s)
          BY <3>3, BlocksAre
        <4>2. match_close_tag_end(s, n) \in n + 2..Len(s)
                /\ (Within(s, n, n + 1) <=> n < n + 1 /\ n + 1 < match_close_tag_end(s, n))
          BY <4>1, WithinIs
        <4> QED BY <1>1, <4>1, <4>2
      <3> QED BY <3>2, <3>3
    <2>3. CASE ~Out(s, n)
      <3>1. PICK p \in BlocksOf(s) : Within(s, p, n)
        BY <1>3, <2>3
      <3> DEFINE e == match_close_tag_end(s, p)
      <3>2. p \in 0..Len(s) - 1 /\ e \in p + 2..Len(s) /\ Out(s, e) /\ p < n /\ n < e
              /\ (Within(s, p, n + 1) <=> p < n + 1 /\ n + 1 < e)
        BY <3>1, WithinIs
      <3> HIDE DEF e
      <3>3. n + 1 = e \/ Within(s, p, n + 1)
        BY <1>1, <3>2
      <3> QED BY <3>2, <3>3
    <2> QED BY <2>2, <2>3
  <1> HIDE DEF Fine
  <1>4. 0..Len(s) \subseteq E
    <2>1. 0 \in E
      BY <1>2
    <2>2. ASSUME NEW n \in 0..Len(s) - 1, n \in E PROVE n + 1 \in E
      <3>1. n \in Nat /\ n <= Len(s) /\ n + 1 \in Nat
        BY <1>1
      <3> QED BY <1>3, <2>2, <3>1
    <2> HIDE DEF E
    <2> QED BY <1>1, <2>1, <2>2, UpTo
  <1>5. \A n \in 0..Len(s) : Fine(n)
    BY <1>1, <1>4
  <1> QED BY <1>5 DEF Fine

LEMMA ItemsAre ==
  ASSUME NEW s, Whole(s)
  PROVE  /\ \A p : p \in ItemStarts(s) <=> /\ p \in 0..Len(s) - 1 /\ Out(s, p)
                                           /\ IsChar(s[p + 1]) \/ OpensBlock(s[p + 1])
         /\ BlocksOf(s) \subseteq ItemStarts(s)
         /\ Len(s) \in Nat /\ s \in Texts
  <1>1. s \in Texts /\ Len(s) \in Nat
    BY NotBroken, CutAll
  <1>2. \A p : p \in ItemStarts(s) <=> /\ p \in 0..Len(s) - 1
                                       /\ IsChar(s[p + 1]) \/ OpensBlock(s[p + 1])
                                       /\ ~\E b \in BlocksOf(s) : Within(s, b, p)
    BY DEF ItemStarts, Positions, At
  <1>3. ASSUME NEW p \in 0..Len(s) - 1
        PROVE  Out(s, p) <=> ~\E b \in BlocksOf(s) : Within(s, b, p)
    <2>1. p \in 0..Len(s)
      BY <1>1
    <2> QED BY <2>1, InOneBlock, WithinIs
  <1>4. BlocksOf(s) \subseteq ItemStarts(s)
    <2> SUFFICES ASSUME NEW p \in BlocksOf(s) PROVE p \in ItemStarts(s)
      OBVIOUS
    <2>1. p \in 0..Len(s) - 1 /\ OpensBlock(s[p + 1]) /\ Out(s, p)
      BY BlocksAre, WithinIs
    <2> QED BY <1>2, <1>3, <2>1
  <1> QED BY <1>1, <1>2, <1>3, <1>4

LEMMA WidthStep ==
  ASSUME NEW s, Whole(s), NEW n \in 0..Len(s) - 1
  PROVE  Width(s, n + 1) = IF n \in ItemStarts(s) THEN Width(s, n) + 1 ELSE Width(s, n)
  <1>1. s \in Texts /\ Len(s) \in Nat
    BY NotBroken, CutAll
  <1>2. n \in 0..Len(s) /\ n + 1 \in 0..Len(s) /\ n + 1 \in 1..Len(s) /\ s[n + 1] \in Token
    BY <1>1, CutAll
  <1> DEFINE st == ScanAt(s, n)
             t == s[n + 1]
  <1>3. /\ Tidy(st) /\ st.at \in {"outside", "empty", "filled"} /\ ScanTo(st, t).at # "broken"
        /\ ScanAt(s, n + 1) = ScanTo(st, t)
    BY <1>1, <1>2, NotBroken, PlaceSteps
  <1>4. n \in ItemStarts(s) <=> st.at = "outside" /\ (IsChar(t) \/ OpensBlock(t))
    BY ItemsAre DEF Out
  <1>5. Width(s, n + 1) = ScanTo(st, t).width /\ Width(s, n) = st.width
    BY <1>3 DEF Width
  <1> HIDE DEF st, t
  <1>6. t \in Token
    BY <1>2 DEF t
  <1>7. CASE st.at = "outside"
    BY <1>3, <1>4, <1>5, <1>6, <1>7, OutsideStep
  <1>8. CASE st.at \in {"empty", "filled"}
    BY <1>3, <1>4, <1>5, <1>6, <1>8, InsideStep
  <1> QED BY <1>3, <1>7, <1>8

\* An item ends at the next place outside.
LEMMA ItemEnds ==
  ASSUME NEW s, Whole(s), NEW p \in ItemStarts(s)
  PROVE  LET e == ItemEnd(s, p)
         IN  /\ e \in p + 1..Len(s) /\ Out(s, e) /\ Width(s, e) = Width(s, p) + 1
             /\ \A k \in p + 1..e - 1 : ~Out(s, k)
             /\ p \in 0..Len(s) - 1 /\ Out(s, p) /\ Width(s, p) \in Nat
  <1>1. /\ p \in 0..Len(s) - 1 /\ Out(s, p)
        /\ IsChar(s[p + 1]) \/ OpensBlock(s[p + 1])
        /\ s \in Texts /\ Len(s) \in Nat
    BY ItemsAre
  <1>2. /\ p \in 0..Len(s) /\ p + 1 \in 0..Len(s) /\ p + 1 \in 1..Len(s) /\ s[p + 1] \in Token
    BY <1>1, CutAll
  <1>3. Width(s, p) \in Nat
    BY <1>1, <1>2, PlaceSteps
  <1>4. CASE IsChar(s[p + 1])
    <2>1. ItemEnd(s, p) = p + 1
      BY <1>4 DEF ItemEnd, At
    <2>2. Tidy(ScanAt(s, p)) /\ ScanAt(s, p).at = "outside" /\ ScanAt(s, p + 1).at # "broken"
              /\ ScanAt(s, p + 1) = ScanTo(ScanAt(s, p), s[p + 1])
      BY <1>1, <1>2, NotBroken, PlaceSteps DEF Out
    <2>3. ~OpensBlock(s[p + 1])
      BY <1>4 DEF IsChar, OpensBlock
    <2>4. ScanAt(s, p + 1).at = "outside"
      BY <1>2, <1>4, <2>2, <2>3, OutsideStep
    <2>5. Width(s, p + 1) = Width(s, p) + 1
      BY <1>1, WidthStep
    <2> QED BY <1>1, <1>2, <1>3, <2>1, <2>4, <2>5 DEF Out
  <1>5. CASE ~IsChar(s[p + 1])
    <2>1. ItemEnd(s, p) = match_close_tag_end(s, p) /\ OpensBlock(s[p + 1])
      BY <1>1, <1>5 DEF ItemEnd, At
    <2>2. LET e == match_close_tag_end(s, p)
          IN  /\ e \in p + 2..Len(s) /\ Out(s, e) /\ Width(s, e) = Width(s, p) + 1
              /\ \A k \in p + 1..e - 1 : ~Out(s, k)
      BY <1>1, <2>1, BlockEnds
    <2>3. match_close_tag_end(s, p) \in p + 1..Len(s)
      BY <1>1, <2>2
    <2> QED BY <1>1, <1>3, <2>1, <2>2, <2>3
  <1> QED BY <1>4, <1>5

LEMMA WidthGrows ==
  ASSUME NEW s, Whole(s)
  PROVE  /\ \A m, n \in 0..Len(s) : m <= n => Width(s, m) <= Width(s, n)
         /\ \A n \in 0..Len(s) : Width(s, n) \in Nat
  <1> DEFINE Fine(n) == \A m \in 0..n : Width(s, m) <= Width(s, n)
             E == {n \in Nat : n <= Len(s) => Fine(n)}
  <1>1. s \in Texts /\ Len(s) \in Nat /\ \A n \in 0..Len(s) : Width(s, n) \in Nat
    BY NotBroken, CutAll, PlaceSteps
  <1>2. 0 \in E
    BY <1>1
  <1>3. ASSUME NEW n \in 0..Len(s) - 1, n \in E PROVE n + 1 \in E
    <2>1. n \in Nat /\ n <= Len(s) /\ n + 1 \in Nat /\ n \in 0..Len(s) /\ n + 1 \in 0..Len(s)
      BY <1>1
    <2>2. Fine(n)
      BY <1>3, <2>1
    <2>3. Width(s, n) <= Width(s, n + 1) /\ Width(s, n) \in Nat /\ Width(s, n + 1) \in Nat
      BY <1>1, <2>1, WidthStep
    <2>4. ASSUME NEW m \in 0..n + 1 PROVE Width(s, m) <= Width(s, n + 1)
      <3>1. CASE m = n + 1
        BY <2>3, <3>1
      <3>2. CASE m # n + 1
        <4>1. m \in 0..n /\ m \in 0..Len(s)
          BY <2>1, <3>2
        <4>2. Width(s, m) <= Width(s, n) /\ Width(s, m) \in Nat
          BY <1>1, <2>2, <4>1
        <4> QED BY <2>3, <4>2
      <3> QED BY <3>1, <3>2
    <2> QED BY <2>1, <2>4
  <1>4. 0..Len(s) \subseteq E
    <2> HIDE DEF E
    <2> QED BY <1>1, <1>2, <1>3, UpTo
  <1>5. \A n \in 0..Len(s) : Fine(n)
    BY <1>1, <1>4
  <1> QED BY <1>1, <1>5

ItemPlaces(s) == {pos + 1 : pos \in ItemStarts(s)}
ItemsBefore(s, n) == {p \in ItemStarts(s) : p < n}

\* The width at a place counts the items before it.
LEMMA WidthCounts ==
  ASSUME NEW s, Whole(s), NEW n \in 0..Len(s)
  PROVE  /\ IsFiniteSet(ItemsBefore(s, n)) /\ Cardinality(ItemsBefore(s, n)) = Width(s, n)
         /\ Rank(ItemPlaces(s), n) = Width(s, n)
  <1> DEFINE Before(k) == ItemsBefore(s, k)
             Below(k) == {j \in ItemPlaces(s) : j <= k}
             Fine(k) == /\ IsFiniteSet(Before(k)) /\ Cardinality(Before(k)) = Width(s, k)
                        /\ IsFiniteSet(Below(k)) /\ Cardinality(Below(k)) = Width(s, k)
             E == {k \in Nat : k <= Len(s) => Fine(k)}
  <1>1. /\ s \in Texts /\ Len(s) \in Nat /\ Width(s, 0) = 0 /\ ItemStarts(s) \subseteq 0..Len(s) - 1
        /\ \A k \in 0..Len(s) : Width(s, k) \in Nat
    BY ItemsAre, PlaceSteps
  <1>2. \A j \in Int : j + 1 \in ItemPlaces(s) <=> j \in ItemStarts(s)
    BY <1>1 DEF ItemPlaces
  <1>3. ItemPlaces(s) \subseteq 1..Len(s)
    BY <1>1 DEF ItemPlaces
  <1>4. 0 \in E
    <2>1. Before(0) = {} /\ Below(0) = {}
      BY <1>1, <1>3 DEF ItemsBefore
    <2> HIDE DEF Before, Below
    <2> QED BY <1>1, <2>1, FS_EmptySet
  <1>5. ASSUME NEW k \in 0..Len(s) - 1, k \in E PROVE k + 1 \in E
    <2>1. k \in Nat /\ k <= Len(s) /\ k + 1 \in Nat /\ k \in 0..Len(s) /\ k + 1 \in 0..Len(s)
      BY <1>1
    <2>2. Fine(k)
      BY <1>5, <2>1
    <2>3. Before(k + 1) = IF k \in ItemStarts(s) THEN Before(k) \cup {k} ELSE Before(k)
      BY <1>1, <2>1 DEF ItemsBefore
    <2>4. Below(k + 1) = IF k \in ItemStarts(s) THEN Below(k) \cup {k + 1} ELSE Below(k)
      <3>1. k + 1 \in ItemPlaces(s) <=> k \in ItemStarts(s)
        BY <1>2, <2>1
      <3>2. \A j \in ItemPlaces(s) : j <= k + 1 <=> j <= k \/ j = k + 1
        BY <1>3, <2>1
      <3> QED BY <3>1, <3>2
    <2>5. k \notin Before(k) /\ k + 1 \notin Below(k)
      BY <2>1 DEF ItemsBefore
    <2>6. Width(s, k + 1) = IF k \in ItemStarts(s) THEN Width(s, k) + 1 ELSE Width(s, k)
      BY WidthStep
    <2> HIDE DEF Before, Below
    <2>7. CASE k \in ItemStarts(s)
      BY <2>1, <2>2, <2>3, <2>4, <2>5, <2>6, <2>7, FS_AddElement
    <2>8. CASE k \notin ItemStarts(s)
      BY <2>1, <2>2, <2>3, <2>4, <2>6, <2>8
    <2> QED BY <2>7, <2>8
  <1>6. 0..Len(s) \subseteq E
    <2> HIDE DEF E
    <2> QED BY <1>1, <1>4, <1>5, UpTo
  <1>7. Fine(n)
    <2> HIDE DEF Fine
    <2> QED BY <1>1, <1>6
  <1> QED BY <1>7 DEF Rank

LEMMA CountIs ==
  ASSUME NEW s, Whole(s)
  PROVE  /\ IsFiniteSet(ItemStarts(s)) /\ CursorCount(s) = Width(s, Len(s)) /\ CursorCount(s) \in Nat
         /\ CursorCount(s) = Scan(s).width
         /\ Cardinality(ItemPlaces(s)) = CursorCount(s) /\ ItemPlaces(s) \subseteq 1..Len(s)
         /\ \A n \in 0..Len(s) : Width(s, n) \in 0..CursorCount(s)
  <1>1. s \in Texts /\ Len(s) \in Nat /\ Len(s) \in 0..Len(s) /\ ItemStarts(s) \subseteq 0..Len(s) - 1
    BY ItemsAre
  <1>2. ItemsBefore(s, Len(s)) = ItemStarts(s)
    BY <1>1 DEF ItemsBefore
  <1>3. {j \in ItemPlaces(s) : j <= Len(s)} = ItemPlaces(s) /\ ItemPlaces(s) \subseteq 1..Len(s)
    BY <1>1 DEF ItemPlaces
  <1>4. IsFiniteSet(ItemStarts(s)) /\ CursorCount(s) = Width(s, Len(s))
    BY <1>1, <1>2, WidthCounts DEF CursorCount
  <1>5. Cardinality(ItemPlaces(s)) = Width(s, Len(s))
    BY <1>1, <1>3, WidthCounts DEF Rank
  <1>6. Width(s, Len(s)) = Scan(s).width
    BY <1>1, PlaceSteps DEF Width
  <1>7. \A n \in 0..Len(s) : Width(s, n) <= Width(s, Len(s)) /\ Width(s, n) \in Nat
    BY <1>1, WidthGrows
  <1>8. Width(s, Len(s)) \in Nat
    BY <1>1, <1>7
  <1> QED BY <1>3, <1>4, <1>5, <1>6, <1>7, <1>8

\* Where each item starts.
LEMMA StartsAre ==
  ASSUME NEW s, Whole(s)
  PROVE  LET starts == Ascending(ItemStarts(s))
         IN  /\ starts = [n \in 1..CursorCount(s) |-> starts[n]]
             /\ Len(starts) = CursorCount(s)
             /\ \A n \in 1..CursorCount(s) : starts[n] \in ItemStarts(s) /\ Width(s, starts[n]) = n - 1
  <1> DEFINE starts == Ascending(ItemStarts(s))
             K == ItemPlaces(s)
  <1>1. /\ s \in Texts /\ Len(s) \in Nat /\ ItemStarts(s) \subseteq 0..Len(s) - 1
        /\ CursorCount(s) \in Nat /\ Cardinality(K) = CursorCount(s) /\ K \subseteq 1..Len(s)
    BY ItemsAre, CountIs
  <1>2. starts = [n \in 1..CursorCount(s) |-> Place(K, n) - 1]
    BY DEF Ascending, ItemPlaces, CursorCount
  <1>3. ASSUME NEW n \in 1..CursorCount(s)
        PROVE  starts[n] \in ItemStarts(s) /\ Width(s, starts[n]) = n - 1
    <2>1. Place(K, n) \in K /\ Rank(K, Place(K, n)) = n
      <3> HIDE DEF K
      <3> QED BY <1>1, RankOnto
    <2>2. starts[n] = Place(K, n) - 1
      BY <1>2
    <2>3. PICK q \in ItemStarts(s) : Place(K, n) = q + 1
      BY <2>1 DEF ItemPlaces
    <2>4. q \in 0..Len(s) - 1 /\ q \in 0..Len(s) /\ q + 1 \in 0..Len(s)
      BY <1>1
    <2>5. Rank(K, q + 1) = Width(s, q + 1)
      BY <2>4, WidthCounts
    <2>6. Width(s, q + 1) = Width(s, q) + 1 /\ Width(s, q) \in Nat
      BY <2>4, WidthStep, WidthGrows
    <2>7. starts[n] = q /\ Width(s, q) = n - 1
      BY <2>1, <2>2, <2>3, <2>4, <2>5, <2>6
    <2> QED BY <2>7
  <1> HIDE DEF starts
  <1>4. Len(starts) = CursorCount(s)
    BY <1>1, <1>2
  <1>5. starts = [n \in 1..CursorCount(s) |-> starts[n]]
    BY <1>2
  <1> QED BY <1>3, <1>4, <1>5 DEF starts

\* Between two places outside with the same width there are only such places.
LEMMA OutBetween ==
  ASSUME NEW s, Whole(s), NEW a \in 0..Len(s), NEW b \in 0..Len(s), Out(s, a),
         Width(s, a) = Width(s, b)
  PROVE  \A k \in a..b : Out(s, k) /\ Width(s, k) = Width(s, a)
  <1> SUFFICES ASSUME NEW k \in a..b PROVE Out(s, k) /\ Width(s, k) = Width(s, a)
    OBVIOUS
  <1>1. s \in Texts /\ Len(s) \in Nat /\ k \in 0..Len(s) /\ a <= k /\ k <= b
    BY NotBroken, CutAll
  <1>2. Width(s, a) <= Width(s, k) /\ Width(s, k) <= Width(s, b) /\ Width(s, a) \in Nat /\ Width(s, k) \in Nat
    BY <1>1, WidthGrows
  <1>3. Width(s, k) = Width(s, a)
    BY <1>2
  <1>4. ASSUME ~Out(s, k) PROVE FALSE
    <2>1. PICK p \in BlocksOf(s) : Within(s, p, k)
      BY <1>1, <1>4, InOneBlock
    <2> DEFINE e == match_close_tag_end(s, p)
    <2>2. /\ p \in 0..Len(s) - 1 /\ e \in p + 2..Len(s) /\ p < k /\ k < e
          /\ (Within(s, p, a) <=> p < a /\ a < e) /\ (Within(s, p, a) => ~Out(s, a))
      BY <2>1, WithinIs
    <2> HIDE DEF e
    <2>3. a <= p
      BY <1>1, <2>2
    <2>4. p \in ItemStarts(s) /\ p \in 0..Len(s) /\ p + 1 \in 0..Len(s) /\ p + 1 <= k
      BY <1>1, <2>2, ItemsAre
    <2>5. Width(s, a) <= Width(s, p) /\ Width(s, p) \in Nat
      BY <2>3, <2>4, WidthGrows
    <2>6. Width(s, p + 1) = Width(s, p) + 1 /\ Width(s, p + 1) <= Width(s, k)
      BY <1>1, <2>2, <2>4, WidthStep, WidthGrows
    <2> QED BY <1>2, <1>3, <2>5, <2>6
  <1> QED BY <1>3, <1>4

-----------------------------------------------------------------------------
(* From indices to cursor positions and back.                                *)

Dirs == {"left", "right", "left_opt", "right_opt", "mid"}

LEMMA CursorOf ==
  ASSUME NEW s, Whole(s), NEW i, NEW dir
  PROVE  /\ index_to_cursor(s, i, dir) \in 0..CursorCount(s)
         /\ i \in 0..Len(s) /\ Out(s, i) => index_to_cursor(s, i, dir) = Width(s, i)
  <1> DEFINE before == {pos \in ItemStarts(s) : ItemEnd(s, pos) <= i}
             passed == {block \in BlocksOf(s) :
                          /\ Within(s, block, i)
                          /\ Passed(dir, CharsIn(s, block, i),
                                    CharsIn(s, i, match_close_tag_end(s, block)))}
  <1>1. index_to_cursor(s, i, dir) = Cardinality(before \cup passed)
    BY DEF index_to_cursor
  <1>2. before \cup passed \subseteq ItemStarts(s) /\ IsFiniteSet(ItemStarts(s)) /\ CursorCount(s) \in Nat
    BY ItemsAre, CountIs
  <1>3. index_to_cursor(s, i, dir) \in 0..CursorCount(s)
    <2> HIDE DEF before, passed
    <2>1. IsFiniteSet(before \cup passed) /\ Cardinality(before \cup passed) <= Cardinality(ItemStarts(s))
      BY <1>2, FS_Subset
    <2>2. Cardinality(before \cup passed) \in Nat
      BY <2>1, FS_CardinalityType
    <2> QED BY <1>1, <1>2, <2>1, <2>2 DEF CursorCount
  <1>4. ASSUME i \in 0..Len(s), Out(s, i) PROVE index_to_cursor(s, i, dir) = Width(s, i)
    <2>1. passed = {}
      BY <1>4, WithinIs
    <2>2. before = ItemsBefore(s, i)
      <3> SUFFICES ASSUME NEW p \in ItemStarts(s) PROVE ItemEnd(s, p) <= i <=> p < i
        BY DEF ItemsBefore
      <3> DEFINE e == ItemEnd(s, p)
      <3>1. e \in p + 1..Len(s) /\ p \in 0..Len(s) - 1 /\ \A k \in p + 1..e - 1 : ~Out(s, k)
        BY ItemEnds
      <3>2. i \notin p + 1..e - 1 /\ Len(s) \in Nat
        BY <1>4, <3>1, ItemsAre
      <3> HIDE DEF e
      <3>3. e <= i <=> p < i
        BY <1>4, <3>1, <3>2
      <3> QED BY <3>3 DEF e
    <2>3. Cardinality(ItemsBefore(s, i)) = Width(s, i)
      BY <1>4, WidthCounts
    <2> HIDE DEF before, passed
    <2>4. before \cup passed = ItemsBefore(s, i)
      BY <2>1, <2>2
    <2> QED BY <1>1, <2>3, <2>4
  <1> QED BY <1>3, <1>4

\* An index of a cursor position is outside of the blocks, behind as many items.
PlaceOf(s, c, i) == i \in 0..Len(s) /\ Out(s, i) /\ Width(s, i) = c

LEMMA RangeIs ==
  ASSUME NEW s, Whole(s), NEW c \in 0..CursorCount(s)
  PROVE  LET r == cursor_to_index_range(s, c)
         IN  /\ PlaceOf(s, c, r.first)
             /\ c < CursorCount(s) => PlaceOf(s, c, r.last) /\ r.first <= r.last
             /\ c = CursorCount(s) => r.last = InsideTag \/ r.last = Len(s)
             /\ PlaceOf(s, CursorCount(s), Len(s))
  <1> DEFINE starts == Ascending(ItemStarts(s))
             first == IF c = 0 THEN 0 ELSE ItemEnd(s, starts[c])
             last == IF c < Len(starts) THEN starts[c + 1]
                     ELSE IF first = Len(s) THEN first ELSE InsideTag
             r == cursor_to_index_range(s, c)
  <1>1. /\ s \in Texts /\ Len(s) \in Nat /\ CursorCount(s) \in Nat /\ Len(starts) = CursorCount(s)
        /\ \A n \in 1..CursorCount(s) : starts[n] \in ItemStarts(s) /\ Width(s, starts[n]) = n - 1
        /\ PlaceOf(s, CursorCount(s), Len(s)) /\ PlaceOf(s, 0, 0)
    BY ItemsAre, CountIs, StartsAre, PlaceSteps, NotBroken DEF PlaceOf
  <1>2. r = [first |-> first, last |-> last]
    <2>1. ~(c > Len(starts))
      BY <1>1
    <2> QED BY <2>1 DEF cursor_to_index_range, RangeOf
  <1>3. PlaceOf(s, c, first)
    <2>1. CASE c = 0
      BY <1>1, <2>1
    <2>2. CASE c # 0
      <3>1. starts[c] \in ItemStarts(s) /\ Width(s, starts[c]) = c - 1
        BY <1>1, <2>2
      <3> HIDE DEF starts
      <3>2. LET e == ItemEnd(s, starts[c])
            IN  /\ e \in starts[c] + 1..Len(s) /\ Out(s, e) /\ Width(s, e) = Width(s, starts[c]) + 1
                /\ starts[c] \in 0..Len(s) - 1
        BY <3>1, ItemEnds
      <3>3. ItemEnd(s, starts[c]) \in 0..Len(s) /\ Width(s, ItemEnd(s, starts[c])) = c
        BY <1>1, <3>1, <3>2
      <3> QED BY <2>2, <3>2, <3>3 DEF PlaceOf
    <2> QED BY <2>1, <2>2
  <1> HIDE DEF first, starts
  <1>4. ASSUME c < CursorCount(s) PROVE PlaceOf(s, c, last) /\ first <= last
    <2> DEFINE q == starts[c + 1]
    <2>1. last = q /\ c + 1 \in 1..CursorCount(s)
      BY <1>1, <1>4
    <2>2. q \in ItemStarts(s) /\ Width(s, q) = c
      BY <1>1, <2>1
    <2>3. PlaceOf(s, c, q) /\ q \in 0..Len(s) - 1
      BY <1>1, <2>2, ItemsAre DEF PlaceOf
    <2>4. first <= q
      <3>1. SUFFICES ASSUME q < first PROVE FALSE
        BY <1>1, <1>3, <2>3 DEF PlaceOf
      <3>2. q + 1 \in 0..Len(s) /\ q + 1 <= first /\ first \in 0..Len(s)
        BY <1>1, <1>3, <2>3, <3>1 DEF PlaceOf
      <3>3. Width(s, q + 1) <= Width(s, first) /\ Width(s, q + 1) = Width(s, q) + 1
        BY <2>2, <2>3, <3>2, WidthGrows, WidthStep
      <3> QED BY <1>3, <2>2, <3>3 DEF PlaceOf
    <2> QED BY <2>1, <2>3, <2>4
  <1>5. c = CursorCount(s) => last = InsideTag \/ last = Len(s)
    BY <1>1
  <1> HIDE DEF last
  <1>6. r.first = first /\ r.last = last
    BY <1>2
  <1> QED BY <1>1, <1>3, <1>4, <1>5, <1>6

LEMMA MiddleIs ==
  ASSUME NEW s, NEW first \in Nat, NEW end \in Nat, first <= end
  PROVE  Middle(s, first, end) \in first..end
  <1> DEFINE pair(pos) == pos < Len(s) /\ IsTag(At(s, pos)) /\ At(s, pos - 1) = anti_tag(At(s, pos))
             pairs == {pos \in first + 1..end : pair(pos)}
  <1>1. Middle(s, first, end) = IF pairs = {} THEN first ELSE Min(pairs)
    BY DEF Middle
  <1>2. pairs \in SUBSET Nat /\ \A p \in pairs : p \in first..end
    OBVIOUS
  <1> HIDE DEF pairs
  <1>3. CASE pairs = {}
    <2>1. Middle(s, first, end) = first
      BY <1>1, <1>3
    <2> QED BY <2>1
  <1>4. CASE pairs # {}
    <2>1. Middle(s, first, end) = Min(pairs)
      BY <1>1, <1>4
    <2>2. Min(pairs) \in pairs
      BY <1>2, <1>4, LeastIs
    <2> QED BY <1>2, <2>1, <2>2
  <1> QED BY <1>3, <1>4

\* The directions the editor asks for.
Asked(s, c, dir) == dir \in {"left_opt", "mid"} \/ (dir = "right_opt" /\ c < CursorCount(s))
LEMMA IndexOf ==
  ASSUME NEW s, Whole(s), NEW c \in 0..CursorCount(s), NEW dir, Asked(s, c, dir)
  PROVE  PlaceOf(s, c, cursor_to_index(s, c, dir))
  <1> DEFINE r == cursor_to_index_range(s, c)
  <1>1. /\ PlaceOf(s, c, r.first) /\ PlaceOf(s, CursorCount(s), Len(s))
        /\ c < CursorCount(s) => PlaceOf(s, c, r.last) /\ r.first <= r.last
        /\ c = CursorCount(s) => r.last = InsideTag \/ r.last = Len(s)
    BY RangeIs
  <1>2. cursor_to_index(s, c, dir) = IndexIn(s, r, dir)
    BY DEF cursor_to_index
  <1> HIDE DEF r
  <1>3. CASE dir = "left_opt"
    BY <1>1, <1>2, <1>3 DEF IndexIn
  <1>4. CASE dir = "right_opt"
    BY <1>1, <1>2, <1>4 DEF IndexIn, Asked
  <1>5. CASE dir = "mid"
    <2> DEFINE end == IF r.last = InsideTag THEN Len(s) ELSE r.last
    <2>1. cursor_to_index(s, c, dir) = Middle(s, r.first, end)
      BY <1>2, <1>5 DEF IndexIn
    <2>2. CursorCount(s) \in Nat /\ Len(s) \in Nat
      BY ItemsAre, CountIs
    <2>3. PlaceOf(s, c, end) /\ r.first <= end
      <3>1. CASE c < CursorCount(s)
        BY <1>1, <3>1 DEF PlaceOf, InsideTag
      <3>2. CASE c = CursorCount(s)
        BY <1>1, <2>2, <3>2 DEF PlaceOf, InsideTag
      <3> QED BY <2>2, <3>1, <3>2
    <2> HIDE DEF end
    <2>4. r.first \in 0..Len(s) /\ end \in 0..Len(s) /\ Out(s, r.first) /\ Width(s, r.first) = c
            /\ Width(s, end) = c
      BY <1>1, <2>3 DEF PlaceOf
    <2>5. Middle(s, r.first, end) \in r.first..end
      BY <2>2, <2>3, <2>4, MiddleIs
    <2>6. /\ Out(s, Middle(s, r.first, end)) /\ Width(s, Middle(s, r.first, end)) = c
      BY <2>4, <2>5, OutBetween
    <2>7. Middle(s, r.first, end) \in 0..Len(s)
      BY <2>2, <2>4, <2>5
    <2> QED BY <2>1, <2>6, <2>7 DEF PlaceOf
  <1> QED BY <1>3, <1>4, <1>5 DEF Asked

\* Indices are in the order of their cursor positions.
LEMMA InOrder ==
  ASSUME NEW s, Whole(s), NEW c \in Nat, NEW d \in Nat, NEW i, NEW j, PlaceOf(s, c, i), PlaceOf(s, d, j), c < d
  PROVE  i < j
  <1>1. Len(s) \in Nat /\ i \in 0..Len(s) /\ j \in 0..Len(s) /\ Width(s, i) = c /\ Width(s, j) = d
    BY ItemsAre DEF PlaceOf
  <1>2. j <= i => d <= c
    BY <1>1, WidthGrows
  <1> QED BY <1>1, <1>2

-----------------------------------------------------------------------------
(* The selection is put on one side of each separator.                       *)

LEMMA AscendingIs ==
  ASSUME NEW n \in Nat, NEW Q \in SUBSET (0..n - 1)
  PROVE  LET a == Ascending(Q)
         IN  /\ a \in Seq(Q)
             /\ \A q \in Q : \E m \in 1..Len(a) : a[m] = q
             /\ \A m, k \in 1..Len(a) : m < k => a[m] < a[k]
  <1> DEFINE K == {pos + 1 : pos \in Q}
             f == [q \in Q |-> q + 1]
             a == Ascending(Q)
  <1>1. IsFiniteSet(Q)
    <2>1. IsFiniteSet(0..n - 1)
      BY FS_Interval
    <2> QED BY <2>1, FS_Subset
  <1>2. Cardinality(K) = Cardinality(Q) /\ K \in SUBSET (1..n)
    <2>1. f \in Bijection(Q, K)
      <3>1. f \in [Q -> K]
        OBVIOUS
      <3>2. \A q, r \in Q : f[q] = f[r] => q = r
        OBVIOUS
      <3>3. \A k \in K : \E q \in Q : f[q] = k
        OBVIOUS
      <3> HIDE DEF f, K
      <3> QED BY <3>1, <3>2, <3>3 DEF Bijection, Injection, Surjection, IsInjective
    <2>2. ExistsBijection(Q, K)
      BY <2>1 DEF ExistsBijection
    <2> HIDE DEF K
    <2>3. Cardinality(K) = Cardinality(Q)
      BY <1>1, <2>2, FS_Bijection
    <2>4. K \in SUBSET (1..n)
      BY DEF K
    <2> QED BY <2>3, <2>4
  <1>3. a = [m \in 1..Cardinality(Q) |-> Place(K, m) - 1]
    BY DEF Ascending
  <1>4. Cardinality(Q) \in Nat
    BY <1>1, FS_CardinalityType
  <1> HIDE DEF a
  <1>5. Len(a) = Cardinality(Q) /\ \A m \in 1..Cardinality(Q) : a[m] = Place(K, m) - 1
    BY <1>3, <1>4
  <1>6. \A k \in K : k - 1 \in Q /\ k \in 1..n
    OBVIOUS
  <1>7. \A q \in Q : q + 1 \in K /\ (q + 1) - 1 = q
    OBVIOUS
  <1> HIDE DEF K
  <1>8. \A m \in 1..Cardinality(Q) : Place(K, m) \in K /\ Rank(K, Place(K, m)) = m
    BY <1>2, RankOnto
  <1>9. \A i, k \in K : Rank(K, i) \in 1..Cardinality(Q) /\ (i < k => Rank(K, i) < Rank(K, k))
    BY <1>2, RankMonotone
  <1>10. a \in Seq(Q)
    BY <1>3, <1>4, <1>6, <1>8
  <1>11. ASSUME NEW q \in Q PROVE \E m \in 1..Len(a) : a[m] = q
    <2> DEFINE k == q + 1
               m == Rank(K, k)
    <2>1. k \in K /\ k - 1 = q /\ m \in 1..Cardinality(Q)
      BY <1>7, <1>9
    <2>2. Place(K, m) \in K /\ Rank(K, Place(K, m)) = m
      BY <1>8, <2>1
    <2>3. ~(Place(K, m) < k) /\ ~(k < Place(K, m))
      <3> HIDE DEF k
      <3>1. m \in Int
        BY <2>1
      <3> QED BY <1>4, <1>9, <2>1, <2>2, <3>1
    <2>4. Place(K, m) = k
      BY <1>6, <2>1, <2>2, <2>3
    <2>5. a[m] = q
      BY <1>5, <2>1, <2>4
    <2> QED BY <1>5, <2>1, <2>5
  <1>12. ASSUME NEW m \in 1..Len(a), NEW k \in 1..Len(a), m < k PROVE a[m] < a[k]
    <2>1. m \in 1..Cardinality(Q) /\ k \in 1..Cardinality(Q)
      BY <1>5
    <2> DEFINE i == Place(K, m)
               j == Place(K, k)
    <2>2. i \in K /\ j \in K /\ Rank(K, i) = m /\ Rank(K, j) = k
      BY <1>8, <2>1
    <2>3. a[m] = i - 1 /\ a[k] = j - 1
      BY <1>5, <2>1
    <2> HIDE DEF i, j
    <2>4. i \in 1..n /\ j \in 1..n
      BY <1>6, <2>2
    <2>5. ~(j < i) /\ i # j
      BY <1>9, <1>12, <2>2
    <2> QED BY <2>3, <2>4, <2>5
  <1> QED BY <1>10, <1>11, <1>12 DEF a

SepsOf(s) == {pos \in Positions(s) : At(s, pos) = Open("sep")}

\* An index of a place is on one side of a separator, as its cursor position is.
LEMMA SidesOf ==
  ASSUME NEW s, Whole(s), NEW p \in SepsOf(s)
  PROVE  LET e == match_close_tag_end(s, p)
         IN  /\ p \in 0..Len(s) - 1 /\ s[p + 1] = Open("sep")
             /\ PlaceOf(s, Width(s, p), p) /\ PlaceOf(s, Width(s, p) + 1, e)
             /\ Width(s, p) \in 0..CursorCount(s) - 1
             /\ \A c, i : PlaceOf(s, c, i) => (i <= p <=> c <= Width(s, p)) /\ (i >= e <=> c > Width(s, p))
             /\ \A q \in SepsOf(s) : q < p => Width(s, q) < Width(s, p)
  <1> DEFINE e == match_close_tag_end(s, p)
  <1>1. p \in 0..Len(s) - 1 /\ s[p + 1] = Open("sep") /\ Len(s) \in Nat /\ SepsOf(s) \subseteq BlocksOf(s)
    <2>1. p \in 0..Len(s) - 1 /\ s[p + 1] = Open("sep")
      BY DEF SepsOf, Positions, At
    <2>2. OpensBlock(Open("sep"))
      BY DEF OpensBlock, Open, Blocks
    <2>3. SepsOf(s) \subseteq BlocksOf(s)
      BY <2>2 DEF SepsOf, BlocksOf
    <2> QED BY <2>1, <2>3, ItemsAre
  <1>2. /\ e \in p + 2..Len(s) /\ Out(s, p) /\ Out(s, e) /\ Width(s, e) = Width(s, p) + 1
        /\ \A k \in 0..Len(s) : Within(s, p, k) => ~Out(s, k)
        /\ \A k : Within(s, p, k) <=> p < k /\ k < e
    BY <1>1, WithinIs
  <1>3. /\ CursorCount(s) \in Nat /\ \A n \in 0..Len(s) : Width(s, n) \in 0..CursorCount(s)
        /\ \A m, n \in 0..Len(s) : m <= n => Width(s, m) <= Width(s, n)
    BY CountIs, WidthGrows
  <1> HIDE DEF e
  <1>4. p \in 0..Len(s) /\ e \in 0..Len(s) /\ Width(s, p) \in 0..CursorCount(s) - 1
    <2>1. p \in 0..Len(s) /\ e \in 0..Len(s)
      BY <1>1, <1>2
    <2> QED BY <1>2, <1>3, <2>1
  <1>5. ASSUME NEW c, NEW i, PlaceOf(s, c, i)
        PROVE  (i <= p <=> c <= Width(s, p)) /\ (i >= e <=> c > Width(s, p))
    <2>1. i \in 0..Len(s) /\ Out(s, i) /\ Width(s, i) = c /\ c \in 0..CursorCount(s)
      BY <1>3, <1>5 DEF PlaceOf
    <2>2. i <= p \/ i >= e
      BY <1>1, <1>2, <2>1
    <2>3. i <= p => c <= Width(s, p)
      BY <1>3, <1>4, <2>1
    <2>4. i >= e => c >= Width(s, p) + 1
      BY <1>2, <1>3, <1>4, <2>1
    <2>5. ~(i <= p /\ i >= e)
      BY <1>1, <1>2, <2>1
    <2> QED BY <1>3, <1>4, <2>1, <2>2, <2>3, <2>4, <2>5
  <1>6. ASSUME NEW q \in SepsOf(s), q < p PROVE Width(s, q) < Width(s, p)
    <2>1. q \in BlocksOf(s) /\ q \in ItemStarts(s)
      BY <1>1, ItemsAre
    <2>2. q \in 0..Len(s) - 1
      BY <2>1, ItemsAre
    <2>3. q \in 0..Len(s) /\ q + 1 \in 0..Len(s) /\ q + 1 <= p
      BY <1>1, <1>6, <2>2
    <2>4. Width(s, q + 1) = Width(s, q) + 1 /\ Width(s, q + 1) <= Width(s, p)
      BY <1>3, <1>4, <2>1, <2>2, <2>3, WidthStep
    <2> QED BY <1>3, <1>4, <2>3, <2>4
  <1>7. PlaceOf(s, Width(s, p), p) /\ PlaceOf(s, Width(s, p) + 1, e)
    BY <1>2, <1>4 DEF PlaceOf
  <1> QED BY <1>1, <1>4, <1>5, <1>6, <1>7 DEF e

\* Selections of which the indices and the cursor positions agree.
Agreeing(s) == {sel \in [start : 0..CursorCount(s), end : 0..CursorCount(s), start_i : Nat, end_i : Nat] :
                  PlaceOf(s, sel.start, sel.start_i) /\ PlaceOf(s, sel.end, sel.end_i)}
\* Two cursor positions on the same side of the separator at p, and of all.
OneSide(s, p, c, d) == c <= Width(s, p) <=> d <= Width(s, p)
SideBySide(s, c, d) == \A p \in SepsOf(s) : OneSide(s, p, c, d)

LEMMA EndMoved ==
  ASSUME NEW s, Whole(s), NEW sel \in Agreeing(s), NEW c \in 0..CursorCount(s)
  PROVE  LET r == EndAt(s, sel, c)
         IN  r \in Agreeing(s) /\ r.start = sel.start /\ r.end = c
  <1> DEFINE dir == direction_of(sel.start, c)
             i == cursor_to_index(s, c, dir)
             r == [start |-> sel.start, end |-> c, start_i |-> sel.start_i, end_i |-> i]
  <1>1. /\ sel.start \in 0..CursorCount(s) /\ PlaceOf(s, sel.start, sel.start_i) /\ CursorCount(s) \in Nat
        /\ sel.start_i \in Nat
        /\ sel = [start |-> sel.start, end |-> sel.end, start_i |-> sel.start_i, end_i |-> sel.end_i]
    BY CountIs DEF Agreeing
  <1>2. Asked(s, c, dir)
    <2>1. CASE sel.start > c
      BY <1>1, <2>1 DEF direction_of, Asked
    <2>2. CASE ~(sel.start > c)
      BY <2>2 DEF direction_of, Asked
    <2> QED BY <2>1, <2>2
  <1>3. PlaceOf(s, c, i)
    <2> HIDE DEF dir
    <2> QED BY <1>2, IndexOf
  <1>4. i \in Nat
    BY <1>3, ItemsAre DEF PlaceOf
  <1>5. EndAt(s, sel, c) = [sel EXCEPT !.end = c, !.end_i = i]
    BY DEF EndAt
  <1> HIDE DEF i
  <1>6. EndAt(s, sel, c) = r
    BY <1>1, <1>5
  <1>7. r \in Agreeing(s)
    BY <1>1, <1>3, <1>4 DEF Agreeing
  <1> QED BY <1>6, <1>7

LEMMA SameSideIs ==
  ASSUME NEW s, Whole(s), NEW sel \in Agreeing(s), NEW p \in SepsOf(s), NEW dir
  PROVE  LET r == SameSide(s, sel, p, match_close_tag_end(s, p), dir)
         IN  /\ r \in Agreeing(s) /\ r.start = sel.start
             /\ OneSide(s, p, r.start, r.end)
             /\ \A q \in SepsOf(s) : q < p /\ OneSide(s, q, sel.start, sel.end) => OneSide(s, q, r.start, r.end)
             /\ OneSide(s, p, sel.start, sel.end) => r = sel
  <1> DEFINE e == match_close_tag_end(s, p)
             w == Width(s, p)
             r == SameSide(s, sel, p, e, dir)
  <1>1. /\ PlaceOf(s, w, p) /\ PlaceOf(s, w + 1, e) /\ w \in 0..CursorCount(s) - 1
        /\ \A c, i : PlaceOf(s, c, i) => (i <= p <=> c <= w) /\ (i >= e <=> c > w)
        /\ \A q \in SepsOf(s) : q < p => Width(s, q) < w
        /\ p \in Nat
    BY SidesOf
  <1>2. /\ sel.start \in 0..CursorCount(s) /\ sel.end \in 0..CursorCount(s) /\ CursorCount(s) \in Nat
        /\ PlaceOf(s, sel.start, sel.start_i) /\ PlaceOf(s, sel.end, sel.end_i)
        /\ sel.start_i \in Nat /\ sel.end_i \in Nat
    BY CountIs DEF Agreeing
  <1>3. index_to_cursor(s, p, dir) = w /\ index_to_cursor(s, e, dir) = w + 1
    <2>1. p \in 0..Len(s) /\ Out(s, p) /\ e \in 0..Len(s) /\ Out(s, e) /\ Width(s, e) = w + 1
      BY <1>1 DEF PlaceOf
    <2> QED BY <2>1, CursorOf
  <1>4. /\ sel.start_i <= p <=> sel.start <= w
        /\ sel.end_i > p <=> sel.end > w
        /\ sel.start_i >= e <=> sel.start > w
        /\ sel.end_i < e <=> sel.end <= w
    <2>1. e \in Nat
      BY <1>1, ItemsAre DEF PlaceOf
    <2>2. /\ sel.start_i <= p <=> sel.start <= w
          /\ sel.end_i <= p <=> sel.end <= w
          /\ sel.start_i >= e <=> sel.start > w
          /\ sel.end_i >= e <=> sel.end > w
      BY <1>1, <1>2
    <2> HIDE DEF e, w
    <2>3. w \in Int
      BY <1>1
    <2> QED BY <1>1, <1>2, <2>1, <2>2, <2>3
  <1>5. \A q \in SepsOf(s) : Width(s, q) \in Nat
    BY SidesOf
  <1> HIDE DEF e, w
  <1>6. CASE sel.start <= w /\ sel.end > w
    <2>1. r = EndAt(s, sel, w)
      BY <1>3, <1>4, <1>6 DEF SameSide
    <2>2. r \in Agreeing(s) /\ r.start = sel.start /\ r.end = w
      <3>1. w \in 0..CursorCount(s)
        BY <1>1, <1>2
      <3> HIDE DEF r
      <3> QED BY <2>1, <3>1, EndMoved
    <2> HIDE DEF r
    <2>3. OneSide(s, p, r.start, r.end) /\ ~OneSide(s, p, sel.start, sel.end)
      BY <1>1, <1>2, <1>6, <2>2 DEF OneSide, w
    <2>4. ASSUME NEW q \in SepsOf(s), q < p, OneSide(s, q, sel.start, sel.end)
          PROVE  OneSide(s, q, r.start, r.end)
      <3>1. Width(s, q) < w /\ Width(s, q) \in Nat
        BY <1>1, <1>5, <2>4
      <3> QED BY <1>1, <1>2, <1>6, <2>2, <2>4, <3>1 DEF OneSide
    <2> QED BY <2>2, <2>3, <2>4 DEF r, e
  <1>7. CASE sel.start > w /\ sel.end <= w
    <2>1. r = EndAt(s, sel, w + 1)
      <3>1. ~(sel.start <= w)
        BY <1>1, <1>2, <1>7
      <3> QED BY <1>3, <1>4, <1>7, <3>1 DEF SameSide
    <2>2. r \in Agreeing(s) /\ r.start = sel.start /\ r.end = w + 1
      <3>1. w + 1 \in 0..CursorCount(s)
        BY <1>1, <1>2
      <3> HIDE DEF r
      <3> QED BY <2>1, <3>1, EndMoved
    <2> HIDE DEF r
    <2>3. OneSide(s, p, r.start, r.end) /\ ~OneSide(s, p, sel.start, sel.end)
      BY <1>1, <1>2, <1>7, <2>2 DEF OneSide, w
    <2>4. ASSUME NEW q \in SepsOf(s), q < p, OneSide(s, q, sel.start, sel.end)
          PROVE  OneSide(s, q, r.start, r.end)
      <3>1. Width(s, q) < w /\ Width(s, q) \in Nat
        BY <1>1, <1>5, <2>4
      <3> QED BY <1>1, <1>2, <1>7, <2>2, <2>4, <3>1 DEF OneSide
    <2> QED BY <2>2, <2>3, <2>4 DEF r, e
  <1>8. CASE sel.start <= w <=> sel.end <= w
    <2>1. r = sel
      <3>1. ~(sel.start <= w /\ sel.end > w) /\ ~(sel.start > w /\ sel.end <= w)
        BY <1>1, <1>2, <1>8
      <3> QED BY <1>4, <3>1 DEF SameSide
    <2> HIDE DEF r
    <2> QED BY <1>8, <2>1 DEF OneSide, w, r, e
  <1>9. w \in Int /\ sel.end \in Int /\ sel.start \in Int
    BY <1>1, <1>2
  <1> QED BY <1>6, <1>7, <1>8, <1>9

LEMMA IndicesAgree ==
  ASSUME NEW s, Whole(s), NEW c \in 0..CursorCount(s), NEW d \in 0..CursorCount(s), NEW dir
  PROVE  LET r == IndicesOnly(s, c, d, dir)
         IN  /\ r \in Agreeing(s) /\ r.start = c /\ r.end = d
             /\ r = IndicesOnly(s, c, d, "mid")
             /\ c <= d => r.start_i <= r.end_i
             /\ d <= c => r.end_i <= r.start_i
  <1> DEFINE i == cursor_to_index(s, c, direction_of(d, c))
             j == cursor_to_index(s, d, direction_of(c, d))
             r == [start |-> c, end |-> d, start_i |-> i, end_i |-> j]
  <1>1. CursorCount(s) \in Nat /\ Len(s) \in Nat
    BY CountIs, ItemsAre
  <1>2. Asked(s, c, direction_of(d, c)) /\ Asked(s, d, direction_of(c, d))
    <2>1. CASE c < d
      <3>1. direction_of(d, c) = "right_opt" /\ direction_of(c, d) = "left_opt" /\ c < CursorCount(s)
        BY <1>1, <2>1 DEF direction_of
      <3> QED BY <3>1 DEF Asked
    <2>2. CASE d < c
      <3>1. direction_of(d, c) = "left_opt" /\ direction_of(c, d) = "right_opt" /\ d < CursorCount(s)
        BY <1>1, <2>2 DEF direction_of
      <3> QED BY <3>1 DEF Asked
    <2>3. CASE c = d
      BY <1>1, <2>3 DEF direction_of, Asked
    <2> QED BY <1>1, <2>1, <2>2, <2>3
  <1>3. PlaceOf(s, c, i) /\ PlaceOf(s, d, j)
    BY <1>2, IndexOf
  <1>4. i \in Nat /\ j \in Nat
    BY <1>1, <1>3 DEF PlaceOf
  <1>5. c = d => i = j
    OBVIOUS
  <1>6. IndicesOnly(s, c, d, dir) = r /\ IndicesOnly(s, c, d, "mid") = r
    BY DEF IndicesOnly
  <1> HIDE DEF i, j
  <1>7. r \in Agreeing(s)
    BY <1>3, <1>4 DEF Agreeing
  <1>8. c < d => i < j
    BY <1>1, <1>3, InOrder
  <1>9. d < c => j < i
    BY <1>1, <1>3, InOrder
  <1>10. (c <= d => i <= j) /\ (d <= c => j <= i)
    BY <1>1, <1>4, <1>5, <1>8, <1>9
  <1> QED BY <1>6, <1>7, <1>10

\* The loop over the separators.
LEMMA FixSteps ==
  ASSUME NEW s, Whole(s), NEW c \in 0..CursorCount(s), NEW d \in 0..CursorCount(s), NEW dir
  PROVE  LET seps == SeparatorsOf(s)
         IN  \E fixed : /\ fixCursors(s, c, d, dir) = fixed[Len(seps)]
                        /\ fixed[0] = IndicesOnly(s, c, d, dir)
                        /\ \A n \in 1..Len(seps) :
                              fixed[n] = SameSide(s, fixed[n - 1], seps[n], match_close_tag_end(s, seps[n]), dir)
  <1> DEFINE seps == SeparatorsOf(s)
             Q == SepsOf(s)
             D == Agreeing(s)
             init == IndicesOnly(s, c, d, dir)
             turn(sel, p) == SameSide(s, sel, p, match_close_tag_end(s, p), dir)
             step == [a \in D \X Q |-> turn(a[1], a[2])]
             body(h) == [n \in 0..Len(seps) |->
                           IF n = 0 THEN init
                           ELSE SameSide(s, h[n - 1], seps[n], match_close_tag_end(s, seps[n]), dir)]
             fixed == CHOOSE h : h = body(h)
  <1>1. seps \in Seq(Q)
    <2>1. SepsOf(s) \in SUBSET (0..Len(s) - 1) /\ Len(s) \in Nat
      BY ItemsAre DEF SepsOf, Positions
    <2>2. seps = Ascending(Q)
      BY DEF SeparatorsOf, SepsOf
    <2> QED BY <2>1, <2>2, AscendingIs
  <1>2. init \in D
    BY IndicesAgree
  <1>3. ASSUME NEW sel \in D, NEW p \in Q PROVE turn(sel, p) \in D
    BY SameSideIs
  <1> HIDE DEF turn
  <1>4. step \in [D \X Q -> D] /\ \A sel \in D, p \in Q : step[<<sel, p>>] = turn(sel, p)
    <2> HIDE DEF D, Q
    <2> QED BY <1>3
  <1> HIDE DEF step, D, Q, init
  <1>5. PICK g \in [0..Len(seps) -> D] : Runs(g, seps, init, step)
    BY <1>1, <1>2, <1>4, LoopIsThrough
  <1>6. Len(seps) \in Nat /\ \A n \in 1..Len(seps) : seps[n] \in Q
    BY <1>1
  <1>7. g = body(g)
    <2>1. ASSUME NEW n \in 0..Len(seps)
          PROVE  g[n] = IF n = 0 THEN init
                        ELSE SameSide(s, g[n - 1], seps[n], match_close_tag_end(s, seps[n]), dir)
      <3>1. CASE n = 0
        BY <1>5, <3>1 DEF Runs
      <3>2. CASE n # 0
        <4>1. n \in 1..Len(seps) /\ n - 1 \in 0..Len(seps)
          BY <3>2
        <4>2. g[n] = step[<<g[n - 1], seps[n]>>]
          BY <1>5, <4>1 DEF Runs
        <4>3. g[n - 1] \in D /\ seps[n] \in Q
          BY <1>5, <1>6, <4>1
        <4>4. g[n] = turn(g[n - 1], seps[n])
          BY <1>4, <4>2, <4>3
        <4> QED BY <3>2, <4>4 DEF turn
      <3> QED BY <3>1, <3>2
    <2> HIDE DEF seps
    <2> QED BY <1>5, <2>1
  <1>8. fixed = body(fixed)
    BY <1>7
  <1>9. fixCursors(s, c, d, dir) = fixed[Len(seps)]
    BY DEF fixCursors, init
  <1> HIDE DEF fixed, seps
  <1>10. \A n \in 0..Len(seps) :
            fixed[n] = IF n = 0 THEN init
                       ELSE SameSide(s, fixed[n - 1], seps[n], match_close_tag_end(s, seps[n]), dir)
    BY <1>8
  <1>11. fixed[0] = init
    BY <1>6, <1>10
  <1>12. ASSUME NEW n \in 1..Len(seps)
         PROVE  fixed[n] = SameSide(s, fixed[n - 1], seps[n], match_close_tag_end(s, seps[n]), dir)
    <2>1. n \in 0..Len(seps) /\ n # 0
      BY <1>6
    <2> QED BY <1>10, <2>1
  <1> QED BY <1>9, <1>11, <1>12 DEF seps, init

\* fixSelection gives a valid selection, and does not change one.
LEMMA FixIs ==
  ASSUME NEW s, Whole(s), NEW c \in 0..CursorCount(s), NEW d \in 0..CursorCount(s), NEW dir
  PROVE  LET r == fixCursors(s, c, d, dir)
         IN  /\ r \in Agreeing(s) /\ r.start = c
             /\ SideBySide(s, r.start, r.end)
             /\ SideBySide(s, c, d) => r = IndicesOnly(s, c, d, "mid")
  <1> DEFINE seps == SeparatorsOf(s)
             Q == SepsOf(s)
             init == IndicesOnly(s, c, d, "mid")
  <1>1. PICK fixed : /\ fixCursors(s, c, d, dir) = fixed[Len(seps)]
                     /\ fixed[0] = IndicesOnly(s, c, d, dir)
                     /\ \A n \in 1..Len(seps) :
                           fixed[n] = SameSide(s, fixed[n - 1], seps[n], match_close_tag_end(s, seps[n]), dir)
    BY FixSteps
  <1>2. /\ seps \in Seq(Q)
        /\ \A q \in Q : \E m \in 1..Len(seps) : seps[m] = q
        /\ \A m, k \in 1..Len(seps) : m < k => seps[m] < seps[k]
    <2>1. SepsOf(s) \in SUBSET (0..Len(s) - 1) /\ Len(s) \in Nat
      BY ItemsAre DEF SepsOf, Positions
    <2>2. seps = Ascending(Q)
      BY DEF SeparatorsOf, SepsOf
    <2> QED BY <2>1, <2>2, AscendingIs
  <1>3. fixed[0] = init /\ init \in Agreeing(s) /\ init.start = c /\ init.end = d
    BY <1>1, IndicesAgree
  <1> HIDE DEF seps, init
  <1>4. Len(seps) \in Nat /\ \A n \in 1..Len(seps) : seps[n] \in Q
    BY <1>2
  <1> DEFINE Fine(n) == /\ fixed[n] \in Agreeing(s) /\ fixed[n].start = c
                        /\ \A m \in 1..n : OneSide(s, seps[m], c, fixed[n].end)
                        /\ SideBySide(s, c, d) => fixed[n] = init
             E == {n \in Nat : n <= Len(seps) => Fine(n)}
  <1>5. Fine(0)
    BY <1>3
  <1>6. ASSUME NEW n \in 0..Len(seps) - 1, Fine(n) PROVE Fine(n + 1)
    <2> DEFINE sel == fixed[n]
               p == seps[n + 1]
               r == fixed[n + 1]
    <2>1. n + 1 \in 1..Len(seps) /\ (n + 1) - 1 = n /\ p \in Q /\ n \in Nat
      BY <1>4
    <2>2. r = SameSide(s, sel, p, match_close_tag_end(s, p), dir)
      BY <1>1, <2>1
    <2>3. sel \in Agreeing(s) /\ sel.start = c
      BY <1>6
    <2> HIDE DEF sel, p, r
    <2>4. /\ r \in Agreeing(s) /\ r.start = c
          /\ OneSide(s, p, c, r.end)
          /\ \A q \in SepsOf(s) : q < p /\ OneSide(s, q, c, sel.end) => OneSide(s, q, c, r.end)
          /\ OneSide(s, p, c, sel.end) => r = sel
      <3>1. p \in SepsOf(s)
        BY <2>1
      <3>2. LET r0 == SameSide(s, sel, p, match_close_tag_end(s, p), dir)
            IN  /\ r0 \in Agreeing(s) /\ r0.start = sel.start
                /\ OneSide(s, p, r0.start, r0.end)
                /\ \A q \in SepsOf(s) : q < p /\ OneSide(s, q, sel.start, sel.end) => OneSide(s, q, r0.start, r0.end)
                /\ OneSide(s, p, sel.start, sel.end) => r0 = sel
        BY <2>3, <3>1, SameSideIs
      <3> QED BY <2>2, <2>3, <3>2
    <2>5. ASSUME NEW m \in 1..n + 1 PROVE OneSide(s, seps[m], c, r.end)
      <3>1. CASE m = n + 1
        BY <2>4, <3>1 DEF p
      <3>2. CASE m # n + 1
        <4>1. m \in 1..n /\ m \in 1..Len(seps) /\ m < n + 1
          BY <1>4, <2>1, <3>2
        <4>2. seps[m] < p /\ seps[m] \in Q
          BY <1>2, <1>4, <2>1, <4>1 DEF p
        <4>3. OneSide(s, seps[m], c, sel.end)
          BY <1>6, <4>1 DEF sel
        <4> QED BY <2>4, <4>2, <4>3
      <3> QED BY <3>1, <3>2
    <2>6. SideBySide(s, c, d) => r = init
      <3> SUFFICES ASSUME SideBySide(s, c, d) PROVE r = init
        OBVIOUS
      <3>1. sel = init
        BY <1>6 DEF sel
      <3>2. OneSide(s, p, c, sel.end)
        BY <1>3, <2>1, <3>1 DEF SideBySide
      <3> QED BY <2>4, <3>1, <3>2
    <2> QED BY <2>4, <2>5, <2>6 DEF r
  <1> HIDE DEF Fine
  <1>7. 0..Len(seps) \subseteq E
    <2>1. 0 \in E
      BY <1>5
    <2>2. ASSUME NEW n \in 0..Len(seps) - 1, n \in E PROVE n + 1 \in E
      <3>1. n \in Nat /\ n <= Len(seps) /\ n + 1 \in Nat
        BY <1>4
      <3> QED BY <1>6, <2>2, <3>1
    <2> HIDE DEF E
    <2> QED BY <1>4, <2>1, <2>2, UpTo
  <1>8. Fine(Len(seps))
    BY <1>4, <1>7
  <1> DEFINE r == fixCursors(s, c, d, dir)
  <1>9. /\ r \in Agreeing(s) /\ r.start = c
        /\ \A m \in 1..Len(seps) : OneSide(s, seps[m], c, r.end)
        /\ SideBySide(s, c, d) => r = init
    BY <1>1, <1>8 DEF Fine
  <1> HIDE DEF r
  <1>10. SideBySide(s, r.start, r.end)
    BY <1>2, <1>9 DEF SideBySide
  <1> QED BY <1>9, <1>10 DEF r, init

-----------------------------------------------------------------------------
(* Going through the separators of a text.                                   *)

Reading == [at : 0..Len(SeparatorItem) - 1, past : Nat, is : {"kept", "lost"}]
\* In a separator, behind so many of its tokens and so many other separators.
In(at, past) == [at |-> at, past |-> past, is |-> "kept"]
Lost == [at |-> 0, past |-> 0, is |-> "lost"]
ReadTo(st, t) ==
    IF st.is = "lost" THEN st
    ELSE IF st.at = 0
    THEN IF t = Open("sep") THEN In(1, st.past) ELSE IF t = Close("sep") THEN Lost ELSE st
    ELSE IF t # SeparatorItem[st.at + 1] THEN Lost
    ELSE IF st.at + 1 = Len(SeparatorItem) THEN In(0, st.past + 1) ELSE In(st.at + 1, st.past)
ReadStep == [p \in Reading \X Token |-> ReadTo(p[1], p[2])]
ReadFrom(st, s) == Through(s, st, ReadStep)
Read(s) == ReadFrom(In(0, 0), s)
\* The separators between the parts are there, as they were written.
Framed(s) == Read(s) = In(0, Parts - 1)

LEMMA ItemIs ==
  /\ SeparatorItem \in Texts /\ Len(SeparatorItem) \in Nat /\ Len(SeparatorItem) >= 3
  /\ SeparatorItem[1] = Open("sep") /\ SeparatorItem[Len(SeparatorItem)] = Close("sep")
  /\ \A n \in 1..Len(SeparatorItem) : SeparatorItem[n] \in Token /\ ~IsFormat(SeparatorItem[n])
  /\ \A n \in 2..Len(SeparatorItem) - 1 : ~IsBlockTag(SeparatorItem[n])
  /\ \A n \in 2..Len(SeparatorItem) : SeparatorItem[n][1] = "close" => SeparatorItem[n - 1][1] # "open"
  <1> DEFINE i == SeparatorItem
             n == Len(Separator)
  <1>1. Separator \in Texts /\ n \in Nat
    <2>1. Kinds \X STRING \subseteq Token
      BY DEF Token, Names
    <2> QED BY <2>1, SeparatorsAssumption DEF Texts
  <1>2. Open("sep") \in Token /\ Close("sep") \in Token
    BY DEF Token, Names, Blocks, Kinds, Open, Close
  <1>3. i = <<Open("sep")>> \o Separator \o <<Close("sep")>>
    BY DEF SeparatorItem
  <1>4. /\ i \in Texts /\ Len(i) = n + 2 /\ i[1] = Open("sep") /\ i[n + 2] = Close("sep")
        /\ \A m \in 2..n + 1 : i[m] = Separator[m - 1]
    <2> DEFINE a == <<Open("sep")>>
               b == a \o Separator
               c == <<Close("sep")>>
    <2>1. a \in Seq(Token) /\ Len(a) = 1 /\ a[1] = Open("sep")
      BY <1>2
    <2>2. c \in Seq(Token) /\ Len(c) = 1 /\ c[1] = Close("sep")
      BY <1>2
    <2> HIDE DEF a, c
    <2>3. /\ b \in Seq(Token) /\ Len(b) = n + 1 /\ b[1] = Open("sep")
          /\ \A m \in 2..n + 1 : b[m] = Separator[m - 1]
      <3>1. Separator \in Seq(Token) /\ Len(Separator) = n
        BY <1>1 DEF Texts
      <3> HIDE DEF n
      <3>2. /\ b \in Seq(Token) /\ Len(b) = Len(a) + Len(Separator)
            /\ \A m \in 1..Len(a) + Len(Separator) :
                  b[m] = IF m <= Len(a) THEN a[m] ELSE Separator[m - Len(a)]
        BY <2>1, <3>1, ConcatProperties
      <3> HIDE DEF b
      <3>3. n \in Nat
        BY <1>1
      <3>4. Len(b) = n + 1 /\ 1 \in 1..Len(a) + Len(Separator) /\ 1 <= Len(a)
        BY <2>1, <3>1, <3>2, <3>3
      <3>5. b[1] = Open("sep")
        BY <2>1, <3>2, <3>4
      <3>6. ASSUME NEW m \in 2..n + 1 PROVE b[m] = Separator[m - 1]
        BY <2>1, <3>1, <3>2, <3>3
      <3> QED BY <3>2, <3>4, <3>5, <3>6
    <2> HIDE DEF b
    <2>4. /\ b \o c \in Seq(Token) /\ Len(b \o c) = n + 2
          /\ \A m \in 1..n + 1 : (b \o c)[m] = b[m]
          /\ (b \o c)[n + 2] = Close("sep")
      <3>1. \A m \in 1..Len(b) + Len(c) : (b \o c)[m] = IF m <= Len(b) THEN b[m] ELSE c[m - Len(b)]
        BY <2>2, <2>3, ConcatProperties
      <3>2. b \o c \in Seq(Token) /\ Len(b \o c) = Len(b) + Len(c)
        BY <2>2, <2>3, ConcatProperties
      <3> HIDE DEF n
      <3> QED BY <1>1, <2>2, <2>3, <3>1, <3>2
    <2>5. i = b \o c
      BY <1>3 DEF a, b, c
    <2> QED BY <1>1, <2>3, <2>4, <2>5 DEF Texts
  <1> HIDE DEF i
  <1>5. Len(i) >= 3
    <2>1. CASE n = 0
      <3>1. 2 \in 2..Len(i) /\ i[2][1] = "close" /\ i[2 - 1][1] = "open"
        BY <1>1, <1>4, <2>1 DEF Open, Close
      <3> QED BY <3>1, SeparatorsAssumption DEF i
    <2> QED BY <1>1, <1>4, <2>1
  <1>6. ASSUME NEW m \in 1..Len(i) PROVE i[m] \in Token /\ ~IsFormat(i[m])
    <2>1. ~IsFormat(Open("sep")) /\ ~IsFormat(Close("sep"))
      BY DEF IsFormat, Open, Close, Formats
    <2>2. m = 1 \/ m = n + 2 \/ (m \in 2..n + 1 /\ m - 1 \in 1..n)
      BY <1>1, <1>4
    <2>3. i[m] \in Token
      BY <1>4 DEF Texts
    <2> QED BY <1>4, <2>1, <2>2, <2>3, SeparatorsAssumption
  <1>7. ASSUME NEW m \in 2..Len(i) - 1 PROVE ~IsBlockTag(i[m])
    <2>1. m \in 2..n + 1 /\ m - 1 \in 1..n
      BY <1>1, <1>4
    <2> QED BY <1>4, <2>1, SeparatorsAssumption
  <1> QED BY <1>1, <1>4, <1>5, <1>6, <1>7, SeparatorsAssumption DEF i

LEMMA ReadType ==
  /\ \A at \in 0..Len(SeparatorItem) - 1, past \in Nat : In(at, past) \in Reading
  /\ Lost \in Reading
  /\ \A st \in Reading, t \in Token : ReadTo(st, t) \in Reading
  /\ ReadStep \in [Reading \X Token -> Reading]
  /\ \A st \in Reading, t \in Token : ReadStep[<<st, t>>] = ReadTo(st, t)
  <1>0. Len(SeparatorItem) \in Nat /\ Len(SeparatorItem) >= 3
    BY ItemIs
  <1>1. /\ \A at \in 0..Len(SeparatorItem) - 1, past \in Nat : In(at, past) \in Reading
        /\ Lost \in Reading
    BY <1>0 DEF In, Lost, Reading
  <1>2. ASSUME NEW st \in Reading, NEW t \in Token PROVE ReadTo(st, t) \in Reading
    <2>1. /\ st.at \in 0..Len(SeparatorItem) - 1 /\ st.past \in Nat /\ st.past + 1 \in Nat
          /\ st.at + 1 # Len(SeparatorItem) => st.at + 1 \in 0..Len(SeparatorItem) - 1
          /\ 0 \in 0..Len(SeparatorItem) - 1 /\ 1 \in 0..Len(SeparatorItem) - 1
      BY <1>0 DEF Reading
    <2> QED BY <1>1, <2>1 DEF ReadTo
  <1>3. ReadStep \in [Reading \X Token -> Reading]
    BY <1>2 DEF ReadStep
  <1>4. \A st \in Reading, t \in Token : ReadStep[<<st, t>>] = ReadTo(st, t)
    BY DEF ReadStep
  <1> QED BY <1>1, <1>2, <1>3, <1>4

LEMMA ReadAppend ==
  ASSUME NEW st \in Reading
  PROVE  /\ ReadFrom(st, <<>>) = st
         /\ \A s \in Texts : ReadFrom(st, s) \in Reading
         /\ \A s \in Texts, t \in Token : ReadFrom(st, Append(s, t)) = ReadTo(ReadFrom(st, s), t)
  <1>1. ReadFrom(st, <<>>) = st
    BY ThroughEmpty DEF ReadFrom
  <1>2. ASSUME NEW s \in Texts PROVE ReadFrom(st, s) \in Reading
    BY ReadType, LoopIsThrough DEF ReadFrom, Texts
  <1>3. ASSUME NEW s \in Texts, NEW t \in Token
        PROVE  ReadFrom(st, Append(s, t)) = ReadTo(ReadFrom(st, s), t)
    <2>1. ReadFrom(st, Append(s, t)) = ReadStep[<<ReadFrom(st, s), t>>]
      BY ThroughAppend DEF ReadFrom, Texts
    <2> QED BY <1>2, <2>1, ReadType
  <1> QED BY <1>1, <1>2, <1>3

LEMMA ReadConcat ==
  ASSUME NEW st \in Reading, NEW a \in Texts, NEW b \in Texts
  PROVE  ReadFrom(st, a \o b) = ReadFrom(ReadFrom(st, a), b) /\ ReadFrom(st, a) \in Reading
  BY ThroughConcat, ReadAppend DEF ReadFrom, Texts

LEMMA ReadBegins ==
  /\ Read(<<>>) = In(0, 0) /\ In(0, 0) \in Reading
  /\ \A s \in Texts : Read(s) \in Reading
  /\ \A s \in Texts, t \in Token : Read(Append(s, t)) = ReadTo(Read(s), t)
  /\ \A a, b \in Texts : Read(a \o b) = ReadFrom(Read(a), b)
  <1>1. In(0, 0) \in Reading
    BY ItemIs, ReadType
  <1> QED BY <1>1, ReadAppend, ReadConcat DEF Read

\* Once a separator is lost, it stays so.
LEMMA ReadLost ==
  ASSUME NEW st \in Reading, st.is = "lost"
  PROVE  /\ \A t \in Token : ReadTo(st, t) = st
         /\ \A s \in Texts : ReadFrom(st, s) = st
  <1>1. \A t \in Token : ReadTo(st, t) = st
    BY DEF ReadTo
  <1> DEFINE P == {s \in Texts : ReadFrom(st, s) = st}
  <1>2. <<>> \in P
    BY ReadAppend DEF Texts
  <1>3. ASSUME NEW s \in Texts, NEW t \in Token, s \in P PROVE Append(s, t) \in P
    <2>1. Append(s, t) \in Texts
      BY DEF Texts
    <2>2. ReadFrom(st, Append(s, t)) = ReadTo(ReadFrom(st, s), t)
      BY ReadAppend
    <2> QED BY <1>1, <1>3, <2>1, <2>2
  <1>4. Texts \subseteq P
    <2> HIDE DEF P
    <2> QED BY <1>2, <1>3, ByAppending DEF Texts
  <1> QED BY <1>1, <1>4

\* Outside of separators, tokens that are no tags of them change nothing.
SepTag(t) == t = Open("sep") \/ t = Close("sep")

LEMMA ReadOther ==
  ASSUME NEW st \in Reading, st.at = 0
  PROVE  /\ \A t \in Token : ~SepTag(t) => ReadTo(st, t) = st
         /\ \A s \in Texts : (\A n \in 1..Len(s) : ~SepTag(s[n])) => ReadFrom(st, s) = st
  <1>1. \A t \in Token : ~SepTag(t) => ReadTo(st, t) = st
    BY DEF ReadTo, SepTag
  <1> DEFINE P == {s \in Texts : (\A n \in 1..Len(s) : ~SepTag(s[n])) => ReadFrom(st, s) = st}
  <1>2. <<>> \in P
    BY ReadAppend DEF Texts
  <1>3. ASSUME NEW s \in Texts, NEW t \in Token, s \in P PROVE Append(s, t) \in P
    <2>1. /\ Append(s, t) \in Texts /\ Len(Append(s, t)) = Len(s) + 1 /\ Len(s) \in Nat
          /\ Append(s, t)[Len(s) + 1] = t /\ \A n \in 1..Len(s) : Append(s, t)[n] = s[n]
      BY DEF Texts
    <2>2. ReadFrom(st, Append(s, t)) = ReadTo(ReadFrom(st, s), t)
      BY ReadAppend
    <2>3. ASSUME \A n \in 1..Len(Append(s, t)) : ~SepTag(Append(s, t)[n])
          PROVE  ReadFrom(st, Append(s, t)) = st
      <3>1. ~SepTag(t) /\ \A n \in 1..Len(s) : ~SepTag(s[n])
        BY <2>1, <2>3
      <3> QED BY <1>1, <1>3, <2>2, <3>1
    <2> QED BY <2>1, <2>3
  <1>4. Texts \subseteq P
    <2> HIDE DEF P
    <2> QED BY <1>2, <1>3, ByAppending DEF Texts
  <1> QED BY <1>1, <1>4

-----------------------------------------------------------------------------
(* Simplifying leaves the separators as they are.                            *)

\* Outside of a separator, or behind a tag in it that opens: there a character
\* comes before a tag that closes.
Loose(st) == st.at = 0 \/ SeparatorItem[st.at][1] = "open"

LEMMA InIs ==
  ASSUME NEW st \in Reading, st.is = "kept"
  PROVE  /\ st = In(st.at, st.past) /\ st.at \in 0..Len(SeparatorItem) - 1 /\ st.past \in Nat
         /\ st.at + 1 \in 1..Len(SeparatorItem)
  BY ItemIs DEF Reading, In

LEMMA ReadIn ==
  ASSUME NEW st \in Reading, NEW t \in Token, ReadTo(st, t).is = "kept"
  PROVE  /\ st.is = "kept"
         /\ st.at = 0 => \/ t = Open("sep") /\ ReadTo(st, t) = In(1, st.past)
                         \/ ~SepTag(t) /\ ReadTo(st, t) = st
         /\ st.at # 0 => /\ t = SeparatorItem[st.at + 1] /\ st.at \in 1..Len(SeparatorItem) - 1
                         /\ st.at + 1 \in 2..Len(SeparatorItem)
                         /\ ReadTo(st, t) = IF st.at + 1 = Len(SeparatorItem) THEN In(0, st.past + 1)
                                            ELSE In(st.at + 1, st.past)
  <1>0. Lost.is = "lost" /\ st.is \in {"kept", "lost"} /\ st.at \in 0..Len(SeparatorItem) - 1
          /\ Len(SeparatorItem) \in Nat
    BY ItemIs DEF Lost, Reading
  <1>1. st.is = "kept"
    BY <1>0 DEF ReadTo
  <1>2. CASE st.at = 0
    BY <1>0, <1>1, <1>2 DEF ReadTo, SepTag
  <1>3. CASE st.at # 0
    <2>1. st.at \in 1..Len(SeparatorItem) - 1 /\ st.at + 1 \in 2..Len(SeparatorItem)
      BY <1>0, <1>3
    <2>2. t = SeparatorItem[st.at + 1]
      BY <1>0, <1>1, <1>3 DEF ReadTo
    <2> QED BY <1>1, <1>3, <2>1, <2>2 DEF ReadTo
  <1> QED BY <1>1, <1>2, <1>3

LEMMA LooseStep ==
  ASSUME NEW st \in Reading, Loose(st), NEW t \in Token, IsTag(t), ReadTo(st, t).is = "kept"
  PROVE  Loose(ReadTo(st, t)) /\ (st.at # 0 => ReadTo(st, t).at # 0)
  <1>1. CASE st.at = 0
    <2>1. In(1, st.past).at = 1 /\ SeparatorItem[1][1] = "open"
      BY ItemIs DEF In, Open
    <2> QED BY <1>1, <2>1, ReadIn DEF Loose
  <1>2. CASE st.at # 0
    <2>1. /\ t = SeparatorItem[st.at + 1] /\ st.at \in 1..Len(SeparatorItem) - 1
          /\ st.at + 1 \in 2..Len(SeparatorItem) /\ (st.at + 1) - 1 = st.at
          /\ ReadTo(st, t) = IF st.at + 1 = Len(SeparatorItem) THEN In(0, st.past + 1)
                             ELSE In(st.at + 1, st.past)
      BY <1>2, ReadIn
    <2>2. SeparatorItem[st.at][1] = "open"
      BY <1>2 DEF Loose
    <2>3. t[1] # "close"
      BY <2>1, <2>2, ItemIs
    <2>4. t[1] = "open"
      BY <2>3, TokenIs DEF IsTag, IsChar, Kinds
    <2>5. st.at + 1 # Len(SeparatorItem)
      BY <2>1, <2>4, ItemIs DEF Close
    <2>6. ReadTo(st, t) = In(st.at + 1, st.past)
      BY <2>1, <2>5
    <2>7. ReadTo(st, t).at = st.at + 1
      BY <2>6 DEF In
    <2> QED BY <2>1, <2>4, <2>7 DEF Loose
  <1> QED BY <1>1, <1>2

LEMMA LooseTags ==
  ASSUME NEW st \in Reading, Loose(st)
  PROVE  \A s \in Texts : (\A n \in 1..Len(s) : IsTag(s[n])) /\ ReadFrom(st, s).is = "kept" =>
           Loose(ReadFrom(st, s)) /\ (st.at # 0 => ReadFrom(st, s).at # 0)
  <1> DEFINE Good(s) == (\A n \in 1..Len(s) : IsTag(s[n])) /\ ReadFrom(st, s).is = "kept" =>
                          Loose(ReadFrom(st, s)) /\ (st.at # 0 => ReadFrom(st, s).at # 0)
             P == {s \in Texts : Good(s)}
  <1>1. <<>> \in P
    BY ReadAppend DEF Texts
  <1>2. ASSUME NEW s \in Texts, NEW t \in Token, s \in P PROVE Append(s, t) \in P
    <2>1. /\ Append(s, t) \in Texts /\ Len(Append(s, t)) = Len(s) + 1 /\ Len(s) \in Nat
          /\ Append(s, t)[Len(s) + 1] = t /\ \A n \in 1..Len(s) : Append(s, t)[n] = s[n]
      BY DEF Texts
    <2>2. ReadFrom(st, Append(s, t)) = ReadTo(ReadFrom(st, s), t) /\ ReadFrom(st, s) \in Reading
      BY ReadAppend
    <2>3. ASSUME \A n \in 1..Len(Append(s, t)) : IsTag(Append(s, t)[n]),
                 ReadFrom(st, Append(s, t)).is = "kept"
          PROVE  /\ Loose(ReadFrom(st, Append(s, t)))
                 /\ st.at # 0 => ReadFrom(st, Append(s, t)).at # 0
      <3>1. IsTag(t) /\ \A n \in 1..Len(s) : IsTag(s[n])
        BY <2>1, <2>3
      <3>2. ReadFrom(st, s).is = "kept"
        BY <2>2, <2>3, ReadIn
      <3>3. Loose(ReadFrom(st, s)) /\ (st.at # 0 => ReadFrom(st, s).at # 0)
        BY <1>2, <3>1, <3>2
      <3> QED BY <2>2, <2>3, <3>1, <3>3, LooseStep
    <2> QED BY <2>1, <2>3
  <1>3. Texts \subseteq P
    <2> HIDE DEF P
    <2> QED BY <1>1, <1>2, ByAppending DEF Texts
  <1> QED BY <1>3

\* A tag t that cancels the tag u some tags before it: both are outside of
\* separators.
Cancelling(y, u, b, t) ==
    /\ y \in Reading /\ u \in Token /\ b \in Texts /\ t \in Token /\ IsTag(t) /\ u = anti_tag(t)
    /\ \A n \in 1..Len(b) : IsTag(b[n])
    /\ Cancels(t, FALSE)
    /\ ReadTo(ReadFrom(ReadTo(y, u), b), t).is = "kept"

LEMMA CancelledApart ==
  ASSUME NEW y, NEW u, NEW b, NEW t, Cancelling(y, u, b, t)
  PROVE  ReadFrom(y, b) = ReadTo(ReadFrom(ReadTo(y, u), b), t)
  <1> DEFINE x == ReadTo(y, u)
             z == ReadFrom(x, b)
  <1>0. /\ y \in Reading /\ u \in Token /\ b \in Texts /\ t \in Token /\ IsTag(t) /\ u = anti_tag(t)
        /\ \A n \in 1..Len(b) : IsTag(b[n])
        /\ t[1] = "close" \/ IsFormat(t)
        /\ ReadTo(z, t).is = "kept"
    BY DEF Cancelling, Cancels
  <1>1. x \in Reading /\ z \in Reading /\ z.is = "kept"
    <2>1. x \in Reading
      BY <1>0, ReadType
    <2>2. z \in Reading
      BY <1>0, <2>1, ReadAppend
    <2> QED BY <1>0, <2>1, <2>2, ReadIn
  <1>2. x.is = "kept"
    <2>1. x.is = "lost" => z = x
      BY <1>0, <1>1, ReadLost
    <2> HIDE DEF z
    <2> QED BY <1>1, <2>1 DEF Reading
  <1>3. /\ IsTag(u) /\ IsFormat(u) <=> IsFormat(t)
        /\ t[1] = "close" => t = Close(t[2]) /\ u = Open(t[2]) /\ u[1] = "open"
        /\ SepTag(u) => SepTag(t)
    <2>1. /\ t = Open(t[2]) \/ t = Close(t[2])
          /\ t = Open(t[2]) => u = Close(t[2])
          /\ t = Close(t[2]) => u = Open(t[2])
          /\ IsTag(u) /\ (IsFormat(u) <=> IsFormat(t))
      BY <1>0, TokenIs
    <2>2. t[1] = "close" => t # Open(t[2])
      BY DEF Open
    <2>3. SepTag(u) => SepTag(t)
      BY <2>1, TagsDiffer DEF SepTag
    <2> QED BY <2>1, <2>2, <2>3 DEF Open
  <1> HIDE DEF x, z
  <1>4. ReadTo(y, u).is = "kept" /\ ReadFrom(x, b).is = "kept"
    BY <1>1, <1>2 DEF x, z
  <1>5. y.at # 0 => u[1] = "open" /\ Loose(x) /\ x.at # 0
    <2> SUFFICES ASSUME y.at # 0 PROVE u[1] = "open" /\ Loose(x) /\ x.at # 0
      OBVIOUS
    <2>1. /\ u = SeparatorItem[y.at + 1] /\ y.at \in 1..Len(SeparatorItem) - 1
          /\ y.at + 1 \in 2..Len(SeparatorItem) /\ y.at + 1 \in 1..Len(SeparatorItem)
          /\ x = IF y.at + 1 = Len(SeparatorItem) THEN In(0, y.past + 1) ELSE In(y.at + 1, y.past)
      BY <1>0, <1>4, ReadIn, ItemIs DEF x
    <2>2. u[1] = "open"
      BY <1>0, <1>3, <2>1, ItemIs
    <2>3. y.at + 1 # Len(SeparatorItem)
      BY <2>1, <2>2, ItemIs DEF Close
    <2>4. x.at = y.at + 1
      BY <2>1, <2>3 DEF In
    <2> QED BY <2>1, <2>2, <2>4 DEF Loose
  <1>6. u[1] = "open" => Loose(x)
    <2>1. y.at = 0 => x = y \/ x = In(1, y.past)
      BY <1>0, <1>4, ReadIn DEF x
    <2>2. In(1, y.past).at = 1 /\ SeparatorItem[1][1] = "open"
      BY ItemIs DEF In, Open
    <2> QED BY <1>5, <2>1, <2>2 DEF Loose
  <1>7. Loose(x) => Loose(z) /\ (x.at # 0 => z.at # 0)
    BY <1>0, <1>1, <1>4, LooseTags DEF z
  <1>8. z.at = 0
    <2> SUFFICES ASSUME z.at # 0 PROVE FALSE
      OBVIOUS
    <2>1. /\ t = SeparatorItem[z.at + 1] /\ z.at \in 1..Len(SeparatorItem) - 1
          /\ z.at + 1 \in 2..Len(SeparatorItem) /\ z.at + 1 \in 1..Len(SeparatorItem) /\ (z.at + 1) - 1 = z.at
      BY <1>0, <1>1, ReadIn, ItemIs
    <2>2. t[1] = "close"
      BY <1>0, <2>1, ItemIs
    <2>3. SeparatorItem[z.at][1] = "open"
      BY <1>3, <1>6, <1>7, <2>2 DEF Loose
    <2> QED BY <2>1, <2>2, <2>3, ItemIs
  <1>9. y.at = 0
    BY <1>5, <1>7, <1>8
  <1>10. ~SepTag(t) /\ ReadTo(z, t) = z
    <2>1. t # Open("sep")
      BY <1>0 DEF Open, IsFormat, Formats
    <2> QED BY <1>0, <1>1, <1>8, <2>1, ReadIn
  <1>11. x = y
    BY <1>0, <1>3, <1>9, <1>10, ReadOther DEF x
  <1> QED BY <1>10, <1>11 DEF x, z

MergedReading(s, done) ==
    /\ Read(done.ret \o done.waiting) = Read(s)
    /\ \A n \in 1..Len(done.waiting) : IsTag(done.waiting[n])

LEMMA MergedReadingTag ==
  ASSUME NEW s \in Texts, NEW t \in Token, NEW done \in Doing, IsTag(t),
         MergedReading(s, done), Read(Append(s, t)).is = "kept"
  PROVE  MergedReading(Append(s, t), Merge(done, t, FALSE))
  <1> DEFINE w == done.waiting
             v == add_or_cancel_tag(t, w, FALSE)
             m == Merge(done, t, FALSE)
  <1>1. w \in Texts /\ done.ret \in Texts
    BY DEF Doing
  <1>2. m.ret = done.ret /\ m.waiting = v
    <2>1. m = [ret |-> done.ret, waiting |-> v]
      BY DEF Merge, Doing
    <2> HIDE DEF m
    <2> QED BY <2>1
  <1>3. \/ \E a, b \in Texts : /\ w = Append(a, anti_tag(t)) \o b /\ v = a \o b
                               /\ Cancels(t, FALSE)
        \/ v = Append(w, t)
    BY <1>1, Cancelled
  <1>4. Read(Append(s, t)) = ReadTo(Read(s), t) /\ Read(s) \in Reading
    BY ReadBegins
  <1>5. Read(done.ret \o w) = Read(s) /\ \A n \in 1..Len(w) : IsTag(w[n])
    BY DEF MergedReading
  <1>6. SUFFICES Read(done.ret \o v) = Read(Append(s, t)) /\ \A n \in 1..Len(v) : IsTag(v[n])
    <2> HIDE DEF m, v
    <2> QED BY <1>2 DEF MergedReading, m
  <1> HIDE DEF w, v, m
  <1>7. CASE v = Append(w, t)
    <2>1. done.ret \o v = Append(done.ret \o w, t) /\ done.ret \o w \in Texts
      <3>1. done.ret \o w \in Texts
        BY <1>1, Joining
      <3>2. done.ret \o Append(w, t) = Append(done.ret \o w, t)
        BY <1>1, JoinLast
      <3> QED BY <1>7, <3>1, <3>2
    <2>2. Read(done.ret \o v) = Read(Append(s, t))
      BY <1>4, <1>5, <2>1, ReadBegins
    <2>3. ASSUME NEW n \in 1..Len(v) PROVE IsTag(v[n])
      BY <1>1, <1>5, <1>7 DEF Texts
    <2> QED BY <2>2, <2>3
  <1>8. CASE \E a, b \in Texts : /\ w = Append(a, anti_tag(t)) \o b /\ v = a \o b
                                 /\ Cancels(t, FALSE)
    <2>1. PICK a, b \in Texts : /\ w = Append(a, anti_tag(t)) \o b /\ v = a \o b
                                /\ Cancels(t, FALSE)
      BY <1>8
    <2> DEFINE u == anti_tag(t)
               c == done.ret \o a
    <2>2. u \in Token
      BY TokenIs
    <2>3. /\ done.ret \o w = Append(c, u) \o b /\ done.ret \o v = c \o b
          /\ c \in Texts /\ Append(c, u) \in Texts
      <3>1. c \in Texts /\ c = done.ret \o a
        BY <1>1, Joining
      <3>2. Append(a, u) \in Texts /\ Append(c, u) \in Texts
        BY <2>2, <3>1, Joining
      <3>3. Append(c, u) = done.ret \o Append(a, u)
        BY <1>1, <2>2, JoinLast
      <3>4. done.ret \o (Append(a, u) \o b) = (done.ret \o Append(a, u)) \o b
        BY <1>1, <3>2, JoinThree
      <3>5. done.ret \o (a \o b) = (done.ret \o a) \o b
        BY <1>1, JoinThree
      <3> QED BY <2>1, <3>1, <3>2, <3>3, <3>4, <3>5
    <2>4. /\ \A n \in 1..Len(a) : IsTag(a[n])
          /\ \A n \in 1..Len(b) : IsTag(b[n])
      <3>1. /\ Len(a) \in Nat /\ Len(b) \in Nat /\ Len(w) = Len(a) + 1 + Len(b)
            /\ \A n \in 1..Len(a) : w[n] = a[n]
            /\ \A n \in 1..Len(b) : w[Len(a) + 1 + n] = b[n]
        <4> DEFINE d == Append(a, u)
        <4>1. /\ d \in Seq(Token) /\ Len(d) = Len(a) + 1 /\ Len(a) \in Nat
              /\ \A n \in 1..Len(a) : d[n] = a[n]
          BY <2>2 DEF Texts
        <4>2. b \in Seq(Token) /\ Len(b) \in Nat
          BY DEF Texts
        <4>3. w = d \o b
          BY <2>1
        <4> HIDE DEF d
        <4>4. /\ Len(w) = Len(d) + Len(b)
              /\ \A n \in 1..Len(d) + Len(b) : w[n] = IF n <= Len(d) THEN d[n] ELSE b[n - Len(d)]
          BY <4>1, <4>2, <4>3, ConcatProperties
        <4> QED BY <4>1, <4>2, <4>4
      <3>2. ASSUME NEW n \in 1..Len(a) PROVE IsTag(a[n])
        BY <1>5, <3>1
      <3>3. ASSUME NEW n \in 1..Len(b) PROVE IsTag(b[n])
        <4>1. Len(a) + 1 + n \in 1..Len(w)
          BY <3>1
        <4> QED BY <1>5, <3>1, <4>1
      <3> QED BY <3>2, <3>3
    <2> HIDE DEF c
    <2>5. /\ Read(c) \in Reading /\ Read(s) = ReadFrom(ReadTo(Read(c), u), b)
          /\ Read(done.ret \o v) = ReadFrom(Read(c), b)
      BY <1>5, <2>2, <2>3, ReadBegins
    <2>6. Cancelling(Read(c), u, b, t)
      BY <1>4, <2>1, <2>2, <2>4, <2>5 DEF Cancelling
    <2>7. Read(done.ret \o v) = Read(Append(s, t))
      BY <1>4, <2>5, <2>6, CancelledApart
    <2>8. ASSUME NEW n \in 1..Len(v) PROVE IsTag(v[n])
      <3>1. a \in Seq(Token) /\ b \in Seq(Token)
        BY DEF Texts
      <3>2. /\ Len(v) = Len(a) + Len(b) /\ Len(a) \in Nat /\ Len(b) \in Nat
            /\ \A k \in 1..Len(a) + Len(b) : v[k] = IF k <= Len(a) THEN a[k] ELSE b[k - Len(a)]
        BY <2>1, <3>1, ConcatProperties
      <3> QED BY <2>4, <3>2
    <2> QED BY <2>7, <2>8
  <1> QED BY <1>3, <1>7, <1>8

LEMMA MergedReadingChar ==
  ASSUME NEW s \in Texts, NEW t \in Token, NEW done \in Doing, ~IsTag(t), MergedReading(s, done)
  PROVE  MergedReading(Append(s, t), Merge(done, t, FALSE))
  <1> DEFINE r == done.ret \o done.waiting
             m == Merge(done, t, FALSE)
  <1>1. r \in Texts /\ Append(r, t) \in Texts /\ Append(r, t) \o <<>> = Append(r, t)
    BY DEF Doing, Texts
  <1>2. m.ret = Append(r, t) /\ m.waiting = <<>>
    <2>1. m = [ret |-> Append(r, t), waiting |-> <<>>]
      BY DEF Merge
    <2> HIDE DEF m
    <2> QED BY <2>1
  <1>3. Read(r) = Read(s)
    BY DEF MergedReading
  <1> HIDE DEF r, m
  <1>4. Read(Append(r, t)) = Read(Append(s, t))
    BY <1>1, <1>3, ReadBegins
  <1>5. MergedReading(Append(s, t), m)
    BY <1>1, <1>2, <1>4 DEF MergedReading
  <1> QED BY <1>5 DEF m

LEMMA MergeKeepsReading ==
  ASSUME NEW s \in Texts, Read(s).is = "kept"
  PROVE  simplify_tagged_merge(s, FALSE) \in Texts /\ Read(simplify_tagged_merge(s, FALSE)) = Read(s)
  <1> DEFINE P == {u \in Texts : Read(u).is = "kept" => MergedReading(u, Merged(u, FALSE))}
  <1>1. <<>> \in P
    <2>1. <<>> \in Texts /\ <<>> \o <<>> = <<>> /\ Len(<<>>) = 0
      BY DEF Texts
    <2>2. Merged(<<>>, FALSE) = Blank
      BY MergeAppend
    <2>3. MergedReading(<<>>, Blank)
      BY <2>1 DEF MergedReading, Blank
    <2> QED BY <2>1, <2>2, <2>3
  <1>2. ASSUME NEW u \in Texts, NEW t \in Token, u \in P PROVE Append(u, t) \in P
    <2>1. Append(u, t) \in Texts
      BY DEF Texts
    <2>2. ASSUME Read(Append(u, t)).is = "kept"
          PROVE  MergedReading(Append(u, t), Merged(Append(u, t), FALSE))
      <3>1. Read(u).is = "kept"
        BY <2>2, ReadBegins, ReadIn
      <3>2. MergedReading(u, Merged(u, FALSE))
        BY <1>2, <3>1
      <3>3. Merged(Append(u, t), FALSE) = Merge(Merged(u, FALSE), t, FALSE) /\ Merged(u, FALSE) \in Doing
        BY MergeAppend
      <3> QED BY <2>2, <3>2, <3>3, MergedReadingTag, MergedReadingChar
    <2> QED BY <2>1, <2>2
  <1>3. Texts \subseteq P
    <2> HIDE DEF P
    <2> QED BY <1>1, <1>2, ByAppending DEF Texts
  <1> DEFINE done == Merged(s, FALSE)
  <1>4. MergedReading(s, done)
    BY <1>3
  <1>5. done \in Doing
    BY MergeAppend
  <1> HIDE DEF done
  <1>6. done.ret \o done.waiting \in Texts
    BY <1>5 DEF Doing, Texts
  <1>7. simplify_tagged_merge(s, FALSE) = done.ret \o done.waiting
    BY MergeIs DEF Written, done
  <1> QED BY <1>4, <1>6, <1>7 DEF MergedReading

LEMMA ReadFormat ==
  ASSUME NEW st \in Reading, NEW t \in Token, IsFormat(t), ReadTo(st, t).is = "kept" \/ st.at = 0
  PROVE  ReadTo(st, t) = st
  <1>1. ~SepTag(t)
    BY DEF IsFormat, Formats, SepTag, Open, Close
  <1>2. st.at = 0
    <2> SUFFICES ASSUME st.at # 0 PROVE FALSE
      OBVIOUS
    <2>1. t = SeparatorItem[st.at + 1] /\ st.at + 1 \in 2..Len(SeparatorItem)
      BY ReadIn
    <2> QED BY <2>1, ItemIs
  <1> QED BY <1>1, <1>2, ReadOther

LEMMA OverlapKeepsReading ==
  ASSUME NEW s \in Texts, Read(s).is = "kept"
  PROVE  simplify_tagged_overlap(s) \in Texts /\ Read(simplify_tagged_overlap(s)) = Read(s)
  <1> DEFINE P == {u \in Texts : Read(u).is = "kept" => Read(Overlapped(u).ret) = Read(u)}
  <1>1. <<>> \in P
    <2>1. Overlapped(<<>>) = Nothing
      BY OverlapAppend
    <2> QED BY <2>1 DEF Nothing, Texts
  <1>2. ASSUME NEW u \in Texts, NEW t \in Token, u \in P PROVE Append(u, t) \in P
    <2> DEFINE done == Overlapped(u)
               m == Overlap(done, t)
    <2>1. Append(u, t) \in Texts
      BY DEF Texts
    <2>2. done \in Overlapping /\ Overlapped(Append(u, t)) = m /\ done.ret \in Texts
      BY OverlapAppend DEF Overlapping
    <2>3. Read(Append(u, t)) = ReadTo(Read(u), t) /\ Read(u) \in Reading
      BY ReadBegins
    <2>4. SUFFICES ASSUME Read(Append(u, t)).is = "kept" PROVE Read(m.ret) = Read(Append(u, t))
      BY <2>1, <2>2
    <2>5. Read(u).is = "kept"
      BY <2>3, <2>4, ReadIn
    <2>6. Read(done.ret) = Read(u)
      BY <1>2, <2>5
    <2> HIDE DEF done
    <2>7. \/ m.ret = Append(done.ret, t)
          \/ m.ret = done.ret /\ IsFormat(t)
      <3>1. CASE IsFormat(t)
        <4> DEFINE v == add_or_cancel_tag(t, done.open_tags, TRUE)
        <4>1. m = OverlapFormat(done, t, v)
          BY <3>1 DEF Overlap
        <4> HIDE DEF m, v
        <4> QED BY <3>1, <4>1 DEF OverlapFormat
      <3>2. CASE ~IsFormat(t)
        <4>1. m = [done EXCEPT !.ret = Append(@, t)]
          BY <3>2 DEF Overlap
        <4> HIDE DEF m
        <4> QED BY <2>2, <4>1 DEF Overlapping
      <3> QED BY <3>1, <3>2
    <2> HIDE DEF m
    <2>8. CASE m.ret = Append(done.ret, t)
      BY <2>2, <2>3, <2>6, <2>8, ReadBegins
    <2>9. CASE m.ret = done.ret /\ IsFormat(t)
      BY <2>3, <2>4, <2>6, <2>9, ReadFormat
    <2> QED BY <2>7, <2>8, <2>9
  <1>3. Texts \subseteq P
    <2> HIDE DEF P
    <2> QED BY <1>1, <1>2, ByAppending DEF Texts
  <1>4. Overlapped(s).ret \in Texts
    BY OverlapAppend DEF Overlapping
  <1> QED BY <1>3, <1>4, OverlapIs

LEMMA SimplifiedReading ==
  ASSUME NEW s \in Texts, Read(s).is = "kept"
  PROVE  simplify_tagged(s) \in Texts /\ Read(simplify_tagged(s)) = Read(s)
  BY MergeKeepsReading, OverlapKeepsReading DEF simplify_tagged

-----------------------------------------------------------------------------
(* A separator is read where the blocks have one.                            *)

ReadAt(s, n) == Read(Sub(s, 0, n))

LEMMA ReadPlaces ==
  ASSUME NEW s \in Texts
  PROVE  /\ ReadAt(s, 0) = In(0, 0) /\ ReadAt(s, Len(s)) = Read(s)
         /\ \A n \in 0..Len(s) : ReadAt(s, n) \in Reading
         /\ \A n \in 0..Len(s) - 1 : ReadAt(s, n + 1) = ReadTo(ReadAt(s, n), s[n + 1])
         /\ \A a, b \in 0..Len(s) : a <= b => ReadAt(s, b) = ReadFrom(ReadAt(s, a), Sub(s, a, b))
  <1>1. /\ Sub(s, 0, Len(s)) = s /\ Sub(s, 0, 0) = <<>> /\ Len(s) \in Nat
        /\ \A n \in 0..Len(s) - 1 : Sub(s, 0, n + 1) = Append(Sub(s, 0, n), s[n + 1])
        /\ \A n \in 0..Len(s) : Sub(s, 0, n) \in Texts
        /\ \A n \in 1..Len(s) : s[n] \in Token
    BY CutAll
  <1>2. ASSUME NEW n \in 0..Len(s) - 1 PROVE ReadAt(s, n + 1) = ReadTo(ReadAt(s, n), s[n + 1])
    <2>1. Sub(s, 0, n) \in Texts /\ s[n + 1] \in Token
      BY <1>1
    <2> QED BY <1>1, <2>1, ReadBegins DEF ReadAt
  <1>3. ASSUME NEW a \in 0..Len(s), NEW b \in 0..Len(s), a <= b
        PROVE  ReadAt(s, b) = ReadFrom(ReadAt(s, a), Sub(s, a, b))
    BY <1>1, <1>3, Cut, SubIs, ReadBegins DEF ReadAt
  <1> QED BY <1>1, <1>2, <1>3, ReadBegins DEF ReadAt

LEMMA KeptAt ==
  ASSUME NEW s \in Texts, Read(s).is = "kept", NEW n \in 0..Len(s)
  PROVE  ReadAt(s, n).is = "kept" /\ ReadAt(s, n) \in Reading
  <1>1. ReadAt(s, n) \in Reading /\ Len(s) \in 0..Len(s) /\ n <= Len(s)
    BY ReadPlaces, CutAll
  <1>2. Read(s) = ReadFrom(ReadAt(s, n), Sub(s, n, Len(s))) /\ Sub(s, n, Len(s)) \in Texts
    BY <1>1, ReadPlaces, SubIs
  <1>3. ReadAt(s, n).is = "lost" => Read(s) = ReadAt(s, n)
    BY <1>1, <1>2, ReadLost
  <1> QED BY <1>1, <1>3 DEF Reading

\* In a separator, of which some was read.
Agrees(u) == Scan(u).at # "broken" /\ Read(u).is = "kept" =>
               (Read(u).at # 0 <=> InBlock(Scan(u), "sep") = 1)

LEMMA AgreesStep ==
  ASSUME NEW u \in Texts, NEW t \in Token, Agrees(u)
  PROVE  Agrees(Append(u, t))
  <1> DEFINE st == Scan(u)
             rd == Read(u)
  <1>1. /\ Tidy(st) /\ rd \in Reading
        /\ Scan(Append(u, t)) = ScanTo(st, t) /\ Read(Append(u, t)) = ReadTo(rd, t)
    BY OutsideTidy, ScanBegins, ReadBegins
  <1>2. SUFFICES ASSUME ScanTo(st, t).at # "broken", ReadTo(rd, t).is = "kept"
                 PROVE  ReadTo(rd, t).at # 0 <=> InBlock(ScanTo(st, t), "sep") = 1
    BY <1>1 DEF Agrees
  <1>3. st.at \in {"outside", "empty", "filled"} /\ rd.is = "kept"
    BY <1>1, <1>2, ScanBroken, ReadIn DEF Tidy, Scanning
  <1>4. rd.at # 0 <=> InBlock(st, "sep") = 1
    BY <1>3 DEF Agrees
  <1> HIDE DEF st, rd
  <1>5. /\ OpensBlock(Open("sep")) /\ ~OpensBlock(Close("sep")) /\ IsBlockTag(Open("sep")) /\ IsBlockTag(Close("sep"))
        /\ ~IsChar(Open("sep")) /\ ~IsChar(Close("sep"))
    BY DEF OpensBlock, IsBlockTag, IsTag, IsChar, Open, Close, Blocks
  <1>6. CASE st.at = "outside"
    <2>1. rd.at = 0
      BY <1>4, <1>6 DEF InBlock
    <2>2. \/ t = Open("sep") /\ ReadTo(rd, t) = In(1, rd.past)
          \/ ~SepTag(t) /\ ReadTo(rd, t) = rd
      BY <1>1, <1>2, <2>1, ReadIn
    <2>3. CASE t = Open("sep")
      <3>1. OpensBlock(t) /\ t[2] = "sep" /\ ReadTo(rd, t).at = 1
        BY <1>5, <2>2, <2>3 DEF SepTag, In, Open
      <3>2. ScanTo(st, t).at = "empty" /\ ScanTo(st, t).of = "sep"
        BY <1>1, <1>2, <1>5, <1>6, <2>3, <3>1, OutsideStep
      <3> QED BY <3>1, <3>2 DEF InBlock
    <2>4. CASE t # Open("sep")
      <3>1. ReadTo(rd, t).at = 0 /\ ~SepTag(t)
        BY <2>1, <2>2, <2>4
      <3>2. OpensBlock(t) => t[2] # "sep"
        BY <2>4, TokenIs DEF OpensBlock, Open
      <3>3. ScanTo(st, t).at = "outside" \/ ScanTo(st, t).of # "sep"
        BY <1>1, <1>2, <1>6, <3>2, OutsideStep
      <3> QED BY <3>1, <3>3 DEF InBlock
    <2> QED BY <2>3, <2>4
  <1>7. CASE st.at # "outside"
    <2>1. /\ st.at \in {"empty", "filled"} /\ ~OpensBlock(t)
          /\ \/ ScanTo(st, t).at = "outside" /\ t = Close(st.of) /\ IsBlockTag(t)
             \/ ScanTo(st, t).at \in {"empty", "filled"} /\ ScanTo(st, t).of = st.of /\ ~IsBlockTag(t)
      BY <1>1, <1>2, <1>3, <1>7, InsideStep
    <2>2. CASE st.of = "sep"
      <3>1. rd.at # 0
        BY <1>4, <2>1, <2>2 DEF InBlock
      <3>2. /\ t = SeparatorItem[rd.at + 1] /\ rd.at \in 1..Len(SeparatorItem) - 1
            /\ rd.at + 1 \in 2..Len(SeparatorItem)
            /\ ReadTo(rd, t) = IF rd.at + 1 = Len(SeparatorItem) THEN In(0, rd.past + 1)
                               ELSE In(rd.at + 1, rd.past)
        BY <1>1, <1>2, <3>1, ReadIn
      <3>3. rd.at + 1 = Len(SeparatorItem) <=> IsBlockTag(t)
        BY <1>5, <3>2, ItemIs
      <3>4. ReadTo(rd, t).at = 0 <=> IsBlockTag(t)
        BY <3>2, <3>3 DEF In
      <3> QED BY <2>1, <2>2, <3>4 DEF InBlock
    <2>3. CASE st.of # "sep"
      <3>1. rd.at = 0
        BY <1>4, <2>3 DEF InBlock
      <3>2. t # Open("sep")
        BY <1>5, <2>1
      <3>3. ReadTo(rd, t).at = 0
        BY <1>1, <1>2, <3>1, <3>2, ReadIn
      <3> QED BY <2>1, <2>3, <3>3 DEF InBlock
    <2> QED BY <2>2, <2>3
  <1> QED BY <1>6, <1>7

LEMMA AllAgree == \A u \in Texts : Agrees(u)
  <1> DEFINE P == {u \in Texts : Agrees(u)}
  <1>1. <<>> \in P
    <2>1. In(0, 0).at = 0 /\ InBlock(Outside(0), "sep") = 0
      BY DEF In, InBlock, Outside
    <2> QED BY <2>1, ReadBegins, ScanBegins DEF Agrees, Texts
  <1>2. ASSUME NEW u \in Texts, NEW t \in Token, u \in P PROVE Append(u, t) \in P
    BY <1>2, AgreesStep DEF Texts
  <1>3. Texts \subseteq P
    <2> HIDE DEF P
    <2> QED BY <1>1, <1>2, ByAppending DEF Texts
  <1> QED BY <1>3

\* Outside of blocks nothing of a separator is open.
LEMMA ReadOut ==
  ASSUME NEW s, Whole(s), Read(s).is = "kept", NEW n \in 0..Len(s)
  PROVE  /\ Out(s, n) => ReadAt(s, n).at = 0
         /\ ReadAt(s, n).at = 0 /\ ~Out(s, n) => ScanAt(s, n).of # "sep"
         /\ ReadAt(s, n).is = "kept" /\ ReadAt(s, n) \in Reading
  <1>1. s \in Texts /\ Sub(s, 0, n) \in Texts
    BY CutAll DEF Whole
  <1>2. ReadAt(s, n).is = "kept" /\ ReadAt(s, n) \in Reading
    BY <1>1, KeptAt
  <1>3. ScanAt(s, n).at \in {"outside", "empty", "filled"}
    BY NotBroken
  <1>4. ReadAt(s, n).at # 0 <=> InBlock(ScanAt(s, n), "sep") = 1
    BY <1>1, <1>2, <1>3, AllAgree DEF Agrees, ScanAt, ReadAt
  <1> QED BY <1>2, <1>3, <1>4 DEF InBlock, Out

LEMMA ReadQuiet ==
  ASSUME NEW st \in Reading, st.at = 0
  PROVE  \A m \in Texts : (\A n \in 1..Len(m) : m[n] # Open("sep")) /\ ReadFrom(st, m).is = "kept"
                             => ReadFrom(st, m) = st
  <1> DEFINE P == {m \in Texts : (\A n \in 1..Len(m) : m[n] # Open("sep")) /\ ReadFrom(st, m).is = "kept"
                                    => ReadFrom(st, m) = st}
  <1>1. <<>> \in P
    BY ReadAppend DEF Texts
  <1>2. ASSUME NEW m \in Texts, NEW t \in Token, m \in P PROVE Append(m, t) \in P
    <2>1. /\ Append(m, t) \in Texts /\ Len(Append(m, t)) = Len(m) + 1 /\ Len(m) \in Nat
          /\ Append(m, t)[Len(m) + 1] = t /\ \A n \in 1..Len(m) : Append(m, t)[n] = m[n]
      BY DEF Texts
    <2>2. ReadFrom(st, Append(m, t)) = ReadTo(ReadFrom(st, m), t) /\ ReadFrom(st, m) \in Reading
      BY ReadAppend
    <2>3. ASSUME \A n \in 1..Len(Append(m, t)) : Append(m, t)[n] # Open("sep"),
                 ReadFrom(st, Append(m, t)).is = "kept"
          PROVE  ReadFrom(st, Append(m, t)) = st
      <3>1. t # Open("sep") /\ \A n \in 1..Len(m) : m[n] # Open("sep")
        BY <2>1, <2>3
      <3>2. ReadFrom(st, m).is = "kept"
        BY <2>2, <2>3, ReadIn
      <3>3. ReadFrom(st, m) = st
        BY <1>2, <3>1, <3>2
      <3> QED BY <2>2, <2>3, <3>1, <3>3, ReadIn
    <2> QED BY <2>1, <2>3
  <1>3. Texts \subseteq P
    <2> HIDE DEF P
    <2> QED BY <1>1, <1>2, ByAppending DEF Texts
  <1> QED BY <1>3

-----------------------------------------------------------------------------
(* Edits leave the separators as they are.                                   *)

\* No separator begins between two places.
Clear(s, a, b) == \A p \in SepsOf(s) : ~(a <= p /\ p < b)

LEMMA FrameIs ==
  ASSUME NEW s, Framed(s)
  PROVE  Read(s).is = "kept" /\ Read(s).at = 0 /\ Read(s).past = Parts - 1
  BY DEF Framed, In

LEMMA FrameMiddle ==
  ASSUME NEW s, Whole(s), Framed(s), NEW a \in 0..Len(s), NEW b \in 0..Len(s), a <= b,
         Out(s, a), Out(s, b), Clear(s, a, b)
  PROVE  /\ Sub(s, 0, a) \in Texts /\ Sub(s, a, b) \in Texts /\ Sub(s, b, Len(s)) \in Texts
         /\ Read(Sub(s, 0, a)) \in Reading /\ Read(Sub(s, 0, a)).at = 0
         /\ ReadFrom(Read(Sub(s, 0, a)), Sub(s, a, b)) = Read(Sub(s, 0, a))
         /\ ReadFrom(Read(Sub(s, 0, a)), Sub(s, b, Len(s))) = Read(s)
  <1> DEFINE m == Sub(s, a, b)
             st == ReadAt(s, a)
  <1>1. s \in Texts /\ Read(s).is = "kept" /\ Len(s) \in Nat /\ Len(s) \in 0..Len(s) /\ b <= Len(s)
    BY FrameIs, CutAll DEF Whole
  <1>2. /\ Sub(s, 0, a) \in Texts /\ m \in Texts /\ Sub(s, b, Len(s)) \in Texts
        /\ Len(m) = b - a /\ \A i \in 1..b - a : m[i] = s[a + i]
    BY <1>1, SubIs, CutAll
  <1>3. st \in Reading /\ st.at = 0 /\ ReadAt(s, b).is = "kept"
    BY <1>1, ReadOut
  <1>4. ReadAt(s, b) = ReadFrom(st, m) /\ Read(s) = ReadFrom(ReadAt(s, b), Sub(s, b, Len(s)))
    BY <1>1, ReadPlaces
  <1>5. ASSUME NEW n \in 1..Len(m) PROVE m[n] # Open("sep")
    <2> SUFFICES ASSUME m[n] = Open("sep") PROVE FALSE
      OBVIOUS
    <2>1. a + n - 1 \in Positions(s) /\ a <= a + n - 1 /\ a + n - 1 < b /\ (a + n - 1) + 1 = a + n
      BY <1>1, <1>2 DEF Positions
    <2>2. a + n - 1 \in SepsOf(s)
      BY <1>2, <2>1 DEF SepsOf, At
    <2> QED BY <2>1, <2>2 DEF Clear
  <1> HIDE DEF m, st
  <1>6. ReadFrom(st, m) = st
    BY <1>2, <1>3, <1>4, <1>5, ReadQuiet
  <1> QED BY <1>2, <1>3, <1>4, <1>6 DEF m, st, ReadAt

LEMMA InertQuiet ==
  ASSUME NEW t \in Token, ~IsBlockTag(t)
  PROVE  ~SepTag(t)
  BY DEF SepTag, IsBlockTag, IsTag, IsChar, Open, Close, Blocks

Blockless(u) == u \in Texts /\ \A n \in 1..Len(u) : ~IsBlockTag(u[n])

LEMMA ReplacedReading ==
  ASSUME NEW p \in Texts, NEW q \in Texts, NEW cl, NEW rep, NEW op,
         Read(p).at = 0, Blockless(cl), Blockless(rep), Blockless(op)
  PROVE  /\ Around(p, cl, rep, op, q) \in Texts
         /\ Read(Around(p, cl, rep, op, q)) = ReadFrom(Read(p), q)
  <1> DEFINE a == p \o cl
             b == a \o rep
             c == b \o op
  <1>0. cl \in Texts /\ rep \in Texts /\ op \in Texts
    BY DEF Blockless
  <1>1. a \in Texts
    BY <1>0, Joined
  <1>2. b \in Texts
    BY <1>0, <1>1, Joined
  <1>3. c \in Texts
    BY <1>0, <1>2, Joined
  <1>4. ASSUME NEW u, Blockless(u) PROVE ReadFrom(Read(p), u) = Read(p)
    <2>1. u \in Texts /\ \A n \in 1..Len(u) : ~SepTag(u[n])
      BY <1>4, InertQuiet DEF Texts, Blockless
    <2> QED BY <2>1, ReadOther, ReadBegins
  <1>5. Read(a) = Read(p)
    BY <1>0, <1>4, ReadBegins
  <1> HIDE DEF a
  <1>6. Read(b) = Read(p)
    BY <1>0, <1>1, <1>4, <1>5, ReadBegins
  <1> HIDE DEF b
  <1>7. Read(c) = Read(p)
    BY <1>0, <1>2, <1>4, <1>6, ReadBegins
  <1> HIDE DEF c
  <1>8. c \o q \in Texts /\ Read(c \o q) = ReadFrom(Read(p), q)
    BY <1>3, <1>7, ReadBegins, Joined
  <1> QED BY <1>8 DEF Around, a, b, c

LEMMA FrameReplaced ==
  ASSUME NEW s, Whole(s), Framed(s), NEW a \in 0..Len(s), NEW b \in 0..Len(s), a <= b,
         Out(s, a), Out(s, b), Clear(s, a, b),
         NEW rep \in Texts, \A n \in 1..Len(rep) : ~IsBlockTag(rep[n])
  PROVE  Framed(tagged_substr_replace(s, a, b, rep))
  <1> DEFINE p == Sub(s, 0, a)
             m == Sub(s, a, b)
             q == Sub(s, b, Len(s))
             c == simplify_tagged_merge(get_tags(m, {"open", "close"}), TRUE)
             cl == get_tags(c, {"close"})
             op == get_tags(c, {"open"})
             r == Around(p, cl, rep, op, q)
  <1>1. /\ p \in Texts /\ m \in Texts /\ q \in Texts
        /\ Read(p) \in Reading /\ Read(p).at = 0 /\ ReadFrom(Read(p), q) = Read(s)
    BY FrameMiddle
  <1>2. \A x \in Blocks : Net(m, x) = 0
    <2> SUFFICES ASSUME NEW x \in Blocks PROVE Net(m, x) = 0
      OBVIOUS
    <2>1. ScanAt(s, b) = ScanFrom(ScanAt(s, a), m)
      BY <1>1, Cut, ScanBegins DEF ScanAt, Whole
    <2>2. Tidy(ScanAt(s, a)) /\ ScanAt(s, a).at = "outside" /\ ScanAt(s, b).at = "outside"
      BY PlaceSteps DEF Out, Whole
    <2>3. InBlock(ScanAt(s, b), x) = 0
      BY <2>2 DEF InBlock
    <2> HIDE DEF m
    <2>4. ScanFrom(ScanAt(s, a), m).at # "broken"
      BY <2>1, <2>2
    <2> QED BY <1>1, <2>1, <2>2, <2>3, <2>4, BlockOpen
  <1>3. /\ cl \in Texts /\ op \in Texts
        /\ \A n \in 1..Len(cl) : Inert(cl[n])
        /\ \A n \in 1..Len(op) : Inert(op[n])
    BY <1>1, <1>2, Gathered
  <1>4. tagged_substr_replace(s, a, b, rep) = simplify_tagged((p \o ((cl \o rep) \o op)) \o q)
    BY DEF tagged_substr_replace
  <1> HIDE DEF c, cl, op, p, m, q
  <1>5. (p \o ((cl \o rep) \o op)) \o q = r
    <2>0. p \in Texts /\ cl \in Texts /\ op \in Texts
      BY <1>1, <1>3
    <2>1. cl \o rep \in Texts /\ p \o cl \in Texts
      BY <2>0, Joined
    <2>2. p \o ((cl \o rep) \o op) = (p \o (cl \o rep)) \o op
      BY <2>0, <2>1, JoinThree
    <2>3. p \o (cl \o rep) = (p \o cl) \o rep
      BY <2>0, JoinThree
    <2> QED BY <2>2, <2>3 DEF Around
  <1>6. r \in Texts /\ Read(r) = Read(s)
    <2>1. Blockless(cl) /\ Blockless(rep) /\ Blockless(op)
      BY <1>3 DEF Inert, Blockless
    <2>2. p \in Texts /\ q \in Texts /\ Read(p).at = 0
      BY <1>1
    <2>3. r \in Texts /\ Read(r) = ReadFrom(Read(p), q)
      BY <2>1, <2>2, ReplacedReading
    <2> QED BY <1>1, <2>3
  <1> HIDE DEF r
  <1>7. Read(r).is = "kept" /\ Read(r) = In(0, Parts - 1)
    BY <1>6, FrameIs DEF Framed
  <1> QED BY <1>4, <1>5, <1>6, <1>7, SimplifiedReading DEF Framed

LEMMA FrameFormat ==
  ASSUME NEW s, Whole(s), Framed(s), NEW a \in 0..Len(s), NEW b \in 0..Len(s), a <= b,
         Out(s, a), Out(s, b), Clear(s, a, b), NEW u \in Token, IsFormat(u)
  PROVE  Framed(Sub(s, 0, a) \o <<u>> \o Sub(s, a, b) \o <<anti_tag(u)>> \o Sub(s, b, Len(s)))
  <1> DEFINE p == Sub(s, 0, a)
             m == Sub(s, a, b)
             q == Sub(s, b, Len(s))
             c == Append(p, u)
             d == c \o m
             e == Append(d, anti_tag(u))
  <1>1. /\ p \in Texts /\ m \in Texts /\ q \in Texts
        /\ Read(p) \in Reading /\ Read(p).at = 0
        /\ ReadFrom(Read(p), m) = Read(p) /\ ReadFrom(Read(p), q) = Read(s)
    BY FrameMiddle
  <1>2. anti_tag(u) \in Token /\ IsFormat(anti_tag(u))
    BY TokenIs DEF IsFormat
  <1> HIDE DEF p, m, q
  <1>3. c \in Texts /\ c = p \o <<u>> /\ Read(c) = Read(p)
    BY <1>1, Joining, ReadFormat, ReadBegins
  <1> HIDE DEF c
  <1>4. d \in Texts /\ Read(d) = Read(p)
    BY <1>1, <1>3, Joined, ReadBegins
  <1> HIDE DEF d
  <1>5. e \in Texts /\ e = d \o <<anti_tag(u)>> /\ Read(e) = Read(p)
    BY <1>1, <1>2, <1>4, Joining, ReadFormat, ReadBegins
  <1> HIDE DEF e
  <1>6. Read(e \o q) = Read(s)
    BY <1>1, <1>5, ReadBegins
  <1>7. p \o <<u>> \o m \o <<anti_tag(u)>> \o q = e \o q
    BY <1>3, <1>5 DEF d
  <1> QED BY <1>6, <1>7 DEF Framed, p, m, q

\* A selection has no separator in it.
LEMMA SelectedClear ==
  ASSUME NEW s, Whole(s), NEW sel \in Agreeing(s), SideBySide(s, sel.start, sel.end),
         sel.start_i <= sel.end_i
  PROVE  Clear(s, sel.start_i, sel.end_i)
  <1>1. PlaceOf(s, sel.start, sel.start_i) /\ PlaceOf(s, sel.end, sel.end_i)
    BY DEF Agreeing
  <1> SUFFICES ASSUME NEW p \in SepsOf(s), sel.start_i <= p, p < sel.end_i PROVE FALSE
    BY DEF Clear
  <1>2. /\ p \in 0..Len(s) - 1
        /\ sel.start_i <= p <=> sel.start <= Width(s, p)
        /\ sel.end_i <= p <=> sel.end <= Width(s, p)
    BY <1>1, SidesOf
  <1>3. sel.end <= Width(s, p)
    BY <1>2 DEF SideBySide, OneSide
  <1>4. sel.end_i \in Nat /\ p \in Nat
    BY <1>1, <1>2 DEF PlaceOf
  <1> QED BY <1>2, <1>3, <1>4

-----------------------------------------------------------------------------
(* The parts that the script of the field takes a text into.                 *)

AfterNext(s, i) == AfterSeparator(s, NextSeparator(s, i))

LEMMA NextIs ==
  ASSUME NEW s, Whole(s), NEW i \in 0..Len(s), Out(s, i)
  PROVE  LET c == NextSeparator(s, i)
         IN  /\ c \in i..Len(s) /\ c \in 0..Len(s) /\ i <= c /\ Out(s, c) /\ Clear(s, i, c)
             /\ c = Len(s) \/ c \in SepsOf(s)
             /\ AfterNext(s, i) \in 0..Len(s) /\ Out(s, AfterNext(s, i))
  <1> DEFINE S == {p \in i..Len(s) - 1 : At(s, p) = Open("sep")} \cup {Len(s)}
             c == NextSeparator(s, i)
  <1>1. s \in Texts /\ Len(s) \in Nat /\ Out(s, Len(s)) /\ Len(s) \in 0..Len(s)
    BY NotBroken, CutAll
  <1>2. S \in SUBSET Nat /\ Len(s) \in S /\ S \subseteq i..Len(s)
    BY <1>1
  <1>3. c = Min(S)
    BY DEF NextSeparator
  <1> HIDE DEF c
  <1>4. c \in S /\ \A p \in S : c <= p
    <2> HIDE DEF S
    <2> QED BY <1>2, <1>3, LeastIs
  <1>5. c \in i..Len(s) /\ c \in 0..Len(s) /\ i <= c
    BY <1>1, <1>2, <1>4
  <1>6. c = Len(s) \/ c \in SepsOf(s)
    BY <1>1, <1>4, <1>5 DEF SepsOf, Positions
  <1>7. Clear(s, i, c)
    <2> SUFFICES ASSUME NEW p \in SepsOf(s), i <= p, p < c PROVE FALSE
      BY DEF Clear
    <2>1. p \in S
      BY <1>1, <1>5 DEF SepsOf, Positions
    <2>2. c <= p
      BY <1>4, <2>1
    <2> QED BY <1>1, <1>2, <1>5, <2>1, <2>2
  <1> HIDE DEF S
  <1>8. CASE c = Len(s)
    BY <1>1, <1>5, <1>6, <1>7, <1>8 DEF AfterNext, AfterSeparator, c
  <1>9. CASE c # Len(s)
    <2>1. c \in 0..Len(s) - 1 /\ OpensBlock(s[c + 1])
      BY <1>1, <1>5, <1>6, <1>9 DEF SepsOf, Positions, At, OpensBlock, Open, Blocks
    <2>2. match_close_tag_end(s, c) \in c + 2..Len(s) /\ Out(s, match_close_tag_end(s, c)) /\ Out(s, c)
      BY <2>1, BlockEnds
    <2>3. AfterNext(s, i) = match_close_tag_end(s, c)
      BY <1>9 DEF AfterNext, AfterSeparator, c
    <2>4. match_close_tag_end(s, c) \in 0..Len(s)
      BY <1>1, <1>5, <2>2
    <2> QED BY <1>5, <1>6, <1>7, <2>2, <2>3, <2>4 DEF c
  <1> QED BY <1>8, <1>9

LEMMA StartIs ==
  ASSUME NEW s, NEW k \in Nat \ {0}, NEW f, f[1] = 0, \A n \in 1..k - 1 : f[n + 1] = AfterNext(s, f[n])
  PROVE  PartStart(s, k) = f[k]
  <1> DEFINE body(h) == [n \in 1..k |-> IF n = 1 THEN 0 ELSE AfterSeparator(s, NextSeparator(s, h[n - 1]))]
             run == CHOOSE h : h = body(h)
             g == [n \in 1..k |-> f[n]]
  <1>1. g = body(g)
    <2>1. ASSUME NEW n \in 1..k
          PROVE  g[n] = IF n = 1 THEN 0 ELSE AfterSeparator(s, NextSeparator(s, g[n - 1]))
      <3>1. n = 1 \/ (n - 1 \in 1..k - 1 /\ n - 1 \in 1..k /\ (n - 1) + 1 = n)
        OBVIOUS
      <3> QED BY <3>1 DEF AfterNext
    <2> QED BY <2>1
  <1>2. run = body(run)
    BY <1>1
  <1>3. PartStart(s, k) = run[k]
    BY DEF PartStart
  <1>4. \A n \in 1..k : run[n] = IF n = 1 THEN 0 ELSE AfterSeparator(s, NextSeparator(s, run[n - 1]))
    <2> HIDE DEF run
    <2> QED BY <1>2
  <1> HIDE DEF run, g
  <1> DEFINE E == {n \in Nat : n <= k - 1 => run[n + 1] = f[n + 1]}
  <1>5. 0 \in E
    BY <1>4
  <1>6. ASSUME NEW n \in 0..(k - 1) - 1, n \in E PROVE n + 1 \in E
    <2>1. n + 1 \in 1..k - 1 /\ (n + 1) + 1 \in 1..k /\ (n + 1) + 1 # 1 /\ ((n + 1) + 1) - 1 = n + 1 /\ n <= k - 1
      OBVIOUS
    <2>2. run[n + 1] = f[n + 1]
      BY <1>6, <2>1
    <2>3. run[(n + 1) + 1] = AfterSeparator(s, NextSeparator(s, run[((n + 1) + 1) - 1]))
      BY <1>4, <2>1
    <2>4. f[(n + 1) + 1] = AfterNext(s, f[n + 1])
      BY <2>1
    <2> QED BY <2>1, <2>2, <2>3, <2>4 DEF AfterNext
  <1>7. 0..k - 1 \subseteq E
    <2> HIDE DEF E
    <2> QED BY <1>5, <1>6, UpTo
  <1>8. k - 1 \in E /\ (k - 1) + 1 = k
    BY <1>7
  <1> QED BY <1>3, <1>8

LEMMA PartsAre ==
  ASSUME NEW s, Whole(s)
  PROVE  /\ PartStart(s, 1) = 0 /\ Parts \in Nat \ {0}
         /\ \A n \in 1..Parts - 1 : PartStart(s, n + 1) = AfterNext(s, PartStart(s, n))
         /\ \A n \in 1..Parts : PartStart(s, n) \in 0..Len(s) /\ Out(s, PartStart(s, n))
  <1> DEFINE D == {i \in 0..Len(s) : Out(s, i)}
             z == [i \in 1..Parts |-> 0]
             step == [p \in D \X {0} |-> AfterNext(s, p[1])]
  <1>1. Parts \in Nat \ {0}
    BY SeparatorsAssumption
  <1>2. z \in Seq({0}) /\ Len(z) = Parts
    BY <1>1
  <1>3. 0 \in D
    BY NotBroken, CutAll, PlaceSteps
  <1>4. \A i \in D : AfterNext(s, i) \in D
    BY NextIs
  <1> HIDE DEF D
  <1>5. step \in [D \X {0} -> D] /\ \A i \in D : step[<<i, 0>>] = AfterNext(s, i)
    BY <1>4
  <1> HIDE DEF step
  <1>6. PICK g \in [0..Len(z) -> D] : Runs(g, z, 0, step)
    BY <1>2, <1>3, <1>5, LoopIsThrough
  <1> DEFINE f == [n \in 1..Parts |-> g[n - 1]]
  <1>7. f[1] = 0 /\ \A n \in 1..Parts : f[n] \in D
    BY <1>1, <1>2, <1>6 DEF Runs
  <1>8. ASSUME NEW n \in 1..Parts - 1 PROVE f[n + 1] = AfterNext(s, f[n])
    <2>1. n \in 1..Len(z) /\ z[n] = 0 /\ n + 1 \in 1..Parts /\ n \in 1..Parts /\ (n + 1) - 1 = n
      BY <1>1, <1>2
    <2> HIDE DEF z
    <2>2. g[n] = step[<<g[n - 1], z[n]>>]
      BY <1>6, <2>1 DEF Runs
    <2>3. f[n + 1] = g[n] /\ f[n] = g[n - 1]
      BY <2>1
    <2> HIDE DEF f
    <2> QED BY <1>5, <1>7, <2>1, <2>2, <2>3
  <1> HIDE DEF f
  <1>9. ASSUME NEW k \in 1..Parts PROVE PartStart(s, k) = f[k]
    <2>1. k \in Nat \ {0} /\ \A n \in 1..k - 1 : n \in 1..Parts - 1
      BY <1>1
    <2> QED BY <1>7, <1>8, <2>1, StartIs
  <1>10. \A n \in 1..Parts - 1 : n \in 1..Parts /\ n + 1 \in 1..Parts
    BY <1>1
  <1> QED BY <1>1, <1>7, <1>8, <1>9, <1>10 DEF D

LEMMA FlattenSteps ==
  ASSUME NEW ps \in Seq(Texts), ps # <<>>
  PROVE  \E g : /\ FlattenSeq(ps) = g[Len(ps)] /\ g[1] = ps[1]
                /\ \A n \in 1..Len(ps) - 1 : g[n + 1] = g[n] \o ps[n + 1]
                /\ \A n \in 1..Len(ps) : g[n] \in Texts
  <1> DEFINE N == Len(ps)
             step == [p \in Texts \X Texts |-> p[1] \o p[2]]
             body(h) == [i \in 1..Len(ps) |-> IF i = 1 THEN ps[i] ELSE h[i - 1] \o ps[i]]
             run == CHOOSE h : h = body(h)
  <1>1. N \in Nat \ {0} /\ \A i \in 1..N : ps[i] \in Texts
    BY EmptySeq
  <1>2. step \in [Texts \X Texts -> Texts] /\ \A a, b \in Texts : step[<<a, b>>] = a \o b
    BY Joined
  <1> HIDE DEF step
  <1>3. PICK g \in [0..Len(ps) -> Texts] : Runs(g, ps, <<>>, step)
    <2>1. <<>> \in Texts
      BY DEF Texts
    <2> QED BY <1>2, <2>1, LoopIsThrough
  <1> DEFINE f == [i \in 1..Len(ps) |-> g[i]]
  <1>4. f = body(f)
    <2>1. ASSUME NEW i \in 1..Len(ps) PROVE f[i] = IF i = 1 THEN ps[i] ELSE f[i - 1] \o ps[i]
      <3>1. i - 1 \in 0..Len(ps) /\ ps[i] \in Texts /\ i \in 0..Len(ps) /\ (i # 1 => i - 1 \in 1..Len(ps))
        BY <1>1
      <3>2. g[i] = step[<<g[i - 1], ps[i]>>] /\ g[0] = <<>> /\ g[i - 1] \in Texts
        BY <1>3, <3>1 DEF Runs
      <3>3. g[i] = g[i - 1] \o ps[i]
        BY <1>2, <3>1, <3>2
      <3>4. i = 1 => g[i] = ps[i]
        <4>1. <<>> \o ps[i] = ps[i]
          BY <3>1 DEF Texts
        <4>2. i = 1 => g[i - 1] = <<>>
          BY <3>2
        <4> HIDE DEF f, N
        <4> QED BY <3>3, <4>1, <4>2
      <3> QED BY <3>1, <3>3, <3>4
    <2> QED BY <2>1
  <1>5. run = body(run)
    <2> HIDE DEF f
    <2> QED BY <1>4
  <1>6. FlattenSeq(ps) = run[Len(ps)]
    BY <1>1 DEF FlattenSeq
  <1> HIDE DEF run, f
  <1>7. \A i \in 1..Len(ps) : run[i] = IF i = 1 THEN ps[i] ELSE run[i - 1] \o ps[i]
    BY <1>5
  <1>8. run[1] = ps[1]
    BY <1>1, <1>7
  <1>9. ASSUME NEW n \in 1..Len(ps) - 1 PROVE run[n + 1] = run[n] \o ps[n + 1]
    <2>1. n + 1 \in 1..Len(ps) /\ n + 1 # 1 /\ (n + 1) - 1 = n
      BY <1>1
    <2> QED BY <1>7, <2>1
  <1> DEFINE E == {n \in Nat : n <= N - 1 => run[n + 1] \in Texts}
  <1>10. 0 \in E
    BY <1>1, <1>8
  <1>11. ASSUME NEW n \in 0..(N - 1) - 1, n \in E PROVE n + 1 \in E
    <2>1. n + 1 \in 1..Len(ps) - 1 /\ (n + 1) + 1 \in 1..N /\ n <= N - 1
      BY <1>1
    <2>2. run[n + 1] \in Texts /\ ps[(n + 1) + 1] \in Texts
      BY <1>1, <1>11, <2>1
    <2>3. run[(n + 1) + 1] = run[n + 1] \o ps[(n + 1) + 1]
      BY <1>9, <2>1
    <2>4. run[n + 1] \o ps[(n + 1) + 1] \in Texts
      BY <2>2, Joined
    <2>5. n + 1 \in Nat
      OBVIOUS
    <2> QED BY <2>3, <2>4, <2>5
  <1>12. 0..N - 1 \subseteq E
    <2>1. N - 1 \in Nat
      BY <1>1
    <2> HIDE DEF E, N
    <2> QED BY <1>10, <1>11, <2>1, UpTo
  <1>13. ASSUME NEW n \in 1..Len(ps) PROVE run[n] \in Texts
    <2>1. n - 1 \in 0..N - 1 /\ n - 1 <= N - 1 /\ (n - 1) + 1 = n
      BY <1>1
    <2>2. n - 1 \in E
      BY <1>12, <2>1
    <2> QED BY <2>1, <2>2
  <1> QED BY <1>6, <1>8, <1>9, <1>13

\* The pieces that combined_editor joins.
Piece(s, n) == (IF n > 1 THEN SeparatorItem ELSE <<>>) \o Part(s, n)

LEMMA PartIs ==
  ASSUME NEW s, Whole(s), NEW n \in 1..Parts
  PROVE  LET i == PartStart(s, n)
             c == NextSeparator(s, i)
         IN  /\ Part(s, n) = Sub(s, i, c) /\ Part(s, n) \in Texts
             /\ i \in 0..Len(s) /\ c \in 0..Len(s) /\ i <= c /\ Out(s, i) /\ Out(s, c) /\ Clear(s, i, c)
             /\ Piece(s, n) \in Texts
             /\ n = 1 => Piece(s, n) = Part(s, n)
             /\ n # 1 => Piece(s, n) = SeparatorItem \o Part(s, n)
  <1> DEFINE i == PartStart(s, n)
             c == NextSeparator(s, i)
  <1>1. i \in 0..Len(s) /\ Out(s, i)
    BY PartsAre
  <1> HIDE DEF i
  <1>2. c \in 0..Len(s) /\ i <= c /\ Out(s, c) /\ Clear(s, i, c)
    BY <1>1, NextIs
  <1>3. Part(s, n) = Sub(s, i, c)
    BY DEF Part, PartAt, i
  <1> HIDE DEF c
  <1>4. Part(s, n) \in Texts
    BY <1>1, <1>2, <1>3, SubIs DEF Whole
  <1>5. /\ Piece(s, n) \in Texts
        /\ n = 1 => Piece(s, n) = Part(s, n)
        /\ n # 1 => Piece(s, n) = SeparatorItem \o Part(s, n)
    <2>1. SeparatorItem \in Texts /\ <<>> \in Texts /\ <<>> \o Part(s, n) = Part(s, n)
      BY <1>4, ItemIs, Joined
    <2>2. n > 1 <=> n # 1
      BY PartsAre
    <2> QED BY <1>4, <2>1, <2>2, Joined DEF Piece
  <1> QED BY <1>1, <1>2, <1>3, <1>4, <1>5 DEF c, i

\* Joining the parts, one by one.
LEMMA JoinedParts ==
  ASSUME NEW s, Whole(s)
  PROVE  \E g : /\ combined_editor(s) = g[Parts] /\ g[1] = Part(s, 1)
                /\ \A n \in 1..Parts - 1 : g[n + 1] = g[n] \o (SeparatorItem \o Part(s, n + 1))
                /\ \A n \in 1..Parts : g[n] \in Texts
  <1> DEFINE ps == [n \in 1..Parts |-> Piece(s, n)]
  <1>1. Parts \in Nat \ {0}
    BY PartsAre
  <1>2. combined_editor(s) = FlattenSeq(ps)
    BY DEF combined_editor, Piece
  <1>3. ps \in Seq(Texts) /\ Len(ps) = Parts /\ ps # <<>>
    <2>1. \A n \in 1..Parts : Piece(s, n) \in Texts
      BY PartIs
    <2> QED BY <1>1, <2>1
  <1>4. \A n \in 1..Parts : ps[n] = Piece(s, n)
    OBVIOUS
  <1> HIDE DEF ps
  <1>5. PICK g : /\ FlattenSeq(ps) = g[Len(ps)] /\ g[1] = ps[1]
                 /\ \A n \in 1..Len(ps) - 1 : g[n + 1] = g[n] \o ps[n + 1]
                 /\ \A n \in 1..Len(ps) : g[n] \in Texts
    BY <1>3, FlattenSteps
  <1>6. g[1] = Part(s, 1)
    BY <1>1, <1>4, <1>5, PartIs
  <1>7. ASSUME NEW n \in 1..Parts - 1 PROVE g[n + 1] = g[n] \o (SeparatorItem \o Part(s, n + 1))
    <2>1. n + 1 \in 1..Parts /\ n + 1 # 1
      BY <1>1
    <2>2. ps[n + 1] = SeparatorItem \o Part(s, n + 1)
      BY <1>4, <2>1, PartIs
    <2> QED BY <1>3, <1>5, <2>2
  <1> QED BY <1>2, <1>3, <1>5, <1>6, <1>7

\* A separator is read from its first tag to where its block ends.
LEMMA SeparatorRead ==
  ASSUME NEW s, Whole(s), Read(s).is = "kept", NEW c \in SepsOf(s), NEW k \in Nat, ReadAt(s, c) = In(0, k)
  PROVE  LET e == match_close_tag_end(s, c)
         IN  /\ e \in 0..Len(s) /\ c \in 0..Len(s) /\ c <= e
             /\ ReadAt(s, e) = In(0, k + 1) /\ Sub(s, c, e) = SeparatorItem
  <1> DEFINE L == Len(SeparatorItem)
             Good(j) == /\ c + 1 + j <= Len(s) - 1 /\ ReadAt(s, c + 1 + j) = In(1 + j, k)
                        /\ ~Out(s, c + 1 + j) /\ s[c + 1 + j] = SeparatorItem[1 + j]
  <1>1. /\ s \in Texts /\ Len(s) \in Nat /\ L \in Nat /\ L >= 3 /\ Out(s, Len(s))
        /\ SeparatorItem[1] = Open("sep") /\ SeparatorItem[L] = Close("sep")
    BY NotBroken, CutAll, ItemIs
  <1>2. c \in 0..Len(s) - 1 /\ s[c + 1] = Open("sep")
    BY <1>1 DEF SepsOf, Positions, At
  <1>3. /\ \A n \in 0..Len(s) : /\ ReadAt(s, n) \in Reading /\ ReadAt(s, n).is = "kept"
                                /\ Out(s, n) => ReadAt(s, n).at = 0
        /\ \A n \in 0..Len(s) - 1 : ReadAt(s, n + 1) = ReadTo(ReadAt(s, n), s[n + 1]) /\ s[n + 1] \in Token
    <2>1. \A n \in 0..Len(s) - 1 : s[n + 1] \in Token
      BY <1>1 DEF Texts
    <2> QED BY <1>1, <2>1, ReadOut, ReadPlaces
  <1> HIDE DEF L
  \* In a separator, the text goes on with its next token.
  <1>4. ASSUME NEW j \in 0..L - 1, NEW n \in 0..Len(s) - 1, ReadAt(s, n) = In(j, k), j = 0 => n = c
        PROVE  /\ s[n + 1] = SeparatorItem[j + 1]
               /\ ReadAt(s, n + 1) = IF j + 1 = L THEN In(0, k + 1) ELSE In(j + 1, k)
    <2>1. /\ In(j, k).at = j /\ In(j, k).past = k
          /\ ReadAt(s, n) \in Reading /\ ReadAt(s, n + 1) = ReadTo(ReadAt(s, n), s[n + 1]) /\ s[n + 1] \in Token
          /\ ReadAt(s, n + 1).is = "kept"
      BY <1>1, <1>3 DEF In
    <2>2. CASE j = 0
      <3>1. s[n + 1] = Open("sep") /\ n = c
        BY <1>2, <1>4, <2>2
      <3>2. ReadAt(s, n + 1) = In(1, k)
        BY <1>4, <2>1, <2>2, <3>1, ReadIn DEF SepTag
      <3> QED BY <1>1, <2>2, <3>1, <3>2
    <2>3. CASE j # 0
      BY <1>4, <2>1, <2>3, ReadIn DEF L
    <2> QED BY <2>2, <2>3
  \* It does not end there.
  <1>5. ASSUME NEW j \in 1..L - 1, NEW n \in 0..Len(s), ReadAt(s, n) = In(j, k)
        PROVE  ~Out(s, n) /\ n <= Len(s) - 1
    <2>1. ReadAt(s, n).at = j /\ j # 0
      BY <1>5 DEF In
    <2>2. ~Out(s, n)
      BY <1>3, <2>1
    <2> QED BY <1>1, <2>2
  <1> DEFINE E == {j \in Nat : j <= L - 2 => Good(j)}
  <1>6. 0 \in E
    <2>1. 0 \in 0..L - 1 /\ 0 + 1 # L /\ c + 1 \in 0..Len(s) /\ 1 \in 1..L - 1
      BY <1>1, <1>2
    <2>2. s[c + 1] = SeparatorItem[0 + 1] /\ ReadAt(s, c + 1) = In(0 + 1, k)
      BY <1>2, <1>4, <2>1
    <2>3. ~Out(s, c + 1) /\ c + 1 <= Len(s) - 1
      BY <1>5, <2>1, <2>2
    <2>4. c + 1 + 0 = c + 1 /\ 1 + 0 = 1 /\ 0 + 1 = 1
      BY <1>2
    <2>5. Good(0)
      BY <2>2, <2>3, <2>4
    <2> HIDE DEF Good
    <2> QED BY <2>5
  <1>7. ASSUME NEW j \in 0..(L - 2) - 1, j \in E PROVE j + 1 \in E
    <2>1. /\ j <= L - 2 /\ 1 + j \in 0..L - 1 /\ 1 + j # 0 /\ (1 + j) + 1 # L /\ (1 + j) + 1 \in 1..L - 1
          /\ (1 + j) + 1 = 1 + (j + 1) /\ (c + 1 + j) + 1 = c + 1 + (j + 1) /\ j + 1 \in Nat
      BY <1>1, <1>2
    <2>2. Good(j)
      BY <1>7, <2>1
    <2>3. c + 1 + j \in 0..Len(s) - 1 /\ (c + 1 + j) + 1 \in 0..Len(s)
      BY <1>1, <1>2, <2>2
    <2>4. s[(c + 1 + j) + 1] = SeparatorItem[(1 + j) + 1] /\ ReadAt(s, (c + 1 + j) + 1) = In((1 + j) + 1, k)
      BY <1>4, <2>1, <2>2, <2>3
    <2>5. ~Out(s, (c + 1 + j) + 1) /\ (c + 1 + j) + 1 <= Len(s) - 1
      BY <1>5, <2>1, <2>3, <2>4
    <2>6. Good(j + 1)
      BY <2>1, <2>4, <2>5
    <2> HIDE DEF Good
    <2> QED BY <2>1, <2>6
  <1>8. ASSUME NEW j \in 0..L - 2 PROVE Good(j)
    <2>1. L - 2 \in Nat
      BY <1>1
    <2>2. 0..L - 2 \subseteq E
      <3> HIDE DEF E
      <3> QED BY <1>6, <1>7, <2>1, UpTo
    <2>3. j \in E /\ j <= L - 2
      BY <2>1, <2>2
    <2> HIDE DEF Good
    <2> QED BY <2>3
  <1> DEFINE z == c + L
  <1>9. /\ z \in 0..Len(s) /\ z - 1 \in 0..Len(s) - 1 /\ (z - 1) + 1 = z /\ ~Out(s, z - 1)
        /\ s[z] = SeparatorItem[L] /\ ReadAt(s, z) = In(0, k + 1)
    <2>1. L - 2 \in 0..L - 2 /\ c + 1 + (L - 2) = z - 1 /\ 1 + (L - 2) = L - 1
            /\ L - 1 \in 0..L - 1 /\ (L - 1) + 1 = L /\ L - 1 # 0 /\ (z - 1) + 1 = z
      BY <1>1, <1>2
    <2>2. Good(L - 2)
      <3> HIDE DEF Good
      <3> QED BY <1>8, <2>1
    <2>3. z - 1 <= Len(s) - 1 /\ ReadAt(s, z - 1) = In(L - 1, k) /\ ~Out(s, z - 1)
      BY <2>1, <2>2
    <2>4. z - 1 \in 0..Len(s) - 1 /\ z \in 0..Len(s)
      BY <1>1, <1>2, <2>3
    <2> HIDE DEF z
    <2>5. s[(z - 1) + 1] = SeparatorItem[(L - 1) + 1] /\ ReadAt(s, (z - 1) + 1) = In(0, k + 1)
      BY <1>4, <2>1, <2>3, <2>4
    <2> QED BY <2>1, <2>3, <2>4, <2>5
  <1> HIDE DEF z
  <1>10. Out(s, z)
    <2>1. /\ Tidy(ScanAt(s, z - 1)) /\ ScanAt(s, z) = ScanTo(ScanAt(s, z - 1), s[z]) /\ s[z] \in Token
          /\ ScanAt(s, z - 1).at \in {"empty", "filled"} /\ ScanAt(s, z).at # "broken"
      <3>1. z - 1 \in 0..Len(s)
        BY <1>1, <1>9
      <3>2. s[(z - 1) + 1] \in Token /\ ScanAt(s, (z - 1) + 1) = ScanTo(ScanAt(s, z - 1), s[(z - 1) + 1])
        BY <1>1, <1>3, <1>9, PlaceSteps
      <3>3. Tidy(ScanAt(s, z - 1))
        BY <1>1, <3>1, PlaceSteps
      <3> QED BY <1>9, <3>1, <3>2, <3>3, NotBroken DEF Out
    <2>2. IsBlockTag(s[z])
      BY <1>1, <1>9 DEF IsBlockTag, IsTag, IsChar, Close, Blocks
    <2> QED BY <2>1, <2>2, InsideStep DEF Out
  <1> DEFINE e == match_close_tag_end(s, c)
  <1>11. e \in c + 2..Len(s) /\ Out(s, e) /\ \A n \in c + 1..e - 1 : ~Out(s, n)
    BY <1>2, BlockEnds DEF OpensBlock, Open, Blocks
  <1> HIDE DEF e
  <1>12. e = z
    <2>1. ASSUME e < z PROVE FALSE
      <3>1. e - c - 1 \in 0..L - 2 /\ c + 1 + (e - c - 1) = e
        BY <1>1, <1>2, <1>11, <2>1 DEF z
      <3>2. Good(e - c - 1)
        <4> HIDE DEF Good
        <4> QED BY <1>8, <3>1
      <3> QED BY <1>11, <3>1, <3>2
    <2>2. ASSUME z < e PROVE FALSE
      <3>1. z \in c + 1..e - 1
        BY <1>1, <1>2, <1>11, <2>2 DEF z
      <3> QED BY <1>10, <1>11, <3>1
    <2> QED BY <1>1, <1>2, <1>9, <1>11, <2>1, <2>2
  <1>13. c \in 0..Len(s) /\ c <= e /\ e \in 0..Len(s) /\ e - c = L
    BY <1>1, <1>2, <1>9, <1>12 DEF z
  <1>14. Sub(s, c, e) = SeparatorItem
    <2>1. Sub(s, c, e) \in Texts /\ Len(Sub(s, c, e)) = L /\ \A i \in 1..L : Sub(s, c, e)[i] = s[c + i]
      BY <1>1, <1>13, SubIs
    <2>2. ASSUME NEW i \in 1..L PROVE s[c + i] = SeparatorItem[i]
      <3>1. CASE i = L
        BY <1>9, <3>1 DEF z
      <3>2. CASE i # L
        <4>1. i - 1 \in 0..L - 2 /\ c + 1 + (i - 1) = c + i /\ 1 + (i - 1) = i
          BY <1>1, <1>2, <3>2
        <4>2. Good(i - 1)
          <5> HIDE DEF Good
          <5> QED BY <1>8, <4>1
        <4> QED BY <4>1, <4>2
      <3> QED BY <3>1, <3>2
    <2>3. SeparatorItem \in Texts /\ Len(SeparatorItem) = L
      BY ItemIs DEF L
    <2> HIDE DEF Good
    <2> QED BY <2>1, <2>2, <2>3, SeqEqual DEF Texts
  <1> QED BY <1>9, <1>12, <1>13, <1>14 DEF e

LEMMA PastGrows ==
  ASSUME NEW st \in Reading
  PROVE  \A u \in Texts : ReadFrom(st, u).is = "kept" => ReadFrom(st, u).past >= st.past
  <1> DEFINE P == {u \in Texts : ReadFrom(st, u).is = "kept" => ReadFrom(st, u).past >= st.past}
  <1>1. <<>> \in P
    BY ReadAppend DEF Texts, Reading
  <1>2. ASSUME NEW u \in Texts, NEW t \in Token, u \in P PROVE Append(u, t) \in P
    <2> DEFINE rd == ReadFrom(st, u)
    <2>1. /\ Append(u, t) \in Texts /\ ReadFrom(st, Append(u, t)) = ReadTo(rd, t)
          /\ rd \in Reading
      BY ReadAppend DEF Texts
    <2>2. rd.is = "kept" => rd.past >= st.past
      BY <1>2
    <2> HIDE DEF rd
    <2>3. SUFFICES ASSUME ReadTo(rd, t).is = "kept" PROVE ReadTo(rd, t).past >= st.past
      BY <2>1
    <2>4. rd.is = "kept" /\ rd.past \in Nat /\ st.past \in Nat
      BY <2>1, <2>3, ReadIn DEF Reading
    <2>5. \A at : In(at, rd.past).past = rd.past /\ In(at, rd.past + 1).past = rd.past + 1
      BY DEF In
    <2>6. ReadTo(rd, t).past \in {rd.past, rd.past + 1}
      BY <2>1, <2>3, <2>5, ReadIn
    <2> QED BY <2>2, <2>4, <2>6
  <1>3. Texts \subseteq P
    <2> HIDE DEF P
    <2> QED BY <1>1, <1>2, ByAppending DEF Texts
  <1> QED BY <1>3

\* What combined_editor finds behind so many separators.
LEMMA NextReads ==
  ASSUME NEW s, Whole(s), Framed(s), NEW i \in 0..Len(s), Out(s, i), NEW k \in 0..Parts - 1,
         ReadAt(s, i) = In(0, k)
  PROVE  LET c == NextSeparator(s, i)
             e == AfterNext(s, i)
         IN  /\ k < Parts - 1 => /\ e \in 0..Len(s) /\ c \in 0..Len(s) /\ c <= e
                                 /\ ReadAt(s, e) = In(0, k + 1) /\ Sub(s, c, e) = SeparatorItem
             /\ k = Parts - 1 => c = Len(s)
  <1> DEFINE c == NextSeparator(s, i)
  <1>1. s \in Texts /\ Read(s).is = "kept" /\ Read(s) = In(0, Parts - 1) /\ Parts \in Nat \ {0} /\ k \in Nat
    BY FrameIs, PartsAre DEF Whole, Framed
  <1>2. /\ c \in 0..Len(s) /\ i <= c /\ Out(s, c) /\ Clear(s, i, c)
        /\ c = Len(s) \/ c \in SepsOf(s)
    BY NextIs
  <1>3. AfterNext(s, i) = IF c = Len(s) THEN c ELSE match_close_tag_end(s, c)
    BY DEF AfterNext, AfterSeparator
  <1> HIDE DEF c
  <1>4. ReadAt(s, c) = In(0, k)
    <2>1. ReadAt(s, c) = ReadFrom(ReadAt(s, i), Sub(s, i, c))
      BY <1>1, <1>2, ReadPlaces
    <2>2. ReadFrom(ReadAt(s, i), Sub(s, i, c)) = ReadAt(s, i)
      BY <1>2, FrameMiddle DEF ReadAt
    <2> QED BY <2>1, <2>2
  <1>5. \A a, b : In(0, a) = In(0, b) => a = b
    <2>1. \A a : In(0, a).past = a
      BY DEF In
    <2> QED BY <2>1
  <1>6. c = Len(s) => k = Parts - 1
    BY <1>1, <1>4, <1>5, ReadPlaces
  <1>7. ASSUME c # Len(s)
        PROVE  /\ match_close_tag_end(s, c) \in 0..Len(s) /\ c <= match_close_tag_end(s, c)
               /\ ReadAt(s, match_close_tag_end(s, c)) = In(0, k + 1)
               /\ Sub(s, c, match_close_tag_end(s, c)) = SeparatorItem
    BY <1>1, <1>2, <1>4, <1>7, SeparatorRead
  <1>8. c # Len(s) => k < Parts - 1
    <2> SUFFICES ASSUME c # Len(s) PROVE k < Parts - 1
      OBVIOUS
    <2> DEFINE e == match_close_tag_end(s, c)
    <2>1. e \in 0..Len(s) /\ ReadAt(s, e) = In(0, k + 1) /\ ReadAt(s, e) \in Reading
      BY <1>1, <1>7, ReadPlaces
    <2>2. e <= Len(s) /\ Len(s) \in 0..Len(s) /\ Sub(s, e, Len(s)) \in Texts
      BY <1>1, <2>1, CutAll, SubIs
    <2> HIDE DEF e
    <2>3. Read(s) = ReadFrom(ReadAt(s, e), Sub(s, e, Len(s)))
      BY <1>1, <2>1, <2>2, ReadPlaces
    <2>4. Read(s).past >= ReadAt(s, e).past
      BY <1>1, <2>1, <2>2, <2>3, PastGrows
    <2>5. Read(s).past = Parts - 1 /\ ReadAt(s, e).past = k + 1
      BY <1>1, <2>1 DEF In
    <2> QED BY <1>1, <2>4, <2>5
  <1> QED BY <1>1, <1>2, <1>3, <1>6, <1>7, <1>8 DEF c

\* A text that has its separators is given back as it is.
LEMMA FramedGiven ==
  ASSUME NEW s, Whole(s), Framed(s)
  PROVE  combined_editor(s) = s
  <1> DEFINE i(n) == PartStart(s, n)
             c(n) == NextSeparator(s, PartStart(s, n))
  <1>1. Parts \in Nat \ {0} /\ s \in Texts /\ Parts - 1 \in Nat
    BY PartsAre DEF Whole
  <1>2. /\ i(1) = 0 /\ \A n \in 1..Parts - 1 : i(n + 1) = AfterNext(s, i(n))
        /\ \A n \in 1..Parts : i(n) \in 0..Len(s) /\ Out(s, i(n))
    BY PartsAre
  <1>3. \A n \in 1..Parts : c(n) \in 0..Len(s) /\ i(n) <= c(n) /\ Part(s, n) = Sub(s, i(n), c(n))
    BY PartIs
  <1>4. ASSUME NEW n \in 1..Parts, ReadAt(s, i(n)) = In(0, n - 1)
        PROVE  /\ n < Parts => /\ ReadAt(s, i(n + 1)) = In(0, n) /\ c(n) <= i(n + 1)
                               /\ Sub(s, c(n), i(n + 1)) = SeparatorItem
               /\ n = Parts => c(n) = Len(s)
    <2>1. n - 1 \in 0..Parts - 1 /\ (n - 1) + 1 = n /\ (n < Parts <=> n - 1 < Parts - 1)
            /\ (n = Parts <=> n - 1 = Parts - 1) /\ (n < Parts => n \in 1..Parts - 1)
      BY <1>1
    <2>2. i(n) \in 0..Len(s) /\ Out(s, i(n)) /\ (n < Parts => i(n + 1) = AfterNext(s, i(n)))
      BY <1>2, <2>1
    <2> HIDE DEF i
    <2>3. /\ n - 1 < Parts - 1 => /\ NextSeparator(s, i(n)) <= AfterNext(s, i(n))
                                  /\ ReadAt(s, AfterNext(s, i(n))) = In(0, (n - 1) + 1)
                                  /\ Sub(s, NextSeparator(s, i(n)), AfterNext(s, i(n))) = SeparatorItem
          /\ n - 1 = Parts - 1 => NextSeparator(s, i(n)) = Len(s)
      BY <1>4, <2>1, <2>2, NextReads
    <2>4. c(n) = NextSeparator(s, i(n))
      BY DEF i
    <2> QED BY <2>1, <2>2, <2>3, <2>4
  <1> HIDE DEF i, c
  <1> DEFINE E == {n \in Nat : n <= Parts - 1 => ReadAt(s, i(n + 1)) = In(0, n)}
  <1>5. 0 \in E
    BY <1>1, <1>2, ReadPlaces
  <1>6. ASSUME NEW n \in 0..(Parts - 1) - 1, n \in E PROVE n + 1 \in E
    <2>1. n + 1 \in 1..Parts /\ (n + 1) - 1 = n /\ n + 1 < Parts /\ n <= Parts - 1 /\ n + 1 \in Nat
      BY <1>1
    <2>2. ReadAt(s, i(n + 1)) = In(0, n)
      BY <1>6, <2>1
    <2>3. ReadAt(s, i((n + 1) + 1)) = In(0, n + 1)
      BY <1>4, <2>1, <2>2
    <2> QED BY <2>1, <2>3
  <1>7. ASSUME NEW n \in 1..Parts PROVE ReadAt(s, i(n)) = In(0, n - 1)
    <2>1. 0..Parts - 1 \subseteq E
      <3> HIDE DEF E
      <3> QED BY <1>1, <1>5, <1>6, UpTo
    <2>2. n - 1 \in 0..Parts - 1 /\ n - 1 <= Parts - 1 /\ (n - 1) + 1 = n
      BY <1>1
    <2>3. n - 1 \in E
      BY <2>1, <2>2
    <2> QED BY <2>2, <2>3
  <1> HIDE DEF E
  <1>8. PICK g : /\ combined_editor(s) = g[Parts] /\ g[1] = Part(s, 1)
                 /\ \A n \in 1..Parts - 1 : g[n + 1] = g[n] \o (SeparatorItem \o Part(s, n + 1))
                 /\ \A n \in 1..Parts : g[n] \in Texts
    BY JoinedParts
  <1> DEFINE F == {n \in Nat : n <= Parts - 1 => g[n + 1] = Sub(s, 0, c(n + 1))}
  <1>9. 0 \in F
    <2>1. 1 \in 1..Parts
      BY <1>1
    <2> QED BY <1>2, <1>3, <1>8, <2>1
  <1>10. ASSUME NEW n \in 0..(Parts - 1) - 1, n \in F PROVE n + 1 \in F
    <2> DEFINE m == n + 1
    <2>1. m \in 1..Parts /\ m \in 1..Parts - 1 /\ m + 1 \in 1..Parts /\ m < Parts /\ n <= Parts - 1 /\ m \in Nat
      BY <1>1
    <2>2. g[m] = Sub(s, 0, c(m)) /\ g[m + 1] = g[m] \o (SeparatorItem \o Part(s, m + 1))
      BY <1>8, <1>10, <2>1
    <2> HIDE DEF m
    <2>3. SeparatorItem = Sub(s, c(m), i(m + 1)) /\ c(m) <= i(m + 1)
      BY <1>4, <1>7, <2>1
    <2>4. Part(s, m + 1) = Sub(s, i(m + 1), c(m + 1)) /\ i(m + 1) <= c(m + 1)
            /\ c(m) \in 0..Len(s) /\ i(m + 1) \in 0..Len(s) /\ c(m + 1) \in 0..Len(s)
      BY <1>2, <1>3, <2>1
    <2>5. /\ Sub(s, 0, i(m + 1)) = Sub(s, 0, c(m)) \o Sub(s, c(m), i(m + 1))
          /\ Sub(s, 0, c(m + 1)) = Sub(s, 0, i(m + 1)) \o Sub(s, i(m + 1), c(m + 1))
      BY <1>1, <2>3, <2>4, Cut
    <2>6. /\ Sub(s, 0, c(m)) \in Texts /\ Sub(s, c(m), i(m + 1)) \in Texts
          /\ Sub(s, i(m + 1), c(m + 1)) \in Texts
      BY <1>1, <2>3, <2>4, SubIs, CutAll
    <2>7. g[m + 1] = Sub(s, 0, c(m + 1))
      <3> DEFINE a == Sub(s, 0, c(m))
                 b == Sub(s, c(m), i(m + 1))
                 d == Sub(s, i(m + 1), c(m + 1))
      <3>1. a \in Texts /\ b \in Texts /\ d \in Texts
        BY <2>6
      <3>2. g[m + 1] = a \o (b \o d) /\ Sub(s, 0, c(m + 1)) = (a \o b) \o d
        BY <2>2, <2>3, <2>4, <2>5
      <3> HIDE DEF a, b, d
      <3> QED BY <3>1, <3>2, JoinThree
    <2> QED BY <2>1, <2>7 DEF m
  <1>11. 0..Parts - 1 \subseteq F
    <2> HIDE DEF F
    <2> QED BY <1>1, <1>9, <1>10, UpTo
  <1>12. g[Parts] = Sub(s, 0, c(Parts))
    <2>1. Parts - 1 \in 0..Parts - 1 /\ (Parts - 1) + 1 = Parts
      BY <1>1
    <2>2. Parts - 1 \in F
      BY <1>11, <2>1
    <2> QED BY <2>1, <2>2
  <1>13. c(Parts) = Len(s)
    BY <1>1, <1>4, <1>7
  <1> QED BY <1>1, <1>8, <1>12, <1>13, CutAll

\* Between two separators nothing is left of one.
LEMMA PartQuiet ==
  ASSUME NEW s, Whole(s), NEW a \in 0..Len(s), NEW b \in 0..Len(s), a <= b, Out(s, a), Out(s, b), Clear(s, a, b)
  PROVE  Sub(s, a, b) \in Texts /\ \A n \in 1..Len(Sub(s, a, b)) : ~SepTag(Sub(s, a, b)[n])
  <1> DEFINE m == Sub(s, a, b)
  <1>1. s \in Texts /\ Len(s) \in Nat
    BY CutAll DEF Whole
  <1>2. m \in Texts /\ Len(m) = b - a /\ \A n \in 1..b - a : m[n] = s[a + n]
    BY <1>1, SubIs
  <1>3. ASSUME NEW n \in 1..Len(m) PROVE m[n] # Open("sep")
    <2> SUFFICES ASSUME m[n] = Open("sep") PROVE FALSE
      OBVIOUS
    <2>1. a + n - 1 \in Positions(s) /\ a <= a + n - 1 /\ a + n - 1 < b /\ (a + n - 1) + 1 = a + n
      BY <1>1, <1>2 DEF Positions
    <2>2. a + n - 1 \in SepsOf(s)
      BY <1>2, <2>1 DEF SepsOf, At
    <2> QED BY <2>1, <2>2 DEF Clear
  <1>4. Net(m, "sep") = 0
    <2>1. ScanAt(s, b) = ScanFrom(ScanAt(s, a), m)
      BY <1>1, <1>2, Cut, CutAll, ScanBegins DEF ScanAt
    <2>2. Tidy(ScanAt(s, a)) /\ ScanAt(s, a).at = "outside" /\ ScanAt(s, b).at = "outside"
      BY <1>1, PlaceSteps DEF Out
    <2>3. InBlock(ScanAt(s, b), "sep") = 0 /\ "sep" \in Blocks
      BY <2>2 DEF InBlock, Blocks
    <2> HIDE DEF m
    <2>4. ScanFrom(ScanAt(s, a), m).at # "broken"
      BY <2>1, <2>2
    <2> QED BY <1>2, <2>1, <2>2, <2>3, <2>4, BlockOpen
  <1> HIDE DEF m
  <1>5. HowMany(m, Open("sep")) = 0
    BY <1>2, <1>3, HowManyZero DEF Texts
  <1>6. HowMany(m, Close("sep")) = 0
    <2>1. Net(m, "sep") = HowMany(m, Open("sep")) - HowMany(m, Close("sep"))
      BY NetIs
    <2>2. HowMany(m, Close("sep")) \in Nat
      BY <1>2, HowManyConcat DEF Texts
    <2> QED BY <1>4, <1>5, <2>1, <2>2
  <1>7. \A n \in 1..Len(m) : m[n] # Close("sep")
    BY <1>2, <1>6, HowManyZero DEF Texts
  <1> QED BY <1>2, <1>3, <1>7 DEF SepTag, m

LEMMA ReadItem ==
  ASSUME NEW k \in Nat
  PROVE  ReadFrom(In(0, k), SeparatorItem) = In(0, k + 1)
  <1> DEFINE i == SeparatorItem
             L == Len(i)
             u(n) == Sub(i, 0, n)
  <1>1. i \in Texts /\ L \in Nat /\ L >= 3 /\ i[1] = Open("sep")
    BY ItemIs
  <1>2. In(0, k) \in Reading
    BY <1>1, ReadType
  <1>3. /\ u(L) = i /\ u(0) = <<>> /\ \A n \in 0..L - 1 : u(n + 1) = Append(u(n), i[n + 1])
        /\ \A n \in 0..L : u(n) \in Texts
        /\ \A n \in 0..L - 1 : i[n + 1] \in Token
    <2> HIDE DEF i
    <2>1. \A n \in 0..L - 1 : n + 1 \in 1..L
      BY <1>1
    <2> QED BY <1>1, <2>1, CutAll
  <1> HIDE DEF u
  <1> DEFINE E == {n \in Nat : n <= L - 1 => ReadFrom(In(0, k), u(n)) = In(n, k)}
  <1>4. 0 \in E
    BY <1>2, <1>3, ReadAppend
  <1>5. ASSUME NEW n \in 0..L - 1, ReadFrom(In(0, k), u(n)) = In(n, k)
        PROVE  ReadFrom(In(0, k), u(n + 1)) = IF n + 1 = L THEN In(0, k + 1) ELSE In(n + 1, k)
    <2>1. n \in 0..L /\ u(n) \in Texts /\ i[n + 1] \in Token /\ u(n + 1) = Append(u(n), i[n + 1])
      <3> HIDE DEF i
      <3> QED BY <1>1, <1>3
    <2>2. ReadFrom(In(0, k), u(n + 1)) = ReadTo(In(n, k), i[n + 1])
      <3>1. ReadFrom(In(0, k), Append(u(n), i[n + 1])) = ReadTo(ReadFrom(In(0, k), u(n)), i[n + 1])
        <4> HIDE DEF i
        <4> QED BY <1>2, <2>1, ReadAppend
      <3> QED BY <1>5, <2>1, <3>1
    <2>3. In(n, k).at = n /\ In(n, k).past = k /\ In(n, k).is = "kept"
      BY DEF In
    <2>4. CASE n = 0
      <3>1. i[n + 1] = Open("sep") /\ n + 1 # L /\ n + 1 = 1
        <4> HIDE DEF L, i
        <4> QED BY <1>1, <2>4
      <3>2. ReadTo(In(n, k), i[n + 1]) = In(1, k)
        <4> HIDE DEF i
        <4> QED BY <2>3, <2>4, <3>1 DEF ReadTo
      <3> QED BY <2>2, <3>1, <3>2
    <2>5. CASE n # 0
      <3>1. ReadTo(In(n, k), i[n + 1]) = IF n + 1 = L THEN In(0, k + 1) ELSE In(n + 1, k)
        BY <2>3, <2>5 DEF ReadTo
      <3> QED BY <2>2, <3>1
    <2> QED BY <2>4, <2>5
  <1> HIDE DEF i, L
  <1>6. ASSUME NEW n \in 0..(L - 1) - 1, n \in E PROVE n + 1 \in E
    <2>1. n \in 0..L - 1 /\ n + 1 # L /\ n <= L - 1 /\ n + 1 \in Nat
      BY <1>1
    <2> QED BY <1>5, <1>6, <2>1
  <1>7. 0..L - 1 \subseteq E
    <2>1. L - 1 \in Nat
      BY <1>1
    <2> HIDE DEF E
    <2> QED BY <1>4, <1>6, <2>1, UpTo
  <1>8. L - 1 \in 0..L - 1 /\ (L - 1) + 1 = L
    BY <1>1
  <1>9. ReadFrom(In(0, k), u(L - 1)) = In(L - 1, k)
    <2>1. L - 1 \in E /\ L - 1 <= L - 1
      BY <1>7, <1>8
    <2> QED BY <2>1
  <1> QED BY <1>3, <1>5, <1>8, <1>9 DEF i

\* A text that is given back as it is has its separators.
LEMMA FramedOf ==
  ASSUME NEW s, Whole(s), combined_editor(s) = s
  PROVE  Framed(s)
  <1>1. Parts \in Nat \ {0} /\ Parts - 1 \in Nat
    BY PartsAre
  <1>2. PICK g : /\ combined_editor(s) = g[Parts] /\ g[1] = Part(s, 1)
                 /\ \A n \in 1..Parts - 1 : g[n + 1] = g[n] \o (SeparatorItem \o Part(s, n + 1))
                 /\ \A n \in 1..Parts : g[n] \in Texts
    BY JoinedParts
  <1>3. \A n \in 1..Parts : Part(s, n) \in Texts /\ \A j \in 1..Len(Part(s, n)) : ~SepTag(Part(s, n)[j])
    <2> SUFFICES ASSUME NEW n \in 1..Parts
                 PROVE  Part(s, n) \in Texts /\ \A j \in 1..Len(Part(s, n)) : ~SepTag(Part(s, n)[j])
      OBVIOUS
    <2> DEFINE i == PartStart(s, n)
               c == NextSeparator(s, i)
    <2>1. /\ Part(s, n) = Sub(s, i, c)
          /\ i \in 0..Len(s) /\ c \in 0..Len(s) /\ i <= c /\ Out(s, i) /\ Out(s, c) /\ Clear(s, i, c)
      BY PartIs
    <2> HIDE DEF i, c
    <2> QED BY <2>1, PartQuiet
  <1>4. \A k \in Nat : In(0, k) \in Reading /\ In(0, k).at = 0
    <2>1. 0 \in 0..Len(SeparatorItem) - 1
      BY ItemIs
    <2>2. \A k : In(0, k).at = 0
      BY DEF In
    <2> QED BY <2>1, <2>2, ReadType
  <1>5. ASSUME NEW n \in 1..Parts, NEW k \in Nat PROVE ReadFrom(In(0, k), Part(s, n)) = In(0, k)
    BY <1>3, <1>4, ReadOther
  <1> DEFINE E == {n \in Nat : n <= Parts - 1 => Read(g[n + 1]) = In(0, n)}
  <1>6. 0 \in E
    <2>1. 1 \in 1..Parts
      BY <1>1
    <2> QED BY <1>2, <1>5, <2>1 DEF Read
  <1>7. ASSUME NEW n \in 0..(Parts - 1) - 1, n \in E PROVE n + 1 \in E
    <2> DEFINE m == n + 1
               p == Part(s, m + 1)
    <2>1. m \in 1..Parts /\ m \in 1..Parts - 1 /\ m + 1 \in 1..Parts /\ n <= Parts - 1 /\ m \in Nat /\ n \in Nat
      BY <1>1
    <2>2. Read(g[m]) = In(0, n) /\ g[m] \in Texts
      BY <1>2, <1>7, <2>1
    <2>3. p \in Texts /\ g[m + 1] = g[m] \o (SeparatorItem \o p) /\ ReadFrom(In(0, n + 1), p) = In(0, n + 1)
      BY <1>2, <1>3, <1>5, <2>1
    <2>4. SeparatorItem \in Texts /\ SeparatorItem \o p \in Texts
      BY <2>3, ItemIs, Joined
    <2> HIDE DEF p
    <2>5. ReadFrom(In(0, n), SeparatorItem \o p) = In(0, n + 1)
      BY <1>4, <2>1, <2>3, <2>4, ReadConcat, ReadItem
    <2>6. Read(g[m + 1]) = In(0, m)
      <3> HIDE DEF m
      <3>1. Read(g[m + 1]) = ReadFrom(In(0, n), SeparatorItem \o p)
        BY <2>2, <2>3, <2>4, ReadBegins
      <3> QED BY <2>5, <3>1 DEF m
    <2> QED BY <2>1, <2>6
  <1>8. 0..Parts - 1 \subseteq E
    <2> HIDE DEF E
    <2> QED BY <1>1, <1>6, <1>7, UpTo
  <1>9. Read(g[Parts]) = In(0, Parts - 1)
    <2>1. Parts - 1 \in 0..Parts - 1 /\ (Parts - 1) + 1 = Parts /\ Parts - 1 <= Parts - 1
      BY <1>1
    <2>2. Parts - 1 \in E
      BY <1>8, <2>1
    <2> QED BY <2>1, <2>2
  <1> QED BY <1>2, <1>9 DEF Framed

-----------------------------------------------------------------------------
(* The texts the field can have from the start.                              *)

LEMMA BlockIs ==
  ASSUME NEW s \in Texts, NEW f \in 1..Len(s), NEW l \in 1..Len(s), IsBlock(s, f, l)
  PROVE  /\ f < l /\ OpensBlock(s[f]) /\ IsBlockTag(s[f]) /\ s[f][2] \in Blocks
         /\ s[l] = Close(s[f][2]) /\ IsBlockTag(s[l]) /\ ~OpensBlock(s[l])
         /\ \A n \in f + 1..l - 1 : ~IsBlockTag(s[n])
         /\ \E n \in f + 1..l - 1 : IsChar(s[n])
  <1>1. /\ OpensBlock(s[f]) /\ s[l] = Close(s[f][2])
        /\ \A n \in f + 1..l - 1 : ~IsBlockTag(s[n])
        /\ \E n \in f + 1..l - 1 : IsChar(s[n])
    BY DEF IsBlock
  <1>2. Len(s) \in Nat /\ f \in Nat /\ l \in Nat
    BY CutAll
  <1>3. f < l
    BY <1>1, <1>2
  <1>4. s[f][2] \in Blocks /\ IsBlockTag(s[f])
    BY <1>1 DEF OpensBlock, IsBlockTag, IsTag, IsChar
  <1>5. IsBlockTag(s[l]) /\ ~OpensBlock(s[l])
    BY <1>1, <1>4, TagsDiffer DEF OpensBlock, IsBlockTag
  <1> QED BY <1>1, <1>3, <1>4, <1>5

Covers(s, f, l, n) == f \in 1..Len(s) /\ l \in 1..Len(s) /\ IsBlock(s, f, l) /\ f <= n /\ n < l
InsideOf(s, f, l, n) ==
    /\ Covers(s, f, l, n) /\ ScanAt(s, n).at \in {"empty", "filled"} /\ ScanAt(s, n).of = s[f][2]
    /\ (\E m \in f + 1..n : IsChar(s[m])) => ScanAt(s, n).at = "filled"

LEMMA BlockOver ==
  ASSUME NEW s \in Texts, NEW n \in 0..Len(s) - 1, NEW f, NEW l, InsideOf(s, f, l, n), n + 1 = l
  PROVE  Out(s, n + 1) /\ \A g, h : ~Covers(s, g, h, n + 1)
  <1> DEFINE st == ScanAt(s, n)
             t == s[n + 1]
  <1>1. /\ f \in 1..Len(s) /\ l \in 1..Len(s) /\ IsBlock(s, f, l) /\ f <= n /\ n < l
        /\ st.at \in {"empty", "filled"} /\ st.of = s[f][2]
        /\ (\E m \in f + 1..n : IsChar(s[m])) => st.at = "filled"
    BY DEF InsideOf, Covers
  <1>2. Len(s) \in Nat /\ n \in Nat /\ n \in 0..Len(s)
    BY CutAll
  <1>3. /\ f < l /\ OpensBlock(s[f]) /\ IsBlockTag(s[f]) /\ s[f][2] \in Blocks
        /\ s[l] = Close(s[f][2]) /\ IsBlockTag(s[l]) /\ ~OpensBlock(s[l])
        /\ \A m \in f + 1..l - 1 : ~IsBlockTag(s[m])
        /\ \E m \in f + 1..l - 1 : IsChar(s[m])
    BY <1>1, BlockIs
  <1>4. st.at = "filled"
    <2>1. l - 1 = n
      BY <1>1, <1>2
    <2> QED BY <1>1, <1>3, <2>1
  <1>5. ScanTo(st, t) = Outside(st.width)
    <2>1. ~OpensBlock(t) /\ IsBlockTag(t) /\ st.of = t[2]
      BY <1>1, <1>3, TagsDiffer
    <2> QED BY <1>4, <2>1 DEF ScanTo
  <1>6. Out(s, n + 1)
    <2>1. ScanAt(s, n + 1) = ScanTo(st, t)
      BY PlaceSteps
    <2> QED BY <1>5, <2>1 DEF Out, Outside
  <1>7. ASSUME NEW g, NEW h, Covers(s, g, h, n + 1) PROVE FALSE
    <2>1. g \in 1..Len(s) /\ h \in 1..Len(s) /\ IsBlock(s, g, h) /\ g <= n + 1 /\ n + 1 < h
      BY <1>7 DEF Covers
    <2>2. /\ OpensBlock(s[g]) /\ IsBlockTag(s[g])
          /\ \A m \in g + 1..h - 1 : ~IsBlockTag(s[m])
      BY <2>1, BlockIs
    <2>3. g # l /\ g \notin f + 1..l - 1
      BY <1>3, <2>2
    <2>4. g <= f
      BY <1>1, <1>2, <2>1, <2>3
    <2>5. l \in g + 1..h - 1
      BY <1>1, <1>2, <1>3, <2>1, <2>4
    <2> QED BY <1>3, <2>2, <2>5
  <1> QED BY <1>6, <1>7

LEMMA BlockInside ==
  ASSUME NEW s \in Texts, NEW n \in 0..Len(s) - 1, NEW f, NEW l, InsideOf(s, f, l, n), n + 1 # l
  PROVE  InsideOf(s, f, l, n + 1)
  <1> DEFINE st == ScanAt(s, n)
             t == s[n + 1]
             r == ScanTo(st, t)
  <1>1. /\ f \in 1..Len(s) /\ l \in 1..Len(s) /\ IsBlock(s, f, l) /\ f <= n /\ n < l
        /\ st.at \in {"empty", "filled"} /\ st.of = s[f][2]
        /\ (\E m \in f + 1..n : IsChar(s[m])) => st.at = "filled"
    BY DEF InsideOf, Covers
  <1>2. Len(s) \in Nat /\ n \in Nat /\ n \in 0..Len(s) /\ f \in Nat /\ l \in Nat /\ n + 1 < l
    BY <1>1, CutAll
  <1>3. ~IsBlockTag(t)
    <2>1. n + 1 \in f + 1..l - 1
      BY <1>1, <1>2
    <2> QED BY <1>1, <2>1, BlockIs
  <1>4. ScanAt(s, n + 1) = r /\ st \in Scanning
    BY <1>2, PlaceSteps DEF Tidy
  <1>5. r.at \in {"empty", "filled"} /\ r.of = s[f][2]
          /\ (IsChar(t) \/ st.at = "filled" => r.at = "filled")
    <2>1. ~OpensBlock(t)
      BY <1>3 DEF IsBlockTag, OpensBlock, IsTag, IsChar
    <2>2. CASE IsTag(t)
      BY <1>1, <1>3, <2>1, <2>2 DEF ScanTo, IsTag
    <2>3. CASE ~IsTag(t)
      <3> DEFINE y == [st EXCEPT !.at = "filled"]
      <3>1. r = y
        BY <1>1, <1>3, <2>1, <2>3 DEF ScanTo
      <3>2. y.at = "filled" /\ y.of = st.of
        BY <1>4 DEF Scanning
      <3> HIDE DEF y, r, st
      <3> QED BY <1>1, <3>1, <3>2
    <2> QED BY <2>2, <2>3
  <1>6. (\E m \in f + 1..n + 1 : IsChar(s[m])) => IsChar(t) \/ st.at = "filled"
    <2> SUFFICES ASSUME NEW m \in f + 1..n + 1, IsChar(s[m]) PROVE IsChar(t) \/ st.at = "filled"
      OBVIOUS
    <2>1. m = n + 1 \/ m \in f + 1..n
      BY <1>2
    <2> QED BY <1>1, <2>1
  <1> HIDE DEF r, st, t
  <1> QED BY <1>1, <1>2, <1>4, <1>5, <1>6 DEF InsideOf, Covers

LEMMA BlocksAreWhole ==
  ASSUME NEW s \in Texts, BlocksWhole(s)
  PROVE  Whole(s)
  <1> DEFINE Fine(n) == \/ Out(s, n) /\ \A f, l : ~Covers(s, f, l, n)
                        \/ \E f, l : InsideOf(s, f, l, n)
             E == {n \in Nat : n <= Len(s) => Fine(n)}
  <1>1. Len(s) \in Nat
    BY CutAll
  <1>2. Fine(0)
    <2>1. ASSUME NEW f, NEW l PROVE ~Covers(s, f, l, 0)
      BY DEF Covers
    <2> QED BY <2>1, PlaceSteps
  <1>3. ASSUME NEW n \in 0..Len(s) - 1, Fine(n) PROVE Fine(n + 1)
    <2>1. n \in Nat /\ n \in 0..Len(s) /\ n + 1 \in 1..Len(s) /\ n + 1 \in 0..Len(s) /\ s[n + 1] \in Token
      BY <1>1, CutAll
    <2>2. CASE Out(s, n) /\ \A f, l : ~Covers(s, f, l, n)
      <3>1. ScanAt(s, n).at = "outside" /\ ScanAt(s, n + 1) = ScanTo(ScanAt(s, n), s[n + 1])
              /\ Tidy(ScanAt(s, n))
        BY <2>1, <2>2, PlaceSteps DEF Out
      <3>2. CASE IsBlockTag(s[n + 1])
        <4>1. PICK f, l \in 1..Len(s) : n + 1 \in {f, l} /\ IsBlock(s, f, l)
          BY <2>1, <3>2 DEF BlocksWhole
        <4>2. f < l /\ OpensBlock(s[f]) /\ s[f][2] \in Blocks
          BY <4>1, BlockIs
        <4>3. n + 1 = f
          <5>1. n + 1 # l
            <6>1. SUFFICES ASSUME n + 1 = l PROVE Covers(s, f, l, n)
              BY <2>2
            <6> QED BY <1>1, <2>1, <4>1, <4>2, <6>1 DEF Covers
          <5> QED BY <4>1, <5>1
        <4>4. ScanAt(s, n + 1).at = "empty" /\ ScanAt(s, n + 1).of = s[f][2]
          BY <3>1, <4>2, <4>3 DEF ScanTo
        <4>5. Covers(s, f, l, n + 1)
          BY <1>1, <4>1, <4>2, <4>3 DEF Covers
        <4>6. ~\E m \in f + 1..n + 1 : IsChar(s[m])
          BY <1>1, <4>1, <4>3
        <4> QED BY <4>4, <4>5, <4>6 DEF InsideOf
      <3>3. CASE ~IsBlockTag(s[n + 1])
        <4>1. ~OpensBlock(s[n + 1])
          BY <3>3 DEF IsBlockTag, OpensBlock, IsTag, IsChar
        <4>2. ScanAt(s, n + 1).at = "outside"
          BY <3>1, <3>3, <4>1 DEF ScanTo, Outside
        <4>3. ASSUME NEW f, NEW l, Covers(s, f, l, n + 1) PROVE FALSE
          <5>1. f \in 1..Len(s) /\ l \in 1..Len(s) /\ IsBlock(s, f, l) /\ f <= n + 1 /\ n + 1 < l
            BY <4>3 DEF Covers
          <5>2. OpensBlock(s[f])
            BY <5>1, BlockIs
          <5>3. f # n + 1
            BY <4>1, <5>2
          <5>4. Covers(s, f, l, n)
            BY <1>1, <2>1, <5>1, <5>3 DEF Covers
          <5> QED BY <2>2, <5>4
        <4> QED BY <4>2, <4>3 DEF Out
      <3> QED BY <3>2, <3>3
    <2>3. CASE \E f, l : InsideOf(s, f, l, n)
      BY <2>3, BlockOver, BlockInside
    <2> QED BY <1>3, <2>2, <2>3
  <1> HIDE DEF Fine
  <1>4. 0..Len(s) \subseteq E
    <2>1. 0 \in E
      BY <1>2
    <2>2. ASSUME NEW n \in 0..Len(s) - 1, n \in E PROVE n + 1 \in E
      <3>1. n \in Nat /\ n <= Len(s) /\ n + 1 \in Nat
        BY <1>1
      <3> QED BY <1>3, <2>2, <3>1
    <2> HIDE DEF E
    <2> QED BY <1>1, <2>1, <2>2, UpTo
  <1>5. Fine(Len(s))
    BY <1>1, <1>4
  <1>6. Out(s, Len(s))
    <2>1. ASSUME NEW f, NEW l, InsideOf(s, f, l, Len(s)) PROVE FALSE
      BY <1>1, <2>1 DEF InsideOf, Covers
    <2> QED BY <1>5, <2>1 DEF Fine
  <1> QED BY <1>6, PlaceSteps DEF Out, Whole

-----------------------------------------------------------------------------
(* The invariant.                                                            *)

Sound(s) == Whole(s) /\ Balanced(s) /\ Framed(s)
Selected(s, sel) == sel \in Agreeing(s) /\ SideBySide(s, sel.start, sel.end)

ActionNames == {insertion.name : insertion \in Insertions} \cup {"cut", "backspace", "delete"} \cup Formats
Sights == {Seen(s) : s \in Texts}
Actions == [start : Nat, end : Nat, new_end : Nat, held : Texts, seen : Sights, name : ActionNames]

\* An action on a stack turns the text v into the one it holds: there is its
\* selection in both.
Turns(a, v) ==
    /\ Sound(a.held)
    /\ a.start <= a.end /\ a.start <= a.new_end
    /\ a.end <= CursorCount(v) /\ a.new_end <= CursorCount(a.held)
\* From v the actions of a stack lead from text to text.
Chained(stack, v) ==
    \A n \in 1..Len(stack) : Turns(stack[n], IF n = Len(stack) THEN v ELSE stack[n + 1].held)

Kept == /\ Sound(value) /\ seen \in Sights
        /\ undo_actions \in Seq(Actions) /\ Chained(undo_actions, value)
        /\ redo_actions \in Seq(Actions) /\ Chained(redo_actions, value)
Inv == Kept /\ Selected(value, selection)

LEMMA ChainAppend ==
  ASSUME NEW stack \in Seq(Actions), NEW a \in Actions, NEW v, Chained(stack, a.held), Turns(a, v)
  PROVE  Append(stack, a) \in Seq(Actions) /\ Chained(Append(stack, a), v)
  <1> DEFINE t == Append(stack, a)
  <1>1. /\ t \in Seq(Actions) /\ Len(t) = Len(stack) + 1 /\ t[Len(stack) + 1] = a /\ Len(stack) \in Nat
        /\ \A n \in 1..Len(stack) : t[n] = stack[n]
    OBVIOUS
  <1> HIDE DEF t
  <1>2. ASSUME NEW n \in 1..Len(t) PROVE Turns(t[n], IF n = Len(t) THEN v ELSE t[n + 1].held)
    <2>1. CASE n = Len(t)
      BY <1>1, <2>1
    <2>2. CASE n # Len(t)
      <3>1. n \in 1..Len(stack) /\ n + 1 \in 1..Len(t)
        BY <1>1, <2>2
      <3>2. t[n + 1].held = IF n = Len(stack) THEN a.held ELSE stack[n + 1].held
        BY <1>1, <3>1
      <3>3. Turns(stack[n], IF n = Len(stack) THEN a.held ELSE stack[n + 1].held)
        BY <3>1 DEF Chained
      <3> QED BY <1>1, <2>2, <3>1, <3>2, <3>3
    <2> QED BY <2>1, <2>2
  <1>3. Chained(t, v)
    BY <1>2 DEF Chained
  <1> QED BY <1>1, <1>3 DEF t

LEMMA ChainFront ==
  ASSUME NEW stack \in Seq(Actions), stack # <<>>, NEW v, Chained(stack, v)
  PROVE  /\ Front(stack) \in Seq(Actions) /\ Chained(Front(stack), Last(stack).held)
         /\ Last(stack) \in Actions /\ Turns(Last(stack), v)
  <1> DEFINE t == Front(stack)
             n == Len(stack)
  <1>1. n \in Nat /\ n >= 1
    BY EmptySeq, LenProperties
  <1>2. /\ t \in Seq(Actions) /\ Len(t) = n - 1 /\ \A m \in 1..n - 1 : t[m] = stack[m]
    <2> DEFINE k == n - 1
    <2>1. t = SubSeq(stack, 1, k) /\ k \in Nat
      BY <1>1 DEF Front
    <2>2. \A i \in 1..k : stack[i] \in Actions
      BY <1>1
    <2> HIDE DEF t, k
    <2>3. /\ SubSeq(stack, 1, k) \in Seq(Actions) /\ Len(SubSeq(stack, 1, k)) = IF 1 <= k THEN k - 1 + 1 ELSE 0
          /\ \A i \in 1..k - 1 + 1 : SubSeq(stack, 1, k)[i] = stack[1 + i - 1]
      BY <2>1, <2>2, SubSeqProperties
    <2>4. Len(t) = k /\ \A i \in 1..k : t[i] = stack[i]
      BY <2>1, <2>3
    <2> QED BY <2>1, <2>3, <2>4 DEF k
  <1>3. Last(stack) = stack[n] /\ stack[n] \in Actions
    BY <1>1 DEF Last
  <1>4. Turns(Last(stack), v)
    BY <1>1, <1>3 DEF Chained
  <1> HIDE DEF t
  <1>5. ASSUME NEW m \in 1..Len(t)
        PROVE  Turns(t[m], IF m = Len(t) THEN Last(stack).held ELSE t[m + 1].held)
    <2>1. m \in 1..n /\ m # n /\ m \in 1..n - 1
      BY <1>1, <1>2
    <2>2. Turns(stack[m], stack[m + 1].held)
      BY <2>1 DEF Chained
    <2>3. m = Len(t) => stack[m + 1] = Last(stack)
      BY <1>1, <1>2, <1>3
    <2>4. m # Len(t) => stack[m + 1] = t[m + 1]
      BY <1>1, <1>2, <2>1
    <2> QED BY <1>2, <2>1, <2>2, <2>3, <2>4
  <1> QED BY <1>2, <1>3, <1>4, <1>5 DEF t, Chained

LEMMA ExchangedIs ==
  ASSUME NEW a \in Actions, Kept
  PROVE  LET r == Exchanged(a)
         IN  /\ r \in Actions /\ r.start = a.start /\ r.end = a.new_end /\ r.new_end = a.end
             /\ r.held = value /\ r.name = a.name
  <1>1. value \in Texts /\ seen \in Sights
    BY DEF Kept, Sound, Whole
  <1> DEFINE r == [start |-> a.start, end |-> a.new_end, new_end |-> a.end,
                   held |-> value, seen |-> seen, name |-> a.name]
  <1>2. Exchanged(a) = r
    <2>1. a = [start |-> a.start, end |-> a.end, new_end |-> a.new_end, held |-> a.held,
               seen |-> a.seen, name |-> a.name]
      BY DEF Actions
    <2>2. Exchanged(a) = [a EXCEPT !.end = a.new_end, !.new_end = a.end, !.held = value, !.seen = seen]
      BY DEF Exchanged
    <2> QED BY <2>1, <2>2
  <1>3. r \in Actions
    BY <1>1 DEF Actions
  <1> QED BY <1>2, <1>3

\* What is on the stack turns a text into one that has an action back to it.
LEMMA TurnsBack ==
  ASSUME NEW a \in Actions, Kept, Turns(a, value)
  PROVE  Turns(Exchanged(a), a.held)
  <1> DEFINE r == Exchanged(a)
  <1>1. /\ r.start = a.start /\ r.end = a.new_end /\ r.new_end = a.end /\ r.held = value
    BY ExchangedIs
  <1>2. Sound(value)
    BY DEF Kept
  <1> HIDE DEF r
  <1>3. Turns(r, a.held)
    BY <1>1, <1>2 DEF Turns
  <1> QED BY <1>3 DEF r

LEMMA FixSelected ==
  ASSUME NEW s, Sound(s), NEW c \in 0..CursorCount(s), NEW d \in 0..CursorCount(s), NEW dir
  PROVE  Selected(s, fixCursors(s, c, d, dir)) /\ fixCursors(s, c, d, dir).start = c
  BY FixIs DEF Sound, Selected

LEMMA SelectedIs ==
  ASSUME NEW s, Sound(s), NEW sel, Selected(s, sel)
  PROVE  /\ sel.start \in 0..CursorCount(s) /\ sel.end \in 0..CursorCount(s) /\ CursorCount(s) \in Nat
         /\ PlaceOf(s, sel.start, sel.start_i) /\ PlaceOf(s, sel.end, sel.end_i)
         /\ sel = [start |-> sel.start, end |-> sel.end, start_i |-> sel.start_i, end_i |-> sel.end_i]
  BY CountIs DEF Sound, Selected, Agreeing

\* A valid selection only gets other indices.
LEMMA RefixIs ==
  ASSUME NEW s, Sound(s), NEW sel, Selected(s, sel)
  PROVE  LET r == fixCursors(s, sel.start, sel.end, "mid")
         IN  /\ Selected(s, r) /\ r.start = sel.start /\ r.end = sel.end
             /\ r.start <= r.end => r.start_i <= r.end_i
             /\ r.end <= r.start => r.end_i <= r.start_i
  <1> DEFINE r == fixCursors(s, sel.start, sel.end, "mid")
  <1>1. sel.start \in 0..CursorCount(s) /\ sel.end \in 0..CursorCount(s) /\ Whole(s)
          /\ SideBySide(s, sel.start, sel.end)
    BY SelectedIs DEF Selected, Sound
  <1>2. r = IndicesOnly(s, sel.start, sel.end, "mid") /\ Selected(s, r)
    BY <1>1, FixIs DEF Selected
  <1> HIDE DEF r
  <1>3. LET i == IndicesOnly(s, sel.start, sel.end, "mid")
        IN  /\ i.start = sel.start /\ i.end = sel.end
            /\ sel.start <= sel.end => i.start_i <= i.end_i
            /\ sel.end <= sel.start => i.end_i <= i.start_i
    BY <1>1, IndicesAgree
  <1>4. /\ Selected(s, r) /\ r.start = sel.start /\ r.end = sel.end
        /\ sel.start <= sel.end => r.start_i <= r.end_i
        /\ sel.end <= sel.start => r.end_i <= r.start_i
    BY <1>2, <1>3
  <1> QED BY <1>4 DEF r

\* The same from the smaller to the larger cursor position.
LEMMA UnreversedIs ==
  ASSUME Kept, NEW sel, Selected(value, sel)
  PROVE  LET r == Unreversed(sel)
         IN  /\ Selected(value, r) /\ r.start <= r.end /\ r.start_i <= r.end_i
             /\ Ordered(r) = r /\ Low(r) = r.start
  <1> DEFINE c == Low(sel)
             d == sel.start + sel.end - c
             r == Unreversed(sel)
  <1>1. /\ Sound(value) /\ Whole(value) /\ sel.start \in 0..CursorCount(value)
        /\ sel.end \in 0..CursorCount(value) /\ CursorCount(value) \in Nat
        /\ SideBySide(value, sel.start, sel.end)
    BY SelectedIs DEF Kept, Sound, Selected
  <1>2. Low(sel) = IF sel.start <= sel.end THEN sel.start ELSE sel.end
    <2>1. {sel.start, sel.end} \in SUBSET Nat /\ {sel.start, sel.end} # {}
      BY <1>1
    <2>2. Min({sel.start, sel.end}) \in {sel.start, sel.end}
            /\ \A i \in {sel.start, sel.end} : Min({sel.start, sel.end}) <= i
      BY <2>1, LeastIs
    <2> QED BY <1>1, <2>2 DEF Low
  <1>3. /\ c \in 0..CursorCount(value) /\ d \in 0..CursorCount(value) /\ c <= d
        /\ SideBySide(value, c, d)
    <2>1. CASE sel.start <= sel.end
      BY <1>1, <1>2, <2>1
    <2>2. CASE ~(sel.start <= sel.end)
      <3>1. c = sel.end /\ d = sel.start
        BY <1>1, <1>2, <2>2
      <3>2. SideBySide(value, sel.end, sel.start)
        BY <1>1 DEF SideBySide, OneSide
      <3> QED BY <1>1, <2>2, <3>1, <3>2
    <2> QED BY <2>1, <2>2
  <1>4. r = fixCursors(value, c, d, "mid")
    BY DEF Unreversed
  <1> HIDE DEF c, d, r
  <1>5. r = IndicesOnly(value, c, d, "mid") /\ Selected(value, r)
    BY <1>1, <1>3, <1>4, FixIs DEF Selected
  <1>6. r.start = c /\ r.end = d /\ r.start_i <= r.end_i
    BY <1>1, <1>3, <1>5, IndicesAgree
  <1>7. r.start <= r.end
    BY <1>3, <1>6
  <1>8. Ordered(r) = r
    BY <1>7 DEF Ordered
  <1>9. Low(r) = r.start
    <2>1. c \in Nat /\ d \in Nat
      BY <1>1, <1>3
    <2>2. {r.start, r.end} \in SUBSET Nat /\ {r.start, r.end} # {}
      BY <1>6, <2>1
    <2>3. Min({r.start, r.end}) \in {r.start, r.end}
            /\ \A i \in {r.start, r.end} : Min({r.start, r.end}) <= i
      BY <2>2, LeastIs
    <2> QED BY <1>6, <1>7, <2>1, <2>3 DEF Low
  <1> QED BY <1>5, <1>6, <1>7, <1>8, <1>9 DEF r

-----------------------------------------------------------------------------
(* The steps.                                                                *)

LEMMA MergedAction ==
  ASSUME NEW old \in Actions, NEW b \in Actions, NEW w, Turns(old, b.held), Turns(b, w),
         merge(old, b) # <<>>
  PROVE  \E m \in Actions : merge(old, b) = <<m>> /\ m.held = old.held /\ Turns(m, w)
  <1>0. /\ old = [start |-> old.start, end |-> old.end, new_end |-> old.new_end, held |-> old.held,
                  seen |-> old.seen, name |-> old.name]
        /\ old.start \in Nat /\ old.end \in Nat /\ old.new_end \in Nat /\ old.held \in Texts
        /\ old.seen \in Sights /\ old.name \in ActionNames
        /\ b.start \in Nat /\ b.end \in Nat /\ b.new_end \in Nat
    BY DEF Actions
  <1>1. /\ Sound(old.held) /\ old.start <= old.end /\ old.start <= old.new_end
        /\ old.new_end <= CursorCount(old.held)
        /\ b.start <= b.end /\ b.start <= b.new_end /\ b.end <= CursorCount(w)
    BY DEF Turns
  <1>2. CASE b.start = old.end
    <2> DEFINE m == [start |-> old.start, end |-> b.end, new_end |-> old.new_end, held |-> old.held,
                     seen |-> old.seen, name |-> old.name]
    <2>1. merge(old, b) = <<m>>
      <3>1. m = [old EXCEPT !.end = b.end]
        BY <1>0
      <3>2. merge(old, b) = <<[old EXCEPT !.end = b.end]>>
        BY <1>2 DEF merge
      <3> QED BY <3>1, <3>2
    <2>2. m \in Actions
      BY <1>0 DEF Actions
    <2>3. m.start <= m.end
      BY <1>0, <1>1, <1>2
    <2>4. Turns(m, w)
      BY <1>1, <2>3 DEF Turns
    <2> QED BY <2>1, <2>2, <2>4
  <1>3. CASE b.start # old.end
    <2> DEFINE m == [start |-> b.start, end |-> b.end, new_end |-> old.new_end, held |-> old.held,
                     seen |-> old.seen, name |-> old.name]
    <2>1. merge(old, b) = <<m>> /\ b.new_end = old.start
      <3>0. old = [start |-> old.start, end |-> old.end, new_end |-> old.new_end, held |-> old.held,
                   seen |-> old.seen, name |-> old.name]
        BY <1>0
      <3>1. m = [old EXCEPT !.start = b.start, !.end = b.end]
        <4> DEFINE y == [old EXCEPT !.start = b.start, !.end = b.end]
        <4>1. y \in Actions
          BY <1>0 DEF Actions
        <4>2. /\ y.start = b.start /\ y.end = b.end /\ y.new_end = old.new_end
              /\ y.held = old.held /\ y.seen = old.seen /\ y.name = old.name
          BY <3>0
        <4>3. y = [start |-> y.start, end |-> y.end, new_end |-> y.new_end, held |-> y.held,
                   seen |-> y.seen, name |-> y.name]
          <5> HIDE DEF y
          <5> QED BY <4>1 DEF Actions
        <4> QED BY <4>2, <4>3
      <3>2. merge(old, b) = <<[old EXCEPT !.start = b.start, !.end = b.end]>> /\ b.new_end = old.start
        BY <1>3 DEF merge
      <3> QED BY <3>1, <3>2
    <2>2. m \in Actions
      BY <1>0 DEF Actions
    <2>3. m.start <= m.new_end
      BY <1>0, <1>1, <2>1
    <2>4. Turns(m, w)
      BY <1>1, <2>3 DEF Turns
    <2> QED BY <2>1, <2>2, <2>4
  <1> QED BY <1>2, <1>3

LEMMA StayKeeps ==
  ASSUME Kept, Stay
  PROVE  Kept' /\ value' = value
  BY DEF Kept, Stay

LEMMA AddKeeps ==
  ASSUME Kept, NEW action \in Actions, Turns(action, value), addAction(action)
  PROVE  Kept' /\ value' = action.held
  <1> DEFINE b == Exchanged(action)
             merged == IF redo_actions = <<>> /\ undo_actions # <<>> /\ last_was_add
                       THEN merge(Last(undo_actions), b) ELSE <<>>
  <1>1. /\ value' = action.held /\ seen' = action.seen /\ redo_actions' = <<>>
        /\ undo_actions' = Pushed(b)
    BY DEF addAction
  <1>2. b \in Actions /\ b.held = value /\ Turns(b, action.held)
    BY ExchangedIs, TurnsBack
  <1>3. Sound(action.held) /\ action.seen \in Sights
    BY DEF Turns, Actions
  <1>4. undo_actions \in Seq(Actions) /\ Chained(undo_actions, value)
    BY DEF Kept
  <1>5. Pushed(b) = IF merged # <<>> THEN Front(undo_actions) \o merged ELSE Append(undo_actions, b)
    BY DEF Pushed
  <1> HIDE DEF b
  <1>6. Pushed(b) \in Seq(Actions) /\ Chained(Pushed(b), action.held)
    <2>1. CASE merged = <<>>
      BY <1>2, <1>4, <1>5, <2>1, ChainAppend
    <2>2. CASE merged # <<>>
      <3> DEFINE old == Last(undo_actions)
                 rest == Front(undo_actions)
      <3>1. undo_actions # <<>> /\ merged = merge(old, b) /\ merge(old, b) # <<>>
        BY <2>2
      <3>2. /\ rest \in Seq(Actions) /\ Chained(rest, old.held)
            /\ old \in Actions /\ Turns(old, value)
        BY <1>4, <3>1, ChainFront
      <3> HIDE DEF old, rest, merged
      <3>3. PICK m \in Actions : merge(old, b) = <<m>> /\ m.held = old.held /\ Turns(m, action.held)
        BY <1>2, <3>1, <3>2, MergedAction
      <3>4. rest \o <<m>> = Append(rest, m)
        BY <3>2
      <3>5. Pushed(b) = Append(rest, m)
        BY <1>5, <2>2, <3>1, <3>3, <3>4 DEF rest
      <3> QED BY <3>2, <3>3, <3>5, ChainAppend
    <2> QED BY <2>1, <2>2
  <1>7. <<>> \in Seq(Actions) /\ Chained(<<>>, action.held)
    BY DEF Chained
  <1>8. /\ Sound(value') /\ seen' \in Sights
        /\ undo_actions' \in Seq(Actions) /\ Chained(undo_actions', value')
        /\ redo_actions' \in Seq(Actions) /\ Chained(redo_actions', value')
    BY <1>1, <1>3, <1>6, <1>7
  <1> QED BY <1>1, <1>8 DEF Kept

\* What is typed, or nothing.
TypedText(rep) == rep \in Texts /\ Balanced(rep) /\ \A n \in 1..Len(rep) : ~IsBlockTag(rep[n])

LEMMA TypedCount ==
  ASSUME NEW rep, TypedText(rep)
  PROVE  CursorCount(rep) = Len(OfKind(rep, {"char"})) /\ CursorCount(rep) \in Nat
  <1> DEFINE n == Len(OfKind(rep, {"char"}))
  <1>1. rep \in Texts /\ \A i \in 1..Len(rep) : ~IsBlockTag(rep[i])
    BY DEF TypedText
  <1>2. n \in Nat /\ Scan(rep) = Outside(0 + n)
    BY <1>1, ScanFlat DEF Scan
  <1> HIDE DEF n
  <1>3. Scan(rep).at = "outside" /\ Scan(rep).width = n
    BY <1>2 DEF Outside
  <1>4. CursorCount(rep) = n
    BY <1>1, <1>3, CountIs DEF Whole
  <1> QED BY <1>2, <1>4 DEF n

LEMMA ActionIs ==
  ASSUME NEW start \in Nat, NEW end \in Nat, NEW new_end \in Nat, NEW new \in Texts, NEW name \in ActionNames
  PROVE  LET a == Action(start, end, new_end, new, name)
         IN  a \in Actions /\ a.start = start /\ a.end = end /\ a.new_end = new_end /\ a.held = new
  <1>1. Seen(new) \in Sights
    BY DEF Sights
  <1> QED BY <1>1 DEF Action, Actions

LEMMA TypingTurns ==
  ASSUME Kept, NEW sel, Selected(value, sel), sel.start <= sel.end, sel.start_i <= sel.end_i,
         NEW rep, TypedText(rep), NEW name \in ActionNames
  PROVE  LET a == typing_action(sel, sel, rep, name)
         IN  /\ a \in Actions /\ Turns(a, value) /\ a.end = sel.end
             /\ a.new_end = sel.start + CursorCount(rep) /\ CursorCount(rep) \in Nat
  <1> DEFINE r == tagged_substr_replace(value, sel.start_i, sel.end_i, rep)
             n == Len(OfKind(rep, {"char"}))
  <1>1. Sound(value) /\ value \in Texts /\ Balanced(value) /\ Whole(value) /\ Framed(value)
    BY DEF Kept, Sound, Whole
  <1>2. /\ sel.start \in 0..CursorCount(value) /\ sel.end \in 0..CursorCount(value)
        /\ CursorCount(value) \in Nat /\ CursorCount(value) = Scan(value).width
        /\ sel.start_i \in 0..Len(value) /\ sel.end_i \in 0..Len(value)
        /\ ScanAt(value, sel.start_i).at = "outside" /\ ScanAt(value, sel.end_i).at = "outside"
        /\ ScanAt(value, sel.start_i).width = sel.start /\ ScanAt(value, sel.end_i).width = sel.end
    BY <1>1, SelectedIs, CountIs DEF PlaceOf, Out, Width
  <1>3. rep \in Texts /\ Balanced(rep) /\ \A i \in 1..Len(rep) : ~IsBlockTag(rep[i])
    BY DEF TypedText
  <1>4. /\ r \in Texts /\ Balanced(r) /\ Whole(r) /\ n \in Nat
        /\ \E k \in Nat : /\ Scan(value).width = ScanAt(value, sel.end_i).width + k
                          /\ Scan(r).width = (ScanAt(value, sel.start_i).width + n) + k
    BY <1>1, <1>2, <1>3, Replaced
  <1>11. Framed(r)
    <2>1. sel \in Agreeing(value) /\ SideBySide(value, sel.start, sel.end)
      BY DEF Selected
    <2>2. Clear(value, sel.start_i, sel.end_i)
      BY <1>1, <2>1, SelectedClear
    <2>3. Out(value, sel.start_i) /\ Out(value, sel.end_i)
      BY <1>2 DEF Out
    <2> QED BY <1>1, <1>2, <1>3, <2>2, <2>3, FrameReplaced
  <1> HIDE DEF r
  <1>5. CursorCount(rep) = n /\ CursorCount(rep) \in Nat
    BY TypedCount
  <1> HIDE DEF n
  <1>6. CursorCount(r) = Scan(r).width
    BY <1>4, CountIs
  <1>7. sel.start + n <= CursorCount(r)
    BY <1>2, <1>4, <1>6
  <1> DEFINE a == typing_action(sel, sel, rep, name)
  <1>8. a = Action(sel.start, sel.end, sel.start + n, r, name)
    BY DEF typing_action, r, n
  <1> HIDE DEF a
  <1>9. /\ a \in Actions /\ a.start = sel.start /\ a.end = sel.end /\ a.new_end = sel.start + n /\ a.held = r
    <2>1. sel.start \in Nat /\ sel.end \in Nat /\ sel.start + n \in Nat /\ r \in Texts
      BY <1>2, <1>4
    <2> QED BY <1>8, <2>1, ActionIs
  <1>10. Turns(a, value)
    <2>1. sel.start <= sel.start + n
      BY <1>2, <1>4
    <2> QED BY <1>2, <1>4, <1>7, <1>9, <1>11, <2>1 DEF Turns, Sound
  <1> QED BY <1>5, <1>9, <1>10 DEF a

\* What is selected is replaced.
LEMMA ReplaceKeeps ==
  ASSUME Kept, NEW sel, Selected(value, sel), NEW rep, TypedText(rep), NEW name \in ActionNames,
         replaceSelection(sel, rep, name)
  PROVE  Inv'
  <1>1. CASE rep = <<>> /\ sel.start = sel.end
    <2>1. selection' = sel /\ Stay
      BY <1>1 DEF replaceSelection
    <2>2. Kept' /\ value' = value
      BY <2>1, StayKeeps
    <2>3. Selected(value', selection')
      BY <2>1, <2>2
    <2> QED BY <2>2, <2>3 DEF Inv
  <1>2. CASE ~(rep = <<>> /\ sel.start = sel.end)
    <2> DEFINE u == Unreversed(sel)
               a == typing_action(u, u, rep, name)
               cursor == Low(u) + CursorCount(rep)
    <2>1. /\ Selected(value, u) /\ u.start <= u.end /\ u.start_i <= u.end_i
          /\ Ordered(u) = u /\ Low(u) = u.start
      BY UnreversedIs
    <2>2. ReplaceWith(a, cursor)
      BY <1>2, <2>1 DEF replaceSelection, replaceIn
    <2> HIDE DEF u
    <2>3. /\ a \in Actions /\ Turns(a, value) /\ a.end = u.end
          /\ a.new_end = u.start + CursorCount(rep) /\ CursorCount(rep) \in Nat
      BY <2>1, TypingTurns
    <2>4. u.start \in Nat /\ u.end \in 0..CursorCount(value) /\ Sound(value)
      <3>1. Sound(value)
        BY DEF Kept
      <3>2. u.start \in 0..CursorCount(value) /\ u.end \in 0..CursorCount(value) /\ CursorCount(value) \in Nat
        BY <2>1, <3>1, SelectedIs
      <3> QED BY <3>1, <3>2
    <2>5. cursor = u.start + CursorCount(rep)
      BY <2>1
    <2> HIDE DEF a, cursor
    <2>6. CASE a.held = value
      <3>1. Stay /\ selection' = fixCursors(value, a.end, a.end, "mid")
        BY <2>2, <2>6 DEF ReplaceWith, addChange
      <3>2. Kept' /\ value' = value
        BY <3>1, StayKeeps
      <3>3. Selected(value', selection')
        BY <2>3, <2>4, <3>1, <3>2, FixSelected
      <3> QED BY <3>2, <3>3 DEF Inv
    <2>7. CASE a.held # value
      <3>1. addAction(a) /\ selection' = fixCursors(value', cursor, cursor, "right")
        BY <2>2, <2>7 DEF ReplaceWith, addChange
      <3>2. Kept' /\ value' = a.held
        BY <2>3, <3>1, AddKeeps
      <3>3. Sound(value') /\ cursor \in 0..CursorCount(value')
        <4>1. Sound(a.held) /\ a.new_end <= CursorCount(a.held)
          BY <2>3 DEF Turns
        <4>2. CursorCount(a.held) \in Nat
          BY <4>1, CountIs DEF Sound
        <4> QED BY <2>3, <2>4, <2>5, <3>2, <4>1, <4>2
      <3>4. Selected(value', selection')
        BY <3>1, <3>3, FixSelected
      <3> QED BY <3>2, <3>4 DEF Inv
    <2> QED BY <2>6, <2>7
  <1> QED BY <1>1, <1>2

LEMMA OrderedIs ==
  ASSUME NEW s, Sound(s), NEW sel, Selected(s, sel),
         sel.start <= sel.end => sel.start_i <= sel.end_i,
         sel.end <= sel.start => sel.end_i <= sel.start_i
  PROVE  LET r == Ordered(sel)
         IN  Selected(s, r) /\ r.start <= r.end /\ r.start_i <= r.end_i
  <1>1. /\ sel.start \in 0..CursorCount(s) /\ sel.end \in 0..CursorCount(s) /\ CursorCount(s) \in Nat
        /\ PlaceOf(s, sel.start, sel.start_i) /\ PlaceOf(s, sel.end, sel.end_i)
        /\ sel.start_i \in Nat /\ sel.end_i \in Nat
        /\ SideBySide(s, sel.start, sel.end)
    BY SelectedIs DEF Selected, Agreeing
  <1>2. CASE sel.start <= sel.end
    BY <1>2 DEF Ordered
  <1>3. CASE ~(sel.start <= sel.end)
    <2> DEFINE r == [start |-> sel.end, end |-> sel.start, start_i |-> sel.end_i, end_i |-> sel.start_i]
    <2>1. Ordered(sel) = r
      BY <1>3 DEF Ordered
    <2>2. r \in Agreeing(s)
      BY <1>1 DEF Agreeing
    <2>3. SideBySide(s, sel.end, sel.start)
      BY <1>1 DEF SideBySide, OneSide
    <2>4. r.start <= r.end /\ r.start_i <= r.end_i
      BY <1>1, <1>3
    <2>5. Selected(s, r)
      BY <2>2, <2>3 DEF Selected
    <2> QED BY <2>1, <2>4, <2>5
  <1> QED BY <1>2, <1>3

LEMMA FormatTurns ==
  ASSUME Kept, NEW sel, Selected(value, sel), sel.start <= sel.end, sel.start_i <= sel.end_i,
         NEW tag \in Formats
  PROVE  LET a == toggle_format_action(sel, tag)
         IN  /\ a \in Actions /\ Turns(a, value) /\ CursorCount(a.held) = CursorCount(value)
  <1> DEFINE u == IF is_in_tag(value, tag, sel.start_i, sel.end_i) THEN Close(tag) ELSE Open(tag)
             i == sel.start_i
             j == sel.end_i
             r == Sub(value, 0, i) \o <<u>> \o Sub(value, i, j) \o <<anti_tag(u)>> \o Sub(value, j, Len(value))
             new == IF sel.start = sel.end THEN r ELSE simplify_tagged(r)
             a == toggle_format_action(sel, tag)
  <1>1. Sound(value) /\ value \in Texts /\ Balanced(value) /\ Whole(value) /\ Framed(value)
    BY DEF Kept, Sound, Whole
  <1>2. /\ sel.start \in 0..CursorCount(value) /\ sel.end \in 0..CursorCount(value)
        /\ CursorCount(value) \in Nat /\ CursorCount(value) = Scan(value).width
        /\ i \in 0..Len(value) /\ j \in 0..Len(value) /\ Out(value, i) /\ Out(value, j)
    BY <1>1, SelectedIs, CountIs DEF PlaceOf
  <1>3. /\ u \in Token /\ IsFormat(u) /\ u[2] = tag
        /\ u = Close(u[2]) => \A pos \in i..j : Level(value, u[2], pos) > 0
    <2>1. /\ Open(tag) \in Token /\ Close(tag) \in Token
          /\ IsFormat(Open(tag)) /\ IsFormat(Close(tag))
          /\ Open(tag)[2] = tag /\ Close(tag)[2] = tag /\ Open(tag) # Close(tag)
      <3>1. tag \in Names
        BY DEF Names
      <3>2. Open(tag) \in Token /\ Close(tag) \in Token
        BY <3>1 DEF Open, Close, Token, Kinds
      <3> QED BY <3>2, TagsDiffer DEF IsFormat
    <2>2. CASE is_in_tag(value, tag, i, j)
      <3>1. u = Close(tag)
        BY <2>2
      <3>2. \A pos \in i..j : Level(value, tag, pos) > 0
        BY <2>2 DEF is_in_tag
      <3> HIDE DEF u
      <3> QED BY <2>1, <3>1, <3>2
    <2>3. CASE ~is_in_tag(value, tag, i, j)
      <3>1. u = Open(tag)
        BY <2>3
      <3> HIDE DEF u
      <3> QED BY <2>1, <3>1
    <2> QED BY <2>2, <2>3
  <1>4. Toggled(sel, tag) = r
    <2>1. sel.start_i <= sel.end_i
      OBVIOUS
    <2> QED BY <2>1 DEF Toggled
  <1>5. a = Action(sel.start, sel.end, sel.end, new, tag)
    <2> HIDE DEF r
    <2> QED BY <1>4 DEF toggle_format_action
  <1> HIDE DEF u
  <1>6. r \in Texts /\ Balanced(r) /\ Scan(r) = Scan(value) /\ Framed(r)
    <2>1. i <= j /\ sel \in Agreeing(value) /\ SideBySide(value, sel.start, sel.end)
      BY DEF Selected
    <2>2. Clear(value, i, j)
      BY <1>1, <2>1, SelectedClear
    <2> HIDE DEF i, j
    <2>3. Framed(r)
      BY <1>1, <1>2, <1>3, <2>1, <2>2, FrameFormat
    <2> QED BY <1>1, <1>2, <1>3, <2>1, <2>3, FormatAround
  <1> HIDE DEF r
  <1>7. Scan(r).at = "outside"
    BY <1>1, <1>6 DEF Whole
  <1>8. new \in Texts /\ Balanced(new) /\ Scan(new) = Scan(value) /\ Framed(new)
    <2>1. simplify_tagged(r) \in Texts /\ Balanced(simplify_tagged(r))
      BY <1>6, SimplifiedBalanced
    <2>2. Scan(simplify_tagged(r)) = Scan(r)
      BY <1>6, <1>7, SimplifiedScan
    <2>3. Framed(simplify_tagged(r))
      BY <1>6, FrameIs, SimplifiedReading DEF Framed
    <2> QED BY <1>6, <2>1, <2>2, <2>3
  <1> HIDE DEF new, a
  <1>9. Whole(new) /\ Sound(new)
    BY <1>1, <1>8 DEF Whole, Sound
  <1>10. CursorCount(new) = CursorCount(value)
    BY <1>2, <1>8, <1>9, CountIs
  <1>11. a \in Actions /\ a.start = sel.start /\ a.end = sel.end /\ a.new_end = sel.end /\ a.held = new
    <2>1. sel.start \in Nat /\ sel.end \in Nat /\ tag \in ActionNames
      BY <1>2 DEF ActionNames
    <2> QED BY <1>5, <1>8, <2>1, ActionIs
  <1>12. Turns(a, value)
    BY <1>2, <1>9, <1>10, <1>11 DEF Turns
  <1> QED BY <1>10, <1>11, <1>12 DEF a

LEMMA FixedIs ==
  ASSUME Inv
  PROVE  /\ Selected(value, Fixed) /\ Fixed.start \in 0..CursorCount(value)
         /\ Fixed.end \in 0..CursorCount(value) /\ CursorCount(value) \in Nat /\ Sound(value)
         /\ Fixed.start <= Fixed.end => Fixed.start_i <= Fixed.end_i
         /\ Fixed.end <= Fixed.start => Fixed.end_i <= Fixed.start_i
  <1> DEFINE r == fixCursors(value, selection.start, selection.end, "mid")
  <1>1. Sound(value) /\ Selected(value, selection)
    BY DEF Inv, Kept
  <1>2. /\ Selected(value, r)
        /\ r.start <= r.end => r.start_i <= r.end_i
        /\ r.end <= r.start => r.end_i <= r.start_i
    BY <1>1, RefixIs
  <1>3. Fixed = r
    BY DEF Fixed
  <1> HIDE DEF r
  <1> QED BY <1>1, <1>2, <1>3, SelectedIs

LEMMA FormatKeeps ==
  ASSUME Inv, DrawnFirst, NEW tag \in Formats, doFormat(tag)
  PROVE  Inv'
  <1> DEFINE range == Ordered(selection)
             a == toggle_format_action(range, tag)
  <1>1. selection = Fixed /\ Sound(value) /\ Kept
    BY FixedIs DEF doFormat, Inv
  <1>2. /\ Selected(value, selection)
        /\ selection.start \in 0..CursorCount(value) /\ selection.end \in 0..CursorCount(value)
        /\ selection.start <= selection.end => selection.start_i <= selection.end_i
        /\ selection.end <= selection.start => selection.end_i <= selection.start_i
    BY <1>1, FixedIs
  <1>3. Selected(value, range) /\ range.start <= range.end /\ range.start_i <= range.end_i
    BY <1>1, <1>2, OrderedIs
  <1>4. addChange(a) /\ selection' = fixCursors(value', selection.start, selection.end, "mid")
    BY DEF doFormat
  <1> HIDE DEF range
  <1>5. a \in Actions /\ Turns(a, value) /\ CursorCount(a.held) = CursorCount(value)
    BY <1>1, <1>3, FormatTurns
  <1> HIDE DEF a
  <1>6. Kept' /\ CursorCount(value') = CursorCount(value) /\ Sound(value')
    <2>1. CASE a.held = value
      <3>1. Stay
        BY <1>4, <2>1 DEF addChange
      <3> QED BY <1>1, <3>1, StayKeeps
    <2>2. CASE a.held # value
      <3>1. addAction(a)
        BY <1>4, <2>2 DEF addChange
      <3>2. Kept' /\ value' = a.held
        BY <1>1, <1>5, <3>1, AddKeeps
      <3> QED BY <1>5, <3>2 DEF Turns
    <2> QED BY <2>1, <2>2
  <1>7. Selected(value', selection')
    BY <1>2, <1>4, <1>6, FixSelected
  <1> QED BY <1>6, <1>7 DEF Inv

LEMMA MoveKeeps ==
  ASSUME Inv, NEW c \in 0..CursorCount(value), NEW d \in 0..CursorCount(value), NEW dir,
         selection' = fixCursors(value, c, d, dir), Stay
  PROVE  Inv'
  <1>1. Kept' /\ value' = value /\ Sound(value)
    BY StayKeeps DEF Inv, Kept
  <1>2. Selected(value', selection')
    BY <1>1, FixSelected
  <1> QED BY <1>1, <1>2 DEF Inv

LEMMA NextTo ==
  ASSUME NEW c \in 0..CursorCount(value), CursorCount(value) \in Nat
  PROVE  prevCharBoundary(c) \in 0..CursorCount(value) /\ nextCharBoundary(c) \in 0..CursorCount(value)
  <1>1. prevCharBoundary(c) \in {0, c - 1} /\ prevCharBoundary(c) >= 0
    <2>1. prevCharBoundary(c) = CHOOSE x \in {0, c - 1} : \A y \in {0, c - 1} : x >= y
      BY DEF prevCharBoundary, Max
    <2>2. \E x \in {0, c - 1} : \A y \in {0, c - 1} : x >= y
      <3>1. CASE c = 0
        BY <3>1
      <3>2. CASE c # 0
        BY <3>2
      <3> QED BY <3>1, <3>2
    <2> QED BY <2>1, <2>2
  <1>2. nextCharBoundary(c) \in {CursorCount(value), c + 1} /\ nextCharBoundary(c) <= CursorCount(value)
    <2>1. {CursorCount(value), c + 1} \in SUBSET Nat /\ {CursorCount(value), c + 1} # {}
      OBVIOUS
    <2>2. /\ Min({CursorCount(value), c + 1}) \in {CursorCount(value), c + 1}
          /\ \A i \in {CursorCount(value), c + 1} : Min({CursorCount(value), c + 1}) <= i
      BY <2>1, LeastIs
    <2> QED BY <2>2 DEF nextCharBoundary
  <1> QED BY <1>1, <1>2

LEMMA NothingTyped == TypedText(<<>>)
  <1>1. <<>> \in Texts /\ Len(<<>>) = 0
    BY DEF Texts
  <1>2. Range(<<>>) = {}
    BY DEF Range
  <1>3. Balanced(<<>>)
    BY <1>2 DEF Balanced
  <1> QED BY <1>1, <1>3 DEF TypedText

LEMMA EraseKeeps ==
  ASSUME Inv, NEW sel, Selected(value, sel), NEW cursor \in 0..CursorCount(value), NEW dir,
         NEW name \in ActionNames, Erase(sel, cursor, dir, name)
  PROVE  Inv'
  <1> DEFINE selected == IF sel.start # sel.end THEN sel ELSE MoveTo(value, sel, cursor, FALSE, "mid")
  <1>1. Kept /\ Sound(value)
    BY DEF Inv, Kept
  <1>2. Selected(value, selected)
    <2>1. MoveTo(value, sel, cursor, FALSE, "mid") = fixCursors(value, sel.start, cursor, "mid")
      BY DEF MoveTo
    <2>2. sel.start \in 0..CursorCount(value)
      BY <1>1, SelectedIs
    <2> QED BY <1>1, <2>1, <2>2, FixSelected
  <1>3. EraseSelected(selected, cursor, dir, name)
    BY DEF Erase
  <1> HIDE DEF selected
  <1>4. CASE selected.start = selected.end
    <2>1. selection' = fixCursors(value, cursor, cursor, dir) /\ Stay
      BY <1>3, <1>4 DEF EraseSelected
    <2> QED BY <2>1, MoveKeeps
  <1>5. CASE selected.start # selected.end
    <2>1. replaceSelection(selected, <<>>, name)
      BY <1>3, <1>5 DEF EraseSelected
    <2> QED BY <1>1, <1>2, <2>1, NothingTyped, ReplaceKeeps
  <1> QED BY <1>4, <1>5

LEMMA UndoKeeps ==
  ASSUME Inv, undo
  PROVE  Inv'
  <1> DEFINE a == Last(undo_actions)
             b == Exchanged(a)
  <1>1. Kept /\ undo_actions # <<>>
    BY DEF Inv, undo
  <1>2. /\ value' = a.held /\ seen' = a.seen /\ redo_actions' = Append(redo_actions, b)
        /\ undo_actions' = Front(undo_actions)
        /\ selection' = fixCursors(value', b.start, b.end, "mid")
    BY DEF undo, Shown
  <1>3. /\ Front(undo_actions) \in Seq(Actions) /\ Chained(Front(undo_actions), a.held)
        /\ a \in Actions /\ Turns(a, value)
        /\ redo_actions \in Seq(Actions) /\ Chained(redo_actions, value)
    BY <1>1, ChainFront DEF Kept
  <1> HIDE DEF a
  <1>4. b \in Actions /\ b.held = value /\ Turns(b, a.held)
    BY <1>1, <1>3, ExchangedIs, TurnsBack
  <1> HIDE DEF b
  <1>5. Append(redo_actions, b) \in Seq(Actions) /\ Chained(Append(redo_actions, b), a.held)
    BY <1>3, <1>4, ChainAppend
  <1>6. Sound(a.held) /\ a.seen \in Sights
    BY <1>3 DEF Turns, Actions
  <1>7. /\ Sound(value') /\ seen' \in Sights
        /\ undo_actions' \in Seq(Actions) /\ Chained(undo_actions', value')
        /\ redo_actions' \in Seq(Actions) /\ Chained(redo_actions', value')
    BY <1>2, <1>3, <1>5, <1>6
  <1>8. b.start \in 0..CursorCount(value') /\ b.end \in 0..CursorCount(value')
    <2>1. b.start \in Nat /\ b.end \in Nat /\ b.start <= b.end /\ b.end <= CursorCount(value')
      BY <1>2, <1>4 DEF Turns, Actions
    <2>2. CursorCount(value') \in Nat
      BY <1>7, CountIs DEF Sound
    <2> QED BY <2>1, <2>2
  <1>9. Selected(value', selection')
    BY <1>2, <1>7, <1>8, FixSelected
  <1> QED BY <1>7, <1>9 DEF Inv, Kept

LEMMA RedoKeeps ==
  ASSUME Inv, redo
  PROVE  Inv'
  <1> DEFINE a == Last(redo_actions)
             b == Exchanged(a)
  <1>1. Kept /\ redo_actions # <<>>
    BY DEF Inv, redo
  <1>2. /\ value' = a.held /\ seen' = a.seen /\ undo_actions' = Append(undo_actions, b)
        /\ redo_actions' = Front(redo_actions)
        /\ selection' = fixCursors(value', b.start, b.end, "mid")
    BY DEF redo, Shown
  <1>3. /\ Front(redo_actions) \in Seq(Actions) /\ Chained(Front(redo_actions), a.held)
        /\ a \in Actions /\ Turns(a, value)
        /\ undo_actions \in Seq(Actions) /\ Chained(undo_actions, value)
    BY <1>1, ChainFront DEF Kept
  <1> HIDE DEF a
  <1>4. b \in Actions /\ b.held = value /\ Turns(b, a.held)
    BY <1>1, <1>3, ExchangedIs, TurnsBack
  <1> HIDE DEF b
  <1>5. Append(undo_actions, b) \in Seq(Actions) /\ Chained(Append(undo_actions, b), a.held)
    BY <1>3, <1>4, ChainAppend
  <1>6. Sound(a.held) /\ a.seen \in Sights
    BY <1>3 DEF Turns, Actions
  <1>7. /\ Sound(value') /\ seen' \in Sights
        /\ undo_actions' \in Seq(Actions) /\ Chained(undo_actions', value')
        /\ redo_actions' \in Seq(Actions) /\ Chained(redo_actions', value')
    BY <1>2, <1>3, <1>5, <1>6
  <1>8. b.start \in 0..CursorCount(value') /\ b.end \in 0..CursorCount(value')
    <2>1. b.start \in Nat /\ b.end \in Nat /\ b.start <= b.end /\ b.end <= CursorCount(value')
      BY <1>2, <1>4 DEF Turns, Actions
    <2>2. CursorCount(value') \in Nat
      BY <1>7, CountIs DEF Sound
    <2> QED BY <2>1, <2>2
  <1>9. Selected(value', selection')
    BY <1>2, <1>7, <1>8, FixSelected
  <1> QED BY <1>7, <1>9 DEF Inv, Kept

LEMMA TextsAre ==
  /\ \A text \in InitialTexts : Sound(text) /\ text \in Texts
  /\ \A insertion \in Insertions : TypedText(insertion.text) /\ insertion.name \in ActionNames
  <1>1. Seq(Kinds \X STRING) \subseteq Texts
    <2>1. Kinds \X STRING \subseteq Token
      BY DEF Token, Names
    <2> QED BY <2>1 DEF Texts
  <1>2. ASSUME NEW text \in InitialTexts PROVE Sound(text) /\ text \in Texts
    <2>1. text \in Texts /\ Balanced(text) /\ BlocksWhole(text)
      BY <1>1, TextsAssumption
    <2>2. Whole(text)
      BY <2>1, BlocksAreWhole
    <2>3. Framed(text)
      BY <2>2, SeparatorsAssumption, FramedOf
    <2> QED BY <2>1, <2>2, <2>3 DEF Sound
  <1>3. ASSUME NEW insertion \in Insertions
        PROVE  TypedText(insertion.text) /\ insertion.name \in ActionNames
    <2>1. insertion.text \in Texts /\ Balanced(insertion.text)
            /\ \A n \in 1..Len(insertion.text) : ~IsBlockTag(insertion.text[n])
      BY <1>1, TextsAssumption
    <2> QED BY <2>1 DEF TypedText, ActionNames
  <1> QED BY <1>2, <1>3

LEMMA InitInv ==
  ASSUME Init
  PROVE  Inv
  <1>1. /\ Sound(value) /\ value \in Texts /\ Whole(value) /\ seen \in Sights
    BY TextsAre DEF Init, Sights, Sound
  <1>2. <<>> \in Seq(Actions) /\ Chained(<<>>, value)
    BY DEF Chained
  <1>3. Kept
    BY <1>1, <1>2 DEF Init, Kept
  <1>4. PlaceOf(value, 0, 0) /\ 0 \in 0..CursorCount(value)
    BY <1>1, PlaceSteps, CountIs, CutAll DEF PlaceOf
  <1>5. selection \in Agreeing(value) /\ selection.start = 0 /\ selection.end = 0
    BY <1>4 DEF Init, Agreeing
  <1>6. SideBySide(value, selection.start, selection.end)
    BY <1>5 DEF SideBySide, OneSide
  <1> QED BY <1>3, <1>5, <1>6 DEF Inv, Selected

LEMMA NextInv ==
  ASSUME Inv, DrawnFirst, [Next]_vars
  PROVE  Inv'
  <1>1. /\ Kept /\ Sound(value) /\ Selected(value, selection) /\ Selected(value, Fixed)
        /\ Fixed.start \in 0..CursorCount(value) /\ Fixed.end \in 0..CursorCount(value)
        /\ CursorCount(value) \in Nat
    BY FixedIs DEF Inv
  <1>2. {"cut", "backspace", "delete"} \subseteq ActionNames
    BY DEF ActionNames
  <1>3. prevCharBoundary(Fixed.end) \in 0..CursorCount(value)
          /\ nextCharBoundary(Fixed.end) \in 0..CursorCount(value)
    BY <1>1, NextTo
  <1>4. CASE \E insertion \in Insertions : typeText(insertion)
    <2>1. PICK insertion \in Insertions : replaceSelection(Fixed, insertion.text, insertion.name)
      BY <1>4 DEF typeText
    <2>2. TypedText(insertion.text) /\ insertion.name \in ActionNames
      BY TextsAre
    <2> QED BY <1>1, <2>1, <2>2, ReplaceKeeps
  <1>5. CASE doDelete
    <2>1. replaceSelection(selection, <<>>, "cut")
      BY <1>5 DEF doDelete
    <2> QED BY <1>1, <1>2, <2>1, NothingTyped, ReplaceKeeps
  <1>6. CASE backspace
    <2>1. Erase(Fixed, prevCharBoundary(Fixed.end), "left", "backspace")
      BY <1>6 DEF backspace, eraseBack
    <2> QED BY <1>1, <1>2, <1>3, <2>1, EraseKeeps
  <1>7. CASE delete
    <2>1. Erase(Fixed, nextCharBoundary(Fixed.end), "right", "delete")
      BY <1>7 DEF delete, eraseNext
    <2> QED BY <1>1, <1>2, <1>3, <2>1, EraseKeeps
  <1>8. CASE \E tag \in Formats : doFormat(tag)
    BY <1>8, FormatKeeps
  <1>9. ASSUME NEW step \in 0..CursorCount(value), NEW shift \in BOOLEAN, NEW dir, moveCursor(step, shift, dir)
        PROVE  Inv'
    <2> DEFINE c == IF ~shift THEN step ELSE Fixed.start
    <2>1. Stay /\ selection' = fixCursors(value, c, step, dir)
      BY <1>9 DEF moveCursor, MoveTo
    <2>2. c \in 0..CursorCount(value)
      BY <1>1
    <2> HIDE DEF c
    <2> QED BY <2>1, <2>2, MoveKeeps
  <1>10. ASSUME NEW index, NEW shift \in BOOLEAN, NEW dir, moveIndex(index, shift, dir)
         PROVE  Inv'
    <2> DEFINE i == IF ~shift THEN index ELSE Fixed.start_i
               c == index_to_cursor(value, i, dir)
               d == index_to_cursor(value, index, dir)
    <2>1. Stay /\ selection' = fixCursors(value, c, d, dir)
      BY <1>10 DEF moveIndex, MoveToIndex, fixIndices
    <2> HIDE DEF i
    <2>2. c \in 0..CursorCount(value) /\ d \in 0..CursorCount(value)
      BY <1>1, CursorOf DEF Sound
    <2> HIDE DEF c, d
    <2> QED BY <2>1, <2>2, MoveKeeps
  <1>11. CASE draw
    <2>1. selection' = Fixed /\ Stay
      BY <1>11 DEF draw
    <2>2. Kept' /\ value' = value
      BY <1>1, <2>1, StayKeeps
    <2>3. Selected(value', selection')
      BY <1>1, <2>1, <2>2
    <2> QED BY <2>2, <2>3 DEF Inv
  <1>12. CASE undo
    BY <1>12, UndoKeeps
  <1>13. CASE redo
    BY <1>13, RedoKeeps
  <1>14. CASE UNCHANGED vars
    <2>1. Stay /\ selection' = selection
      BY <1>14 DEF vars, Stay
    <2>2. Kept' /\ value' = value
      BY <1>1, <2>1, StayKeeps
    <2>3. Selected(value', selection')
      BY <1>1, <2>1, <2>2
    <2> QED BY <2>2, <2>3 DEF Inv
  <1>15. CASE \E shift \in BOOLEAN : moveCursor(prevCharBoundary(Fixed.end), shift, "left")
    BY <1>3, <1>9, <1>15
  <1>16. CASE \E shift \in BOOLEAN : moveCursor(nextCharBoundary(Fixed.end), shift, "right")
    BY <1>3, <1>9, <1>16
  <1>17. CASE \E index \in 0..Len(value), shift \in BOOLEAN : moveIndex(index, shift, "mid")
    BY <1>10, <1>17
  <1>18. CASE \E shift \in BOOLEAN : moveIndex(0, shift, "left_opt")
    BY <1>10, <1>18
  <1>19. CASE \E shift \in BOOLEAN : moveIndex(Len(value), shift, "right_opt")
    BY <1>10, <1>19
  <1> QED BY <1>4, <1>5, <1>6, <1>7, <1>8, <1>11, <1>12, <1>13, <1>14, <1>15, <1>16, <1>17, <1>18, <1>19 DEF Next

LEMMA InvBalanced ==
  ASSUME Inv
  PROVE  TagsBalanced
  <1>1. Balanced(value) /\ Chained(undo_actions, value)
    BY DEF Inv, Kept, Sound
  <1>2. ASSUME NEW n \in 1..Len(undo_actions) PROVE Balanced(undo_actions[n].held)
    BY <1>1 DEF Chained, Turns, Sound
  <1> QED BY <1>1, <1>2 DEF TagsBalanced

LEMMA InvSelection ==
  ASSUME Inv
  PROVE  SelectionValid
  <1>1. Sound(value) /\ Whole(value) /\ Selected(value, selection)
    BY DEF Inv, Kept, Sound
  <1>2. /\ selection.start \in 0..CursorCount(value) /\ selection.end \in 0..CursorCount(value)
        /\ PlaceOf(value, selection.start, selection.start_i)
        /\ PlaceOf(value, selection.end, selection.end_i)
        /\ SideBySide(value, selection.start, selection.end)
    BY <1>1, SelectedIs DEF Selected
  <1>3. /\ index_to_cursor(value, selection.start_i, "mid") = selection.start
        /\ index_to_cursor(value, selection.end_i, "mid") = selection.end
    BY <1>1, <1>2, CursorOf DEF PlaceOf
  <1>4. ASSUME NEW n \in 1..CursorCount(value), Head(untag_for_cursor(value)[n]) = Open("sep")
        PROVE  selection.start < n <=> selection.end < n
    <2> DEFINE starts == Ascending(ItemStarts(value))
               p == starts[n]
               e == ItemEnd(value, p)
    <2>1. /\ Len(starts) = CursorCount(value) /\ p \in ItemStarts(value) /\ Width(value, p) = n - 1
      BY <1>1, StartsAre
    <2>2. untag_for_cursor(value)[n] = Sub(value, p, e)
      BY <2>1 DEF untag_for_cursor
    <2> HIDE DEF starts, p, e
    <2>3. p \in 0..Len(value) - 1 /\ e \in p + 1..Len(value) /\ Len(value) \in Nat /\ value \in Texts
      BY <1>1, <2>1, ItemEnds, ItemsAre DEF e
    <2>4. /\ p \in 0..Len(value) /\ e \in 0..Len(value) /\ p <= e /\ 1 \in 1..e - p
      BY <2>3
    <2>5. Head(untag_for_cursor(value)[n]) = value[p + 1]
      <3>1. Sub(value, p, e) \in Texts /\ Len(Sub(value, p, e)) = e - p /\ Sub(value, p, e)[1] = value[p + 1]
        BY <2>3, <2>4, SubIs
      <3>2. Head(Sub(value, p, e)) = Sub(value, p, e)[1]
        BY <2>4, <3>1 DEF Texts
      <3> QED BY <2>2, <3>1, <3>2
    <2>6. p \in SepsOf(value)
      BY <1>4, <2>3, <2>5 DEF SepsOf, Positions, At
    <2>7. selection.start <= n - 1 <=> selection.end <= n - 1
      BY <1>2, <2>1, <2>6 DEF SideBySide, OneSide
    <2> QED BY <1>1, <1>2, <2>7, CountIs
  <1> QED BY <1>2, <1>3, <1>4 DEF SelectionValid

LEMMA InvSeparators ==
  ASSUME Inv
  PROVE  SeparatorsKept
  BY FramedGiven DEF Inv, Kept, Sound, SeparatorsKept

LEMMA InvAlways ==
  ASSUME DrawnFirst
  PROVE  Spec => []Inv
  <1>1. Init => Inv
    BY InitInv
  <1>2. Inv /\ [Next]_vars => Inv'
    BY NextInv
  <1> QED BY <1>1, <1>2, PTL DEF Spec

\* As long as a text is drawn before a format is chosen: whatever is typed,
\* erased, formatted, undone and redone, every tag of the field and of the texts
\* undo brings back is closed, and no edit takes one half of a pair.
THEOREM TagsStayBalanced ==
  ASSUME DrawnFirst
  PROVE  Spec => []TagsBalanced
  <1>1. Inv => TagsBalanced
    BY InvBalanced
  <1> QED BY <1>1, InvAlways, PTL

\* Under the same assumption the cursor positions and the indices of the
\* selection agree after every event, and both ends are on one side of each
\* separator, however the texts nest their formats and blocks.
THEOREM SelectionStaysValid ==
  ASSUME DrawnFirst
  PROVE  Spec => []SelectionValid
  <1>1. Inv => SelectionValid
    BY InvSelection
  <1> QED BY <1>1, InvAlways, PTL

\* Under the same assumption the separators between the parts of the field are
\* there after every event, as many and as they were written: giving the parts to
\* the fields they belong to and joining those again gives the text that is shown.
THEOREM SeparatorsStay ==
  ASSUME DrawnFirst
  PROVE  Spec => []SeparatorsKept
  <1>1. Inv => SeparatorsKept
    BY InvSeparators
  <1> QED BY <1>1, InvAlways, PTL
=============================================================================
