--------------------------- MODULE KeywordsProofs ---------------------------
(***************************************************************************)
(* Theorems about Keywords, for any keywords and match strings of the set  *)
(* and the game, texts of any length and any number of edits.              *)
(*                                                                         *)
(* KeywordsInv is inductive: besides the two properties it says that each  *)
(* valid keyword has the regular expression of its match string, so that   *)
(* what is looked for is never empty.  The rest is about one expansion:    *)
(* positions in the text with tags and in the one without are converted    *)
(* into each other (Count, IndexFound), tags are taken out in between      *)
(* (TakenOut), and cutting both at a keyword found in one leaves them the  *)
(* same text (TryExpandGives), which a search (Searching) and one keyword  *)
(* after the other (Expandings) keep.                                      *)
(***************************************************************************)
EXTENDS Keywords, PositionsProofs

-----------------------------------------------------------------------------
(* Texts and the characters in them.                                         *)

Kinds == {"char", "open", "close", "reminder"}
Labels == {"0", "1", "a", "A", ""}      \* the kinds of expansion; a reminder has none
Tokens == ({"char"} \X STRING) \cup ({"open", "close", "reminder"} \X Labels)
Texts == Seq(Tokens)

LEMMA TokenKinds ==
  ASSUME NEW t \in Tokens
  PROVE  /\ t \in {"char"} \X STRING <=> IsChar(t)
         /\ IsChar(t) => t[2] \in STRING
  BY DEF Tokens, IsChar

LEMMA OfKindType ==
  ASSUME NEW kinds \in SUBSET Kinds, NEW s \in Texts
  PROVE  OfKind(s, kinds) \in Texts /\ OfKind(s, kinds) \in Seq(kinds \X STRING)
  <1>1. Filter(s, kinds \X STRING) \in Seq(Tokens \cap (kinds \X STRING))
        /\ Filter(s, kinds \X STRING) \in Seq(Tokens)
    BY FilterType DEF Texts
  <1>2. Seq(Tokens \cap (kinds \X STRING)) \subseteq Seq(kinds \X STRING)
    OBVIOUS
  <1> QED BY <1>1, <1>2 DEF OfKind, Texts

LEMMA OfKindConcat ==
  ASSUME NEW kinds, NEW a \in Texts, NEW b \in Texts
  PROVE  a \o b \in Texts /\ OfKind(a \o b, kinds) = OfKind(a, kinds) \o OfKind(b, kinds)
  BY FilterConcat DEF OfKind, Texts

LEMMA OfKindTwice ==
  ASSUME NEW kinds \in SUBSET Kinds, NEW more \in SUBSET Kinds, kinds \subseteq more,
         NEW s \in Texts
  PROVE  OfKind(OfKind(s, more), kinds) = OfKind(s, kinds)
  <1>1. Tokens \cap (kinds \X STRING) \subseteq more \X STRING
    OBVIOUS
  <1> QED BY <1>1, FilterTwice DEF OfKind, Texts

LEMMA UntagType ==
  ASSUME NEW s \in Texts
  PROVE  /\ Untag(s) \in Seq(STRING)
         /\ OfKind(s, {"char"}) \in Seq({"char"} \X STRING)
         /\ Len(Untag(s)) = Len(OfKind(s, {"char"}))
         /\ \A i \in 1..Len(Untag(s)) : Untag(s)[i] = OfKind(s, {"char"})[i][2]
  <1> DEFINE c == OfKind(s, {"char"})
  <1>1. c \in Seq({"char"} \X STRING)
    BY OfKindType DEF Kinds
  <1>2. Untag(s) = [i \in 1..Len(c) |-> c[i][2]]
    BY DEF Untag
  <1> HIDE DEF c
  <1>3. \A i \in 1..Len(c) : c[i][2] \in STRING
    BY <1>1
  <1> QED BY <1>1, <1>2, <1>3 DEF c

\* Texts with the same characters are the same to the user.
LEMMA UntagEqual ==
  ASSUME NEW s, NEW t, OfKind(s, {"char"}) = OfKind(t, {"char"})
  PROVE  Untag(s) = Untag(t)
  BY DEF Untag

LEMMA UntagEmpty == Untag(<<>>) = <<>> /\ <<>> \in Texts
  <1>1. OfKind(<<>>, {"char"}) = <<>>
    BY FilterEmpty DEF OfKind
  <1>2. Len(<<>>) = 0 /\ <<>> \in Texts
    BY DEF Texts
  <1> QED BY <1>1, <1>2 DEF Untag

LEMMA UntagConcat ==
  ASSUME NEW a \in Texts, NEW b \in Texts
  PROVE  a \o b \in Texts /\ Untag(a \o b) = Untag(a) \o Untag(b)
  <1> DEFINE ca == OfKind(a, {"char"})
             cb == OfKind(b, {"char"})
             cc == OfKind(a \o b, {"char"})
             ua == Untag(a)
             ub == Untag(b)
             uc == Untag(a \o b)
  <1>1. a \o b \in Texts /\ cc = ca \o cb
    BY OfKindConcat
  <1>2. /\ ua \in Seq(STRING) /\ ca \in Seq({"char"} \X STRING)
        /\ Len(ua) = Len(ca) /\ \A i \in 1..Len(ua) : ua[i] = ca[i][2]
    BY UntagType
  <1>3. /\ ub \in Seq(STRING) /\ cb \in Seq({"char"} \X STRING)
        /\ Len(ub) = Len(cb) /\ \A i \in 1..Len(ub) : ub[i] = cb[i][2]
    BY UntagType
  <1>4. /\ uc \in Seq(STRING) /\ Len(uc) = Len(cc) /\ \A i \in 1..Len(uc) : uc[i] = cc[i][2]
    BY <1>1, UntagType
  <1> HIDE DEF ca, cb, cc, ua, ub, uc
  <1>5. Len(cc) = Len(ca) + Len(cb) /\ \A i \in 1..Len(cc) :
          cc[i] = IF i <= Len(ca) THEN ca[i] ELSE cb[i - Len(ca)]
    BY <1>1, <1>2, <1>3
  <1> DEFINE w == ua \o ub
  <1>6. w \in Seq(STRING) /\ Len(w) = Len(ua) + Len(ub) /\ \A i \in 1..Len(w) :
          w[i] = IF i <= Len(ua) THEN ua[i] ELSE ub[i - Len(ua)]
    <2>1. ua \in Seq(STRING) /\ ub \in Seq(STRING)
      BY <1>2, <1>3
    <2>2. /\ w \in Seq(STRING) /\ Len(w) = Len(ua) + Len(ub)
          /\ \A i \in 1..Len(ua) + Len(ub) : w[i] = IF i <= Len(ua) THEN ua[i] ELSE ub[i - Len(ua)]
      BY <2>1, ConcatProperties
    <2> HIDE DEF w
    <2> QED BY <2>2
  <1> HIDE DEF w
  <1>7. Len(uc) = Len(w)
    BY <1>2, <1>3, <1>4, <1>5, <1>6
  <1>8. ASSUME NEW i \in 1..Len(w) PROVE uc[i] = w[i]
    <2>1. CASE i <= Len(ua)
      <3>1. i \in 1..Len(ua) /\ i \in 1..Len(cc)
        BY <1>2, <1>3, <1>4, <1>6, <1>7, <2>1
      <3> QED BY <1>2, <1>4, <1>5, <1>6, <1>7, <2>1, <3>1
    <2>2. CASE i > Len(ua)
      <3>1. i - Len(ua) \in 1..Len(ub) /\ i \in 1..Len(cc)
        BY <1>2, <1>3, <1>4, <1>6, <1>7, <2>2
      <3>2. uc[i] = cb[i - Len(ua)][2]
        BY <1>2, <1>4, <1>5, <1>7, <2>2, <3>1
      <3>3. w[i] = ub[i - Len(ua)]
        BY <1>2, <1>6, <2>2, <3>1
      <3> QED BY <1>3, <3>1, <3>2, <3>3
    <2>3. i <= Len(ua) \/ i > Len(ua)
      BY <1>2
    <2> QED BY <2>1, <2>2, <2>3
  <1>9. uc = w
    BY <1>4, <1>6, <1>7, <1>8
  <1> QED BY <1>1, <1>9 DEF w, ua, ub, uc

\* One token is one character or none.
LEMMA UntagToken ==
  ASSUME NEW t \in Tokens
  PROVE  <<t>> \in Texts /\ Untag(<<t>>) = IF IsChar(t) THEN <<t[2]>> ELSE <<>>
  <1>1. <<t>> = Append(<<>>, t) /\ <<>> \in Seq(Tokens) /\ <<t>> \in Seq(Tokens)
    OBVIOUS
  <1> DEFINE c == {"char"} \X STRING
  <1>2. t \in c <=> IsChar(t)
    BY TokenKinds
  <1> HIDE DEF c
  <1>3. Filter(<<t>>, c) = IF t \in c THEN Append(<<>>, t) ELSE <<>>
    BY <1>1, FilterAppend, FilterEmpty
  <1>4. OfKind(<<t>>, {"char"}) = IF IsChar(t) THEN <<t>> ELSE <<>>
    BY <1>1, <1>2, <1>3 DEF OfKind, c
  <1>5. Len(<<t>>) = 1 /\ <<t>>[1] = t /\ Len(<<>>) = 0
    OBVIOUS
  <1>6. CASE IsChar(t)
    <2> DEFINE u == Untag(<<t>>)
    <2>1. /\ u \in Seq(STRING) /\ Len(u) = Len(OfKind(<<t>>, {"char"}))
          /\ \A i \in 1..Len(u) : u[i] = OfKind(<<t>>, {"char"})[i][2]
      BY <1>1, UntagType DEF Texts
    <2> HIDE DEF u
    <2>2. Len(u) = 1 /\ 1 \in 1..Len(u)
      BY <1>4, <1>5, <1>6, <2>1
    <2>3. u[1] = t[2]
      BY <1>4, <1>5, <1>6, <2>1, <2>2
    <2>4. u = <<t[2]>>
      BY <2>1, <2>2, <2>3
    <2> QED BY <1>1, <1>6, <2>4 DEF Texts, u
  <1>7. CASE ~IsChar(t)
    BY <1>1, <1>4, <1>5, <1>7 DEF Untag, Texts
  <1> QED BY <1>6, <1>7

\* Tokens other than characters can be left out.
LEMMA UntagOfKind ==
  ASSUME NEW kinds \in SUBSET Kinds, "char" \in kinds, NEW s \in Texts
  PROVE  OfKind(s, kinds) \in Texts /\ Untag(OfKind(s, kinds)) = Untag(s)
  <1>1. {"char"} \in SUBSET Kinds /\ {"char"} \subseteq kinds
    BY DEF Kinds
  <1>2. OfKind(OfKind(s, kinds), {"char"}) = OfKind(s, {"char"})
    BY <1>1, OfKindTwice
  <1> QED BY <1>2, UntagEqual, OfKindType

-----------------------------------------------------------------------------
(* Places in a text.                                                         *)

\* A text of characters only.
LEMMA UntagChars ==
  ASSUME NEW s \in Seq(STRING)
  PROVE  Chars(s) \in Texts /\ Untag(Chars(s)) = s
  <1> DEFINE t == Chars(s)
             c == {"char"} \X STRING
  <1>1. t \in Seq(c) /\ Len(t) = Len(s) /\ \A i \in 1..Len(s) : t[i][2] = s[i]
    BY DEF Chars, Char
  <1>2. c \subseteq Tokens
    BY DEF Tokens, Kinds
  <1> HIDE DEF t, c
  <1>3. t \in Texts
    BY <1>1, <1>2 DEF Texts
  <1>4. Filter(t, c) = t
    BY <1>1, FilterAll
  <1>5. OfKind(t, {"char"}) = t
    BY <1>4 DEF OfKind, c
  <1> DEFINE u == Untag(t)
  <1>6. /\ u \in Seq(STRING) /\ Len(u) = Len(t) /\ \A i \in 1..Len(u) : u[i] = t[i][2]
    BY <1>3, <1>5, UntagType
  <1> HIDE DEF u
  <1>7. u = s
    BY <1>1, <1>6
  <1> QED BY <1>3, <1>7 DEF t, u

\* Texts that differ in other tokens only.
LEMMA UntagSame ==
  ASSUME NEW s \in Texts, NEW t \in Texts, Len(t) = Len(s),
         \A i \in 1..Len(s) : s[i] = t[i] \/ (~IsChar(s[i]) /\ ~IsChar(t[i]))
  PROVE  Untag(t) = Untag(s)
  <1> DEFINE c == {"char"} \X STRING
  <1>1. \A i \in 1..Len(s) : s[i] = t[i] \/ (s[i] \notin c /\ t[i] \notin c)
    BY DEF IsChar
  <1>2. Filter(t, c) = Filter(s, c)
    <2> HIDE DEF c
    <2> QED BY <1>1, FilterSame DEF Texts
  <1>3. OfKind(s, {"char"}) = OfKind(t, {"char"})
    BY <1>2 DEF OfKind
  <1> QED BY <1>3, UntagEqual

\* A sequence is two parts, one after the other.
LEMMA Cut ==
  ASSUME NEW S, NEW s \in Seq(S), NEW i \in 0..Len(s)
  PROVE  /\ SubSeq(s, 1, i) \in Seq(S) /\ Len(SubSeq(s, 1, i)) = i
         /\ SubSeq(s, i + 1, Len(s)) \in Seq(S) /\ Len(SubSeq(s, i + 1, Len(s))) = Len(s) - i
         /\ SubSeq(s, 1, i) \o SubSeq(s, i + 1, Len(s)) = s
  <1> DEFINE a == SubSeq(s, 1, i)
             b == SubSeq(s, i + 1, Len(s))
             c == a \o b
  <1>1. i \in Nat /\ Len(s) \in Nat /\ i <= Len(s)
    OBVIOUS
  <1>2. a \in Seq(S) /\ Len(a) = i /\ \A k \in 1..i : a[k] = s[k]
    BY <1>1, SubSeqProperties
  <1>3. b \in Seq(S) /\ Len(b) = Len(s) - i /\ \A k \in 1..Len(s) - i : b[k] = s[i + k]
    <2>1. i + 1 \in 1..Len(s) + 1
      BY <1>1
    <2>2. b \in Seq(S) /\ Len(b) = Len(s) - i
      BY <1>1, <2>1, SubSeqProperties
    <2>3. ASSUME NEW k \in 1..Len(s) - i PROVE b[k] = s[i + k]
      <3>1. k \in 1..Len(s) - (i + 1) + 1 /\ (i + 1) + k - 1 = i + k
        BY <1>1
      <3> QED BY <1>1, <2>1, <3>1, SubSeqProperties
    <2> QED BY <2>2, <2>3
  <1> HIDE DEF a, b
  <1>4. c \in Seq(S) /\ Len(c) = Len(s)
    BY <1>1, <1>2, <1>3
  <1>5. ASSUME NEW k \in 1..Len(s) PROVE c[k] = s[k]
    <2>1. c[k] = IF k <= i THEN a[k] ELSE b[k - i]
      BY <1>1, <1>2, <1>3, ConcatProperties
    <2>2. CASE k <= i
      BY <1>2, <2>1, <2>2
    <2>3. CASE k > i
      <3>1. k - i \in 1..Len(s) - i /\ i + (k - i) = k
        BY <1>1, <2>3
      <3> QED BY <1>1, <1>3, <2>1, <2>3, <3>1
    <2>4. k <= i \/ k > i
      BY <1>1
    <2> QED BY <2>2, <2>3, <2>4
  <1> HIDE DEF c
  <1>6. c = s
    BY <1>4, <1>5
  <1> QED BY <1>2, <1>3, <1>6 DEF a, b, c

\* How many characters there are up to a place.
Count(s, i) == Len(Untag(SubSeq(s, 1, i)))

LEMMA CutText ==
  ASSUME NEW s \in Texts, NEW i \in 0..Len(s)
  PROVE  /\ SubSeq(s, 1, i) \in Texts /\ SubSeq(s, i + 1, Len(s)) \in Texts
         /\ Len(SubSeq(s, 1, i)) = i /\ Len(SubSeq(s, i + 1, Len(s))) = Len(s) - i
         /\ Untag(SubSeq(s, 1, i)) \o Untag(SubSeq(s, i + 1, Len(s))) = Untag(s)
         /\ Count(s, i) \in 0..Len(Untag(s))
         /\ SubSeq(Untag(s), 1, Count(s, i)) = Untag(SubSeq(s, 1, i))
         /\ SubSeq(Untag(s), Count(s, i) + 1, Len(Untag(s))) = Untag(SubSeq(s, i + 1, Len(s)))
  <1> DEFINE a == SubSeq(s, 1, i)
             b == SubSeq(s, i + 1, Len(s))
             ua == Untag(a)
             ub == Untag(b)
             u == Untag(s)
  <1>1. a \in Texts /\ b \in Texts /\ a \o b = s /\ Len(a) = i /\ Len(b) = Len(s) - i
    BY Cut DEF Texts
  <1>2. ua \in Seq(STRING) /\ ub \in Seq(STRING) /\ u \in Seq(STRING)
    BY <1>1, UntagType
  <1>3. ua \o ub = u
    BY <1>1, UntagConcat
  <1>4. Count(s, i) = Len(ua)
    BY DEF Count
  <1> HIDE DEF a, b, ua, ub, u
  <1>5. Len(u) = Len(ua) + Len(ub) /\ \A k \in 1..Len(u) :
          u[k] = IF k <= Len(ua) THEN ua[k] ELSE ub[k - Len(ua)]
    BY <1>2, <1>3, ConcatProperties
  <1>6. Len(ua) \in 0..Len(u)
    BY <1>2, <1>5
  <1>7. SubSeq(u, 1, Len(ua)) = ua
    <2> DEFINE c == SubSeq(u, 1, Len(ua))
    <2>1. c \in Seq(STRING) /\ Len(c) = Len(ua) /\ \A k \in 1..Len(ua) : c[k] = u[k]
      BY <1>2, <1>6, SubSeqProperties
    <2>2. \A k \in 1..Len(ua) : k \in 1..Len(u) /\ k <= Len(ua)
      BY <1>2, <1>6
    <2> HIDE DEF c
    <2>3. c = ua
      BY <1>2, <1>5, <2>1, <2>2
    <2> QED BY <2>3 DEF c
  <1>8. SubSeq(u, Len(ua) + 1, Len(u)) = ub
    <2> DEFINE c == SubSeq(u, Len(ua) + 1, Len(u))
               n == Len(ua)
    <2>1. c \in Seq(STRING) /\ Len(c) = Len(u) - n /\ u = ua \o c
      <3>1. c \in Seq(STRING) /\ Len(c) = Len(u) - n /\ SubSeq(u, 1, n) \o c = u
        BY <1>2, <1>6, Cut
      <3> QED BY <1>7, <3>1
    <2> HIDE DEF c, n
    <2>2. Len(c) = Len(ub) /\ n \in Nat /\ Len(ua) = n
      BY <1>2, <1>5, <2>1 DEF n
    <2>3. ASSUME NEW k \in 1..Len(ub) PROVE c[k] = ub[k]
      <3>1. k + n \in 1..Len(u) /\ (k + n) - n = k /\ ~(k + n <= n)
        BY <1>2, <1>5, <2>2
      <3>2. u[k + n] = ub[k]
        BY <1>5, <2>2, <3>1
      <3>3. u[k + n] = c[k]
        <4>1. k + n \in 1..Len(ua) + Len(c)
          BY <1>2, <2>1, <2>2
        <4>2. \A j \in 1..Len(ua) + Len(c) :
                (ua \o c)[j] = IF j <= Len(ua) THEN ua[j] ELSE c[j - Len(ua)]
          BY <1>2, <2>1, ConcatProperties
        <4>3. (ua \o c)[k + n] = c[(k + n) - Len(ua)]
          BY <2>2, <3>1, <4>1, <4>2
        <4> QED BY <2>1, <2>2, <3>1, <4>3
      <3> QED BY <3>2, <3>3
    <2>4. c = ub
      BY <1>2, <2>1, <2>2, <2>3
    <2> QED BY <2>4 DEF c
  <1> QED BY <1>1, <1>3, <1>4, <1>6, <1>7, <1>8 DEF a, b, ua, ub, u

LEMMA CountSteps ==
  ASSUME NEW s \in Texts
  PROVE  /\ Count(s, 0) = 0 /\ Count(s, Len(s)) = Len(Untag(s))
         /\ \A i \in 1..Len(s) :
              /\ Count(s, i) \in Nat /\ Count(s, i - 1) \in Nat
              /\ Count(s, i) = Count(s, i - 1) + (IF IsChar(s[i]) THEN 1 ELSE 0)
         /\ \A i, j \in 0..Len(s) : i <= j => Count(s, i) <= Count(s, j)
  <1>1. Len(s) \in Nat /\ SubSeq(s, 1, Len(s)) = s
    BY DEF Texts
  <1>2. Count(s, 0) = 0
    <2> DEFINE a == SubSeq(s, 1, 0)
    <2>1. a \in Texts /\ Len(a) = 0
      BY <1>1, CutText
    <2>2. a = <<>>
      <3> HIDE DEF a
      <3> QED BY <2>1 DEF Texts
    <2>3. Len(<<>>) = 0
      OBVIOUS
    <2> QED BY <2>2, <2>3, UntagEmpty DEF Count
  <1>3. ASSUME NEW i \in 1..Len(s)
        PROVE  /\ Count(s, i) \in Nat /\ Count(s, i - 1) \in Nat
               /\ Count(s, i) = Count(s, i - 1) + (IF IsChar(s[i]) THEN 1 ELSE 0)
    <2> DEFINE a == SubSeq(s, 1, i - 1)
               b == SubSeq(s, 1, i)
               t == s[i]
    <2>1. i - 1 \in 0..Len(s) /\ i \in 0..Len(s) /\ i \in Nat
      BY <1>1
    <2>2. a \in Texts /\ b \in Texts /\ Len(a) = i - 1 /\ Len(b) = i
      BY <2>1, CutText
    <2>3. t \in Tokens /\ (\A k \in 1..i - 1 : a[k] = s[k]) /\ \A k \in 1..i : b[k] = s[k]
      BY <1>1, <2>1, SubSeqProperties DEF Texts
    <2>4. <<t>> \in Texts /\ Untag(<<t>>) = IF IsChar(t) THEN <<t[2]>> ELSE <<>>
      BY <2>3, UntagToken
    <2> HIDE DEF a, b, t
    <2>5. b = a \o <<t>>
      <3> DEFINE c == a \o <<t>>
      <3>1. c \in Seq(Tokens) /\ Len(c) = i /\ \A k \in 1..i : c[k] = IF k <= i - 1 THEN a[k] ELSE t
        BY <2>1, <2>2, <2>3 DEF Texts
      <3>2. \A k \in 1..i : c[k] = b[k]
        <4>1. \A k \in 1..i : k \in 1..i - 1 \/ k = i
          BY <2>1
        <4> QED BY <2>1, <2>3, <3>1, <4>1 DEF t
      <3> HIDE DEF c
      <3>3. b = c
        BY <2>2, <3>1, <3>2 DEF Texts
      <3> QED BY <3>3 DEF c
    <2>6. Untag(b) = Untag(a) \o Untag(<<t>>) /\ Untag(a) \in Seq(STRING)
      BY <2>2, <2>4, <2>5, UntagConcat, UntagType
    <2>7. Untag(<<t>>) \in Seq(STRING) /\ Len(Untag(<<t>>)) = IF IsChar(t) THEN 1 ELSE 0
      <3>1. Untag(<<t>>) \in Seq(STRING)
        BY <2>4, UntagType
      <3>2. Len(<<>>) = 0 /\ Len(<<t[2]>>) = 1
        OBVIOUS
      <3> QED BY <2>4, <3>1, <3>2
    <2> DEFINE ua == Untag(a)
               ut == Untag(<<t>>)
    <2>8. Len(ua \o ut) = Len(ua) + Len(ut) /\ Len(ua) \in Nat /\ Len(ut) \in Nat
      <3> HIDE DEF ua, ut
      <3>1. ua \in Seq(STRING) /\ ut \in Seq(STRING)
        BY <2>6, <2>7 DEF ua, ut
      <3> QED BY <3>1
    <2>9. Len(Untag(b)) = Len(Untag(a)) + (IF IsChar(t) THEN 1 ELSE 0)
      BY <2>6, <2>7, <2>8
    <2> QED BY <2>7, <2>8, <2>9 DEF Count, a, b, t
  <1>4. ASSUME NEW i \in 0..Len(s), NEW j \in 0..Len(s), i <= j PROVE Count(s, i) <= Count(s, j)
    <2> DEFINE N == {n \in Nat : i + n <= Len(s) => Count(s, i) <= Count(s, i + n)}
    <2>1. 0 \in N
      <3>1. Count(s, i) \in Nat
        BY CutText
      <3>2. i + 0 = i
        BY <1>1
      <3> QED BY <3>1, <3>2
    <2>2. ASSUME NEW n \in 0..Len(s) - i - 1, n \in N PROVE n + 1 \in N
      <3>1. n \in Nat /\ n + 1 \in Nat /\ i + n + 1 \in 1..Len(s) /\ (i + n + 1) - 1 = i + n
            /\ i + (n + 1) = i + n + 1
        BY <1>1
      <3>2. Count(s, i + n) <= Count(s, i + n + 1)
        <4> DEFINE k == i + n + 1
        <4>1. k \in 1..Len(s) /\ k - 1 = i + n
          BY <3>1
        <4> HIDE DEF k
        <4>2. /\ Count(s, k) \in Nat /\ Count(s, k - 1) \in Nat
              /\ Count(s, k) = Count(s, k - 1) + (IF IsChar(s[k]) THEN 1 ELSE 0)
          BY <1>3, <4>1
        <4>3. Count(s, k - 1) <= Count(s, k)
          BY <4>2
        <4> QED BY <4>1, <4>3 DEF k
      <3>3. Count(s, i) \in Nat /\ Count(s, i + n) \in Nat /\ Count(s, i + n + 1) \in Nat
        <4>1. i + n \in 0..Len(s) /\ i + n + 1 \in 0..Len(s)
          BY <1>1, <3>1
        <4> QED BY <4>1, CutText
      <3>4. Count(s, i) <= Count(s, i + n)
        BY <1>1, <2>2, <3>1
      <3> QED BY <3>1, <3>2, <3>3, <3>4
    <2>3. 0..Len(s) - i \subseteq N
      <3>1. Len(s) - i \in Nat
        BY <1>1
      <3> HIDE DEF N
      <3> QED BY <2>1, <2>2, <3>1, UpTo
    <2>4. j - i \in 0..Len(s) - i /\ i + (j - i) = j /\ j <= Len(s)
      BY <1>1, <1>4
    <2>5. j - i \in N
      BY <2>3, <2>4
    <2> QED BY <2>4, <2>5
  <1> QED BY <1>1, <1>2, <1>3, <1>4 DEF Count

\* untagged_to_index finds a place with that many characters before it.
LEMMA IndexFound ==
  ASSUME NEW s \in Texts, NEW pos \in 0..Len(Untag(s)), NEW inside \in BOOLEAN
  PROVE  LET i == UntaggedToIndex(s, pos, inside) IN i \in 1..Len(s) + 1 /\ Count(s, i - 1) = pos
  <1> DEFINE I == {i \in 1..Len(s) + 1 :
                     /\ Len(Untag(SubSeq(s, 1, i - 1))) = pos
                     /\ i <= Len(s) => IsChar(s[i]) \/ (s[i][1] = "close") = inside}
             J == {i \in 1..Len(s) + 1 : i = Len(s) + 1 \/ Count(s, i) > pos}
  <1>1. Len(s) \in Nat /\ pos \in Nat
    <2>1. Len(Untag(s)) \in Nat
      BY UntagType
    <2> QED BY <2>1 DEF Texts
  <1>2. PICK i \in J : \A j \in J : i <= j
    <2>1. Len(s) + 1 \in J /\ J \in SUBSET Nat
      BY <1>1
    <2> HIDE DEF J
    <2> QED BY <2>1, Least
  <1>3. i \in 1..Len(s) + 1 /\ i \in Nat /\ (i = Len(s) + 1 \/ Count(s, i) > pos)
    BY <1>1, <1>2
  <1>4. Count(s, i - 1) <= pos
    <2>1. CASE i = 1
      BY <1>1, <2>1, CountSteps
    <2>2. CASE i # 1
      <3>1. i - 1 \in 1..Len(s) + 1 /\ i - 1 \in 1..Len(s) /\ ~(i <= i - 1)
        BY <1>1, <1>3, <2>2
      <3>2. ~(Count(s, i - 1) > pos)
        BY <1>2, <3>1
      <3>3. Count(s, i - 1) \in Nat
        BY <3>1, CountSteps
      <3> QED BY <1>1, <3>2, <3>3
    <2> QED BY <2>1, <2>2
  <1>5. i \in I
    <2>1. CASE i = Len(s) + 1
      <3>1. i - 1 = Len(s) /\ Count(s, Len(s)) = Len(Untag(s)) /\ Len(Untag(s)) \in Nat
        BY <1>1, <2>1, CountSteps, UntagType
      <3>2. Count(s, i - 1) = pos
        BY <1>1, <1>4, <3>1
      <3> QED BY <1>1, <1>3, <2>1, <3>2 DEF Count
    <2>2. CASE i # Len(s) + 1
      <3>1. i \in 1..Len(s) /\ Count(s, i) > pos
        BY <1>1, <1>3, <2>2
      <3>2. /\ Count(s, i) \in Nat /\ Count(s, i - 1) \in Nat
            /\ Count(s, i) = Count(s, i - 1) + (IF IsChar(s[i]) THEN 1 ELSE 0)
        BY <3>1, CountSteps
      <3>3. IsChar(s[i]) /\ Count(s, i - 1) = pos
        BY <1>1, <1>4, <3>1, <3>2
      <3> QED BY <1>3, <3>3 DEF Count
    <2> QED BY <2>1, <2>2
  <1>6. UntaggedToIndex(s, pos, inside) = Min(I)
    BY DEF UntaggedToIndex
  <1>7. Min(I) \in I
    <2>1. I \in SUBSET Nat
      BY <1>1
    <2> HIDE DEF I
    <2> QED BY <1>5, <2>1, Least DEF Min
  <1> QED BY <1>6, <1>7 DEF Count

-----------------------------------------------------------------------------
(* The regular expression of a keyword.                                      *)

\* A value computed in n rounds, each from the one before, exists.
Rounds(g, n, D, x, step) ==
  g \in [0..n -> D] /\ g[0] = x /\ \A i \in 1..n : g[i] = step[i][g[i - 1]]

LEMMA RoundsExist ==
  ASSUME NEW n \in Nat, NEW D, NEW x \in D, NEW step \in [1..n -> [D -> D]]
  PROVE  \E g : Rounds(g, n, D, x, step)
  <1> DEFINE N == {k \in Nat : k <= n => \E g : Rounds(g, k, D, x, step)}
  <1>1. 0 \in N
    <2> DEFINE g == [i \in 0..0 |-> x]
    <2>1. Rounds(g, 0, D, x, step)
      BY DEF Rounds
    <2> QED BY <2>1
  <1>2. ASSUME NEW k \in 0..n - 1, k \in N PROVE k + 1 \in N
    <2>1. k \in Nat /\ k <= n /\ k + 1 \in 1..n
      OBVIOUS
    <2>2. PICK g : Rounds(g, k, D, x, step)
      BY <1>2, <2>1
    <2> DEFINE h == [i \in 0..k + 1 |-> IF i = k + 1 THEN step[k + 1][g[k]] ELSE g[i]]
    <2>3. h \in [0..k + 1 -> D]
      <3>1. step[k + 1] \in [D -> D] /\ g[k] \in D
        BY <2>1, <2>2 DEF Rounds
      <3>2. step[k + 1][g[k]] \in D
        BY <3>1
      <3>3. \A i \in 0..k + 1 : i = k + 1 \/ g[i] \in D
        BY <2>1, <2>2 DEF Rounds
      <3> QED BY <3>2, <3>3
    <2>4. h[0] = x
      BY <2>1, <2>2 DEF Rounds
    <2>5. ASSUME NEW i \in 1..k + 1 PROVE h[i] = step[i][h[i - 1]]
      <3>1. CASE i = k + 1
        BY <2>1, <3>1
      <3>2. CASE i # k + 1
        <4>1. i \in 1..k /\ h[i] = g[i] /\ h[i - 1] = g[i - 1]
          BY <2>1, <3>2
        <4> HIDE DEF h
        <4> QED BY <2>2, <4>1 DEF Rounds
      <3> QED BY <3>1, <3>2
    <2> HIDE DEF h
    <2>6. Rounds(h, k + 1, D, x, step)
      BY <2>3, <2>4, <2>5 DEF Rounds
    <2> QED BY <2>1, <2>6
  <1>3. 0..n \subseteq N
    <2> HIDE DEF N
    <2> QED BY <1>1, <1>2, UpTo
  <1>4. n \in N
    BY <1>3
  <1> QED BY <1>4

LEMMA MaxIs ==
  ASSUME NEW n \in Nat, NEW S \in SUBSET (0..n), S # {}
  PROVE  Max(S) \in S
  <1> DEFINE T == {n - x : x \in S}
  <1>1. T \in SUBSET Nat /\ T # {}
    <2>1. \A x \in S : n - x \in Nat
      OBVIOUS
    <2> QED BY <2>1
  <1>2. PICK t \in T : \A u \in T : t <= u
    <2> HIDE DEF T
    <2> QED BY <1>1, Least
  <1>3. PICK x \in S : t = n - x
    BY <1>2
  <1>4. ASSUME NEW y \in S PROVE x >= y
    <2>1. n - x <= n - y
      BY <1>2, <1>3
    <2>2. x \in 0..n /\ y \in 0..n
      BY <1>3
    <2> QED BY <2>1, <2>2
  <1> QED BY <1>4 DEF Max

\* Where a match can end: nowhere, or not before it begins.
Ends(n, least) == {e \in [1..n + 1 -> 0..n + 1] : \A p \in 1..n + 1 : e[p] = 0 \/ e[p] >= p + least}

LEMMA EndsFromType ==
  ASSUME NEW c, NEW u, Len(u) \in Nat, NEW e \in Ends(Len(u), 0)
  PROVE  EndsFrom(c, e, u) \in Ends(Len(u), 1) /\ EndsFrom(c, e, u) \in Ends(Len(u), 0)
  <1> DEFINE n == Len(u)
             digits(p) == {q \in p + 1..n + 1 : e[q] # 0 /\ \A k \in p..q - 1 : u[k] \in Digits}
             value(p) == IF c = PARAM THEN IF digits(p) = {} THEN 0 ELSE e[Max(digits(p))]
                         ELSE IF p <= n /\ u[p] = c THEN e[p + 1] ELSE 0
  <1>1. EndsFrom(c, e, u) = [p \in 1..n + 1 |-> value(p)]
    BY DEF EndsFrom
  <1>2. \A q \in 1..n + 1 : e[q] \in 0..n + 1 /\ (e[q] = 0 \/ e[q] >= q)
    BY DEF Ends
  <1>3. ASSUME NEW p \in 1..n + 1
        PROVE  value(p) \in 0..n + 1 /\ (value(p) = 0 \/ value(p) >= p + 1)
    <2>1. CASE c = PARAM /\ digits(p) # {}
      <3> DEFINE D == digits(p)
      <3>1. D \in SUBSET (0..n + 1) /\ D # {} /\ n + 1 \in Nat
        BY <2>1
      <3>2. Max(D) \in D
        <4> HIDE DEF D
        <4> QED BY <3>1, MaxIs
      <3> DEFINE q == Max(D)
      <3>3. q \in p + 1..n + 1
        BY <3>2
      <3>4. value(p) = e[q]
        BY <2>1
      <3> HIDE DEF q
      <3>5. q \in 1..n + 1
        BY <3>3
      <3> QED BY <1>2, <3>3, <3>4, <3>5
    <2>2. CASE c # PARAM /\ p <= n /\ u[p] = c
      <3>1. p + 1 \in 1..n + 1 /\ value(p) = e[p + 1]
        BY <2>2
      <3> HIDE DEF value
      <3> QED BY <1>2, <3>1
    <2>3. CASE ~(c = PARAM /\ digits(p) # {}) /\ ~(c # PARAM /\ p <= n /\ u[p] = c)
      <3>1. value(p) = 0
        BY <2>3
      <3> HIDE DEF value
      <3> QED BY <3>1
    <2> QED BY <2>1, <2>2, <2>3
  <1> HIDE DEF value
  <1>4. [p \in 1..n + 1 |-> value(p)] \in Ends(n, 1)
    BY <1>3 DEF Ends
  <1>5. [p \in 1..n + 1 |-> value(p)] \in Ends(n, 0)
    BY <1>3 DEF Ends
  <1> QED BY <1>1, <1>4, <1>5

\* What a pattern matches has at least one character.
LEMMA MatchEndType ==
  ASSUME NEW re, Len(re) \in Nat, Len(re) > 0, NEW u, Len(u) \in Nat, NEW s \in 1..Len(u)
  PROVE  MatchEnd(re, u, s) = 0 \/ MatchEnd(re, u, s) \in s + 1..Len(u) + 1
  <1> DEFINE n == Len(re)
             last == [p \in 1..Len(u) + 1 |-> IF WordEnd(u, p) THEN p ELSE 0]
             body(h) == [i \in 0..n |-> IF i = 0 THEN last
                                        ELSE EndsFrom(re[n + 1 - i], h[i - 1], u)]
             ends == CHOOSE h : h = body(h)
             D == Ends(Len(u), 0)
  <1>1. last \in D
    BY DEF Ends
  <1> HIDE DEF last
  <1>2. ends = body(ends)
    <2> DEFINE step == [i \in 1..n |-> [e \in D |-> EndsFrom(re[n + 1 - i], e, u)]]
    <2>1. step \in [1..n -> [D -> D]]
      BY EndsFromType
    <2>2. PICK g : Rounds(g, n, D, last, step)
      <3>1. n \in Nat
        OBVIOUS
      <3> HIDE DEF step, D, n
      <3> QED BY <1>1, <2>1, <3>1, RoundsExist
    <2>3. ASSUME NEW i \in 0..n
          PROVE  g[i] = IF i = 0 THEN last ELSE EndsFrom(re[n + 1 - i], g[i - 1], u)
      <3>1. CASE i = 0
        BY <2>2, <3>1 DEF Rounds
      <3>2. CASE i # 0
        <4>1. i \in 1..n /\ i - 1 \in 0..n
          BY <3>2
        <4>2. g[i - 1] \in D
          BY <2>2, <4>1 DEF Rounds
        <4>3. step[i][g[i - 1]] = EndsFrom(re[n + 1 - i], g[i - 1], u)
          BY <4>1, <4>2
        <4> QED BY <2>2, <3>2, <4>1, <4>3 DEF Rounds
      <3> QED BY <3>1, <3>2
    <2>4. g = body(g)
      BY <2>2, <2>3 DEF Rounds
    <2> QED BY <2>4
  <1>3. \A i \in 0..n : ends[i] = IF i = 0 THEN last ELSE EndsFrom(re[n + 1 - i], ends[i - 1], u)
    <2> HIDE DEF ends
    <2> QED BY <1>2
  <1> DEFINE N == {i \in Nat : i <= n => ends[i] \in D}
  <1> HIDE DEF ends
  <1>4. 0 \in N
    BY <1>1, <1>3
  <1>5. ASSUME NEW i \in 0..n - 1, i \in N PROVE i + 1 \in N
    <2>1. i + 1 \in 0..n /\ i + 1 # 0 /\ (i + 1) - 1 = i /\ ends[i] \in D
      BY <1>5
    <2>2. ends[i + 1] = EndsFrom(re[n + 1 - (i + 1)], ends[i], u)
      BY <1>3, <2>1
    <2>3. ends[i + 1] \in D
      BY <2>1, <2>2, EndsFromType
    <2> QED BY <2>1, <2>3
  <1>6. 0..n \subseteq N
    <2> HIDE DEF N
    <2> QED BY <1>4, <1>5, UpTo
  <1>7. ends[n] \in Ends(Len(u), 1)
    <2>1. n \in 0..n /\ n # 0 /\ n - 1 \in 0..n /\ n - 1 <= n
      OBVIOUS
    <2>2. n - 1 \in N
      BY <1>6, <2>1
    <2>3. ends[n - 1] \in D
      BY <2>1, <2>2
    <2>4. ends[n] = EndsFrom(re[n + 1 - n], ends[n - 1], u)
      BY <1>3, <2>1
    <2> QED BY <2>3, <2>4, EndsFromType
  <1>8. ends[n][s] = 0 \/ ends[n][s] \in s + 1..Len(u) + 1
    BY <1>7 DEF Ends
  <1>9. MatchEnd(re, u, s) = ends[n][s]
    BY DEF MatchEnd, ends, last
  <1> QED BY <1>8, <1>9

LEMMA RegexMatchType ==
  ASSUME NEW re, Len(re) \in Nat, Len(re) > 0, NEW u, Len(u) \in Nat
  PROVE  LET m == RegexMatch(re, u)
         IN  m = NoMatch \/ (m.start \in 1..Len(u) /\ m.end \in m.start + 1..Len(u) + 1)
  <1> DEFINE starts == {s \in 1..Len(u) : WordStart(u, s) /\ MatchEnd(re, u, s) # 0}
  <1>1. CASE starts = {}
    BY <1>1 DEF RegexMatch
  <1>2. CASE starts # {}
    <2>1. starts \in SUBSET Nat
      OBVIOUS
    <2>2. PICK s \in starts : \A t \in starts : s <= t
      <3> HIDE DEF starts
      <3> QED BY <1>2, <2>1, Least
    <2> DEFINE m == Min(starts)
    <2>3. m \in starts
      BY <2>2 DEF Min
    <2>4. RegexMatch(re, u) = [start |-> m, end |-> MatchEnd(re, u, m)]
      BY <1>2 DEF RegexMatch
    <2> HIDE DEF m
    <2>5. m \in 1..Len(u) /\ MatchEnd(re, u, m) # 0
      BY <2>3
    <2>6. MatchEnd(re, u, m) \in m + 1..Len(u) + 1
      BY <2>5, MatchEndType
    <2> QED BY <2>4, <2>5, <2>6
  <1> QED BY <1>1, <1>2

-----------------------------------------------------------------------------
(* What expanding one keyword does to the text.                              *)

\* Tokens can be taken out of a text where there are no characters.
LEMMA TakenOut ==
  ASSUME NEW s \in Texts, NEW i \in 0..Len(s), NEW j \in 0..Len(s), Count(s, i) = Count(s, j)
  PROVE  LET t == SubSeq(s, 1, i) \o SubSeq(s, j + 1, Len(s))
         IN  t \in Texts /\ Untag(t) = Untag(s) /\ Len(t) = i + (Len(s) - j)
  <1> DEFINE a == SubSeq(s, 1, i)
             b == SubSeq(s, j + 1, Len(s))
  <1>1. /\ a \in Texts /\ b \in Texts /\ Len(a) = i /\ Len(b) = Len(s) - j
        /\ Untag(a) = SubSeq(Untag(s), 1, Count(s, i))
        /\ Untag(b) = SubSeq(Untag(s), Count(s, j) + 1, Len(Untag(s)))
        /\ Count(s, i) \in 0..Len(Untag(s))
    BY CutText
  <1>2. Untag(a) \o Untag(b) = Untag(s)
    <2> DEFINE u == Untag(s)
               k == Count(s, i)
    <2>1. u \in Seq(STRING) /\ k \in 0..Len(u)
      BY <1>1, UntagType
    <2>2. Untag(a) = SubSeq(u, 1, k) /\ Untag(b) = SubSeq(u, k + 1, Len(u))
      BY <1>1
    <2> HIDE DEF u, k, a, b
    <2>3. SubSeq(u, 1, k) \o SubSeq(u, k + 1, Len(u)) = u
      BY <2>1, Cut
    <2>4. Untag(a) \o Untag(b) = u
      BY <2>2, <2>3
    <2> QED BY <2>4 DEF u
  <1>3. Len(a \o b) = Len(a) + Len(b)
    BY <1>1 DEF Texts
  <1> QED BY <1>1, <1>2, <1>3, UntagConcat

LEMMA RegionKept ==
  ASSUME NEW part \in Texts, NEW x \in Labels, NEW shown \in BOOLEAN
  PROVE  Region(part, x, shown) \in Texts /\ Untag(Region(part, x, shown)) = Untag(part)
  <1> DEFINE p == Part(part)
             o == Open(x)
             c == Close(x)
  <1>1. p \in Texts /\ Untag(p) = Untag(part) /\ Untag(p) \in Seq(STRING)
    BY UntagOfKind, UntagType DEF Part, Kinds
  <1>2. o \in Tokens /\ c \in Tokens /\ Reminder \in Tokens
    <2>1. "" \in Labels
      BY DEF Labels
    <2> QED BY <2>1 DEF Open, Close, Reminder, Tokens
  <1>3. ~IsChar(o) /\ ~IsChar(c) /\ ~IsChar(Reminder)
    BY DEF IsChar, Open, Close, Reminder
  <1> HIDE DEF p, o, c
  <1>4. /\ <<o>> \in Texts /\ Untag(<<o>>) = <<>> /\ <<c>> \in Texts /\ Untag(<<c>>) = <<>>
        /\ <<Reminder>> \in Texts /\ Untag(<<Reminder>>) = <<>>
    BY <1>2, <1>3, UntagToken
  <1> DEFINE q == combine(p, shown)
  <1>5. q \in Texts /\ Untag(q) = Untag(p)
    <2>1. CASE shown
      <3>1. q = p \o <<Reminder>>
        BY <1>1, <1>2, <2>1 DEF combine, Texts
      <3>2. p \o <<Reminder>> \in Texts /\ Untag(p \o <<Reminder>>) = Untag(p) \o <<>>
        BY <1>1, <1>4, UntagConcat
      <3> HIDE DEF q
      <3> QED BY <1>1, <3>1, <3>2
    <2>2. CASE ~shown
      BY <1>1, <2>2 DEF combine
    <2> QED BY <2>1, <2>2
  <1> HIDE DEF q
  <1>6. <<o>> \o q \in Texts /\ Untag(<<o>> \o q) = Untag(p)
    <2> DEFINE d == <<o>>
    <2>1. d \in Texts /\ Untag(d) = <<>>
      BY <1>4
    <2> HIDE DEF d
    <2>2. d \o q \in Texts /\ Untag(d \o q) = <<>> \o Untag(q)
      BY <1>5, <2>1, UntagConcat
    <2>3. <<>> \o Untag(q) = Untag(p)
      BY <1>1, <1>5
    <2>4. d \o q \in Texts /\ Untag(d \o q) = Untag(p)
      BY <2>2, <2>3
    <2> QED BY <2>4 DEF d
  <1>7. (<<o>> \o q) \o <<c>> \in Texts /\ Untag((<<o>> \o q) \o <<c>>) = Untag(p)
    <2> DEFINE r == <<o>> \o q
    <2>1. r \in Texts /\ Untag(r) = Untag(p)
      BY <1>6
    <2> HIDE DEF r
    <2>2. r \o <<c>> \in Texts /\ Untag(r \o <<c>>) = Untag(r) \o <<>>
      BY <1>4, <2>1, UntagConcat
    <2>3. r \o <<c>> \in Texts /\ Untag(r \o <<c>>) = Untag(p)
      BY <1>1, <2>1, <2>2
    <2> QED BY <2>3 DEF r
  <1>8. Region(part, x, shown) = (<<o>> \o q) \o <<c>>
    BY DEF Region, o, q, c, p
  <1> QED BY <1>1, <1>7, <1>8

\* An expansion gives back what it takes from the text, and takes something.
Gives(h, s) ==
  h.matched =>
    /\ h.result \in Texts /\ h.tagged \in Texts /\ h.untagged = Untag(h.tagged)
    /\ Untag(h.result) \o Untag(h.tagged) = Untag(s)
    /\ Len(h.tagged) < Len(s)

LEMMA ExpansionGives ==
  ASSUME NEW id, NEW upto, NEW s \in Texts, NEW kind,
         NEW start \in 1..Len(s) + 1, NEW end \in 1..Len(s) + 1, start < end
  PROVE  LET rest == Untag(SubSeq(s, end, Len(s)))
         IN  Gives(Expansion(id, upto, s, rest, kind, start, end), s)
  <1> DEFINE a == SubSeq(s, 1, start - 1)
             p == SubSeq(s, start, end - 1)
             b == SubSeq(s, end, Len(s))
             known == KindAfter(s, upto + 2, start - 1, kind)
             shown == Expanded(known, id)
             x == KindShown(known, shown)
             r == Region(p, x, shown)
             h == Expansion(id, upto, s, Untag(b), kind, start, end)
  <1>1. Len(s) \in Nat /\ s \in Seq(Tokens) /\ start \in Nat /\ end \in Nat
    BY DEF Texts
  <1>2. /\ SubSeq(s, 1, end - 1) \in Texts /\ b \in Texts /\ Len(b) = Len(s) - (end - 1)
        /\ Untag(SubSeq(s, 1, end - 1)) \o Untag(b) = Untag(s)
        /\ Len(SubSeq(s, 1, end - 1)) = end - 1
    <2>1. end - 1 \in 0..Len(s) /\ (end - 1) + 1 = end
      BY <1>1
    <2> HIDE DEF b
    <2>2. b = SubSeq(s, (end - 1) + 1, Len(s))
      BY <2>1 DEF b
    <2> QED BY <2>1, <2>2, CutText
  <1> DEFINE c == SubSeq(s, 1, end - 1)
  <1>3. a \in Texts /\ p \in Texts /\ Untag(a) \o Untag(p) = Untag(c)
    <2> DEFINE m == start - 1
    <2>1. m \in 0..Len(c) /\ m + 1 = start /\ c \in Texts /\ m \in Nat /\ m <= end - 1
      BY <1>1, <1>2
    <2> HIDE DEF m
    <2>2. /\ SubSeq(c, 1, m) \in Texts /\ SubSeq(c, m + 1, Len(c)) \in Texts
          /\ Len(SubSeq(c, 1, m)) = m /\ Len(SubSeq(c, m + 1, Len(c))) = Len(c) - m
          /\ Untag(SubSeq(c, 1, m)) \o Untag(SubSeq(c, m + 1, Len(c))) = Untag(c)
      <3> HIDE DEF c
      <3> QED BY <2>1, CutText
    <2>3. SubSeq(c, 1, m) = SubSeq(s, 1, m)
      <3>1. \A i \in 1..m : i \in 1..end - 1
        BY <1>1, <2>1
      <3> QED BY <1>1, <2>1, <3>1, SubSeqProperties
    <2>4. SubSeq(c, m + 1, Len(c)) = p
      BY <1>1, <1>2, <2>1, SubSeqProperties
    <2>5. a = SubSeq(s, 1, m)
      BY DEF m
    <2> QED BY <2>2, <2>3, <2>4, <2>5
  <1>4. shown \in BOOLEAN /\ x \in Labels
    <2>1. shown \in BOOLEAN
      BY DEF Expanded
    <2> HIDE DEF known
    <2> HIDE DEF shown
    <2>2. KindShown(known, shown) \in Labels
      BY DEF KindShown, Labels
    <2> QED BY <2>1, <2>2 DEF shown
  <1> HIDE DEF known, shown, x
  <1>5. r \in Texts /\ Untag(r) = Untag(p)
    BY <1>3, <1>4, RegionKept
  <1>6. Before(s, start) \in Texts /\ Untag(Before(s, start)) = Untag(a)
    BY <1>3, UntagOfKind DEF Before, RemoveKwTags, Kinds
  <1> DEFINE result == Before(s, start) \o r
  <1>7. h = [matched |-> TRUE, result |-> result, tagged |-> b, untagged |-> Untag(b)]
    BY DEF Expansion, known, shown, x
  <1> HIDE DEF r, h, b, a, p, c
  <1>8. result \in Texts /\ Untag(result) = Untag(c)
    BY <1>3, <1>5, <1>6, UntagConcat
  <1> HIDE DEF result
  <1>9. Len(b) < Len(s)
    BY <1>1, <1>2
  <1>10. Gives(h, s)
    BY <1>2, <1>7, <1>8, <1>9 DEF Gives, c
  <1> QED BY <1>10 DEF h, b

LEMMA TryExpandGives ==
  ASSUME NEW id, NEW kw, Len(kw.match_re) \in Nat, Len(kw.match_re) > 0,
         NEW upto, NEW s \in Texts, NEW kind
  PROVE  Gives(tryExpand(id, kw, upto, s, Untag(s), kind), s)
  <1> DEFINE u == Untag(s)
             m == RegexMatch(kw.match_re, u)
             start == UntaggedToIndex(s, m.start - 1, TRUE)
             end == UntaggedToIndex(s, m.end - 1, FALSE)
             h == tryExpand(id, kw, upto, s, u, kind)
             x == Expansion(id, upto, s, SubSeq(u, m.end, Len(u)), kind, start, end)
  <1>1. h = IF m = NoMatch \/ start = end \/ id \in Refused THEN NoExpansion ELSE x
    BY DEF tryExpand, ExpandMatch, ExpandFrom
  <1>2. u \in Seq(STRING) /\ Len(u) \in Nat
    BY UntagType
  <1>3. m = NoMatch \/ (m.start \in 1..Len(u) /\ m.end \in m.start + 1..Len(u) + 1)
    BY <1>2, RegexMatchType
  <1> HIDE DEF h, x, m
  <1>4. CASE m = NoMatch \/ start = end \/ id \in Refused
    <2>1. h = NoExpansion
      BY <1>1, <1>4
    <2> QED BY <2>1 DEF Gives, NoExpansion, h
  <1>5. CASE ~(m = NoMatch \/ start = end \/ id \in Refused)
    <2>1. h = x /\ m.start \in 1..Len(u) /\ m.end \in m.start + 1..Len(u) + 1
      BY <1>1, <1>3, <1>5
    <2>2. m.start - 1 \in 0..Len(u) /\ m.end - 1 \in 0..Len(u) /\ m.start - 1 < m.end - 1
          /\ (m.end - 1) + 1 = m.end
      BY <1>2, <2>1
    <2>3. start \in 1..Len(s) + 1 /\ Count(s, start - 1) = m.start - 1
      BY <2>2, IndexFound
    <2>4. end \in 1..Len(s) + 1 /\ Count(s, end - 1) = m.end - 1
      BY <2>2, IndexFound
    <2> HIDE DEF start, end
    <2>5. Len(s) \in Nat /\ start - 1 \in 0..Len(s) /\ end - 1 \in 0..Len(s) /\ (end - 1) + 1 = end
      BY <2>3, <2>4 DEF Texts
    <2>6. start < end
      <3>1. end - 1 <= start - 1 => Count(s, end - 1) <= Count(s, start - 1)
        BY <2>5, CountSteps
      <3>2. ~(end - 1 <= start - 1)
        BY <1>2, <2>1, <2>2, <2>3, <2>4, <3>1
      <3>3. start \in Int /\ end \in Int
        BY <2>3, <2>4
      <3> QED BY <3>2, <3>3
    <2>7. SubSeq(u, m.end, Len(u)) = Untag(SubSeq(s, end, Len(s)))
      <3> DEFINE k == end - 1
      <3>1. SubSeq(Untag(s), Count(s, k) + 1, Len(Untag(s))) = Untag(SubSeq(s, k + 1, Len(s)))
        BY <2>5, CutText
      <3> QED BY <2>2, <2>4, <2>5, <3>1
    <2>8. Gives(x, s)
      BY <2>3, <2>4, <2>6, <2>7, ExpansionGives DEF x
    <2> QED BY <2>1, <2>8 DEF h
  <1> QED BY <1>4, <1>5

-----------------------------------------------------------------------------
(* The search for the next keyword.                                          *)

\* The keywords of a database can be searched for.
Searchable(d, kws) ==
  /\ Len(d) \in Nat
  /\ \A i \in 1..Len(d) : LET re == kws[d[i].id].match_re IN Len(re) \in Nat /\ Len(re) > 0

\* Of the keywords that are found at one place there is a first.
LEMMA FirstTry ==
  ASSUME NEW d, NEW current, NEW used, Len(d) \in Nat,
         NEW hits, hits \subseteq Candidates(d, current, used), hits # {}
  PROVE  \E c \in hits : \A b \in hits \ {c} : Sooner(d, c, b)
  <1> DEFINE later(x) == Fixed(d[x.entry].id)
             own == {c \in hits : ~later(c)}
             some == IF own # {} THEN own ELSE hits
             nodes == {c.node : c \in some}
  <1>1. \A c \in hits : c.node \in Nat /\ c.entry \in Nat /\ c = [node |-> c.node, entry |-> c.entry]
    BY DEF Candidates
  <1>2. some # {} /\ some \subseteq hits
    OBVIOUS
  <1>3. ASSUME NEW b \in hits, NEW c \in some PROVE b \in some \/ (later(b) /\ ~later(c))
    OBVIOUS
  <1>4. \A b, c \in some : later(b) = later(c)
    <2>1. \A c : later(c) \in BOOLEAN
      BY DEF Fixed
    <2> HIDE DEF later
    <2> QED BY <2>1
  <1> HIDE DEF some, later
  <1>5. PICK n \in nodes : \A m \in nodes : n <= m
    <2>1. nodes \in SUBSET Nat /\ nodes # {}
      BY <1>1, <1>2
    <2> HIDE DEF nodes
    <2> QED BY <2>1, Least
  <1> DEFINE there == {c \in some : c.node = n}
             entries == {c.entry : c \in there}
  <1>6. PICK e \in entries : \A f \in entries : e <= f
    <2>1. entries \in SUBSET Nat /\ entries # {}
      BY <1>1, <1>2, <1>5
    <2> HIDE DEF entries
    <2> QED BY <2>1, Least
  <1>7. PICK c \in some : c.node = n /\ c.entry = e
    BY <1>6
  <1>8. ASSUME NEW b \in hits \ {c} PROVE Sooner(d, c, b)
    <2>1. CASE b \notin some
      <3>1. later(b) /\ ~later(c)
        BY <1>3, <2>1
      <3> QED BY <3>1 DEF Sooner, later
    <2>2. CASE b \in some
      <3>1. later(c) = later(b)
        BY <1>4, <2>2
      <3>2. c.node <= b.node /\ c.node \in Nat /\ b.node \in Nat
        BY <1>1, <1>2, <1>5, <1>7, <2>2
      <3>3. b.node = c.node => c.entry <= b.entry
        BY <1>6, <1>7, <2>2
      <3>4. b.node = c.node => b.entry # c.entry
        BY <1>1, <1>2, <2>2
      <3>5. c.entry \in Nat /\ b.entry \in Nat
        BY <1>1, <1>2
      <3>6. c.node < b.node \/ (c.node = b.node /\ c.entry < b.entry)
        BY <3>2, <3>3, <3>4, <3>5
      <3> QED BY <3>1, <3>6 DEF Sooner, later
    <2> QED BY <2>1, <2>2
  <1> QED BY <1>2, <1>7, <1>8

\* Where a search for a keyword in s can be.
Searching(t, s) ==
  /\ t = [i |-> t.i, tagged |-> t.tagged, current |-> t.current, used |-> t.used,
          kind |-> t.kind, hit |-> t.hit]
  /\ t.i \in Nat \ {0} /\ t.tagged \in Texts
  /\ Untag(t.tagged) = Untag(s) /\ Len(t.tagged) <= Len(s)
  /\ Gives(t.hit, s)

LEMMA PassedKeeps ==
  ASSUME NEW s \in Texts, NEW t, Searching(t, s), t.i \in 1..Len(t.tagged), IsKw(t.tagged[t.i])
  PROVE  Searching(Passed(t), s)
  <1> DEFINE w == t.tagged
             i == t.i
             v == RemoveAt(w, i)
  <1>1. w \in Texts /\ i \in 1..Len(w) /\ Len(w) \in Nat /\ Len(s) \in Nat /\ Len(w) <= Len(s)
        /\ Untag(w) = Untag(s)
    BY DEF Searching, Texts
  <1>2. ~IsChar(w[i])
    BY DEF IsKw, IsChar
  <1>3. t = [i |-> t.i, tagged |-> t.tagged, current |-> t.current, used |-> t.used,
             kind |-> t.kind, hit |-> t.hit] /\ t.i \in Nat \ {0} /\ Gives(t.hit, s)
    BY DEF Searching
  <1>4. Passed(t) = [i |-> t.i, tagged |-> v, current |-> t.current, used |-> t.used,
                     kind |-> Passed(t).kind, hit |-> t.hit]
    <2> DEFINE k == KindAfter(w, i, i, t.kind)
    <2>1. Passed(t) = [t EXCEPT !.tagged = v, !.kind = k]
      BY <1>3 DEF Passed
    <2> HIDE DEF v, k
    <2>2. Passed(t) = [i |-> t.i, tagged |-> v, current |-> t.current, used |-> t.used,
                       kind |-> k, hit |-> t.hit]
      BY <1>3, <2>1
    <2> QED BY <2>2
  <1> HIDE DEF w, i
  <1>5. v = SubSeq(w, 1, i - 1) \o SubSeq(w, i + 1, Len(w))
    BY DEF RemoveAt
  <1>6. Count(w, i - 1) = Count(w, i) /\ i - 1 \in 0..Len(w) /\ i \in 0..Len(w)
    <2>1. Count(w, i - 1) \in Nat /\ Count(w, i) = Count(w, i - 1) + (IF IsChar(w[i]) THEN 1 ELSE 0)
      BY <1>1, CountSteps
    <2> QED BY <1>1, <1>2, <2>1
  <1>7. v \in Texts /\ Untag(v) = Untag(s) /\ Len(v) = i - 1 + (Len(w) - i)
    <2> HIDE DEF v
    <2> QED BY <1>1, <1>5, <1>6, TakenOut
  <1>8. Len(v) <= Len(s)
    BY <1>1, <1>7
  <1> HIDE DEF v
  <1> DEFINE p == Passed(t)
  <1> HIDE DEF p
  <1>9. p = [i |-> t.i, tagged |-> v, current |-> t.current, used |-> t.used,
             kind |-> p.kind, hit |-> t.hit]
    BY <1>4 DEF p
  <1>10. p.i = t.i /\ p.tagged = v /\ p.current = t.current /\ p.used = t.used /\ p.hit = t.hit
    BY <1>9
  <1>11. Searching(p, s)
    BY <1>3, <1>7, <1>8, <1>9, <1>10 DEF Searching
  <1> QED BY <1>11 DEF p

LEMMA SearchedKeeps ==
  ASSUME NEW d, NEW kws, Searchable(d, kws), NEW s \in Texts, NEW t, Searching(t, s)
  PROVE  Searching(Searched(d, kws, Untag(s), t), s)
  <1> DEFINE u == Untag(s)
             next == Step(d, t.current, t.tagged[t.i][2])
             tries == Candidates(d, next, t.used)
             hits == Hits(d, kws, u, t, tries)
             first == Soonest(d, hits)
             more == t.used \cup {d[c.entry].id : c \in tries}
             r == Searched(d, kws, u, t)
  <1>1. /\ t = [i |-> t.i, tagged |-> t.tagged, current |-> t.current, used |-> t.used,
                kind |-> t.kind, hit |-> t.hit]
        /\ t.i \in Nat \ {0} /\ t.tagged \in Texts
        /\ Untag(t.tagged) = Untag(s) /\ Len(t.tagged) <= Len(s)
        /\ Gives(t.hit, s)
    BY DEF Searching
  <1>2. r = IF hits # {} THEN [t EXCEPT !.hit = Tried(d, kws, u, t, first)]
            ELSE [t EXCEPT !.i = @ + 1, !.current = next, !.used = more]
    BY DEF Searched, Enter, TryEach
  <1> HIDE DEF next, r, more, tries
  <1>3. CASE hits # {}
    <2>1. first \in hits
      <3>1. hits \subseteq Candidates(d, next, t.used)
        BY DEF tries, Hits
      <3>2. \E c \in hits : \A b \in hits \ {c} : Sooner(d, c, b)
        <4> HIDE DEF hits
        <4> QED BY <1>3, <3>1, FirstTry DEF Searchable
      <3> HIDE DEF hits
      <3> QED BY <3>2 DEF Soonest
    <2> HIDE DEF first
    <2>2. first.entry \in 1..Len(d)
      <3>1. first \in tries
        BY <2>1 DEF Hits
      <3> QED BY <3>1 DEF tries, Candidates
    <2> DEFINE kw == kws[d[first.entry].id]
               h == Tried(d, kws, u, t, first)
    <2>3. Len(kw.match_re) \in Nat /\ Len(kw.match_re) > 0
      BY <2>2 DEF Searchable
    <2>4. h = tryExpand(d[first.entry].id, kw, t.i, t.tagged, Untag(t.tagged), t.kind)
      BY <1>1 DEF Tried
    <2>5. Gives(h, t.tagged)
      <3> HIDE DEF h, kw
      <3> QED BY <1>1, <2>3, <2>4, TryExpandGives
    <2>6. Gives(h, s)
      <3> HIDE DEF h
      <3>1. h.matched => Len(h.tagged) \in Nat
        BY <2>5 DEF Gives, Texts
      <3>2. Len(t.tagged) \in Nat /\ Len(s) \in Nat
        BY <1>1 DEF Texts
      <3> QED BY <1>1, <2>5, <3>1, <3>2 DEF Gives
    <2>7. r = [i |-> t.i, tagged |-> t.tagged, current |-> t.current, used |-> t.used,
               kind |-> t.kind, hit |-> h]
      <3> HIDE DEF hits
      <3>1. r = [t EXCEPT !.hit = h]
        BY <1>2, <1>3
      <3> HIDE DEF h
      <3> QED BY <1>1, <3>1
    <2> HIDE DEF h
    <2> QED BY <1>1, <2>6, <2>7 DEF Searching, r
  <1>4. CASE hits = {}
    <2>1. r = [t EXCEPT !.i = @ + 1, !.current = next, !.used = more]
      <3> HIDE DEF hits
      <3> QED BY <1>2, <1>4
    <2>2. r = [i |-> t.i + 1, tagged |-> t.tagged, current |-> next, used |-> more,
               kind |-> t.kind, hit |-> t.hit]
      BY <1>1, <2>1
    <2> QED BY <1>1, <2>2 DEF Searching, r
  <1> QED BY <1>3, <1>4

LEMMA SearchKeeps ==
  ASSUME NEW d, NEW kws, Searchable(d, kws), NEW s \in Texts
  PROVE  Searching(Search(d, kws, s, Untag(s)), s)
  <1> DEFINE n == Len(s)
             u == Untag(s)
             body(h) == [k \in 0..n |-> IF k = 0 THEN Start(d, s)
                                        ELSE SearchStep(d, kws, u, h[k - 1])]
             at == CHOOSE h : h = body(h)
             G(g, m) == g[0] = Start(d, s) /\ \A k \in 1..m : g[k] = SearchStep(d, kws, u, g[k - 1])
             E == {m \in Nat : m <= n => \E g : G(g, m)}
  <1>0. n \in Nat
    BY DEF Texts
  <1> HIDE DEF n
  <1>1. 0 \in E
    <2> DEFINE g == [k \in 0..0 |-> Start(d, s)]
    <2>1. G(g, 0)
      OBVIOUS
    <2> QED BY <2>1
  <1>2. ASSUME NEW m \in 0..n - 1, m \in E PROVE m + 1 \in E
    <2>1. m \in Nat /\ m <= n /\ m + 1 \in Nat
      BY <1>0
    <2>2. PICK g : G(g, m)
      BY <1>2, <2>1
    <2> DEFINE f == [k \in 0..m + 1 |-> IF k = m + 1 THEN SearchStep(d, kws, u, g[m]) ELSE g[k]]
    <2>3. f[0] = Start(d, s)
      BY <2>1, <2>2
    <2>4. ASSUME NEW k \in 1..m + 1 PROVE f[k] = SearchStep(d, kws, u, f[k - 1])
      <3>1. CASE k = m + 1
        BY <2>1, <3>1
      <3>2. CASE k # m + 1
        <4>1. k \in 1..m /\ f[k] = g[k] /\ f[k - 1] = g[k - 1]
          BY <2>1, <3>2
        <4> HIDE DEF f
        <4> QED BY <2>2, <4>1
      <3> QED BY <3>1, <3>2
    <2>5. G(f, m + 1)
      <3> HIDE DEF f
      <3> QED BY <2>3, <2>4
    <2> HIDE DEF G
    <2> QED BY <2>1, <2>5
  <1>3. n \in E
    <2>1. n \in 0..n
      BY <1>0
    <2>2. 0..n \subseteq E
      <3> HIDE DEF E
      <3> QED BY <1>0, <1>1, <1>2, UpTo
    <2> QED BY <2>1, <2>2
  <1>4. at = body(at)
    <2>1. PICK g : G(g, n)
      BY <1>0, <1>3
    <2> DEFINE f == [k \in 0..n |-> g[k]]
    <2>2. f = body(f)
      <3>1. ASSUME NEW k \in 0..n
            PROVE  g[k] = IF k = 0 THEN Start(d, s) ELSE SearchStep(d, kws, u, f[k - 1])
        <4>1. CASE k = 0
          BY <2>1, <4>1
        <4>2. CASE k # 0
          <5>1. k \in 1..n /\ f[k - 1] = g[k - 1]
            BY <1>0, <4>2
          <5> HIDE DEF f
          <5> QED BY <2>1, <4>2, <5>1
        <4> QED BY <4>1, <4>2
      <3> QED BY <3>1
    <2> QED BY <2>2
  <1>5. \A k \in 0..n : at[k] = IF k = 0 THEN Start(d, s) ELSE SearchStep(d, kws, u, at[k - 1])
    <2> HIDE DEF at
    <2> QED BY <1>4
  <1> DEFINE J == {m \in Nat : m <= n => Searching(at[m], s)}
  <1>6. Search(d, kws, s, u) = at[n]
    BY DEF Search, n
  <1> HIDE DEF at
  <1>7. 0 \in J
    <2>1. Searching(Start(d, s), s)
      <3>1. Gives(NoExpansion, s)
        BY DEF Gives, NoExpansion
      <3>2. n <= n
        BY <1>0
      <3> QED BY <3>1, <3>2 DEF Start, Searching, n
    <2>2. at[0] = Start(d, s)
      BY <1>0, <1>5
    <2> QED BY <2>1, <2>2
  <1>8. ASSUME NEW m \in 0..n - 1, m \in J PROVE m + 1 \in J
    <2>1. m + 1 \in 0..n /\ m + 1 # 0 /\ (m + 1) - 1 = m /\ Searching(at[m], s)
      BY <1>0, <1>8
    <2> DEFINE t == at[m]
    <2>2. at[m + 1] = SearchStep(d, kws, u, t)
      BY <1>5, <2>1
    <2>3. Searching(SearchStep(d, kws, u, t), s)
      <3>1. Searching(t, s) /\ t.i \in Nat \ {0} /\ Len(t.tagged) \in Nat
        BY <2>1 DEF Searching, Texts
      <3> HIDE DEF t
      <3>2. CASE t.hit.matched \/ t.i > Len(t.tagged)
        BY <3>1, <3>2 DEF SearchStep
      <3>3. CASE ~(t.hit.matched \/ t.i > Len(t.tagged)) /\ IsKw(t.tagged[t.i])
        <4>1. t.i \in 1..Len(t.tagged)
          BY <3>1, <3>3
        <4>2. Searching(Passed(t), s)
          BY <3>1, <3>3, <4>1, PassedKeeps
        <4> QED BY <3>3, <4>2 DEF SearchStep
      <3>4. CASE ~(t.hit.matched \/ t.i > Len(t.tagged)) /\ ~IsKw(t.tagged[t.i])
        <4>1. Searching(Searched(d, kws, u, t), s)
          BY <3>1, SearchedKeeps
        <4> QED BY <3>4, <4>1 DEF SearchStep
      <3> QED BY <3>2, <3>3, <3>4
    <2> QED BY <2>1, <2>2, <2>3
  <1>9. n \in J
    <2>1. n \in 0..n
      BY <1>0
    <2>2. 0..n \subseteq J
      <3> HIDE DEF J
      <3> QED BY <1>0, <1>7, <1>8, UpTo
    <2> QED BY <2>1, <2>2
  <1> QED BY <1>0, <1>6, <1>9

-----------------------------------------------------------------------------
(* Expanding all keywords.                                                   *)

\* What is done and what is left together have the characters u.
Expandings(u) ==
  {t \in [result : Texts, tagged : Texts, untagged : Seq(STRING)] :
     Untag(t.result) \o Untag(t.tagged) = u /\ t.untagged = Untag(t.tagged)}

LEMMA NextKeywordKeeps ==
  ASSUME NEW d, NEW kws, Searchable(d, kws), NEW u, NEW t \in Expandings(u)
  PROVE  LET r == NextKeyword(d, kws, t)
         IN  r \in Expandings(u) /\ (r.tagged = <<>> \/ Len(r.tagged) < Len(t.tagged))
  <1> DEFINE end == Search(d, kws, t.tagged, t.untagged)
             r == NextKeyword(d, kws, t)
             ur == Untag(t.result)
  <1>1. /\ t.result \in Texts /\ t.tagged \in Texts /\ t.untagged = Untag(t.tagged)
        /\ ur \o Untag(t.tagged) = u /\ ur \in Seq(STRING)
    BY UntagType DEF Expandings
  <1>2. Searching(end, t.tagged)
    BY <1>1, SearchKeeps
  <1>3. r = IF end.hit.matched
            THEN [result |-> t.result \o end.hit.result,
                  tagged |-> end.hit.tagged, untagged |-> end.hit.untagged]
            ELSE [result |-> t.result \o end.tagged, tagged |-> <<>>, untagged |-> <<>>]
    BY DEF NextKeyword, Continue
  <1> HIDE DEF end, r
  <1>4. CASE end.hit.matched
    <2> DEFINE h == end.hit
               new == t.result \o h.result
    <2>1. /\ h.result \in Texts /\ h.tagged \in Texts /\ h.untagged = Untag(h.tagged)
          /\ Untag(h.result) \o Untag(h.tagged) = Untag(t.tagged)
          /\ Len(h.tagged) < Len(t.tagged)
      BY <1>2, <1>4 DEF Searching, Gives
    <2>2. r = [result |-> new, tagged |-> h.tagged, untagged |-> h.untagged]
      BY <1>3, <1>4
    <2> HIDE DEF h
    <2>3. new \in Texts /\ Untag(new) = ur \o Untag(h.result)
      BY <1>1, <2>1, UntagConcat
    <2> DEFINE a == Untag(h.result)
               b == Untag(h.tagged)
    <2>4. a \in Seq(STRING) /\ b \in Seq(STRING)
      BY <2>1, UntagType
    <2> HIDE DEF a, b, ur, new
    <2>5. (ur \o a) \o b = ur \o (a \o b)
      BY <1>1, <2>4
    <2>6. Untag(new) \o b = u
      BY <1>1, <2>1, <2>3, <2>5 DEF a, b
    <2>7. r.result = new /\ r.tagged = h.tagged /\ r.untagged = b
      BY <2>1, <2>2 DEF b
    <2>8. r \in [result : Texts, tagged : Texts, untagged : Seq(STRING)]
      <3>1. h.untagged \in Seq(STRING)
        BY <2>1, <2>4 DEF b
      <3> QED BY <2>1, <2>2, <2>3, <3>1
    <2>9. r \in Expandings(u)
      BY <2>6, <2>7, <2>8 DEF Expandings, b
    <2>10. Len(r.tagged) < Len(t.tagged)
      BY <2>1, <2>7
    <2> QED BY <2>9, <2>10 DEF r
  <1>5. CASE ~end.hit.matched
    <2> DEFINE new == t.result \o end.tagged
    <2>1. end.tagged \in Texts /\ Untag(end.tagged) = Untag(t.tagged)
      BY <1>2 DEF Searching
    <2>2. r = [result |-> new, tagged |-> <<>>, untagged |-> <<>>]
      BY <1>3, <1>5
    <2>3. new \in Texts /\ Untag(new) = u
      <3>1. new \in Texts /\ Untag(new) = ur \o Untag(end.tagged)
        BY <1>1, <2>1, UntagConcat
      <3> HIDE DEF new, ur
      <3> QED BY <1>1, <2>1, <3>1
    <2> HIDE DEF new
    <2>4. Untag(new) \in Seq(STRING) /\ <<>> \in Seq(STRING)
      BY <2>3, UntagType
    <2>5. Untag(new) \o <<>> = u
      BY <2>3, <2>4
    <2> QED BY <2>2, <2>3, <2>4, <2>5, UntagEmpty DEF Expandings, r
  <1> QED BY <1>4, <1>5

LEMMA ExpandAllKeeps ==
  ASSUME NEW d, NEW kws, Searchable(d, kws), NEW s \in Texts
  PROVE  ExpandAll(d, kws, s) \in Texts /\ Untag(ExpandAll(d, kws, s)) = Untag(s)
  <1> DEFINE n == Len(s)
             D == Expandings(Untag(s))
             begin == [result |-> <<>>, tagged |-> s, untagged |-> Untag(s)]
             body(h) == [i \in 0..n |-> IF i = 0 THEN begin ELSE NextKeyword(d, kws, h[i - 1])]
             after == CHOOSE h : h = body(h)
  <1>0. n \in Nat
    BY DEF Texts
  <1>1. begin \in D
    <2>1. Untag(s) \in Seq(STRING)
      BY UntagType
    <2>2. <<>> \o Untag(s) = Untag(s)
      BY <2>1
    <2> QED BY <2>1, <2>2, UntagEmpty DEF Expandings
  <1>2. after = body(after)
    <2> DEFINE step == [i \in 1..n |-> [t \in D |-> NextKeyword(d, kws, t)]]
    <2>1. step \in [1..n -> [D -> D]]
      <3>1. \A t \in D : NextKeyword(d, kws, t) \in D
        BY NextKeywordKeeps
      <3> HIDE DEF D
      <3> QED BY <3>1
    <2>2. PICK g : Rounds(g, n, D, begin, step)
      <3> HIDE DEF step, D, n, begin
      <3> QED BY <1>0, <1>1, <2>1, RoundsExist
    <2> HIDE DEF n, begin, D
    <2>3. ASSUME NEW i \in 0..n
          PROVE  g[i] = IF i = 0 THEN begin ELSE NextKeyword(d, kws, g[i - 1])
      <3>1. CASE i = 0
        BY <2>2, <3>1 DEF Rounds
      <3>2. CASE i # 0
        <4>1. i \in 1..n /\ i - 1 \in 0..n
          BY <1>0, <3>2
        <4>2. g[i - 1] \in D
          BY <2>2, <4>1 DEF Rounds
        <4>3. step[i][g[i - 1]] = NextKeyword(d, kws, g[i - 1])
          BY <4>1, <4>2
        <4> QED BY <2>2, <3>2, <4>1, <4>3 DEF Rounds
      <3> QED BY <3>1, <3>2
    <2>4. g = body(g)
      BY <2>2, <2>3 DEF Rounds
    <2> QED BY <2>4
  <1> HIDE DEF n, D, begin
  <1>3. \A i \in 0..n : after[i] = IF i = 0 THEN begin ELSE NextKeyword(d, kws, after[i - 1])
    <2> HIDE DEF after
    <2> QED BY <1>2
  <1>4. ExpandAll(d, kws, s) = after[n].result
    BY DEF ExpandAll, n, begin
  <1> HIDE DEF after
  <1> DEFINE done(i) == after[i].tagged = <<>> \/ Len(after[i].tagged) + i <= n
             N == {i \in Nat : i <= n => after[i] \in D /\ done(i)}
  <1>5. 0 \in N
    BY <1>0, <1>1, <1>3 DEF begin, n
  <1>6. ASSUME NEW i \in 0..n - 1, i \in N PROVE i + 1 \in N
    <2>1. i + 1 \in 0..n /\ i + 1 # 0 /\ (i + 1) - 1 = i /\ after[i] \in D /\ done(i)
      BY <1>0, <1>6
    <2> DEFINE t == after[i]
               r == NextKeyword(d, kws, t)
    <2>2. after[i + 1] = r
      BY <1>3, <2>1
    <2>3. r \in D /\ (r.tagged = <<>> \/ Len(r.tagged) < Len(t.tagged))
      BY <2>1, NextKeywordKeeps DEF D
    <2>4. Len(r.tagged) \in Nat /\ Len(t.tagged) \in Nat /\ Len(<<>>) = 0
      BY <2>1, <2>3 DEF D, Expandings, Texts
    <2> HIDE DEF r
    <2>5. done(i + 1)
      <3> DEFINE l == Len(r.tagged)
                 k == Len(t.tagged)
      <3>1. l \in Nat /\ k \in Nat /\ (r.tagged = <<>> \/ l < k) /\ (t.tagged = <<>> \/ k + i <= n)
        BY <2>1, <2>3, <2>4
      <3>2. t.tagged = <<>> => k = 0
        BY <2>4
      <3> HIDE DEF l, k
      <3>3. r.tagged = <<>> \/ l + (i + 1) <= n
        BY <1>0, <2>1, <3>1, <3>2
      <3> QED BY <2>2, <3>3 DEF l
    <2> HIDE DEF done
    <2> QED BY <2>1, <2>2, <2>3, <2>5
  <1>7. n \in N
    <2>1. n \in 0..n
      BY <1>0
    <2>2. 0..n \subseteq N
      <3> HIDE DEF N
      <3> QED BY <1>0, <1>5, <1>6, UpTo
    <2> QED BY <2>1, <2>2
  <1>8. after[n] \in D /\ after[n].tagged = <<>>
    <2>1. after[n] \in D /\ (after[n].tagged = <<>> \/ Len(after[n].tagged) + n <= n)
      BY <1>0, <1>7
    <2>2. after[n].tagged \in Seq(Tokens) /\ Len(after[n].tagged) \in Nat
      BY <2>1 DEF D, Expandings, Texts
    <2>3. Len(after[n].tagged) = 0 => after[n].tagged = <<>>
      BY <2>2
    <2> QED BY <1>0, <2>1, <2>2, <2>3
  <1> DEFINE result == after[n].result
  <1>9. result \in Texts /\ Untag(result) \o <<>> = Untag(s)
    BY <1>8, UntagEmpty DEF D, Expandings
  <1> HIDE DEF result
  <1>10. Untag(result) \o <<>> = Untag(result)
    <2>1. Untag(result) \in Seq(STRING)
      BY <1>9, UntagType
    <2> QED BY <2>1
  <1> QED BY <1>4, <1>9, <1>10 DEF result

LEMMA ExpandKeeps ==
  ASSUME NEW d, NEW kws, Searchable(d, kws), NEW s \in Texts
  PROVE  expand(d, kws, s) \in Texts /\ Untag(expand(d, kws, s)) = Untag(s)
  <1> DEFINE r == RemoveReminders(s)
  <1>1. r \in Texts /\ Untag(r) = Untag(s)
    BY UntagOfKind DEF RemoveReminders, Kinds
  <1> HIDE DEF r
  <1>2. ExpandAll(d, kws, r) \in Texts /\ Untag(ExpandAll(d, kws, r)) = Untag(s)
    BY <1>1, ExpandAllKeeps
  <1>3. expand(d, kws, s) = Rewritten(d, kws, r)
    BY DEF expand, r
  <1> QED BY <1>1, <1>2, <1>3 DEF Rewritten

-----------------------------------------------------------------------------
(* What the user does to the text.                                           *)

LEMMA WithoutPairKeeps ==
  ASSUME NEW s \in Texts
  PROVE  WithoutPair(s) \in Texts /\ Untag(WithoutPair(s)) = Untag(s)
  <1> DEFINE P == EmptyPairs(s)
             m == Min(P)
  <1>1. CASE P = {}
    BY <1>1 DEF WithoutPair
  <1>2. CASE P # {}
    <2>1. Len(s) \in Nat /\ P \in SUBSET Nat
      BY DEF EmptyPairs, Texts
    <2>2. m \in P
      <3>1. \E x \in P : \A y \in P : x <= y
        <4> HIDE DEF P
        <4> QED BY <1>2, <2>1, Least
      <3> HIDE DEF P
      <3> QED BY <3>1 DEF Min
    <2>3. WithoutPair(s) = SubSeq(s, 1, m - 1) \o SubSeq(s, m + 2, Len(s))
      BY <1>2 DEF WithoutPair
    <2> HIDE DEF m
    <2>4. m \in 1..Len(s) - 1 /\ ~IsChar(s[m]) /\ ~IsChar(s[m + 1])
      BY <2>2 DEF EmptyPairs, IsChar, Close
    <2> HIDE DEF P
    <2>5. m \in 1..Len(s) /\ m + 1 \in 1..Len(s) /\ (m + 1) - 1 = m /\ m - 1 \in 0..Len(s)
          /\ m + 1 \in 0..Len(s) /\ (m + 1) + 1 = m + 2
      BY <2>1, <2>4
    <2>6. Count(s, m - 1) \in Nat /\ Count(s, m) = Count(s, m - 1) + 0
      BY <2>4, <2>5, CountSteps
    <2>7. Count(s, m + 1) = Count(s, m) + 0
      <3> DEFINE k == m + 1
      <3>1. k \in 1..Len(s) /\ ~IsChar(s[k]) /\ k - 1 = m
        BY <2>4, <2>5
      <3> HIDE DEF k
      <3>2. Count(s, k) = Count(s, k - 1) + 0
        BY <3>1, CountSteps
      <3> QED BY <3>1, <3>2 DEF k
    <2>8. Count(s, m - 1) = Count(s, m + 1)
      BY <2>6, <2>7
    <2> DEFINE i == m - 1
               j == m + 1
    <2>9. i \in 0..Len(s) /\ j \in 0..Len(s) /\ Count(s, i) = Count(s, j)
      BY <2>5, <2>8
    <2>10. WithoutPair(s) = SubSeq(s, 1, i) \o SubSeq(s, j + 1, Len(s))
      BY <2>3, <2>5
    <2> HIDE DEF i, j
    <2> QED BY <2>9, <2>10, TakenOut
  <1> QED BY <1>1, <1>2

LEMMA SimplifiedKeeps ==
  ASSUME NEW s \in Texts
  PROVE  Simplified(s) \in Texts /\ Untag(Simplified(s)) = Untag(s)
  <1> DEFINE n == Len(s)
             D == {t \in Texts : Untag(t) = Untag(s)}
             body(h) == [i \in 0..n |-> IF i = 0 THEN s ELSE WithoutPair(h[i - 1])]
             less == CHOOSE h : h = body(h)
             step == [i \in 1..n |-> [t \in D |-> WithoutPair(t)]]
  <1>1. n \in Nat /\ s \in D
    BY DEF Texts
  <1>2. \A t \in D : WithoutPair(t) \in D
    BY WithoutPairKeeps
  <1>3. Simplified(s) = less[n]
    BY DEF Simplified
  <1> HIDE DEF n, D
  <1>4. PICK g : Rounds(g, n, D, s, step)
    <2>1. step \in [1..n -> [D -> D]]
      BY <1>2
    <2> HIDE DEF step
    <2> QED BY <1>1, <2>1, RoundsExist
  <1>5. less = body(less)
    <2>1. ASSUME NEW i \in 0..n PROVE g[i] = IF i = 0 THEN s ELSE WithoutPair(g[i - 1])
      <3>1. CASE i = 0
        BY <1>4, <3>1 DEF Rounds
      <3>2. CASE i # 0
        <4>1. i \in 1..n /\ i - 1 \in 0..n
          BY <1>1, <3>2
        <4>2. g[i - 1] \in D
          BY <1>4, <4>1 DEF Rounds
        <4>3. step[i][g[i - 1]] = WithoutPair(g[i - 1])
          BY <4>1, <4>2
        <4> QED BY <1>4, <3>2, <4>1, <4>3 DEF Rounds
      <3> QED BY <3>1, <3>2
    <2>2. g = body(g)
      BY <1>4, <2>1 DEF Rounds
    <2> QED BY <2>2
  <1>6. \A i \in 0..n : less[i] = IF i = 0 THEN s ELSE WithoutPair(less[i - 1])
    <2> HIDE DEF less
    <2> QED BY <1>5
  <1> HIDE DEF less
  <1> DEFINE N == {i \in Nat : i <= n => less[i] \in D}
  <1>7. 0 \in N
    BY <1>1, <1>6
  <1>8. ASSUME NEW i \in 0..n - 1, i \in N PROVE i + 1 \in N
    <2>1. i + 1 \in 0..n /\ i + 1 # 0 /\ (i + 1) - 1 = i /\ less[i] \in D
      BY <1>1, <1>8
    <2> QED BY <1>2, <1>6, <2>1
  <1>9. n \in N
    <2>1. n \in 0..n
      BY <1>1
    <2>2. 0..n \subseteq N
      <3> HIDE DEF N
      <3> QED BY <1>1, <1>7, <1>8, UpTo
    <2> QED BY <2>1, <2>2
  <1> QED BY <1>1, <1>3, <1>9 DEF D

\* The character is typed at the same place of the text and of what was typed.
LEMMA InsertKeeps ==
  ASSUME NEW s \in Texts, NEW i \in 1..Len(s) + 1, NEW c \in STRING
  PROVE  LET t == InsertAt(s, i, Char(c))
         IN  t \in Texts /\ Untag(t) = InsertAt(Untag(s), CharsBefore(s, i) + 1, c)
  <1> DEFINE a == SubSeq(s, 1, i - 1)
             b == SubSeq(s, i, Len(s))
             k == CharsBefore(s, i)
             u == Untag(s)
             e == <<Char(c)>>
             ua == Untag(a)
             ub == Untag(b)
  <1>1. /\ a \in Texts /\ b \in Texts /\ Count(s, i - 1) \in 0..Len(u)
        /\ SubSeq(u, 1, Count(s, i - 1)) = ua
        /\ SubSeq(u, Count(s, i - 1) + 1, Len(u)) = ub
    <2>1. i - 1 \in 0..Len(s) /\ (i - 1) + 1 = i
      BY DEF Texts
    <2> DEFINE j == i - 1
    <2>2. /\ SubSeq(s, 1, j) \in Texts /\ SubSeq(s, j + 1, Len(s)) \in Texts
          /\ Count(s, j) \in 0..Len(Untag(s))
          /\ SubSeq(Untag(s), 1, Count(s, j)) = Untag(SubSeq(s, 1, j))
          /\ SubSeq(Untag(s), Count(s, j) + 1, Len(Untag(s))) = Untag(SubSeq(s, j + 1, Len(s)))
      <3>1. j \in 0..Len(s)
        BY <2>1
      <3> HIDE DEF j
      <3> QED BY <3>1, CutText
    <2>3. j + 1 = i
      BY <2>1
    <2> QED BY <2>2, <2>3
  <1>2. k = Count(s, i - 1)
    BY <1>1, UntagOfKind DEF CharsBefore, RemoveReminders, Count, Kinds
  <1>3. e \in Texts /\ Untag(e) = <<c>>
    <2>1. Char(c) \in Tokens /\ IsChar(Char(c)) /\ Char(c)[2] = c
      BY DEF Char, Tokens, IsChar
    <2> QED BY <2>1, UntagToken
  <1>4. ua \in Seq(STRING) /\ ub \in Seq(STRING) /\ u \in Seq(STRING)
    BY <1>1, UntagType
  <1>5. InsertAt(s, i, Char(c)) = (a \o e) \o b
    BY DEF InsertAt
  <1>6. InsertAt(u, k + 1, c) = (ua \o <<c>>) \o ub
    <2>1. k \in Nat /\ (k + 1) - 1 = k
      <3>1. Len(u) \in Nat
        BY <1>4
      <3> QED BY <1>1, <1>2, <3>1
    <2> HIDE DEF k, u, ua, ub
    <2>2. InsertAt(u, k + 1, c) = (SubSeq(u, 1, k) \o <<c>>) \o SubSeq(u, k + 1, Len(u))
      BY <2>1 DEF InsertAt
    <2> QED BY <1>1, <1>2, <2>2
  <1>7. (a \o e) \o b \in Texts /\ Untag((a \o e) \o b) = (ua \o <<c>>) \o ub
    <2> DEFINE d == a \o e
    <2>1. d \in Texts /\ Untag(d) = ua \o <<c>>
      BY <1>1, <1>3, UntagConcat
    <2> HIDE DEF d
    <2>2. d \o b \in Texts /\ Untag(d \o b) = Untag(d) \o ub
      BY <1>1, <2>1, UntagConcat
    <2>3. d \o b \in Texts /\ Untag(d \o b) = (ua \o <<c>>) \o ub
      BY <2>1, <2>2
    <2> QED BY <2>3 DEF d
  <1> QED BY <1>5, <1>6, <1>7

\* And a character is deleted at the same place of both.
LEMMA DeleteKeeps ==
  ASSUME NEW s \in Texts, NEW i \in 1..Len(s), IsChar(s[i])
  PROVE  LET t == RemoveAt(s, i)
         IN  t \in Texts /\ Untag(t) = RemoveAt(Untag(s), CharsBefore(s, i) + 1)
  <1> DEFINE j == i - 1
             a == SubSeq(s, 1, j)
             b == SubSeq(s, i + 1, Len(s))
             k == CharsBefore(s, i)
             u == Untag(s)
  <1>1. i \in 0..Len(s) /\ j \in 0..Len(s)
    BY DEF Texts
  <1> HIDE DEF j
  <1>2. /\ a \in Texts /\ b \in Texts /\ Count(s, j) \in 0..Len(u)
        /\ SubSeq(u, 1, Count(s, j)) = Untag(a)
        /\ SubSeq(u, Count(s, i) + 1, Len(u)) = Untag(b)
    BY <1>1, CutText
  <1>3. k = Count(s, j)
    <2>1. CharsBefore(s, i) = Len(Untag(RemoveReminders(a)))
      BY DEF CharsBefore, j
    <2> HIDE DEF a
    <2>2. Untag(RemoveReminders(a)) = Untag(a)
      BY <1>2, UntagOfKind DEF RemoveReminders, Kinds
    <2> QED BY <2>1, <2>2 DEF Count, a
  <1>4. Count(s, i) = k + 1 /\ k \in Nat
    <2>1. Count(s, i) = Count(s, i - 1) + 1 /\ Count(s, i - 1) \in Nat
      BY CountSteps
    <2> QED BY <1>3, <2>1 DEF j
  <1>5. RemoveAt(s, i) = a \o b
    BY DEF RemoveAt, j
  <1> HIDE DEF k, a, b, u
  <1>6. RemoveAt(u, k + 1) = Untag(a) \o Untag(b)
    <2>1. (k + 1) - 1 = k
      BY <1>4
    <2>2. RemoveAt(u, k + 1) = SubSeq(u, 1, k) \o SubSeq(u, (k + 1) + 1, Len(u))
      BY <2>1 DEF RemoveAt
    <2> QED BY <1>2, <1>3, <1>4, <2>2
  <1>7. a \o b \in Texts /\ Untag(a \o b) = Untag(a) \o Untag(b)
    BY <1>2, UntagConcat
  <1> QED BY <1>5, <1>6, <1>7 DEF k, u

\* Other tags for a keyword.
LEMMA RetaggedKeeps ==
  ASSUME NEW s \in Texts, NEW i \in 1..Len(s), s[i][1] = "open", NEW x \in Labels
  PROVE  LET t == [k \in 1..Len(s) |-> IF k = i THEN Open(x)
                                       ELSE IF k \in Partner(s, i) THEN Close(x) ELSE s[k]]
         IN  t \in Texts /\ Untag(t) = Untag(s)
  <1> DEFINE t == [k \in 1..Len(s) |-> IF k = i THEN Open(x)
                                       ELSE IF k \in Partner(s, i) THEN Close(x) ELSE s[k]]
  <1>1. Len(s) \in Nat /\ \A k \in 1..Len(s) : s[k] \in Tokens
    BY DEF Texts
  <1>2. Open(x) \in Tokens /\ Close(x) \in Tokens /\ ~IsChar(Open(x)) /\ ~IsChar(Close(x))
    BY DEF Open, Close, Tokens, IsChar
  <1>3. \A k \in Partner(s, i) : ~IsChar(s[k])
    BY DEF Partner, IsChar
  <1>4. ~IsChar(s[i])
    BY DEF IsChar
  <1>5. t \in Texts /\ Len(t) = Len(s)
    BY <1>1, <1>2 DEF Texts
  <1>6. \A k \in 1..Len(s) : s[k] = t[k] \/ (~IsChar(s[k]) /\ ~IsChar(t[k]))
    BY <1>2, <1>3, <1>4
  <1> HIDE DEF t
  <1>7. Untag(t) = Untag(s)
    BY <1>5, <1>6, UntagSame
  <1> QED BY <1>5, <1>7 DEF t

-----------------------------------------------------------------------------
(* The keywords and the database.                                            *)

KeywordRecords ==
  [match : Seq(STRING), match_re : Seq(STRING) \cup {UNSET}, valid : BOOLEAN]

\* A valid keyword is found by its match string.
FoundByMatch(kws) == \A id \in Ids : kws[id].valid => kws[id].match_re = kws[id].match

\* What DatabaseCurrent says of any keywords and database.
Current(ks, kws, d) ==
  d # <<>> => /\ d = Entries(AllKeywords(ks), kws)
              /\ \A i \in 1..Len(d) : kws[d[i].id].match_re = d[i].match

LEMMA PrepareType ==
  ASSUME NEW kw \in KeywordRecords, NEW force \in BOOLEAN,
         ~force => (kw.valid => kw.match_re = kw.match)
  PROVE  LET r == prepare(kw, force)
         IN  r \in KeywordRecords /\ r.match = kw.match /\ (r.valid => r.match_re = r.match)
  <1> DEFINE r == prepare(kw, force)
  <1>1. CASE ~force /\ kw.match_re # UNSET
    BY <1>1 DEF prepare
  <1>2. CASE ~(~force /\ kw.match_re # UNSET) /\ UNKNOWN \in Range(kw.match)
    BY <1>2 DEF prepare, KeywordRecords
  <1>3. CASE ~(~force /\ kw.match_re # UNSET) /\ UNKNOWN \notin Range(kw.match)
    BY <1>3 DEF prepare, KeywordRecords
  <1> QED BY <1>1, <1>2, <1>3

LEMMA AllKeywordsType ==
  ASSUME NEW ks \in Seq(SetKeywords)
  PROVE  AllKeywords(ks) \in Seq(Ids)
  <1>1. Seq(SetKeywords) \subseteq Seq(Ids) /\ Seq(Range(GameKeywords)) \subseteq Seq(Ids)
    BY DEF Ids
  <1>2. ks \in Seq(Ids) /\ GameKeywords \in Seq(Ids)
    BY <1>1, KeywordsAssumption
  <1> HIDE DEF Ids
  <1> QED BY <1>2 DEF AllKeywords

\* The keywords of the database are valid and have a match string.
LEMMA EntriesAre ==
  ASSUME NEW ids \in Seq(Ids), NEW kws
  PROVE  LET d == Entries(ids, kws)
         IN  /\ Len(d) \in Nat
             /\ \A i \in 1..Len(d) :
                  /\ d[i].id \in Ids /\ kws[d[i].id].valid
                  /\ d[i].match = kws[d[i].id].match /\ d[i].match # <<>>
  <1> DEFINE good == {id \in Ids : kws[id].match # <<>> /\ kws[id].valid}
             usable == Filter(ids, good)
             d == Entries(ids, kws)
  <1>1. usable \in Seq(Ids \cap good)
    BY FilterType
  <1>2. d = [i \in 1..Len(usable) |-> [id |-> usable[i], match |-> kws[usable[i]].match]]
    BY DEF Entries
  <1> HIDE DEF usable, d
  <1>3. Len(usable) \in Nat /\ \A i \in 1..Len(usable) : usable[i] \in good
    BY <1>1
  <1>4. Len(d) = Len(usable)
    BY <1>2, <1>3
  <1>5. ASSUME NEW i \in 1..Len(d)
        PROVE  /\ d[i].id \in Ids /\ kws[d[i].id].valid
               /\ d[i].match = kws[d[i].id].match /\ d[i].match # <<>>
    <2>1. d[i].id = usable[i] /\ d[i].match = kws[usable[i]].match /\ usable[i] \in good
      BY <1>2, <1>3, <1>4
    <2> QED BY <2>1
  <1> QED BY <1>3, <1>4, <1>5 DEF d

LEMMA CurrentSearchable ==
  ASSUME NEW ks \in Seq(SetKeywords), NEW kws \in [Ids -> KeywordRecords], NEW d,
         Current(ks, kws, d)
  PROVE  Searchable(d, kws)
  <1>1. CASE d = <<>>
    <2>1. Len(d) = 0 /\ 1..0 = {}
      BY <1>1
    <2> QED BY <2>1 DEF Searchable
  <1>2. CASE d # <<>>
    <2> DEFINE ids == AllKeywords(ks)
    <2>1. d = Entries(ids, kws) /\ \A i \in 1..Len(d) : kws[d[i].id].match_re = d[i].match
      BY <1>2 DEF Current
    <2>2. ids \in Seq(Ids)
      BY AllKeywordsType
    <2> HIDE DEF ids
    <2>3. /\ Len(d) \in Nat
          /\ \A i \in 1..Len(d) : /\ d[i].id \in Ids /\ d[i].match # <<>>
                                  /\ d[i].match = kws[d[i].id].match
      BY <2>1, <2>2, EntriesAre
    <2>4. ASSUME NEW i \in 1..Len(d)
          PROVE  Len(kws[d[i].id].match_re) \in Nat /\ Len(kws[d[i].id].match_re) > 0
      <3> DEFINE re == kws[d[i].id].match_re
      <3>1. re = d[i].match /\ re # <<>>
        BY <2>1, <2>3
      <3>2. kws[d[i].id] \in KeywordRecords
        BY <2>3
      <3>3. re \in Seq(STRING)
        BY <2>3, <3>1, <3>2 DEF KeywordRecords
      <3> HIDE DEF re
      <3>4. Len(re) \in Nat /\ Len(re) > 0
        BY <3>1, <3>3
      <3> QED BY <3>4 DEF re
    <2> QED BY <2>3, <2>4 DEF Searchable
  <1> QED BY <1>1, <1>2

\* A new database is current.
LEMMA NewCurrent ==
  ASSUME NEW ks \in Seq(SetKeywords), NEW kws \in [Ids -> KeywordRecords], FoundByMatch(kws)
  PROVE  Current(ks, kws, Entries(AllKeywords(ks), kws))
  <1> DEFINE d == Entries(AllKeywords(ks), kws)
  <1>1. AllKeywords(ks) \in Seq(Ids)
    BY AllKeywordsType
  <1>2. \A i \in 1..Len(d) :
          d[i].id \in Ids /\ kws[d[i].id].valid /\ d[i].match = kws[d[i].id].match
    BY <1>1, EntriesAre
  <1> QED BY <1>2 DEF Current, FoundByMatch

\* The script function finds the keywords of now and keeps the characters.
LEMMA ExpandKeywordsKeeps ==
  ASSUME NEW ks \in Seq(SetKeywords), NEW kws \in [Ids -> KeywordRecords], FoundByMatch(kws),
         NEW d, Current(ks, kws, d), NEW s \in Texts, expand_keywords(ks, kws, d, s)
  PROVE  /\ keyword' \in [Ids -> KeywordRecords] /\ FoundByMatch(keyword)'
         /\ Current(ks, keyword', db')
         /\ text' \in Texts /\ Untag(text') = Untag(s)
  <1>1. CASE d # <<>>
    <2>1. keyword' = kws /\ db' = d /\ text' = expand(d, kws, s)
      BY <1>1 DEF expand_keywords, Expanding
    <2>2. Searchable(d, kws)
      BY CurrentSearchable
    <2>3. text' \in Texts /\ Untag(text') = Untag(s)
      BY <2>1, <2>2, ExpandKeeps
    <2> QED BY <2>1, <2>3 DEF FoundByMatch
  <1>2. CASE d = <<>>
    <2> DEFINE new == [id \in Ids |-> IF id \in Range(AllKeywords(ks)) THEN prepare(kws[id], FALSE)
                                      ELSE kws[id]]
               e == Entries(AllKeywords(ks), new)
    <2>1. keyword' = new /\ db' = e /\ text' = expand(e, new, s)
      BY <1>2 DEF expand_keywords, Adding, Expanding
    <2>2. ASSUME NEW id \in Ids
          PROVE  new[id] \in KeywordRecords /\ (new[id].valid => new[id].match_re = new[id].match)
      <3> DEFINE r == prepare(kws[id], FALSE)
      <3>1. kws[id] \in KeywordRecords /\ (kws[id].valid => kws[id].match_re = kws[id].match)
        BY DEF FoundByMatch
      <3>2. r \in KeywordRecords /\ (r.valid => r.match_re = r.match)
        BY <3>1, PrepareType
      <3>3. new[id] = r \/ new[id] = kws[id]
        OBVIOUS
      <3> HIDE DEF r, new
      <3> QED BY <3>1, <3>2, <3>3
    <2>3. new \in [Ids -> KeywordRecords] /\ FoundByMatch(new)
      <3>1. new = [id \in Ids |-> new[id]]
        OBVIOUS
      <3> HIDE DEF new
      <3> QED BY <2>2, <3>1 DEF FoundByMatch
    <2> HIDE DEF new
    <2>4. Current(ks, new, e)
      BY <2>3, NewCurrent
    <2> HIDE DEF e
    <2>5. Searchable(e, new)
      BY <2>3, <2>4, CurrentSearchable
    <2>6. text' \in Texts /\ Untag(text') = Untag(s)
      BY <2>1, <2>5, ExpandKeeps
    <2> QED BY <2>1, <2>3, <2>4, <2>6 DEF FoundByMatch
  <1> QED BY <1>1, <1>2

-----------------------------------------------------------------------------
(* The inductive invariant.                                                  *)

\* Besides the two properties: what the variables hold, and that every valid
\* keyword is found by its match string, the database being made of those.
KeywordsInv ==
  /\ keywords \in Seq(SetKeywords)
  /\ keyword \in [Ids -> KeywordRecords]
  /\ FoundByMatch(keyword)
  /\ text \in Texts
  /\ DatabaseCurrent
  /\ PlainTextKept

LEMMA CurrentIs == DatabaseCurrent <=> Current(keywords, keyword, db)
  BY DEF DatabaseCurrent, Current

LEMMA PlainIs ==
  ASSUME text \in Texts
  PROVE  Untag(RemoveReminders(text)) = Untag(text)
  BY UntagOfKind DEF RemoveReminders, Kinds

\* Where the script function runs after the user changed s from the text.
LEMMA ExpandedInv ==
  ASSUME keywords' \in Seq(SetKeywords),
         NEW kws \in [Ids -> KeywordRecords], FoundByMatch(kws),
         NEW d, Current(keywords', kws, d), NEW s \in Texts,
         expand_keywords(keywords', kws, d, s), plain' = Untag(s)
  PROVE  KeywordsInv'
  <1>1. /\ keyword' \in [Ids -> KeywordRecords] /\ FoundByMatch(keyword)'
        /\ Current(keywords', keyword', db')
        /\ text' \in Texts /\ Untag(text') = Untag(s)
    <2> DEFINE ks == keywords'
    <2>1. ks \in Seq(SetKeywords) /\ Current(ks, kws, d) /\ expand_keywords(ks, kws, d, s)
      OBVIOUS
    <2> HIDE DEF ks
    <2>2. /\ keyword' \in [Ids -> KeywordRecords] /\ FoundByMatch(keyword)'
          /\ Current(ks, keyword', db')
          /\ text' \in Texts /\ Untag(text') = Untag(s)
      BY <2>1, ExpandKeywordsKeeps
    <2> QED BY <2>2 DEF ks
  <1>2. DatabaseCurrent'
    BY <1>1 DEF DatabaseCurrent, Current
  <1>3. PlainTextKept'
    <2> DEFINE t == text'
    <2>1. t \in Texts
      BY <1>1
    <2> HIDE DEF t
    <2>2. Untag(RemoveReminders(t)) = Untag(t)
      BY <2>1, UntagOfKind DEF RemoveReminders, Kinds
    <2> QED BY <1>1, <2>2 DEF PlainTextKept, t
  <1> QED BY <1>1, <1>2, <1>3 DEF KeywordsInv

LEMMA SetToSeqType == SetToSeq(SetKeywords) \in Seq(SetKeywords)
  <1> DEFINE n == Cardinality(SetKeywords)
  <1>1. n \in Nat /\ ExistsBijection(1..n, SetKeywords)
    BY KeywordsAssumption, FS_CardinalityType
  <1>2. \E f \in [1..n -> SetKeywords] : IsInjective(f)
    <2>1. PICK f : f \in Bijection(1..n, SetKeywords)
      BY <1>1 DEF ExistsBijection
    <2>2. f \in [1..n -> SetKeywords] /\ \A a, b \in 1..n : f[a] = f[b] => a = b
      BY <2>1 DEF Bijection, Injection, IsInjective
    <2> QED BY <2>2 DEF IsInjective
  <1>3. SetToSeq(SetKeywords) \in [1..n -> SetKeywords]
    BY <1>2 DEF SetToSeq
  <1> QED BY <1>1, <1>3

LEMMA InitKeywords == Init => KeywordsInv
  <1> SUFFICES ASSUME Init PROVE KeywordsInv
    OBVIOUS
  <1>1. PICK s \in InitialTexts, ms \in [SetKeywords -> MatchStrings] :
          /\ keywords = SetToSeq(SetKeywords)
          /\ LET loaded == [id \in Ids |->
                    prepare([match |-> IF Fixed(id) THEN GameMatch[id] ELSE ms[id],
                             match_re |-> UNSET, valid |-> FALSE], FALSE)]
             IN  /\ keyword = loaded
                 /\ db = Entries(AllKeywords(keywords), loaded)
                 /\ text = expand(db, loaded, Chars(s))
          /\ plain = s
    BY DEF Init
  <1>2. keywords \in Seq(SetKeywords)
    BY <1>1, SetToSeqType
  <1>3. ASSUME NEW id \in Ids
        PROVE  keyword[id] \in KeywordRecords /\ (keyword[id].valid => keyword[id].match_re = keyword[id].match)
    <2> DEFINE m == IF Fixed(id) THEN GameMatch[id] ELSE ms[id]
               kw == [match |-> m, match_re |-> UNSET, valid |-> FALSE]
               r == prepare(kw, FALSE)
    <2>1. keyword[id] = r
      BY <1>1
    <2>2. m \in Seq(STRING)
      <3>1. CASE Fixed(id)
        BY <3>1, KeywordsAssumption DEF Fixed
      <3>2. CASE ~Fixed(id)
        <4>1. ms[id] \in MatchStrings
          BY <3>2 DEF Fixed, Ids
        <4> QED BY <3>2, <4>1, KeywordsAssumption
      <3> QED BY <3>1, <3>2
    <2> HIDE DEF m
    <2>3. kw \in KeywordRecords /\ ~kw.valid
      BY <2>2 DEF KeywordRecords
    <2> HIDE DEF kw
    <2>4. r \in KeywordRecords /\ (r.valid => r.match_re = r.match)
      BY <2>3, PrepareType
    <2> QED BY <2>1, <2>4
  <1>4. keyword \in [Ids -> KeywordRecords] /\ FoundByMatch(keyword)
    <2>1. keyword = [id \in Ids |-> keyword[id]]
      BY <1>1
    <2> QED BY <1>3, <2>1 DEF FoundByMatch
  <1>5. db = Entries(AllKeywords(keywords), keyword) /\ text = expand(db, keyword, Chars(s))
    BY <1>1
  <1>6. Current(keywords, keyword, db)
    BY <1>2, <1>4, <1>5, NewCurrent
  <1>7. Searchable(db, keyword)
    BY <1>2, <1>4, <1>6, CurrentSearchable
  <1>8. s \in Seq(STRING)
    BY KeywordsAssumption
  <1>9. Chars(s) \in Texts /\ Untag(Chars(s)) = s
    BY <1>8, UntagChars
  <1>10. text \in Texts /\ Untag(text) = s
    <2> DEFINE t == Chars(s)
    <2> HIDE DEF t
    <2> QED BY <1>5, <1>7, <1>9, ExpandKeeps DEF t
  <1>11. PlainTextKept
    BY <1>1, <1>10, PlainIs DEF PlainTextKept
  <1> QED BY <1>2, <1>4, <1>6, <1>10, <1>11, CurrentIs DEF KeywordsInv

-----------------------------------------------------------------------------
(* The steps.                                                                *)

LEMMA TypeCharStep ==
  ASSUME KeywordsInv, NEW i, NEW c \in Typed, typeChar(i, c)
  PROVE  KeywordsInv'
  <1> DEFINE s == InsertAt(text, i, Char(c))
  <1>1. /\ i \in 1..Len(text) + 1 /\ keywords' = keywords
        /\ plain' = InsertAt(plain, CharsBefore(text, i) + 1, c)
        /\ expand_keywords(keywords', keyword, db, s)
    BY DEF typeChar
  <1>2. c \in STRING /\ text \in Texts /\ plain = Untag(text)
    BY KeywordsAssumption, PlainIs DEF KeywordsInv, PlainTextKept
  <1>3. s \in Texts /\ Untag(s) = InsertAt(Untag(text), CharsBefore(text, i) + 1, c)
    BY <1>1, <1>2, InsertKeeps
  <1> HIDE DEF s
  <1>4. /\ keywords' \in Seq(SetKeywords) /\ keyword \in [Ids -> KeywordRecords]
        /\ FoundByMatch(keyword) /\ Current(keywords', keyword, db)
    BY <1>1, CurrentIs DEF KeywordsInv
  <1>5. plain' = Untag(s)
    BY <1>1, <1>2, <1>3
  <1> QED BY <1>1, <1>3, <1>4, <1>5, ExpandedInv

LEMMA DeleteCharStep ==
  ASSUME KeywordsInv, NEW i, deleteChar(i)
  PROVE  KeywordsInv'
  <1> DEFINE s == RemoveAt(text, i)
             t == Simplified(s)
  <1>1. /\ i \in 1..Len(text) /\ IsChar(text[i]) /\ keywords' = keywords
        /\ plain' = RemoveAt(plain, CharsBefore(text, i) + 1)
        /\ expand_keywords(keywords', keyword, db, t)
    BY DEF deleteChar
  <1>2. text \in Texts /\ plain = Untag(text)
    BY PlainIs DEF KeywordsInv, PlainTextKept
  <1>3. s \in Texts /\ Untag(s) = RemoveAt(Untag(text), CharsBefore(text, i) + 1)
    BY <1>1, <1>2, DeleteKeeps
  <1> HIDE DEF s
  <1>4. t \in Texts /\ Untag(t) = Untag(s)
    BY <1>3, SimplifiedKeeps
  <1> HIDE DEF t
  <1>5. /\ keywords' \in Seq(SetKeywords) /\ keyword \in [Ids -> KeywordRecords]
        /\ FoundByMatch(keyword) /\ Current(keywords', keyword, db)
    BY <1>1, CurrentIs DEF KeywordsInv
  <1>6. plain' = Untag(t)
    BY <1>1, <1>2, <1>3, <1>4
  <1> QED BY <1>1, <1>4, <1>5, <1>6, ExpandedInv

LEMMA ToggleReminderStep ==
  ASSUME KeywordsInv, NEW i, toggleReminder(i)
  PROVE  KeywordsInv'
  <1> DEFINE x == IF text[i][2] \in {"1", "A"} THEN "0" ELSE "1"
             t == [k \in 1..Len(text) |-> IF k = i THEN Open(x)
                                          ELSE IF k \in Partner(text, i) THEN Close(x) ELSE text[k]]
  <1>1. /\ i \in 1..Len(text) /\ text[i][1] = "open" /\ keywords' = keywords /\ plain' = plain
        /\ expand_keywords(keywords', keyword, db, t)
    BY DEF toggleReminder
  <1>2. text \in Texts /\ plain = Untag(text)
    BY PlainIs DEF KeywordsInv, PlainTextKept
  <1>3. x \in Labels
    BY DEF Labels
  <1> HIDE DEF x
  <1>4. t \in Texts /\ Untag(t) = Untag(text)
    BY <1>1, <1>2, <1>3, RetaggedKeeps
  <1> HIDE DEF t
  <1>5. /\ keywords' \in Seq(SetKeywords) /\ keyword \in [Ids -> KeywordRecords]
        /\ FoundByMatch(keyword) /\ Current(keywords', keyword, db)
    BY <1>1, CurrentIs DEF KeywordsInv
  <1>6. plain' = Untag(t)
    BY <1>1, <1>2, <1>4
  <1> QED BY <1>1, <1>4, <1>5, <1>6, ExpandedInv

\* The keywords change: the database is made anew, the text keeps its characters.
LEMMA AnewInv ==
  ASSUME KeywordsInv, keywords' \in Seq(SetKeywords),
         NEW kws \in [Ids -> KeywordRecords], FoundByMatch(kws),
         expand_keywords(keywords', kws, <<>>, text), plain' = plain
  PROVE  KeywordsInv'
  <1>1. Current(keywords', kws, <<>>)
    BY DEF Current
  <1>2. text \in Texts /\ plain' = Untag(text)
    BY PlainIs DEF KeywordsInv, PlainTextKept
  <1> QED BY <1>1, <1>2, ExpandedInv

LEMMA AddKeywordStep ==
  ASSUME KeywordsInv, NEW id \in SetKeywords, NEW m \in {<<>>, keyword[id].match},
         addKeyword(id, m)
  PROVE  KeywordsInv'
  <1> DEFINE new == [match |-> m, match_re |-> UNSET, valid |-> FALSE]
             kws == [keyword EXCEPT ![id] = new]
  <1>1. /\ keywords' = Append(keywords, id) /\ plain' = plain
        /\ expand_keywords(keywords', kws, <<>>, text)
    BY DEF addKeyword
  <1>2. /\ keywords \in Seq(SetKeywords) /\ keyword \in [Ids -> KeywordRecords]
        /\ FoundByMatch(keyword) /\ id \in Ids
    BY DEF KeywordsInv, Ids
  <1>3. new \in KeywordRecords /\ ~new.valid
    <2>1. m \in Seq(STRING)
      <3>1. keyword[id] \in KeywordRecords
        BY <1>2
      <3>2. keyword[id].match \in Seq(STRING) /\ <<>> \in Seq(STRING)
        BY <3>1 DEF KeywordRecords
      <3> QED BY <3>2
    <2> QED BY <2>1 DEF KeywordRecords
  <1> HIDE DEF new
  <1>4. kws \in [Ids -> KeywordRecords] /\ FoundByMatch(kws)
    <2>1. \A k \in Ids : kws[k] = IF k = id THEN new ELSE keyword[k]
      BY <1>2
    <2>2. kws \in [Ids -> KeywordRecords]
      BY <1>2, <1>3
    <2> HIDE DEF kws
    <2> QED BY <1>2, <1>3, <2>1, <2>2 DEF FoundByMatch
  <1> HIDE DEF kws
  <1>5. keywords' \in Seq(SetKeywords)
    BY <1>1, <1>2
  <1> QED BY <1>1, <1>4, <1>5, AnewInv

LEMMA RemoveKeywordStep ==
  ASSUME KeywordsInv, NEW id \in SetKeywords, removeKeyword(id)
  PROVE  KeywordsInv'
  <1>1. /\ keywords' = Filter(keywords, SetKeywords \ {id}) /\ plain' = plain
        /\ expand_keywords(keywords', keyword, <<>>, text)
    BY DEF removeKeyword
  <1>2. /\ keywords \in Seq(SetKeywords) /\ keyword \in [Ids -> KeywordRecords]
        /\ FoundByMatch(keyword)
    BY DEF KeywordsInv
  <1>3. keywords' \in Seq(SetKeywords)
    BY <1>1, <1>2, FilterType
  <1> QED BY <1>1, <1>2, <1>3, AnewInv

LEMMA EditMatchStep ==
  ASSUME KeywordsInv, NEW id \in SetKeywords, NEW m \in MatchStrings, editMatch(id, m)
  PROVE  KeywordsInv'
  <1> DEFINE edited == [keyword[id] EXCEPT !.match = m]
             new == prepare(edited, TRUE)
  <1>1. /\ keyword' = [keyword EXCEPT ![id] = new] /\ db' = <<>>
        /\ keywords' = keywords /\ text' = text /\ plain' = plain
    BY DEF editMatch
  <1>2. /\ keywords \in Seq(SetKeywords) /\ keyword \in [Ids -> KeywordRecords]
        /\ FoundByMatch(keyword) /\ id \in Ids /\ text \in Texts /\ PlainTextKept
    BY DEF KeywordsInv, Ids
  <1>3. edited \in KeywordRecords
    <2>1. keyword[id] \in KeywordRecords /\ m \in Seq(STRING)
      BY <1>2, KeywordsAssumption
    <2> QED BY <2>1 DEF KeywordRecords
  <1> HIDE DEF edited
  <1>4. new \in KeywordRecords /\ (new.valid => new.match_re = new.match)
    BY <1>3, PrepareType
  <1> HIDE DEF new
  <1>5. keyword' \in [Ids -> KeywordRecords] /\ FoundByMatch(keyword)'
    <2>1. \A k \in Ids : keyword'[k] = IF k = id THEN new ELSE keyword[k]
      BY <1>1, <1>2
    <2>2. keyword' \in [Ids -> KeywordRecords]
      BY <1>1, <1>2, <1>4
    <2> QED BY <1>2, <1>4, <2>1, <2>2 DEF FoundByMatch
  <1>6. DatabaseCurrent'
    BY <1>1 DEF DatabaseCurrent
  <1>7. PlainTextKept'
    BY <1>1, <1>2 DEF PlainTextKept
  <1> QED BY <1>1, <1>2, <1>5, <1>6, <1>7 DEF KeywordsInv

LEMMA UpdateDelayedStep ==
  ASSUME KeywordsInv, updateDelayed
  PROVE  KeywordsInv'
  <1>1. keywords' = keywords /\ plain' = plain /\ expand_keywords(keywords', keyword, db, text)
    BY DEF updateDelayed
  <1>2. /\ keywords' \in Seq(SetKeywords) /\ keyword \in [Ids -> KeywordRecords]
        /\ FoundByMatch(keyword) /\ Current(keywords', keyword, db) /\ text \in Texts
    BY <1>1, CurrentIs DEF KeywordsInv
  <1>3. plain' = Untag(text)
    BY <1>1, PlainIs DEF KeywordsInv, PlainTextKept
  <1> QED BY <1>1, <1>2, <1>3, ExpandedInv

LEMMA StepKeepsKeywords == KeywordsInv /\ [Next]_vars => KeywordsInv'
  <1> SUFFICES ASSUME KeywordsInv, [Next]_vars PROVE KeywordsInv'
    OBVIOUS
  <1>1. ASSUME NEW i \in 1..Len(text) + 1, NEW c \in Typed, typeChar(i, c) PROVE KeywordsInv'
    BY <1>1, TypeCharStep
  <1>2. ASSUME NEW i \in 1..Len(text), deleteChar(i) PROVE KeywordsInv'
    BY <1>2, DeleteCharStep
  <1>3. ASSUME NEW i \in 1..Len(text), toggleReminder(i) PROVE KeywordsInv'
    BY <1>3, ToggleReminderStep
  <1>4. ASSUME NEW id \in SetKeywords, NEW m \in {<<>>, keyword[id].match}, addKeyword(id, m)
        PROVE  KeywordsInv'
    BY <1>4, AddKeywordStep
  <1>5. ASSUME NEW id \in SetKeywords, removeKeyword(id) PROVE KeywordsInv'
    BY <1>5, RemoveKeywordStep
  <1>6. ASSUME NEW id \in SetKeywords, NEW m \in MatchStrings, editMatch(id, m) PROVE KeywordsInv'
    BY <1>6, EditMatchStep
  <1>7. CASE updateDelayed
    BY <1>7, UpdateDelayedStep
  <1>8. CASE UNCHANGED vars
    <2>1. /\ keywords' = keywords /\ keyword' = keyword /\ db' = db /\ text' = text
          /\ plain' = plain
      BY <1>8 DEF vars
    <2> QED BY <2>1 DEF KeywordsInv, FoundByMatch, DatabaseCurrent, PlainTextKept
  <1> QED BY <1>1, <1>2, <1>3, <1>4, <1>5, <1>6, <1>7, <1>8 DEF Next

LEMMA KeywordsInvariant == Spec => []KeywordsInv
  BY InitKeywords, StepKeepsKeywords, PTL DEF Spec

-----------------------------------------------------------------------------
(* The theorems.                                                             *)

\* Whatever the keywords of the set and the game are, however they overlap, and
\* in whatever order they and the text are edited: without its tags and reminder
\* texts the field holds exactly the characters the user typed.
THEOREM TypedTextSurvives == Spec => []PlainTextKept
  <1>1. KeywordsInv => PlainTextKept
    BY DEF KeywordsInv
  <1> QED BY <1>1, KeywordsInvariant, PTL

\* The keyword database is empty or was made of the keywords as they are now,
\* each found by its present match string.
THEOREM DatabaseIsCurrent == Spec => []DatabaseCurrent
  <1>1. KeywordsInv => DatabaseCurrent
    BY DEF KeywordsInv
  <1> QED BY <1>1, KeywordsInvariant, PTL

=============================================================================
