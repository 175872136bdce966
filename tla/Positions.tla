----------------------------- MODULE Positions -----------------------------
(***************************************************************************)
(* Some of the positions of a sequence, as loops over a vector go through  *)
(* them: src/src/gui/thumbnail_thread.cpp erases the requests that match,  *)
(* src/src/data/action/generic.hpp notes where the items it removes are,   *)
(* src/src/util/tagged_string.cpp takes the tags out of a string.          *)
(***************************************************************************)
EXTENDS Naturals, FiniteSets, Sequences

\* How many positions of K there are up to i; the n-th position of K.
Rank(K, i) == Cardinality({j \in K : j <= i})
Place(K, n) == CHOOSE i \in K : Rank(K, i) = n

\* What is left of s when all but the elements at the positions K are erased.
Only(s, K) == [n \in 1..Cardinality(K) |-> s[Place(K, n)]]

\* What of s is in T, in that order.
Filter(s, T) ==
    LET kept[n \in 0..Len(s)] == IF n = 0 THEN <<>>
                                 ELSE IF s[n] \in T THEN Append(kept[n - 1], s[n])
                                 ELSE kept[n - 1]
    IN  kept[Len(s)]
=============================================================================
