---- MODULE MCCardList ----
EXTENDS CardList, TLC
CONSTANTS c1, c2, c3, s1, s2, p1, p2
Symmetry == Permutations({c1, c2, c3}) \cup Permutations({s1, s2}) \cup Permutations({p1,p2})
====
