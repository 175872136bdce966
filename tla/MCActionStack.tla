--------------------------- MODULE MCActionStack ---------------------------
(* Small instances of ActionStack: the addresses bound how many actions are  *)
(* ever added (or, when they are reused, alive), and are interchangeable.    *)
EXTENDS ActionStack, TLC

Symmetry == Permutations(Addr)
=============================================================================
