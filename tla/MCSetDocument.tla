--------------------------- MODULE MCSetDocument ---------------------------
(* Small instances of SetDocument: zip files that are like each other. *)
EXTENDS SetDocument, TLC

Symmetry == Permutations(Paths \ DirPaths)
=============================================================================
