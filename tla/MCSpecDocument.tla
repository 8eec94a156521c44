--------------------------- MODULE MCSpecDocument ---------------------------
(* SpecDocument on small instances. *)
EXTENDS SpecDocument, TLC

Symmetry == Permutations(Projects)
=============================================================================
