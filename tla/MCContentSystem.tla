--------------------------- MODULE MCContentSystem ---------------------------
(* Model-checking instances of ContentSystem. *)
EXTENDS ContentSystem, TLC

Symmetry == Permutations(Bodies) \cup Permutations(Workers)
=============================================================================
