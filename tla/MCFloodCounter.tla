--------------------------- MODULE MCFloodCounter ---------------------------
(* Model values and symmetry for model checking FloodCounter, and its mutants. *)
EXTENDS FloodCounter, TLC

Symmetry == Permutations(Nodes)
=============================================================================
