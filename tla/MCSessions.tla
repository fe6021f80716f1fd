----------------------------- MODULE MCSessions -----------------------------
(* Sessions with a few tabs and two sizes.                                 *)
EXTENDS Sessions, TLC

Symmetry == Permutations(Sizes)
=============================================================================
