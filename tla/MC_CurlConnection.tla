------------------------- MODULE MC_CurlConnection -------------------------
(* Instance of CurlConnection for TLC: objects and heap addresses are     *)
(* interchangeable model values.                                          *)
EXTENDS CurlConnection, TLC

Symmetry == Permutations(Objs) \cup Permutations(Impls)

=============================================================================
