---------------------------- MODULE MC_HTTPTls ----------------------------
(* Instance of HTTPTls for TLC: connections, bundle paths and https URLs  *)
(* are interchangeable model values.                                      *)
EXTENDS HTTPTls, TLC

Symmetry == Permutations(Conns) \cup Permutations(Paths) \cup Permutations(HttpsUrls)

=============================================================================
