--------------------------- MODULE MCRequestQueue ---------------------------
(* Small instances of RequestQueue for TLC. *)
EXTENDS RequestQueue, TLC

Symmetry == Permutations(Acceptors) \cup Permutations(Dispatchers) \cup Permutations(Request)
=============================================================================
