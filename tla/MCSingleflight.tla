--------------------------- MODULE MCSingleflight ---------------------------
(* Model-checking instance of Singleflight. *)
EXTENDS Singleflight, TLC

Symm == Permutations(Callers) \cup Permutations(Keys)
=============================================================================
