----------------------------- MODULE MCUnbounded ------------------------------
(* Unbounded on small sets of threads. *)
EXTENDS Unbounded, TLC

Symmetry == Permutations(Pushers) \cup Permutations(Poppers)
=============================================================================
