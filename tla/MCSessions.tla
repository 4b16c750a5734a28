----------------------------- MODULE MCSessions -----------------------------
(* A small instance, for TLC, of the two ends of a login. *)
EXTENDS Ends, TLC

Symmetry == Permutations(Requests)
=============================================================================
