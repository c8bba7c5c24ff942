------------------------------- MODULE MCProxy -------------------------------
(* Proxy for TLC. *)
EXTENDS Proxy, TLC

Symmetry == Permutations(Req) \cup Permutations(Lane)
=============================================================================
