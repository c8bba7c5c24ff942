---------------------------- MODULE MCSessionPool ----------------------------
(* SessionPool for TLC. *)
EXTENDS SessionPool, TLC

Symmetry == Permutations(Conn) \cup Permutations(Ctx)
=============================================================================
