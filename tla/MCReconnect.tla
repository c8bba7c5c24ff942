----------------------------- MODULE MCReconnect -----------------------------
(***************************************************************************)
(* Reconnect for TLC, in 14-bit integers with a second of 24 = 8 * 3       *)
(* ticks: like 10^9 = 2^9 * 1953125 in 64 bits, the product first turns    *)
(* negative and then, once 2^a alone holds the missing factors of two,     *)
(* zero.                                                                   *)
(***************************************************************************)
EXTENDS Reconnect
=============================================================================
