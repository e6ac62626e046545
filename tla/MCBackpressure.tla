----------------------------- MODULE MCBackpressure -----------------------------
(* The bounded channels, for TLC: small capacities, one TV. *)
EXTENDS Backpressure

NoConnection == {}
=============================================================================
