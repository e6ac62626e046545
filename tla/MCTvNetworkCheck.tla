--------------------------- MODULE MCTvNetworkCheck ---------------------------
(* The network checker by itself, for TLC: no connections are needed. *)
EXTENDS TvNetworkCheck

NoConnection == {}
=============================================================================
