------------------------------ MODULE MCTvMemory ------------------------------
(* Two TVs and two data directories, for TLC. *)
EXTENDS TvMemoryClaims

CONSTANTS tv1, tv2

Host(u) ==
    [ url |-> u, is_device |-> FALSE, mac_addr |-> None, client_key |-> None,
      force_pairing |-> FALSE, initial_connect_retries |-> FALSE, auto_reconnect |-> FALSE ]

Device(u) == [Host(u) EXCEPT !.is_device = TRUE, !.mac_addr = u]

\* A host that reconnects, a discovered device, one whose MAC address is unknown and
\* whose key the caller has, and one that has no URL.
Connections ==
    { [Host(tv1) EXCEPT !.auto_reconnect = TRUE],
      [Device(tv1) EXCEPT !.initial_connect_retries = TRUE],
      Device(tv2),
      [Host(tv2) EXCEPT !.client_key = OtherKey(tv2), !.force_pairing = TRUE],
      Host(None) }
=============================================================================
