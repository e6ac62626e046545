---------------------------- MODULE MCLgTvManager ----------------------------
(* Instances of the manager for TLC: the connections a caller asks for. *)
EXTENDS LgTvManagerClaims, TLC

CONSTANTS u1, u2

Plain(u) == [url |-> u, client_key |-> None,
             initial_connect_retries |-> FALSE, auto_reconnect |-> FALSE]

Auto(u) == [Plain(u) EXCEPT !.auto_reconnect = TRUE]

InitialRetries(u) == [Plain(u) EXCEPT !.initial_connect_retries = TRUE]

Retrying(u) == [Auto(u) EXCEPT !.initial_connect_retries = TRUE]

Keyed(u) == [Plain(u) EXCEPT !.client_key = u]

OnePlain == {Plain(u1)}

OneAuto == {Auto(u1)}

OneInitialRetries == {InitialRetries(u1)}

OneRetrying == {Retrying(u1)}

\* The second one has a host that cannot be turned into a URL.
AutoOrNoUrl == {Auto(u1), Plain(None)}

\* One TV that the client key is known of, one that is to be restored.
AutoOrKeyed == {Auto(u1), Keyed(u2)}

SocketSymmetry == Permutations(Socket)
=============================================================================
