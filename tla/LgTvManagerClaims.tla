--------------------------- MODULE LgTvManagerClaims ---------------------------
(***************************************************************************)
(* What the README and the comments of the source say of the manager, and  *)
(* what its code does not always do.  Each of these properties is refuted  *)
(* by a run of its own; the README of this directory explains how.         *)
(***************************************************************************)
EXTENDS LgTvManager

\* src/websocket_client.rs:173 "A failed WebSocket send is considered fatal",
\* src/lgtv_manager.rs:553 "treated as a fatal error for the active connection,
\* which will result in the LgTvManager reverting to a Disconnected state":
\* a manager that rests in Communicating has a connection that is running.
FailedSendIsFatal ==
    Quiet /\ mgr.manager_status.tag = "Communicating" =>
        cur_ws # None /\ Running(cur_ws)

\* The TV has closed the connection of a caller who wants it back, unread as yet.
HasLostConnection ==
    /\ mgr.manager_status.tag = "Communicating" /\ IsAutoReconnectEnabled(mgr)
    /\ cur_ws # None
    /\ \E k \in 1 .. Len(ws[cur_ws].from_ws) :
           ws[cur_ws].from_ws[k] = "ServerClosedConnection"

\* src/README.md:196 "When auto reconnect is enabled, the manager will attempt to
\* reestablish a lost connection": one that the TV has closed, and that the caller
\* has not asked the end of, is followed by an attempt to connect.
LostConnectionIsRetried ==
    HasLostConnection ~>
        \/ mgr.manager_status.tag = "Connecting"
        \/ mgr.is_manual_disconnect_requested
=============================================================================
