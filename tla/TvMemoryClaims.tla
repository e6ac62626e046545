----------------------------- MODULE TvMemoryClaims -----------------------------
(***************************************************************************)
(* What the repository's documentation and comments say of the details of  *)
(* a TV, and the code does not do.                                         *)
(***************************************************************************)
EXTENDS TvMemory

\* src/README.md:71 "TvState contains the entire state of the TV at the time the
\* message was sent", src/lgtv_manager.rs:224 "TV connection has been made and initial
\* setup commands are sent": a connection begins with no volume, which would be that of
\* another TV or of another time, and is not initialized.  A reset clears both and leaves
\* from_ws_rx: a volume payload of the TV before, handled after it, sets both again.
ConnectionsBeginAnew ==
    mgr.status = "Connected" =>
        mgr.details["volume"] = None /\ ~mgr.is_connection_initialized
=============================================================================
