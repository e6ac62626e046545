------------------------------ MODULE LgTvTypes ------------------------------
(***************************************************************************)
(* The data the manager's tasks exchange, abstracted to what the           *)
(* properties tell apart.  A WebSocket URL is a model value; a client key  *)
(* is named after the URL of the TV that issued it; a Rust Option is the   *)
(* value itself or None.                                                   *)
(***************************************************************************)
EXTENDS Naturals, Sequences

CONSTANTS
    Url,        \* WebSocket URLs of the TVs
    IpUrl,      \* the URLs whose host is an IP address, not a host name
    None,       \* Option::None
    Connection, \* the Connection values the caller may ask for
    Backlog     \* bound of the models: a task takes on no more work that
                \* fills a channel while this many messages are unread

Key == Url

UrlOption == Url \cup {None}

KeyOption == Key \cup {None}

\* A Connection with its settings.  url is what websocket_url_for_connection
\* makes of it (None: the host cannot be turned into a URL).
ConnectionType ==
    [ url : UrlOption,
      client_key : KeyOption,
      initial_connect_retries : BOOLEAN,
      auto_reconnect : BOOLEAN ]

ASSUME TypesAssumption ==
    /\ None \notin Url
    /\ IpUrl \subseteq Url
    /\ Connection \subseteq ConnectionType
    /\ None \notin Connection
    /\ Backlog \in Nat

Room(channel) == Len(channel) < Backlog

ConnectionOption == Connection \cup {None}
=============================================================================
