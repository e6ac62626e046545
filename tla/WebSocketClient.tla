---------------------------- MODULE WebSocketClient ----------------------------
(***************************************************************************)
(* The WebSocket tasks (src/websocket_client.rs) and the TV at the far end *)
(* of each.  The manager starts one task per connection attempt and keeps  *)
(* the two channels of the latest only: a task it has replaced finds both  *)
(* of its channels closed.  The Idle status, which the manager ignores, is *)
(* left out; the six requests of initialize_connection are one message.    *)
(***************************************************************************)
EXTENDS LgTvTypes

CONSTANTS
    Socket,     \* names for the tasks that live at the same time
    Faults      \* what may go wrong, out of AnyFault

VARIABLES
    ws,         \* the WebSocket tasks with their channels, and the TV's side
    cur_ws      \* the task whose channels the manager holds, or None

ws_vars == <<ws, cur_ws>>

AnyFault == {"ConnectError", "ServerClosed", "ReadError", "SendFailed",
             "PingTimeout", "PairingDeclined", "PairUnsupported", "DiskError"}

ASSUME SocketAssumption ==
    /\ None \notin Socket
    /\ Faults \subseteq AnyFault

\* free: no task.  closing: out of the loop, Disconnected not yet reported.
\* exiting: nothing left to report, the receiver not yet dropped.
Phase == {"free", "connecting", "running", "closing", "exiting", "ended"}

WsPayload == {"Register", "Initialize", "Command"}

WsMessage == WsPayload \cup {"TestConnection", "ShutDown"}

TvPayload == {"Pair", "PairUnsupported", "Registered", "PairingError", "Volume"}

WsUpdateMessage == TvPayload \cup {"Connected", "Disconnected", "ConnectError",
                      "MessageReadError", "ServerClosedConnection",
                      "ConnectionOk", "ConnectionNotOk"}

TvSession == {"idle", "registering", "prompting", "declined", "registered", "subscribed"}

SocketState ==
    [ phase : Phase,
      host : UrlOption,
      testing : BOOLEAN,                \* connection_test_start.is_some()
      to_ws : Seq(WsMessage),
      from_ws : Seq(WsUpdateMessage),
      tv : TvSession ]

NoSocket == [ phase |-> "free", host |-> None, testing |-> FALSE,
              to_ws |-> <<>>, from_ws |-> <<>>, tv |-> "idle" ]

NewSocket(host) == [NoSocket EXCEPT !.phase = "connecting", !.host = host]

WsInit ==
    /\ ws = [i \in Socket |-> NoSocket]
    /\ cur_ws = None

\* send_update: the update is lost when the manager has dropped the receiver.
Reporting(i, update) ==
    IF i = cur_ws THEN [ws[i] EXCEPT !.from_ws = Append(@, update)] ELSE ws[i]

Becomes(i, socket) == /\ ws' = [ws EXCEPT ![i] = socket]
                      /\ UNCHANGED cur_ws

-----------------------------------------------------------------------------
(* Connecting, with the five seconds of CONNECTION_TIMEOUT.                *)

WsConnected(i) ==
    /\ ws[i].phase = "connecting"
    /\ Becomes(i, [Reporting(i, "Connected") EXCEPT
                       !.phase = IF i = cur_ws THEN "running" ELSE "exiting"])

WsConnectError(i) ==
    /\ "ConnectError" \in Faults
    /\ ws[i].phase = "connecting"
    /\ Becomes(i, [Reporting(i, "ConnectError") EXCEPT !.phase = "exiting"])

(* Messages from the manager.                                              *)

Running(i) == ws[i].phase = "running"

Next_ws(i) == Head(ws[i].to_ws)

Received(i) == [ws[i] EXCEPT !.to_ws = Tail(@)]

\* The TV's answer to a register request takes a while; the subscriptions of
\* the initialization only work for a registered client.
AfterPayload(session, payload) ==
    CASE payload = "Register" -> "registering"
      [] payload = "Initialize" /\ session = "registered" -> "subscribed"
      [] OTHER -> session

WsSendPayload(i) ==
    /\ Running(i) /\ ws[i].to_ws # <<>> /\ Next_ws(i) \in WsPayload
    /\ Becomes(i, [Received(i) EXCEPT !.tv = AfterPayload(@, Next_ws(i))])

WsTestConnection(i) ==
    /\ Running(i) /\ ws[i].to_ws # <<>> /\ Next_ws(i) = "TestConnection"
    /\ Becomes(i, [Received(i) EXCEPT !.testing = TRUE])

\* A payload or a ping that cannot be written ends the loop.
WsSendFailed(i) ==
    /\ "SendFailed" \in Faults
    /\ Running(i) /\ ws[i].to_ws # <<>>
    /\ \/ Next_ws(i) \in WsPayload
       \/ Next_ws(i) = "TestConnection" /\ ~ws[i].testing
    /\ Becomes(i, [Received(i) EXCEPT !.phase = "closing"])

WsShutDown(i) ==
    /\ Running(i) /\ ws[i].to_ws # <<>> /\ Next_ws(i) = "ShutDown"
    /\ Becomes(i, [Received(i) EXCEPT !.phase = "closing"])

\* Mutant of WsChannelClosed: a closed channel is taken for an empty one.
WsChannelClosedUnnoticed(i) ==
    /\ Running(i) /\ i # cur_ws /\ ws[i].to_ws # <<>>
    /\ Becomes(i, [ws[i] EXCEPT !.phase = "closing"])

\* The manager has dropped its sender and every message has been read.
WsChannelClosed(i) ==
    /\ Running(i) /\ i # cur_ws /\ ws[i].to_ws = <<>>
    /\ Becomes(i, [ws[i] EXCEPT !.phase = "closing"])

(* Messages from the TV, and the one-second tick.                          *)

Answer(payload, session) == [payload |-> payload, session |-> session]

TvAnswers(session) ==
    CASE session = "registering" ->
             { Answer("Registered", "registered"), Answer("Pair", "prompting") }
             \cup { Answer(p, "declined") : p \in Faults \cap {"PairUnsupported"} }
      [] session = "prompting" ->
             { Answer("Registered", "registered") }
             \cup { Answer("PairingError", "declined") : f \in Faults \cap {"PairingDeclined"} }
      [] session = "subscribed" -> { Answer("Volume", "subscribed") }
      [] OTHER -> {}

WsText(i) ==
    /\ Running(i)
    /\ \E answer \in TvAnswers(ws[i].tv) :
           /\ answer.payload = "Volume" => Room(ws[i].from_ws)
           /\ Becomes(i, [Reporting(i, answer.payload) EXCEPT
                              !.tv = answer.session,
                              !.phase = IF i = cur_ws THEN @ ELSE "closing"])

WsPong(i) ==
    /\ Running(i) /\ ws[i].testing
    /\ Becomes(i, [Reporting(i, "ConnectionOk") EXCEPT !.testing = FALSE])

\* No pong in time: reported at every tick until a pong arrives.
WsPingTimeout(i) ==
    /\ "PingTimeout" \in Faults
    /\ Running(i) /\ ws[i].testing /\ Room(ws[i].from_ws)
    /\ Becomes(i, Reporting(i, "ConnectionNotOk"))

WsServerClosed(i) ==
    /\ "ServerClosed" \in Faults
    /\ Running(i)
    /\ Becomes(i, [Reporting(i, "ServerClosedConnection") EXCEPT !.phase = "closing"])

WsReadError(i) ==
    /\ "ReadError" \in Faults
    /\ Running(i)
    /\ Becomes(i, [Reporting(i, "MessageReadError") EXCEPT !.phase = "closing"])

(* The end of the task: report Disconnected, then drop both channels.      *)

\* Mutant of WsReportDisconnected: the loop ends and nobody is told.
WsEndUnreported(i) ==
    /\ ws[i].phase = "closing"
    /\ Becomes(i, [ws[i] EXCEPT !.phase = "exiting"])

WsReportDisconnected(i) ==
    /\ ws[i].phase = "closing"
    /\ Becomes(i, [Reporting(i, "Disconnected") EXCEPT !.phase = "exiting"])

Ended(i) == [NoSocket EXCEPT !.phase = "ended", !.host = ws[i].host,
                             !.from_ws = ws[i].from_ws]

WsEnd(i) ==
    /\ ws[i].phase = "exiting"
    /\ Becomes(i, IF i = cur_ws THEN Ended(i) ELSE NoSocket)

\* The steps a task takes by itself, and those that need the TV or the network.
WsTaskStep(i) ==
    \/ WsSendPayload(i) \/ WsTestConnection(i) \/ WsShutDown(i)
    \/ WsChannelClosed(i) \/ WsReportDisconnected(i) \/ WsEnd(i)

WsNetworkStep(i) ==
    \/ WsConnected(i) \/ WsConnectError(i) \/ WsSendFailed(i) \/ WsText(i)
    \/ WsPong(i) \/ WsPingTimeout(i) \/ WsServerClosed(i) \/ WsReadError(i)

-----------------------------------------------------------------------------
(* The manager's side of the channels.                                     *)

\* The manager drops the channels it holds: a task that has ended is forgotten.
ChannelsDropped ==
    [j \in Socket |->
        CASE j # cur_ws -> ws[j]
          [] j = cur_ws /\ ws[j].phase = "ended" -> NoSocket
          [] OTHER -> [ws[j] EXCEPT !.from_ws = <<>>]]

\* Start a task and take its channels, dropping those of the task before it.
StartSocket(i, host) ==
    /\ ws[i].phase = "free"
    /\ ws' = [ChannelsDropped EXCEPT ![i] = NewSocket(host)]
    /\ cur_ws' = i

\* to_ws_tx.send() succeeds: the task has not dropped its receiver.
IsWsOpen == cur_ws # None /\ ws[cur_ws].phase # "ended"

Tell(message) ==
    /\ ws' = [ws EXCEPT ![cur_ws].to_ws = Append(@, message)]
    /\ UNCHANGED cur_ws

WsTypeOK ==
    /\ ws \in [Socket -> SocketState]
    /\ cur_ws \in Socket \cup {None}
=============================================================================
