------------------------------ MODULE LgTvManager ------------------------------
(***************************************************************************)
(* The manager task (src/lgtv_manager.rs and lgtv_manager/*.rs) with the   *)
(* tasks it talks to: the state machine, the WebSocket tasks and the TV    *)
(* network checker.  The manager runs one handler at a time, picked by its *)
(* select!; a handler is one step up to the place where it waits for       *)
(* another task (joining a WebSocket task, sleeping before a reconnect,    *)
(* waiting for the state machine to stop), where mgr_pc says how it        *)
(* continues.  What is only emitted to the caller is left out.             *)
(***************************************************************************)
EXTENDS StateMachine, WebSocketClient, TvOnNetwork, FiniteSets

CONSTANTS
    CallerMessage,  \* the ManagerMessages the caller uses
    MaxCalls,       \* bound: ManagerMessages the caller sends
    MaxChecks,      \* bound: pings of the TV
    MaxAttempts,    \* bound: reconnect_attempts stops counting here
    Patient         \* the caller only connects when nothing is under way

VARIABLES
    mgr,            \* the fields of LgTvManager
    mgr_pc,         \* where the manager task is
    was_on_network, \* local variable of run()
    disk,           \* the persisted state file, None if missing or unreadable
    ws_join_handle, \* the task the join handle is for, or None
    calls,          \* ManagerMessages sent so far
    checks          \* pings of the TV so far

mgr_vars == <<mgr, mgr_pc, was_on_network, disk, ws_join_handle, calls>>

checker_vars == <<net_vars, checks>>

vars == <<fsm_vars, ws_vars, checker_vars, mgr_vars>>

AnyCallerMessage == {"Connect", "ConnectLastGoodConnection", "Disconnect",
    "CancelReconnect", "SendTvCommand", "TestConnection", "ShutDown"}

ASSUME ManagerAssumption ==
    /\ CallerMessage \subseteq AnyCallerMessage
    /\ MaxCalls \in Nat
    /\ MaxChecks \in Nat
    /\ MaxAttempts \in Nat
    /\ Patient \in BOOLEAN

ReconnectFlowStatus == {"Inactive", "Active", "Cancelled", "WaitingForTvOnNetwork"}

Zombie == [tag |-> "Zombie", url |-> None]

ManagerStatus == State \cup {Zombie}

PersistedState == [ws_url : UrlOption, client_key : KeyOption]

ManagerState ==
    [ manager_status : ManagerStatus,
      client_key : KeyOption,
      ws_url : UrlOption,
      connection_details : ConnectionOption,
      last_good_connection : ConnectionOption,
      is_connection_initialized : BOOLEAN,
      is_manual_disconnect_requested : BOOLEAN,
      is_pairing : BOOLEAN,
      reconnect_flow_status : ReconnectFlowStatus,
      reconnect_attempts : 0 .. MaxAttempts,
      session_connection_count : 0 .. 1 ]     \* only ever compared with 0

\* select: in the select! of run().  force_reset: about to call
\* force_manager_reset.  reset, reset_*: in it, with what its caller does next.
\* disconnected: in handle_disconnected.  sleeping: in initiate_reconnect.
\* stopping: in the ShutDown handler.
ManagerPc == {"select", "force_reset", "reset", "reset_connect_error", "reset_initialize",
              "reset_shut_down", "disconnected", "sleeping", "stopping", "stopped"}

-----------------------------------------------------------------------------
(* Handlers as functions of the manager's fields.                          *)

IsDisconnected(s) == s.manager_status.tag = "Disconnected"

IsInitialConnectRetriesEnabled(s) ==
    s.connection_details # None /\ s.connection_details.initial_connect_retries

IsAutoReconnectEnabled(s) ==
    s.connection_details # None /\ s.connection_details.auto_reconnect

\* Mutant of ShouldRetryConnectFailure: only lost connections are retried.
RetryLostConnectionsOnly(s) ==
    IsAutoReconnectEnabled(s) /\ s.session_connection_count > 0

ShouldRetryConnectFailure(s) ==
    \/ IsInitialConnectRetriesEnabled(s) /\ s.session_connection_count = 0
    \/ IsAutoReconnectEnabled(s) /\ s.session_connection_count > 0

\* Mutant of SetReconnectFlowStatus: the attempts are counted anew each time.
CountAnew(s, status) ==
    [s EXCEPT !.reconnect_attempts = 0, !.reconnect_flow_status = status]

SetReconnectFlowStatus(s, status) ==
    [s EXCEPT !.reconnect_attempts =
                  IF s.reconnect_flow_status = "Active" THEN @ ELSE 0,
              !.reconnect_flow_status = status]

ImportPersistedState(s) ==
    IF disk = None
    THEN s
    ELSE [s EXCEPT !.ws_url = disk.ws_url, !.client_key = disk.client_key]

\* Mutant of IsReconnectFlow: waiting for the TV is not taken into account.
IsActiveFlow(s) == s.reconnect_flow_status = "Active"

IsReconnectFlow(s) ==
    s.reconnect_flow_status \in {"Active", "WaitingForTvOnNetwork"}

\* Mutant of ForgetConnection: the status is reset with the rest.
ForgetConnectionAndStatus(s) ==
    [s EXCEPT !.connection_details = None,
              !.ws_url = None,
              !.session_connection_count = 0,
              !.is_pairing = FALSE,
              !.manager_status = Disconnected]

ForgetConnection(s) ==
    [s EXCEPT !.connection_details = None,
              !.ws_url = None,
              !.session_connection_count = 0,
              !.is_pairing = FALSE]

InitializeManagerState(s) ==
    LET uninitialized == [s EXCEPT !.is_connection_initialized = FALSE]
        kept == IF IsReconnectFlow(s) THEN uninitialized
                                      ELSE ForgetConnection(uninitialized)
        settled == IF s.reconnect_flow_status = "Cancelled"
                   THEN SetReconnectFlowStatus(kept, "Inactive")
                   ELSE kept
    IN  ImportPersistedState(settled)

FlowAfterLostConnection(s) ==
    IF ~IsAutoReconnectEnabled(s)
    THEN "Inactive"
    ELSE IF is_tv_on_network \/ ~IsOperational
         THEN "Active"
         ELSE "WaitingForTvOnNetwork"

OptionallyPrepareForReconnect(s) ==
    IF s.is_manual_disconnect_requested \/ s.reconnect_flow_status = "Cancelled"
    THEN s
    ELSE SetReconnectFlowStatus(s, FlowAfterLostConnection(s))

\* What a handler leaves behind: the fields, the Inputs it has sent, where the
\* manager goes on, and the address given to the network checker.
Result(s, sent, pc) == [mgr |-> s, sent |-> sent, pc |-> pc, tv_ip |-> tv_ip]

Done(s) == Result(s, <<>>, "select")

DoneSending(s, tag) == Result(s, <<InputOf(tag)>>, "select")

WithClientKey(s, c) ==
    IF c.client_key = None THEN s ELSE [s EXCEPT !.client_key = c.client_key]

\* Mutant of Connecting: the URL is not kept for the state file.
ConnectingWithoutUrl(s, c) ==
    LET chosen == [s EXCEPT !.connection_details = c]
    IN  SetReconnectFlowStatus(chosen,
            IF c.initial_connect_retries THEN "Active" ELSE "Inactive")

Connecting(s, c) ==
    LET chosen == [s EXCEPT !.connection_details = c]
    IN  [SetReconnectFlowStatus(chosen,
             IF c.initial_connect_retries THEN "Active" ELSE "Inactive")
            EXCEPT !.ws_url = c.url]

\* Mutant of InitiateConnectToTv: a host without a URL is not refused.
ConnectToAnyHost(s, c) ==
    LET keyed == WithClientKey(s, c)
    IN  IF ~IsDisconnected(s)
        THEN Done(keyed)
        ELSE Result(Connecting(keyed, c), <<ConnectInput(c.url)>>, "select")

\* Mutant of InitiateConnectToTv: the status is not looked at.
ConnectInAnyStatus(s, c) ==
    LET keyed == WithClientKey(s, c)
    IN  IF c.url = None
        THEN Done(keyed)
        ELSE Result(Connecting(keyed, c), <<ConnectInput(c.url)>>, "select")

\* The client key is taken over even when the connection is then refused.
InitiateConnectToTv(s, c) ==
    LET keyed == WithClientKey(s, c)
    IN  IF ~IsDisconnected(s) \/ c.url = None
        THEN Done(keyed)
        ELSE [Result(Connecting(keyed, c), <<ConnectInput(c.url)>>, "select")
                 EXCEPT !.tv_ip = TvIpFor(c.url)]

\* reconnect_falloff, in milliseconds.  An f64 is large enough for a power that
\* is cut to max_delay anyway.
ReconnectFalloff(attempt, min_delay, max_delay) ==
    LET delay == 2 ^ (attempt + 6)
        cut == IF delay < max_delay THEN delay ELSE max_delay
    IN  IF cut > min_delay THEN cut ELSE min_delay

MaxRetryWait == 10000

RetryWait(s) == ReconnectFalloff(s.reconnect_attempts, 250, MaxRetryWait)

Reconnect(s) ==
    InitiateConnectToTv(
        [s EXCEPT !.reconnect_attempts = IF @ < MaxAttempts THEN @ + 1 ELSE @],
        s.connection_details)

InitiateReconnect(s, immediate) ==
    LET active == SetReconnectFlowStatus(s, "Active")
    IN  IF IsOperational /\ ~is_tv_on_network
        THEN Done(s)
        ELSE IF s.ws_url = None
        THEN Result(SetReconnectFlowStatus(active, "Inactive"), <<>>, "force_reset")
        ELSE IF s.connection_details = None
        THEN Done(active)
        ELSE IF immediate
        THEN Reconnect(active)
        ELSE Result(active, <<>>, "sleeping")

-----------------------------------------------------------------------------
(* Effects shared by the manager's actions.                                *)

\* Carry out the result of a handler.  Not being able to reach the state
\* machine makes the manager a zombie.
Commit(result) ==
    /\ mgr' = IF result.sent # <<>> /\ ~fsm_alive
              THEN [result.mgr EXCEPT !.manager_status = Zombie]
              ELSE result.mgr
    /\ to_fsm' = IF fsm_alive THEN to_fsm \o result.sent ELSE to_fsm
    /\ mgr_pc' = result.pc
    /\ tv_ip' = result.tv_ip

\* force_manager_reset up to the join; FinishReset is the rest of it.
ForceManagerReset(s, resume) ==
    /\ Commit(Result(s, <<>>, resume))
    /\ IF IsWsOpen THEN Tell("ShutDown") ELSE UNCHANGED ws_vars

\* send_to_ws: no task to send to is fine, a task that is gone forces a reset.
SendToWs(s, message, resume) ==
    IF cur_ws = None \/ IsWsOpen
    THEN /\ Commit(Done(s))
         /\ IF IsWsOpen THEN Tell(message) ELSE UNCHANGED ws_vars
    ELSE ForceManagerReset(s, resume)

AtSelect == mgr_pc = "select"

-----------------------------------------------------------------------------
(* Messages from the caller.                                               *)

\* Nothing is under way: every channel is empty and every task is at rest.
Quiet ==
    /\ mgr_pc = "select"
    /\ to_fsm = <<>> /\ from_fsm = <<>>
    /\ cur_ws # None => /\ ws[cur_ws].from_ws = <<>>
                        /\ ws[cur_ws].phase \in {"running", "ended"}
                        /\ ws[cur_ws].to_ws = <<>>

Called(message) ==
    /\ AtSelect /\ Room(to_fsm)
    /\ message \in CallerMessage
    /\ calls < MaxCalls
    /\ calls' = calls + 1
    /\ UNCHANGED <<fsm_state, from_fsm, fsm_alive, was_on_network, disk,
                   ws_join_handle, is_tv_on_network, is_tv_on_network_notify, is_notify_due, checks>>

CancelReconnect ==
    /\ Called("CancelReconnect")
    /\ LET cancelled == SetReconnectFlowStatus(mgr, "Cancelled")
       IN  CASE mgr.reconnect_flow_status = "Active" ->
                    Commit(Done(cancelled)) /\ UNCHANGED ws_vars
             [] mgr.reconnect_flow_status = "WaitingForTvOnNetwork" ->
                    ForceManagerReset(cancelled, "reset")
             [] OTHER -> Commit(Done(mgr)) /\ UNCHANGED ws_vars
    /\ UNCHANGED fsm_cancelled

Connect ==
    /\ Called("Connect")
    /\ Patient => Quiet
    /\ \E c \in Connection : Commit(InitiateConnectToTv(mgr, c))
    /\ UNCHANGED <<ws_vars, fsm_cancelled>>

ConnectLastGoodConnection ==
    /\ Called("ConnectLastGoodConnection")
    /\ Patient => Quiet
    /\ Commit(IF mgr.last_good_connection = None
              THEN Done(mgr)
              ELSE InitiateConnectToTv(mgr, mgr.last_good_connection))
    /\ UNCHANGED <<ws_vars, fsm_cancelled>>

Disconnect ==
    /\ Called("Disconnect")
    /\ Commit(DoneSending([mgr EXCEPT !.is_manual_disconnect_requested = TRUE],
                          "Disconnect"))
    /\ UNCHANGED <<ws_vars, fsm_cancelled>>

SendTvCommand ==
    /\ Called("SendTvCommand")
    /\ Commit(DoneSending(mgr, "SendCommand"))
    /\ UNCHANGED <<ws_vars, fsm_cancelled>>

TestConnection ==
    /\ Called("TestConnection")
    /\ IF mgr.is_connection_initialized
       THEN SendToWs(mgr, "TestConnection", "reset")
       ELSE Commit(Done(mgr)) /\ UNCHANGED ws_vars
    /\ UNCHANGED fsm_cancelled

ShutDown ==
    /\ Called("ShutDown")
    /\ fsm_cancelled' = TRUE
    /\ Commit(Result(mgr, <<>>, "stopping"))
    /\ UNCHANGED ws_vars

FromCaller ==
    \/ CancelReconnect \/ Connect \/ ConnectLastGoodConnection \/ Disconnect
    \/ SendTvCommand \/ TestConnection \/ ShutDown

-----------------------------------------------------------------------------
(* Updates from the state machine.                                         *)

Updated(kind, tag) ==
    /\ AtSelect
    /\ from_fsm # <<>>
    /\ Head(from_fsm).kind = kind
    /\ tag # "any" => Head(from_fsm).tag = tag
    /\ from_fsm' = Tail(from_fsm)
    /\ UNCHANGED <<fsm_state, fsm_alive, fsm_cancelled, was_on_network, disk,
                   calls, is_tv_on_network, is_tv_on_network_notify, is_notify_due, checks>>

NewState ==
    /\ Updated("State", "any")
    /\ Commit(Done([mgr EXCEPT !.manager_status =
                        [tag |-> Head(from_fsm).tag, url |-> Head(from_fsm).url]]))
    /\ UNCHANGED <<ws_vars, ws_join_handle>>

\* start_websocket_handler_and_connect; the handle of an earlier task is dropped.
ConnectToTv ==
    /\ Updated("Output", "ConnectToTv")
    /\ \E i \in Socket : StartSocket(i, Head(from_fsm).url) /\ ws_join_handle' = i
    /\ Commit(Done(mgr))

SendRegisterPayload ==
    /\ Updated("Output", "SendRegisterPayload")
    /\ SendToWs([SetReconnectFlowStatus(mgr, "Inactive") EXCEPT
                     !.session_connection_count = 1], "Register", "reset")
    /\ UNCHANGED ws_join_handle

\* Mutant of PairWithTv: the pairing prompt is asked for once more.
PairByRegistering ==
    /\ Updated("Output", "PairWithTv")
    /\ SendToWs([mgr EXCEPT !.is_pairing = TRUE], "Register", "reset")
    /\ UNCHANGED ws_join_handle

PairWithTv ==
    /\ Updated("Output", "PairWithTv")
    /\ Commit(Done([mgr EXCEPT !.is_pairing = TRUE]))
    /\ UNCHANGED <<ws_vars, ws_join_handle>>

Remembered(s) ==
    IF s.connection_details = None
    THEN s
    ELSE [s EXCEPT !.last_good_connection = s.connection_details]

InitializeConnection ==
    LET paired == [mgr EXCEPT !.is_pairing = FALSE]
    IN  /\ Updated("Output", "InitializeConnection")
        /\ IF cur_ws # None /\ ~IsWsOpen
           THEN ForceManagerReset(paired, "reset_initialize")
           ELSE SendToWs(Remembered(paired), "Initialize", "reset")
        /\ UNCHANGED ws_join_handle

SendCommand ==
    /\ Updated("Output", "SendCommand")
    /\ SendToWs(mgr, "Command", "reset")
    /\ UNCHANGED ws_join_handle

\* Mutant of InitiateDisconnectFromTv: the task is left to notice by itself.
DisconnectUntold(s) == Commit(Done(s)) /\ UNCHANGED ws_vars

InitiateDisconnectFromTv(s) ==
    IF ws_join_handle = None
    THEN Commit(Done(s)) /\ UNCHANGED ws_vars
    ELSE SendToWs(s, "ShutDown", "reset")

DisconnectFromTv ==
    /\ Updated("Output", "DisconnectFromTv")
    /\ InitiateDisconnectFromTv(OptionallyPrepareForReconnect(mgr))
    /\ UNCHANGED ws_join_handle

\* handle_disconnected up to the join; FinishDisconnect is the rest of it.
HandleDisconnected(output) ==
    /\ Updated("Output", output)
    /\ Commit(Result([mgr EXCEPT !.is_manual_disconnect_requested = FALSE],
                     <<>>, "disconnected"))
    /\ UNCHANGED <<ws_vars, ws_join_handle>>

HandleSuccessfulDisconnect == HandleDisconnected("HandleSuccessfulDisconnect")

HandleDisconnectError == HandleDisconnected("HandleDisconnectError")

HandleConnectError ==
    /\ Updated("Output", "HandleConnectError")
    /\ ForceManagerReset(mgr, "reset_connect_error")
    /\ UNCHANGED ws_join_handle

TransitionError ==
    /\ Updated("TransitionError", "any")
    /\ Commit(Done(mgr))
    /\ UNCHANGED <<ws_vars, ws_join_handle>>

FromStateMachine ==
    \/ NewState \/ ConnectToTv \/ SendRegisterPayload \/ PairWithTv
    \/ InitializeConnection \/ SendCommand \/ DisconnectFromTv
    \/ HandleSuccessfulDisconnect \/ HandleDisconnectError \/ HandleConnectError
    \/ TransitionError

-----------------------------------------------------------------------------
(* Updates from the WebSocket task.                                        *)

Reported(updates) ==
    /\ AtSelect /\ Room(to_fsm)
    /\ cur_ws # None
    /\ ws[cur_ws].from_ws # <<>>
    /\ Head(ws[cur_ws].from_ws) \in updates
    /\ ws' = [ws EXCEPT ![cur_ws].from_ws = Tail(@)]
    /\ UNCHANGED <<cur_ws, fsm_state, from_fsm, fsm_alive, fsm_cancelled,
                   was_on_network, ws_join_handle, calls,
                   is_tv_on_network, is_tv_on_network_notify, is_notify_due, checks>>

WebSocketConnected ==
    /\ Reported({"Connected"})
    /\ Commit(DoneSending(mgr, "AttemptRegister"))
    /\ UNCHANGED disk

WebSocketDisconnected ==
    /\ Reported({"Disconnected"})
    /\ Commit(DoneSending(mgr, "DisconnectionComplete"))
    /\ UNCHANGED disk

ConnectionLost ==
    /\ Reported({"ConnectError", "MessageReadError", "ServerClosedConnection"})
    /\ Commit(DoneSending(OptionallyPrepareForReconnect(mgr), "Error"))
    /\ UNCHANGED disk

ConnectionTested ==
    /\ Reported({"ConnectionOk", "ConnectionNotOk"})
    /\ Commit(IF Head(ws[cur_ws].from_ws) = "ConnectionOk"
              THEN Done(mgr)
              ELSE DoneSending(mgr, "Error"))
    /\ UNCHANGED disk

\* The first GetVolume payload completes the initialization.
GetVolume ==
    /\ Reported({"Volume"})
    /\ Commit(IF mgr.is_connection_initialized
              THEN Done(mgr)
              ELSE DoneSending([mgr EXCEPT !.is_connection_initialized = TRUE],
                               "StartCommunication"))
    /\ UNCHANGED disk

PairRequested ==
    /\ Reported({"Pair"})
    /\ Commit(DoneSending(mgr, "Pair"))
    /\ UNCHANGED disk

PairingFailed ==
    /\ Reported({"PairUnsupported", "PairingError"})
    /\ Commit(DoneSending(mgr, "Error"))
    /\ UNCHANGED disk

\* write_persisted_state truncates the file and then writes it.
AfterWrite(s) ==
    {[ws_url |-> s.ws_url, client_key |-> s.client_key]}
    \cup IF "DiskError" \in Faults THEN {disk, None} ELSE {}

Registered ==
    LET registered == [mgr EXCEPT !.client_key = ws[cur_ws].host]
    IN  /\ Reported({"Registered"})
        /\ Commit(DoneSending(registered, "Initialize"))
        /\ disk' \in AfterWrite(registered)

FromWebSocket ==
    \/ WebSocketConnected \/ WebSocketDisconnected \/ ConnectionLost
    \/ ConnectionTested \/ GetVolume \/ PairRequested \/ PairingFailed \/ Registered

-----------------------------------------------------------------------------
(* A result of the network checker.                                        *)

TvNetworkChecked ==
    LET lost == was_on_network /\ ~is_tv_on_network
        back == /\ ~was_on_network /\ is_tv_on_network
                /\ mgr.reconnect_flow_status = "WaitingForTvOnNetwork"
    IN  /\ AtSelect /\ Room(to_fsm)
        /\ is_tv_on_network_notify
        /\ is_tv_on_network_notify' = FALSE
        /\ was_on_network' = is_tv_on_network
        /\ \/ /\ Commit(
                   CASE lost /\ IsDisconnected(mgr) ->
                            Done(SetReconnectFlowStatus(mgr,
                                IF IsAutoReconnectEnabled(mgr) THEN "WaitingForTvOnNetwork"
                                                               ELSE "Inactive"))
                     [] lost /\ ~IsDisconnected(mgr) -> DoneSending(mgr, "Error")
                     [] back -> InitiateReconnect(mgr, TRUE)
                     [] OTHER -> Done(mgr))
              /\ UNCHANGED <<is_tv_on_network, is_notify_due, checks>>
           \/ /\ back /\ Commit(Done(mgr))     \* initiate_reconnect finds it gone again
              /\ IsOperational /\ ~is_notify_due /\ checks < MaxChecks
              /\ is_tv_on_network' = FALSE /\ is_notify_due' = TRUE /\ checks' = checks + 1
        /\ UNCHANGED <<fsm_state, from_fsm, fsm_alive, fsm_cancelled, ws_vars,
                       disk, ws_join_handle, calls>>

-----------------------------------------------------------------------------
(* Handlers that were waiting for another task.                            *)

\* Mutant of Joined: the join handle is dropped instead of awaited.
NotAwaited == TRUE

Joined == ws_join_handle # None => ws[ws_join_handle].phase = "ended"

Resumed ==
    UNCHANGED <<fsm_state, from_fsm, fsm_alive, fsm_cancelled, ws_vars,
                is_tv_on_network, is_tv_on_network_notify, is_notify_due, checks,
                was_on_network, disk, calls>>

\* The rest of force_manager_reset, and then of the handler that called it.
ResetInput == <<InputOf("Reset")>>

FinishedReset(resume, result) ==
    /\ mgr_pc = resume
    /\ Joined
    /\ Commit([result EXCEPT !.sent = ResetInput \o @])
    /\ ws_join_handle' = None
    /\ Resumed

AfterConnectError(s) ==
    CASE ~ShouldRetryConnectFailure(s) -> Done(s)
      [] s.reconnect_flow_status = "Active" -> InitiateReconnect(s, FALSE)
      [] s.reconnect_flow_status = "Cancelled" ->
             Done(SetReconnectFlowStatus(s, "Inactive"))
      [] OTHER -> Done(s)

FinishReset == FinishedReset("reset", Done(InitializeManagerState(mgr)))

FinishConnectError ==
    FinishedReset("reset_connect_error", AfterConnectError(InitializeManagerState(mgr)))

\* initialize_connection goes on with its other five requests, each of which
\* finds the channel closed and resets the manager once more.
FinishInitialize ==
    FinishedReset("reset_initialize",
        Result(Remembered(InitializeManagerState(mgr)),
               [k \in 1 .. 5 |-> InputOf("Reset")], "select"))

FinishShutDown ==
    FinishedReset("reset_shut_down", Result(InitializeManagerState(mgr), <<>>, "stopped"))

\* initiate_reconnect found no URL to reconnect to.
ResetInsteadOfReconnect ==
    /\ mgr_pc = "force_reset"
    /\ ForceManagerReset(mgr, "reset")
    /\ UNCHANGED <<fsm_state, from_fsm, fsm_alive, fsm_cancelled, was_on_network,
                   disk, calls, ws_join_handle, is_tv_on_network,
                   is_tv_on_network_notify, is_notify_due, checks>>

FinishDisconnect ==
    LET s == InitializeManagerState(mgr)
    IN  /\ mgr_pc = "disconnected"
        /\ Joined
        /\ Commit(
             IF s.reconnect_flow_status # "Active"
             THEN Done(s)
             ELSE IF s.is_pairing
             THEN Done([SetReconnectFlowStatus(s, "Inactive") EXCEPT !.is_pairing = FALSE])
             ELSE InitiateReconnect(s, FALSE))
        /\ ws_join_handle' = None
        /\ Resumed

\* The reconnect interval has passed.
RetryIntervalTick ==
    /\ mgr_pc = "sleeping"
    /\ Commit(Reconnect(mgr))
    /\ UNCHANGED ws_join_handle
    /\ Resumed

\* Mutant of TasksStopped: the WebSocket task is waited for, but not told.
WebSocketStoppedToo ==
    /\ mgr_pc = "stopping"
    /\ ~fsm_alive
    /\ Joined
    /\ Commit(Result(mgr, <<>>, "stopped"))
    /\ UNCHANGED <<fsm_state, from_fsm, fsm_alive, fsm_cancelled, was_on_network, ws_vars,
                   disk, calls, ws_join_handle, is_tv_on_network, is_tv_on_network_notify, is_notify_due, checks>>

\* The state machine has stopped; the WebSocket task is told, not waited for.
TasksStopped ==
    /\ mgr_pc = "stopping"
    /\ ~fsm_alive
    /\ IF ws_join_handle # None /\ ~IsWsOpen
       THEN ForceManagerReset(mgr, "reset_shut_down")
       ELSE /\ Commit(Result(mgr, <<>>, "stopped"))
            /\ IF ws_join_handle # None THEN Tell("ShutDown") ELSE UNCHANGED ws_vars
    /\ UNCHANGED <<fsm_state, from_fsm, fsm_alive, fsm_cancelled, was_on_network,
                   disk, calls, ws_join_handle, is_tv_on_network, is_tv_on_network_notify, is_notify_due, checks>>

Continue ==
    \/ FinishReset \/ FinishConnectError \/ FinishInitialize \/ FinishShutDown
    \/ ResetInsteadOfReconnect \/ FinishDisconnect \/ RetryIntervalTick
    \/ TasksStopped

-----------------------------------------------------------------------------

ManagerInit ==
    /\ disk \in {None} \cup {[ws_url |-> u, client_key |-> u] : u \in Url}
    /\ mgr = ImportPersistedState(
                [ manager_status |-> Disconnected,
                  client_key |-> None,
                  ws_url |-> None,
                  connection_details |-> None,
                  last_good_connection |-> None,
                  is_connection_initialized |-> FALSE,
                  is_manual_disconnect_requested |-> FALSE,
                  is_pairing |-> FALSE,
                  reconnect_flow_status |-> "Inactive",
                  reconnect_attempts |-> 0,
                  session_connection_count |-> 0 ])
    /\ mgr_pc = "select"
    /\ was_on_network = FALSE
    /\ ws_join_handle = None
    /\ calls = 0
    /\ checks = 0

Init == FsmInit /\ WsInit /\ NetInit /\ ManagerInit

ManagerStep == FromStateMachine \/ FromWebSocket \/ TvNetworkChecked \/ Continue

FsmStep == FsmNext /\ UNCHANGED <<ws_vars, checker_vars, mgr_vars>>

WsTask(i) == WsTaskStep(i) /\ UNCHANGED <<fsm_vars, checker_vars, mgr_vars>>

WsNetwork(i) == WsNetworkStep(i) /\ UNCHANGED <<fsm_vars, checker_vars, mgr_vars>>

NetStep ==
    /\ \/ StoreResult /\ checks < MaxChecks /\ checks' = checks + 1
       \/ NotifyManager /\ UNCHANGED checks
    /\ UNCHANGED <<fsm_vars, ws_vars, mgr_vars>>

Next ==
    \/ FromCaller
    \/ ManagerStep
    \/ FsmStep
    \/ \E i \in Socket : WsTask(i) \/ WsNetwork(i)
    \/ NetStep

Spec == Init /\ [][Next]_vars

(* The tasks run: each is polled again when it can go on, and the manager's *)
(* select! picks at random among the sources that are ready, so that none   *)
(* of them is put off forever.  A connection attempt ends, at the latest by *)
(* its timeout.  Nothing is assumed of the caller, the TV or the network.   *)
TaskFairness ==
    /\ SF_vars(FromStateMachine) /\ SF_vars(FromWebSocket) /\ SF_vars(TvNetworkChecked)
    /\ WF_vars(Continue)
    /\ WF_vars(FsmStep)
    /\ \A i \in Socket :
           /\ WF_vars(WsTask(i))
           /\ WF_vars(WsNetwork(i) /\ ws[i].phase = "connecting")

FairSpec == Spec /\ TaskFairness

-----------------------------------------------------------------------------

TypeOK ==
    /\ FsmTypeOK
    /\ WsTypeOK
    /\ NetTypeOK
    /\ mgr \in ManagerState
    /\ mgr_pc \in ManagerPc
    /\ was_on_network \in BOOLEAN
    /\ disk \in PersistedState \cup {None}
    /\ ws_join_handle \in Socket \cup {None}
    /\ calls \in 0 .. MaxCalls
    /\ checks \in 0 .. MaxChecks

IsStateUpdate(k) == from_fsm[k].kind = "State"

IsLastState(k) ==
    /\ IsStateUpdate(k)
    /\ \A later \in k + 1 .. Len(from_fsm) : ~IsStateUpdate(later)

IsState(update, s) == update.tag = s.tag /\ update.url = s.url

\* manager_status is the machine's state, late by the State updates the manager
\* has not read yet: the last of these is the state of the machine, and when
\* there is none the manager is up to date.  set_manager_status is only reached
\* through those updates, so one that is lost, repeated or read out of turn by
\* any of the handlers and resets would break this.
StatusLagsMachine ==
    mgr.manager_status # Zombie =>
        /\ \A k \in 1 .. Len(from_fsm) :
               IsLastState(k) => IsState(from_fsm[k], fsm_state)
        /\ (\A k \in 1 .. Len(from_fsm) : ~IsStateUpdate(k))
               => mgr.manager_status = fsm_state

\* A WebSocket task the manager holds the channels of, and has not joined, is
\* one it can still join: no reset or disconnect forgets a task that runs.
\* (A ConnectToTv replaces the task it holds, which then ends by itself:
\* ReplacedTasksEnd.)
NoForgottenTask ==
    /\ ws_join_handle \in {None, cur_ws}
    /\ cur_ws # None /\ ws_join_handle = None => ws[cur_ws].phase = "ended"

IsTold(i) == \E k \in 1 .. Len(ws[i].to_ws) : ws[i].to_ws[k] = "ShutDown"

IsJoining == mgr_pc \in {"reset", "reset_connect_error", "reset_initialize",
                         "reset_shut_down", "disconnected"}

\* Whenever the manager awaits a join handle, and so handles nothing else, the
\* task is on its way out or has a ShutDown to read: force_manager_reset sends
\* one itself, handle_disconnected relies on every path to Disconnected from
\* Disconnecting having sent one before.
JoinedTaskWasTold ==
    IsJoining /\ ws_join_handle # None =>
        \/ ws[ws_join_handle].phase \in {"closing", "exiting", "ended"}
        \/ IsTold(ws_join_handle)

Registers(i) == {k \in 1 .. Len(ws[i].to_ws) : ws[i].to_ws[k] = "Register"}

\* Each TV connection is asked to register at most once, whatever stale
\* Connected updates and resets come between: a second request would bring up
\* the pairing prompt again on the TV.
RegistersOncePerSocket ==
    \A i \in Socket :
        /\ Cardinality(Registers(i)) <= 1
        /\ ws[i].tv # "idle" => Registers(i) = {}

\* The wait before a reconnect only starts from rest: the status is
\* Disconnected (else initiate_connect_to_tv refuses, and the flow dies
\* silently), there is a connection to go back to, and the old task is gone.
ReconnectFromRest ==
    mgr_pc = "sleeping" =>
        /\ IsDisconnected(mgr)
        /\ mgr.connection_details # None
        /\ cur_ws # None => ws[cur_ws].phase = "ended"

\* While the flow waits for the TV to come back on the network there is a
\* connection to go back to and an address that is being pinged.
WaitingKeepsConnection ==
    mgr.reconnect_flow_status = "WaitingForTvOnNetwork" =>
        mgr.connection_details # None /\ tv_ip # None

\* The URL and the client key in the state file are those of the same TV.
PersistedPairMatches == disk # None => disk.client_key = disk.ws_url

\* An Input::Connect is never lost: it reaches the machine in Disconnected.
ConnectIsAccepted ==
    (to_fsm # <<>> /\ Head(to_fsm).tag = "Connect") => fsm_state = Disconnected

LiveTag == {"Connected", "Pairing", "Initializing", "Communicating"}

\* When nothing is under way, what the caller has been told is so: a live
\* status has a running connection to the TV of that URL behind it,
\* Disconnected has none, and Connecting or Disconnecting is not where a
\* connection comes to rest.
SettledMeansConsistent ==
    Quiet =>
        \/ /\ mgr.manager_status.tag \in LiveTag
           /\ cur_ws # None /\ Running(cur_ws)
           /\ ws[cur_ws].host = mgr.manager_status.url
           /\ mgr.ws_url = mgr.manager_status.url
        \/ /\ IsDisconnected(mgr)
           /\ \A i \in Socket : ~Running(i)

\* Every handler comes back to the select!, or to the end of run().
HandlersFinish == mgr_pc # "select" ~> mgr_pc \in {"select", "stopped"}

\* A ShutDown from the caller ends run().
ShutDownCompletes == fsm_cancelled ~> mgr_pc = "stopped"

\* A WebSocket task the manager has replaced ends by itself.
ReplacedTasksEnd ==
    \A i \in Socket :
        (i # cur_ws /\ ws[i].phase # "free") ~> (ws[i].phase = "free")

\* A TV that is on: an attempt repeated for ever succeeds, and the TV answers.
TvFairness ==
    \A i \in Socket :
        /\ SF_vars(WsConnected(i) /\ UNCHANGED <<fsm_vars, checker_vars, mgr_vars>>)
        /\ WF_vars(WsText(i) /\ UNCHANGED <<fsm_vars, checker_vars, mgr_vars>>)

\* With retries enabled and a TV that is on, an attempt to connect ends in
\* Communicating, unless the caller asks for the end of the connection or it
\* comes to pairing, which may be declined: no failed attempt is the last.  It is
\* checked without connections that are lost (see LostConnectionIsRetried).
RetriedConnectionSucceeds ==
    TvFairness =>
        (mgr.manager_status.tag = "Connecting"
            ~> \/ mgr.manager_status.tag = "Communicating"
               \/ mgr.is_manual_disconnect_requested
               \/ mgr.is_pairing)

\* A TV that cannot be reached is tried at longer and longer intervals: as long
\* as no attempt succeeds, the wait grows to its maximum and stays there.
RetriesSlowDown ==
    /\ []<>(mgr_pc = "sleeping")
    /\ <>[](mgr.manager_status.tag \in {"Connecting", "Disconnected"})
    => <>[](mgr_pc = "sleeping" => RetryWait(mgr) = MaxRetryWait)

\* The manager shows its caller the connection flow of ConnectionStatus.
Status == INSTANCE ConnectionStatus
              WITH status <- mgr.manager_status.tag, url <- mgr.manager_status.url

StatusSpec == Status!Spec
=============================================================================
