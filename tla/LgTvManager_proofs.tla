-------------------------- MODULE LgTvManager_proofs --------------------------
(***************************************************************************)
(* Theorems about the manager and the tasks it talks to, for any number of *)
(* TVs, sockets, connections, calls and retries.                           *)
(***************************************************************************)
EXTENDS LgTvManager, TLAPS

-----------------------------------------------------------------------------
(* The handlers map the manager's fields to the manager's fields.          *)

\* Setting the reconnect flow status changes neither the connection nor its URL.
LEMMA SetFlowType ==
    ASSUME NEW s \in ManagerState, NEW status \in ReconnectFlowStatus
    PROVE  /\ SetReconnectFlowStatus(s, status) \in ManagerState
           /\ SetReconnectFlowStatus(s, status).connection_details = s.connection_details
           /\ SetReconnectFlowStatus(s, status).ws_url = s.ws_url
<1> DEFINE attempts == IF s.reconnect_flow_status = "Active" THEN s.reconnect_attempts ELSE 0
<1>1. attempts \in 0 .. MaxAttempts
    BY ManagerAssumption DEF ManagerState
<1>2. SetReconnectFlowStatus(s, status)
          = [s EXCEPT !.reconnect_attempts = attempts, !.reconnect_flow_status = status]
    BY DEF SetReconnectFlowStatus
<1> HIDE DEF attempts
<1>3. QED
    BY <1>1, <1>2 DEF ManagerState

\* What is read back from disk are a URL and a key, or nothing.
LEMMA ImportType ==
    ASSUME NEW s \in ManagerState, disk \in PersistedState \cup {None}
    PROVE  ImportPersistedState(s) \in ManagerState
    BY DEF ImportPersistedState, ManagerState, PersistedState

\* Forgetting the connection resets each field to a value of its type.
LEMMA ForgetType ==
    ASSUME NEW s \in ManagerState
    PROVE  ForgetConnection(s) \in ManagerState
<1>1. None \in ConnectionOption /\ None \in UrlOption
    BY DEF ConnectionOption, UrlOption
<1>2. 0 \in 0 .. 1
    OBVIOUS
<1> QED
    BY <1>1, <1>2 DEF ForgetConnection, ManagerState

\* The state after a reset is a state of the manager.
LEMMA InitializeType ==
    ASSUME NEW s \in ManagerState, disk \in PersistedState \cup {None}
    PROVE  InitializeManagerState(s) \in ManagerState
<1> DEFINE uninitialized == [s EXCEPT !.is_connection_initialized = FALSE]
           kept == IF IsReconnectFlow(s) THEN uninitialized
                                         ELSE ForgetConnection(uninitialized)
           settled == IF s.reconnect_flow_status = "Cancelled"
                      THEN SetReconnectFlowStatus(kept, "Inactive")
                      ELSE kept
<1>1. uninitialized \in ManagerState
    BY DEF ManagerState
<1>2. ForgetConnection(uninitialized) \in ManagerState
    <2> HIDE DEF uninitialized
    <2> QED
        BY <1>1, ForgetType
<1>3. kept \in ManagerState
    BY <1>1, <1>2
<1>4. settled \in ManagerState
    <2>1. "Inactive" \in ReconnectFlowStatus
        BY DEF ReconnectFlowStatus
    <2> HIDE DEF kept
    <2> QED
        BY <1>3, <2>1, SetFlowType
<1> HIDE DEF settled
<1>5. ImportPersistedState(settled) \in ManagerState
    BY <1>4, ImportType
<1> QED
    BY <1>5 DEF InitializeManagerState, settled

\* What a lost connection leaves of the fields.
LEMMA PrepareType ==
    ASSUME NEW s \in ManagerState
    PROVE  OptionallyPrepareForReconnect(s) \in ManagerState
<1>1. FlowAfterLostConnection(s) \in ReconnectFlowStatus
    BY DEF FlowAfterLostConnection, ReconnectFlowStatus
<1> QED
    BY <1>1, SetFlowType DEF OptionallyPrepareForReconnect

-----------------------------------------------------------------------------
(* The results of handlers.  A manager that goes to sleep before a         *)
(* reconnect has a connection to go back to: it is read after the sleep.   *)

ResultType ==
    [mgr : ManagerState, sent : Seq(Input), pc : ManagerPc, tv_ip : UrlOption]

IsResult(r) ==
    /\ r \in ResultType
    /\ r.pc = "sleeping" => r.mgr.connection_details # None

\* An Input without a URL is an Input.
LEMMA InputOfType ==
    ASSUME NEW tag \in InputTag \ {"Connect"}
    PROVE  InputOf(tag) \in Input
    BY DEF InputOf, Input

\* Inputs that a handler sends one after the other are a sequence of Inputs.
LEMMA SentType ==
    ASSUME NEW s \in ManagerState, NEW sent \in Seq(Input),
           NEW pc \in ManagerPc \ {"sleeping"}, tv_ip \in UrlOption
    PROVE  IsResult(Result(s, sent, pc))
    BY DEF IsResult, ResultType, Result

\* A handler that only sets fields.
LEMMA DoneType ==
    ASSUME NEW s \in ManagerState, tv_ip \in UrlOption
    PROVE  IsResult(Done(s))
<1>1. <<>> \in Seq(Input) /\ "select" \in ManagerPc \ {"sleeping"}
    BY DEF ManagerPc
<1> QED
    BY <1>1, SentType DEF Done

\* A handler that also sends an Input.
LEMMA DoneSendingType ==
    ASSUME NEW s \in ManagerState, tv_ip \in UrlOption,
           NEW tag \in InputTag \ {"Connect"}
    PROVE  IsResult(DoneSending(s, tag))
<1>1. <<InputOf(tag)>> \in Seq(Input)
    BY InputOfType
<1>2. "select" \in ManagerPc \ {"sleeping"}
    BY DEF ManagerPc
<1> QED
    BY <1>1, <1>2, SentType DEF DoneSending

\* What initiate_connect_to_tv leaves behind, whether it connects or refuses.
LEMMA InitiateConnectType ==
    ASSUME NEW s \in ManagerState, NEW c \in Connection, tv_ip \in UrlOption
    PROVE  IsResult(InitiateConnectToTv(s, c))
<1> DEFINE keyed == WithClientKey(s, c)
           chosen == [keyed EXCEPT !.connection_details = c]
           flow == SetReconnectFlowStatus(chosen,
                       IF c.initial_connect_retries THEN "Active" ELSE "Inactive")
<1>1. c \in ConnectionType
    BY TypesAssumption
<1>2. keyed \in ManagerState
    BY <1>1 DEF WithClientKey, ManagerState, ConnectionType
<1>3. CASE ~IsDisconnected(s) \/ c.url = None
    BY <1>2, <1>3, DoneType DEF InitiateConnectToTv
<1>4. CASE IsDisconnected(s) /\ c.url # None
    <2>1. c.url \in Url
        BY <1>1, <1>4 DEF ConnectionType, UrlOption
    <2>2. chosen \in ManagerState
        <3> HIDE DEF keyed
        <3> QED
            BY <1>2 DEF ManagerState, ConnectionOption
    <2>3. flow \in ManagerState
        <3> HIDE DEF chosen
        <3>1. (IF c.initial_connect_retries THEN "Active" ELSE "Inactive") \in ReconnectFlowStatus
            BY DEF ReconnectFlowStatus
        <3> QED
            BY <2>2, <3>1, SetFlowType
    <2>4. Connecting(keyed, c) \in ManagerState
        <3>1. Connecting(keyed, c) = [flow EXCEPT !.ws_url = c.url]
            BY DEF Connecting
        <3> HIDE DEF flow
        <3> QED
            BY <2>1, <2>3, <3>1 DEF ManagerState, UrlOption
    <2>5. <<ConnectInput(c.url)>> \in Seq(Input)
        BY <2>1 DEF ConnectInput, Input
    <2>6. TvIpFor(c.url) \in UrlOption
        BY <2>1 DEF TvIpFor, UrlOption
    <2>7. InitiateConnectToTv(s, c) =
              [mgr |-> Connecting(keyed, c), sent |-> <<ConnectInput(c.url)>>,
               pc |-> "select", tv_ip |-> TvIpFor(c.url)]
        BY <1>4 DEF InitiateConnectToTv, Result
    <2>8. "select" \in ManagerPc
        BY DEF ManagerPc
    <2> HIDE DEF keyed
    <2> QED
        BY <2>4, <2>5, <2>6, <2>7, <2>8 DEF IsResult, ResultType
<1> QED
    BY <1>3, <1>4

\* Each attempt is counted, up to the bound of the model.
LEMMA ReconnectType ==
    ASSUME NEW s \in ManagerState, s.connection_details # None, tv_ip \in UrlOption
    PROVE  IsResult(Reconnect(s))
<1> DEFINE attempts == IF s.reconnect_attempts < MaxAttempts
                       THEN s.reconnect_attempts + 1 ELSE s.reconnect_attempts
<1>1. attempts \in 0 .. MaxAttempts
    BY ManagerAssumption DEF ManagerState
<1>2. s.connection_details \in Connection
    BY DEF ManagerState, ConnectionOption
<1>3. Reconnect(s) = InitiateConnectToTv([s EXCEPT !.reconnect_attempts = attempts],
                                         s.connection_details)
    BY DEF Reconnect
<1> HIDE DEF attempts
<1>4. [s EXCEPT !.reconnect_attempts = attempts] \in ManagerState
    BY <1>1 DEF ManagerState
<1> QED
    BY <1>2, <1>3, <1>4, InitiateConnectType

\* initiate_reconnect only sleeps with a connection to go back to.
LEMMA InitiateReconnectType ==
    ASSUME NEW s \in ManagerState, NEW immediate \in BOOLEAN, tv_ip \in UrlOption
    PROVE  IsResult(InitiateReconnect(s, immediate))
<1> DEFINE active == SetReconnectFlowStatus(s, "Active")
<1>1. active \in ManagerState /\ active.connection_details = s.connection_details
    BY SetFlowType DEF ReconnectFlowStatus
<1>2. IsResult(Done(s)) /\ IsResult(Done(active))
    BY <1>1, DoneType
<1>3. IsResult(Result(SetReconnectFlowStatus(active, "Inactive"), <<>>, "force_reset"))
    <2>1. SetReconnectFlowStatus(active, "Inactive") \in ManagerState
        <3> HIDE DEF active
        <3> QED
            BY <1>1, SetFlowType DEF ReconnectFlowStatus
    <2>2. <<>> \in Seq(Input) /\ "force_reset" \in ManagerPc \ {"sleeping"}
        BY DEF ManagerPc
    <2> HIDE DEF active
    <2> QED
        BY <2>1, <2>2, SentType
<1>4. CASE s.connection_details # None
    <2>1. IsResult(Reconnect(active))
        BY <1>1, <1>4, ReconnectType
    <2>2. IsResult(Result(active, <<>>, "sleeping"))
        <3>1. <<>> \in Seq(Input) /\ "sleeping" \in ManagerPc
            BY DEF ManagerPc
        <3> HIDE DEF active
        <3> QED
            BY <1>1, <1>4, <3>1 DEF IsResult, ResultType, Result
    <2> QED
        BY <1>2, <1>3, <2>1, <2>2 DEF InitiateReconnect
<1>5. CASE s.connection_details = None
    BY <1>2, <1>3, <1>5 DEF InitiateReconnect
<1> QED
    BY <1>4, <1>5

-----------------------------------------------------------------------------
(* TypeInv, the inductive invariant behind TypeOK, is TypeOK in three      *)
(* parts and SleepingHasConnection.  TypeOK alone is not inductive: after  *)
(* the sleep initiate_reconnect reads connection_details without looking   *)
(* at whether there is one, so that there is one must be known all along.  *)

SleepingHasConnection == mgr_pc = "sleeping" => mgr.connection_details # None

\* The variables a handler's result decides on.
CoreOK ==
    /\ mgr \in ManagerState
    /\ mgr_pc \in ManagerPc
    /\ to_fsm \in Seq(Input)
    /\ tv_ip \in UrlOption
    /\ SleepingHasConnection

\* The variables other than these and the WebSocket tasks.
RestOK ==
    /\ fsm_state \in State
    /\ from_fsm \in Seq(Update)
    /\ fsm_alive \in BOOLEAN
    /\ fsm_cancelled \in BOOLEAN
    /\ is_tv_on_network \in BOOLEAN
    /\ is_tv_on_network_notify \in BOOLEAN
    /\ is_notify_due \in BOOLEAN
    /\ was_on_network \in BOOLEAN
    /\ disk \in PersistedState \cup {None}
    /\ ws_join_handle \in Socket \cup {None}
    /\ calls \in 0 .. MaxCalls
    /\ checks \in 0 .. MaxChecks

TypeInv == CoreOK /\ WsTypeOK /\ RestOK

LEMMA TypeInvImpliesTypeOK == TypeInv => TypeOK
    BY DEF TypeInv, TypeOK, CoreOK, RestOK, FsmTypeOK, NetTypeOK

\* Carrying out a result.
LEMMA CommitType ==
    ASSUME CoreOK, NEW r, IsResult(r), Commit(r)
    PROVE  CoreOK'
<1>1. /\ r.mgr \in ManagerState /\ r.sent \in Seq(Input)
      /\ r.pc \in ManagerPc /\ r.tv_ip \in UrlOption
    BY DEF IsResult, ResultType
<1>2. [r.mgr EXCEPT !.manager_status = Zombie] \in ManagerState
    BY <1>1 DEF ManagerState, ManagerStatus
<1>3. mgr' \in ManagerState /\ mgr_pc' = r.pc /\ tv_ip' = r.tv_ip
    BY <1>1, <1>2 DEF Commit
<1>4. to_fsm' \in Seq(Input)
    BY <1>1 DEF Commit, CoreOK
<1>5. mgr'.connection_details = r.mgr.connection_details
    BY <1>1 DEF Commit, ManagerState
<1> QED
    BY <1>1, <1>3, <1>4, <1>5 DEF CoreOK, SleepingHasConnection, IsResult

\* Telling the current task something.
LEMMA TellType ==
    ASSUME WsTypeOK, cur_ws # None, NEW message \in WsMessage, Tell(message)
    PROVE  WsTypeOK'
<1>1. cur_ws \in Socket /\ ws[cur_ws] \in SocketState
    BY DEF WsTypeOK
<1>2. Append(ws[cur_ws].to_ws, message) \in Seq(WsMessage)
    BY <1>1 DEF SocketState
<1> DEFINE told == [ws[cur_ws] EXCEPT !.to_ws = Append(ws[cur_ws].to_ws, message)]
<1>3. told \in SocketState
    BY <1>1, <1>2 DEF SocketState
<1>4. ws' = [ws EXCEPT ![cur_ws] = told] /\ cur_ws' = cur_ws
    BY DEF Tell
<1> HIDE DEF told
<1> QED
    BY <1>1, <1>3, <1>4 DEF WsTypeOK

\* Starting a task, whatever becomes of the one before it.
LEMMA StartType ==
    ASSUME WsTypeOK, NEW i \in Socket, NEW host \in UrlOption, StartSocket(i, host)
    PROVE  WsTypeOK'
<1>1. NoSocket \in SocketState
    BY DEF NoSocket, SocketState, Phase, UrlOption, TvSession
<1>2. NewSocket(host) \in SocketState
    BY <1>1 DEF NewSocket, SocketState, Phase
<1>3. ASSUME NEW j \in Socket PROVE [ws[j] EXCEPT !.from_ws = <<>>] \in SocketState
    <2>1. ws[j] \in SocketState /\ <<>> \in Seq(WsUpdateMessage)
        BY DEF WsTypeOK
    <2> QED
        BY <2>1 DEF SocketState
<1>4. \A j \in Socket : ws'[j] \in {NewSocket(host), NoSocket, ws[j],
                                    [ws[j] EXCEPT !.from_ws = <<>>]}
    BY DEF StartSocket, ChannelsDropped
<1>5. ws' \in [Socket -> SocketState]
    <2>1. \A j \in Socket : ws'[j] \in SocketState
        BY <1>1, <1>2, <1>3, <1>4 DEF WsTypeOK
    <2> QED
        BY <2>1 DEF StartSocket, ChannelsDropped
<1> QED
    BY <1>5 DEF StartSocket, WsTypeOK

LEMMA ForceResetType ==
    ASSUME CoreOK, WsTypeOK, NEW s \in ManagerState,
           NEW resume \in ManagerPc \ {"sleeping"}, ForceManagerReset(s, resume)
    PROVE  CoreOK' /\ WsTypeOK'
<1>1. IsResult(Result(s, <<>>, resume))
    <2>1. tv_ip \in UrlOption /\ <<>> \in Seq(Input)
        BY DEF CoreOK
    <2> QED
        BY <2>1, SentType
<1>2. CoreOK'
    BY <1>1, CommitType DEF ForceManagerReset
<1>3. CASE IsWsOpen
    BY <1>2, <1>3, TellType DEF ForceManagerReset, IsWsOpen, WsMessage
<1>4. CASE ~IsWsOpen
    BY <1>2, <1>4 DEF ForceManagerReset, ws_vars, WsTypeOK
<1> QED
    BY <1>3, <1>4

LEMMA SendToWsType ==
    ASSUME CoreOK, WsTypeOK, NEW s \in ManagerState, NEW message \in WsMessage,
           NEW resume \in ManagerPc \ {"sleeping"}, SendToWs(s, message, resume)
    PROVE  CoreOK' /\ WsTypeOK'
<1>1. CASE cur_ws = None \/ IsWsOpen
    <2>1. CoreOK'
        BY <1>1, DoneType, CommitType DEF SendToWs, CoreOK
    <2>2. WsTypeOK'
        BY <1>1, TellType DEF SendToWs, IsWsOpen, ws_vars, WsTypeOK
    <2> QED
        BY <2>1, <2>2
<1>2. CASE ~(cur_ws = None \/ IsWsOpen)
    BY <1>2, ForceResetType DEF SendToWs
<1> QED
    BY <1>1, <1>2

\* The manager's fields are changed one at a time.
LEMMA FieldTypes ==
    ASSUME NEW s \in ManagerState
    PROVE  /\ \A b \in BOOLEAN :
                /\ [s EXCEPT !.is_manual_disconnect_requested = b] \in ManagerState
                /\ [s EXCEPT !.is_pairing = b] \in ManagerState
                /\ [s EXCEPT !.is_connection_initialized = b] \in ManagerState
           /\ \A status \in ManagerStatus :
                [s EXCEPT !.manager_status = status] \in ManagerState
           /\ \A n \in 0 .. 1 : [s EXCEPT !.session_connection_count = n] \in ManagerState
           /\ \A k \in KeyOption : [s EXCEPT !.client_key = k] \in ManagerState
           /\ Remembered(s) \in ManagerState
    BY DEF ManagerState, Remembered

LEMMA PcTypes ==
    {"select", "force_reset", "reset", "reset_connect_error", "reset_initialize",
     "reset_shut_down", "disconnected", "stopping", "stopped"} \subseteq ManagerPc \ {"sleeping"}
    BY DEF ManagerPc

LEMMA InputTags ==
    {"AttemptRegister", "Pair", "Initialize", "StartCommunication", "SendCommand",
     "Reset", "Error", "Disconnect", "DisconnectionComplete"} \subseteq InputTag \ {"Connect"}
    BY DEF InputTag

LEMMA FlowTypes ==
    {"Inactive", "Active", "Cancelled", "WaitingForTvOnNetwork"} \subseteq ReconnectFlowStatus
    BY DEF ReconnectFlowStatus

\* A message from the caller.
LEMMA CallerType ==
    ASSUME TypeInv, FromCaller
    PROVE  TypeInv'
<1>1. CoreOK /\ WsTypeOK /\ RestOK
    BY DEF TypeInv
<1>2. mgr \in ManagerState /\ tv_ip \in UrlOption
    BY <1>1 DEF CoreOK
<1>3. IsResult(Done(mgr))
    BY <1>2, DoneType
<1>4. ASSUME NEW message, Called(message), fsm_cancelled' \in BOOLEAN
      PROVE  RestOK'
    BY <1>1, <1>4, ManagerAssumption DEF Called, RestOK
<1>5. ASSUME UNCHANGED fsm_cancelled
      PROVE  fsm_cancelled' \in BOOLEAN
    BY <1>1, <1>5 DEF RestOK
<1>6. ASSUME UNCHANGED ws_vars
      PROVE  WsTypeOK'
    BY <1>1, <1>6 DEF ws_vars, WsTypeOK
<1>7. CASE CancelReconnect
    <2> DEFINE cancelled == SetReconnectFlowStatus(mgr, "Cancelled")
    <2>1. cancelled \in ManagerState
        BY <1>2, SetFlowType, FlowTypes
    <2>2. IsResult(Done(cancelled))
        BY <1>2, <2>1, DoneType
    <2>3. RestOK'
        BY <1>4, <1>5, <1>7 DEF CancelReconnect
    <2>4. \/ Commit(Done(cancelled)) /\ UNCHANGED ws_vars
          \/ ForceManagerReset(cancelled, "reset")
          \/ Commit(Done(mgr)) /\ UNCHANGED ws_vars
        BY <1>7 DEF CancelReconnect
    <2> HIDE DEF cancelled
    <2>5. CoreOK' /\ WsTypeOK'
        <3>1. CASE Commit(Done(cancelled)) /\ UNCHANGED ws_vars
            BY <1>1, <1>6, <2>2, <3>1, CommitType
        <3>2. CASE ForceManagerReset(cancelled, "reset")
            BY <1>1, <2>1, <3>2, PcTypes, ForceResetType
        <3>3. CASE Commit(Done(mgr)) /\ UNCHANGED ws_vars
            BY <1>1, <1>3, <1>6, <3>3, CommitType
        <3> QED
            BY <2>4, <3>1, <3>2, <3>3
    <2> QED
        BY <2>3, <2>5 DEF TypeInv
<1>8. CASE Connect
    <2>1. PICK c \in Connection : Commit(InitiateConnectToTv(mgr, c))
        BY <1>8 DEF Connect
    <2>2. CoreOK'
        BY <1>1, <1>2, <2>1, InitiateConnectType, CommitType
    <2>3. RestOK' /\ WsTypeOK'
        BY <1>4, <1>5, <1>6, <1>8 DEF Connect
    <2> QED
        BY <2>2, <2>3 DEF TypeInv
<1>9. CASE ConnectLastGoodConnection
    <2>1. CoreOK'
        <3>1. CASE mgr.last_good_connection = None
            BY <1>1, <1>3, <1>9, <3>1, CommitType DEF ConnectLastGoodConnection
        <3>2. CASE mgr.last_good_connection # None
            <4>1. mgr.last_good_connection \in Connection
                BY <1>2, <3>2 DEF ManagerState, ConnectionOption
            <4>2. Commit(InitiateConnectToTv(mgr, mgr.last_good_connection))
                BY <1>9, <3>2 DEF ConnectLastGoodConnection
            <4> QED
                BY <1>1, <1>2, <4>1, <4>2, InitiateConnectType, CommitType
        <3> QED
            BY <3>1, <3>2
    <2>2. RestOK' /\ WsTypeOK'
        BY <1>4, <1>5, <1>6, <1>9 DEF ConnectLastGoodConnection
    <2> QED
        BY <2>1, <2>2 DEF TypeInv
<1>10. CASE Disconnect
    <2> DEFINE requested == [mgr EXCEPT !.is_manual_disconnect_requested = TRUE]
    <2>1. requested \in ManagerState
        BY <1>2, FieldTypes
    <2> HIDE DEF requested
    <2>2. IsResult(DoneSending(requested, "Disconnect"))
        BY <1>2, <2>1, DoneSendingType, InputTags
    <2>3. Commit(DoneSending(requested, "Disconnect"))
        BY <1>10 DEF Disconnect, requested
    <2>4. RestOK' /\ WsTypeOK'
        BY <1>4, <1>5, <1>6, <1>10 DEF Disconnect
    <2> QED
        BY <1>1, <2>2, <2>3, <2>4, CommitType DEF TypeInv
<1>11. CASE SendTvCommand
    <2>1. IsResult(DoneSending(mgr, "SendCommand"))
        BY <1>2, DoneSendingType, InputTags
    <2>2. RestOK' /\ WsTypeOK'
        BY <1>4, <1>5, <1>6, <1>11 DEF SendTvCommand
    <2> QED
        BY <1>1, <1>11, <2>1, <2>2, CommitType DEF SendTvCommand, TypeInv
<1>12. CASE TestConnection
    <2>1. CoreOK' /\ WsTypeOK'
        <3>1. CASE mgr.is_connection_initialized
            BY <1>1, <1>2, <1>12, <3>1, PcTypes, SendToWsType DEF TestConnection, WsMessage
        <3>2. CASE ~mgr.is_connection_initialized
            BY <1>1, <1>3, <1>6, <1>12, <3>2, CommitType DEF TestConnection
        <3> QED
            BY <3>1, <3>2
    <2>2. RestOK'
        BY <1>4, <1>5, <1>12 DEF TestConnection
    <2> QED
        BY <2>1, <2>2 DEF TypeInv
<1>13. CASE ShutDown
    <2>1. IsResult(Result(mgr, <<>>, "stopping"))
        <3>1. <<>> \in Seq(Input)
            OBVIOUS
        <3> QED
            BY <1>2, <3>1, SentType, PcTypes
    <2>2. RestOK' /\ WsTypeOK'
        BY <1>4, <1>6, <1>13 DEF ShutDown
    <2> QED
        BY <1>1, <1>13, <2>1, <2>2, CommitType DEF ShutDown, TypeInv
<1> QED
    BY <1>7, <1>8, <1>9, <1>10, <1>11, <1>12, <1>13 DEF FromCaller

\* An update from the state machine.
LEMMA StateMachineType ==
    ASSUME TypeInv, FromStateMachine
    PROVE  TypeInv'
<1>1. CoreOK /\ WsTypeOK /\ RestOK
    BY DEF TypeInv
<1>2. mgr \in ManagerState /\ tv_ip \in UrlOption
    BY <1>1 DEF CoreOK
<1>3. ASSUME NEW kind, NEW tag, Updated(kind, tag), ws_join_handle' \in Socket \cup {None}
      PROVE  RestOK'
    BY <1>1, <1>3 DEF Updated, RestOK
<1>4. ASSUME UNCHANGED ws_join_handle
      PROVE  ws_join_handle' \in Socket \cup {None}
    BY <1>1, <1>4 DEF RestOK
<1>5. ASSUME UNCHANGED ws_vars
      PROVE  WsTypeOK'
    BY <1>1, <1>5 DEF ws_vars, WsTypeOK
<1>6. CASE NewState
    <2> DEFINE read == [tag |-> Head(from_fsm).tag, url |-> Head(from_fsm).url]
    <2>1. Head(from_fsm) \in Update /\ Head(from_fsm).kind = "State"
        BY <1>1, <1>6 DEF NewState, Updated, RestOK
    <2>2. read \in ManagerStatus
        BY <2>1 DEF Update, State, ManagerStatus
    <2>3. Commit(Done([mgr EXCEPT !.manager_status = read]))
        BY <1>6 DEF NewState
    <2>4. RestOK' /\ WsTypeOK'
        BY <1>3, <1>4, <1>5, <1>6 DEF NewState
    <2> HIDE DEF read
    <2>5. IsResult(Done([mgr EXCEPT !.manager_status = read]))
        BY <1>2, <2>2, FieldTypes, DoneType
    <2> QED
        BY <1>1, <2>3, <2>4, <2>5, CommitType DEF TypeInv
<1>7. CASE ConnectToTv
    <2>1. PICK i \in Socket : StartSocket(i, Head(from_fsm).url) /\ ws_join_handle' = i
        BY <1>7 DEF ConnectToTv
    <2>2. Head(from_fsm) \in Update
        BY <1>1, <1>7 DEF ConnectToTv, Updated, RestOK
    <2>3. Head(from_fsm).url \in UrlOption
        BY <2>2 DEF Update, UrlOption
    <2>4. WsTypeOK'
        BY <1>1, <2>1, <2>3, StartType
    <2>5. RestOK'
        BY <1>3, <1>7, <2>1 DEF ConnectToTv
    <2>6. CoreOK'
        BY <1>1, <1>2, <1>7, DoneType, CommitType DEF ConnectToTv
    <2> QED
        BY <2>4, <2>5, <2>6 DEF TypeInv
<1>8. CASE SendRegisterPayload
    <2> DEFINE inactive == SetReconnectFlowStatus(mgr, "Inactive")
               counted == [inactive EXCEPT !.session_connection_count = 1]
    <2>1. inactive \in ManagerState
        BY <1>2, SetFlowType, FlowTypes
    <2> HIDE DEF inactive
    <2>2. counted \in ManagerState
        <3>1. 1 \in 0 .. 1
            OBVIOUS
        <3> QED
            BY <2>1, <3>1, FieldTypes
    <2>3. SendToWs(counted, "Register", "reset")
        BY <1>8 DEF SendRegisterPayload, inactive
    <2>4. RestOK'
        BY <1>3, <1>4, <1>8 DEF SendRegisterPayload
    <2> HIDE DEF counted
    <2>5. CoreOK' /\ WsTypeOK'
        BY <1>1, <2>2, <2>3, PcTypes, SendToWsType DEF WsMessage, WsPayload
    <2> QED
        BY <2>4, <2>5 DEF TypeInv
<1>9. CASE PairWithTv
    <2>1. [mgr EXCEPT !.is_pairing = TRUE] \in ManagerState
        BY <1>2, FieldTypes
    <2>2. CoreOK'
        BY <1>1, <1>2, <1>9, <2>1, DoneType, CommitType DEF PairWithTv
    <2>3. RestOK' /\ WsTypeOK'
        BY <1>3, <1>4, <1>5, <1>9 DEF PairWithTv
    <2> QED
        BY <2>2, <2>3 DEF TypeInv
<1>10. CASE InitializeConnection
    <2> DEFINE paired == [mgr EXCEPT !.is_pairing = FALSE]
    <2>1. paired \in ManagerState
        BY <1>2, FieldTypes
    <2>2. \/ ForceManagerReset(paired, "reset_initialize")
          \/ SendToWs(Remembered(paired), "Initialize", "reset")
        BY <1>10 DEF InitializeConnection
    <2>3. RestOK'
        BY <1>3, <1>4, <1>10 DEF InitializeConnection
    <2> HIDE DEF paired
    <2>4. Remembered(paired) \in ManagerState
        BY <2>1, FieldTypes
    <2>5. CASE ForceManagerReset(paired, "reset_initialize")
        BY <1>1, <2>1, <2>3, <2>5, PcTypes, ForceResetType DEF TypeInv
    <2>6. CASE SendToWs(Remembered(paired), "Initialize", "reset")
        <3>1. CoreOK' /\ WsTypeOK'
            BY <1>1, <2>4, <2>6, PcTypes, SendToWsType DEF WsMessage, WsPayload
        <3> QED
            BY <2>3, <3>1 DEF TypeInv
    <2> QED
        BY <2>2, <2>5, <2>6
<1>11. CASE SendCommand
    <2>1. CoreOK' /\ WsTypeOK'
        BY <1>1, <1>2, <1>11, PcTypes, SendToWsType DEF SendCommand, WsMessage, WsPayload
    <2>2. RestOK'
        BY <1>3, <1>4, <1>11 DEF SendCommand
    <2> QED
        BY <2>1, <2>2 DEF TypeInv
<1>12. CASE DisconnectFromTv
    <2> DEFINE prepared == OptionallyPrepareForReconnect(mgr)
    <2>1. prepared \in ManagerState
        BY <1>2, PrepareType
    <2>2. RestOK'
        BY <1>3, <1>4, <1>12 DEF DisconnectFromTv
    <2>3. InitiateDisconnectFromTv(prepared)
        BY <1>12 DEF DisconnectFromTv
    <2> HIDE DEF prepared
    <2>4. CoreOK' /\ WsTypeOK'
        <3>1. CASE ws_join_handle = None
            BY <1>1, <1>2, <1>5, <2>1, <2>3, <3>1, DoneType, CommitType
               DEF InitiateDisconnectFromTv
        <3>2. CASE ws_join_handle # None
            BY <1>1, <2>1, <2>3, <3>2, PcTypes, SendToWsType
               DEF InitiateDisconnectFromTv, WsMessage
        <3> QED
            BY <3>1, <3>2
    <2> QED
        BY <2>2, <2>4 DEF TypeInv
<1>13. ASSUME NEW output, HandleDisconnected(output)
       PROVE  TypeInv'
    <2> DEFINE handled == [mgr EXCEPT !.is_manual_disconnect_requested = FALSE]
    <2>1. handled \in ManagerState
        BY <1>2, FieldTypes
    <2>2. Commit(Result(handled, <<>>, "disconnected"))
        BY <1>13 DEF HandleDisconnected
    <2>3. RestOK' /\ WsTypeOK'
        BY <1>3, <1>4, <1>5, <1>13 DEF HandleDisconnected
    <2> HIDE DEF handled
    <2>4. IsResult(Result(handled, <<>>, "disconnected"))
        <3>1. <<>> \in Seq(Input)
            OBVIOUS
        <3> QED
            BY <1>2, <2>1, <3>1, SentType, PcTypes
    <2> QED
        BY <1>1, <2>2, <2>3, <2>4, CommitType DEF TypeInv
<1>14. CASE HandleConnectError
    <2>1. CoreOK' /\ WsTypeOK'
        BY <1>1, <1>2, <1>14, PcTypes, ForceResetType DEF HandleConnectError
    <2>2. RestOK'
        BY <1>3, <1>4, <1>14 DEF HandleConnectError
    <2> QED
        BY <2>1, <2>2 DEF TypeInv
<1>15. CASE TransitionError
    <2>1. CoreOK'
        BY <1>1, <1>2, <1>15, DoneType, CommitType DEF TransitionError
    <2>2. RestOK' /\ WsTypeOK'
        BY <1>3, <1>4, <1>5, <1>15 DEF TransitionError
    <2> QED
        BY <2>1, <2>2 DEF TypeInv
<1> QED
    BY <1>6, <1>7, <1>8, <1>9, <1>10, <1>11, <1>12, <1>13, <1>14, <1>15
       DEF FromStateMachine, HandleSuccessfulDisconnect, HandleDisconnectError

\* An update from the WebSocket task.
LEMMA WebSocketType ==
    ASSUME TypeInv, FromWebSocket
    PROVE  TypeInv'
<1>1. CoreOK /\ WsTypeOK /\ RestOK
    BY DEF TypeInv
<1>2. mgr \in ManagerState /\ tv_ip \in UrlOption
    BY <1>1 DEF CoreOK
<1>3. ASSUME NEW updates, Reported(updates)
      PROVE  WsTypeOK'
    <2> DEFINE read == [ws[cur_ws] EXCEPT !.from_ws = Tail(ws[cur_ws].from_ws)]
    <2>1. cur_ws \in Socket /\ ws[cur_ws] \in SocketState /\ ws[cur_ws].from_ws # <<>>
        BY <1>1, <1>3 DEF Reported, WsTypeOK
    <2>2. Tail(ws[cur_ws].from_ws) \in Seq(WsUpdateMessage)
        BY <2>1 DEF SocketState
    <2>3. read \in SocketState
        BY <2>1, <2>2 DEF SocketState
    <2>4. ws' = [ws EXCEPT ![cur_ws] = read] /\ cur_ws' = cur_ws
        BY <1>3 DEF Reported
    <2> HIDE DEF read
    <2> QED
        BY <1>1, <2>1, <2>3, <2>4 DEF WsTypeOK
<1>4. ASSUME NEW updates, Reported(updates), disk' \in PersistedState \cup {None}
      PROVE  RestOK'
    BY <1>1, <1>4 DEF Reported, RestOK
<1>5. ASSUME UNCHANGED disk
      PROVE  disk' \in PersistedState \cup {None}
    BY <1>1, <1>5 DEF RestOK
<1>6. ASSUME NEW tag \in InputTag \ {"Connect"}, NEW s \in ManagerState,
             Commit(DoneSending(s, tag))
      PROVE  CoreOK'
    BY <1>1, <1>2, <1>6, DoneSendingType, CommitType
<1>7. CASE WebSocketConnected
    BY <1>2, <1>3, <1>4, <1>5, <1>6, <1>7, InputTags DEF WebSocketConnected, TypeInv
<1>8. CASE WebSocketDisconnected
    BY <1>2, <1>3, <1>4, <1>5, <1>6, <1>8, InputTags DEF WebSocketDisconnected, TypeInv
<1>9. CASE ConnectionLost
    <2>1. CoreOK'
        BY <1>2, <1>6, <1>9, PrepareType, InputTags DEF ConnectionLost
    <2> QED
        BY <1>3, <1>4, <1>5, <1>9, <2>1 DEF ConnectionLost, TypeInv
<1>10. CASE ConnectionTested
    <2>1. Commit(Done(mgr)) \/ Commit(DoneSending(mgr, "Error"))
        BY <1>10 DEF ConnectionTested
    <2>2. CoreOK'
        BY <1>1, <1>2, <1>6, <2>1, DoneType, CommitType, InputTags
    <2> QED
        BY <1>3, <1>4, <1>5, <1>10, <2>2 DEF ConnectionTested, TypeInv
<1>11. CASE GetVolume
    <2> DEFINE initialized == [mgr EXCEPT !.is_connection_initialized = TRUE]
    <2>1. initialized \in ManagerState
        BY <1>2, FieldTypes
    <2>2. Commit(Done(mgr)) \/ Commit(DoneSending(initialized, "StartCommunication"))
        BY <1>11 DEF GetVolume
    <2> HIDE DEF initialized
    <2>3. CoreOK'
        BY <1>1, <1>2, <1>6, <2>1, <2>2, DoneType, CommitType, InputTags
    <2> QED
        BY <1>3, <1>4, <1>5, <1>11, <2>3 DEF GetVolume, TypeInv
<1>12. CASE PairRequested
    BY <1>2, <1>3, <1>4, <1>5, <1>6, <1>12, InputTags DEF PairRequested, TypeInv
<1>13. CASE PairingFailed
    BY <1>2, <1>3, <1>4, <1>5, <1>6, <1>13, InputTags DEF PairingFailed, TypeInv
<1>14. CASE Registered
    <2> DEFINE registered == [mgr EXCEPT !.client_key = ws[cur_ws].host]
    <2>1. ws[cur_ws].host \in KeyOption
        BY <1>1, <1>14 DEF Registered, Reported, WsTypeOK, SocketState, KeyOption, Key, UrlOption
    <2>2. registered \in ManagerState
        BY <1>2, <2>1, FieldTypes
    <2>3. /\ Reported({"Registered"})
          /\ Commit(DoneSending(registered, "Initialize"))
          /\ disk' \in AfterWrite(registered)
        BY <1>14 DEF Registered
    <2> HIDE DEF registered
    <2>4. [ws_url |-> registered.ws_url, client_key |-> registered.client_key] \in PersistedState
        BY <2>2 DEF ManagerState, PersistedState
    <2>5. disk' \in PersistedState \cup {None}
        BY <1>1, <2>3, <2>4 DEF AfterWrite, RestOK
    <2>6. CoreOK'
        BY <1>6, <2>2, <2>3, InputTags
    <2> QED
        BY <1>3, <1>4, <2>3, <2>5, <2>6 DEF TypeInv
<1> QED
    BY <1>7, <1>8, <1>9, <1>10, <1>11, <1>12, <1>13, <1>14 DEF FromWebSocket

\* A result of the network checker.
LEMMA NetworkCheckedType ==
    ASSUME TypeInv, TvNetworkChecked
    PROVE  TypeInv'
<1>1. CoreOK /\ WsTypeOK /\ RestOK
    BY DEF TypeInv
<1>2. mgr \in ManagerState /\ tv_ip \in UrlOption
    BY <1>1 DEF CoreOK
<1> DEFINE flow == SetReconnectFlowStatus(mgr,
               IF IsAutoReconnectEnabled(mgr) THEN "WaitingForTvOnNetwork" ELSE "Inactive")
<1>3. flow \in ManagerState
    BY <1>2, SetFlowType, FlowTypes
<1>4. \/ Commit(Done(flow)) \/ Commit(DoneSending(mgr, "Error"))
      \/ Commit(InitiateReconnect(mgr, TRUE)) \/ Commit(Done(mgr))
    BY DEF TvNetworkChecked
<1> HIDE DEF flow
<1>5. /\ IsResult(Done(flow)) /\ IsResult(DoneSending(mgr, "Error"))
      /\ IsResult(InitiateReconnect(mgr, TRUE)) /\ IsResult(Done(mgr))
    BY <1>2, <1>3, DoneType, DoneSendingType, InitiateReconnectType, InputTags
<1>6. CoreOK'
    BY <1>1, <1>4, <1>5, CommitType
<1>7. /\ is_tv_on_network' \in BOOLEAN /\ is_tv_on_network_notify' \in BOOLEAN
      /\ is_notify_due' \in BOOLEAN /\ was_on_network' \in BOOLEAN /\ checks' \in 0 .. MaxChecks
    <2>1. \/ UNCHANGED <<is_tv_on_network, is_notify_due, checks>>
          \/ /\ is_tv_on_network' = FALSE /\ is_notify_due' = TRUE
             /\ checks < MaxChecks /\ checks' = checks + 1
        BY DEF TvNetworkChecked
    <2>2. is_tv_on_network_notify' = FALSE /\ was_on_network' = is_tv_on_network
        BY DEF TvNetworkChecked
    <2>3. /\ is_tv_on_network \in BOOLEAN /\ is_notify_due \in BOOLEAN
          /\ checks \in 0 .. MaxChecks
        BY <1>1 DEF RestOK
    <2>4. checks' \in 0 .. MaxChecks
        BY <2>1, <2>3, ManagerAssumption
    <2> QED
        BY <2>1, <2>2, <2>3, <2>4, Zenon
<1>8. UNCHANGED <<fsm_state, from_fsm, fsm_alive, fsm_cancelled, ws_vars,
                  disk, ws_join_handle, calls>>
    BY DEF TvNetworkChecked
<1>9. WsTypeOK' /\ RestOK'
    BY <1>1, <1>7, <1>8 DEF ws_vars, WsTypeOK, RestOK
<1> QED
    BY <1>6, <1>9 DEF TypeInv

\* A handler that comes back from waiting for another task.
LEMMA ContinueType ==
    ASSUME TypeInv, Continue
    PROVE  TypeInv'
<1>1. CoreOK /\ WsTypeOK /\ RestOK
    BY DEF TypeInv
<1>2. mgr \in ManagerState /\ tv_ip \in UrlOption /\ disk \in PersistedState \cup {None}
    BY <1>1 DEF CoreOK, RestOK
<1> DEFINE initialized == InitializeManagerState(mgr)
<1>3. initialized \in ManagerState
    BY <1>2, InitializeType
<1> HIDE DEF initialized
<1>4. ASSUME Resumed, ws_join_handle' \in Socket \cup {None}
      PROVE  WsTypeOK' /\ RestOK'
    BY <1>1, <1>4 DEF Resumed, ws_vars, WsTypeOK, RestOK
<1>5. ASSUME NEW resume, NEW r, IsResult(r), FinishedReset(resume, r)
      PROVE  TypeInv'
    <2>1. IsResult([r EXCEPT !.sent = ResetInput \o r.sent])
        <3>1. ResetInput \in Seq(Input)
            BY InputOfType, InputTags DEF ResetInput
        <3>2. ResetInput \o r.sent \in Seq(Input)
            BY <1>5, <3>1 DEF IsResult, ResultType
        <3> QED
            BY <1>5, <3>2 DEF IsResult, ResultType
    <2>2. Commit([r EXCEPT !.sent = ResetInput \o r.sent])
        BY <1>5 DEF FinishedReset, IsResult, ResultType
    <2>3. CoreOK'
        BY <1>1, <2>1, <2>2, CommitType
    <2>4. WsTypeOK' /\ RestOK'
        BY <1>4, <1>5 DEF FinishedReset
    <2> QED
        BY <2>3, <2>4 DEF TypeInv
<1>6. CASE FinishReset
    BY <1>2, <1>3, <1>5, <1>6, DoneType DEF FinishReset, initialized
<1>7. CASE FinishConnectError
    <2>1. IsResult(AfterConnectError(initialized))
        BY <1>2, <1>3, DoneType, InitiateReconnectType, SetFlowType, FlowTypes
           DEF AfterConnectError
    <2> QED
        BY <1>5, <1>7, <2>1 DEF FinishConnectError, initialized
<1>8. CASE FinishInitialize
    <2> DEFINE resets == [k \in 1 .. 5 |-> InputOf("Reset")]
    <2>1. resets \in Seq(Input)
        BY InputOfType, InputTags
    <2>2. Remembered(initialized) \in ManagerState
        BY <1>3, FieldTypes
    <2>3. FinishedReset("reset_initialize", Result(Remembered(initialized), resets, "select"))
        BY <1>8 DEF FinishInitialize, initialized
    <2> HIDE DEF resets
    <2>4. IsResult(Result(Remembered(initialized), resets, "select"))
        BY <1>2, <2>1, <2>2, SentType, PcTypes
    <2> QED
        BY <1>5, <2>3, <2>4
<1>9. CASE FinishShutDown
    <2>1. <<>> \in Seq(Input)
        OBVIOUS
    <2>2. IsResult(Result(initialized, <<>>, "stopped"))
        BY <1>2, <1>3, <2>1, SentType, PcTypes
    <2> QED
        BY <1>5, <1>9, <2>2 DEF FinishShutDown, initialized
<1>10. CASE ResetInsteadOfReconnect
    <2>1. CoreOK' /\ WsTypeOK'
        BY <1>1, <1>2, <1>10, PcTypes, ForceResetType DEF ResetInsteadOfReconnect
    <2>2. RestOK'
        BY <1>1, <1>10 DEF ResetInsteadOfReconnect, RestOK
    <2> QED
        BY <2>1, <2>2 DEF TypeInv
<1>11. CASE FinishDisconnect
    <2> DEFINE inactive == SetReconnectFlowStatus(initialized, "Inactive")
               unpaired == [inactive EXCEPT !.is_pairing = FALSE]
    <2>1. inactive \in ManagerState
        BY <1>3, SetFlowType, FlowTypes
    <2>2. \/ Commit(Done(initialized)) \/ Commit(Done(unpaired))
          \/ Commit(InitiateReconnect(initialized, FALSE))
        BY <1>11 DEF FinishDisconnect, initialized
    <2> HIDE DEF inactive
    <2>3. unpaired \in ManagerState
        BY <2>1, FieldTypes
    <2> HIDE DEF unpaired
    <2>4. CoreOK'
        BY <1>1, <1>2, <1>3, <2>2, <2>3, DoneType, InitiateReconnectType, CommitType
    <2>5. WsTypeOK' /\ RestOK'
        BY <1>4, <1>11 DEF FinishDisconnect
    <2> QED
        BY <2>4, <2>5 DEF TypeInv
<1>12. CASE RetryIntervalTick
    <2>1. mgr.connection_details # None
        BY <1>1, <1>12 DEF RetryIntervalTick, CoreOK, SleepingHasConnection
    <2>2. CoreOK'
        BY <1>1, <1>2, <1>12, <2>1, ReconnectType, CommitType DEF RetryIntervalTick
    <2>3. ws_join_handle' \in Socket \cup {None}
        BY <1>1, <1>12 DEF RetryIntervalTick, RestOK
    <2>4. WsTypeOK' /\ RestOK'
        BY <1>4, <1>12, <2>3 DEF RetryIntervalTick
    <2> QED
        BY <2>2, <2>4 DEF TypeInv
<1>13. CASE TasksStopped
    <2>1. RestOK'
        BY <1>1, <1>13 DEF TasksStopped, RestOK
    <2>2. IsResult(Result(mgr, <<>>, "stopped"))
        <3>1. <<>> \in Seq(Input)
            OBVIOUS
        <3> QED
            BY <1>2, <3>1, SentType, PcTypes
    <2>3. CASE ws_join_handle # None /\ ~IsWsOpen
        BY <1>1, <1>2, <1>13, <2>1, <2>3, PcTypes, ForceResetType DEF TasksStopped, TypeInv
    <2>4. CASE ~(ws_join_handle # None /\ ~IsWsOpen)
        <3>1. CoreOK'
            BY <1>1, <1>13, <2>2, <2>4, CommitType DEF TasksStopped
        <3>2. CASE ws_join_handle # None
            BY <1>1, <1>13, <2>1, <2>4, <3>1, <3>2, TellType
               DEF TasksStopped, IsWsOpen, WsMessage, TypeInv
        <3>3. CASE ws_join_handle = None
            BY <1>1, <1>13, <2>1, <3>1, <3>3 DEF TasksStopped, ws_vars, WsTypeOK, TypeInv
        <3> QED
            BY <3>2, <3>3
    <2> QED
        BY <2>3, <2>4
<1> QED
    BY <1>6, <1>7, <1>8, <1>9, <1>10, <1>11, <1>12, <1>13 DEF Continue

-----------------------------------------------------------------------------
(* The other tasks.                                                        *)

\* A rule of the machine leads to a State, and its reports are Updates.
LEMMA RuleTypes ==
    ASSUME NEW s \in State, NEW input \in Input, NEW rule \in Applicable(s, input)
    PROVE  /\ Target(rule, s, input) \in State
           /\ Target(rule, s, input).tag = rule.to
           /\ Updates(rule, Target(rule, s, input)) \in Seq(Update)
<1>1. rule \in Rules /\ rule.from = s.tag /\ rule.input = input.tag
    BY DEF Applicable
<1>2. /\ rule.to \in StateTag
      /\ rule.output \in OutputTag \cup {NoOutput}
      /\ rule.from = "Disconnected" => rule.to = "Disconnected" \/ rule.input = "Connect"
      /\ rule.input = "Connect" => rule.to # "Disconnected"
    BY <1>1 DEF Rules, Rule, StateTag, OutputTag, NoOutput
<1>3. Target(rule, s, input) \in State /\ Target(rule, s, input).tag = rule.to
    <2>1. CASE rule.to = "Disconnected"
        <3>1. Target(rule, s, input) = [tag |-> "Disconnected", url |-> None]
            BY <1>2, <2>1 DEF Target
        <3> QED
            BY <2>1, <3>1 DEF State
    <2>2. CASE rule.to # "Disconnected" /\ rule.input = "Connect"
        BY <1>1, <1>2, <2>2 DEF Target, State, Input
    <2>3. CASE rule.to # "Disconnected" /\ rule.input # "Connect"
        <3>1. s.url \in Url
            BY <1>1, <1>2, <2>3 DEF State
        <3> QED
            BY <1>2, <2>3, <3>1 DEF Target, State
    <2> QED
        BY <2>1, <2>2, <2>3
<1> DEFINE s2 == Target(rule, s, input)
<1> HIDE DEF s2
<1>4. StateUpdate(s2) \in Update
    BY <1>3 DEF s2, StateUpdate, Update, State
<1>5. rule.output # NoOutput => OutputUpdate(rule.output, s2) \in Update
    BY <1>2, <1>3 DEF s2, OutputUpdate, Update, State, UrlOption
<1>6. Updates(rule, s2) \in Seq(Update)
    BY <1>4, <1>5 DEF Updates
<1> QED
    BY <1>3, <1>6 DEF s2

\* A step of the state machine task.
LEMMA FsmType ==
    ASSUME TypeInv, FsmStep
    PROVE  TypeInv'
<1>1. CoreOK /\ WsTypeOK /\ RestOK
    BY DEF TypeInv
<1>2. UNCHANGED <<ws_vars, checker_vars, mgr_vars>>
    BY DEF FsmStep
<1>3. WsTypeOK'
    BY <1>1, <1>2 DEF ws_vars, WsTypeOK
<1>4. ASSUME to_fsm' \in Seq(Input)
      PROVE  CoreOK'
    BY <1>1, <1>2, <1>4 DEF checker_vars, net_vars, mgr_vars, CoreOK, SleepingHasConnection
<1>5. ASSUME fsm_state' \in State, from_fsm' \in Seq(Update),
             fsm_alive' \in BOOLEAN, fsm_cancelled' \in BOOLEAN
      PROVE  RestOK'
    BY <1>1, <1>2, <1>5 DEF checker_vars, net_vars, mgr_vars, RestOK
<1>6. ASSUME to_fsm # <<>>
      PROVE  Head(to_fsm) \in Input /\ Tail(to_fsm) \in Seq(Input)
    BY <1>1, <1>6 DEF CoreOK
<1>7. CASE FsmTransition
    <2>1. PICK rule \in Applicable(fsm_state, Head(to_fsm)) :
              /\ fsm_state' = Target(rule, fsm_state, Head(to_fsm))
              /\ from_fsm' = from_fsm \o Updates(rule, fsm_state')
        BY <1>7 DEF FsmTransition
    <2>2. Head(to_fsm) \in Input /\ to_fsm' \in Seq(Input)
        BY <1>6, <1>7 DEF FsmTransition
    <2>3. fsm_state' \in State /\ Updates(rule, fsm_state') \in Seq(Update)
        BY <1>1, <2>1, <2>2, RuleTypes DEF RestOK
    <2>4. from_fsm' \in Seq(Update)
        BY <1>1, <2>1, <2>3 DEF RestOK
    <2>5. fsm_alive' \in BOOLEAN /\ fsm_cancelled' \in BOOLEAN
        BY <1>1, <1>7 DEF FsmTransition, RestOK
    <2> QED
        BY <1>3, <1>4, <1>5, <2>2, <2>3, <2>4, <2>5 DEF TypeInv
<1>8. CASE FsmTransitionError
    <2>1. Head(to_fsm) \in Input /\ to_fsm' \in Seq(Input)
        BY <1>6, <1>8 DEF FsmTransitionError
    <2>2. ErrorUpdate(Head(to_fsm)) \in Update
        <3>1. Head(to_fsm).tag \in InputTag /\ Head(to_fsm).url \in UrlOption
            BY <2>1 DEF Input, InputTag, UrlOption
        <3> QED
            BY <3>1 DEF ErrorUpdate, Update
    <2>3. from_fsm' \in Seq(Update)
        BY <1>1, <1>8, <2>2 DEF FsmTransitionError, RestOK
    <2>4. fsm_state' \in State /\ fsm_alive' \in BOOLEAN /\ fsm_cancelled' \in BOOLEAN
        BY <1>1, <1>8 DEF FsmTransitionError, RestOK
    <2> QED
        BY <1>3, <1>4, <1>5, <2>1, <2>3, <2>4 DEF TypeInv
<1>9. CASE FsmShutDown
    <2>1. to_fsm' \in Seq(Input)
        BY <1>9 DEF FsmShutDown
    <2>2. /\ fsm_state' \in State /\ from_fsm' \in Seq(Update)
          /\ fsm_alive' \in BOOLEAN /\ fsm_cancelled' \in BOOLEAN
        BY <1>1, <1>9 DEF FsmShutDown, RestOK
    <2> QED
        BY <1>3, <1>4, <1>5, <2>1, <2>2 DEF TypeInv
<1> QED
    BY <1>7, <1>8, <1>9 DEF FsmStep, FsmNext

\* A report of a WebSocket task, and the phase it goes on in.
LEMMA ReportingType ==
    ASSUME WsTypeOK, NEW i \in Socket, NEW update \in WsUpdateMessage
    PROVE  Reporting(i, update) \in SocketState
<1>1. ws[i] \in SocketState
    BY DEF WsTypeOK
<1>2. Append(ws[i].from_ws, update) \in Seq(WsUpdateMessage)
    BY <1>1 DEF SocketState
<1> QED
    BY <1>1, <1>2 DEF Reporting, SocketState

LEMMA ReceivedType ==
    ASSUME WsTypeOK, NEW i \in Socket, ws[i].to_ws # <<>>
    PROVE  Received(i) \in SocketState
<1>1. ws[i] \in SocketState
    BY DEF WsTypeOK
<1>2. Tail(ws[i].to_ws) \in Seq(WsMessage)
    BY <1>1 DEF SocketState
<1> QED
    BY <1>1, <1>2 DEF Received, SocketState

LEMMA SocketFieldTypes ==
    ASSUME NEW socket \in SocketState
    PROVE  /\ \A phase \in Phase : [socket EXCEPT !.phase = phase] \in SocketState
           /\ \A testing \in BOOLEAN : [socket EXCEPT !.testing = testing] \in SocketState
           /\ \A tv \in TvSession : [socket EXCEPT !.tv = tv] \in SocketState
    BY DEF SocketState

LEMMA PhaseTypes ==
    {"free", "connecting", "running", "closing", "exiting", "ended"} \subseteq Phase
    BY DEF Phase

LEMMA BecomesType ==
    ASSUME WsTypeOK, NEW i \in Socket, NEW socket \in SocketState, Becomes(i, socket)
    PROVE  WsTypeOK'
    BY DEF WsTypeOK, Becomes

\* What the TV answers is an update, and leaves it in some session.
LEMMA AnswerType ==
    ASSUME NEW session \in TvSession, NEW answer \in TvAnswers(session)
    PROVE  answer.payload \in WsUpdateMessage /\ answer.session \in TvSession
    BY DEF TvAnswers, Answer, WsUpdateMessage, TvPayload, TvSession

\* A step of a WebSocket task, by itself or with the TV or the network.
LEMMA WsStepType ==
    ASSUME WsTypeOK, NEW i \in Socket, WsTaskStep(i) \/ WsNetworkStep(i)
    PROVE  WsTypeOK'
<1>1. ws[i] \in SocketState
    BY DEF WsTypeOK
<1>2. ASSUME NEW socket \in SocketState, NEW phase \in Phase,
             Becomes(i, [socket EXCEPT !.phase = phase])
      PROVE  WsTypeOK'
    BY <1>2, SocketFieldTypes, BecomesType
<1>3. CASE WsSendPayload(i)
    <2> DEFINE session == AfterPayload(ws[i].tv, Next_ws(i))
    <2>1. Received(i) \in SocketState /\ Received(i).tv = ws[i].tv
        BY <1>1, <1>3, ReceivedType DEF WsSendPayload, Received, SocketState
    <2>2. session \in TvSession
        BY <1>1 DEF AfterPayload, SocketState, TvSession
    <2>3. Becomes(i, [Received(i) EXCEPT !.tv = session])
        BY <1>3, <2>1 DEF WsSendPayload
    <2> HIDE DEF session
    <2> QED
        BY <2>1, <2>2, <2>3, SocketFieldTypes, BecomesType
<1>4. CASE WsTestConnection(i)
    <2>1. Received(i) \in SocketState
        BY <1>4, ReceivedType DEF WsTestConnection
    <2> QED
        BY <1>4, <2>1, SocketFieldTypes, BecomesType DEF WsTestConnection
<1>5. CASE WsShutDown(i) \/ WsSendFailed(i)
    <2>1. Received(i) \in SocketState
        BY <1>5, ReceivedType DEF WsShutDown, WsSendFailed
    <2> QED
        BY <1>2, <1>5, <2>1, PhaseTypes DEF WsShutDown, WsSendFailed
<1>6. CASE WsChannelClosed(i)
    BY <1>1, <1>2, <1>6, PhaseTypes DEF WsChannelClosed
<1>7. CASE WsReportDisconnected(i)
    <2>1. Reporting(i, "Disconnected") \in SocketState
        BY ReportingType DEF WsUpdateMessage
    <2> QED
        BY <1>2, <1>7, <2>1, PhaseTypes DEF WsReportDisconnected
<1>8. CASE WsEnd(i)
    <2>1. NoSocket \in SocketState
        BY DEF NoSocket, SocketState, Phase, UrlOption, TvSession
    <2>2. Ended(i) \in SocketState
        BY <1>1, <2>1 DEF Ended, SocketState, Phase
    <2>3. (IF i = cur_ws THEN Ended(i) ELSE NoSocket) \in SocketState
        BY <2>1, <2>2
    <2> QED
        BY <1>8, <2>3, BecomesType DEF WsEnd
<1>9. CASE WsConnected(i)
    <2>1. Reporting(i, "Connected") \in SocketState
        BY ReportingType DEF WsUpdateMessage
    <2>2. (IF i = cur_ws THEN "running" ELSE "exiting") \in Phase
        BY PhaseTypes
    <2> QED
        BY <1>2, <1>9, <2>1, <2>2 DEF WsConnected
<1>10. CASE WsConnectError(i)
    <2>1. Reporting(i, "ConnectError") \in SocketState
        BY ReportingType DEF WsUpdateMessage
    <2> QED
        BY <1>2, <1>10, <2>1, PhaseTypes DEF WsConnectError
<1>11. CASE WsText(i)
    <2>1. PICK answer \in TvAnswers(ws[i].tv) :
              Becomes(i, [Reporting(i, answer.payload) EXCEPT
                              !.tv = answer.session,
                              !.phase = IF i = cur_ws THEN @ ELSE "closing"])
        BY <1>11 DEF WsText
    <2> DEFINE report == Reporting(i, answer.payload)
               told == [report EXCEPT !.tv = answer.session]
               phase == IF i = cur_ws THEN report.phase ELSE "closing"
    <2>2. answer.payload \in WsUpdateMessage /\ answer.session \in TvSession
        BY <1>1, AnswerType DEF SocketState
    <2>3. report \in SocketState
        BY <2>2, ReportingType
    <2>4. Becomes(i, [report EXCEPT !.tv = answer.session, !.phase = phase])
        BY <2>1
    <2> HIDE DEF report
    <2>5. told \in SocketState
        BY <2>2, <2>3, SocketFieldTypes
    <2>6. phase \in Phase
        BY <2>3, PhaseTypes DEF SocketState
    <2>7. [report EXCEPT !.tv = answer.session, !.phase = phase] = [told EXCEPT !.phase = phase]
        BY <2>3 DEF SocketState
    <2> HIDE DEF told, phase
    <2> QED
        BY <1>2, <2>4, <2>5, <2>6, <2>7
<1>12. CASE WsPong(i)
    <2>1. Reporting(i, "ConnectionOk") \in SocketState
        BY ReportingType DEF WsUpdateMessage
    <2> QED
        BY <1>12, <2>1, SocketFieldTypes, BecomesType DEF WsPong
<1>13. CASE WsPingTimeout(i)
    <2>1. Reporting(i, "ConnectionNotOk") \in SocketState
        BY ReportingType DEF WsUpdateMessage
    <2> QED
        BY <1>13, <2>1, BecomesType DEF WsPingTimeout
<1>14. CASE WsServerClosed(i)
    <2>1. Reporting(i, "ServerClosedConnection") \in SocketState
        BY ReportingType DEF WsUpdateMessage
    <2> QED
        BY <1>2, <1>14, <2>1, PhaseTypes DEF WsServerClosed
<1>15. CASE WsReadError(i)
    <2>1. Reporting(i, "MessageReadError") \in SocketState
        BY ReportingType DEF WsUpdateMessage
    <2> QED
        BY <1>2, <1>15, <2>1, PhaseTypes DEF WsReadError
<1> QED
    BY <1>3, <1>4, <1>5, <1>6, <1>7, <1>8, <1>9, <1>10, <1>11, <1>12, <1>13, <1>14, <1>15
       DEF WsTaskStep, WsNetworkStep

-----------------------------------------------------------------------------
(* The theorem.                                                            *)

LEMMA InitType == Init => TypeInv
<1> SUFFICES ASSUME Init PROVE TypeInv
    OBVIOUS
<1> USE DEF Init, FsmInit, WsInit, NetInit, ManagerInit
<1> DEFINE fields == [ manager_status |-> Disconnected, client_key |-> None, ws_url |-> None,
                       connection_details |-> None, last_good_connection |-> None,
                       is_connection_initialized |-> FALSE,
                       is_manual_disconnect_requested |-> FALSE, is_pairing |-> FALSE,
                       reconnect_flow_status |-> "Inactive", reconnect_attempts |-> 0,
                       session_connection_count |-> 0 ]
<1>1. Disconnected \in State
    BY DEF Disconnected, State
<1>2. fields \in ManagerState
    <2>1. 0 \in 0 .. MaxAttempts /\ 0 \in 0 .. 1
        BY ManagerAssumption
    <2> QED
        BY <1>1, <2>1, FlowTypes
           DEF ManagerState, ManagerStatus, KeyOption, UrlOption, ConnectionOption
<1>3. disk \in PersistedState \cup {None}
    BY DEF PersistedState, UrlOption, KeyOption, Key
<1>4. mgr = ImportPersistedState(fields)
    OBVIOUS
<1> HIDE DEF fields
<1>5. mgr \in ManagerState
    BY <1>2, <1>3, <1>4, ImportType
<1>6. CoreOK
    BY <1>5 DEF CoreOK, SleepingHasConnection, ManagerPc, UrlOption
<1>7. WsTypeOK
    <2>1. NoSocket \in SocketState
        BY DEF NoSocket, SocketState, Phase, UrlOption, TvSession
    <2> QED
        BY <2>1 DEF WsTypeOK
<1>8. RestOK
    <2>1. 0 \in 0 .. MaxCalls /\ 0 \in 0 .. MaxChecks /\ <<>> \in Seq(Update)
        BY ManagerAssumption, NetAssumption
    <2> QED
        BY <1>1, <1>3, <2>1 DEF RestOK
<1> QED
    BY <1>6, <1>7, <1>8 DEF TypeInv

LEMMA NextType == TypeInv /\ [Next]_vars => TypeInv'
<1> SUFFICES ASSUME TypeInv, [Next]_vars PROVE TypeInv'
    OBVIOUS
<1>1. CoreOK /\ WsTypeOK /\ RestOK
    BY DEF TypeInv
<1>2. ASSUME UNCHANGED <<fsm_vars, checker_vars, mgr_vars>>
      PROVE  CoreOK' /\ RestOK'
    BY <1>1, <1>2 DEF fsm_vars, checker_vars, net_vars, mgr_vars, CoreOK, SleepingHasConnection, RestOK
<1>3. CASE FromCaller
    BY <1>3, CallerType
<1>4. CASE ManagerStep
    BY <1>4, StateMachineType, WebSocketType, NetworkCheckedType, ContinueType DEF ManagerStep
<1>5. CASE FsmStep
    BY <1>5, FsmType
<1>6. CASE \E i \in Socket : WsTask(i) \/ WsNetwork(i)
    <2>1. PICK i \in Socket : WsTask(i) \/ WsNetwork(i)
        BY <1>6
    <2>2. WsTypeOK'
        BY <1>1, <2>1, WsStepType DEF WsTask, WsNetwork
    <2>3. CoreOK' /\ RestOK'
        BY <1>2, <2>1 DEF WsTask, WsNetwork
    <2> QED
        BY <2>2, <2>3 DEF TypeInv
<1>7. CASE NetStep
    <2>1. WsTypeOK'
        BY <1>1, <1>7 DEF NetStep, ws_vars, WsTypeOK
    <2>2. CoreOK'
        BY <1>1, <1>7 DEF NetStep, StoreResult, NotifyManager, fsm_vars, mgr_vars, CoreOK, SleepingHasConnection
    <2>3. RestOK'
        <3>1. checks' \in 0 .. MaxChecks
            BY <1>1, <1>7, ManagerAssumption DEF NetStep, RestOK
        <3>2. /\ is_tv_on_network' \in BOOLEAN
              /\ is_tv_on_network_notify' \in BOOLEAN
              /\ is_notify_due' \in BOOLEAN
            BY <1>1, <1>7 DEF NetStep, StoreResult, NotifyManager, RestOK
        <3> QED
            BY <1>1, <1>7, <3>1, <3>2 DEF NetStep, fsm_vars, mgr_vars, RestOK
    <2> QED
        BY <2>1, <2>2, <2>3 DEF TypeInv
<1>8. CASE UNCHANGED vars
    <2>1. WsTypeOK' /\ CoreOK' /\ RestOK'
        BY <1>1, <1>2, <1>8 DEF vars, ws_vars, WsTypeOK
    <2> QED
        BY <2>1 DEF TypeInv
<1> QED
    BY <1>3, <1>4, <1>5, <1>6, <1>7, <1>8 DEF Next

\* Every variable stays in its type: in particular no handler connects without
\* a URL, goes on after a sleep without a connection, or sends the state machine
\* an Input it does not know.
THEOREM TypeCorrect == Spec => []TypeOK
<1>1. Spec => []TypeInv
    BY InitType, NextType, PTL DEF Spec
<1>2. TypeInv => TypeOK
    BY TypeInvImpliesTypeOK
<1> QED
    BY <1>1, <1>2, PTL

-----------------------------------------------------------------------------
(***************************************************************************)
(* The manager's status is the state of its state machine, late by the     *)
(* State updates that are still to be read.  StatusLagsMachine itself says *)
(* nothing of a zombie, which may still read updates; the invariant proved *)
(* here does.                                                              *)
(***************************************************************************)

(* Queues of updates.                                                      *)

\* The last State in the queue, if there is one, is s.
LastStateIs(queue, s) ==
    \A k \in 1 .. Len(queue) :
        (/\ queue[k].kind = "State"
         /\ \A later \in k + 1 .. Len(queue) : queue[later].kind # "State")
            => IsState(queue[k], s)

HasNoState(queue) == \A k \in 1 .. Len(queue) : queue[k].kind # "State"

\* Reading an update.
LEMMA ReadQueue ==
    ASSUME NEW queue \in Seq(Update), queue # <<>>, NEW s, LastStateIs(queue, s)
    PROVE  /\ LastStateIs(Tail(queue), s)
           /\ Head(queue).kind # "State" /\ HasNoState(Tail(queue)) => HasNoState(queue)
           /\ Head(queue).kind = "State" /\ HasNoState(Tail(queue)) => IsState(Head(queue), s)
<1>1. /\ Len(queue) \in Nat \ {0} /\ Len(Tail(queue)) = Len(queue) - 1
      /\ Head(queue) = queue[1]
      /\ \A k \in 1 .. Len(queue) - 1 : Tail(queue)[k] = queue[k + 1]
    OBVIOUS
<1>2. LastStateIs(Tail(queue), s)
    <2> SUFFICES ASSUME NEW k \in 1 .. Len(Tail(queue)), Tail(queue)[k].kind = "State",
                        \A later \in k + 1 .. Len(Tail(queue)) : Tail(queue)[later].kind # "State"
                 PROVE  IsState(Tail(queue)[k], s)
        BY DEF LastStateIs
    <2>1. k + 1 \in 1 .. Len(queue) /\ queue[k + 1] = Tail(queue)[k]
        BY <1>1
    <2>2. ASSUME NEW later \in (k + 1) + 1 .. Len(queue)
          PROVE  queue[later].kind # "State"
        <3>1. later - 1 \in k + 1 .. Len(Tail(queue)) /\ queue[later] = Tail(queue)[later - 1]
            BY <1>1, <2>2
        <3> QED
            BY <3>1
    <2> QED
        BY <2>1, <2>2 DEF LastStateIs
<1>3. ASSUME HasNoState(Tail(queue)), NEW k \in 2 .. Len(queue)
      PROVE  queue[k].kind # "State"
    <2>1. k - 1 \in 1 .. Len(Tail(queue)) /\ Tail(queue)[k - 1] = queue[k]
        BY <1>1, <1>3
    <2> QED
        BY <1>3, <2>1 DEF HasNoState
<1>4. ASSUME Head(queue).kind # "State", HasNoState(Tail(queue))
      PROVE  HasNoState(queue)
    <2> SUFFICES ASSUME NEW k \in 1 .. Len(queue) PROVE queue[k].kind # "State"
        BY DEF HasNoState
    <2> QED
        BY <1>1, <1>3, <1>4
<1>5. ASSUME Head(queue).kind = "State", HasNoState(Tail(queue))
      PROVE  IsState(Head(queue), s)
    <2>1. 1 \in 1 .. Len(queue)
        BY <1>1
    <2>2. \A later \in 1 + 1 .. Len(queue) : queue[later].kind # "State"
        BY <1>3, <1>5
    <2> QED
        BY <1>1, <1>5, <2>1, <2>2 DEF LastStateIs
<1> QED
    BY <1>2, <1>4, <1>5

\* Reporting a State.
LEMMA ReportState ==
    ASSUME NEW queue \in Seq(Update), NEW update \in Update, update.kind = "State",
           NEW s, IsState(update, s)
    PROVE  LastStateIs(Append(queue, update), s) /\ ~HasNoState(Append(queue, update))
<1> DEFINE longer == Append(queue, update)
<1>1. Len(longer) = Len(queue) + 1 /\ Len(queue) \in Nat /\ longer[Len(queue) + 1] = update
    OBVIOUS
<1>2. ~HasNoState(longer)
    <2>1. Len(queue) + 1 \in 1 .. Len(longer)
        BY <1>1
    <2> HIDE DEF longer
    <2> QED
        BY <1>1, <2>1 DEF HasNoState
<1>3. LastStateIs(longer, s)
    <2> HIDE DEF longer
    <2> SUFFICES ASSUME NEW k \in 1 .. Len(longer),
                        \A later \in k + 1 .. Len(longer) : longer[later].kind # "State"
                 PROVE  IsState(longer[k], s)
        BY DEF LastStateIs
    <2>1. k = Len(queue) + 1
        BY <1>1
    <2> QED
        BY <1>1, <2>1
<1> QED
    BY <1>2, <1>3

\* Reporting anything else.
LEMMA ReportOther ==
    ASSUME NEW queue \in Seq(Update), NEW update \in Update, update.kind # "State",
           NEW s, LastStateIs(queue, s)
    PROVE  /\ LastStateIs(Append(queue, update), s)
           /\ HasNoState(Append(queue, update)) => HasNoState(queue)
<1> DEFINE longer == Append(queue, update)
<1>1. /\ Len(longer) = Len(queue) + 1 /\ Len(queue) \in Nat /\ longer[Len(queue) + 1] = update
      /\ \A k \in 1 .. Len(queue) : longer[k] = queue[k]
    OBVIOUS
<1> HIDE DEF longer
<1>2. LastStateIs(longer, s)
    <2> SUFFICES ASSUME NEW k \in 1 .. Len(longer), longer[k].kind = "State",
                        \A later \in k + 1 .. Len(longer) : longer[later].kind # "State"
                 PROVE  IsState(longer[k], s)
        BY DEF LastStateIs
    <2>1. k \in 1 .. Len(queue)
        BY <1>1
    <2>2. \A later \in k + 1 .. Len(queue) : queue[later].kind # "State"
        <3> SUFFICES ASSUME NEW later \in k + 1 .. Len(queue) PROVE queue[later].kind # "State"
            OBVIOUS
        <3>1. later \in 1 .. Len(queue) /\ later \in k + 1 .. Len(longer)
            BY <1>1, <2>1
        <3> QED
            BY <1>1, <3>1
    <2> QED
        BY <1>1, <2>1, <2>2 DEF LastStateIs
<1>3. HasNoState(longer) => HasNoState(queue)
    BY <1>1 DEF HasNoState
<1> QED
    BY <1>2, <1>3 DEF longer

-----------------------------------------------------------------------------
(* Only a State update sets the status; otherwise it can only be lost, to  *)
(* a machine that is gone.                                                 *)

StatusKept ==
    \/ mgr'.manager_status = mgr.manager_status
    \/ mgr'.manager_status = Zombie /\ ~fsm_alive

LEMMA FlowKeepsStatus ==
    ASSUME NEW s \in ManagerState, NEW status
    PROVE  SetReconnectFlowStatus(s, status).manager_status = s.manager_status
    BY DEF SetReconnectFlowStatus, ManagerState

\* A reset forgets the connection, not the status.
LEMMA InitializeKeepsStatus ==
    ASSUME NEW s \in ManagerState, disk \in PersistedState \cup {None}
    PROVE  InitializeManagerState(s).manager_status = s.manager_status
<1> DEFINE uninitialized == [s EXCEPT !.is_connection_initialized = FALSE]
           kept == IF IsReconnectFlow(s) THEN uninitialized
                                         ELSE ForgetConnection(uninitialized)
           settled == IF s.reconnect_flow_status = "Cancelled"
                      THEN SetReconnectFlowStatus(kept, "Inactive")
                      ELSE kept
<1>1. uninitialized \in ManagerState /\ uninitialized.manager_status = s.manager_status
    BY DEF ManagerState
<1> HIDE DEF uninitialized
<1>2. kept \in ManagerState /\ kept.manager_status = s.manager_status
    BY <1>1, ForgetType DEF ForgetConnection, ManagerState
<1> HIDE DEF kept
<1>3. settled \in ManagerState /\ settled.manager_status = s.manager_status
    BY <1>2, SetFlowType, FlowTypes, FlowKeepsStatus
<1> HIDE DEF settled
<1>4. ImportPersistedState(settled).manager_status = s.manager_status
    BY <1>3 DEF ImportPersistedState, ManagerState
<1> QED
    BY <1>4 DEF InitializeManagerState, settled, kept, uninitialized

LEMMA PrepareKeepsStatus ==
    ASSUME NEW s \in ManagerState
    PROVE  OptionallyPrepareForReconnect(s).manager_status = s.manager_status
    BY FlowKeepsStatus DEF OptionallyPrepareForReconnect

\* Asking for a connection does not announce it.
LEMMA InitiateConnectKeepsStatus ==
    ASSUME NEW s \in ManagerState, NEW c \in Connection
    PROVE  InitiateConnectToTv(s, c).mgr.manager_status = s.manager_status
<1> DEFINE keyed == WithClientKey(s, c)
           chosen == [keyed EXCEPT !.connection_details = c]
           flow == SetReconnectFlowStatus(chosen,
                       IF c.initial_connect_retries THEN "Active" ELSE "Inactive")
<1>1. c \in ConnectionType
    BY TypesAssumption
<1>2. keyed \in ManagerState /\ keyed.manager_status = s.manager_status
    BY <1>1 DEF WithClientKey, ManagerState, ConnectionType
<1> HIDE DEF keyed
<1>3. chosen \in ManagerState /\ chosen.manager_status = s.manager_status
    BY <1>2 DEF ManagerState, ConnectionOption
<1> HIDE DEF chosen
<1>4. flow \in ManagerState /\ flow.manager_status = s.manager_status
    BY <1>3, SetFlowType, FlowTypes, FlowKeepsStatus
<1>5. Connecting(keyed, c) = [flow EXCEPT !.ws_url = c.url]
    BY DEF Connecting, chosen
<1> HIDE DEF flow
<1>6. Connecting(keyed, c).manager_status = s.manager_status
    BY <1>4, <1>5 DEF ManagerState
<1> QED
    BY <1>2, <1>6 DEF InitiateConnectToTv, Done, Result, keyed

LEMMA ReconnectKeepsStatus ==
    ASSUME NEW s \in ManagerState, s.connection_details # None
    PROVE  Reconnect(s).mgr.manager_status = s.manager_status
<1> DEFINE attempts == IF s.reconnect_attempts < MaxAttempts
                       THEN s.reconnect_attempts + 1 ELSE s.reconnect_attempts
           counted == [s EXCEPT !.reconnect_attempts = attempts]
<1>1. attempts \in 0 .. MaxAttempts
    BY ManagerAssumption DEF ManagerState
<1>2. s.connection_details \in Connection
    BY DEF ManagerState, ConnectionOption
<1>3. Reconnect(s) = InitiateConnectToTv(counted, s.connection_details)
    BY DEF Reconnect
<1> HIDE DEF attempts
<1>4. counted \in ManagerState /\ counted.manager_status = s.manager_status
    BY <1>1 DEF ManagerState
<1> QED
    BY <1>2, <1>3, <1>4, InitiateConnectKeepsStatus

LEMMA InitiateReconnectKeepsStatus ==
    ASSUME NEW s \in ManagerState, NEW immediate \in BOOLEAN
    PROVE  InitiateReconnect(s, immediate).mgr.manager_status = s.manager_status
<1> DEFINE active == SetReconnectFlowStatus(s, "Active")
<1>1. /\ active \in ManagerState
      /\ active.manager_status = s.manager_status
      /\ active.connection_details = s.connection_details
    BY SetFlowType, FlowTypes, FlowKeepsStatus
<1> HIDE DEF active
<1>2. SetReconnectFlowStatus(active, "Inactive").manager_status = s.manager_status
    BY <1>1, FlowKeepsStatus
<1>3. s.connection_details # None => Reconnect(active).mgr.manager_status = s.manager_status
    BY <1>1, ReconnectKeepsStatus
<1> QED
    BY <1>1, <1>2, <1>3 DEF InitiateReconnect, Done, Result, active

LEMMA CommitKeepsStatus ==
    ASSUME NEW r, r.mgr \in ManagerState, r.mgr.manager_status = mgr.manager_status, Commit(r)
    PROVE  StatusKept
    BY DEF Commit, StatusKept, ManagerState

LEMMA ForceResetKeepsStatus ==
    ASSUME NEW s \in ManagerState, s.manager_status = mgr.manager_status,
           NEW resume, ForceManagerReset(s, resume)
    PROVE  StatusKept
    BY CommitKeepsStatus DEF ForceManagerReset, Result

LEMMA SendToWsKeepsStatus ==
    ASSUME NEW s \in ManagerState, s.manager_status = mgr.manager_status,
           NEW message, NEW resume, SendToWs(s, message, resume)
    PROVE  StatusKept
    BY CommitKeepsStatus, ForceResetKeepsStatus DEF SendToWs, Done, Result

LEMMA FieldsKeepStatus ==
    ASSUME NEW s \in ManagerState
    PROVE  /\ \A b \in BOOLEAN :
                /\ [s EXCEPT !.is_manual_disconnect_requested = b].manager_status = s.manager_status
                /\ [s EXCEPT !.is_pairing = b].manager_status = s.manager_status
                /\ [s EXCEPT !.is_connection_initialized = b].manager_status = s.manager_status
           /\ \A n \in 0 .. 1 :
                [s EXCEPT !.session_connection_count = n].manager_status = s.manager_status
           /\ \A k \in KeyOption : [s EXCEPT !.client_key = k].manager_status = s.manager_status
           /\ Remembered(s).manager_status = s.manager_status
    BY DEF ManagerState, Remembered

-----------------------------------------------------------------------------
(* The inductive invariant.  Its first part also holds of a zombie's queue. *)

StatusInv ==
    /\ LastStateIs(from_fsm, fsm_state)
    /\ mgr.manager_status # Zombie /\ HasNoState(from_fsm) => mgr.manager_status = fsm_state

LEMMA StatusInvImplies == StatusInv => StatusLagsMachine
    BY DEF StatusInv, StatusLagsMachine, LastStateIs, HasNoState, IsLastState, IsStateUpdate

\* A step that neither reads nor reports updates.
LEMMA KeptQueue ==
    ASSUME StatusInv, StatusKept, UNCHANGED <<from_fsm, fsm_state>>
    PROVE  StatusInv'
    BY DEF StatusInv, StatusKept, LastStateIs, HasNoState

\* A step that reads an update other than a State.
LEMMA OtherRead ==
    ASSUME TypeInv, StatusInv, StatusKept, from_fsm # <<>>, Head(from_fsm).kind # "State",
           from_fsm' = Tail(from_fsm), UNCHANGED fsm_state
    PROVE  StatusInv'
<1>1. from_fsm \in Seq(Update)
    BY DEF TypeInv, RestOK
<1>2. /\ LastStateIs(Tail(from_fsm), fsm_state)
      /\ HasNoState(Tail(from_fsm)) => HasNoState(from_fsm)
    BY <1>1, ReadQueue DEF StatusInv
<1> QED
    BY <1>2 DEF StatusInv, StatusKept

LEMMA CallerKeepsStatus ==
    ASSUME TypeInv, FromCaller
    PROVE  StatusKept
<1>1. mgr \in ManagerState
    BY DEF TypeInv, CoreOK
<1>2. Commit(Done(mgr)) => StatusKept
    BY <1>1, CommitKeepsStatus DEF Done, Result
<1>3. CASE CancelReconnect
    <2> DEFINE cancelled == SetReconnectFlowStatus(mgr, "Cancelled")
    <2>1. cancelled \in ManagerState /\ cancelled.manager_status = mgr.manager_status
        BY <1>1, SetFlowType, FlowTypes, FlowKeepsStatus
    <2>2. \/ Commit(Done(cancelled)) \/ ForceManagerReset(cancelled, "reset") \/ Commit(Done(mgr))
        BY <1>3 DEF CancelReconnect
    <2> HIDE DEF cancelled
    <2> QED
        BY <1>2, <2>1, <2>2, CommitKeepsStatus, ForceResetKeepsStatus DEF Done, Result
<1>4. ASSUME NEW c \in Connection, Commit(InitiateConnectToTv(mgr, c))
      PROVE  StatusKept
    <2>1. IsResult(InitiateConnectToTv(mgr, c))
        BY <1>1, <1>4, InitiateConnectType DEF TypeInv, CoreOK
    <2> QED
        BY <1>1, <1>4, <2>1, InitiateConnectKeepsStatus, CommitKeepsStatus DEF IsResult, ResultType
<1>5. CASE Connect
    BY <1>4, <1>5 DEF Connect
<1>6. CASE ConnectLastGoodConnection
    <2>1. CASE mgr.last_good_connection = None
        BY <1>2, <1>6, <2>1 DEF ConnectLastGoodConnection
    <2>2. CASE mgr.last_good_connection # None
        <3>1. mgr.last_good_connection \in Connection
            BY <1>1, <2>2 DEF ManagerState, ConnectionOption
        <3> QED
            BY <1>4, <1>6, <2>2, <3>1 DEF ConnectLastGoodConnection
    <2> QED
        BY <2>1, <2>2
<1>7. CASE Disconnect
    BY <1>1, <1>7, FieldTypes, FieldsKeepStatus, CommitKeepsStatus
       DEF Disconnect, DoneSending, Result
<1>8. CASE SendTvCommand
    BY <1>1, <1>8, CommitKeepsStatus DEF SendTvCommand, DoneSending, Result
<1>9. CASE TestConnection
    BY <1>1, <1>2, <1>9, SendToWsKeepsStatus DEF TestConnection
<1>10. CASE ShutDown
    BY <1>1, <1>10, CommitKeepsStatus DEF ShutDown, Result
<1> QED
    BY <1>3, <1>5, <1>6, <1>7, <1>8, <1>9, <1>10 DEF FromCaller

\* Of the machine's updates, all but a State leave the status alone.
LEMMA OutputKeepsStatus ==
    ASSUME TypeInv, FromStateMachine, ~NewState
    PROVE  StatusKept
<1>1. mgr \in ManagerState
    BY DEF TypeInv, CoreOK
<1>2. CASE ConnectToTv
    BY <1>1, <1>2, CommitKeepsStatus DEF ConnectToTv, Done, Result
<1>3. CASE SendRegisterPayload
    <2> DEFINE inactive == SetReconnectFlowStatus(mgr, "Inactive")
               counted == [inactive EXCEPT !.session_connection_count = 1]
    <2>1. inactive \in ManagerState /\ inactive.manager_status = mgr.manager_status
        BY <1>1, SetFlowType, FlowTypes, FlowKeepsStatus
    <2>2. Updated("Output", "SendRegisterPayload") /\ SendToWs(counted, "Register", "reset")
        BY <1>3 DEF SendRegisterPayload
    <2> HIDE DEF inactive
    <2>3. counted \in ManagerState /\ counted.manager_status = mgr.manager_status
        <3>1. 1 \in 0 .. 1
            OBVIOUS
        <3> QED
            BY <2>1, <3>1, FieldTypes, FieldsKeepStatus
    <2> HIDE DEF counted
    <2> QED
        BY <2>2, <2>3, SendToWsKeepsStatus
<1>4. CASE PairWithTv
    BY <1>1, <1>4, FieldTypes, FieldsKeepStatus, CommitKeepsStatus
       DEF PairWithTv, Done, Result
<1>5. CASE InitializeConnection
    <2> DEFINE paired == [mgr EXCEPT !.is_pairing = FALSE]
    <2>1. paired \in ManagerState /\ paired.manager_status = mgr.manager_status
        BY <1>1, FieldTypes, FieldsKeepStatus
    <2>2. /\ Updated("Output", "InitializeConnection")
          /\ \/ ForceManagerReset(paired, "reset_initialize")
             \/ SendToWs(Remembered(paired), "Initialize", "reset")
        BY <1>5 DEF InitializeConnection
    <2> HIDE DEF paired
    <2>3. Remembered(paired) \in ManagerState
              /\ Remembered(paired).manager_status = mgr.manager_status
        BY <2>1, FieldTypes, FieldsKeepStatus
    <2> QED
        BY <2>1, <2>2, <2>3, ForceResetKeepsStatus, SendToWsKeepsStatus
<1>6. CASE SendCommand
    BY <1>1, <1>6, SendToWsKeepsStatus DEF SendCommand
<1>7. CASE DisconnectFromTv
    <2> DEFINE prepared == OptionallyPrepareForReconnect(mgr)
    <2>1. prepared \in ManagerState /\ prepared.manager_status = mgr.manager_status
        BY <1>1, PrepareType, PrepareKeepsStatus
    <2>2. Updated("Output", "DisconnectFromTv") /\ InitiateDisconnectFromTv(prepared)
        BY <1>7 DEF DisconnectFromTv
    <2> HIDE DEF prepared
    <2> QED
        BY <2>1, <2>2, CommitKeepsStatus, SendToWsKeepsStatus
           DEF InitiateDisconnectFromTv, Done, Result
<1>8. CASE HandleSuccessfulDisconnect \/ HandleDisconnectError
    BY <1>1, <1>8, FieldTypes, FieldsKeepStatus, CommitKeepsStatus
       DEF HandleSuccessfulDisconnect, HandleDisconnectError, HandleDisconnected, Result
<1>9. CASE HandleConnectError
    BY <1>1, <1>9, ForceResetKeepsStatus DEF HandleConnectError
<1>10. CASE TransitionError
    BY <1>1, <1>10, CommitKeepsStatus DEF TransitionError, Done, Result
<1> QED
    BY <1>2, <1>3, <1>4, <1>5, <1>6, <1>7, <1>8, <1>9, <1>10 DEF FromStateMachine

\* The manager reads an update of its state machine.
LEMMA StateMachineKeepsStatus ==
    ASSUME TypeInv, StatusInv, FromStateMachine
    PROVE  StatusInv'
<1>1. mgr \in ManagerState /\ from_fsm \in Seq(Update) /\ fsm_state \in State
    BY DEF TypeInv, CoreOK, RestOK
<1>2. CASE ~NewState
    <2>1. /\ from_fsm # <<>> /\ Head(from_fsm).kind # "State"
          /\ from_fsm' = Tail(from_fsm) /\ UNCHANGED fsm_state
        BY <1>2 DEF FromStateMachine, ConnectToTv, SendRegisterPayload, PairWithTv,
               InitializeConnection, SendCommand, DisconnectFromTv, HandleSuccessfulDisconnect,
               HandleDisconnectError, HandleDisconnected, HandleConnectError, TransitionError,
               Updated
    <2> QED
        BY <1>2, <2>1, OutputKeepsStatus, OtherRead
<1>3. CASE NewState
    <2> DEFINE read == [tag |-> Head(from_fsm).tag, url |-> Head(from_fsm).url]
    <2>1. /\ from_fsm # <<>> /\ Head(from_fsm).kind = "State"
          /\ from_fsm' = Tail(from_fsm) /\ fsm_state' = fsm_state
        BY <1>3 DEF NewState, Updated
    <2>2. Commit(Done([mgr EXCEPT !.manager_status = read]))
        BY <1>3 DEF NewState
    <2>3. Head(from_fsm) \in Update
        BY <1>1, <2>1
    <2>4. read \in ManagerStatus
        BY <2>1, <2>3 DEF Update, State, ManagerStatus
    <2>5. mgr'.manager_status \in {read, Zombie}
        BY <1>1, <2>2, <2>4 DEF Commit, Done, Result, ManagerState
    <2>6. /\ LastStateIs(from_fsm', fsm_state)
          /\ HasNoState(from_fsm') => IsState(Head(from_fsm), fsm_state)
        BY <1>1, <2>1, ReadQueue DEF StatusInv
    <2>7. IsState(Head(from_fsm), fsm_state) => read = fsm_state
        BY <1>1 DEF IsState, State
    <2> HIDE DEF read
    <2> QED
        BY <2>1, <2>5, <2>6, <2>7 DEF StatusInv
<1> QED
    BY <1>2, <1>3

LEMMA WebSocketKeepsStatus ==
    ASSUME TypeInv, FromWebSocket
    PROVE  StatusKept
<1>1. mgr \in ManagerState /\ WsTypeOK
    BY DEF TypeInv, CoreOK
<1>2. ASSUME NEW s \in ManagerState, s.manager_status = mgr.manager_status, NEW tag,
             Commit(Done(s)) \/ Commit(DoneSending(s, tag))
      PROVE  StatusKept
    BY <1>2, CommitKeepsStatus DEF Done, DoneSending, Result
<1>3. CASE ConnectionLost
    BY <1>1, <1>2, <1>3, PrepareType, PrepareKeepsStatus DEF ConnectionLost
<1>4. CASE GetVolume
    <2> DEFINE initialized == [mgr EXCEPT !.is_connection_initialized = TRUE]
    <2>1. initialized \in ManagerState /\ initialized.manager_status = mgr.manager_status
        BY <1>1, FieldTypes, FieldsKeepStatus
    <2>2. Commit(Done(mgr)) \/ Commit(DoneSending(initialized, "StartCommunication"))
        BY <1>4 DEF GetVolume
    <2> HIDE DEF initialized
    <2> QED
        BY <1>1, <1>2, <2>1, <2>2
<1>5. CASE Registered
    <2> DEFINE registered == [mgr EXCEPT !.client_key = ws[cur_ws].host]
    <2>1. ws[cur_ws].host \in KeyOption
        BY <1>1, <1>5 DEF Registered, Reported, WsTypeOK, SocketState, KeyOption, Key, UrlOption
    <2>2. registered \in ManagerState /\ registered.manager_status = mgr.manager_status
        BY <1>1, <2>1, FieldTypes, FieldsKeepStatus
    <2>3. Commit(DoneSending(registered, "Initialize"))
        BY <1>5 DEF Registered
    <2> HIDE DEF registered
    <2> QED
        BY <1>2, <2>2, <2>3
<1>6. CASE ConnectionTested
    <2>1. Commit(Done(mgr)) \/ Commit(DoneSending(mgr, "Error"))
        BY <1>6 DEF ConnectionTested
    <2> QED
        BY <1>1, <1>2, <2>1
<1>7. CASE WebSocketConnected \/ WebSocketDisconnected \/ PairRequested \/ PairingFailed
    BY <1>1, <1>2, <1>7
       DEF WebSocketConnected, WebSocketDisconnected, PairRequested, PairingFailed
<1> QED
    BY <1>3, <1>4, <1>5, <1>6, <1>7 DEF FromWebSocket

LEMMA NetworkCheckedKeepsStatus ==
    ASSUME TypeInv, TvNetworkChecked
    PROVE  StatusKept
<1>1. mgr \in ManagerState /\ tv_ip \in UrlOption
    BY DEF TypeInv, CoreOK
<1> DEFINE flow == SetReconnectFlowStatus(mgr,
               IF IsAutoReconnectEnabled(mgr) THEN "WaitingForTvOnNetwork" ELSE "Inactive")
<1>2. flow \in ManagerState /\ flow.manager_status = mgr.manager_status
    BY <1>1, SetFlowType, FlowTypes, FlowKeepsStatus
<1>3. /\ InitiateReconnect(mgr, TRUE).mgr \in ManagerState
      /\ InitiateReconnect(mgr, TRUE).mgr.manager_status = mgr.manager_status
    BY <1>1, InitiateReconnectType, InitiateReconnectKeepsStatus DEF IsResult, ResultType
<1>4. \/ Commit(Done(flow)) \/ Commit(DoneSending(mgr, "Error"))
      \/ Commit(InitiateReconnect(mgr, TRUE)) \/ Commit(Done(mgr))
    BY DEF TvNetworkChecked
<1> HIDE DEF flow
<1> QED
    BY <1>1, <1>2, <1>3, <1>4, CommitKeepsStatus DEF Done, DoneSending, Result

LEMMA ContinueKeepsStatus ==
    ASSUME TypeInv, Continue
    PROVE  StatusKept
<1>1. mgr \in ManagerState /\ tv_ip \in UrlOption /\ disk \in PersistedState \cup {None}
    BY DEF TypeInv, CoreOK, RestOK
<1> DEFINE initialized == InitializeManagerState(mgr)
<1>2. initialized \in ManagerState /\ initialized.manager_status = mgr.manager_status
    BY <1>1, InitializeType, InitializeKeepsStatus
<1> HIDE DEF initialized
<1>3. /\ InitiateReconnect(initialized, FALSE).mgr \in ManagerState
      /\ InitiateReconnect(initialized, FALSE).mgr.manager_status = mgr.manager_status
    BY <1>1, <1>2, InitiateReconnectType, InitiateReconnectKeepsStatus DEF IsResult, ResultType
<1>4. ASSUME NEW resume, NEW r, r \in ResultType, r.mgr.manager_status = mgr.manager_status,
             FinishedReset(resume, r)
      PROVE  StatusKept
    <2> DEFINE longer == [r EXCEPT !.sent = ResetInput \o r.sent]
    <2>1. Commit(longer)
        BY <1>4 DEF FinishedReset
    <2>2. longer.mgr = r.mgr /\ r.mgr \in ManagerState
        BY <1>4 DEF ResultType
    <2> HIDE DEF longer
    <2> QED
        BY <1>4, <2>1, <2>2, CommitKeepsStatus
<1>5. CASE FinishReset
    <2>1. Done(initialized) \in ResultType
        BY <1>1, <1>2, DoneType DEF IsResult
    <2> QED
        BY <1>2, <1>4, <1>5, <2>1 DEF FinishReset, Done, Result, initialized
<1>6. CASE FinishConnectError
    <2> DEFINE inactive == SetReconnectFlowStatus(initialized, "Inactive")
    <2>1. inactive \in ManagerState /\ inactive.manager_status = mgr.manager_status
        BY <1>2, SetFlowType, FlowTypes, FlowKeepsStatus
    <2>2. AfterConnectError(initialized) \in
              {Done(initialized), Done(inactive), InitiateReconnect(initialized, FALSE)}
        BY DEF AfterConnectError
    <2> HIDE DEF inactive
    <2>3. AfterConnectError(initialized) \in ResultType
        BY <1>1, <1>2, <2>1, <2>2, DoneType, InitiateReconnectType DEF IsResult
    <2>4. AfterConnectError(initialized).mgr.manager_status = mgr.manager_status
        <3>1. /\ Done(initialized).mgr = initialized
              /\ Done(inactive).mgr = inactive
            BY DEF Done, Result
        <3> QED
            BY <1>2, <1>3, <2>1, <2>2, <3>1
    <2> QED
        BY <1>4, <1>6, <2>3, <2>4 DEF FinishConnectError, initialized
<1>7. CASE FinishInitialize
    <2> DEFINE resets == [k \in 1 .. 5 |-> InputOf("Reset")]
               result == Result(Remembered(initialized), resets, "select")
    <2>1. resets \in Seq(Input)
        BY InputOfType, InputTags
    <2>2. /\ Remembered(initialized) \in ManagerState
          /\ Remembered(initialized).manager_status = mgr.manager_status
        BY <1>2, FieldTypes, FieldsKeepStatus
    <2>3. FinishedReset("reset_initialize", result)
        BY <1>7 DEF FinishInitialize, initialized
    <2> HIDE DEF resets
    <2>4. result \in ResultType /\ result.mgr.manager_status = mgr.manager_status
        BY <1>1, <2>1, <2>2, SentType, PcTypes DEF IsResult, Result
    <2> HIDE DEF result
    <2> QED
        BY <1>4, <2>3, <2>4
<1>8. CASE FinishShutDown
    <2>1. <<>> \in Seq(Input)
        OBVIOUS
    <2>2. Result(initialized, <<>>, "stopped") \in ResultType
        BY <1>1, <1>2, <2>1, SentType, PcTypes DEF IsResult
    <2> QED
        BY <1>2, <1>4, <1>8, <2>2 DEF FinishShutDown, Result, initialized
<1>9. CASE ResetInsteadOfReconnect
    BY <1>1, <1>9, ForceResetKeepsStatus DEF ResetInsteadOfReconnect
<1>10. CASE FinishDisconnect
    <2> DEFINE inactive == SetReconnectFlowStatus(initialized, "Inactive")
               unpaired == [inactive EXCEPT !.is_pairing = FALSE]
    <2>1. inactive \in ManagerState /\ inactive.manager_status = mgr.manager_status
        BY <1>2, SetFlowType, FlowTypes, FlowKeepsStatus
    <2>2. \/ Commit(Done(initialized)) \/ Commit(Done(unpaired))
          \/ Commit(InitiateReconnect(initialized, FALSE))
        BY <1>10 DEF FinishDisconnect, initialized
    <2> HIDE DEF inactive
    <2>3. unpaired \in ManagerState /\ unpaired.manager_status = mgr.manager_status
        BY <2>1, FieldTypes, FieldsKeepStatus
    <2> HIDE DEF unpaired
    <2> QED
        BY <1>2, <1>3, <2>2, <2>3, CommitKeepsStatus DEF Done, Result
<1>11. CASE RetryIntervalTick
    <2>1. mgr.connection_details # None
        BY <1>11 DEF RetryIntervalTick, TypeInv, CoreOK, SleepingHasConnection
    <2>2. Reconnect(mgr).mgr \in ManagerState
        BY <1>1, <2>1, ReconnectType DEF IsResult, ResultType
    <2> QED
        BY <1>1, <1>11, <2>1, <2>2, ReconnectKeepsStatus, CommitKeepsStatus DEF RetryIntervalTick
<1>12. CASE TasksStopped
    BY <1>1, <1>12, ForceResetKeepsStatus, CommitKeepsStatus DEF TasksStopped, Result
<1> QED
    BY <1>5, <1>6, <1>7, <1>8, <1>9, <1>10, <1>11, <1>12 DEF Continue

-----------------------------------------------------------------------------
(* The state machine's own steps, and the theorem.                         *)

LEMMA FsmReportsStatus ==
    ASSUME TypeInv, StatusInv, FsmStep
    PROVE  StatusInv'
<1>1. /\ from_fsm \in Seq(Update) /\ fsm_state \in State /\ to_fsm \in Seq(Input)
      /\ mgr' = mgr
    BY DEF TypeInv, RestOK, CoreOK, FsmStep, mgr_vars
<1>2. CASE FsmTransition
    <2>1. PICK rule \in Applicable(fsm_state, Head(to_fsm)) :
              /\ fsm_state' = Target(rule, fsm_state, Head(to_fsm))
              /\ from_fsm' = from_fsm \o Updates(rule, fsm_state')
        BY <1>2 DEF FsmTransition
    <2>2. Head(to_fsm) \in Input
        BY <1>1, <1>2 DEF FsmTransition
    <2>3. fsm_state' \in State
        BY <1>1, <2>1, <2>2, RuleTypes
    <2>4. rule.output \in OutputTag \cup {NoOutput}
        BY <2>1 DEF Applicable, Rules, Rule, OutputTag, NoOutput
    <2> DEFINE moved == StateUpdate(fsm_state')
               asked == OutputUpdate(rule.output, fsm_state')
               reported == Append(from_fsm, moved)
    <2>5. moved \in Update /\ moved.kind = "State" /\ IsState(moved, fsm_state')
        BY <2>3 DEF StateUpdate, Update, State, IsState
    <2>6. rule.output # NoOutput => asked \in Update /\ asked.kind # "State"
        BY <2>3, <2>4 DEF OutputUpdate, Update, State, UrlOption
    <2>7. from_fsm' = IF rule.output = NoOutput THEN reported ELSE Append(reported, asked)
        BY <1>1, <2>1, <2>5, <2>6 DEF Updates
    <2> HIDE DEF moved, asked
    <2>8. LastStateIs(reported, fsm_state') /\ ~HasNoState(reported) /\ reported \in Seq(Update)
        BY <1>1, <2>5, ReportState
    <2> HIDE DEF reported
    <2>9. LastStateIs(from_fsm', fsm_state') /\ ~HasNoState(from_fsm')
        BY <2>6, <2>7, <2>8, ReportOther
    <2> QED
        BY <2>9 DEF StatusInv
<1>3. CASE FsmTransitionError
    <2> DEFINE refused == ErrorUpdate(Head(to_fsm))
    <2>1. refused \in Update /\ refused.kind # "State"
        <3>1. Head(to_fsm) \in Input
            BY <1>1, <1>3 DEF FsmTransitionError
        <3>2. Head(to_fsm).tag \in InputTag /\ Head(to_fsm).url \in UrlOption
            BY <3>1 DEF Input, InputTag, UrlOption
        <3> QED
            BY <3>2 DEF ErrorUpdate, Update
    <2>2. from_fsm' = Append(from_fsm, refused) /\ fsm_state' = fsm_state
        BY <1>3 DEF FsmTransitionError
    <2> HIDE DEF refused
    <2> QED
        BY <1>1, <2>1, <2>2, ReportOther DEF StatusInv
<1>4. CASE FsmShutDown
    BY <1>1, <1>4, KeptQueue DEF FsmShutDown, StatusKept
<1> QED
    BY <1>2, <1>3, <1>4 DEF FsmStep, FsmNext

LEMMA NextKeepsStatus ==
    ASSUME TypeInv, StatusInv, [Next]_vars
    PROVE  StatusInv'
<1>1. CASE FromCaller
    <2>1. UNCHANGED <<from_fsm, fsm_state>>
        BY <1>1 DEF FromCaller, CancelReconnect, Connect, ConnectLastGoodConnection, Disconnect,
               SendTvCommand, TestConnection, ShutDown, Called
    <2> QED
        BY <1>1, <2>1, CallerKeepsStatus, KeptQueue
<1>2. CASE FromStateMachine
    BY <1>2, StateMachineKeepsStatus
<1>3. CASE FromWebSocket
    <2>1. PICK updates : Reported(updates)
        BY <1>3 DEF FromWebSocket, WebSocketConnected, WebSocketDisconnected, ConnectionLost,
               ConnectionTested, GetVolume, PairRequested, PairingFailed, Registered
    <2> QED
        BY <1>3, <2>1, WebSocketKeepsStatus, KeptQueue DEF Reported
<1>4. CASE TvNetworkChecked
    BY <1>4, NetworkCheckedKeepsStatus, KeptQueue DEF TvNetworkChecked
<1>5. CASE Continue
    <2>1. UNCHANGED <<from_fsm, fsm_state>>
        BY <1>5 DEF Continue, FinishReset, FinishConnectError, FinishInitialize, FinishShutDown,
               FinishedReset, ResetInsteadOfReconnect, FinishDisconnect, RetryIntervalTick,
               TasksStopped, Resumed
    <2> QED
        BY <1>5, <2>1, ContinueKeepsStatus, KeptQueue
<1>6. CASE FsmStep
    BY <1>6, FsmReportsStatus
<1>7. CASE (\E i \in Socket : WsTask(i) \/ WsNetwork(i)) \/ NetStep \/ UNCHANGED vars
    BY <1>7, KeptQueue DEF WsTask, WsNetwork, NetStep, vars, fsm_vars, mgr_vars, StatusKept
<1> QED
    BY <1>1, <1>2, <1>3, <1>4, <1>5, <1>6, <1>7 DEF Next, ManagerStep

\* However the handlers, resets and reconnects of the manager interleave with
\* its state machine, the status it shows is the state of that machine, late by
\* exactly the State updates it has not read.
THEOREM StatusIsMachineState == Spec => []StatusLagsMachine
<1>1. Init => StatusInv
    <2> SUFFICES ASSUME Init PROVE StatusInv
        OBVIOUS
    <2>1. from_fsm = <<>> /\ fsm_state = Disconnected
        BY DEF Init, FsmInit
    <2>2. mgr.manager_status = Disconnected
        BY DEF Init, ManagerInit, ImportPersistedState
    <2> QED
        BY <2>1, <2>2 DEF StatusInv, LastStateIs
<1>2. TypeInv /\ StatusInv /\ [Next]_vars => StatusInv'
    BY NextKeepsStatus
<1> QED
    BY <1>1, <1>2, InitType, NextType, StatusInvImplies, PTL DEF Spec
=============================================================================
