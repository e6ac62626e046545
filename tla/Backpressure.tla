------------------------------ MODULE Backpressure ------------------------------
(***************************************************************************)
(* The bounded channels between the caller, the manager, the state machine *)
(* and the WebSocket task.  Every send is awaited: a task whose channel is *)
(* full does nothing else until somebody reads.  LgTvManager takes a       *)
(* handler for one step and keeps the channels from filling; here a        *)
(* handler is the list of its awaited operations, the machine sends its    *)
(* two updates one after the other, and Backlog is the capacity of the     *)
(* machine's channels, Buffer and OutputBuffer that of the others; in the  *)
(* code each is 32.  One connection at a time, without retries; the        *)
(* network checker does not send and is left out.                          *)
(***************************************************************************)
EXTENDS StateMachine

CONSTANTS
    Buffer,         \* capacity of the WebSocket task's channels and of command_rx
    OutputBuffer,   \* capacity of the caller's channel of outputs
    CallerMessage,  \* the ManagerMessages the caller uses
    Patient,        \* the caller connects only at rest, without a connection
    MaxCalls,       \* bound: ManagerMessages of one burst
    MaxVolumes,     \* bound: volume payloads of one burst
    Details,        \* outputs of emit_all_tv_details, 6 in the code
    Requests,       \* requests of initialize_connection, 6 in the code
    Faults          \* what may go wrong: "ConnectError", "ServerClosed"

VARIABLES
    fsm_pending,    \* updates the machine is about to send
    command_rx,     \* channel: caller to manager
    output,         \* channel: manager to caller; only its length
    todo,           \* the awaited operations left in the manager's handler
    mgr,            \* the fields the handlers look at
    ws,             \* the WebSocket task of the connection, and the TV
    calls,          \* ManagerMessages sent in this burst
    volumes         \* volume payloads in this burst

ManagerMessage == {"Connect", "Disconnect", "SendTvCommand", "EmitAllState", "ShutDown"}

\* What the manager sends the WebSocket task, and what the task reports.
WsMessage == {"Register", "Initialize", "Command", "ShutDown"}

WsUpdate == {"Connected", "ConnectError", "Pair", "Registered", "Volume",
             "ServerClosedConnection", "Disconnected"}

ASSUME BackpressureAssumption ==
    /\ Backlog > 0 /\ {Buffer, OutputBuffer} \subseteq Nat \ {0}
    /\ Url # {} /\ None \notin WsMessage
    /\ CallerMessage \subseteq ManagerMessage /\ Patient \in BOOLEAN
    /\ MaxCalls \in Nat \ {0} /\ MaxVolumes \in Nat
    /\ Details \in Nat /\ Requests \in Nat

bp_vars == <<fsm_vars, fsm_pending, command_rx, output, todo, mgr, ws, calls, volumes>>

HasRoom(channel) == Len(channel) < Buffer

(* The operations a handler awaits.                                        *)

Op(op, arg) == [op |-> op, arg |-> arg]

Out == Op("out", None)              \* send_out
Outs(n) == [k \in 1 .. n |-> Out]
Fsm(input) == Op("fsm", input)      \* send_to_fsm
Ws(message) == Op("ws", message)    \* send_to_ws
TellShutDown == Op("tell", None)    \* the ShutDown of a reset: errors are ignored
ShutDownWs == Op("shut_down", None) \* initiate_disconnect_from_tv
Join == Op("join", None)            \* await the join handle
Stopped == Op("stopped", None)      \* task_tracker.wait()
Stop == Op("stop", None)            \* the end of run()

\* initialize_manager_state: the details, and two test states.
StateOuts == Outs(Details + 2)

ResetOps == <<Out, TellShutDown, Join>> \o StateOuts \o <<Fsm(InputOf("Reset")), Out>>

NoTask == [phase |-> "none", session |-> "idle", to_ws |-> <<>>, from_ws |-> <<>>,
           report |-> <<>>, writing |-> None]

Init ==
    /\ FsmInit
    /\ fsm_pending = <<>>
    /\ command_rx = <<>>
    /\ output = 0
    /\ todo = <<>>
    /\ mgr = [ manager_status |-> "Disconnected",
               is_connection_initialized |-> FALSE,
               is_manual_disconnect_requested |-> FALSE,
               ws_join_handle |-> FALSE ]
    /\ ws = NoTask
    /\ calls = 0 /\ volumes = 0

-----------------------------------------------------------------------------
(* The caller: sends, and reads what the manager puts out.                 *)

\* ws.report holds the updates the task is about to send, ws.writing the message
\* it is writing to the TV; while there is either it does nothing else.
IsFree == ws.report = <<>> /\ ws.writing = None

IsOpen == ws.phase \notin {"none", "ended"}

\* Nothing is on its way or under way; a connection may be open, and the TV be
\* prompting.  What happens between two rests is a burst.
AtRest ==
    /\ todo = <<>> /\ command_rx = <<>>
    /\ to_fsm = <<>> /\ fsm_pending = <<>> /\ from_fsm = <<>>
    /\ ws.phase \in {"none", "running", "ended"} /\ IsFree
    /\ ws.to_ws = <<>> /\ ws.from_ws = <<>>

CallsInBurst == IF AtRest THEN 0 ELSE calls
VolumesInBurst == IF AtRest THEN 0 ELSE volumes

Call ==
    /\ HasRoom(command_rx)
    /\ CallsInBurst < MaxCalls /\ calls' = CallsInBurst + 1
    /\ volumes' = VolumesInBurst
    /\ \E message \in CallerMessage :
           /\ Patient /\ message = "Connect" => AtRest /\ ~IsOpen
           /\ command_rx' = Append(command_rx, message)
    /\ UNCHANGED <<fsm_vars, fsm_pending, output, todo, mgr, ws>>

CallerReads ==
    /\ output > 0
    /\ output' = output - 1
    /\ UNCHANGED <<fsm_vars, fsm_pending, command_rx, todo, mgr, ws, calls, volumes>>

-----------------------------------------------------------------------------
(* The state machine task.                                                 *)

\* Mutant of MachineTakesInput: the state is reported before and after.
MachineReportsTwice ==
    /\ fsm_alive /\ fsm_pending = <<>> /\ to_fsm # <<>>
    /\ to_fsm' = Tail(to_fsm)
    /\ LET input == Head(to_fsm)
       IN  IF Applicable(fsm_state, input) = {}
           THEN /\ fsm_pending' = <<ErrorUpdate(input)>>
                /\ UNCHANGED fsm_state
           ELSE \E rule \in Applicable(fsm_state, input) :
                    /\ fsm_state' = Target(rule, fsm_state, input)
                    /\ fsm_pending' = <<StateUpdate(fsm_state)>> \o Updates(rule, fsm_state')
    /\ UNCHANGED <<from_fsm, fsm_alive, fsm_cancelled, command_rx, output, todo, mgr, ws,
                   calls, volumes>>

MachineTakesInput ==
    /\ fsm_alive /\ fsm_pending = <<>> /\ to_fsm # <<>>
    /\ to_fsm' = Tail(to_fsm)
    /\ LET input == Head(to_fsm)
       IN  IF Applicable(fsm_state, input) = {}
           THEN /\ fsm_pending' = <<ErrorUpdate(input)>>
                /\ UNCHANGED fsm_state
           ELSE \E rule \in Applicable(fsm_state, input) :
                    /\ fsm_state' = Target(rule, fsm_state, input)
                    /\ fsm_pending' = Updates(rule, fsm_state')
    /\ UNCHANGED <<from_fsm, fsm_alive, fsm_cancelled, command_rx, output, todo, mgr, ws,
                   calls, volumes>>

MachineSends ==
    /\ fsm_pending # <<>> /\ Room(from_fsm)
    /\ from_fsm' = Append(from_fsm, Head(fsm_pending))
    /\ fsm_pending' = Tail(fsm_pending)
    /\ UNCHANGED <<fsm_state, to_fsm, fsm_alive, fsm_cancelled, command_rx, output, todo,
                   mgr, ws, calls, volumes>>

\* The token is only looked at in the select!, not while a send is awaited.
MachineStops ==
    /\ fsm_pending = <<>> /\ FsmShutDown
    /\ UNCHANGED <<fsm_pending, command_rx, output, todo, mgr, ws, calls, volumes>>

Machine == MachineTakesInput \/ MachineSends \/ MachineStops

-----------------------------------------------------------------------------
(* The manager takes a message and has a handler to work off.              *)

AtSelect == todo = <<>>

Handle(s, ops) ==
    /\ mgr' = s
    /\ todo' = ops
    /\ UNCHANGED <<fsm_pending, output, calls, volumes>>

IsDisconnected == mgr.manager_status = "Disconnected"

CommandOps(message) ==
    CASE message = "Connect" /\ IsDisconnected -> <<Out, Fsm(ConnectInput(CHOOSE u \in Url : TRUE))>>
      [] message = "Connect" /\ ~IsDisconnected -> <<Out>>
      [] message = "Disconnect" -> <<Fsm(InputOf("Disconnect"))>>
      [] message = "SendTvCommand" -> <<Fsm(InputOf("SendCommand"))>>
      [] message = "EmitAllState" -> Outs(1 + Details)
      [] message = "ShutDown" -> <<Stopped, ShutDownWs, Stop>>

FromCaller ==
    /\ AtSelect /\ command_rx # <<>>
    /\ command_rx' = Tail(command_rx)
    /\ LET message == Head(command_rx)
       IN  /\ Handle([mgr EXCEPT !.is_manual_disconnect_requested = @ \/ message = "Disconnect"],
                     CommandOps(message))
           /\ fsm_cancelled' = (fsm_cancelled \/ message = "ShutDown")
    /\ UNCHANGED <<fsm_state, to_fsm, from_fsm, fsm_alive, ws>>

PrepareOps == IF mgr.is_manual_disconnect_requested THEN <<>> ELSE <<Out>>

OutputOps(output_tag) ==
    CASE output_tag \in {"ConnectToTv", "PairWithTv"} -> <<>>
      [] output_tag = "SendRegisterPayload" -> <<Out, Ws("Register")>>
      [] output_tag = "InitializeConnection" -> [k \in 1 .. Requests |-> Ws("Initialize")]
      [] output_tag = "SendCommand" -> <<Ws("Command")>>
      [] output_tag = "DisconnectFromTv" -> Append(PrepareOps, ShutDownWs)
      [] output_tag \in {"HandleSuccessfulDisconnect", "HandleDisconnectError"} ->
             <<Join>> \o StateOuts
      [] output_tag = "HandleConnectError" -> ResetOps

\* A new status is announced; Communicating with the TV last seen as well.
StatusOps(status) ==
    CASE status = mgr.manager_status -> <<>>
      [] status # mgr.manager_status /\ status = "Communicating" -> <<Out, Out>>
      [] OTHER -> <<Out>>

NewState ==
    /\ Head(from_fsm).kind = "State"
    /\ Handle([mgr EXCEPT !.manager_status = Head(from_fsm).tag], StatusOps(Head(from_fsm).tag))
    /\ UNCHANGED ws

NewOutput ==
    LET tag == Head(from_fsm).tag
    IN  /\ Head(from_fsm).kind = "Output"
        /\ Handle([mgr EXCEPT
                     !.ws_join_handle = @ \/ tag = "ConnectToTv",
                     !.is_manual_disconnect_requested =
                         @ /\ tag \notin {"HandleSuccessfulDisconnect", "HandleDisconnectError"}],
                  OutputOps(tag))
        /\ ws' = IF tag = "ConnectToTv" THEN [NoTask EXCEPT !.phase = "connecting"] ELSE ws

TransitionError ==
    /\ Head(from_fsm).kind = "TransitionError"
    /\ Handle(mgr, <<Out>>)
    /\ UNCHANGED ws

FromStateMachine ==
    /\ AtSelect /\ from_fsm # <<>>
    /\ from_fsm' = Tail(from_fsm)
    /\ NewState \/ NewOutput \/ TransitionError
    /\ UNCHANGED <<fsm_state, to_fsm, fsm_alive, fsm_cancelled, command_rx>>

UpdateOps(update) ==
    CASE update = "Connected" -> <<Fsm(InputOf("AttemptRegister"))>>
      [] update = "Disconnected" -> <<Fsm(InputOf("DisconnectionComplete"))>>
      [] update \in {"ConnectError", "ServerClosedConnection"} ->
             PrepareOps \o <<Fsm(InputOf("Error")), Out>>
      [] update = "Pair" -> <<Fsm(InputOf("Pair"))>>
      [] update = "Registered" -> <<Fsm(InputOf("Initialize"))>>
      [] update = "Volume" -> IF mgr.is_connection_initialized
                              THEN <<Out>>
                              ELSE <<Fsm(InputOf("StartCommunication")), Out>>

FromWebSocket ==
    /\ AtSelect /\ ws.from_ws # <<>>
    /\ LET update == Head(ws.from_ws)
       IN  Handle([mgr EXCEPT !.is_connection_initialized = @ \/ update = "Volume"],
                  UpdateOps(update))
    /\ ws' = [ws EXCEPT !.from_ws = Tail(@)]
    /\ UNCHANGED <<fsm_vars, command_rx>>

Select == FromCaller \/ FromStateMachine \/ FromWebSocket

-----------------------------------------------------------------------------
(* The manager works its handler off, one awaited operation at a time.     *)

IsNext(op) == todo # <<>> /\ Head(todo).op = op

Continue(ops) ==
    /\ todo' = ops \o Tail(todo)
    /\ UNCHANGED <<fsm_state, from_fsm, fsm_alive, fsm_cancelled, fsm_pending, command_rx,
                   calls, volumes>>

\* Mutant of SendOut: an output is not awaited.
SendOutUnawaited ==
    /\ IsNext("out")
    /\ output' = output + 1
    /\ Continue(<<>>)
    /\ UNCHANGED <<to_fsm, mgr, ws>>

SendOut ==
    /\ IsNext("out") /\ output < OutputBuffer
    /\ output' = output + 1
    /\ Continue(<<>>)
    /\ UNCHANGED <<to_fsm, mgr, ws>>

\* A machine that is gone makes the manager a zombie, which it puts out twice.
SendToFsm ==
    /\ IsNext("fsm")
    /\ IF fsm_alive
       THEN /\ Room(to_fsm)
            /\ to_fsm' = Append(to_fsm, Head(todo).arg)
            /\ Continue(<<>>)
            /\ UNCHANGED mgr
       ELSE /\ mgr' = [mgr EXCEPT !.manager_status = "Zombie"]
            /\ Continue(<<Out, Out>>)
            /\ UNCHANGED to_fsm
    /\ UNCHANGED <<output, ws>>

SendToOpenWs(message) ==
    /\ IsOpen /\ HasRoom(ws.to_ws)
    /\ ws' = [ws EXCEPT !.to_ws = Append(@, message)]
    /\ Continue(<<>>)

\* A task that is gone forces a reset, then and there.
SendToWs ==
    /\ IsNext("ws")
    /\ \/ SendToOpenWs(Head(todo).arg)
       \/ ~IsOpen /\ Continue(IF ws.phase = "none" THEN <<>> ELSE ResetOps) /\ UNCHANGED ws
    /\ UNCHANGED <<output, to_fsm, mgr>>

TellWsToShutDown ==
    /\ IsNext("tell")
    /\ SendToOpenWs("ShutDown") \/ (~IsOpen /\ Continue(<<>>) /\ UNCHANGED ws)
    /\ UNCHANGED <<output, to_fsm, mgr>>

\* Mutant of DisconnectFromTv: the task is joined before it is told.
JoinFirst ==
    /\ IsNext("shut_down")
    /\ Continue(IF mgr.ws_join_handle THEN <<Join, Ws("ShutDown")>> ELSE <<>>)
    /\ UNCHANGED <<output, to_fsm, mgr, ws>>

DisconnectFromTv ==
    /\ IsNext("shut_down")
    /\ Continue(IF mgr.ws_join_handle THEN <<Ws("ShutDown")>> ELSE <<>>)
    /\ UNCHANGED <<output, to_fsm, mgr, ws>>

JoinWs ==
    /\ IsNext("join")
    /\ mgr.ws_join_handle => ws.phase = "ended"
    /\ mgr' = [mgr EXCEPT !.ws_join_handle = FALSE, !.is_connection_initialized = FALSE]
    /\ Continue(<<>>)
    /\ UNCHANGED <<output, to_fsm, ws>>

AwaitMachine ==
    /\ IsNext("stopped") /\ ~fsm_alive
    /\ Continue(<<>>)
    /\ UNCHANGED <<output, to_fsm, mgr, ws>>

WorkOff ==
    \/ SendOut \/ SendToFsm \/ SendToWs \/ TellWsToShutDown \/ DisconnectFromTv
    \/ JoinWs \/ AwaitMachine

-----------------------------------------------------------------------------
(* The WebSocket task and the TV.                                          *)

Becomes(task) ==
    /\ ws' = task
    /\ UNCHANGED <<fsm_vars, fsm_pending, command_rx, output, todo, mgr, calls>>

WsReports ==
    /\ ws.report # <<>> /\ HasRoom(ws.from_ws)
    /\ Becomes([ws EXCEPT !.from_ws = Append(@, Head(ws.report)), !.report = Tail(@)])
    /\ UNCHANGED volumes

WsWrites ==
    /\ ws.phase = "running" /\ IsFree /\ ws.to_ws # <<>>
    /\ Becomes([ws EXCEPT !.writing = Head(ws.to_ws), !.to_ws = Tail(@)])
    /\ UNCHANGED volumes

WsEnds ==
    /\ ws.phase = "closing" /\ IsFree
    /\ Becomes([ws EXCEPT !.phase = "ended", !.to_ws = <<>>])
    /\ UNCHANGED volumes

WsConnects ==
    /\ ws.phase = "connecting"
    /\ \/ Becomes([ws EXCEPT !.phase = "running", !.report = <<"Connected">>])
       \/ /\ "ConnectError" \in Faults
          /\ Becomes([ws EXCEPT !.phase = "closing", !.report = <<"ConnectError">>])
    /\ UNCHANGED volumes

\* The TV reads what is written to it; a close message ends the task.
TvReads ==
    /\ ws.writing # None
    /\ Becomes(CASE ws.writing = "ShutDown" ->
                        [ws EXCEPT !.writing = None, !.phase = "closing",
                                   !.report = <<"Disconnected">>]
                 [] ws.writing = "Register" ->
                        [ws EXCEPT !.writing = None, !.session = "registering"]
                 [] ws.writing = "Initialize" ->
                        [ws EXCEPT !.writing = None, !.session = "subscribed"]
                 [] OTHER -> [ws EXCEPT !.writing = None])
    /\ UNCHANGED volumes

TvRegisters ==
    /\ ws.phase = "running" /\ IsFree /\ ws.session \in {"registering", "prompting"}
    /\ \E answer \in {"Registered"} \cup (IF ws.session = "registering" THEN {"Pair"} ELSE {}) :
           Becomes([ws EXCEPT !.report = <<answer>>,
                              !.session = IF answer = "Pair" THEN "prompting" ELSE "registered"])
    /\ UNCHANGED volumes

TvSendsVolume ==
    /\ ws.phase = "running" /\ IsFree /\ ws.session = "subscribed"
    /\ VolumesInBurst < MaxVolumes /\ volumes' = VolumesInBurst + 1
    /\ calls' = CallsInBurst
    /\ ws' = [ws EXCEPT !.report = <<"Volume">>]
    /\ UNCHANGED <<fsm_vars, fsm_pending, command_rx, output, todo, mgr>>

TvCloses ==
    /\ "ServerClosed" \in Faults
    /\ ws.phase = "running" /\ IsFree
    /\ Becomes([ws EXCEPT !.phase = "closing",
                          !.report = <<"ServerClosedConnection", "Disconnected">>])
    /\ UNCHANGED volumes

WsTask == WsReports \/ WsWrites \/ WsEnds \/ WsConnects

Tv == TvReads \/ TvRegisters \/ TvSendsVolume \/ TvCloses

-----------------------------------------------------------------------------

Next == Call \/ CallerReads \/ Machine \/ Select \/ WorkOff \/ WsTask \/ Tv

Spec == Init /\ [][Next]_bp_vars

(* Every task that can go on does.  The caller keeps reading its outputs and *)
(* the TV what is written to it; neither is made to send anything.           *)
TaskFairness ==
    /\ WF_bp_vars(Machine) /\ WF_bp_vars(Select) /\ WF_bp_vars(WorkOff) /\ WF_bp_vars(WsTask)
    /\ WF_bp_vars(CallerReads) /\ WF_bp_vars(TvReads)

FairSpec == Spec /\ TaskFairness

-----------------------------------------------------------------------------

\* run() only ends for a caller that may ask for it.
Operation ==
    [op : {"out", "tell", "shut_down", "join"}, arg : {None}]
        \cup [op : {"fsm"}, arg : Input] \cup [op : {"ws"}, arg : WsMessage]
        \cup (IF "ShutDown" \in CallerMessage THEN {Stopped, Stop} ELSE {})

AtMost(channel, capacity) == Len(channel) <= capacity

\* Every channel holds what it is for, and no more than it has room for.
TypeOK ==
    /\ FsmTypeOK /\ AtMost(to_fsm, Backlog) /\ AtMost(from_fsm, Backlog)
    /\ fsm_pending \in Seq(Update)
    /\ command_rx \in Seq(CallerMessage) /\ AtMost(command_rx, Buffer)
    /\ output \in 0 .. OutputBuffer
    /\ todo \in Seq(Operation)
    /\ mgr \in [ manager_status : StateTag \cup {"Zombie"},
                  is_connection_initialized : BOOLEAN,
                  is_manual_disconnect_requested : BOOLEAN,
                  ws_join_handle : BOOLEAN ]
    /\ ws \in [ phase : {"none", "connecting", "running", "closing", "ended"},
                 session : {"idle", "registering", "prompting", "registered", "subscribed"},
                 to_ws : Seq(WsMessage), from_ws : Seq(WsUpdate), report : Seq(WsUpdate),
                 writing : WsMessage \cup {None} ]
    /\ AtMost(ws.to_ws, Buffer) /\ AtMost(ws.from_ws, Buffer)
    /\ calls \in 0 .. MaxCalls /\ volumes \in 0 .. MaxVolumes

\* The manager waits for the machine: for room in its channel, or for its end.
ManagerAwaitsMachine ==
    fsm_alive /\ (IsNext("stopped") \/ (IsNext("fsm") /\ ~Room(to_fsm)))

\* The machine waits for the manager, and sees no cancelled token meanwhile.
MachineAwaitsManager == fsm_pending # <<>> /\ ~Room(from_fsm)

ManagerAwaitsWs ==
    \/ IsNext("join") /\ mgr.ws_join_handle /\ ws.phase # "ended"
    \/ (IsNext("ws") \/ IsNext("tell")) /\ IsOpen /\ ~HasRoom(ws.to_ws)

WsAwaitsManager == ws.report # <<>> /\ ~HasRoom(ws.from_ws)

\* No two tasks wait for each other.  They would for ever: a manager that
\* awaits a send, a join handle or the end of the machine reads no channel.
NoCircularWait ==
    /\ ~(ManagerAwaitsMachine /\ MachineAwaitsManager)
    /\ ~(ManagerAwaitsWs /\ WsAwaitsManager)

\* Whatever fills up, every handler comes back to the select!, or to the end.
HandlersFinish == todo # <<>> ~> todo = <<>> \/ IsNext("stop")

\* A ShutDown that has been taken ends run(), and lets the machine stop first.
ShutDownCompletes == fsm_cancelled ~> IsNext("stop")
=============================================================================
