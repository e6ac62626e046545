------------------------ MODULE WebSocketTasks_proofs ------------------------
(***************************************************************************)
(* How the manager treats its WebSocket tasks.  No reset or disconnect     *)
(* forgets one: NoForgottenTask is inductive once the variables have their *)
(* types, because a task that has ended stays ended while the manager      *)
(* holds its channels, and every handler that drops the join handle has    *)
(* awaited it.  It does not ask one of its tasks to register twice, and it *)
(* never waits for one that nobody has told to end, which the order of the *)
(* outputs in the queue of updates sees to.                                *)
(***************************************************************************)
EXTENDS LgTvManager_proofs, FiniteSetTheorems

\* The manager holds the same channels, and a task that has ended stays ended.
CurrentStaysEnded ==
    /\ cur_ws' = cur_ws
    /\ cur_ws # None /\ ws[cur_ws].phase = "ended" => ws'[cur_ws].phase = "ended"

LEMMA UnchangedStaysEnded == UNCHANGED ws_vars => CurrentStaysEnded
    BY DEF ws_vars, CurrentStaysEnded

\* A message to the task does not bring it back.
LEMMA TellStaysEnded ==
    ASSUME WsTypeOK, cur_ws # None, NEW message, Tell(message)
    PROVE  CurrentStaysEnded
    BY DEF WsTypeOK, SocketState, Tell, CurrentStaysEnded

LEMMA ForceResetStaysEnded ==
    ASSUME WsTypeOK, NEW s, NEW resume, ForceManagerReset(s, resume)
    PROVE  CurrentStaysEnded
    BY TellStaysEnded, UnchangedStaysEnded DEF ForceManagerReset, IsWsOpen

LEMMA SendToWsStaysEnded ==
    ASSUME WsTypeOK, NEW s, NEW message, NEW resume, SendToWs(s, message, resume)
    PROVE  CurrentStaysEnded
    BY TellStaysEnded, UnchangedStaysEnded, ForceResetStaysEnded DEF SendToWs, IsWsOpen

\* A WebSocket task that has ended takes no more steps.
LEMMA WsStepStaysEnded ==
    ASSUME WsTypeOK, NEW i \in Socket, WsTaskStep(i) \/ WsNetworkStep(i)
    PROVE  CurrentStaysEnded
<1>1. PICK socket : Becomes(i, socket)
    BY DEF WsTaskStep, WsNetworkStep, WsSendPayload, WsTestConnection, WsShutDown,
           WsChannelClosed, WsReportDisconnected, WsEnd, WsConnected, WsConnectError,
           WsSendFailed, WsText, WsPong, WsPingTimeout, WsServerClosed, WsReadError
<1>2. ws[i].phase # "ended"
    BY DEF WsTaskStep, WsNetworkStep, WsSendPayload, WsTestConnection, WsShutDown,
           WsChannelClosed, WsReportDisconnected, WsEnd, WsConnected, WsConnectError,
           WsSendFailed, WsText, WsPong, WsPingTimeout, WsServerClosed, WsReadError, Running
<1> QED
    BY <1>1, <1>2 DEF Becomes, WsTypeOK, CurrentStaysEnded

\* A step that keeps the join handle keeps the invariant.
LEMMA KeepsHandle ==
    ASSUME NoForgottenTask, CurrentStaysEnded, UNCHANGED ws_join_handle
    PROVE  NoForgottenTask'
    BY DEF NoForgottenTask, CurrentStaysEnded

\* A step that drops the join handle has awaited it.
LEMMA DropsHandle ==
    ASSUME NoForgottenTask, Joined, CurrentStaysEnded, ws_join_handle' = None
    PROVE  NoForgottenTask'
    BY DEF NoForgottenTask, CurrentStaysEnded, Joined

LEMMA NextKeepsTasks ==
    ASSUME TypeInv, NoForgottenTask, [Next]_vars
    PROVE  NoForgottenTask'
<1>1. WsTypeOK
    BY DEF TypeInv
<1>2. CASE FromCaller
    <2>1. CurrentStaysEnded
        BY <1>1, <1>2, UnchangedStaysEnded, ForceResetStaysEnded, SendToWsStaysEnded
           DEF FromCaller, CancelReconnect, Connect, ConnectLastGoodConnection, Disconnect,
               SendTvCommand, TestConnection, ShutDown
    <2>2. UNCHANGED ws_join_handle
        BY <1>2 DEF FromCaller, CancelReconnect, Connect, ConnectLastGoodConnection, Disconnect,
               SendTvCommand, TestConnection, ShutDown, Called
    <2> QED
        BY <2>1, <2>2, KeepsHandle
<1>3. CASE ConnectToTv
    <2>1. PICK i \in Socket : StartSocket(i, Head(from_fsm).url) /\ ws_join_handle' = i
        BY <1>3 DEF ConnectToTv
    <2>2. cur_ws' = i /\ i # None
        BY <2>1, SocketAssumption DEF StartSocket
    <2> QED
        BY <2>1, <2>2 DEF NoForgottenTask
<1>4. CASE FromStateMachine /\ ~ConnectToTv
    <2>1. CurrentStaysEnded
        BY <1>1, <1>4, UnchangedStaysEnded, ForceResetStaysEnded, SendToWsStaysEnded
           DEF FromStateMachine, NewState, SendRegisterPayload, PairWithTv,
               InitializeConnection, SendCommand, DisconnectFromTv, InitiateDisconnectFromTv,
               HandleSuccessfulDisconnect, HandleDisconnectError, HandleDisconnected,
               HandleConnectError, TransitionError
    <2>2. UNCHANGED ws_join_handle
        BY <1>4
           DEF FromStateMachine, NewState, SendRegisterPayload, PairWithTv,
               InitializeConnection, SendCommand, DisconnectFromTv,
               HandleSuccessfulDisconnect, HandleDisconnectError, HandleDisconnected,
               HandleConnectError, TransitionError
    <2> QED
        BY <2>1, <2>2, KeepsHandle
<1>5. CASE FromWebSocket
    <2>1. PICK updates : Reported(updates)
        BY <1>5 DEF FromWebSocket, WebSocketConnected, WebSocketDisconnected, ConnectionLost,
               ConnectionTested, GetVolume, PairRequested, PairingFailed, Registered
    <2>2. CurrentStaysEnded /\ UNCHANGED ws_join_handle
        BY <1>1, <2>1 DEF Reported, WsTypeOK, SocketState, CurrentStaysEnded
    <2> QED
        BY <2>2, KeepsHandle
<1>6. CASE TvNetworkChecked
    BY <1>6, UnchangedStaysEnded, KeepsHandle DEF TvNetworkChecked
<1>7. CASE Continue
    <2>1. ASSUME NEW resume, NEW r, FinishedReset(resume, r)
          PROVE  NoForgottenTask'
        BY <2>1, UnchangedStaysEnded, DropsHandle DEF FinishedReset, Resumed
    <2>2. CASE FinishReset \/ FinishConnectError \/ FinishInitialize \/ FinishShutDown
        BY <2>1, <2>2 DEF FinishReset, FinishConnectError, FinishInitialize, FinishShutDown
    <2>3. CASE FinishDisconnect
        BY <2>3, UnchangedStaysEnded, DropsHandle DEF FinishDisconnect, Resumed
    <2>4. CASE ResetInsteadOfReconnect
        BY <1>1, <2>4, ForceResetStaysEnded, KeepsHandle DEF ResetInsteadOfReconnect
    <2>5. CASE RetryIntervalTick
        BY <2>5, UnchangedStaysEnded, KeepsHandle DEF RetryIntervalTick, Resumed
    <2>6. CASE TasksStopped
        <3>1. CurrentStaysEnded
            <4>1. ws_join_handle # None => cur_ws # None
                BY DEF NoForgottenTask
            <4> QED
                BY <1>1, <2>6, <4>1, UnchangedStaysEnded, ForceResetStaysEnded, TellStaysEnded
                   DEF TasksStopped
        <3> QED
            BY <2>6, <3>1, KeepsHandle DEF TasksStopped
    <2> QED
        BY <1>7, <2>2, <2>3, <2>4, <2>5, <2>6 DEF Continue
<1>8. CASE \E i \in Socket : WsTask(i) \/ WsNetwork(i)
    BY <1>1, <1>8, WsStepStaysEnded, KeepsHandle DEF WsTask, WsNetwork, mgr_vars
<1>9. CASE FsmStep \/ NetStep \/ UNCHANGED vars
    BY <1>9, UnchangedStaysEnded, KeepsHandle DEF FsmStep, NetStep, vars, mgr_vars
<1> QED
    BY <1>2, <1>3, <1>4, <1>5, <1>6, <1>7, <1>8, <1>9 DEF Next, ManagerStep

\* Whatever the caller, the TVs and the network do, no reset and no disconnect drops
\* the handle of the current task, the one the manager holds the channels of, before
\* that task has ended.  A ConnectToTv may replace a task that runs: its handle is
\* dropped with the channels, and of that task nothing is said here.
THEOREM TasksAreJoined == Spec => []NoForgottenTask
<1>1. Init => NoForgottenTask
    BY DEF Init, WsInit, ManagerInit, NoForgottenTask
<1>2. TypeInv /\ NoForgottenTask /\ [Next]_vars => NoForgottenTask'
    BY NextKeepsTasks
<1> QED
    BY <1>1, <1>2, InitType, NextType, PTL DEF Spec

-----------------------------------------------------------------------------
(* The order of the outputs in a queue of updates.                         *)

IsOutput(update, tag) == update.kind = "Output" /\ update.tag = tag

\* Of the updates before the k-th, none is a bad one.
Lacks(bad, queue, k) == \A m \in 1 .. k - 1 : ~IsOutput(queue[m], bad)

\* One of the updates before the k-th is a good one, and none after it is bad.
Precedes(good, bad, queue, k) ==
    \E j \in 1 .. k - 1 :
        IsOutput(queue[j], good) /\ \A m \in j + 1 .. k - 1 : ~IsOutput(queue[m], bad)

\* Reading an update.
LEMMA ReadBefore ==
    ASSUME NEW good, NEW bad,
           NEW queue \in Seq(Update), queue # <<>>, NEW k \in 2 .. Len(queue) + 1
    PROVE  /\ Lacks(bad, queue, k) => Lacks(bad, Tail(queue), k - 1) /\ ~IsOutput(Head(queue), bad)
           /\ Precedes(good, bad, queue, k) =>
                  \/ Precedes(good, bad, Tail(queue), k - 1)
                  \/ IsOutput(Head(queue), good) /\ Lacks(bad, Tail(queue), k - 1)
<1>1. /\ Len(queue) \in Nat \ {0} /\ Len(Tail(queue)) = Len(queue) - 1
      /\ Head(queue) = queue[1]
      /\ \A n \in 1 .. Len(queue) - 1 : Tail(queue)[n] = queue[n + 1]
    OBVIOUS
<1> DEFINE rest == Tail(queue)
<1> HIDE DEF rest
<1>2. ASSUME NEW j \in 1 .. k - 1, \A m \in j + 1 .. k - 1 : ~IsOutput(queue[m], bad),
             NEW n \in j .. k - 2
      PROVE  n \in Nat \ {0} /\ n + 1 \in j + 1 .. k - 1 /\ ~IsOutput(rest[n], bad)
    <2>1. n \in 1 .. Len(queue) - 1 /\ n + 1 \in j + 1 .. k - 1
        BY <1>1
    <2> QED
        BY <1>1, <1>2, <2>1 DEF rest
<1>3. ASSUME Lacks(bad, queue, k)
      PROVE  Lacks(bad, rest, k - 1) /\ ~IsOutput(Head(queue), bad)
    <2>1. 1 \in 1 .. k - 1 /\ \A m \in 1 + 1 .. k - 1 : m \in 1 .. k - 1
        OBVIOUS
    <2>2. \A m \in 1 .. k - 1 : ~IsOutput(queue[m], bad)
        BY <1>3 DEF Lacks
    <2>3. \A n \in 1 .. k - 2 : ~IsOutput(rest[n], bad)
        BY <1>2, <2>1, <2>2
    <2>4. \A n \in 1 .. (k - 1) - 1 : n \in 1 .. k - 2
        OBVIOUS
    <2> QED
        BY <1>1, <2>1, <2>2, <2>3, <2>4 DEF Lacks
<1>4. ASSUME Precedes(good, bad, queue, k)
      PROVE  \/ Precedes(good, bad, rest, k - 1)
             \/ IsOutput(Head(queue), good) /\ Lacks(bad, rest, k - 1)
    <2>1. PICK j \in 1 .. k - 1 :
              IsOutput(queue[j], good) /\ \A m \in j + 1 .. k - 1 : ~IsOutput(queue[m], bad)
        BY <1>4 DEF Precedes
    <2>2. \A n \in j .. k - 2 : ~IsOutput(rest[n], bad)
        BY <1>2, <2>1
    <2>3. CASE j = 1
        <3>1. \A n \in 1 .. (k - 1) - 1 : n \in j .. k - 2
            BY <2>3
        <3> QED
            BY <1>1, <2>1, <2>2, <2>3, <3>1 DEF Lacks
    <2>4. CASE j # 1
        <3>1. j - 1 \in 1 .. (k - 1) - 1 /\ j - 1 \in 1 .. Len(queue) - 1 /\ (j - 1) + 1 = j
            BY <1>1, <2>4
        <3>2. IsOutput(rest[j - 1], good)
            BY <1>1, <2>1, <3>1 DEF rest
        <3>3. \A n \in (j - 1) + 1 .. (k - 1) - 1 : n \in j .. k - 2
            OBVIOUS
        <3> QED
            BY <2>2, <3>1, <3>2, <3>3 DEF Precedes
    <2> QED
        BY <2>3, <2>4
<1> QED
    BY <1>3, <1>4 DEF rest

\* Reporting an update changes nothing for those before it.
LEMMA ReportBefore ==
    ASSUME NEW good, NEW bad,
           NEW queue \in Seq(Update), NEW update \in Update, NEW k \in 1 .. Len(queue) + 1
    PROVE  /\ Lacks(bad, queue, k) => Lacks(bad, Append(queue, update), k)
           /\ Precedes(good, bad, queue, k) => Precedes(good, bad, Append(queue, update), k)
<1>1. Len(queue) \in Nat /\ \A n \in 1 .. Len(queue) : Append(queue, update)[n] = queue[n]
    OBVIOUS
<1>2. \A n \in 1 .. k - 1 : n \in 1 .. Len(queue)
    BY <1>1
<1>3. \A j \in 1 .. k - 1 : \A n \in j + 1 .. k - 1 : n \in 1 .. k - 1
    OBVIOUS
<1> QED
    BY <1>1, <1>2, <1>3 DEF Lacks, Precedes

\* For the next one it may be the good one, or nothing to it.
LEMMA ReportNext ==
    ASSUME NEW good, NEW bad,
           NEW queue \in Seq(Update), NEW update \in Update
    PROVE  /\ Lacks(bad, queue, Len(queue) + 1) /\ ~IsOutput(update, bad)
                  => Lacks(bad, Append(queue, update), Len(queue) + 2)
           /\ Precedes(good, bad, queue, Len(queue) + 1) /\ ~IsOutput(update, bad)
                  => Precedes(good, bad, Append(queue, update), Len(queue) + 2)
           /\ IsOutput(update, good)
                  => Precedes(good, bad, Append(queue, update), Len(queue) + 2)
<1> DEFINE longer == Append(queue, update)
           n == Len(queue)
<1>1. /\ n \in Nat /\ longer[n + 1] = update
      /\ \A m \in 1 .. n : longer[m] = queue[m]
    OBVIOUS
<1> HIDE DEF longer, n
<1>2. \A m \in 1 .. (n + 2) - 1 : m \in 1 .. (n + 1) - 1 \/ m = n + 1
    BY <1>1
<1>3. \A m \in 1 .. (n + 1) - 1 : m \in 1 .. n /\ m \in 1 .. (n + 2) - 1
    BY <1>1
<1>4. Lacks(bad, queue, n + 1) /\ ~IsOutput(update, bad) => Lacks(bad, longer, n + 2)
    BY <1>1, <1>2, <1>3 DEF Lacks
<1>5. ASSUME Precedes(good, bad, queue, n + 1), ~IsOutput(update, bad)
      PROVE  Precedes(good, bad, longer, n + 2)
    <2>1. PICK j \in 1 .. (n + 1) - 1 :
              IsOutput(queue[j], good) /\ \A m \in j + 1 .. (n + 1) - 1 : ~IsOutput(queue[m], bad)
        BY <1>5 DEF Precedes
    <2>2. \A m \in j + 1 .. (n + 2) - 1 :
              m = n + 1 \/ (m \in j + 1 .. (n + 1) - 1 /\ m \in 1 .. n)
        BY <1>1
    <2>3. \A m \in j + 1 .. (n + 2) - 1 : ~IsOutput(longer[m], bad)
        BY <1>1, <1>5, <2>1, <2>2
    <2>4. j \in 1 .. (n + 2) - 1 /\ IsOutput(longer[j], good)
        BY <1>1, <1>3, <2>1
    <2> QED
        BY <2>3, <2>4 DEF Precedes
<1>6. ASSUME IsOutput(update, good)
      PROVE  Precedes(good, bad, longer, n + 2)
    <2>1. n + 1 \in 1 .. (n + 2) - 1 /\ (n + 1) + 1 .. (n + 2) - 1 = {}
        BY <1>1
    <2> QED
        BY <1>1, <1>6, <2>1 DEF Precedes
<1> QED
    BY <1>4, <1>5, <1>6 DEF longer, n


-----------------------------------------------------------------------------
(* Asking to register.                                                     *)

NoRegister(to_ws) == \A k \in 1 .. Len(to_ws) : to_ws[k] # "Register"

OneRegister(to_ws) ==
    \A k, l \in 1 .. Len(to_ws) : to_ws[k] = "Register" /\ to_ws[l] = "Register" => k = l

IsUnasked(socket) == NoRegister(socket.to_ws) /\ socket.tv = "idle"

IsAskedOnce(socket) ==
    OneRegister(socket.to_ws) /\ (socket.tv # "idle" => NoRegister(socket.to_ws))

\* What the manager would tell its task to send is the first request.
Unasked == cur_ws # None => IsUnasked(ws[cur_ws])

StaysUnasked == Unasked => Unasked'

AskedOnce == \A i \in Socket : IsAskedOnce(ws[i])

\* Reading a message leaves the other ones, and no Register behind a Register.
LEMMA ReadRegister ==
    ASSUME NEW to_ws \in Seq(WsMessage), to_ws # <<>>
    PROVE  /\ NoRegister(to_ws) => NoRegister(Tail(to_ws)) /\ Head(to_ws) # "Register"
           /\ OneRegister(to_ws) => OneRegister(Tail(to_ws))
           /\ OneRegister(to_ws) /\ Head(to_ws) = "Register" => NoRegister(Tail(to_ws))
<1> DEFINE rest == Tail(to_ws)
<1>1. /\ Len(to_ws) \in Nat \ {0} /\ Len(rest) = Len(to_ws) - 1 /\ Head(to_ws) = to_ws[1]
      /\ \A k \in 1 .. Len(to_ws) - 1 : rest[k] = to_ws[k + 1]
    OBVIOUS
<1> HIDE DEF rest
<1>2. /\ 1 \in 1 .. Len(to_ws)
      /\ \A k \in 1 .. Len(rest) : k + 1 \in 1 .. Len(to_ws) /\ k + 1 # 1 /\ rest[k] = to_ws[k + 1]
    BY <1>1
<1>3. \A k, l \in 1 .. Len(rest) : k + 1 = l + 1 => k = l
    BY <1>1
<1>4. NoRegister(to_ws) => NoRegister(rest) /\ to_ws[1] # "Register"
    BY <1>2 DEF NoRegister
<1>5. OneRegister(to_ws) => OneRegister(rest)
    BY <1>2, <1>3 DEF OneRegister
<1>6. OneRegister(to_ws) /\ to_ws[1] = "Register" => NoRegister(rest)
    BY <1>2 DEF OneRegister, NoRegister
<1> QED
    BY <1>1, <1>4, <1>5, <1>6 DEF rest

\* Telling another message changes nothing; the first Register is the only one.
LEMMA TellRegister ==
    ASSUME NEW to_ws \in Seq(WsMessage), NEW message \in WsMessage
    PROVE  /\ message # "Register" /\ NoRegister(to_ws) => NoRegister(Append(to_ws, message))
           /\ message # "Register" /\ OneRegister(to_ws) => OneRegister(Append(to_ws, message))
           /\ NoRegister(to_ws) => OneRegister(Append(to_ws, message))
<1> DEFINE longer == Append(to_ws, message)
<1>1. /\ Len(to_ws) \in Nat /\ Len(longer) = Len(to_ws) + 1 /\ longer[Len(to_ws) + 1] = message
      /\ \A k \in 1 .. Len(to_ws) : longer[k] = to_ws[k]
    OBVIOUS
<1> HIDE DEF longer
<1>2. \A k \in 1 .. Len(longer) :
          \/ k \in 1 .. Len(to_ws) /\ longer[k] = to_ws[k]
          \/ k = Len(to_ws) + 1 /\ longer[k] = message
    BY <1>1
<1> QED
    BY <1>2 DEF longer, NoRegister, OneRegister

LEMMA AskedOnceImplies == WsTypeOK /\ AskedOnce => RegistersOncePerSocket
<1> SUFFICES ASSUME WsTypeOK, AskedOnce, NEW i \in Socket
             PROVE  /\ Cardinality(Registers(i)) <= 1
                    /\ ws[i].tv # "idle" => Registers(i) = {}
    BY DEF RegistersOncePerSocket
<1>1. OneRegister(ws[i].to_ws) /\ (ws[i].tv # "idle" => NoRegister(ws[i].to_ws))
    BY DEF AskedOnce, IsAskedOnce
<1>2. \A k, l \in Registers(i) : k = l
    BY <1>1 DEF OneRegister, Registers
<1>3. Registers(i) = {} \/ \E k : Registers(i) = {k}
    BY <1>2
<1>4. Cardinality(Registers(i)) \in {0, 1}
    BY <1>3, FS_EmptySet, FS_Singleton
<1>5. ws[i].tv # "idle" => Registers(i) = {}
    BY <1>1 DEF NoRegister, Registers
<1> QED
    BY <1>4, <1>5

-----------------------------------------------------------------------------
(* What a step does to the requests.                                       *)

LEMMA UnchangedAsked ==
    ASSUME AskedOnce, UNCHANGED ws_vars
    PROVE  AskedOnce' /\ StaysUnasked
    BY DEF ws_vars, AskedOnce, StaysUnasked, Unasked

LEMMA TellAsked ==
    ASSUME WsTypeOK, AskedOnce, cur_ws # None, NEW message \in WsMessage, Tell(message),
           message = "Register" => Unasked
    PROVE  AskedOnce' /\ (message # "Register" => StaysUnasked)
<1> DEFINE to_ws == ws[cur_ws].to_ws
<1>1. cur_ws \in Socket /\ ws[cur_ws] \in SocketState /\ to_ws \in Seq(WsMessage)
    BY DEF WsTypeOK, SocketState
<1>2. /\ ws'[cur_ws].to_ws = Append(to_ws, message) /\ ws'[cur_ws].tv = ws[cur_ws].tv
      /\ cur_ws' = cur_ws
      /\ \A i \in Socket : i # cur_ws => ws'[i] = ws[i]
    BY <1>1 DEF Tell, WsTypeOK, SocketState
<1> HIDE DEF to_ws
<1>3. message # "Register" => StaysUnasked
    BY <1>1, <1>2, TellRegister DEF StaysUnasked, Unasked, IsUnasked, to_ws
<1>4. IsAskedOnce(ws[cur_ws]) /\ (message = "Register" => IsUnasked(ws[cur_ws]))
    BY <1>1 DEF AskedOnce, Unasked
<1>5. IsAskedOnce(ws'[cur_ws])
    BY <1>1, <1>2, <1>4, TellRegister DEF IsAskedOnce, IsUnasked, to_ws
<1>6. AskedOnce'
    BY <1>2, <1>5 DEF AskedOnce
<1> QED
    BY <1>3, <1>6

LEMMA ForceResetAsked ==
    ASSUME WsTypeOK, AskedOnce, NEW s, NEW resume, ForceManagerReset(s, resume)
    PROVE  AskedOnce' /\ StaysUnasked
<1>1. CASE IsWsOpen
    BY <1>1, TellAsked DEF ForceManagerReset, IsWsOpen, WsMessage
<1>2. CASE ~IsWsOpen
    BY <1>2, UnchangedAsked DEF ForceManagerReset
<1> QED
    BY <1>1, <1>2

LEMMA SendToWsAsked ==
    ASSUME WsTypeOK, AskedOnce, NEW s, NEW message \in WsMessage, NEW resume,
           SendToWs(s, message, resume), message = "Register" => Unasked
    PROVE  AskedOnce' /\ (message # "Register" => StaysUnasked)
<1>1. CASE (cur_ws = None \/ IsWsOpen) /\ IsWsOpen
    BY <1>1, TellAsked DEF SendToWs, IsWsOpen
<1>2. CASE (cur_ws = None \/ IsWsOpen) /\ ~IsWsOpen
    BY <1>2, UnchangedAsked DEF SendToWs
<1>3. CASE ~(cur_ws = None \/ IsWsOpen)
    BY <1>3, ForceResetAsked DEF SendToWs
<1> QED
    BY <1>1, <1>2, <1>3

\* A task sends what it is told, once; the TV only answers when asked.
LEMMA WsStepAsked ==
    ASSUME WsTypeOK, AskedOnce, NEW i \in Socket, WsTaskStep(i) \/ WsNetworkStep(i)
    PROVE  AskedOnce' /\ StaysUnasked
<1>1. ASSUME NEW socket, Becomes(i, socket), IsAskedOnce(socket),
             IsUnasked(ws[i]) => IsUnasked(socket)
      PROVE  AskedOnce' /\ StaysUnasked
    <2>1. /\ ws'[i] = socket /\ cur_ws' = cur_ws
          /\ \A other \in Socket : other # i => ws'[other] = ws[other]
        BY <1>1 DEF Becomes, WsTypeOK
    <2>2. cur_ws \in Socket \cup {None}
        BY DEF WsTypeOK
    <2> QED
        BY <1>1, <2>1, <2>2 DEF AskedOnce, StaysUnasked, Unasked
<1>2. /\ ws[i] \in SocketState /\ ws[i].to_ws \in Seq(WsMessage)
      /\ {"to_ws", "phase", "tv", "testing", "from_ws"} \subseteq DOMAIN ws[i]
    BY DEF WsTypeOK, SocketState
<1>3. IsAskedOnce(ws[i])
    BY DEF AskedOnce
<1>4. ASSUME NEW socket, socket.to_ws = ws[i].to_ws,
             socket.tv = ws[i].tv \/ ws[i].tv # "idle", Becomes(i, socket)
      PROVE  AskedOnce' /\ StaysUnasked
    BY <1>1, <1>3, <1>4 DEF IsAskedOnce, IsUnasked
<1>5. ASSUME NEW socket, ws[i].to_ws # <<>>, socket.to_ws = Tail(ws[i].to_ws),
             \/ socket.tv = ws[i].tv
             \/ ws[i].tv # "idle"
             \/ Next_ws(i) = "Register",
             Becomes(i, socket)
      PROVE  AskedOnce' /\ StaysUnasked
    BY <1>1, <1>2, <1>3, <1>5, ReadRegister DEF IsAskedOnce, IsUnasked, Next_ws
<1>6. \A update : /\ Reporting(i, update).to_ws = ws[i].to_ws
                  /\ Reporting(i, update).tv = ws[i].tv
                  /\ DOMAIN Reporting(i, update) = DOMAIN ws[i]
    BY <1>2 DEF Reporting, SocketState
<1>7. /\ Received(i).to_ws = Tail(ws[i].to_ws) /\ Received(i).tv = ws[i].tv
      /\ DOMAIN Received(i) = DOMAIN ws[i]
    BY <1>2 DEF Received, SocketState
<1>8. \A told, phase : "phase" \in DOMAIN told =>
          /\ [told EXCEPT !.phase = phase].to_ws = told.to_ws
          /\ [told EXCEPT !.phase = phase].tv = told.tv
    OBVIOUS
<1>9. CASE WsConnected(i)
    <2> DEFINE phase == IF i = cur_ws THEN "running" ELSE "exiting"
    <2>1. Becomes(i, [Reporting(i, "Connected") EXCEPT !.phase = phase])
        BY <1>9 DEF WsConnected
    <2> HIDE DEF phase
    <2> QED
        BY <1>2, <1>4, <1>6, <1>8, <2>1
<1>10. CASE WsConnectError(i) \/ WsServerClosed(i) \/ WsReadError(i) \/ WsReportDisconnected(i)
    BY <1>2, <1>4, <1>6, <1>8, <1>10
       DEF WsConnectError, WsServerClosed, WsReadError, WsReportDisconnected
<1>11. CASE WsText(i)
    <2>1. PICK answer \in TvAnswers(ws[i].tv) :
              Becomes(i, [Reporting(i, answer.payload) EXCEPT
                              !.tv = answer.session,
                              !.phase = IF i = cur_ws THEN @ ELSE "closing"])
        BY <1>11 DEF WsText
    <2> DEFINE report == Reporting(i, answer.payload)
               phase == IF i = cur_ws THEN report.phase ELSE "closing"
               socket == [report EXCEPT !.tv = answer.session, !.phase = phase]
    <2>2. Becomes(i, socket)
        BY <2>1
    <2>3. socket.to_ws = ws[i].to_ws
        BY <1>2, <1>6
    <2>4. ws[i].tv # "idle"
        BY <2>1 DEF TvAnswers
    <2> HIDE DEF socket
    <2> QED
        BY <1>4, <2>2, <2>3, <2>4
<1>12. CASE WsPong(i) \/ WsPingTimeout(i)
    <2>1. \/ Becomes(i, [Reporting(i, "ConnectionOk") EXCEPT !.testing = FALSE])
          \/ Becomes(i, Reporting(i, "ConnectionNotOk"))
        BY <1>12 DEF WsPong, WsPingTimeout
    <2>2. /\ [Reporting(i, "ConnectionOk") EXCEPT !.testing = FALSE].to_ws = ws[i].to_ws
          /\ [Reporting(i, "ConnectionOk") EXCEPT !.testing = FALSE].tv = ws[i].tv
        BY <1>2, <1>6
    <2> QED
        BY <1>4, <1>6, <2>1, <2>2
<1>13. CASE WsSendPayload(i)
    <2> DEFINE session == AfterPayload(Received(i).tv, Next_ws(i))
               socket == [Received(i) EXCEPT !.tv = session]
    <2>1. Becomes(i, socket) /\ ws[i].to_ws # <<>>
        BY <1>13 DEF WsSendPayload
    <2>2. socket.to_ws = Tail(ws[i].to_ws) /\ socket.tv = AfterPayload(ws[i].tv, Next_ws(i))
        BY <1>2, <1>7
    <2> HIDE DEF socket
    <2>3. socket.tv = ws[i].tv \/ ws[i].tv # "idle" \/ Next_ws(i) = "Register"
        BY <2>2 DEF AfterPayload
    <2> QED
        BY <1>5, <2>1, <2>2, <2>3
<1>14. CASE WsTestConnection(i)
    <2>1. /\ [Received(i) EXCEPT !.testing = TRUE].to_ws = Tail(ws[i].to_ws)
          /\ [Received(i) EXCEPT !.testing = TRUE].tv = ws[i].tv
        BY <1>2, <1>7
    <2> QED
        BY <1>5, <1>14, <2>1 DEF WsTestConnection
<1>15. CASE WsSendFailed(i) \/ WsShutDown(i)
    <2>1. Becomes(i, [Received(i) EXCEPT !.phase = "closing"]) /\ ws[i].to_ws # <<>>
        BY <1>15 DEF WsSendFailed, WsShutDown
    <2> QED
        BY <1>2, <1>5, <1>7, <1>8, <2>1
<1>16. CASE WsChannelClosed(i)
    BY <1>2, <1>4, <1>8, <1>16 DEF WsChannelClosed
<1>17. CASE WsEnd(i)
    <2>1. PICK socket \in {Ended(i), NoSocket} : Becomes(i, socket)
        BY <1>17 DEF WsEnd
    <2>2. socket.to_ws = <<>> /\ socket.tv = "idle"
        <3>1. /\ Ended(i).to_ws = <<>> /\ Ended(i).tv = "idle"
              /\ NoSocket.to_ws = <<>> /\ NoSocket.tv = "idle"
            BY DEF Ended, NoSocket
        <3> QED
            BY <2>1, <3>1
    <2>3. IsUnasked(socket) /\ IsAskedOnce(socket)
        BY <2>2 DEF IsUnasked, IsAskedOnce, NoRegister, OneRegister
    <2> QED
        BY <1>1, <2>1, <2>3
<1> QED
    BY <1>9, <1>10, <1>11, <1>12, <1>13, <1>14, <1>15, <1>16, <1>17 DEF WsTaskStep, WsNetworkStep

\* A task that has just been started has not been asked for anything.
LEMMA StartAsked ==
    ASSUME WsTypeOK, AskedOnce, NEW i \in Socket, NEW host, StartSocket(i, host)
    PROVE  AskedOnce' /\ Unasked'
<1>1. ws' = [ChannelsDropped EXCEPT ![i] = NewSocket(host)] /\ cur_ws' = i
    BY DEF StartSocket
<1>2. ws'[i] = NewSocket(host) /\ \A other \in Socket \ {i} : ws'[other] = ChannelsDropped[other]
    BY <1>1 DEF ChannelsDropped
<1>3. NewSocket(host).to_ws = <<>> /\ NewSocket(host).tv = "idle"
    BY DEF NewSocket, NoSocket
<1>4. IsUnasked(ws'[i]) /\ IsAskedOnce(ws'[i])
    BY <1>2, <1>3 DEF IsUnasked, IsAskedOnce, NoRegister, OneRegister
<1>5. ASSUME NEW other \in Socket, other # i
      PROVE  IsAskedOnce(ws'[other])
    <2>1. ws[other] \in SocketState /\ IsAskedOnce(ws[other])
        BY DEF WsTypeOK, AskedOnce
    <2>2. ws'[other] \in {NoSocket, [ws[other] EXCEPT !.from_ws = <<>>], ws[other]}
        BY <1>2, <1>5 DEF ChannelsDropped
    <2>3. /\ [ws[other] EXCEPT !.from_ws = <<>>].to_ws = ws[other].to_ws
          /\ [ws[other] EXCEPT !.from_ws = <<>>].tv = ws[other].tv
        BY <2>1 DEF SocketState
    <2>4. NoSocket.to_ws = <<>> /\ NoSocket.tv = "idle"
        BY DEF NoSocket
    <2>5. IsAskedOnce(NoSocket) /\ IsAskedOnce([ws[other] EXCEPT !.from_ws = <<>>])
        BY <2>1, <2>3, <2>4 DEF IsAskedOnce, NoRegister, OneRegister
    <2> QED
        BY <2>1, <2>2, <2>5
<1> QED
    BY <1>1, <1>4, <1>5 DEF AskedOnce, Unasked

-----------------------------------------------------------------------------
(* The inductive invariant: a SendRegisterPayload finds a task that has not *)
(* been asked, now or by the time it is read, and so does the one that a    *)
(* Connecting machine may still report.                                     *)

FindsUnasked(queue, k) ==
    \/ Precedes("ConnectToTv", "SendRegisterPayload", queue, k)
    \/ Unasked /\ Lacks("SendRegisterPayload", queue, k)

AllFindUnasked(queue) ==
    \A k \in 1 .. Len(queue) :
        IsOutput(queue[k], "SendRegisterPayload") => FindsUnasked(queue, k)

RegisterInv ==
    /\ AskedOnce
    /\ AllFindUnasked(from_fsm)
    /\ fsm_state.tag = "Connecting" => FindsUnasked(from_fsm, Len(from_fsm) + 1)

\* A step that neither reads nor reports updates.
LEMMA KeptUnasked ==
    ASSUME RegisterInv, AskedOnce', StaysUnasked, UNCHANGED <<from_fsm, fsm_state>>
    PROVE  RegisterInv'
    BY DEF RegisterInv, StaysUnasked, AllFindUnasked, FindsUnasked

\* A step that reads one.
LEMMA ReadUnasked ==
    ASSUME from_fsm \in Seq(Update), from_fsm # <<>>, RegisterInv, AskedOnce',
           ~IsOutput(Head(from_fsm), "SendRegisterPayload")
               => StaysUnasked \/ IsOutput(Head(from_fsm), "ConnectToTv"),
           IsOutput(Head(from_fsm), "ConnectToTv") => Unasked',
           from_fsm' = Tail(from_fsm), UNCHANGED fsm_state
    PROVE  RegisterInv'
<1> DEFINE rest == Tail(from_fsm)
           Finds(k) == \/ Precedes("ConnectToTv", "SendRegisterPayload", rest, k)
                       \/ Unasked' /\ Lacks("SendRegisterPayload", rest, k)
<1>1. /\ Len(from_fsm) \in Nat \ {0} /\ Len(rest) = Len(from_fsm) - 1
      /\ \A n \in 1 .. Len(from_fsm) - 1 : rest[n] = from_fsm[n + 1]
    OBVIOUS
<1>2. ASSUME NEW k \in 2 .. Len(from_fsm) + 1, FindsUnasked(from_fsm, k)
      PROVE  Finds(k - 1)
    <2>1. CASE Precedes("ConnectToTv", "SendRegisterPayload", from_fsm, k)
        <3>1. \/ Precedes("ConnectToTv", "SendRegisterPayload", rest, k - 1)
              \/ /\ IsOutput(Head(from_fsm), "ConnectToTv")
                 /\ Lacks("SendRegisterPayload", rest, k - 1)
            BY <2>1, ReadBefore
        <3> QED
            BY <3>1
    <2>2. CASE Unasked /\ Lacks("SendRegisterPayload", from_fsm, k)
        <3>1. /\ Lacks("SendRegisterPayload", rest, k - 1)
              /\ ~IsOutput(Head(from_fsm), "SendRegisterPayload")
            BY <2>2, ReadBefore
        <3> QED
            BY <2>2, <3>1 DEF StaysUnasked
    <2> QED
        BY <1>2, <2>1, <2>2 DEF FindsUnasked
<1> HIDE DEF rest, Finds
<1>3. ASSUME NEW n \in 1 .. Len(rest), IsOutput(rest[n], "SendRegisterPayload")
      PROVE  Finds(n)
    <2>1. n + 1 \in 2 .. Len(from_fsm) + 1 /\ n + 1 \in 1 .. Len(from_fsm) /\ (n + 1) - 1 = n
        BY <1>1
    <2>2. FindsUnasked(from_fsm, n + 1)
        BY <1>1, <1>3, <2>1 DEF RegisterInv, AllFindUnasked
    <2>3. Finds((n + 1) - 1)
        BY <1>2, <2>1, <2>2
    <2> QED
        BY <2>1, <2>3
<1>4. ASSUME fsm_state.tag = "Connecting"
      PROVE  Finds(Len(rest) + 1)
    <2>1. /\ Len(from_fsm) + 1 \in 2 .. Len(from_fsm) + 1
          /\ (Len(from_fsm) + 1) - 1 = Len(rest) + 1
        BY <1>1
    <2>2. Finds((Len(from_fsm) + 1) - 1)
        BY <1>2, <1>4, <2>1 DEF RegisterInv
    <2> QED
        BY <2>1, <2>2
<1>5. from_fsm' = rest
    BY DEF rest
<1> QED
    BY <1>3, <1>4, <1>5 DEF RegisterInv, AllFindUnasked, FindsUnasked, Finds

\* Updates that are reported one after the other.
LEMMA ReportUnasked ==
    ASSUME NEW queue \in Seq(Update), NEW update \in Update, AllFindUnasked(queue),
           IsOutput(update, "SendRegisterPayload") => FindsUnasked(queue, Len(queue) + 1)
    PROVE  /\ AllFindUnasked(Append(queue, update))
           /\ FindsUnasked(queue, Len(queue) + 1) /\ ~IsOutput(update, "SendRegisterPayload")
                  => FindsUnasked(Append(queue, update), Len(queue) + 2)
           /\ IsOutput(update, "ConnectToTv")
                  => FindsUnasked(Append(queue, update), Len(queue) + 2)
<1> DEFINE longer == Append(queue, update)
<1>1. /\ Len(queue) \in Nat /\ Len(longer) = Len(queue) + 1
      /\ longer[Len(queue) + 1] = update
      /\ \A m \in 1 .. Len(queue) : longer[m] = queue[m]
    OBVIOUS
<1>2. \A k \in 1 .. Len(queue) + 1 : FindsUnasked(queue, k) => FindsUnasked(longer, k)
    BY ReportBefore DEF FindsUnasked
<1>3. /\ FindsUnasked(queue, Len(queue) + 1) /\ ~IsOutput(update, "SendRegisterPayload")
             => FindsUnasked(longer, Len(queue) + 2)
      /\ IsOutput(update, "ConnectToTv") => FindsUnasked(longer, Len(queue) + 2)
    BY ReportNext DEF FindsUnasked
<1> HIDE DEF longer
<1>4. ASSUME NEW k \in 1 .. Len(longer), IsOutput(longer[k], "SendRegisterPayload")
      PROVE  FindsUnasked(longer, k)
    <2>1. k \in 1 .. Len(queue) + 1 /\ (k = Len(queue) + 1 \/ k \in 1 .. Len(queue))
        BY <1>1
    <2>2. FindsUnasked(queue, k)
        BY <1>1, <1>4, <2>1 DEF AllFindUnasked
    <2> QED
        BY <1>2, <2>1, <2>2
<1> QED
    BY <1>3, <1>4 DEF longer, AllFindUnasked

\* The machine asks to register on its way out of Connecting, where it only
\* gets with a ConnectToTv.
LEMMA RulesOfConnecting ==
    ASSUME NEW rule \in Rules
    PROVE  /\ rule.output = "SendRegisterPayload" => rule.from = "Connecting"
           /\ rule.to = "Connecting" => rule.output = "ConnectToTv"
    BY DEF Rules, Rule, StateTag, NoOutput

LEMMA FsmUnasked ==
    ASSUME TypeInv, RegisterInv, FsmStep
    PROVE  RegisterInv'
<1>1. /\ from_fsm \in Seq(Update) /\ fsm_state \in State /\ to_fsm \in Seq(Input)
      /\ UNCHANGED ws_vars
    BY DEF TypeInv, RestOK, CoreOK, FsmStep
<1>2. AskedOnce' /\ Unasked' = Unasked
    BY <1>1 DEF ws_vars, RegisterInv, AskedOnce, Unasked
<1>3. ASSUME NEW queue, from_fsm' = queue, AllFindUnasked(queue),
             fsm_state'.tag = "Connecting" => FindsUnasked(queue, Len(queue) + 1)
      PROVE  RegisterInv'
    BY <1>2, <1>3 DEF RegisterInv, AllFindUnasked, FindsUnasked
<1>4. CASE FsmTransition
    <2>1. PICK rule \in Applicable(fsm_state, Head(to_fsm)) :
              /\ fsm_state' = Target(rule, fsm_state, Head(to_fsm))
              /\ from_fsm' = from_fsm \o Updates(rule, fsm_state')
        BY <1>4 DEF FsmTransition
    <2>2. Head(to_fsm) \in Input
        BY <1>1, <1>4 DEF FsmTransition
    <2>3. fsm_state' \in State /\ fsm_state'.tag = rule.to
        BY <1>1, <2>1, <2>2, RuleTypes
    <2>4. rule \in Rules /\ rule.from = fsm_state.tag
        BY <2>1 DEF Applicable
    <2>5. rule.output \in OutputTag \cup {NoOutput}
        BY <2>4 DEF Rules, Rule, OutputTag, NoOutput
    <2> DEFINE moved == StateUpdate(fsm_state')
               asked == OutputUpdate(rule.output, fsm_state')
               reported == Append(from_fsm, moved)
               longer == Append(reported, asked)
    <2>6. moved \in Update /\ moved.kind = "State"
        BY <2>3 DEF StateUpdate, Update, State
    <2>7. /\ rule.output # NoOutput => asked \in Update
          /\ asked.tag = rule.output /\ asked.kind = "Output"
        BY <2>3, <2>5 DEF OutputUpdate, Update, State, UrlOption
    <2>8. from_fsm' = IF rule.output = NoOutput THEN reported ELSE longer
        BY <1>1, <2>1, <2>6, <2>7 DEF Updates
    <2>9. \A tag : ~IsOutput(moved, tag) /\ (IsOutput(asked, tag) <=> rule.output = tag)
        BY <2>6, <2>7 DEF IsOutput
    <2> HIDE DEF moved, asked
    <2>10. reported \in Seq(Update) /\ Len(reported) = Len(from_fsm) + 1 /\ Len(from_fsm) \in Nat
        BY <1>1, <2>6
    <2>11. /\ AllFindUnasked(reported)
           /\ fsm_state.tag = "Connecting" => FindsUnasked(reported, Len(reported) + 1)
        <3>1. Len(reported) + 1 = Len(from_fsm) + 2
            BY <2>10
        <3> QED
            BY <1>1, <2>6, <2>9, <3>1, ReportUnasked DEF RegisterInv
    <2> HIDE DEF reported
    <2>12. rule.output # NoOutput =>
               /\ AllFindUnasked(longer)
               /\ rule.to = "Connecting" => FindsUnasked(longer, Len(longer) + 1)
        <3>1. rule.output # NoOutput => Len(longer) + 1 = Len(reported) + 2
            BY <2>7, <2>10
        <3> QED
            BY <2>4, <2>7, <2>9, <2>10, <2>11, <3>1, ReportUnasked, RulesOfConnecting
    <2> HIDE DEF longer
    <2>13. rule.output = NoOutput => rule.to # "Connecting"
        BY <2>4, RulesOfConnecting DEF NoOutput
    <2> QED
        BY <1>3, <2>3, <2>8, <2>11, <2>12, <2>13
<1>5. CASE FsmTransitionError
    <2> DEFINE refused == ErrorUpdate(Head(to_fsm))
               longer == Append(from_fsm, refused)
    <2>1. refused \in Update /\ refused.kind = "TransitionError"
        <3>1. Head(to_fsm) \in Input
            BY <1>1, <1>5 DEF FsmTransitionError
        <3>2. Head(to_fsm).tag \in InputTag /\ Head(to_fsm).url \in UrlOption
            BY <3>1 DEF Input, InputTag, UrlOption
        <3> QED
            BY <3>2 DEF ErrorUpdate, Update
    <2>2. from_fsm' = longer /\ fsm_state' = fsm_state
        BY <1>5 DEF FsmTransitionError
    <2>3. \A tag : ~IsOutput(refused, tag)
        BY <2>1 DEF IsOutput
    <2> HIDE DEF refused
    <2>4. Len(longer) + 1 = Len(from_fsm) + 2
        BY <1>1, <2>1
    <2>5. /\ AllFindUnasked(longer)
          /\ fsm_state.tag = "Connecting" => FindsUnasked(longer, Len(longer) + 1)
        BY <1>1, <2>1, <2>3, <2>4, ReportUnasked DEF RegisterInv
    <2> HIDE DEF longer
    <2> QED
        BY <1>3, <2>2, <2>5
<1>6. CASE FsmShutDown
    BY <1>1, <1>2, <1>6, KeptUnasked, UnchangedAsked DEF FsmShutDown, RegisterInv
<1> QED
    BY <1>4, <1>5, <1>6 DEF FsmStep, FsmNext

-----------------------------------------------------------------------------
(* The manager's steps.                                                    *)

LEMMA StateMachineUnasked ==
    ASSUME TypeInv, RegisterInv, FromStateMachine
    PROVE  RegisterInv'
<1>1. WsTypeOK /\ from_fsm \in Seq(Update) /\ AskedOnce
    BY DEF TypeInv, RestOK, RegisterInv
<1>2. ASSUME NEW kind, NEW tag, Updated(kind, tag)
      PROVE  /\ from_fsm # <<>> /\ from_fsm' = Tail(from_fsm) /\ UNCHANGED fsm_state
             /\ Head(from_fsm).kind = kind /\ (tag # "any" => Head(from_fsm).tag = tag)
    BY <1>2 DEF Updated
<1>3. ASSUME NEW kind, NEW tag, Updated(kind, tag), AskedOnce' /\ StaysUnasked,
             kind # "Output" \/ tag \notin {"any", "ConnectToTv"}
      PROVE  RegisterInv'
    BY <1>1, <1>2, <1>3, ReadUnasked DEF IsOutput
<1>4. CASE NewState \/ TransitionError \/ PairWithTv \/ HandleSuccessfulDisconnect
              \/ HandleDisconnectError
    <2>1. AskedOnce' /\ StaysUnasked
        BY <1>1, <1>4, UnchangedAsked
           DEF NewState, TransitionError, PairWithTv, HandleSuccessfulDisconnect,
               HandleDisconnectError, HandleDisconnected
    <2>2. \/ Updated("State", "any") \/ Updated("TransitionError", "any")
          \/ Updated("Output", "PairWithTv") \/ Updated("Output", "HandleSuccessfulDisconnect")
          \/ Updated("Output", "HandleDisconnectError")
        BY <1>4 DEF NewState, TransitionError, PairWithTv, HandleSuccessfulDisconnect,
                    HandleDisconnectError, HandleDisconnected
    <2> QED
        BY <1>3, <2>1, <2>2
<1>5. CASE ConnectToTv
    <2>1. Updated("Output", "ConnectToTv") /\ AskedOnce' /\ Unasked'
        BY <1>1, <1>5, StartAsked DEF ConnectToTv
    <2>2. IsOutput(Head(from_fsm), "ConnectToTv")
        BY <1>2, <2>1 DEF IsOutput
    <2> QED
        BY <1>1, <1>2, <2>1, <2>2, ReadUnasked
<1>6. CASE SendRegisterPayload
    <2> DEFINE s == [SetReconnectFlowStatus(mgr, "Inactive") EXCEPT !.session_connection_count = 1]
    <2>1. Updated("Output", "SendRegisterPayload") /\ SendToWs(s, "Register", "reset")
        BY <1>6 DEF SendRegisterPayload
    <2> HIDE DEF s
    <2>2. IsOutput(Head(from_fsm), "SendRegisterPayload")
        BY <1>2, <2>1 DEF IsOutput
    <2>3. Unasked
        <3>1. 1 \in 1 .. Len(from_fsm) /\ IsOutput(from_fsm[1], "SendRegisterPayload")
            BY <1>1, <1>2, <2>1, <2>2
        <3>2. FindsUnasked(from_fsm, 1)
            BY <3>1 DEF RegisterInv, AllFindUnasked
        <3> QED
            BY <3>2 DEF FindsUnasked, Precedes
    <2>4. AskedOnce'
        BY <1>1, <2>1, <2>3, SendToWsAsked DEF WsMessage, WsPayload
    <2>5. ~IsOutput(Head(from_fsm), "ConnectToTv")
        BY <2>2 DEF IsOutput
    <2> QED
        BY <1>1, <1>2, <2>1, <2>2, <2>4, <2>5, ReadUnasked
<1>7. ASSUME NEW s, NEW message \in {"Initialize", "Command", "ShutDown"}, NEW resume,
             SendToWs(s, message, resume)
      PROVE  AskedOnce' /\ StaysUnasked
    <2>1. message \in WsMessage /\ message # "Register"
        BY DEF WsMessage, WsPayload
    <2> QED
        BY <1>1, <1>7, <2>1, SendToWsAsked
<1>8. CASE InitializeConnection
    <2> DEFINE paired == [mgr EXCEPT !.is_pairing = FALSE]
    <2>1. /\ Updated("Output", "InitializeConnection")
          /\ \/ ForceManagerReset(paired, "reset_initialize")
             \/ SendToWs(Remembered(paired), "Initialize", "reset")
        BY <1>8 DEF InitializeConnection
    <2> HIDE DEF paired
    <2> QED
        BY <1>1, <1>3, <1>7, <2>1, ForceResetAsked
<1>9. CASE SendCommand
    BY <1>3, <1>7, <1>9 DEF SendCommand
<1>10. CASE DisconnectFromTv
    <2> DEFINE prepared == OptionallyPrepareForReconnect(mgr)
    <2>1. Updated("Output", "DisconnectFromTv") /\ InitiateDisconnectFromTv(prepared)
        BY <1>10 DEF DisconnectFromTv
    <2> HIDE DEF prepared
    <2>2. AskedOnce' /\ StaysUnasked
        BY <1>1, <1>7, <2>1, UnchangedAsked DEF InitiateDisconnectFromTv
    <2> QED
        BY <1>3, <2>1, <2>2
<1>11. CASE HandleConnectError
    BY <1>1, <1>3, <1>11, ForceResetAsked DEF HandleConnectError
<1> QED
    BY <1>4, <1>5, <1>6, <1>8, <1>9, <1>10, <1>11 DEF FromStateMachine

\* Of what the manager does, only the output asks to register.
LEMMA ManagerUnasked ==
    ASSUME TypeInv, NoForgottenTask, RegisterInv,
           FromCaller \/ FromWebSocket \/ TvNetworkChecked \/ Continue
    PROVE  RegisterInv'
<1>1. WsTypeOK /\ AskedOnce
    BY DEF TypeInv, RegisterInv
<1>2. CASE FromCaller
    <2>1. UNCHANGED <<from_fsm, fsm_state>>
        BY <1>2 DEF FromCaller, CancelReconnect, Connect, ConnectLastGoodConnection, Disconnect,
               SendTvCommand, TestConnection, ShutDown, Called
    <2>2. "TestConnection" \in WsMessage /\ "TestConnection" # "Register"
        BY DEF WsMessage
    <2>3. AskedOnce' /\ StaysUnasked
        BY <1>1, <1>2, <2>2, UnchangedAsked, ForceResetAsked, SendToWsAsked
           DEF FromCaller, CancelReconnect, Connect, ConnectLastGoodConnection, Disconnect,
               SendTvCommand, TestConnection, ShutDown
    <2> QED
        BY <2>1, <2>3, KeptUnasked
<1>3. CASE FromWebSocket
    <2>1. PICK updates : Reported(updates)
        BY <1>3 DEF FromWebSocket, WebSocketConnected, WebSocketDisconnected, ConnectionLost,
               ConnectionTested, GetVolume, PairRequested, PairingFailed, Registered
    <2>2. \A i \in Socket : ws'[i].to_ws = ws[i].to_ws /\ ws'[i].tv = ws[i].tv
        BY <1>1, <2>1 DEF Reported, WsTypeOK, SocketState
    <2>3. cur_ws' = cur_ws /\ cur_ws \in Socket /\ UNCHANGED <<from_fsm, fsm_state>>
        BY <1>1, <2>1 DEF Reported, WsTypeOK
    <2>4. AskedOnce' /\ StaysUnasked
        BY <1>1, <2>2, <2>3 DEF AskedOnce, IsAskedOnce, StaysUnasked, Unasked, IsUnasked
    <2> QED
        BY <2>3, <2>4, KeptUnasked
<1>4. CASE TvNetworkChecked
    BY <1>1, <1>4, UnchangedAsked, KeptUnasked DEF TvNetworkChecked
<1>5. CASE Continue
    <2>1. UNCHANGED <<from_fsm, fsm_state>>
        BY <1>5 DEF Continue, FinishReset, FinishConnectError, FinishInitialize, FinishShutDown,
               FinishedReset, ResetInsteadOfReconnect, FinishDisconnect, RetryIntervalTick,
               TasksStopped, Resumed
    <2>2. CASE UNCHANGED ws_vars
        BY <1>1, <2>1, <2>2, UnchangedAsked, KeptUnasked
    <2>3. CASE ResetInsteadOfReconnect
        BY <1>1, <2>1, <2>3, ForceResetAsked, KeptUnasked DEF ResetInsteadOfReconnect
    <2>4. CASE TasksStopped
        <3>1. ws_join_handle # None => cur_ws # None
            BY DEF NoForgottenTask
        <3>2. "ShutDown" \in WsMessage /\ "ShutDown" # "Register"
            BY DEF WsMessage
        <3>3. AskedOnce' /\ StaysUnasked
            BY <1>1, <2>4, <3>1, <3>2, UnchangedAsked, ForceResetAsked, TellAsked DEF TasksStopped
        <3> QED
            BY <2>1, <3>3, KeptUnasked
    <2> QED
        BY <1>5, <2>2, <2>3, <2>4
           DEF Continue, FinishReset, FinishConnectError, FinishInitialize, FinishShutDown,
               FinishedReset, FinishDisconnect, RetryIntervalTick, Resumed
<1> QED
    BY <1>2, <1>3, <1>4, <1>5

LEMMA NextKeepsRegister ==
    ASSUME TypeInv, NoForgottenTask, RegisterInv, [Next]_vars
    PROVE  RegisterInv'
<1>1. CASE FromCaller \/ FromWebSocket \/ TvNetworkChecked \/ Continue
    BY <1>1, ManagerUnasked
<1>2. CASE FromStateMachine
    BY <1>2, StateMachineUnasked
<1>3. CASE FsmStep
    BY <1>3, FsmUnasked
<1>4. CASE \E i \in Socket : WsTask(i) \/ WsNetwork(i)
    <2>1. /\ UNCHANGED <<from_fsm, fsm_state>>
          /\ \E i \in Socket : WsTaskStep(i) \/ WsNetworkStep(i)
        BY <1>4 DEF WsTask, WsNetwork, fsm_vars
    <2>2. AskedOnce' /\ StaysUnasked
        BY <2>1, WsStepAsked DEF TypeInv, RegisterInv
    <2> QED
        BY <2>1, <2>2, KeptUnasked
<1>5. CASE NetStep \/ UNCHANGED vars
    <2>1. UNCHANGED <<from_fsm, fsm_state>> /\ UNCHANGED ws_vars
        BY <1>5 DEF NetStep, vars, fsm_vars
    <2> QED
        BY <2>1, UnchangedAsked, KeptUnasked DEF RegisterInv
<1> QED
    BY <1>1, <1>2, <1>3, <1>4, <1>5 DEF Next, ManagerStep

LEMMA InitRegister == Init => RegisterInv
<1> SUFFICES ASSUME Init PROVE RegisterInv
    OBVIOUS
<1>1. from_fsm = <<>> /\ fsm_state.tag = "Disconnected"
    BY DEF Init, FsmInit, Disconnected
<1>2. \A i \in Socket : ws[i].to_ws = <<>> /\ ws[i].tv = "idle"
    BY DEF Init, WsInit, NoSocket
<1>3. AskedOnce
    BY <1>2 DEF AskedOnce, IsAskedOnce, OneRegister
<1> QED
    BY <1>1, <1>3 DEF RegisterInv, AllFindUnasked

\* No TV is asked to register twice over one connection: though the manager may
\* read the Connected of one task when the machine already connects with the
\* next, a SendRegisterPayload always finds a task that has not been asked.
THEOREM RegistersOnce == Spec => []RegistersOncePerSocket
<1>1. Init => RegisterInv
    BY InitRegister
<1>2. Init => NoForgottenTask
    BY DEF Init, WsInit, ManagerInit, NoForgottenTask
<1>3. TypeInv /\ NoForgottenTask /\ RegisterInv /\ [Next]_vars => (NoForgottenTask /\ RegisterInv)'
    BY NextKeepsTasks, NextKeepsRegister
<1>4. TypeInv /\ RegisterInv => RegistersOncePerSocket
    BY AskedOnceImplies DEF TypeInv, RegisterInv
<1> QED
    BY <1>1, <1>2, <1>3, <1>4, InitType, NextType, PTL DEF Spec

-----------------------------------------------------------------------------
(* No waiting for a task that was not told to end.  force_manager_reset    *)
(* tells it; handle_disconnected does not, and relies on the order of the  *)
(* machine's updates: each output that leads to it is preceded by a        *)
(* DisconnectFromTv, with no ConnectToTv in between.                       *)

IsConnect(update) == IsOutput(update, "ConnectToTv")

IsDisconnect(update) == IsOutput(update, "DisconnectFromTv")

IsFarewell(update) ==
    IsOutput(update, "HandleSuccessfulDisconnect") \/ IsOutput(update, "HandleDisconnectError")

\* Of the updates before the k-th, none starts a task.
StartsNone(queue, k) == Lacks("ConnectToTv", queue, k)

\* One of the updates before the k-th disconnects, and none after it starts a task.
Disconnects(queue, k) == Precedes("DisconnectFromTv", "ConnectToTv", queue, k)

-----------------------------------------------------------------------------
(* Being told to end.                                                      *)

\* The task of the join handle is on its way out or has a ShutDown to read.
WasTold ==
    ws_join_handle # None =>
        \/ ws[ws_join_handle].phase \in {"closing", "exiting", "ended"}
        \/ IsTold(ws_join_handle)

StaysTold == WasTold => WasTold'

LEMMA UnchangedStaysTold == UNCHANGED <<ws, ws_join_handle>> => StaysTold
    BY DEF StaysTold, WasTold, IsTold

LEMMA AppendedTold ==
    ASSUME NEW to_ws \in Seq(WsMessage), NEW message \in WsMessage
    PROVE  /\ (\E k \in 1 .. Len(to_ws) : to_ws[k] = "ShutDown")
                  => \E k \in 1 .. Len(Append(to_ws, message)) :
                         Append(to_ws, message)[k] = "ShutDown"
           /\ message = "ShutDown"
                  => \E k \in 1 .. Len(Append(to_ws, message)) :
                         Append(to_ws, message)[k] = "ShutDown"
<1>1. /\ Len(Append(to_ws, message)) = Len(to_ws) + 1 /\ Len(to_ws) \in Nat
      /\ Append(to_ws, message)[Len(to_ws) + 1] = message
      /\ \A k \in 1 .. Len(to_ws) : Append(to_ws, message)[k] = to_ws[k]
    OBVIOUS
<1>2. /\ Len(to_ws) + 1 \in 1 .. Len(to_ws) + 1
      /\ \A k \in 1 .. Len(to_ws) : k \in 1 .. Len(to_ws) + 1
    BY <1>1
<1> QED
    BY <1>1, <1>2

\* A message goes behind the ShutDown, or is one.
LEMMA TellStaysTold ==
    ASSUME WsTypeOK, NoForgottenTask, cur_ws # None, UNCHANGED ws_join_handle,
           NEW message \in WsMessage, Tell(message)
    PROVE  StaysTold /\ (message = "ShutDown" => WasTold')
<1>1. cur_ws \in Socket /\ ws[cur_ws] \in SocketState
    BY DEF WsTypeOK
<1>2. ws[cur_ws].to_ws \in Seq(WsMessage)
    BY <1>1 DEF SocketState
<1>3. /\ ws'[cur_ws].to_ws = Append(ws[cur_ws].to_ws, message)
      /\ ws'[cur_ws].phase = ws[cur_ws].phase
    BY <1>1 DEF Tell, WsTypeOK, SocketState
<1>4. ws_join_handle \in {None, cur_ws}
    BY DEF NoForgottenTask
<1> QED
    BY <1>2, <1>3, <1>4, AppendedTold DEF StaysTold, WasTold, IsTold

LEMMA ForceResetTells ==
    ASSUME WsTypeOK, NoForgottenTask, UNCHANGED ws_join_handle,
           NEW s, NEW resume, ForceManagerReset(s, resume)
    PROVE  WasTold'
<1>1. CASE IsWsOpen
    BY <1>1, TellStaysTold DEF ForceManagerReset, IsWsOpen, WsMessage
<1>2. CASE ~IsWsOpen
    BY <1>2 DEF ForceManagerReset, IsWsOpen, ws_vars, WasTold, NoForgottenTask
<1> QED
    BY <1>1, <1>2

LEMMA SendToWsStaysTold ==
    ASSUME WsTypeOK, NoForgottenTask, UNCHANGED ws_join_handle,
           NEW s, NEW message \in WsMessage, NEW resume, SendToWs(s, message, resume)
    PROVE  /\ StaysTold
           /\ message = "ShutDown" => WasTold'
           /\ mgr_pc' # "select" => WasTold'
<1>1. CASE cur_ws = None \/ IsWsOpen
    <2>1. mgr_pc' = "select"
        BY <1>1 DEF SendToWs, Commit, Done, Result
    <2>2. CASE IsWsOpen
        BY <2>1, <2>2, TellStaysTold DEF SendToWs, IsWsOpen
    <2>3. CASE cur_ws = None /\ ~IsWsOpen
        <3>1. UNCHANGED ws_vars /\ ws_join_handle = None
            BY <2>3 DEF SendToWs, NoForgottenTask
        <3> QED
            BY <2>1, <3>1, UnchangedStaysTold DEF ws_vars, WasTold
    <2> QED
        BY <1>1, <2>2, <2>3
<1>2. CASE ~(cur_ws = None \/ IsWsOpen)
    BY <1>2, ForceResetTells DEF SendToWs, StaysTold
<1> QED
    BY <1>1, <1>2

\* Reading another message leaves the ShutDown.
LEMMA ReceivedStaysTold ==
    ASSUME WsTypeOK, NEW i \in Socket, ws[i].to_ws # <<>>, Next_ws(i) # "ShutDown", IsTold(i)
    PROVE  \E k \in 1 .. Len(Tail(ws[i].to_ws)) : Tail(ws[i].to_ws)[k] = "ShutDown"
<1> DEFINE to_ws == ws[i].to_ws
<1>1. to_ws \in Seq(WsMessage)
    BY DEF WsTypeOK, SocketState
<1>2. PICK k \in 1 .. Len(to_ws) : to_ws[k] = "ShutDown"
    BY DEF IsTold
<1>3. Head(to_ws) # "ShutDown" /\ to_ws # <<>>
    BY DEF Next_ws
<1> HIDE DEF to_ws
<1>4. k # 1
    BY <1>1, <1>2, <1>3
<1>5. k - 1 \in 1 .. Len(Tail(to_ws)) /\ Tail(to_ws)[k - 1] = "ShutDown"
    BY <1>1, <1>2, <1>4
<1> QED
    BY <1>5 DEF to_ws

\* A task ends or keeps what it has not read; the ShutDown it reads ends it.
LEMMA WsStepStaysTold ==
    ASSUME WsTypeOK, NoForgottenTask, UNCHANGED ws_join_handle,
           NEW i \in Socket, WsTaskStep(i) \/ WsNetworkStep(i)
    PROVE  StaysTold
<1> SUFFICES ASSUME WasTold PROVE WasTold'
    BY DEF StaysTold
<1>1. ASSUME NEW socket, Becomes(i, socket),
             \/ i # ws_join_handle
             \/ socket.phase \in {"closing", "exiting", "ended"}
             \/ \E k \in 1 .. Len(socket.to_ws) : socket.to_ws[k] = "ShutDown"
      PROVE  WasTold'
    <2>1. ws' = [ws EXCEPT ![i] = socket]
        BY <1>1 DEF Becomes
    <2>2. CASE i # ws_join_handle
        BY <2>1, <2>2 DEF WasTold, IsTold
    <2>3. CASE i = ws_join_handle
        <3>1. ws'[i] = socket
            BY <2>1 DEF WsTypeOK
        <3> QED
            BY <1>1, <2>3, <3>1 DEF WasTold, IsTold
    <2> QED
        BY <2>2, <2>3
<1>2. ws[i] \in SocketState
    BY DEF WsTypeOK
<1>3. ws_join_handle = i => i = cur_ws /\ (ws[i].phase \in {"closing", "exiting", "ended"} \/ IsTold(i))
    BY SocketAssumption DEF WasTold, NoForgottenTask
<1>4. ASSUME NEW socket, Becomes(i, socket), ws[i].phase \in {"connecting", "running"},
             socket.to_ws = ws[i].to_ws
      PROVE  WasTold'
    BY <1>1, <1>3, <1>4 DEF IsTold
<1>5. \A update : /\ Reporting(i, update).to_ws = ws[i].to_ws
                  /\ Reporting(i, update).phase = ws[i].phase
                  /\ DOMAIN Reporting(i, update) = DOMAIN ws[i]
    BY <1>2 DEF Reporting, SocketState
<1>6. /\ Received(i).to_ws = Tail(ws[i].to_ws) /\ DOMAIN Received(i) = DOMAIN ws[i]
      /\ {"to_ws", "phase", "tv", "testing", "from_ws"} \subseteq DOMAIN ws[i]
    BY <1>2 DEF Received, SocketState
<1>7. ASSUME NEW socket, NEW phase \in {"closing", "exiting", "ended"}, NEW told,
             "phase" \in DOMAIN told, socket = [told EXCEPT !.phase = phase], Becomes(i, socket)
      PROVE  WasTold'
    BY <1>1, <1>7
<1>8. CASE WsConnected(i)
    <2> DEFINE report == Reporting(i, "Connected")
               phase == IF i = cur_ws THEN "running" ELSE "exiting"
    <2>1. Becomes(i, [report EXCEPT !.phase = phase]) /\ ws[i].phase = "connecting"
        BY <1>8 DEF WsConnected
    <2>2. [report EXCEPT !.phase = phase].to_ws = ws[i].to_ws
        BY <1>5, <1>6
    <2> HIDE DEF report, phase
    <2> QED
        BY <1>4, <2>1, <2>2
<1>9. CASE WsText(i)
    <2>1. PICK answer \in TvAnswers(ws[i].tv) :
              Becomes(i, [Reporting(i, answer.payload) EXCEPT
                              !.tv = answer.session,
                              !.phase = IF i = cur_ws THEN @ ELSE "closing"])
        BY <1>9 DEF WsText
    <2> DEFINE report == Reporting(i, answer.payload)
               phase == IF i = cur_ws THEN report.phase ELSE "closing"
               socket == [report EXCEPT !.tv = answer.session, !.phase = phase]
    <2>2. Becomes(i, socket) /\ ws[i].phase = "running"
        BY <1>9, <2>1 DEF WsText, Running
    <2>3. socket.to_ws = ws[i].to_ws
        BY <1>5, <1>6
    <2> HIDE DEF socket
    <2> QED
        BY <1>4, <2>2, <2>3
<1>10. CASE WsPong(i) \/ WsPingTimeout(i)
    <2>1. ws[i].phase = "running"
        BY <1>10 DEF WsPong, WsPingTimeout, Running
    <2>2. \/ Becomes(i, [Reporting(i, "ConnectionOk") EXCEPT !.testing = FALSE])
          \/ Becomes(i, Reporting(i, "ConnectionNotOk"))
        BY <1>10 DEF WsPong, WsPingTimeout
    <2>3. [Reporting(i, "ConnectionOk") EXCEPT !.testing = FALSE].to_ws = ws[i].to_ws
        BY <1>5, <1>6
    <2> QED
        BY <1>4, <1>5, <2>1, <2>2, <2>3
<1>11. CASE WsSendPayload(i) \/ WsTestConnection(i)
    <2>1. ws[i].phase = "running" /\ ws[i].to_ws # <<>> /\ Next_ws(i) # "ShutDown"
        BY <1>11 DEF WsSendPayload, WsTestConnection, Running, WsPayload
    <2>2. PICK socket : Becomes(i, socket) /\ socket.to_ws = Tail(ws[i].to_ws)
        <3>1. CASE WsSendPayload(i)
            <4> DEFINE session == AfterPayload(Received(i).tv, Next_ws(i))
            <4>1. Becomes(i, [Received(i) EXCEPT !.tv = session])
                BY <3>1 DEF WsSendPayload
            <4>2. [Received(i) EXCEPT !.tv = session].to_ws = Tail(ws[i].to_ws)
                BY <1>6
            <4> QED
                BY <4>1, <4>2
        <3>2. CASE WsTestConnection(i)
            <4>1. [Received(i) EXCEPT !.testing = TRUE].to_ws = Tail(ws[i].to_ws)
                BY <1>6
            <4> QED
                BY <3>2, <4>1 DEF WsTestConnection
        <3> QED
            BY <1>11, <3>1, <3>2
    <2>3. i = ws_join_handle => \E k \in 1 .. Len(socket.to_ws) : socket.to_ws[k] = "ShutDown"
        BY <1>3, <2>1, <2>2, ReceivedStaysTold
    <2> QED
        BY <1>1, <2>2, <2>3
<1>12. CASE WsSendFailed(i) \/ WsShutDown(i) \/ WsChannelClosed(i)
    BY <1>6, <1>7, <1>12 DEF WsSendFailed, WsShutDown, WsChannelClosed
<1>13. CASE WsConnectError(i) \/ WsServerClosed(i) \/ WsReadError(i) \/ WsReportDisconnected(i)
    BY <1>5, <1>6, <1>7, <1>13
       DEF WsConnectError, WsServerClosed, WsReadError, WsReportDisconnected
<1>14. CASE WsEnd(i)
    <2>1. CASE i = cur_ws
        <3>1. Ended(i).phase = "ended"
            BY DEF Ended, NoSocket
        <3> QED
            BY <1>1, <1>14, <2>1, <3>1 DEF WsEnd
    <2>2. CASE i # cur_ws
        BY <1>1, <1>3, <1>14, <2>2 DEF WsEnd
    <2> QED
        BY <2>1, <2>2
<1> QED
    BY <1>8, <1>9, <1>10, <1>11, <1>12, <1>13, <1>14 DEF WsTaskStep, WsNetworkStep

-----------------------------------------------------------------------------
(* The inductive invariant: a farewell, the output that leads to           *)
(* handle_disconnected, finds a task that has been told, now or by the     *)
(* time it is read; so does the one a Disconnecting machine is to send.    *)

FindsTaskTold(queue, k) ==
    Disconnects(queue, k) \/ (WasTold /\ StartsNone(queue, k))

AllFindTaskTold(queue) ==
    \A k \in 1 .. Len(queue) : IsFarewell(queue[k]) => FindsTaskTold(queue, k)

JoinInv ==
    /\ IsJoining => WasTold
    /\ AllFindTaskTold(from_fsm)
    /\ fsm_state.tag = "Disconnecting" => FindsTaskTold(from_fsm, Len(from_fsm) + 1)

LEMMA JoinInvImplies == JoinInv => JoinedTaskWasTold
    BY DEF JoinInv, WasTold, JoinedTaskWasTold

\* A step that neither reads nor reports updates.
LEMMA KeptJoin ==
    ASSUME JoinInv, StaysTold, UNCHANGED <<from_fsm, fsm_state>>, IsJoining' => WasTold'
    PROVE  JoinInv'
    BY DEF JoinInv, StaysTold, AllFindTaskTold, FindsTaskTold

\* A step that reads one.
LEMMA ReadJoin ==
    ASSUME from_fsm \in Seq(Update), from_fsm # <<>>, JoinInv,
           IsJoining' => WasTold',
           ~IsConnect(Head(from_fsm)) => StaysTold,
           IsDisconnect(Head(from_fsm)) => WasTold',
           from_fsm' = Tail(from_fsm), UNCHANGED fsm_state
    PROVE  JoinInv'
<1> DEFINE rest == Tail(from_fsm)
           Finds(k) == Disconnects(rest, k) \/ (WasTold' /\ StartsNone(rest, k))
<1>1. /\ Len(from_fsm) \in Nat \ {0} /\ Len(rest) = Len(from_fsm) - 1
      /\ \A n \in 1 .. Len(from_fsm) - 1 : rest[n] = from_fsm[n + 1]
    OBVIOUS
<1>2. ASSUME NEW k \in 2 .. Len(from_fsm) + 1, FindsTaskTold(from_fsm, k)
      PROVE  Finds(k - 1)
    <2>1. CASE Disconnects(from_fsm, k)
        <3>1. \/ Disconnects(rest, k - 1)
              \/ IsDisconnect(Head(from_fsm)) /\ StartsNone(rest, k - 1)
            BY <2>1, ReadBefore DEF StartsNone, Disconnects, IsConnect, IsDisconnect
        <3> QED
            BY <3>1
    <2>2. CASE WasTold /\ StartsNone(from_fsm, k)
        <3>1. StartsNone(rest, k - 1) /\ ~IsConnect(Head(from_fsm))
            BY <2>2, ReadBefore DEF StartsNone, Disconnects, IsConnect, IsDisconnect
        <3> QED
            BY <2>2, <3>1 DEF StaysTold
    <2> QED
        BY <1>2, <2>1, <2>2 DEF FindsTaskTold
<1> HIDE DEF rest, Finds
<1>3. ASSUME NEW n \in 1 .. Len(rest), IsFarewell(rest[n])
      PROVE  Finds(n)
    <2>1. n + 1 \in 2 .. Len(from_fsm) + 1 /\ n + 1 \in 1 .. Len(from_fsm) /\ (n + 1) - 1 = n
        BY <1>1
    <2>2. IsFarewell(from_fsm[n + 1])
        BY <1>1, <1>3
    <2>3. FindsTaskTold(from_fsm, n + 1)
        BY <2>1, <2>2 DEF JoinInv, AllFindTaskTold
    <2>4. Finds((n + 1) - 1)
        BY <1>2, <2>1, <2>3
    <2> QED
        BY <2>1, <2>4
<1>4. ASSUME fsm_state.tag = "Disconnecting"
      PROVE  Finds(Len(rest) + 1)
    <2>1. /\ Len(from_fsm) + 1 \in 2 .. Len(from_fsm) + 1
          /\ (Len(from_fsm) + 1) - 1 = Len(rest) + 1
        BY <1>1
    <2>2. Finds((Len(from_fsm) + 1) - 1)
        BY <1>2, <1>4, <2>1 DEF JoinInv
    <2> QED
        BY <2>1, <2>2
<1>5. from_fsm' = rest
    BY DEF rest
<1> QED
    BY <1>3, <1>4, <1>5 DEF JoinInv, AllFindTaskTold, FindsTaskTold, Finds

\* Updates that are reported one after the other.
LEMMA ReportFinds ==
    ASSUME NEW queue \in Seq(Update), NEW update \in Update, AllFindTaskTold(queue),
           IsFarewell(update) => FindsTaskTold(queue, Len(queue) + 1)
    PROVE  /\ AllFindTaskTold(Append(queue, update))
           /\ FindsTaskTold(queue, Len(queue) + 1) /\ ~IsConnect(update)
                  => FindsTaskTold(Append(queue, update), Len(queue) + 2)
           /\ IsDisconnect(update) => FindsTaskTold(Append(queue, update), Len(queue) + 2)
<1> DEFINE longer == Append(queue, update)
<1>1. /\ Len(queue) \in Nat /\ Len(longer) = Len(queue) + 1
      /\ longer[Len(queue) + 1] = update
      /\ \A m \in 1 .. Len(queue) : longer[m] = queue[m]
    OBVIOUS
<1>2. \A k \in 1 .. Len(queue) + 1 : FindsTaskTold(queue, k) => FindsTaskTold(longer, k)
    BY ReportBefore DEF FindsTaskTold, StartsNone, Disconnects
<1>3. /\ FindsTaskTold(queue, Len(queue) + 1) /\ ~IsConnect(update)
             => FindsTaskTold(longer, Len(queue) + 2)
      /\ IsDisconnect(update) => FindsTaskTold(longer, Len(queue) + 2)
    BY ReportNext DEF FindsTaskTold, StartsNone, Disconnects, IsConnect, IsDisconnect
<1> HIDE DEF longer
<1>4. ASSUME NEW k \in 1 .. Len(longer), IsFarewell(longer[k])
      PROVE  FindsTaskTold(longer, k)
    <2>1. k \in 1 .. Len(queue) + 1 /\ (k = Len(queue) + 1 \/ k \in 1 .. Len(queue))
        BY <1>1
    <2>2. FindsTaskTold(queue, k)
        BY <1>1, <1>4, <2>1 DEF AllFindTaskTold
    <2> QED
        BY <1>2, <2>1, <2>2
<1> QED
    BY <1>3, <1>4 DEF longer, AllFindTaskTold

\* What the machine reports: a farewell from Disconnecting, and a
\* DisconnectFromTv on its way there.
LEMMA RulesOfDisconnecting ==
    ASSUME NEW rule \in Rules
    PROVE  /\ rule.output \in {"HandleSuccessfulDisconnect", "HandleDisconnectError"}
                  => rule.from = "Disconnecting"
           /\ rule.to = "Disconnecting" => rule.output = "DisconnectFromTv"
    BY DEF Rules, Rule, StateTag, NoOutput

LEMMA FsmJoin ==
    ASSUME TypeInv, JoinInv, FsmStep
    PROVE  JoinInv'
<1>1. /\ from_fsm \in Seq(Update) /\ fsm_state \in State /\ to_fsm \in Seq(Input)
      /\ UNCHANGED <<ws, ws_join_handle, mgr_pc>>
    BY DEF TypeInv, RestOK, CoreOK, FsmStep, mgr_vars, ws_vars
<1>2. WasTold' = WasTold /\ (IsJoining' => WasTold')
    BY <1>1 DEF WasTold, IsTold, IsJoining, JoinInv
<1>3. ASSUME AllFindTaskTold(from_fsm)',
             fsm_state'.tag = "Disconnecting" => FindsTaskTold(from_fsm, Len(from_fsm) + 1)'
      PROVE  JoinInv'
    BY <1>2, <1>3 DEF JoinInv
<1>4. CASE FsmTransition
    <2>1. PICK rule \in Applicable(fsm_state, Head(to_fsm)) :
              /\ fsm_state' = Target(rule, fsm_state, Head(to_fsm))
              /\ from_fsm' = from_fsm \o Updates(rule, fsm_state')
        BY <1>4 DEF FsmTransition
    <2>2. Head(to_fsm) \in Input
        BY <1>1, <1>4 DEF FsmTransition
    <2>3. fsm_state' \in State /\ fsm_state'.tag = rule.to
        BY <1>1, <2>1, <2>2, RuleTypes
    <2>4. rule \in Rules /\ rule.from = fsm_state.tag
        BY <2>1 DEF Applicable
    <2>5. rule.output \in OutputTag \cup {NoOutput}
        BY <2>4 DEF Rules, Rule, OutputTag, NoOutput
    <2> DEFINE moved == StateUpdate(fsm_state')
               asked == OutputUpdate(rule.output, fsm_state')
               reported == Append(from_fsm, moved)
    <2>6. moved \in Update /\ moved.kind = "State"
        BY <2>3 DEF StateUpdate, Update, State
    <2>7. /\ rule.output # NoOutput => asked \in Update
          /\ asked.tag = rule.output
        BY <2>3, <2>5 DEF OutputUpdate, Update, State, UrlOption
    <2>8. from_fsm' = IF rule.output = NoOutput THEN reported ELSE Append(reported, asked)
        BY <1>1, <2>1, <2>6, <2>7 DEF Updates
    <2> DEFINE state == fsm_state'
    <2>9. ~IsConnect(moved) /\ ~IsFarewell(moved)
        BY <2>6 DEF IsConnect, IsFarewell, IsOutput
    <2>10. IsFarewell(asked) => fsm_state.tag = "Disconnecting"
        BY <2>4, <2>7, RulesOfDisconnecting DEF IsFarewell, IsOutput
    <2>11. rule.to = "Disconnecting" => IsDisconnect(asked) /\ rule.output # NoOutput
        BY <2>4, RulesOfDisconnecting DEF IsDisconnect, IsOutput, OutputUpdate, NoOutput
    <2> HIDE DEF moved, asked
    <2>12. reported \in Seq(Update) /\ Len(reported) = Len(from_fsm) + 1 /\ Len(from_fsm) \in Nat
        BY <1>1, <2>6
    <2>13. /\ AllFindTaskTold(reported)
           /\ fsm_state.tag = "Disconnecting" => FindsTaskTold(reported, Len(reported) + 1)
        <3>1. Len(reported) + 1 = Len(from_fsm) + 2
            BY <2>12
        <3> QED
            BY <1>1, <2>6, <2>9, <3>1, ReportFinds DEF JoinInv
    <2> HIDE DEF reported
    <2> DEFINE longer == Append(reported, asked)
    <2>14. rule.output # NoOutput =>
               /\ AllFindTaskTold(longer)
               /\ rule.to = "Disconnecting" => FindsTaskTold(longer, Len(longer) + 1)
        <3>1. rule.output # NoOutput => Len(longer) + 1 = Len(reported) + 2
            BY <2>7, <2>12
        <3> QED
            BY <2>7, <2>10, <2>11, <2>12, <2>13, <3>1, ReportFinds
    <2> HIDE DEF longer
    <2>15. CASE rule.output = NoOutput
        <3>1. from_fsm' = reported /\ fsm_state'.tag # "Disconnecting"
            BY <2>3, <2>8, <2>11, <2>15
        <3> QED
            BY <1>2, <1>3, <2>13, <3>1 DEF AllFindTaskTold, FindsTaskTold
    <2>16. CASE rule.output # NoOutput
        <3>1. from_fsm' = longer
            BY <2>8, <2>16 DEF longer
        <3> QED
            BY <1>2, <1>3, <2>3, <2>14, <2>16, <3>1 DEF AllFindTaskTold, FindsTaskTold
    <2> QED
        BY <2>15, <2>16
<1>5. CASE FsmTransitionError
    <2> DEFINE refused == ErrorUpdate(Head(to_fsm))
               longer == Append(from_fsm, refused)
    <2>1. refused \in Update /\ refused.kind = "TransitionError"
        <3>1. Head(to_fsm) \in Input
            BY <1>1, <1>5 DEF FsmTransitionError
        <3>2. Head(to_fsm).tag \in InputTag /\ Head(to_fsm).url \in UrlOption
            BY <3>1 DEF Input, InputTag, UrlOption
        <3> QED
            BY <3>2 DEF ErrorUpdate, Update
    <2>2. from_fsm' = longer /\ fsm_state' = fsm_state
        BY <1>5 DEF FsmTransitionError
    <2>3. ~IsConnect(refused) /\ ~IsFarewell(refused)
        BY <2>1 DEF IsConnect, IsFarewell, IsOutput
    <2> HIDE DEF refused
    <2>4. /\ AllFindTaskTold(longer)
          /\ fsm_state.tag = "Disconnecting" => FindsTaskTold(longer, Len(longer) + 1)
        <3>1. Len(longer) + 1 = Len(from_fsm) + 2
            BY <1>1, <2>1
        <3> QED
            BY <1>1, <2>1, <2>3, <3>1, ReportFinds DEF JoinInv
    <2> HIDE DEF longer
    <2> QED
        BY <1>2, <1>3, <2>2, <2>4 DEF AllFindTaskTold, FindsTaskTold
<1>6. CASE FsmShutDown
    BY <1>1, <1>2, <1>6, KeptJoin, UnchangedStaysTold DEF FsmShutDown
<1> QED
    BY <1>4, <1>5, <1>6 DEF FsmStep, FsmNext

-----------------------------------------------------------------------------
(* The manager's steps.                                                    *)

\* Where the results of handlers lead; none of these is a join.
LEMMA ResultPcs ==
    /\ \A s : Done(s).pc = "select"
    /\ \A s, tag : DoneSending(s, tag).pc = "select"
    /\ \A s, c : InitiateConnectToTv(s, c).pc = "select"
    /\ \A s : InitiateReconnect(s, TRUE).pc \in {"select", "force_reset"}
<1>1. \A s, sent, pc : Result(s, sent, pc).pc = pc
    BY DEF Result
<1>2. (\A s : Done(s).pc = "select") /\ \A s, tag : DoneSending(s, tag).pc = "select"
    BY <1>1 DEF Done, DoneSending
<1>3. ASSUME NEW s, NEW c
      PROVE  InitiateConnectToTv(s, c).pc = "select"
    <2> DEFINE connecting == Result(Connecting(WithClientKey(s, c), c), <<ConnectInput(c.url)>>,
                                    "select")
    <2>1. [connecting EXCEPT !.tv_ip = TvIpFor(c.url)].pc = "select"
        BY DEF Result
    <2> QED
        BY <1>2, <2>1 DEF InitiateConnectToTv
<1>4. ASSUME NEW s
      PROVE  InitiateReconnect(s, TRUE).pc \in {"select", "force_reset"}
    BY <1>1, <1>2, <1>3 DEF InitiateReconnect, Reconnect
<1> QED
    BY <1>2, <1>3, <1>4

LEMMA CommitDoesNotJoin ==
    ASSUME NEW r, r.pc \in {"select", "force_reset", "sleeping", "stopping", "stopped"}, Commit(r)
    PROVE  ~IsJoining'
    BY DEF Commit, IsJoining

LEMMA CallerJoin ==
    ASSUME TypeInv, NoForgottenTask, JoinInv, FromCaller
    PROVE  JoinInv'
<1>1. UNCHANGED <<from_fsm, fsm_state, ws_join_handle>>
    BY DEF FromCaller, CancelReconnect, Connect, ConnectLastGoodConnection, Disconnect,
           SendTvCommand, TestConnection, ShutDown, Called
<1>2. WsTypeOK
    BY DEF TypeInv
<1>3. ASSUME NEW r, r.pc \in {"select", "stopping"}, Commit(r), UNCHANGED ws_vars
      PROVE  JoinInv'
    BY <1>1, <1>3, CommitDoesNotJoin, UnchangedStaysTold, KeptJoin DEF ws_vars
<1>4. ASSUME NEW s, NEW resume, ForceManagerReset(s, resume)
      PROVE  JoinInv'
    BY <1>1, <1>2, <1>4, ForceResetTells, KeptJoin DEF StaysTold
<1>5. CASE CancelReconnect
    BY <1>3, <1>4, <1>5, ResultPcs DEF CancelReconnect
<1>6. CASE Connect \/ ConnectLastGoodConnection
    BY <1>3, <1>6, ResultPcs DEF Connect, ConnectLastGoodConnection
<1>7. CASE Disconnect \/ SendTvCommand
    BY <1>3, <1>7, ResultPcs DEF Disconnect, SendTvCommand
<1>8. CASE TestConnection
    <2>1. CASE mgr.is_connection_initialized
        <3>1. SendToWs(mgr, "TestConnection", "reset")
            BY <1>8, <2>1 DEF TestConnection
        <3> QED
            BY <1>1, <1>2, <3>1, SendToWsStaysTold, KeptJoin DEF WsMessage, IsJoining
    <2>2. CASE ~mgr.is_connection_initialized
        BY <1>3, <1>8, <2>2, ResultPcs DEF TestConnection
    <2> QED
        BY <2>1, <2>2
<1>9. CASE ShutDown
    BY <1>3, <1>9 DEF ShutDown, Result
<1> QED
    BY <1>5, <1>6, <1>7, <1>8, <1>9 DEF FromCaller

LEMMA StateMachineJoin ==
    ASSUME TypeInv, NoForgottenTask, JoinInv, FromStateMachine
    PROVE  JoinInv'
<1>1. WsTypeOK /\ from_fsm \in Seq(Update)
    BY DEF TypeInv, RestOK
<1>2. ASSUME NEW kind, NEW tag, Updated(kind, tag)
      PROVE  /\ from_fsm # <<>> /\ from_fsm' = Tail(from_fsm) /\ UNCHANGED fsm_state
             /\ Head(from_fsm).kind = kind /\ (tag # "any" => Head(from_fsm).tag = tag)
    BY <1>2 DEF Updated
<1>3. ASSUME NEW kind, NEW tag, Updated(kind, tag), StaysTold, IsJoining' => WasTold',
             kind # "Output" \/ tag \notin {"any", "DisconnectFromTv"}
      PROVE  JoinInv'
    BY <1>1, <1>2, <1>3, ReadJoin DEF IsDisconnect, IsOutput
<1>4. ASSUME NEW s, Commit(Done(s)), UNCHANGED <<ws_vars, ws_join_handle>>
      PROVE  StaysTold /\ (IsJoining' => WasTold')
    BY <1>4, ResultPcs, CommitDoesNotJoin, UnchangedStaysTold DEF ws_vars
<1>5. ASSUME NEW s, NEW message \in WsMessage, NEW resume,
             SendToWs(s, message, resume), UNCHANGED ws_join_handle
      PROVE  StaysTold /\ (IsJoining' => WasTold') /\ (message = "ShutDown" => WasTold')
    BY <1>1, <1>5, SendToWsStaysTold DEF IsJoining
<1>6. ASSUME NEW s, NEW resume, ForceManagerReset(s, resume), UNCHANGED ws_join_handle
      PROVE  StaysTold /\ (IsJoining' => WasTold')
    BY <1>1, <1>6, ForceResetTells DEF StaysTold
<1>7. CASE NewState
    BY <1>3, <1>4, <1>7 DEF NewState
<1>8. CASE TransitionError
    BY <1>3, <1>4, <1>8 DEF TransitionError
<1>9. CASE PairWithTv
    BY <1>3, <1>4, <1>9 DEF PairWithTv
<1>10. CASE ConnectToTv
    <2>1. ~IsJoining'
        BY <1>10, ResultPcs, CommitDoesNotJoin DEF ConnectToTv
    <2>2. /\ Updated("Output", "ConnectToTv")
          /\ IsConnect(Head(from_fsm)) /\ ~IsDisconnect(Head(from_fsm))
        BY <1>2, <1>10 DEF ConnectToTv, IsConnect, IsDisconnect, IsOutput
    <2> QED
        BY <1>1, <1>2, <2>1, <2>2, ReadJoin
<1>11. CASE SendRegisterPayload
    BY <1>3, <1>5, <1>11 DEF SendRegisterPayload, WsMessage, WsPayload
<1>12. CASE InitializeConnection
    <2>1. /\ Updated("Output", "InitializeConnection") /\ UNCHANGED ws_join_handle
          /\ \/ ForceManagerReset([mgr EXCEPT !.is_pairing = FALSE], "reset_initialize")
             \/ SendToWs(Remembered([mgr EXCEPT !.is_pairing = FALSE]), "Initialize", "reset")
        BY <1>12 DEF InitializeConnection
    <2>2. "Initialize" \in WsMessage
        BY DEF WsMessage, WsPayload
    <2> QED
        BY <1>3, <1>5, <1>6, <2>1, <2>2
<1>13. CASE SendCommand
    BY <1>3, <1>5, <1>13 DEF SendCommand, WsMessage, WsPayload
<1>14. CASE DisconnectFromTv
    <2> DEFINE prepared == OptionallyPrepareForReconnect(mgr)
    <2>1. /\ Updated("Output", "DisconnectFromTv") /\ UNCHANGED ws_join_handle
          /\ InitiateDisconnectFromTv(prepared)
        BY <1>14 DEF DisconnectFromTv
    <2> HIDE DEF prepared
    <2>2. StaysTold /\ (IsJoining' => WasTold') /\ WasTold'
        <3>1. CASE ws_join_handle = None
            BY <1>4, <2>1, <3>1 DEF InitiateDisconnectFromTv, WasTold
        <3>2. CASE ws_join_handle # None
            BY <1>5, <2>1, <3>2 DEF InitiateDisconnectFromTv, WsMessage
        <3> QED
            BY <3>1, <3>2
    <2> QED
        BY <1>1, <1>2, <2>1, <2>2, ReadJoin
<1>15. CASE HandleSuccessfulDisconnect \/ HandleDisconnectError
    <2>1. PICK output \in {"HandleSuccessfulDisconnect", "HandleDisconnectError"} :
              HandleDisconnected(output)
        BY <1>15 DEF HandleSuccessfulDisconnect, HandleDisconnectError
    <2>2. Updated("Output", output) /\ UNCHANGED <<ws, ws_join_handle>>
        BY <2>1 DEF HandleDisconnected, ws_vars
    <2>3. 1 \in 1 .. Len(from_fsm) /\ IsFarewell(from_fsm[1])
        BY <1>1, <1>2, <2>2 DEF IsFarewell, IsOutput
    <2>4. FindsTaskTold(from_fsm, 1)
        BY <2>3 DEF JoinInv, AllFindTaskTold
    <2>5. WasTold
        <3>1. ~Disconnects(from_fsm, 1)
            BY DEF Disconnects, Precedes
        <3> QED
            BY <2>4, <3>1 DEF FindsTaskTold
    <2> QED
        BY <1>3, <2>2, <2>5, UnchangedStaysTold DEF StaysTold
<1>16. CASE HandleConnectError
    BY <1>3, <1>6, <1>16 DEF HandleConnectError
<1> QED
    BY <1>7, <1>8, <1>9, <1>10, <1>11, <1>12, <1>13, <1>14, <1>15, <1>16 DEF FromStateMachine

LEMMA WebSocketJoin ==
    ASSUME TypeInv, NoForgottenTask, JoinInv, FromWebSocket
    PROVE  JoinInv'
<1>1. PICK updates : Reported(updates)
    BY DEF FromWebSocket, WebSocketConnected, WebSocketDisconnected, ConnectionLost,
           ConnectionTested, GetVolume, PairRequested, PairingFailed, Registered
<1>2. \E s, tag : Commit(Done(s)) \/ Commit(DoneSending(s, tag))
    BY DEF FromWebSocket, WebSocketConnected, WebSocketDisconnected, ConnectionLost,
           ConnectionTested, GetVolume, PairRequested, PairingFailed, Registered
<1>3. ~IsJoining'
    BY <1>2, ResultPcs, CommitDoesNotJoin
<1>4. StaysTold
    <2>1. WsTypeOK /\ ws_join_handle' = ws_join_handle
        BY <1>1 DEF TypeInv, Reported
    <2>2. \A i \in Socket : ws'[i].to_ws = ws[i].to_ws /\ ws'[i].phase = ws[i].phase
        BY <1>1, <2>1 DEF Reported, WsTypeOK, SocketState
    <2>3. ws_join_handle # None => ws_join_handle \in Socket
        BY DEF TypeInv, RestOK
    <2> QED
        BY <2>1, <2>2, <2>3 DEF StaysTold, WasTold, IsTold
<1> QED
    BY <1>1, <1>3, <1>4, KeptJoin DEF Reported

LEMMA ContinueJoin ==
    ASSUME TypeInv, NoForgottenTask, JoinInv, Continue
    PROVE  JoinInv'
<1>1. UNCHANGED <<from_fsm, fsm_state>> /\ WsTypeOK
    BY DEF TypeInv, Continue, FinishReset, FinishConnectError, FinishInitialize, FinishShutDown,
           FinishedReset, ResetInsteadOfReconnect, FinishDisconnect, RetryIntervalTick,
           TasksStopped, Resumed
<1>2. ASSUME ws_join_handle' = None
      PROVE  JoinInv'
    BY <1>1, <1>2, KeptJoin DEF StaysTold, WasTold
<1>3. CASE FinishReset \/ FinishConnectError \/ FinishInitialize \/ FinishShutDown \/ FinishDisconnect
    BY <1>2, <1>3 DEF FinishReset, FinishConnectError, FinishInitialize, FinishShutDown,
                      FinishedReset, FinishDisconnect
<1>4. CASE ResetInsteadOfReconnect
    BY <1>1, <1>4, ForceResetTells, KeptJoin DEF ResetInsteadOfReconnect, StaysTold
<1>5. CASE RetryIntervalTick
    <2>1. Commit(Reconnect(mgr)) /\ UNCHANGED <<ws, ws_join_handle>>
        BY <1>5 DEF RetryIntervalTick, Resumed, ws_vars
    <2>2. ~IsJoining'
        BY <2>1, ResultPcs, CommitDoesNotJoin DEF Reconnect
    <2> QED
        BY <1>1, <2>1, <2>2, UnchangedStaysTold, KeptJoin
<1>6. CASE TasksStopped
    <2>1. UNCHANGED ws_join_handle
        BY <1>6 DEF TasksStopped
    <2>2. CASE ws_join_handle # None /\ ~IsWsOpen
        BY <1>1, <1>6, <2>1, <2>2, ForceResetTells, KeptJoin DEF TasksStopped, StaysTold
    <2>3. CASE ~(ws_join_handle # None /\ ~IsWsOpen)
        <3>1. ~IsJoining'
            BY <1>6, <2>3, CommitDoesNotJoin DEF TasksStopped, Result
        <3>2. StaysTold
            <4>1. CASE ws_join_handle # None
                BY <1>1, <1>6, <2>1, <2>3, <4>1, TellStaysTold
                   DEF TasksStopped, IsWsOpen, WsMessage
            <4>2. CASE ws_join_handle = None
                BY <2>1, <4>2 DEF StaysTold, WasTold
            <4> QED
                BY <4>1, <4>2
        <3> QED
            BY <1>1, <3>1, <3>2, KeptJoin
    <2> QED
        BY <2>2, <2>3
<1> QED
    BY <1>3, <1>4, <1>5, <1>6 DEF Continue

-----------------------------------------------------------------------------
(* The theorem.                                                            *)

LEMMA NextKeepsJoin ==
    ASSUME TypeInv, NoForgottenTask, JoinInv, [Next]_vars
    PROVE  JoinInv'
<1>1. CASE FromCaller
    BY <1>1, CallerJoin
<1>2. CASE FromStateMachine
    BY <1>2, StateMachineJoin
<1>3. CASE FromWebSocket
    BY <1>3, WebSocketJoin
<1>4. CASE TvNetworkChecked
    <2>1. \E s : \/ Commit(Done(s)) \/ Commit(DoneSending(s, "Error"))
                \/ Commit(InitiateReconnect(s, TRUE))
        <3> DEFINE flow == SetReconnectFlowStatus(mgr,
                       IF IsAutoReconnectEnabled(mgr) THEN "WaitingForTvOnNetwork" ELSE "Inactive")
        <3>1. \/ Commit(Done(flow)) \/ Commit(DoneSending(mgr, "Error"))
              \/ Commit(InitiateReconnect(mgr, TRUE)) \/ Commit(Done(mgr))
            BY <1>4 DEF TvNetworkChecked
        <3> HIDE DEF flow
        <3> QED
            BY <3>1
    <2>2. ~IsJoining'
        <3>1. PICK s : \/ Commit(Done(s)) \/ Commit(DoneSending(s, "Error"))
                       \/ Commit(InitiateReconnect(s, TRUE))
            BY <2>1
        <3>2. /\ Done(s).pc = "select" /\ DoneSending(s, "Error").pc = "select"
              /\ InitiateReconnect(s, TRUE).pc \in {"select", "force_reset"}
            BY ResultPcs
        <3>3. CASE Commit(Done(s)) \/ Commit(DoneSending(s, "Error"))
            BY <3>2, <3>3, CommitDoesNotJoin
        <3>4. CASE Commit(InitiateReconnect(s, TRUE))
            <4> DEFINE r == InitiateReconnect(s, TRUE)
            <4>1. r.pc \in {"select", "force_reset"} /\ Commit(r)
                BY <3>2, <3>4
            <4> HIDE DEF r
            <4> QED
                BY <4>1, CommitDoesNotJoin
        <3> QED
            BY <3>1, <3>3, <3>4
    <2> QED
        BY <1>4, <2>2, UnchangedStaysTold, KeptJoin DEF TvNetworkChecked, ws_vars
<1>5. CASE Continue
    BY <1>5, ContinueJoin
<1>6. CASE FsmStep
    BY <1>6, FsmJoin
<1>7. CASE \E i \in Socket : WsTask(i) \/ WsNetwork(i)
    <2>1. /\ UNCHANGED <<from_fsm, fsm_state, mgr_pc, ws_join_handle>>
          /\ \E i \in Socket : WsTaskStep(i) \/ WsNetworkStep(i)
        BY <1>7 DEF WsTask, WsNetwork, fsm_vars, mgr_vars
    <2>2. StaysTold
        BY <2>1, WsStepStaysTold DEF TypeInv
    <2> QED
        BY <2>1, <2>2, KeptJoin DEF JoinInv, IsJoining, StaysTold
<1>8. CASE NetStep \/ UNCHANGED vars
    <2>1. UNCHANGED <<from_fsm, fsm_state, mgr_pc, ws, ws_join_handle>>
        BY <1>8 DEF NetStep, vars, fsm_vars, ws_vars, mgr_vars
    <2> QED
        BY <2>1, UnchangedStaysTold, KeptJoin DEF JoinInv, IsJoining, StaysTold
<1> QED
    BY <1>1, <1>2, <1>3, <1>4, <1>5, <1>6, <1>7, <1>8 DEF Next, ManagerStep

\* Whenever the manager awaits a join handle, and so handles nothing else, the
\* task is on its way out or has a ShutDown to read, however resets, connection
\* errors, lost connections and a Disconnect have brought it there.
THEOREM JoinsEnd == Spec => []JoinedTaskWasTold
<1>1. Init => NoForgottenTask /\ JoinInv
    BY DEF Init, WsInit, FsmInit, Disconnected, ManagerInit, NoForgottenTask, JoinInv, IsJoining,
           AllFindTaskTold
<1>2. TypeInv /\ NoForgottenTask /\ JoinInv /\ [Next]_vars => (NoForgottenTask /\ JoinInv)'
    BY NextKeepsTasks, NextKeepsJoin
<1> QED
    BY <1>1, <1>2, InitType, NextType, JoinInvImplies, PTL DEF Spec
=============================================================================
