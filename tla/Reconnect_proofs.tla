--------------------------- MODULE Reconnect_proofs ---------------------------
(***************************************************************************)
(* The manager's two waits of a reconnect: the one before a retry starts   *)
(* from rest, and the one for the TV to come back on the network has a     *)
(* connection to go back to and, if every TV is given by its IP address,   *)
(* an address that is pinged.  And the status the manager shows its caller *)
(* on the way takes the steps of the abstract flow of ConnectionStatus.    *)
(***************************************************************************)
EXTENDS WebSocketTasks_proofs

-----------------------------------------------------------------------------
(* The wait before a retry.  It is reached by way of an output that the    *)
(* machine reports right after it has become Disconnected; and a manager   *)
(* that is not shutting down has a machine to talk to, so that its status  *)
(* is not lost on the way.                                                 *)

\* Where the status is Disconnected, and where run() comes to its end.
RestPc == {"reset_connect_error", "disconnected", "sleeping"}

StopPc == {"stopping", "reset_shut_down", "stopped"}

IsEnd(update) == IsFarewell(update) \/ IsOutput(update, "HandleConnectError")

IsDisconnectedState(update) == update.kind = "State" /\ update.tag = "Disconnected"

\* An output that ends a connection comes right behind the State Disconnected.
EndsFollowDisconnected ==
    \A k \in 1 .. Len(from_fsm) :
        IsEnd(from_fsm[k]) => IF k = 1
                              THEN IsDisconnected(mgr) \/ mgr.manager_status = Zombie
                              ELSE IsDisconnectedState(from_fsm[k - 1])

IsStopping == fsm_cancelled \/ ~fsm_alive \/ mgr.manager_status = Zombie

RestInv ==
    /\ IsStopping => mgr_pc \in StopPc
    /\ mgr_pc \in RestPc => IsDisconnected(mgr)
    /\ mgr_pc = "sleeping" => ws_join_handle = None
    /\ EndsFollowDisconnected

LEMMA RestInvImplies == TypeInv /\ NoForgottenTask /\ RestInv => ReconnectFromRest
    BY DEF TypeInv, CoreOK, SleepingHasConnection, NoForgottenTask, RestInv, RestPc,
           ReconnectFromRest

LEMMA KeptStatus ==
    ASSUME RestInv, StatusKept
    PROVE  /\ mgr_pc \notin StopPc => mgr'.manager_status = mgr.manager_status
           /\ IsDisconnected(mgr) \/ mgr.manager_status = Zombie
                  => IsDisconnected(mgr)' \/ mgr'.manager_status = Zombie
    BY DEF RestInv, IsStopping, StatusKept, IsDisconnected

\* A step of the manager that reads no update of the machine.
LEMMA KeptRest ==
    ASSUME RestInv, StatusKept, UNCHANGED <<from_fsm, fsm_alive>>,
           fsm_cancelled' => fsm_cancelled \/ mgr_pc' \in StopPc,
           mgr_pc \in StopPc => mgr_pc' \in StopPc,
           mgr_pc' \in RestPc => mgr_pc \in RestPc,
           mgr_pc' = "sleeping" => ws_join_handle' = None
    PROVE  RestInv'
<1>1. EndsFollowDisconnected'
    BY KeptStatus DEF RestInv, EndsFollowDisconnected
<1>2. IsStopping' => mgr_pc' \in StopPc
    BY DEF RestInv, IsStopping, StatusKept
<1>3. mgr_pc' \in RestPc => IsDisconnected(mgr)'
    <2>1. RestPc \cap StopPc = {}
        BY DEF RestPc, StopPc
    <2> QED
        BY <2>1, KeptStatus DEF RestInv, IsDisconnected
<1> QED
    BY <1>1, <1>2, <1>3 DEF RestInv

\* A step that reads one.
LEMMA ReadRest ==
    ASSUME from_fsm \in Seq(Update), from_fsm # <<>>, RestInv, mgr_pc = "select",
           from_fsm' = Tail(from_fsm), UNCHANGED <<fsm_alive, fsm_cancelled>>,
           mgr'.manager_status # Zombie,
           IsDisconnectedState(Head(from_fsm)) => IsDisconnected(mgr)',
           mgr_pc' \in RestPc => IsDisconnected(mgr)',
           mgr_pc' # "sleeping"
    PROVE  RestInv'
<1>1. ~IsStopping'
    <2>1. "select" \notin StopPc
        BY DEF StopPc
    <2> QED
        BY <2>1 DEF RestInv, IsStopping
<1>2. EndsFollowDisconnected'
    <2> SUFFICES ASSUME NEW n \in 1 .. Len(Tail(from_fsm)), IsEnd(Tail(from_fsm)[n])
                 PROVE  IF n = 1 THEN IsDisconnected(mgr)'
                                 ELSE IsDisconnectedState(Tail(from_fsm)[n - 1])
        BY DEF EndsFollowDisconnected
    <2>1. /\ n + 1 \in 1 .. Len(from_fsm) /\ n + 1 # 1 /\ (n + 1) - 1 = n
          /\ Tail(from_fsm)[n] = from_fsm[n + 1]
          /\ n = 1 => from_fsm[n] = Head(from_fsm)
          /\ n # 1 => Tail(from_fsm)[n - 1] = from_fsm[n]
        OBVIOUS
    <2>2. IsDisconnectedState(from_fsm[n])
        BY <2>1 DEF RestInv, EndsFollowDisconnected
    <2> QED
        BY <2>1, <2>2
<1> QED
    BY <1>1, <1>2 DEF RestInv

LEMMA CallerRest ==
    ASSUME TypeInv, RestInv, FromCaller
    PROVE  RestInv'
<1>1. StatusKept
    BY CallerKeepsStatus
<1>2. UNCHANGED <<from_fsm, fsm_alive>> /\ mgr_pc = "select"
    BY DEF FromCaller, CancelReconnect, Connect, ConnectLastGoodConnection, Disconnect,
           SendTvCommand, TestConnection, ShutDown, Called, AtSelect
<1>3. ASSUME mgr_pc' \in {"select", "reset"}, UNCHANGED fsm_cancelled
      PROVE  RestInv'
    BY <1>1, <1>2, <1>3, KeptRest DEF RestPc, StopPc
<1>4. ASSUME NEW s, NEW resume, ForceManagerReset(s, resume)
      PROVE  mgr_pc' = resume
    BY <1>4 DEF ForceManagerReset, Commit, Result
<1>5. CASE CancelReconnect
    BY <1>3, <1>4, <1>5, ResultPcs DEF CancelReconnect, Commit
<1>6. CASE Connect \/ ConnectLastGoodConnection
    BY <1>3, <1>6, ResultPcs DEF Connect, ConnectLastGoodConnection, Commit
<1>7. CASE Disconnect \/ SendTvCommand
    BY <1>3, <1>7, ResultPcs DEF Disconnect, SendTvCommand, Commit
<1>8. CASE TestConnection
    BY <1>3, <1>4, <1>8, ResultPcs DEF TestConnection, SendToWs, Commit
<1>9. CASE ShutDown
    <2>1. mgr_pc' = "stopping"
        BY <1>9 DEF ShutDown, Commit, Result
    <2> QED
        BY <1>1, <1>2, <2>1, KeptRest DEF RestPc, StopPc
<1> QED
    BY <1>5, <1>6, <1>7, <1>8, <1>9 DEF FromCaller

LEMMA StateMachineRest ==
    ASSUME TypeInv, RestInv, FromStateMachine
    PROVE  RestInv'
<1>1. mgr \in ManagerState /\ from_fsm \in Seq(Update)
    BY DEF TypeInv, CoreOK, RestOK
<1>2. PICK kind, tag : Updated(kind, tag)
    BY DEF FromStateMachine, NewState, ConnectToTv, SendRegisterPayload, PairWithTv,
           InitializeConnection, SendCommand, DisconnectFromTv, HandleSuccessfulDisconnect,
           HandleDisconnectError, HandleDisconnected, HandleConnectError, TransitionError
<1>3. /\ mgr_pc = "select" /\ from_fsm # <<>> /\ from_fsm' = Tail(from_fsm)
      /\ UNCHANGED <<fsm_alive, fsm_cancelled>>
    BY <1>2 DEF Updated, AtSelect
<1>4. ~IsStopping
    BY <1>3 DEF RestInv, StopPc
<1>5. ASSUME NEW s, NEW resume, ForceManagerReset(s, resume)
      PROVE  mgr_pc' = resume
    BY <1>5 DEF ForceManagerReset, Commit, Result
<1>6. ASSUME NEW s, NEW message, SendToWs(s, message, "reset")
      PROVE  mgr_pc' \in {"select", "reset"}
    BY <1>5, <1>6, ResultPcs DEF SendToWs, Commit
<1>7. CASE NewState
    <2> DEFINE read == [tag |-> Head(from_fsm).tag, url |-> Head(from_fsm).url]
    <2>1. Head(from_fsm) \in Update /\ Head(from_fsm).kind = "State"
        BY <1>1, <1>3, <1>7 DEF NewState, Updated
    <2>2. read.tag # "Zombie"
        BY <2>1 DEF Update, StateTag
    <2>3. Commit(Done([mgr EXCEPT !.manager_status = read]))
        BY <1>7 DEF NewState
    <2>4. mgr'.manager_status = read /\ mgr_pc' = "select"
        BY <1>1, <1>4, <2>3 DEF Commit, Done, Result, IsStopping, ManagerState
    <2> QED
        BY <1>1, <1>3, <2>2, <2>4, ReadRest
           DEF RestPc, IsDisconnectedState, IsDisconnected, Zombie
<1>8. CASE ~NewState
    <2>1. Head(from_fsm).kind # "State"
        BY <1>8 DEF FromStateMachine, ConnectToTv, SendRegisterPayload, PairWithTv,
               InitializeConnection, SendCommand, DisconnectFromTv, HandleSuccessfulDisconnect,
               HandleDisconnectError, HandleDisconnected, HandleConnectError, TransitionError,
               Updated
    <2>2. mgr'.manager_status = mgr.manager_status
        BY <1>4, <1>8, OutputKeepsStatus DEF StatusKept, IsStopping
    <2>3. CASE HandleSuccessfulDisconnect \/ HandleDisconnectError \/ HandleConnectError
        <3>1. IsEnd(Head(from_fsm))
            BY <2>3 DEF HandleSuccessfulDisconnect, HandleDisconnectError, HandleDisconnected,
                   HandleConnectError, Updated, IsEnd, IsFarewell, IsOutput
        <3>2. 1 \in 1 .. Len(from_fsm) /\ Head(from_fsm) = from_fsm[1]
            BY <1>1, <1>3
        <3>3. IsDisconnected(mgr)
            BY <1>4, <3>1, <3>2 DEF RestInv, EndsFollowDisconnected, IsStopping
        <3>4. mgr_pc' \in {"disconnected", "reset_connect_error"}
            BY <1>5, <2>3 DEF HandleSuccessfulDisconnect, HandleDisconnectError,
                   HandleDisconnected, HandleConnectError, Commit, Result
        <3> QED
            BY <1>1, <1>3, <1>4, <2>1, <2>2, <3>3, <3>4, ReadRest
               DEF IsDisconnected, IsDisconnectedState, IsStopping
    <2>4. CASE ~(HandleSuccessfulDisconnect \/ HandleDisconnectError \/ HandleConnectError)
        <3>1. mgr_pc' \in {"select", "reset", "reset_initialize"}
            <4>1. CASE ConnectToTv \/ PairWithTv \/ TransitionError
                BY <4>1, ResultPcs DEF ConnectToTv, PairWithTv, TransitionError, Commit
            <4>2. CASE SendRegisterPayload \/ SendCommand
                BY <1>6, <4>2 DEF SendRegisterPayload, SendCommand
            <4>3. CASE InitializeConnection
                BY <1>5, <1>6, <4>3 DEF InitializeConnection
            <4>4. CASE DisconnectFromTv
                BY <1>6, <4>4, ResultPcs DEF DisconnectFromTv, InitiateDisconnectFromTv, Commit
            <4> QED
                BY <1>8, <2>4, <4>1, <4>2, <4>3, <4>4 DEF FromStateMachine
        <3> QED
            BY <1>1, <1>3, <1>4, <2>1, <2>2, <3>1, ReadRest
               DEF RestPc, IsDisconnectedState, IsStopping
    <2> QED
        BY <2>3, <2>4
<1> QED
    BY <1>7, <1>8

LEMMA WebSocketRest ==
    ASSUME TypeInv, RestInv, FromWebSocket
    PROVE  RestInv'
<1>1. PICK updates : Reported(updates)
    BY DEF FromWebSocket, WebSocketConnected, WebSocketDisconnected, ConnectionLost,
           ConnectionTested, GetVolume, PairRequested, PairingFailed, Registered
<1>2. \E s, tag : Commit(Done(s)) \/ Commit(DoneSending(s, tag))
    BY DEF FromWebSocket, WebSocketConnected, WebSocketDisconnected, ConnectionLost,
           ConnectionTested, GetVolume, PairRequested, PairingFailed, Registered
<1>3. mgr_pc' = "select"
    BY <1>2, ResultPcs DEF Commit
<1> QED
    BY <1>1, <1>3, WebSocketKeepsStatus, KeptRest DEF Reported, AtSelect, RestPc, StopPc

\* The result that an address is on the network again reconnects at once.
LEMMA NetworkCheckedPc ==
    ASSUME TvNetworkChecked
    PROVE  mgr_pc' \in {"select", "force_reset"}
<1> DEFINE flow == SetReconnectFlowStatus(mgr,
               IF IsAutoReconnectEnabled(mgr) THEN "WaitingForTvOnNetwork" ELSE "Inactive")
           again == InitiateReconnect(mgr, TRUE)
<1>1. \/ Commit(Done(flow)) \/ Commit(DoneSending(mgr, "Error"))
      \/ Commit(again) \/ Commit(Done(mgr))
    BY DEF TvNetworkChecked
<1>2. again.pc \in {"select", "force_reset"}
    BY ResultPcs
<1> HIDE DEF flow, again
<1> QED
    BY <1>1, <1>2, ResultPcs DEF Commit

LEMMA RetryPc ==
    ASSUME NEW s
    PROVE  InitiateReconnect(s, FALSE).pc \in {"select", "force_reset", "sleeping"}
    BY ResultPcs DEF InitiateReconnect, Result

\* After a reset, and after a sleep.
LEMMA ContinueRest ==
    ASSUME TypeInv, RestInv, Continue
    PROVE  RestInv'
<1>1. UNCHANGED <<from_fsm, fsm_alive, fsm_cancelled>> /\ StatusKept
    BY ContinueKeepsStatus DEF Continue, FinishReset, FinishConnectError, FinishInitialize,
           FinishShutDown, FinishedReset, ResetInsteadOfReconnect, FinishDisconnect,
           RetryIntervalTick, TasksStopped, Resumed
<1>2. ASSUME NEW resume, NEW r, FinishedReset(resume, r)
      PROVE  mgr_pc = resume /\ mgr_pc' = r.pc /\ ws_join_handle' = None
    <2> DEFINE longer == [r EXCEPT !.sent = ResetInput \o r.sent]
    <2>1. Commit(longer) /\ mgr_pc = resume /\ ws_join_handle' = None
        BY <1>2 DEF FinishedReset
    <2> HIDE DEF longer
    <2> QED
        BY <2>1 DEF Commit, longer
<1>3. CASE FinishReset \/ FinishInitialize
    <2>1. Done(InitializeManagerState(mgr)).pc = "select"
        BY ResultPcs
    <2>2. mgr_pc \in {"reset", "reset_initialize"} /\ mgr_pc' = "select"
        BY <1>2, <1>3, <2>1 DEF FinishReset, FinishInitialize, Result
    <2> QED
        BY <1>1, <2>2, KeptRest DEF RestPc, StopPc
<1>4. CASE FinishConnectError
    <2> DEFINE s == InitializeManagerState(mgr)
    <2>1. AfterConnectError(s).pc \in {"select", "force_reset", "sleeping"}
        BY RetryPc, ResultPcs DEF AfterConnectError
    <2>2. /\ mgr_pc = "reset_connect_error" /\ mgr_pc' = AfterConnectError(s).pc
          /\ ws_join_handle' = None
        BY <1>2, <1>4 DEF FinishConnectError
    <2> HIDE DEF s
    <2> QED
        BY <1>1, <2>1, <2>2, KeptRest DEF RestPc, StopPc
<1>5. CASE FinishShutDown
    <2>1. mgr_pc = "reset_shut_down" /\ mgr_pc' = "stopped"
        BY <1>2, <1>5 DEF FinishShutDown, Result
    <2> QED
        BY <1>1, <2>1, KeptRest DEF RestPc, StopPc
<1>6. CASE ResetInsteadOfReconnect
    <2>1. mgr_pc = "force_reset" /\ mgr_pc' = "reset"
        BY <1>6 DEF ResetInsteadOfReconnect, ForceManagerReset, Commit, Result
    <2> QED
        BY <1>1, <2>1, KeptRest DEF RestPc, StopPc
<1>7. CASE FinishDisconnect
    <2> DEFINE s == InitializeManagerState(mgr)
               unpaired == [SetReconnectFlowStatus(s, "Inactive") EXCEPT !.is_pairing = FALSE]
               again == InitiateReconnect(s, FALSE)
    <2>1. Commit(Done(s)) \/ Commit(Done(unpaired)) \/ Commit(again)
        BY <1>7 DEF FinishDisconnect
    <2>2. again.pc \in {"select", "force_reset", "sleeping"}
        BY RetryPc
    <2> HIDE DEF s, unpaired, again
    <2>3. mgr_pc' \in {"select", "force_reset", "sleeping"}
        BY <2>1, <2>2, ResultPcs DEF Commit
    <2>4. mgr_pc = "disconnected" /\ ws_join_handle' = None
        BY <1>7 DEF FinishDisconnect
    <2> QED
        BY <1>1, <2>3, <2>4, KeptRest DEF RestPc, StopPc
<1>8. CASE RetryIntervalTick
    <2>1. mgr_pc = "sleeping" /\ mgr_pc' = "select"
        BY <1>8, ResultPcs DEF RetryIntervalTick, Reconnect, Commit
    <2> QED
        BY <1>1, <2>1, KeptRest DEF RestPc, StopPc
<1>9. CASE TasksStopped
    <2>1. mgr_pc = "stopping" /\ mgr_pc' \in {"reset_shut_down", "stopped"}
        BY <1>9 DEF TasksStopped, ForceManagerReset, Commit, Result
    <2> QED
        BY <1>1, <2>1, KeptRest DEF RestPc, StopPc
<1> QED
    BY <1>3, <1>4, <1>5, <1>6, <1>7, <1>8, <1>9 DEF Continue

LEMMA RulesOfEnds ==
    ASSUME NEW rule \in Rules,
           rule.output \in {"HandleSuccessfulDisconnect", "HandleDisconnectError",
                            "HandleConnectError"}
    PROVE  rule.to = "Disconnected"
    BY DEF Rules, Rule, NoOutput

\* The machine reports an end right behind the State it leads to.
LEMMA FsmRest ==
    ASSUME TypeInv, RestInv, FsmStep
    PROVE  RestInv'
<1>1. /\ from_fsm \in Seq(Update) /\ fsm_state \in State /\ to_fsm \in Seq(Input)
      /\ UNCHANGED <<mgr, mgr_pc, ws_join_handle>>
    BY DEF TypeInv, RestOK, CoreOK, FsmStep, mgr_vars
<1>2. CASE FsmTransition
    <2>1. PICK rule \in Applicable(fsm_state, Head(to_fsm)) :
              /\ fsm_state' = Target(rule, fsm_state, Head(to_fsm))
              /\ from_fsm' = from_fsm \o Updates(rule, fsm_state')
        BY <1>2 DEF FsmTransition
    <2>2. rule \in Rules /\ fsm_state' \in State
        <3>1. Head(to_fsm) \in Input
            BY <1>1, <1>2 DEF FsmTransition
        <3> QED
            BY <1>1, <2>1, <3>1, RuleTypes DEF Applicable
    <2>3. rule.output \in {"HandleSuccessfulDisconnect", "HandleDisconnectError",
                            "HandleConnectError"} => fsm_state'.tag = "Disconnected"
        <3>1. fsm_state'.tag = rule.to
            BY <2>1 DEF Target
        <3> QED
            BY <2>2, <3>1, RulesOfEnds
    <2> DEFINE moved == StateUpdate(fsm_state')
               asked == OutputUpdate(rule.output, fsm_state')
               n == Len(from_fsm)
    <2>4. /\ n \in Nat
          /\ \A k \in 1 .. n : from_fsm'[k] = from_fsm[k]
          /\ from_fsm'[n + 1] = moved
          /\ rule.output = NoOutput => Len(from_fsm') = n + 1
          /\ rule.output # NoOutput => Len(from_fsm') = n + 2 /\ from_fsm'[n + 2] = asked
        <3>1. /\ rule.output = NoOutput => from_fsm' = from_fsm \o <<moved>>
              /\ rule.output # NoOutput => from_fsm' = from_fsm \o <<moved, asked>>
            BY <2>1 DEF Updates
        <3> HIDE DEF moved, asked
        <3> QED
            BY <1>1, <3>1
    <2>5. ~IsEnd(moved)
        BY DEF IsEnd, IsFarewell, IsOutput, StateUpdate
    <2>6. IsEnd(asked) => IsDisconnectedState(moved)
        BY <2>3 DEF IsEnd, IsFarewell, IsOutput, OutputUpdate, StateUpdate, IsDisconnectedState
    <2> HIDE DEF moved, asked, n
    <2>7. EndsFollowDisconnected'
        <3> SUFFICES ASSUME NEW k \in 1 .. Len(from_fsm'), IsEnd(from_fsm'[k])
                     PROVE  IF k = 1 THEN IsDisconnected(mgr)' \/ mgr'.manager_status = Zombie
                                     ELSE IsDisconnectedState(from_fsm'[k - 1])
            BY DEF EndsFollowDisconnected
        <3>1. CASE k \in 1 .. n
            <4>1. k # 1 => k - 1 \in 1 .. n
                BY <2>4, <3>1
            <4> QED
                BY <1>1, <2>4, <3>1, <4>1 DEF RestInv, EndsFollowDisconnected, IsDisconnected, n
        <3>2. CASE k \notin 1 .. n
            <4>1. k = n + 1 \/ (k = n + 2 /\ k # 1 /\ k - 1 = n + 1 /\ rule.output # NoOutput)
                BY <2>4, <3>2
            <4> QED
                BY <2>4, <2>5, <2>6, <4>1
        <3> QED
            BY <3>1, <3>2
    <2> QED
        BY <1>1, <1>2, <2>7 DEF FsmTransition, RestInv, IsStopping, IsDisconnected
<1>3. CASE FsmTransitionError
    <2> DEFINE refused == ErrorUpdate(Head(to_fsm))
               n == Len(from_fsm)
    <2>1. from_fsm' = Append(from_fsm, refused) /\ UNCHANGED <<fsm_alive, fsm_cancelled>>
        BY <1>3 DEF FsmTransitionError
    <2>2. ~IsEnd(refused)
        BY DEF IsEnd, IsFarewell, IsOutput, ErrorUpdate
    <2> HIDE DEF refused
    <2>3. /\ n \in Nat /\ Len(from_fsm') = n + 1 /\ from_fsm'[n + 1] = refused
          /\ \A k \in 1 .. n : from_fsm'[k] = from_fsm[k] /\ (k # 1 => k - 1 \in 1 .. n)
        BY <1>1, <2>1
    <2>4. \A k \in 1 .. n + 1 : k \in 1 .. n \/ k = n + 1
        BY <2>3
    <2>5. EndsFollowDisconnected'
        BY <1>1, <2>2, <2>3, <2>4 DEF RestInv, EndsFollowDisconnected, IsDisconnected
    <2> QED
        BY <1>1, <2>1, <2>5 DEF RestInv, IsStopping, IsDisconnected
<1>4. CASE FsmShutDown
    BY <1>1, <1>4
       DEF FsmShutDown, RestInv, IsStopping, IsDisconnected, EndsFollowDisconnected
<1> QED
    BY <1>2, <1>3, <1>4 DEF FsmStep, FsmNext

LEMMA NextKeepsRest ==
    ASSUME TypeInv, RestInv, [Next]_vars
    PROVE  RestInv'
<1>1. CASE FromCaller
    BY <1>1, CallerRest
<1>2. CASE FromStateMachine
    BY <1>2, StateMachineRest
<1>3. CASE FromWebSocket
    BY <1>3, WebSocketRest
<1>4. CASE TvNetworkChecked
    BY <1>4, NetworkCheckedPc, NetworkCheckedKeepsStatus, KeptRest
       DEF TvNetworkChecked, AtSelect, RestPc, StopPc
<1>5. CASE Continue
    BY <1>5, ContinueRest
<1>6. CASE FsmStep
    BY <1>6, FsmRest
<1>7. CASE (\E i \in Socket : WsTask(i) \/ WsNetwork(i)) \/ NetStep \/ UNCHANGED vars
    <2>1. UNCHANGED <<fsm_vars, mgr_vars>>
        BY <1>7 DEF WsTask, WsNetwork, NetStep, vars
    <2> QED
        BY <2>1 DEF fsm_vars, mgr_vars, RestInv, IsStopping, IsDisconnected,
                    EndsFollowDisconnected
<1> QED
    BY <1>1, <1>2, <1>3, <1>4, <1>5, <1>6, <1>7 DEF Next, ManagerStep

\* The wait before a reconnect only starts from rest, for good: the manager is
\* Disconnected, has a connection to go back to, and has joined the old task.
THEOREM ReconnectsFromRest == Spec => []ReconnectFromRest
<1>1. Init => NoForgottenTask /\ RestInv
    BY DEF Init, WsInit, FsmInit, Disconnected, ManagerInit, ImportPersistedState, Zombie,
           NoForgottenTask, RestInv, IsStopping, RestPc, EndsFollowDisconnected
<1>2. TypeInv /\ NoForgottenTask /\ RestInv /\ [Next]_vars => (NoForgottenTask /\ RestInv)'
    BY NextKeepsTasks, NextKeepsRest
<1> QED
    BY <1>1, <1>2, InitType, NextType, RestInvImplies, PTL DEF Spec

-----------------------------------------------------------------------------
(* Waiting for the TV.  A flow that waits has a connection to go back to,  *)
(* and a connection has given the checker an address: but a host name has  *)
(* none, so that this only holds if every TV is given by its IP address.   *)

ByAddress == \A c \in Connection : c.url \in IpUrl \cup {None}

\* Of the manager's fields s and the address ip that is being pinged.
HasWhereToGo(s, ip) ==
    /\ s.reconnect_flow_status = "WaitingForTvOnNetwork" => s.connection_details # None
    /\ s.connection_details # None => ip # None

LEMMA HasWhereToGoImplies == HasWhereToGo(mgr, tv_ip) => WaitingKeepsConnection
    BY DEF HasWhereToGo, WaitingKeepsConnection

LEMMA FlowWhere ==
    ASSUME NEW s \in ManagerState, NEW ip, HasWhereToGo(s, ip), NEW status,
           status = "WaitingForTvOnNetwork" => s.connection_details # None
    PROVE  HasWhereToGo(SetReconnectFlowStatus(s, status), ip)
    BY DEF SetReconnectFlowStatus, ManagerState, HasWhereToGo

LEMMA FieldsWhere ==
    ASSUME NEW s \in ManagerState, NEW ip, HasWhereToGo(s, ip)
    PROVE  /\ \A b \in BOOLEAN :
                /\ HasWhereToGo([s EXCEPT !.is_manual_disconnect_requested = b], ip)
                /\ HasWhereToGo([s EXCEPT !.is_pairing = b], ip)
                /\ HasWhereToGo([s EXCEPT !.is_connection_initialized = b], ip)
           /\ \A status \in ManagerStatus : HasWhereToGo([s EXCEPT !.manager_status = status], ip)
           /\ \A n \in 0 .. 1 : HasWhereToGo([s EXCEPT !.session_connection_count = n], ip)
           /\ \A k \in KeyOption : HasWhereToGo([s EXCEPT !.client_key = k], ip)
           /\ \A n \in 0 .. MaxAttempts : HasWhereToGo([s EXCEPT !.reconnect_attempts = n], ip)
           /\ HasWhereToGo(Remembered(s), ip)
    BY DEF ManagerState, Remembered, HasWhereToGo

\* A reset only forgets the connection when no flow waits for it.
LEMMA InitializeWhere ==
    ASSUME NEW s \in ManagerState, disk \in PersistedState \cup {None}, NEW ip,
           HasWhereToGo(s, ip)
    PROVE  HasWhereToGo(InitializeManagerState(s), ip)
<1> DEFINE uninitialized == [s EXCEPT !.is_connection_initialized = FALSE]
           kept == IF IsReconnectFlow(s) THEN uninitialized
                                         ELSE ForgetConnection(uninitialized)
           settled == IF s.reconnect_flow_status = "Cancelled"
                      THEN SetReconnectFlowStatus(kept, "Inactive")
                      ELSE kept
<1>1. /\ uninitialized \in ManagerState /\ HasWhereToGo(uninitialized, ip)
      /\ uninitialized.reconnect_flow_status = s.reconnect_flow_status
    BY FieldTypes, FieldsWhere DEF ManagerState
<1> HIDE DEF uninitialized
<1>2. ~IsReconnectFlow(s) => HasWhereToGo(ForgetConnection(uninitialized), ip)
    BY <1>1 DEF IsReconnectFlow, ForgetConnection, ManagerState, HasWhereToGo
<1>3. kept \in ManagerState /\ HasWhereToGo(kept, ip)
    BY <1>1, <1>2, ForgetType
<1> HIDE DEF kept
<1>4. settled \in ManagerState /\ HasWhereToGo(settled, ip)
    BY <1>3, SetFlowType, FlowTypes, FlowWhere
<1> HIDE DEF settled
<1>5. HasWhereToGo(ImportPersistedState(settled), ip)
    BY <1>4 DEF ImportPersistedState, ManagerState, HasWhereToGo
<1> QED
    BY <1>5 DEF InitializeManagerState, settled, kept, uninitialized

LEMMA PrepareWhere ==
    ASSUME NEW s \in ManagerState, NEW ip, HasWhereToGo(s, ip)
    PROVE  HasWhereToGo(OptionallyPrepareForReconnect(s), ip)
<1>1. FlowAfterLostConnection(s) = "WaitingForTvOnNetwork" => s.connection_details # None
    BY DEF FlowAfterLostConnection, IsAutoReconnectEnabled
<1> QED
    BY <1>1, FlowWhere DEF OptionallyPrepareForReconnect

\* A connection that is asked for hands its address to the checker.
LEMMA InitiateConnectWhere ==
    ASSUME ByAddress, NEW s \in ManagerState, NEW c \in Connection, tv_ip \in UrlOption,
           HasWhereToGo(s, tv_ip)
    PROVE  LET r == InitiateConnectToTv(s, c) IN HasWhereToGo(r.mgr, r.tv_ip)
<1> DEFINE keyed == WithClientKey(s, c)
           chosen == [keyed EXCEPT !.connection_details = c]
           flow == SetReconnectFlowStatus(chosen,
                       IF c.initial_connect_retries THEN "Active" ELSE "Inactive")
<1>1. c \in ConnectionType
    BY TypesAssumption
<1>2. keyed \in ManagerState /\ HasWhereToGo(keyed, tv_ip)
    <2>1. c.client_key \in KeyOption
        BY <1>1 DEF ConnectionType
    <2> QED
        BY <2>1, FieldTypes, FieldsWhere DEF WithClientKey
<1> HIDE DEF keyed
<1>3. CASE ~IsDisconnected(s) \/ c.url = None
    BY <1>2, <1>3 DEF InitiateConnectToTv, Done, Result, keyed
<1>4. CASE IsDisconnected(s) /\ c.url # None
    <2>1. TvIpFor(c.url) # None
        BY <1>4, TypesAssumption DEF ByAddress, TvIpFor
    <2>2. chosen \in ManagerState
        BY <1>2 DEF ManagerState, ConnectionOption
    <2>3. flow.reconnect_flow_status # "WaitingForTvOnNetwork"
        <3> HIDE DEF chosen
        <3> QED
            BY <2>2 DEF SetReconnectFlowStatus, ManagerState
    <2>4. flow \in ManagerState
        <3> HIDE DEF chosen
        <3> QED
            BY <2>2, SetFlowType, FlowTypes
    <2>5. Connecting(keyed, c) = [flow EXCEPT !.ws_url = c.url]
        BY DEF Connecting
    <2> HIDE DEF flow
    <2>6. Connecting(keyed, c).reconnect_flow_status # "WaitingForTvOnNetwork"
        BY <2>3, <2>4, <2>5 DEF ManagerState
    <2>7. InitiateConnectToTv(s, c) =
              [mgr |-> Connecting(keyed, c), sent |-> <<ConnectInput(c.url)>>,
               pc |-> "select", tv_ip |-> TvIpFor(c.url)]
        BY <1>4 DEF InitiateConnectToTv, Result, keyed
    <2> QED
        BY <2>1, <2>6, <2>7 DEF HasWhereToGo
<1> QED
    BY <1>3, <1>4

LEMMA ReconnectWhere ==
    ASSUME ByAddress, NEW s \in ManagerState, s.connection_details # None, tv_ip \in UrlOption,
           HasWhereToGo(s, tv_ip)
    PROVE  LET r == Reconnect(s) IN HasWhereToGo(r.mgr, r.tv_ip)
<1> DEFINE attempts == IF s.reconnect_attempts < MaxAttempts
                       THEN s.reconnect_attempts + 1 ELSE s.reconnect_attempts
           counted == [s EXCEPT !.reconnect_attempts = attempts]
<1>1. attempts \in 0 .. MaxAttempts
    BY ManagerAssumption DEF ManagerState
<1>2. s.connection_details \in Connection
    BY DEF ManagerState, ConnectionOption
<1>3. Reconnect(s) = InitiateConnectToTv(counted, s.connection_details)
    BY DEF Reconnect
<1> HIDE DEF attempts
<1>4. counted \in ManagerState /\ HasWhereToGo(counted, tv_ip)
    BY <1>1, FieldsWhere DEF ManagerState
<1> HIDE DEF counted
<1> QED
    BY <1>2, <1>3, <1>4, InitiateConnectWhere

LEMMA InitiateReconnectWhere ==
    ASSUME ByAddress, NEW s \in ManagerState, NEW immediate \in BOOLEAN, tv_ip \in UrlOption,
           HasWhereToGo(s, tv_ip)
    PROVE  LET r == InitiateReconnect(s, immediate) IN HasWhereToGo(r.mgr, r.tv_ip)
<1> DEFINE active == SetReconnectFlowStatus(s, "Active")
           stopped == SetReconnectFlowStatus(active, "Inactive")
<1>1. /\ active \in ManagerState /\ HasWhereToGo(active, tv_ip)
      /\ active.connection_details = s.connection_details
    BY SetFlowType, FlowTypes, FlowWhere
<1> HIDE DEF active
<1>2. HasWhereToGo(stopped, tv_ip)
    BY <1>1, FlowWhere
<1> HIDE DEF stopped
<1>3. \A r, sent, pc : /\ Result(r, sent, pc).mgr = r
                       /\ Result(r, sent, pc).tv_ip = tv_ip
    BY DEF Result
<1>4. s.connection_details # None =>
          LET r == Reconnect(active) IN HasWhereToGo(r.mgr, r.tv_ip)
    BY <1>1, ReconnectWhere
<1> QED
    BY <1>1, <1>2, <1>3, <1>4 DEF InitiateReconnect, Done, active, stopped

LEMMA CommitWhere ==
    ASSUME NEW r, r.mgr \in ManagerState, HasWhereToGo(r.mgr, r.tv_ip), Commit(r)
    PROVE  HasWhereToGo(mgr', tv_ip')
    BY DEF Commit, ManagerState, HasWhereToGo

\* A handler that leaves the fields s and the address alone.
LEMMA HandlerWhere ==
    ASSUME NEW s \in ManagerState, HasWhereToGo(s, tv_ip),
           NEW sent, NEW pc, NEW message, NEW tag,
           \/ Commit(Result(s, sent, pc)) \/ Commit(Done(s)) \/ Commit(DoneSending(s, tag))
           \/ ForceManagerReset(s, pc) \/ SendToWs(s, message, pc)
    PROVE  HasWhereToGo(mgr', tv_ip')
    BY CommitWhere DEF ForceManagerReset, SendToWs, Done, DoneSending, Result

\* A handler that ends in initiate_connect_to_tv or initiate_reconnect.
LEMMA ConnectingWhere ==
    ASSUME ByAddress, NEW s \in ManagerState, HasWhereToGo(s, tv_ip), tv_ip \in UrlOption,
           \/ \E c \in Connection : Commit(InitiateConnectToTv(s, c))
           \/ \E immediate \in BOOLEAN : Commit(InitiateReconnect(s, immediate))
           \/ s.connection_details # None /\ Commit(Reconnect(s))
    PROVE  HasWhereToGo(mgr', tv_ip')
<1>1. ASSUME NEW c \in Connection, Commit(InitiateConnectToTv(s, c))
      PROVE  HasWhereToGo(mgr', tv_ip')
    <2>1. InitiateConnectToTv(s, c).mgr \in ManagerState
        BY InitiateConnectType DEF IsResult, ResultType
    <2> QED
        BY <1>1, <2>1, InitiateConnectWhere, CommitWhere
<1>2. ASSUME NEW immediate \in BOOLEAN, Commit(InitiateReconnect(s, immediate))
      PROVE  HasWhereToGo(mgr', tv_ip')
    <2>1. InitiateReconnect(s, immediate).mgr \in ManagerState
        BY InitiateReconnectType DEF IsResult, ResultType
    <2> QED
        BY <1>2, <2>1, InitiateReconnectWhere, CommitWhere
<1>3. ASSUME s.connection_details # None, Commit(Reconnect(s))
      PROVE  HasWhereToGo(mgr', tv_ip')
    <2>1. Reconnect(s).mgr \in ManagerState
        BY <1>3, ReconnectType DEF IsResult, ResultType
    <2> QED
        BY <1>3, <2>1, ReconnectWhere, CommitWhere
<1> QED
    BY <1>1, <1>2, <1>3

LEMMA CallerWhere ==
    ASSUME ByAddress, TypeInv, HasWhereToGo(mgr, tv_ip), FromCaller
    PROVE  HasWhereToGo(mgr', tv_ip')
<1>1. mgr \in ManagerState /\ tv_ip \in UrlOption
    BY DEF TypeInv, CoreOK
<1>2. CASE CancelReconnect
    <2> DEFINE cancelled == SetReconnectFlowStatus(mgr, "Cancelled")
    <2>1. cancelled \in ManagerState /\ HasWhereToGo(cancelled, tv_ip)
        BY <1>1, SetFlowType, FlowTypes, FlowWhere
    <2>2. \/ Commit(Done(cancelled)) \/ ForceManagerReset(cancelled, "reset") \/ Commit(Done(mgr))
        BY <1>2 DEF CancelReconnect
    <2> HIDE DEF cancelled
    <2> QED
        BY <1>1, <2>1, <2>2, HandlerWhere
<1>3. CASE Connect
    BY <1>1, <1>3, ConnectingWhere DEF Connect
<1>4. CASE ConnectLastGoodConnection
    <2>1. mgr.last_good_connection # None => mgr.last_good_connection \in Connection
        BY <1>1 DEF ManagerState, ConnectionOption
    <2>2. Commit(Done(mgr)) \/ \E c \in Connection : Commit(InitiateConnectToTv(mgr, c))
        BY <1>4, <2>1 DEF ConnectLastGoodConnection
    <2> QED
        BY <1>1, <2>2, HandlerWhere, ConnectingWhere
<1>5. CASE Disconnect
    <2> DEFINE asked == [mgr EXCEPT !.is_manual_disconnect_requested = TRUE]
    <2>1. asked \in ManagerState /\ HasWhereToGo(asked, tv_ip)
        BY <1>1, FieldTypes, FieldsWhere
    <2>2. Commit(DoneSending(asked, "Disconnect"))
        BY <1>5 DEF Disconnect
    <2> HIDE DEF asked
    <2> QED
        BY <2>1, <2>2, HandlerWhere
<1>6. CASE SendTvCommand \/ TestConnection \/ ShutDown
    BY <1>1, <1>6, HandlerWhere DEF SendTvCommand, TestConnection, ShutDown
<1> QED
    BY <1>2, <1>3, <1>4, <1>5, <1>6 DEF FromCaller

LEMMA StateMachineWhere ==
    ASSUME TypeInv, HasWhereToGo(mgr, tv_ip), FromStateMachine
    PROVE  HasWhereToGo(mgr', tv_ip')
<1>1. mgr \in ManagerState /\ from_fsm \in Seq(Update)
    BY DEF TypeInv, CoreOK, RestOK
<1>2. CASE NewState
    <2> DEFINE read == [tag |-> Head(from_fsm).tag, url |-> Head(from_fsm).url]
               told == [mgr EXCEPT !.manager_status = read]
    <2>1. Head(from_fsm) \in Update /\ Head(from_fsm).kind = "State"
        BY <1>1, <1>2 DEF NewState, Updated
    <2>2. read \in ManagerStatus
        BY <2>1 DEF Update, State, ManagerStatus
    <2> HIDE DEF read
    <2>3. told \in ManagerState /\ HasWhereToGo(told, tv_ip)
        BY <1>1, <2>2, FieldTypes, FieldsWhere
    <2>4. Commit(Done(told))
        BY <1>2 DEF NewState, read
    <2> HIDE DEF told
    <2> QED
        BY <2>3, <2>4, HandlerWhere
<1>3. CASE ConnectToTv \/ SendCommand \/ HandleConnectError \/ TransitionError
    BY <1>1, <1>3, HandlerWhere
       DEF ConnectToTv, SendCommand, HandleConnectError, TransitionError
<1>4. CASE SendRegisterPayload
    <2> DEFINE inactive == SetReconnectFlowStatus(mgr, "Inactive")
               counted == [inactive EXCEPT !.session_connection_count = 1]
    <2>1. inactive \in ManagerState /\ HasWhereToGo(inactive, tv_ip)
        BY <1>1, SetFlowType, FlowTypes, FlowWhere
    <2>2. SendToWs(counted, "Register", "reset")
        BY <1>4 DEF SendRegisterPayload
    <2> HIDE DEF inactive
    <2>3. counted \in ManagerState /\ HasWhereToGo(counted, tv_ip)
        <3>1. 1 \in 0 .. 1
            OBVIOUS
        <3> QED
            BY <2>1, <3>1, FieldTypes, FieldsWhere
    <2> HIDE DEF counted
    <2> QED
        BY <2>2, <2>3, HandlerWhere
<1>5. ASSUME NEW b \in BOOLEAN
      PROVE  LET paired == [mgr EXCEPT !.is_pairing = b]
             IN  /\ paired \in ManagerState /\ HasWhereToGo(paired, tv_ip)
                 /\ Remembered(paired) \in ManagerState
                 /\ HasWhereToGo(Remembered(paired), tv_ip)
    <2> DEFINE paired == [mgr EXCEPT !.is_pairing = b]
    <2>1. paired \in ManagerState /\ HasWhereToGo(paired, tv_ip)
        BY <1>1, FieldTypes, FieldsWhere
    <2> HIDE DEF paired
    <2>2. Remembered(paired) \in ManagerState /\ HasWhereToGo(Remembered(paired), tv_ip)
        BY <2>1, FieldTypes, FieldsWhere
    <2> QED
        BY <2>1, <2>2 DEF paired
<1>6. CASE PairWithTv
    BY <1>5, <1>6, HandlerWhere DEF PairWithTv
<1>7. CASE InitializeConnection
    <2> DEFINE paired == [mgr EXCEPT !.is_pairing = FALSE]
    <2>1. /\ paired \in ManagerState /\ HasWhereToGo(paired, tv_ip)
          /\ Remembered(paired) \in ManagerState
          /\ HasWhereToGo(Remembered(paired), tv_ip)
        BY <1>5
    <2>2. \/ ForceManagerReset(paired, "reset_initialize")
          \/ SendToWs(Remembered(paired), "Initialize", "reset")
        BY <1>7 DEF InitializeConnection
    <2> HIDE DEF paired
    <2> QED
        BY <2>1, <2>2, HandlerWhere
<1>8. CASE DisconnectFromTv
    <2> DEFINE prepared == OptionallyPrepareForReconnect(mgr)
    <2>1. prepared \in ManagerState /\ HasWhereToGo(prepared, tv_ip)
        BY <1>1, PrepareType, PrepareWhere
    <2>2. Commit(Done(prepared)) \/ SendToWs(prepared, "ShutDown", "reset")
        BY <1>8 DEF DisconnectFromTv, InitiateDisconnectFromTv
    <2> HIDE DEF prepared
    <2> QED
        BY <2>1, <2>2, HandlerWhere
<1>9. CASE HandleSuccessfulDisconnect \/ HandleDisconnectError
    <2> DEFINE done == [mgr EXCEPT !.is_manual_disconnect_requested = FALSE]
    <2>1. done \in ManagerState /\ HasWhereToGo(done, tv_ip)
        BY <1>1, FieldTypes, FieldsWhere
    <2>2. Commit(Result(done, <<>>, "disconnected"))
        BY <1>9 DEF HandleSuccessfulDisconnect, HandleDisconnectError, HandleDisconnected
    <2> HIDE DEF done
    <2> QED
        BY <2>1, <2>2, HandlerWhere
<1> QED
    BY <1>2, <1>3, <1>4, <1>6, <1>7, <1>8, <1>9 DEF FromStateMachine

LEMMA WebSocketWhere ==
    ASSUME TypeInv, HasWhereToGo(mgr, tv_ip), FromWebSocket
    PROVE  HasWhereToGo(mgr', tv_ip')
<1>1. mgr \in ManagerState /\ WsTypeOK
    BY DEF TypeInv, CoreOK
<1>2. CASE ConnectionLost
    BY <1>1, <1>2, PrepareType, PrepareWhere, HandlerWhere DEF ConnectionLost
<1>3. CASE GetVolume
    <2> DEFINE initialized == [mgr EXCEPT !.is_connection_initialized = TRUE]
    <2>1. initialized \in ManagerState /\ HasWhereToGo(initialized, tv_ip)
        BY <1>1, FieldTypes, FieldsWhere
    <2>2. Commit(Done(mgr)) \/ Commit(DoneSending(initialized, "StartCommunication"))
        BY <1>3 DEF GetVolume
    <2> HIDE DEF initialized
    <2> QED
        BY <1>1, <2>1, <2>2, HandlerWhere
<1>4. CASE Registered
    <2> DEFINE registered == [mgr EXCEPT !.client_key = ws[cur_ws].host]
    <2>1. ws[cur_ws].host \in KeyOption
        BY <1>1, <1>4 DEF Registered, Reported, WsTypeOK, SocketState, KeyOption, Key, UrlOption
    <2>2. registered \in ManagerState /\ HasWhereToGo(registered, tv_ip)
        BY <1>1, <2>1, FieldTypes, FieldsWhere
    <2>3. Commit(DoneSending(registered, "Initialize"))
        BY <1>4 DEF Registered
    <2> HIDE DEF registered
    <2> QED
        BY <2>2, <2>3, HandlerWhere
<1>5. CASE ConnectionTested
    <2>1. Commit(Done(mgr)) \/ Commit(DoneSending(mgr, "Error"))
        BY <1>5 DEF ConnectionTested
    <2> QED
        BY <1>1, <2>1, HandlerWhere
<1>6. CASE WebSocketConnected \/ WebSocketDisconnected \/ PairRequested \/ PairingFailed
    BY <1>1, <1>6, HandlerWhere
       DEF WebSocketConnected, WebSocketDisconnected, PairRequested, PairingFailed
<1> QED
    BY <1>2, <1>3, <1>4, <1>5, <1>6 DEF FromWebSocket

LEMMA NetworkCheckedWhere ==
    ASSUME ByAddress, TypeInv, HasWhereToGo(mgr, tv_ip), TvNetworkChecked
    PROVE  HasWhereToGo(mgr', tv_ip')
<1>1. mgr \in ManagerState /\ tv_ip \in UrlOption
    BY DEF TypeInv, CoreOK
<1> DEFINE flow == SetReconnectFlowStatus(mgr,
               IF IsAutoReconnectEnabled(mgr) THEN "WaitingForTvOnNetwork" ELSE "Inactive")
<1>2. flow \in ManagerState /\ HasWhereToGo(flow, tv_ip)
    <2>1. IsAutoReconnectEnabled(mgr) => mgr.connection_details # None
        BY DEF IsAutoReconnectEnabled
    <2> QED
        BY <1>1, <2>1, SetFlowType, FlowTypes, FlowWhere
<1>3. \/ Commit(Done(flow)) \/ Commit(DoneSending(mgr, "Error"))
      \/ Commit(InitiateReconnect(mgr, TRUE)) \/ Commit(Done(mgr))
    BY DEF TvNetworkChecked
<1> HIDE DEF flow
<1> QED
    BY <1>1, <1>2, <1>3, HandlerWhere, ConnectingWhere

LEMMA ContinueWhere ==
    ASSUME ByAddress, TypeInv, HasWhereToGo(mgr, tv_ip), Continue
    PROVE  HasWhereToGo(mgr', tv_ip')
<1>1. mgr \in ManagerState /\ tv_ip \in UrlOption /\ disk \in PersistedState \cup {None}
    BY DEF TypeInv, CoreOK, RestOK
<1> DEFINE initialized == InitializeManagerState(mgr)
           inactive == SetReconnectFlowStatus(initialized, "Inactive")
           again == InitiateReconnect(initialized, FALSE)
<1>2. initialized \in ManagerState /\ HasWhereToGo(initialized, tv_ip)
    BY <1>1, InitializeType, InitializeWhere
<1> HIDE DEF initialized
<1>3. inactive \in ManagerState /\ HasWhereToGo(inactive, tv_ip)
    BY <1>2, SetFlowType, FlowTypes, FlowWhere
<1>4. again \in ResultType /\ HasWhereToGo(again.mgr, again.tv_ip)
    BY <1>1, <1>2, InitiateReconnectType, InitiateReconnectWhere DEF IsResult
<1> HIDE DEF inactive, again
<1>5. \A s, sent, pc : Result(s, sent, pc).mgr = s /\ Result(s, sent, pc).tv_ip = tv_ip
    BY DEF Result
<1>6. ASSUME NEW resume, NEW r, r.mgr \in ManagerState, HasWhereToGo(r.mgr, r.tv_ip),
             FinishedReset(resume, r)
      PROVE  HasWhereToGo(mgr', tv_ip')
    <2> DEFINE longer == [r EXCEPT !.sent = ResetInput \o r.sent]
    <2>1. Commit(longer)
        BY <1>6 DEF FinishedReset
    <2>2. longer.mgr = r.mgr /\ longer.tv_ip = r.tv_ip
        OBVIOUS
    <2> HIDE DEF longer
    <2> QED
        BY <1>6, <2>1, <2>2, CommitWhere
<1>7. CASE FinishReset
    BY <1>2, <1>5, <1>6, <1>7 DEF FinishReset, Done, initialized
<1>8. CASE FinishConnectError
    <2>1. AfterConnectError(initialized) \in {Done(initialized), Done(inactive), again}
        BY DEF AfterConnectError, inactive, again
    <2> DEFINE r == AfterConnectError(initialized)
    <2>2. r.mgr \in ManagerState /\ HasWhereToGo(r.mgr, r.tv_ip)
        BY <1>2, <1>3, <1>4, <1>5, <2>1 DEF Done, ResultType
    <2> QED
        BY <1>6, <1>8, <2>2 DEF FinishConnectError, initialized
<1>9. CASE FinishInitialize
    <2> DEFINE resets == [k \in 1 .. 5 |-> InputOf("Reset")]
               r == Result(Remembered(initialized), resets, "select")
    <2>1. FinishedReset("reset_initialize", r)
        BY <1>9 DEF FinishInitialize, initialized
    <2> HIDE DEF resets
    <2>2. Remembered(initialized) \in ManagerState
              /\ HasWhereToGo(Remembered(initialized), tv_ip)
        BY <1>2, FieldTypes, FieldsWhere
    <2>3. r.mgr = Remembered(initialized) /\ r.tv_ip = tv_ip
        BY <1>5
    <2> HIDE DEF r
    <2> QED
        BY <1>6, <2>1, <2>2, <2>3
<1>10. CASE FinishShutDown
    BY <1>2, <1>5, <1>6, <1>10 DEF FinishShutDown, initialized
<1>11. CASE ResetInsteadOfReconnect
    BY <1>1, <1>11, HandlerWhere DEF ResetInsteadOfReconnect
<1>12. CASE FinishDisconnect
    <2> DEFINE unpaired == [inactive EXCEPT !.is_pairing = FALSE]
    <2>1. Commit(Done(initialized)) \/ Commit(Done(unpaired)) \/ Commit(again)
        BY <1>12 DEF FinishDisconnect, initialized, inactive, again
    <2>2. unpaired \in ManagerState /\ HasWhereToGo(unpaired, tv_ip)
        BY <1>3, FieldTypes, FieldsWhere
    <2> HIDE DEF unpaired
    <2>3. Commit(again) => HasWhereToGo(mgr', tv_ip')
        BY <1>4, CommitWhere DEF ResultType
    <2> QED
        BY <1>2, <2>1, <2>2, <2>3, HandlerWhere
<1>13. CASE RetryIntervalTick
    <2>1. mgr.connection_details # None /\ Commit(Reconnect(mgr))
        BY <1>13 DEF RetryIntervalTick, TypeInv, CoreOK, SleepingHasConnection
    <2> QED
        BY <1>1, <2>1, ConnectingWhere
<1>14. CASE TasksStopped
    BY <1>1, <1>14, HandlerWhere DEF TasksStopped
<1> QED
    BY <1>7, <1>8, <1>9, <1>10, <1>11, <1>12, <1>13, <1>14 DEF Continue

LEMMA NextKeepsWhere ==
    ASSUME ByAddress, TypeInv, HasWhereToGo(mgr, tv_ip), [Next]_vars
    PROVE  HasWhereToGo(mgr', tv_ip')
<1>1. CASE FromCaller
    BY <1>1, CallerWhere
<1>2. CASE FromStateMachine
    BY <1>2, StateMachineWhere
<1>3. CASE FromWebSocket
    BY <1>3, WebSocketWhere
<1>4. CASE TvNetworkChecked
    BY <1>4, NetworkCheckedWhere
<1>5. CASE Continue
    BY <1>5, ContinueWhere
<1>6. CASE FsmStep \/ (\E i \in Socket : WsTask(i) \/ WsNetwork(i)) \/ NetStep \/ UNCHANGED vars
    <2>1. UNCHANGED <<mgr, tv_ip>>
        BY <1>6 DEF FsmStep, WsTask, WsNetwork, NetStep, StoreResult, NotifyManager,
                    vars, checker_vars, net_vars, mgr_vars
    <2> QED
        BY <2>1
<1> QED
    BY <1>1, <1>2, <1>3, <1>4, <1>5, <1>6 DEF Next, ManagerStep

\* If every TV is given by its IP address, a manager that waits for the TV to
\* come back on the network has a connection to go back to and pings an address.
THEOREM WaitsForAnAddress == ASSUME ByAddress PROVE Spec => []WaitingKeepsConnection
<1>1. Init => HasWhereToGo(mgr, tv_ip)
    <2> SUFFICES ASSUME Init PROVE HasWhereToGo(mgr, tv_ip)
        OBVIOUS
    <2>1. mgr.connection_details = None /\ mgr.reconnect_flow_status = "Inactive"
        BY DEF Init, ManagerInit, ImportPersistedState
    <2> QED
        BY <2>1 DEF HasWhereToGo
<1>2. TypeInv /\ HasWhereToGo(mgr, tv_ip) /\ [Next]_vars => HasWhereToGo(mgr, tv_ip)'
    BY NextKeepsWhere
<1> QED
    BY <1>1, <1>2, InitType, NextType, HasWhereToGoImplies, PTL DEF Spec

-----------------------------------------------------------------------------
(* The connection flow.  The machine's transitions take its steps; the     *)
(* manager learns of them through a queue, so that each State in the queue *)
(* must lead on from the one before it, and the first from the status the  *)
(* manager has.  A zombie, which is shown for good, reads no more of them. *)
(* Below, the flow as a relation between two statuses, State updates       *)
(* included.                                                               *)

Moves == { <<"Connecting", "Connected">>,
           <<"Connected", "Pairing">>, <<"Connected", "Initializing">>,
           <<"Pairing", "Initializing">>, <<"Initializing", "Communicating">>,
           <<"Connected", "Disconnecting">>, <<"Pairing", "Disconnecting">>,
           <<"Initializing", "Disconnecting">>, <<"Communicating", "Disconnecting">> }

Follows(before, after) ==
    \/ IsState(after, before)
    \/ before.tag = "Disconnected" /\ after.tag = "Connecting" /\ after.url \in Url
    \/ after.url = before.url /\ <<before.tag, after.tag>> \in Moves
    \/ IsState(after, Disconnected)

\* Each State in the queue follows the one before it, the first of them s.
LeadsOn(s, queue) ==
    \A k \in 1 .. Len(queue) :
        queue[k].kind = "State" =>
            /\ (\A m \in 1 .. k - 1 : queue[m].kind # "State") => Follows(s, queue[k])
            /\ \A j \in 1 .. k - 1 :
                   /\ queue[j].kind = "State"
                   /\ \A m \in j + 1 .. k - 1 : queue[m].kind # "State"
                   => Follows(queue[j], queue[k])

\* Reading an update: a State takes the place of s.
LEMMA ReadLeadsOn ==
    ASSUME NEW queue \in Seq(Update), queue # <<>>, NEW s, LeadsOn(s, queue)
    PROVE  IF Head(queue).kind = "State"
           THEN Follows(s, Head(queue)) /\ LeadsOn(Head(queue), Tail(queue))
           ELSE LeadsOn(s, Tail(queue))
<1> DEFINE rest == Tail(queue)
<1>1. /\ Len(queue) \in Nat \ {0} /\ Len(rest) = Len(queue) - 1
      /\ Head(queue) = queue[1]
      /\ \A k \in 1 .. Len(queue) - 1 : rest[k] = queue[k + 1]
    OBVIOUS
<1> HIDE DEF rest
<1>2. Head(queue).kind = "State" => Follows(s, Head(queue))
    <2>1. 1 \in 1 .. Len(queue) /\ \A m \in 1 .. 1 - 1 : queue[m].kind # "State"
        BY <1>1
    <2> QED
        BY <1>1, <2>1 DEF LeadsOn
<1>3. ASSUME NEW k \in 1 .. Len(rest), rest[k].kind = "State",
             NEW j \in 1 .. k - 1, rest[j].kind = "State",
             \A m \in j + 1 .. k - 1 : rest[m].kind # "State"
      PROVE  Follows(rest[j], rest[k])
    <2>1. /\ k + 1 \in 1 .. Len(queue) /\ rest[k] = queue[k + 1]
          /\ j + 1 \in 1 .. (k + 1) - 1 /\ rest[j] = queue[j + 1]
        BY <1>1
    <2>2. ASSUME NEW m \in (j + 1) + 1 .. (k + 1) - 1
          PROVE  queue[m].kind # "State"
        <3>1. m - 1 \in j + 1 .. k - 1 /\ queue[m] = rest[m - 1]
            BY <1>1
        <3> QED
            BY <1>3, <3>1
    <2> QED
        BY <1>3, <2>1, <2>2 DEF LeadsOn
<1>4. ASSUME NEW k \in 1 .. Len(rest), rest[k].kind = "State",
             \A m \in 1 .. k - 1 : rest[m].kind # "State"
      PROVE  IF Head(queue).kind = "State" THEN Follows(Head(queue), rest[k])
                                           ELSE Follows(s, rest[k])
    <2>1. k + 1 \in 1 .. Len(queue) /\ rest[k] = queue[k + 1] /\ 1 \in 1 .. (k + 1) - 1
        BY <1>1
    <2>2. ASSUME NEW m \in 1 + 1 .. (k + 1) - 1
          PROVE  queue[m].kind # "State"
        <3>1. m - 1 \in 1 .. k - 1 /\ queue[m] = rest[m - 1]
            BY <1>1
        <3> QED
            BY <1>4, <3>1
    <2>3. CASE Head(queue).kind = "State"
        BY <1>1, <1>4, <2>1, <2>2, <2>3 DEF LeadsOn
    <2>4. CASE Head(queue).kind # "State"
        <3>1. \A m \in 1 .. (k + 1) - 1 : m = 1 \/ m \in 1 + 1 .. (k + 1) - 1
            BY <1>1
        <3>2. \A m \in 1 .. (k + 1) - 1 : queue[m].kind # "State"
            BY <1>1, <2>2, <2>4, <3>1
        <3> QED
            BY <1>4, <2>1, <2>4, <3>2 DEF LeadsOn
    <2> QED
        BY <2>3, <2>4
<1>5. LeadsOn(IF Head(queue).kind = "State" THEN Head(queue) ELSE s, rest)
    BY <1>3, <1>4 DEF LeadsOn
<1> QED
    BY <1>2, <1>5 DEF rest

\* Reporting an update: a State follows the last one, t.
LEMMA ReportLeadsOn ==
    ASSUME NEW queue \in Seq(Update), NEW update \in Update, NEW s, NEW t,
           LeadsOn(s, queue), LastStateIs(queue, t), HasNoState(queue) => s = t,
           update.kind = "State" => Follows(t, update)
    PROVE  LeadsOn(s, Append(queue, update))
<1> DEFINE longer == Append(queue, update)
           n == Len(queue)
<1>1. /\ n \in Nat /\ Len(longer) = n + 1 /\ longer[n + 1] = update
      /\ \A k \in 1 .. n : longer[k] = queue[k]
    OBVIOUS
<1> HIDE DEF longer
<1>2. ASSUME NEW k \in 1 .. Len(longer), longer[k].kind = "State"
      PROVE  /\ (\A m \in 1 .. k - 1 : longer[m].kind # "State") => Follows(s, longer[k])
             /\ \A j \in 1 .. k - 1 :
                    /\ longer[j].kind = "State"
                    /\ \A m \in j + 1 .. k - 1 : longer[m].kind # "State"
                    => Follows(longer[j], longer[k])
    <2>1. \A m \in 1 .. k - 1 : m \in 1 .. n /\ longer[m] = queue[m]
        BY <1>1
    <2>2. \A j \in 1 .. k - 1 : \A m \in j + 1 .. k - 1 : m \in 1 .. k - 1
        BY <1>1
    <2>3. CASE k \in 1 .. n
        BY <1>1, <1>2, <2>1, <2>2, <2>3 DEF LeadsOn
    <2>4. CASE k = n + 1
        <3>1. Follows(t, longer[k])
            BY <1>1, <1>2, <2>4
        <3>2. (\A m \in 1 .. k - 1 : longer[m].kind # "State") => s = t
            <4>1. \A m \in 1 .. n : m \in 1 .. k - 1
                BY <1>1, <2>4
            <4> QED
                BY <2>1, <4>1 DEF HasNoState
        <3>3. ASSUME NEW j \in 1 .. k - 1, longer[j].kind = "State",
                     \A m \in j + 1 .. k - 1 : longer[m].kind # "State"
              PROVE  IsState(longer[j], t)
            <4>1. \A m \in j + 1 .. n : m \in j + 1 .. k - 1 /\ m \in 1 .. k - 1
                BY <1>1, <2>4
            <4> QED
                BY <2>1, <3>3, <4>1 DEF LastStateIs
        <3>4. \A j : IsState(longer[j], t) => Follows(longer[j], longer[k])
            BY <3>1 DEF Follows, IsState
        <3> QED
            BY <3>1, <3>2, <3>3, <3>4
    <2> QED
        BY <1>1, <2>3, <2>4
<1> QED
    BY <1>2 DEF LeadsOn, longer

-----------------------------------------------------------------------------
(* The invariant, and the status the caller is shown.                      *)

FlowInv == mgr.manager_status # Zombie => LeadsOn(mgr.manager_status, from_fsm)

\* A step of the manager that reads no State.
LEMMA KeptShows ==
    ASSUME StatusKept
    PROVE  [Status!Next]_(Status!status_vars)
    BY DEF StatusKept, Zombie, Status!Next, Status!EnterZombieState, Status!status_vars

\* A status that follows the one before it.
LEMMA FollowsShows ==
    ASSUME mgr.manager_status.tag # "Zombie", Follows(mgr.manager_status, mgr'.manager_status)
    PROVE  [Status!Next]_(Status!status_vars)
<1> USE DEF Status!Next, Status!status_vars
<1>1. CASE IsState(mgr'.manager_status, mgr.manager_status)
    BY <1>1 DEF IsState
<1>2. CASE /\ mgr.manager_status.tag = "Disconnected"
           /\ mgr'.manager_status.tag = "Connecting" /\ mgr'.manager_status.url \in Url
    BY <1>2 DEF Status!Connect
<1>3. CASE /\ mgr'.manager_status.url = mgr.manager_status.url
           /\ <<mgr.manager_status.tag, mgr'.manager_status.tag>> \in Moves
    BY <1>3 DEF Moves, Status!Advance, Status!Disconnect, Status!Move
<1>4. CASE IsState(mgr'.manager_status, Disconnected)
    BY <1>4 DEF IsState, Disconnected, Status!BackToDisconnected
<1> QED
    BY <1>1, <1>2, <1>3, <1>4 DEF Follows

\* A step that neither reads nor reports updates.
LEMMA KeptFlow ==
    ASSUME FlowInv, StatusKept, UNCHANGED from_fsm
    PROVE  FlowInv'
    BY DEF FlowInv, StatusKept, LeadsOn

LEMMA StateMachineFlow ==
    ASSUME TypeInv, RestInv, FlowInv, FromStateMachine
    PROVE  FlowInv' /\ [Status!Next]_(Status!status_vars)
<1>1. mgr \in ManagerState /\ from_fsm \in Seq(Update)
    BY DEF TypeInv, CoreOK, RestOK
<1>2. /\ mgr_pc = "select" /\ from_fsm # <<>> /\ from_fsm' = Tail(from_fsm)
      /\ Head(from_fsm).kind = "State" <=> NewState
    BY DEF FromStateMachine, NewState, ConnectToTv, SendRegisterPayload, PairWithTv,
           InitializeConnection, SendCommand, DisconnectFromTv, HandleSuccessfulDisconnect,
           HandleDisconnectError, HandleDisconnected, HandleConnectError, TransitionError,
           Updated, AtSelect
<1>3. ~IsStopping
    BY <1>2 DEF RestInv, StopPc
<1>4. CASE NewState
    <2> DEFINE head == Head(from_fsm)
               read == [tag |-> head.tag, url |-> head.url]
    <2>1. Follows(mgr.manager_status, head) /\ LeadsOn(head, Tail(from_fsm))
        BY <1>1, <1>2, <1>3, <1>4, ReadLeadsOn DEF FlowInv, IsStopping
    <2>2. Commit(Done([mgr EXCEPT !.manager_status = read]))
        BY <1>4 DEF NewState
    <2>3. mgr'.manager_status = read
        BY <1>1, <1>3, <2>2 DEF Commit, Done, Result, IsStopping, ManagerState
    <2>4. \A other : Follows(head, other) => Follows(read, other)
        BY DEF Follows, IsState
    <2>5. LeadsOn(read, Tail(from_fsm))
        <3> HIDE DEF head, read
        <3> QED
            BY <2>1, <2>4 DEF LeadsOn
    <2>6. Follows(mgr.manager_status, read)
        BY <2>1 DEF Follows, IsState
    <2>7. mgr.manager_status.tag # "Zombie"
        BY <1>1, <1>3 DEF IsStopping, ManagerState, ManagerStatus, State, StateTag
    <2> HIDE DEF head, read
    <2> QED
        BY <1>2, <2>3, <2>5, <2>6, <2>7, FollowsShows DEF FlowInv
<1>5. CASE ~NewState
    <2>1. StatusKept
        BY <1>5, OutputKeepsStatus
    <2>2. LeadsOn(mgr.manager_status, Tail(from_fsm))
        BY <1>1, <1>2, <1>3, <1>5, ReadLeadsOn DEF FlowInv, IsStopping
    <2> QED
        BY <1>2, <1>3, <2>1, <2>2, KeptShows DEF FlowInv, StatusKept, IsStopping
<1> QED
    BY <1>4, <1>5

\* Where a transition leads follows from where it starts.
LEMMA RulesFollow ==
    ASSUME NEW s \in State, NEW input \in Input, NEW rule \in Applicable(s, input)
    PROVE  Follows(s, Target(rule, s, input))
<1>1. rule \in Rules /\ rule.from = s.tag /\ rule.input = input.tag
    BY DEF Applicable
<1>2. \/ rule.to = "Disconnected"
      \/ rule.input = "Connect" /\ rule.from = "Disconnected" /\ rule.to = "Connecting"
      \/ rule.input # "Connect" /\ rule.to # "Disconnected" /\ rule.from = rule.to
      \/ /\ rule.input # "Connect" /\ rule.to # "Disconnected"
         /\ <<rule.from, rule.to>> \in Moves
    BY <1>1 DEF Rules, Rule, Moves
<1>3. rule.input = "Connect" => input.url \in Url
    BY <1>1 DEF Input
<1> DEFINE after == Target(rule, s, input)
<1>4. CASE rule.to = "Disconnected"
    <2>1. rule.input # "Connect"
        BY <1>1, <1>4 DEF Rules, Rule
    <2>2. after.tag = rule.to /\ after.url = None
        BY <1>4, <2>1 DEF Target
    <2> HIDE DEF after
    <2> QED
        BY <1>4, <2>2 DEF Follows, IsState, Disconnected, after
<1>5. CASE rule.to # "Disconnected" /\ rule.input = "Connect"
    <2>1. after.tag = rule.to /\ after.url = input.url
        BY <1>5 DEF Target
    <2> HIDE DEF after
    <2>2. s.tag = "Disconnected" /\ after.tag = "Connecting" /\ after.url \in Url
        BY <1>1, <1>2, <1>3, <1>5, <2>1
    <2> QED
        BY <2>2 DEF Follows, after
<1>6. CASE rule.to # "Disconnected" /\ rule.input # "Connect"
    <2>1. after.tag = rule.to /\ after.url = s.url
        BY <1>6 DEF Target
    <2> HIDE DEF after
    <2>2. after.tag = s.tag \/ <<s.tag, after.tag>> \in Moves
        BY <1>1, <1>2, <1>6, <2>1
    <2> QED
        BY <2>1, <2>2 DEF Follows, IsState, after
<1> QED
    BY <1>4, <1>5, <1>6

LEMMA FsmFlow ==
    ASSUME TypeInv, StatusInv, FlowInv, FsmStep
    PROVE  FlowInv'
<1>1. /\ from_fsm \in Seq(Update) /\ fsm_state \in State /\ to_fsm \in Seq(Input)
      /\ mgr' = mgr
    BY DEF TypeInv, RestOK, CoreOK, FsmStep, mgr_vars
<1>2. SUFFICES ASSUME mgr.manager_status # Zombie
               PROVE  LeadsOn(mgr.manager_status, from_fsm')
    BY <1>1 DEF FlowInv
<1>3. /\ LeadsOn(mgr.manager_status, from_fsm)
      /\ LastStateIs(from_fsm, fsm_state)
      /\ HasNoState(from_fsm) => mgr.manager_status = fsm_state
    BY <1>2 DEF FlowInv, StatusInv
<1>4. CASE FsmTransition
    <2>1. PICK rule \in Applicable(fsm_state, Head(to_fsm)) :
              /\ fsm_state' = Target(rule, fsm_state, Head(to_fsm))
              /\ from_fsm' = from_fsm \o Updates(rule, fsm_state')
        BY <1>4 DEF FsmTransition
    <2>2. Head(to_fsm) \in Input
        BY <1>1, <1>4 DEF FsmTransition
    <2>3. fsm_state' \in State /\ Follows(fsm_state, fsm_state')
        BY <1>1, <2>1, <2>2, RuleTypes, RulesFollow
    <2>4. rule.output \in OutputTag \cup {NoOutput}
        BY <2>1 DEF Applicable, Rules, Rule, OutputTag, NoOutput
    <2> DEFINE moved == StateUpdate(fsm_state')
               asked == OutputUpdate(rule.output, fsm_state')
               reported == Append(from_fsm, moved)
    <2>5. /\ moved \in Update /\ moved.kind = "State" /\ IsState(moved, fsm_state')
          /\ Follows(fsm_state, moved)
        BY <2>3 DEF StateUpdate, Update, State, IsState, Follows
    <2>6. rule.output # NoOutput => asked \in Update /\ asked.kind # "State"
        BY <2>3, <2>4 DEF OutputUpdate, Update, State, UrlOption
    <2>7. from_fsm' = IF rule.output = NoOutput THEN reported ELSE Append(reported, asked)
        BY <1>1, <2>1, <2>5, <2>6 DEF Updates
    <2> HIDE DEF moved, asked
    <2>8. /\ reported \in Seq(Update) /\ LeadsOn(mgr.manager_status, reported)
          /\ LastStateIs(reported, fsm_state') /\ ~HasNoState(reported)
        BY <1>1, <1>3, <2>5, ReportState, ReportLeadsOn
    <2> HIDE DEF reported
    <2>9. rule.output # NoOutput => LeadsOn(mgr.manager_status, Append(reported, asked))
        BY <2>6, <2>8, ReportLeadsOn
    <2> QED
        BY <2>7, <2>8, <2>9
<1>5. CASE FsmTransitionError
    <2> DEFINE refused == ErrorUpdate(Head(to_fsm))
    <2>1. refused \in Update /\ refused.kind # "State"
        <3>1. Head(to_fsm) \in Input
            BY <1>1, <1>5 DEF FsmTransitionError
        <3>2. Head(to_fsm).tag \in InputTag /\ Head(to_fsm).url \in UrlOption
            BY <3>1 DEF Input, InputTag, UrlOption
        <3> QED
            BY <3>2 DEF ErrorUpdate, Update
    <2>2. from_fsm' = Append(from_fsm, refused)
        BY <1>5 DEF FsmTransitionError
    <2> HIDE DEF refused
    <2> QED
        BY <1>1, <1>3, <2>1, <2>2, ReportLeadsOn
<1>6. CASE FsmShutDown
    BY <1>3, <1>6 DEF FsmShutDown
<1> QED
    BY <1>4, <1>5, <1>6 DEF FsmStep, FsmNext

\* Every step keeps the invariant and is a step of the flow, or is not seen.
LEMMA NextShowsFlow ==
    ASSUME TypeInv, StatusInv, RestInv, FlowInv, [Next]_vars
    PROVE  FlowInv' /\ [Status!Next]_(Status!status_vars)
<1>1. CASE FromCaller
    <2>1. UNCHANGED from_fsm
        BY <1>1 DEF FromCaller, CancelReconnect, Connect, ConnectLastGoodConnection, Disconnect,
               SendTvCommand, TestConnection, ShutDown, Called
    <2> QED
        BY <1>1, <2>1, CallerKeepsStatus, KeptFlow, KeptShows
<1>2. CASE FromStateMachine
    BY <1>2, StateMachineFlow
<1>3. CASE FromWebSocket
    <2>1. PICK updates : Reported(updates)
        BY <1>3 DEF FromWebSocket, WebSocketConnected, WebSocketDisconnected, ConnectionLost,
               ConnectionTested, GetVolume, PairRequested, PairingFailed, Registered
    <2> QED
        BY <1>3, <2>1, WebSocketKeepsStatus, KeptFlow, KeptShows DEF Reported
<1>4. CASE TvNetworkChecked
    BY <1>4, NetworkCheckedKeepsStatus, KeptFlow, KeptShows DEF TvNetworkChecked
<1>5. CASE Continue
    <2>1. UNCHANGED from_fsm
        BY <1>5 DEF Continue, FinishReset, FinishConnectError, FinishInitialize, FinishShutDown,
               FinishedReset, ResetInsteadOfReconnect, FinishDisconnect, RetryIntervalTick,
               TasksStopped, Resumed
    <2> QED
        BY <1>5, <2>1, ContinueKeepsStatus, KeptFlow, KeptShows
<1>6. CASE FsmStep
    <2>1. StatusKept
        BY <1>6 DEF FsmStep, mgr_vars, StatusKept
    <2> QED
        BY <1>6, <2>1, FsmFlow, KeptShows
<1>7. CASE (\E i \in Socket : WsTask(i) \/ WsNetwork(i)) \/ NetStep \/ UNCHANGED vars
    <2>1. UNCHANGED <<mgr, from_fsm>>
        BY <1>7 DEF WsTask, WsNetwork, NetStep, vars, fsm_vars, mgr_vars
    <2> QED
        BY <2>1, KeptFlow, KeptShows DEF StatusKept
<1> QED
    BY <1>1, <1>2, <1>3, <1>4, <1>5, <1>6, <1>7 DEF Next, ManagerStep

\* Whatever the manager's handlers and its other tasks do, the caller is shown
\* the connection flow: no status is skipped, repeated out of turn or carries
\* the URL of another connection, and nothing follows Zombie.
THEOREM ShowsConnectionFlow ==
    Spec => Status!Init /\ [][Status!Next]_(Status!status_vars)
<1>1. Init => Status!Init /\ StatusInv /\ RestInv /\ FlowInv
    <2> SUFFICES ASSUME Init PROVE Status!Init /\ StatusInv /\ RestInv /\ FlowInv
        OBVIOUS
    <2>1. /\ from_fsm = <<>> /\ fsm_state = Disconnected /\ mgr_pc = "select"
          /\ fsm_alive /\ ~fsm_cancelled
        BY DEF Init, FsmInit, ManagerInit
    <2>2. mgr.manager_status = Disconnected
        BY DEF Init, ManagerInit, ImportPersistedState
    <2> QED
        BY <2>1, <2>2 DEF Status!Init, Disconnected, Zombie, StatusInv, LastStateIs, FlowInv,
               LeadsOn, RestInv, IsStopping, RestPc, EndsFollowDisconnected
<1>2. TypeInv /\ StatusInv /\ RestInv /\ FlowInv /\ [Next]_vars
          => (StatusInv /\ RestInv /\ FlowInv)' /\ [Status!Next]_(Status!status_vars)
    BY NextKeepsStatus, NextKeepsRest, NextShowsFlow
<1> QED
    BY <1>1, <1>2, InitType, NextType, PTL DEF Spec
=============================================================================
