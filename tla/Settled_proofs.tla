---------------------------- MODULE Settled_proofs ----------------------------
(***************************************************************************)
(* What the caller has been told is so, once nothing is under way.  That a *)
(* machine at rest agrees with the tasks needs an invariant of its unrest: *)
(* in each state that the machine is to leave, and for each task that is   *)
(* to end, something is still to come that makes it go on.                 *)
(***************************************************************************)
EXTENDS PatientCaller_proofs

-----------------------------------------------------------------------------
(* Nothing under way.  At rest the machine is Disconnected, or it is in a  *)
(* state of a connection and the task of that connection runs.  The other  *)
(* states, and the other tasks, are always on their way: the invariant     *)
(* below says of each state of the machine what is still to come that      *)
(* makes it go on, an Input, an update, an output or the task itself.      *)

\* The machine is trying to connect, or it has a connection.
IsUnderWay == fsm_state.tag \in {"Connecting"} \cup LiveTag

IsLive == fsm_state.tag \in LiveTag

ResetPc == {"force_reset", "reset", "reset_initialize"}

ErrorWords == {"ConnectError", "MessageReadError", "ServerClosedConnection"}

Registrations == Inputs({"AttemptRegister"})

Completions == Inputs({"DisconnectionComplete"})

Hangups == Outputs({"DisconnectFromTv"})

WillReset == mgr_pc \in ResetPc \/ ~Without(to_fsm, Inputs({"Reset"}))

WillEnd == WillReset \/ ~Without(to_fsm, Errors)

HasStarted == Without(from_fsm, Starts)

\* The tasks before the current one have left their loops.
OthersOver == \A i \in Socket : i # cur_ws => ws[i].phase \notin {"connecting", "running"}

\* A task that connects has nothing to report yet, and one that has ended its
\* connection has the end to report.
ReportsInTurn(s) ==
    /\ s.phase # "free"
    /\ s.phase = "connecting" => s.from_ws = <<>>
    /\ s.phase \in {"exiting", "ended"} /\ ~Without(s.from_ws, {"Connected"})
           => ~Without(s.from_ws, {"Disconnected"})

TaskReportsInTurn == cur_ws # None => ReportsInTurn(Task)

IsConnecting == cur_ws # None /\ Task.phase = "connecting"

\* The task has connected: of a registration that is asked for, and of a machine
\* that has gone on to ask.
HasConnected ==
    /\ ~Without(to_fsm, Registrations) => cur_ws # None /\ Task.phase # "connecting"
    /\ fsm_state.tag \notin {"Disconnected", "Connecting"} => cur_ws # None /\ Task.phase # "connecting"

HasHandle ==
    fsm_state.tag # "Disconnected" /\ HasStarted => ws_join_handle # None \/ WillReset

NoHangup == IsUnderWay => Without(from_fsm, Hangups)

\* The task of a connection runs and has not been told to end, or it has
\* reported what went wrong.
IsAttended(s) ==
    \/ s.phase \in {"connecting", "running"} /\ Without(s.to_ws, {"ShutDown"})
    \/ ~Without(s.from_ws, ErrorWords)

Attended == IsUnderWay /\ HasStarted => WillEnd \/ (cur_ws # None /\ IsAttended(Task))

\* A machine that connects will be told the outcome.
Awaiting ==
    fsm_state.tag = "Connecting" /\ HasStarted =>
        \/ WillEnd
        \/ ~Without(to_fsm, Registrations)
        \/ cur_ws # None /\ \/ Task.phase = "connecting"
                            \/ ~Without(Task.from_ws, {"Connected"} \cup ErrorWords)

\* No R .. C .. E in this order.
NoneBetween(queue, R, C, E) ==
    \A k, l, m \in 1 .. Len(queue) :
        k < l /\ l < m /\ queue[k] \in R /\ queue[l] \in C => queue[m] \notin E

\* The end of a connection is not reported before what went wrong with it.
ErrorsFirst ==
    /\ fsm_state.tag = "Connecting" => NoneBetween(to_fsm, Registrations, Completions, Errors)
    /\ IsLive => NoneAfter(to_fsm, Completions, Errors)

\* The end of a task that has connected is still to be told to the machine.
IsExiting == cur_ws # None /\ Task.phase = "exiting"

EndIsReported ==
    IsExiting =>
        /\ fsm_state.tag = "Connecting" /\ ~Without(to_fsm, Registrations) =>
               \/ WillReset
               \/ ~NoneAfter(to_fsm, Registrations, Completions)
               \/ ~Without(Task.from_ws, {"Disconnected"})
        /\ IsLive =>
               \/ WillReset
               \/ ~Without(to_fsm, Completions)
               \/ ~Without(Task.from_ws, {"Disconnected"})

\* A machine that disconnects will be told that it is done.
IsLeaving(s) ==
    \/ s.phase = "closing"
    \/ s.phase = "running" /\ ~Without(s.to_ws, {"ShutDown"})
    \/ ~Without(s.from_ws, {"Disconnected"})

Leaving ==
    fsm_state.tag = "Disconnecting" =>
        \/ WillEnd
        \/ ~Without(to_fsm, Completions)
        \/ cur_ws # None /\ IsLeaving(Task)
        \/ /\ ~Without(from_fsm, Hangups)
           /\ cur_ws # None /\ Task.phase \in {"running", "ended"}

\* All agree on the URL.
OneUrl ==
    IsUnderWay =>
        \/ WillReset
        \/ /\ mgr.ws_url = fsm_state.url
           /\ Without(from_fsm, {update \in Starts : update.url # fsm_state.url})
           /\ HasStarted => cur_ws # None /\ Task.host = fsm_state.url

SettleInv ==
    mgr_pc \notin StopPc =>
        /\ OthersOver /\ TaskReportsInTurn /\ HasConnected /\ HasHandle /\ NoHangup
        /\ Attended /\ Awaiting /\ ErrorsFirst /\ EndIsReported /\ Leaving /\ OneUrl

-----------------------------------------------------------------------------
(* Queues: what comes between, and what is still to come.                  *)

\* The same of every sets: rest is queue when its first message has been read.
TakesMore(queue, rest) ==
    /\ \A S, T :
           /\ NoneAfter(rest, S, T) /\ Head(queue) \notin S => NoneAfter(queue, S, T)
           /\ Without(rest, T) => NoneAfter(queue, S, T)
    /\ \A R, C, E :
           /\ NoneBetween(queue, R, C, E) => NoneBetween(rest, R, C, E)
           /\ NoneBetween(queue, R, C, E) /\ Head(queue) \in R => NoneAfter(rest, C, E)
           /\ Without(queue, E) => NoneBetween(queue, R, C, E)

LEMMA TailTakesMore ==
    ASSUME NEW D, NEW queue \in Seq(D), queue # <<>>
    PROVE  TakesMore(queue, Tail(queue))
<1> DEFINE rest == Tail(queue)
<1>1. /\ Len(queue) \in Nat \ {0} /\ Len(rest) = Len(queue) - 1
      /\ Head(queue) = queue[1]
    OBVIOUS
<1>2. \A k \in 1 .. Len(rest) : rest[k] = queue[k + 1]
    OBVIOUS
<1>3. \A k \in 1 .. Len(queue) : k # 1 => k - 1 \in 1 .. Len(rest) /\ rest[k - 1] = queue[k]
    BY <1>1, <1>2
<1>4. \A k \in 1 .. Len(rest) : k + 1 \in 1 .. Len(queue) /\ k + 1 # 1
    BY <1>1
<1> HIDE DEF rest
<1>5. ASSUME NEW S, NEW T, NoneAfter(rest, S, T), queue[1] \notin S
      PROVE  NoneAfter(queue, S, T)
    <2> SUFFICES ASSUME NEW k \in 1 .. Len(queue), NEW l \in 1 .. Len(queue),
                        k < l, queue[k] \in S
                 PROVE  queue[l] \notin T
        BY DEF NoneAfter
    <2>1. k # 1 /\ l # 1
        BY <1>5
    <2>2. k - 1 \in 1 .. Len(rest) /\ l - 1 \in 1 .. Len(rest) /\ k - 1 < l - 1
        BY <1>3, <2>1
    <2>3. rest[k - 1] = queue[k] /\ rest[l - 1] = queue[l]
        BY <1>3, <2>1
    <2> QED
        BY <1>5, <2>2, <2>3 DEF NoneAfter
<1>6. ASSUME NEW S, NEW T, Without(rest, T)
      PROVE  NoneAfter(queue, S, T)
    <2> SUFFICES ASSUME NEW k \in 1 .. Len(queue), NEW l \in 1 .. Len(queue), k < l
                 PROVE  queue[l] \notin T
        BY DEF NoneAfter
    <2>1. l # 1
        OBVIOUS
    <2> QED
        BY <1>3, <1>6, <2>1 DEF Without
<1>7. ASSUME NEW R, NEW C, NEW E, NoneBetween(queue, R, C, E)
      PROVE  NoneBetween(rest, R, C, E)
    <2> SUFFICES ASSUME NEW k \in 1 .. Len(rest), NEW l \in 1 .. Len(rest),
                        NEW m \in 1 .. Len(rest), k < l, l < m, rest[k] \in R, rest[l] \in C
                 PROVE  rest[m] \notin E
        BY DEF NoneBetween
    <2>1. k + 1 < l + 1 /\ l + 1 < m + 1
        OBVIOUS
    <2>2. queue[k + 1] \in R /\ queue[l + 1] \in C
        BY <1>2
    <2>3. queue[m + 1] \notin E
        BY <1>4, <1>7, <2>1, <2>2 DEF NoneBetween
    <2> QED
        BY <1>2, <2>3
<1>8. ASSUME NEW R, NEW C, NEW E, NoneBetween(queue, R, C, E), queue[1] \in R
      PROVE  NoneAfter(rest, C, E)
    <2> SUFFICES ASSUME NEW l \in 1 .. Len(rest), NEW m \in 1 .. Len(rest), l < m, rest[l] \in C
                 PROVE  rest[m] \notin E
        BY DEF NoneAfter
    <2>1. 1 \in 1 .. Len(queue) /\ 1 < l + 1 /\ l + 1 < m + 1
        BY <1>1
    <2>2. queue[l + 1] \in C
        BY <1>2
    <2>3. queue[m + 1] \notin E
        BY <1>4, <1>8, <2>1, <2>2 DEF NoneBetween
    <2> QED
        BY <1>2, <2>3
<1>9. ASSUME NEW R, NEW C, NEW E, Without(queue, E)
      PROVE  NoneBetween(queue, R, C, E)
    BY <1>9 DEF Without, NoneBetween
<1> QED
    BY <1>1, <1>5, <1>6, <1>7, <1>8, <1>9 DEF TakesMore, rest

\* Sending messages that are not in E, and a last one where no R .. C is.
LEMMA SendBetween ==
    ASSUME NEW D, NEW queue \in Seq(D), NEW sent \in Seq(D), NEW R, NEW C, NEW E,
           NoneBetween(queue, R, C, E), Without(sent, E)
    PROVE  NoneBetween(queue \o sent, R, C, E)
<1> DEFINE longer == queue \o sent
<1>1. Len(queue) \in Nat /\ Len(sent) \in Nat /\ Len(longer) = Len(queue) + Len(sent)
    OBVIOUS
<1>2. \A k \in 1 .. Len(longer) :
          longer[k] = IF k <= Len(queue) THEN queue[k] ELSE sent[k - Len(queue)]
    OBVIOUS
<1> HIDE DEF longer
<1> SUFFICES ASSUME NEW k \in 1 .. Len(longer), NEW l \in 1 .. Len(longer),
                    NEW m \in 1 .. Len(longer), k < l, l < m, longer[k] \in R, longer[l] \in C
             PROVE  longer[m] \notin E
    BY DEF NoneBetween, longer
<1>3. CASE m <= Len(queue)
    <2>1. /\ k \in 1 .. Len(queue) /\ l \in 1 .. Len(queue) /\ m \in 1 .. Len(queue)
          /\ k <= Len(queue) /\ l <= Len(queue)
        BY <1>1, <1>3
    <2>2. longer[k] = queue[k] /\ longer[l] = queue[l] /\ longer[m] = queue[m]
        BY <1>2, <1>3, <2>1
    <2> QED
        BY <2>1, <2>2 DEF NoneBetween
<1>4. CASE ~(m <= Len(queue))
    <2>1. m - Len(queue) \in 1 .. Len(sent) /\ longer[m] = sent[m - Len(queue)]
        BY <1>1, <1>2, <1>4
    <2> QED
        BY <2>1 DEF Without
<1> QED
    BY <1>3, <1>4

LEMMA SendLast ==
    ASSUME NEW D, NEW queue \in Seq(D), NEW message \in D, NEW R, NEW C, NEW E,
           NoneBetween(queue, R, C, E), message \notin E \/ NoneAfter(queue, R, C)
    PROVE  NoneBetween(Append(queue, message), R, C, E)
<1> DEFINE longer == Append(queue, message)
<1>1. Len(queue) \in Nat /\ Len(longer) = Len(queue) + 1
    OBVIOUS
<1>2. \A k \in 1 .. Len(longer) :
          longer[k] = IF k <= Len(queue) THEN queue[k] ELSE message
    OBVIOUS
<1> HIDE DEF longer
<1> SUFFICES ASSUME NEW k \in 1 .. Len(longer), NEW l \in 1 .. Len(longer),
                    NEW m \in 1 .. Len(longer), k < l, l < m, longer[k] \in R, longer[l] \in C
             PROVE  longer[m] \notin E
    BY DEF NoneBetween, longer
<1>3. /\ k \in 1 .. Len(queue) /\ l \in 1 .. Len(queue)
      /\ k <= Len(queue) /\ l <= Len(queue)
    BY <1>1
<1>4. queue[k] \in R /\ queue[l] \in C
    BY <1>2, <1>3
<1>5. CASE m <= Len(queue)
    <2>1. m \in 1 .. Len(queue) /\ longer[m] = queue[m]
        BY <1>1, <1>2, <1>5
    <2> QED
        BY <1>3, <1>4, <2>1 DEF NoneBetween
<1>6. CASE ~(m <= Len(queue))
    <2>1. longer[m] = message
        BY <1>2, <1>6
    <2>2. ~NoneAfter(queue, R, C)
        BY <1>3, <1>4 DEF NoneAfter
    <2> QED
        BY <2>1, <2>2
<1> QED
    BY <1>5, <1>6

-----------------------------------------------------------------------------
(* The steps of the tasks.                                                 *)

ToldToEnd(s) == ~Without(s.to_ws, {"ShutDown"})

TaskGoesOn(s, t) ==
    /\ t.host = s.host
    /\ ReportsInTurn(t)
    /\ s.phase # "connecting" => t.phase # "connecting"
    /\ \A S : ~Without(s.from_ws, S) => ~Without(t.from_ws, S)
    /\ IsAttended(s) => IsAttended(t)
    /\ IsLeaving(s) => IsLeaving(t)
    /\ s.phase = "connecting" =>
           t.phase = "connecting" \/ ~Without(t.from_ws, {"Connected"} \cup ErrorWords)
    /\ t.phase = "exiting" => ~Without(t.from_ws, {"Disconnected"}) \/ s.phase = "connecting"
    /\ s.phase \in {"running", "ended"} => t.phase \in {"running", "ended"} \/ IsLeaving(t)

LEMMA SilentGoesOn ==
    ASSUME NEW s, NEW t, ReportsInTurn(s), t.from_ws = s.from_ws, t.host = s.host,
           \/ s.phase = "running" /\ t.phase = "running" /\ (ToldToEnd(t) <=> ToldToEnd(s))
           \/ s.phase = "running" /\ t.phase = "closing" /\ ToldToEnd(s)
           \/ s.phase = "exiting" /\ t.phase = "ended"
    PROVE  TaskGoesOn(s, t)
<1>1. CASE s.phase = "running" /\ t.phase = "running" /\ (ToldToEnd(t) <=> ToldToEnd(s))
    BY <1>1 DEF TaskGoesOn, ReportsInTurn, IsAttended, IsLeaving, ToldToEnd
<1>2. CASE s.phase = "running" /\ t.phase = "closing" /\ ToldToEnd(s)
    BY <1>2 DEF TaskGoesOn, ReportsInTurn, IsAttended, IsLeaving, ToldToEnd
<1>3. CASE s.phase = "exiting" /\ t.phase = "ended"
    BY <1>3 DEF TaskGoesOn, ReportsInTurn, IsAttended, IsLeaving
<1> QED
    BY <1>1, <1>2, <1>3

LEMMA ReportingGoesOn ==
    ASSUME NEW s \in SocketState, NEW t, NEW update \in WsUpdateMessage, ReportsInTurn(s),
           t.from_ws = Append(s.from_ws, update), t.host = s.host, t.to_ws = s.to_ws,
           \/ update = "Disconnected" /\ s.phase = "closing" /\ t.phase = "exiting"
           \/ update \in ErrorWords /\ s.phase = "connecting" /\ t.phase = "exiting"
           \/ update \in ErrorWords /\ s.phase = "running" /\ t.phase = "closing"
           \/ update = "Connected" /\ s.phase = "connecting" /\ t.phase = "running"
           \/ s.phase = "running" /\ t.phase = "running"
    PROVE  TaskGoesOn(s, t)
<1>1. \A S : Without(t.from_ws, S) <=> Without(s.from_ws, S) /\ update \notin S
    <2>1. Adds(s.from_ws, update, t.from_ws)
        BY AppendAdds DEF SocketState
    <2> QED
        BY <2>1 DEF Adds
<1>2. CASE update = "Disconnected" /\ s.phase = "closing" /\ t.phase = "exiting"
    BY <1>1, <1>2 DEF TaskGoesOn, ReportsInTurn, IsAttended, IsLeaving
<1>3. CASE update \in ErrorWords /\ s.phase = "connecting" /\ t.phase = "exiting"
    <2>1. s.from_ws = <<>>
        BY <1>3 DEF ReportsInTurn
    <2>2. Without(t.from_ws, {"Connected"}) /\ ~Without(t.from_ws, ErrorWords)
        BY <1>1, <1>3, <2>1, EmptyQueue DEF ErrorWords
    <2>3. ~Without(t.from_ws, {"Connected"} \cup ErrorWords)
        BY <1>1, <1>3
    <2>4. ReportsInTurn(t)
        BY <1>3, <2>2 DEF ReportsInTurn
    <2>5. ~IsLeaving(s)
        BY <1>3, <2>1, EmptyQueue DEF IsLeaving
    <2> QED
        BY <1>1, <1>3, <2>2, <2>3, <2>4, <2>5 DEF TaskGoesOn, IsAttended
<1>4. CASE update \in ErrorWords /\ s.phase = "running" /\ t.phase = "closing"
    <2>1. ~Without(t.from_ws, ErrorWords)
        BY <1>1, <1>4
    <2> QED
        BY <1>1, <1>4, <2>1 DEF TaskGoesOn, ReportsInTurn, IsAttended, IsLeaving
<1>5. CASE update = "Connected" /\ s.phase = "connecting" /\ t.phase = "running"
    <2>1. ~Without(t.from_ws, {"Connected"} \cup ErrorWords)
        BY <1>1, <1>5
    <2>2. s.from_ws = <<>>
        BY <1>5 DEF ReportsInTurn
    <2>3. ~IsLeaving(s)
        BY <1>5, <2>2, EmptyQueue DEF IsLeaving
    <2> QED
        BY <1>1, <1>5, <2>1, <2>3 DEF TaskGoesOn, ReportsInTurn, IsAttended
<1>6. CASE s.phase = "running" /\ t.phase = "running"
    BY <1>1, <1>6 DEF TaskGoesOn, ReportsInTurn, IsAttended, IsLeaving
<1> QED
    BY <1>2, <1>3, <1>4, <1>5, <1>6

LEMMA TaskGoesOnWith ==
    ASSUME "SendFailed" \notin Faults, TypeInv, cur_ws # None,
           InOrder(Task), ReportsInTurn(Task), WsTaskStep(cur_ws) \/ WsNetworkStep(cur_ws)
    PROVE  TaskGoesOn(Task, Task')
<1> DEFINE i == cur_ws
           s == ws[i]
           t == ws[i]'
<1> SUFFICES TaskGoesOn(s, t)
    BY DEF Task
<1>1. i \in Socket /\ s \in SocketState /\ WsTypeOK /\ UNCHANGED cur_ws
    BY DEF TypeInv, WsTypeOK, WsTaskStep, WsNetworkStep, WsSendPayload, WsTestConnection,
           WsShutDown, WsChannelClosed, WsReportDisconnected, WsEnd, WsConnected,
           WsConnectError, WsSendFailed, WsText, WsPong, WsPingTimeout, WsServerClosed,
           WsReadError, Becomes
<1>2. ReportsInTurn(s)
    BY DEF Task
<1>3. ASSUME NEW r, Becomes(i, r)
      PROVE  t = r
    BY <1>1, <1>3 DEF Becomes, WsTypeOK
<1>4. /\ s.to_ws \in Seq(WsMessage) /\ s.from_ws \in Seq(WsUpdateMessage)
      /\ ~s.testing /\ Without(s.to_ws, {"TestConnection"})
    BY <1>1 DEF SocketState, InOrder, Task
<1>5. s.to_ws # <<>> =>
          /\ Head(s.to_ws) # "TestConnection"
          /\ Without(s.to_ws, {"ShutDown"}) <=>
                 Head(s.to_ws) # "ShutDown" /\ Without(Tail(s.to_ws), {"ShutDown"})
    <2> SUFFICES ASSUME s.to_ws # <<>>
                 PROVE  /\ Head(s.to_ws) # "TestConnection"
                        /\ Without(s.to_ws, {"ShutDown"}) <=>
                               /\ Head(s.to_ws) # "ShutDown"
                               /\ Without(Tail(s.to_ws), {"ShutDown"})
        OBVIOUS
    <2>1. Takes(s.to_ws, Tail(s.to_ws))
        BY <1>4, TailTakes
    <2>2. Without(s.to_ws, {"ShutDown"}) <=>
              /\ Head(s.to_ws) \notin {"ShutDown"}
              /\ Without(Tail(s.to_ws), {"ShutDown"})
        BY <2>1 DEF Takes
    <2>3. Head(s.to_ws) \notin {"TestConnection"}
        BY <1>4, <2>1 DEF Takes
    <2> QED
        BY <2>2, <2>3
<1>6. ASSUME NEW update \in WsUpdateMessage, NEW phase, NEW tv,
             t = [Reporting(i, update) EXCEPT !.phase = phase, !.tv = tv],
             \/ update = "Disconnected" /\ s.phase = "closing" /\ phase = "exiting"
             \/ update \in ErrorWords /\ s.phase = "connecting" /\ phase = "exiting"
             \/ update \in ErrorWords /\ s.phase = "running" /\ phase = "closing"
             \/ update = "Connected" /\ s.phase = "connecting" /\ phase = "running"
             \/ s.phase = "running" /\ phase = "running"
      PROVE  TaskGoesOn(s, t)
    <2>1. t = [s EXCEPT !.from_ws = Append(s.from_ws, update), !.phase = phase, !.tv = tv]
        BY <1>6 DEF Reporting
    <2> HIDE DEF s, t
    <2>2. /\ t.from_ws = Append(s.from_ws, update) /\ t.host = s.host
          /\ t.to_ws = s.to_ws /\ t.phase = phase
        BY <1>1, <2>1 DEF SocketState
    <2> QED
        BY <1>1, <1>2, <1>6, <2>2, ReportingGoesOn
<1>7. CASE WsSendPayload(i)
    <2> DEFINE session == AfterPayload(s.tv, Next_ws(i))
    <2>1. /\ s.phase = "running" /\ s.to_ws # <<>> /\ Head(s.to_ws) # "ShutDown"
          /\ t = [s EXCEPT !.to_ws = Tail(s.to_ws), !.tv = session]
        BY <1>1, <1>3, <1>7 DEF WsSendPayload, Running, Received, SocketState, Next_ws, WsPayload
    <2> HIDE DEF session, s, t
    <2>2. t.from_ws = s.from_ws /\ t.host = s.host /\ t.phase = "running"
          /\ t.to_ws = Tail(s.to_ws)
        BY <1>1, <2>1 DEF SocketState
    <2>3. ToldToEnd(t) <=> ToldToEnd(s)
        BY <1>5, <2>1, <2>2 DEF ToldToEnd
    <2> QED
        BY <1>2, <2>1, <2>2, <2>3, SilentGoesOn
<1>8. CASE WsShutDown(i)
    <2>1. /\ s.phase = "running" /\ s.to_ws # <<>> /\ Head(s.to_ws) = "ShutDown"
          /\ t = [s EXCEPT !.to_ws = Tail(s.to_ws), !.phase = "closing"]
        BY <1>1, <1>3, <1>8 DEF WsShutDown, Running, Received, SocketState, Next_ws
    <2> HIDE DEF s, t
    <2>2. t.from_ws = s.from_ws /\ t.host = s.host /\ t.phase = "closing"
        BY <1>1, <2>1 DEF SocketState
    <2>3. ToldToEnd(s)
        BY <1>5, <2>1 DEF ToldToEnd
    <2> QED
        BY <1>2, <2>1, <2>2, <2>3, SilentGoesOn
<1>9. CASE WsEnd(i)
    <2>1. s.phase = "exiting" /\ t = Ended(i)
        BY <1>3, <1>9 DEF WsEnd
    <2>2. t.from_ws = s.from_ws /\ t.host = s.host /\ t.phase = "ended"
        BY <2>1 DEF Ended, NoSocket
    <2> HIDE DEF s, t
    <2> QED
        BY <1>2, <2>1, <2>2, SilentGoesOn
<1>10. CASE WsReportDisconnected(i)
    <2>1. s.phase = "closing" /\ t = [Reporting(i, "Disconnected") EXCEPT !.phase = "exiting"]
        BY <1>3, <1>10 DEF WsReportDisconnected
    <2>2. t = [Reporting(i, "Disconnected") EXCEPT !.phase = "exiting", !.tv = s.tv]
        BY <1>1, <2>1 DEF Reporting, SocketState
    <2> HIDE DEF s, t
    <2> QED
        BY <1>6, <2>1, <2>2 DEF WsUpdateMessage
<1>11. CASE WsConnected(i)
    <2>1. s.phase = "connecting" /\ t = [Reporting(i, "Connected") EXCEPT !.phase = "running"]
        BY <1>3, <1>11 DEF WsConnected
    <2>2. t = [Reporting(i, "Connected") EXCEPT !.phase = "running", !.tv = s.tv]
        BY <1>1, <2>1 DEF Reporting, SocketState
    <2> HIDE DEF s, t
    <2> QED
        BY <1>6, <2>1, <2>2 DEF WsUpdateMessage
<1>12. CASE WsConnectError(i) \/ WsServerClosed(i) \/ WsReadError(i)
    <2>1. PICK update \in ErrorWords, phase \in {"exiting", "closing"} :
              /\ \/ s.phase = "connecting" /\ phase = "exiting"
                 \/ s.phase = "running" /\ phase = "closing"
              /\ t = [Reporting(i, update) EXCEPT !.phase = phase]
        BY <1>3, <1>12 DEF WsConnectError, WsServerClosed, WsReadError, Running, ErrorWords
    <2>2. t = [Reporting(i, update) EXCEPT !.phase = phase, !.tv = s.tv]
        BY <1>1, <2>1 DEF Reporting, SocketState
    <2>3. update \in WsUpdateMessage
        BY DEF ErrorWords, WsUpdateMessage
    <2> DEFINE tv == s.tv
    <2>4. t = [Reporting(i, update) EXCEPT !.phase = phase, !.tv = tv]
        BY <2>2
    <2> HIDE DEF s, t, tv
    <2>5. update \in ErrorWords
        OBVIOUS
    <2>6. CASE s.phase = "connecting" /\ phase = "exiting"
        BY <1>6, <2>3, <2>4, <2>5, <2>6
    <2>7. CASE s.phase = "running" /\ phase = "closing"
        BY <1>6, <2>3, <2>4, <2>5, <2>7
    <2> QED
        BY <2>1, <2>6, <2>7
<1>13. CASE WsText(i)
    <2>1. s.phase = "running"
        BY <1>13 DEF WsText, Running
    <2>2. PICK answer \in TvAnswers(s.tv) :
              t = [Reporting(i, answer.payload) EXCEPT
                       !.tv = answer.session, !.phase = IF i = cur_ws THEN @ ELSE "closing"]
        BY <1>3, <1>13 DEF WsText
    <2> DEFINE update == answer.payload
               tv == answer.session
    <2>3. update \in WsUpdateMessage
        BY <1>1, AnswerType DEF SocketState
    <2>4. t = [Reporting(i, update) EXCEPT !.phase = "running", !.tv = tv]
        BY <1>1, <2>1, <2>2 DEF Reporting, SocketState
    <2> HIDE DEF s, t, update, tv
    <2> QED
        BY <1>6, <2>1, <2>3, <2>4
<1>14. ~WsTestConnection(i) /\ ~WsChannelClosed(i) /\ ~WsSendFailed(i) /\ ~WsPong(i)
       /\ ~WsPingTimeout(i)
    BY <1>4, <1>5 DEF WsTestConnection, WsChannelClosed, WsSendFailed, WsPong, WsPingTimeout,
                      Next_ws
<1> QED
    BY <1>7, <1>8, <1>9, <1>10, <1>11, <1>12, <1>13, <1>14 DEF WsTaskStep, WsNetworkStep

\* A task that has left its loop does not come back to it, and no other task
\* takes part in the step of one.
LEMMA OtherStaysOver ==
    ASSUME TypeInv, NEW i \in Socket, WsTaskStep(i) \/ WsNetworkStep(i)
    PROVE  /\ \A j \in Socket : j # i => ws'[j] = ws[j]
           /\ UNCHANGED cur_ws
           /\ ws[i].phase \notin {"connecting", "running"}
                  => ws'[i].phase \notin {"connecting", "running"}
<1>1. ws \in [Socket -> SocketState]
    BY DEF TypeInv, WsTypeOK
<1>2. \E r : Becomes(i, r)
    BY DEF WsTaskStep, WsNetworkStep, WsSendPayload, WsTestConnection,
           WsShutDown, WsChannelClosed, WsReportDisconnected, WsEnd, WsConnected,
           WsConnectError, WsSendFailed, WsText, WsPong, WsPingTimeout, WsServerClosed,
           WsReadError
<1>3. (\A j \in Socket : j # i => ws'[j] = ws[j]) /\ UNCHANGED cur_ws
    BY <1>1, <1>2 DEF Becomes
<1>4. ASSUME ws[i].phase \notin {"connecting", "running"}
      PROVE  ws'[i].phase \notin {"connecting", "running"}
    <2>1. WsReportDisconnected(i) \/ WsEnd(i)
        BY <1>4 DEF WsTaskStep, WsNetworkStep, WsSendPayload, WsTestConnection,
               WsShutDown, WsChannelClosed, WsConnected,
               WsConnectError, WsSendFailed, WsText, WsPong, WsPingTimeout, WsServerClosed,
               WsReadError, Running
    <2>2. CASE WsReportDisconnected(i)
        <3>1. ws'[i] = [Reporting(i, "Disconnected") EXCEPT !.phase = "exiting"]
            BY <1>1, <2>2 DEF WsReportDisconnected, Becomes
        <3>2. Reporting(i, "Disconnected") \in SocketState
            BY ReportingType DEF TypeInv, WsUpdateMessage
        <3> QED
            BY <3>1, <3>2 DEF SocketState
    <2>3. CASE WsEnd(i)
        BY <1>1, <2>3 DEF WsEnd, Becomes, Ended, NoSocket
    <2> QED
        BY <2>1, <2>2, <2>3
<1> QED
    BY <1>3, <1>4

\* A step of which the manager, its task and the machine take no note.
LEMMA UnchangedSettled ==
    ASSUME SettleInv, OthersOver => OthersOver', cur_ws # None => Task' = Task,
           UNCHANGED <<fsm_state, to_fsm, from_fsm, cur_ws, mgr, mgr_pc, ws_join_handle>>
    PROVE  SettleInv'
<1> SUFFICES ASSUME mgr_pc \notin StopPc
             PROVE  (/\ OthersOver /\ TaskReportsInTurn /\ HasConnected /\ HasHandle /\ NoHangup
                     /\ Attended /\ Awaiting /\ ErrorsFirst /\ EndIsReported /\ Leaving /\ OneUrl)'
    BY DEF SettleInv
<1>1. /\ UNCHANGED <<IsUnderWay, IsLive, WillReset, WillEnd, HasStarted, IsExiting>>
    BY DEF IsUnderWay, IsLive, WillReset, WillEnd, HasStarted, IsExiting
<1>2. OthersOver' /\ TaskReportsInTurn'
    BY DEF SettleInv, TaskReportsInTurn
<1>3. HasConnected' /\ HasHandle' /\ NoHangup'
    BY <1>1 DEF SettleInv, HasConnected, HasHandle, NoHangup
<1>4. Attended' /\ ErrorsFirst'
    BY <1>1 DEF SettleInv, Attended, ErrorsFirst
<1>5. Awaiting'
    BY <1>1 DEF SettleInv, Awaiting
<1>6. EndIsReported'
    BY <1>1 DEF SettleInv, EndIsReported, IsExiting
<1>7. Leaving'
    BY <1>1 DEF SettleInv, Leaving
<1>8. OneUrl'
    BY <1>1 DEF SettleInv, OneUrl
<1> QED
    BY <1>2, <1>3, <1>4, <1>5, <1>6, <1>7, <1>8

LEMMA TaskKeepsSettled ==
    ASSUME SettleInv, OthersOver => OthersOver', cur_ws # None, TaskGoesOn(Task, Task'),
           UNCHANGED <<fsm_state, to_fsm, from_fsm, cur_ws, mgr, mgr_pc, ws_join_handle>>
    PROVE  SettleInv'
<1> SUFFICES ASSUME mgr_pc \notin StopPc
             PROVE  (/\ OthersOver /\ TaskReportsInTurn /\ HasConnected /\ HasHandle /\ NoHangup
                     /\ Attended /\ Awaiting /\ ErrorsFirst /\ EndIsReported /\ Leaving /\ OneUrl)'
    BY DEF SettleInv
<1>1. /\ UNCHANGED <<IsUnderWay, IsLive, WillReset, WillEnd, HasStarted>>
    BY DEF IsUnderWay, IsLive, WillReset, WillEnd, HasStarted
<1>2. OthersOver' /\ TaskReportsInTurn'
    BY DEF SettleInv, TaskReportsInTurn, TaskGoesOn
<1>3. HasConnected' /\ HasHandle' /\ NoHangup'
    BY <1>1 DEF SettleInv, HasConnected, HasHandle, NoHangup, TaskGoesOn
<1>4. Attended' /\ ErrorsFirst'
    BY <1>1 DEF SettleInv, Attended, ErrorsFirst, TaskGoesOn
<1>5. Awaiting'
    BY <1>1 DEF SettleInv, Awaiting, TaskGoesOn
<1>6. EndIsReported'
    <2> SUFFICES ASSUME IsExiting', Without(Task'.from_ws, {"Disconnected"})
                 PROVE  /\ ~(fsm_state.tag = "Connecting" /\ ~Without(to_fsm, Registrations))
                        /\ ~IsLive
        BY <1>1 DEF EndIsReported
    <2>1. Task.phase = "connecting"
        BY DEF IsExiting, TaskGoesOn
    <2>2. fsm_state.tag # "Disconnected" /\ fsm_state.tag # "Connecting"
              => cur_ws # None /\ Task.phase # "connecting"
        BY DEF SettleInv, HasConnected
    <2> QED
        BY <2>1, <2>2 DEF SettleInv, HasConnected, IsLive, LiveTag
<1>7. Leaving'
    BY <1>1 DEF SettleInv, Leaving, TaskGoesOn
<1>8. OneUrl'
    BY <1>1 DEF SettleInv, OneUrl, TaskGoesOn
<1> QED
    BY <1>2, <1>3, <1>4, <1>5, <1>6, <1>7, <1>8

LEMMA WebSocketTaskSettled ==
    ASSUME "SendFailed" \notin Faults, TypeInv, PairInv, SettleInv,
           NEW i \in Socket, WsTask(i) \/ WsNetwork(i)
    PROVE  SettleInv'
<1>1. /\ WsTaskStep(i) \/ WsNetworkStep(i)
      /\ UNCHANGED <<fsm_state, to_fsm, from_fsm, mgr, mgr_pc, ws_join_handle>>
    BY DEF WsTask, WsNetwork, fsm_vars, mgr_vars
<1>2. /\ \A j \in Socket : j # i => ws'[j] = ws[j]
      /\ UNCHANGED cur_ws
      /\ ws[i].phase \notin {"connecting", "running"}
             => ws'[i].phase \notin {"connecting", "running"}
    BY <1>1, OtherStaysOver
<1>3. OthersOver => OthersOver'
    BY <1>2 DEF OthersOver
<1>4. CASE mgr_pc \in StopPc
    BY <1>1, <1>4 DEF SettleInv
<1>5. CASE mgr_pc \notin StopPc /\ i # cur_ws
    <2>1. cur_ws # None => Task' = Task
        BY <1>2, <1>5 DEF Task, TypeInv, WsTypeOK
    <2> QED
        BY <1>1, <1>2, <1>3, <2>1, UnchangedSettled
<1>6. CASE mgr_pc \notin StopPc /\ i = cur_ws
    <2>1. cur_ws # None
        BY <1>6, SocketAssumption
    <2>2. InOrder(Task) /\ ReportsInTurn(Task)
        BY <1>6, <2>1 DEF PairInv, AttemptInv, TaskInOrder, SettleInv, TaskReportsInTurn
    <2>3. TaskGoesOn(Task, Task')
        BY <1>1, <1>6, <2>1, <2>2, TaskGoesOnWith
    <2> QED
        BY <1>1, <1>2, <1>3, <2>1, <2>3, TaskKeepsSettled
<1> QED
    BY <1>4, <1>5, <1>6

-----------------------------------------------------------------------------
(* The steps of the manager, but for those that start a task or read what  *)
(* one has reported.                                                       *)

\* The manager leaves the tasks alone, but may send its own a message, and that
\* message may be to end.
OthersKept == \A j \in Socket : j # cur_ws => ws'[j] = ws[j]

KeepsEndTold == cur_ws # None /\ ToldToEnd(Task) => ToldToEnd(Task')

KeepsUntold == cur_ws # None /\ ~ToldToEnd(Task) => ~ToldToEnd(Task')

TaskServed == TaskKept /\ OthersKept /\ KeepsEndTold

LEMMA UnchangedServed == UNCHANGED ws_vars => TaskServed /\ KeepsUntold
BY UnchangedTask DEF TaskServed, ws_vars, OthersKept, KeepsEndTold, KeepsUntold, Task

LEMMA TellServes ==
    ASSUME WsTypeOK, cur_ws # None, NEW message \in WsMessage \ {"TestConnection"}, Tell(message)
    PROVE  /\ TaskServed
           /\ message # "ShutDown" => KeepsUntold
           /\ message = "ShutDown" => ToldToEnd(Task')
<1>1. cur_ws \in Socket /\ ws \in [Socket -> SocketState] /\ Task \in SocketState
    BY DEF WsTypeOK, Task
<1>2. TaskKept
    BY TellKeepsTask
<1>3. OthersKept
    BY <1>1 DEF OthersKept, Tell
<1>4. Task'.to_ws = Append(Task.to_ws, message) /\ Task.to_ws \in Seq(WsMessage)
    BY <1>1 DEF Tell, Task, SocketState
<1>5. ToldToEnd(Task') <=> ToldToEnd(Task) \/ message = "ShutDown"
    <2>1. Adds(Task.to_ws, message, Task'.to_ws)
        BY <1>4, AppendAdds
    <2>2. Without(Task'.to_ws, {"ShutDown"}) <=>
              Without(Task.to_ws, {"ShutDown"}) /\ message \notin {"ShutDown"}
        BY <2>1 DEF Adds
    <2> QED
        BY <2>2 DEF ToldToEnd
<1> QED
    BY <1>2, <1>3, <1>5 DEF TaskServed, KeepsEndTold, KeepsUntold

LEMMA ForceResetServes ==
    ASSUME WsTypeOK, NEW s, NEW pc, ForceManagerReset(s, pc)
    PROVE  TaskServed /\ mgr_pc' = pc
<1>1. mgr_pc' = pc
    BY DEF ForceManagerReset, Commit, Result
<1>2. CASE IsWsOpen
    <2>1. Tell("ShutDown") /\ cur_ws # None
        BY <1>2 DEF ForceManagerReset, IsWsOpen
    <2> QED
        BY <1>1, <2>1, TellServes DEF WsMessage
<1>3. CASE ~IsWsOpen
    BY <1>1, <1>3, UnchangedServed DEF ForceManagerReset
<1> QED
    BY <1>2, <1>3

\* A message to the task reaches it, or makes the manager reset.
LEMMA SendToWsServes ==
    ASSUME WsTypeOK, NEW s, NEW message \in WsMessage \ {"TestConnection"}, NEW pc,
           SendToWs(s, message, pc)
    PROVE  /\ TaskServed
           /\ \/ mgr_pc' = pc
              \/ /\ mgr_pc' = "select"
                 /\ message # "ShutDown" => KeepsUntold
                 /\ message = "ShutDown" /\ cur_ws # None => ToldToEnd(Task')
<1>1. CASE IsWsOpen
    <2>1. Tell(message) /\ cur_ws # None /\ mgr_pc' = "select"
        BY <1>1 DEF SendToWs, IsWsOpen, Commit, Done, Result
    <2> QED
        BY <2>1, TellServes
<1>2. CASE cur_ws = None
    <2>1. UNCHANGED ws_vars /\ mgr_pc' = "select"
        BY <1>2 DEF SendToWs, IsWsOpen, Commit, Done, Result
    <2> QED
        BY <1>2, <2>1, UnchangedServed
<1>3. CASE cur_ws # None /\ ~IsWsOpen
    <2>1. ForceManagerReset(s, pc)
        BY <1>3 DEF SendToWs
    <2> QED
        BY <2>1, ForceResetServes
<1> QED
    BY <1>1, <1>2, <1>3 DEF IsWsOpen

\* What the machine relies on stays as it is, or the machine will be reset.
LEMMA HandlerKeepsSettled ==
    ASSUME TypeInv, SettleInv, mgr_pc \notin StopPc, TaskServed, UNCHANGED fsm_state,
           NEW sent \in Seq(Input), to_fsm' = to_fsm \o sent,
           Without(sent, Errors), Without(sent, Registrations),
           \A S : Without(from_fsm, S) => Without(from_fsm', S),
           mgr_pc \in ResetPc => WillReset',
           fsm_state.tag # "Disconnected" =>
               \/ WillReset'
               \/ /\ UNCHANGED ws_join_handle
                  /\ HasStarted' => HasStarted,
           IsUnderWay => WillReset' \/ (KeepsUntold /\ mgr'.ws_url = mgr.ws_url),
           fsm_state.tag = "Disconnecting" /\ ~Without(from_fsm, Hangups) =>
               \/ WillReset'
               \/ ~Without(from_fsm', Hangups)
               \/ cur_ws # None /\ Task.phase \in {"running", "ended"} => IsLeaving(Task')
    PROVE  SettleInv'
<1>1. /\ OthersOver /\ TaskReportsInTurn /\ HasConnected /\ HasHandle /\ NoHangup
      /\ Attended /\ Awaiting /\ ErrorsFirst /\ EndIsReported /\ Leaving /\ OneUrl
    BY DEF SettleInv
<1>2. to_fsm \in Seq(Input)
    BY DEF TypeInv, CoreOK
<1>3. /\ \A S : ~Without(to_fsm, S) => ~Without(to_fsm', S)
      /\ Without(to_fsm', Registrations) <=> Without(to_fsm, Registrations)
      /\ Without(to_fsm', Errors) <=> Without(to_fsm, Errors)
    BY <1>2, SendMessages
<1>4. \A S, T : ~NoneAfter(to_fsm, S, T) => ~NoneAfter(to_fsm', S, T)
    BY <1>2, SendMessages
<1>5. WillReset => WillReset'
    BY <1>3 DEF WillReset
<1>6. WillEnd => WillEnd'
    BY <1>3, <1>5 DEF WillEnd
<1>7. UNCHANGED <<IsUnderWay, IsLive, cur_ws>>
    BY DEF IsUnderWay, IsLive, TaskServed, TaskKept
<1>8. cur_ws # None => /\ Task'.phase = Task.phase /\ Task'.host = Task.host
                       /\ Task'.from_ws = Task.from_ws
    BY DEF TaskServed, TaskKept
<1>9. OthersOver' /\ TaskReportsInTurn'
    BY <1>1, <1>7, <1>8 DEF OthersOver, TaskReportsInTurn, ReportsInTurn, TaskServed, OthersKept
<1>10. HasConnected' /\ HasHandle' /\ NoHangup'
    <2>1. HasConnected'
        BY <1>1, <1>3, <1>7, <1>8 DEF HasConnected
    <2>2. HasHandle'
        BY <1>1, <1>5 DEF HasHandle
    <2>3. NoHangup'
        BY <1>1, <1>7 DEF NoHangup
    <2> QED
        BY <2>1, <2>2, <2>3
<1>11. Attended'
    <2> SUFFICES ASSUME IsUnderWay, HasStarted', ~WillReset'
                 PROVE  WillEnd' \/ (cur_ws # None /\ IsAttended(Task'))
        BY <1>7 DEF Attended, WillEnd
    <2>1. HasStarted /\ KeepsUntold
        BY DEF IsUnderWay, LiveTag
    <2>2. CASE WillEnd
        BY <1>6, <2>2
    <2>3. CASE cur_ws # None /\ IsAttended(Task)
        BY <1>8, <2>1, <2>3 DEF IsAttended, KeepsUntold, ToldToEnd
    <2> QED
        BY <1>1, <2>1, <2>2, <2>3 DEF Attended
<1>12. Awaiting'
    <2> SUFFICES ASSUME fsm_state.tag = "Connecting", HasStarted', ~WillReset'
                 PROVE  \/ WillEnd'
                        \/ ~Without(to_fsm', Registrations)
                        \/ cur_ws # None /\ \/ Task'.phase = "connecting"
                                            \/ ~Without(Task'.from_ws, {"Connected"} \cup ErrorWords)
        BY <1>7 DEF Awaiting, WillEnd
    <2>1. HasStarted
        OBVIOUS
    <2> QED
        BY <1>1, <1>3, <1>6, <1>8, <2>1 DEF Awaiting
<1>13. ErrorsFirst'
    <2>1. ASSUME NoneBetween(to_fsm, Registrations, Completions, Errors)
          PROVE  NoneBetween(to_fsm', Registrations, Completions, Errors)
        BY <1>2, <2>1, SendBetween
    <2>2. ASSUME NoneAfter(to_fsm, Completions, Errors)
          PROVE  NoneAfter(to_fsm', Completions, Errors)
        <3>1. NoneAfter(sent, Completions, Errors)
            BY DEF Without, NoneAfter
        <3> QED
            BY <1>2, <2>2, <3>1, SendMessages
    <2> QED
        BY <1>1, <1>7, <2>1, <2>2 DEF ErrorsFirst
<1>14. EndIsReported'
    BY <1>1, <1>3, <1>4, <1>5, <1>7, <1>8 DEF EndIsReported, IsExiting
<1>15. Leaving'
    <2> SUFFICES ASSUME fsm_state.tag = "Disconnecting", ~WillReset'
                 PROVE  \/ WillEnd'
                        \/ ~Without(to_fsm', Completions)
                        \/ cur_ws # None /\ IsLeaving(Task')
                        \/ /\ ~Without(from_fsm', Hangups)
                           /\ cur_ws # None /\ Task'.phase \in {"running", "ended"}
        BY <1>7 DEF Leaving, WillEnd
    <2>1. CASE WillEnd \/ ~Without(to_fsm, Completions)
        BY <1>3, <1>6, <2>1
    <2>2. CASE cur_ws # None /\ IsLeaving(Task)
        BY <1>8, <2>2 DEF IsLeaving, TaskServed, KeepsEndTold, ToldToEnd
    <2>3. CASE /\ ~Without(from_fsm, Hangups)
               /\ cur_ws # None /\ Task.phase \in {"running", "ended"}
        BY <1>8, <2>3
    <2> QED
        BY <1>1, <2>1, <2>2, <2>3 DEF Leaving
<1>16. OneUrl'
    <2> SUFFICES ASSUME IsUnderWay, ~WillReset'
                 PROVE  /\ mgr'.ws_url = fsm_state.url
                        /\ Without(from_fsm', {update \in Starts : update.url # fsm_state.url})
                        /\ HasStarted' => cur_ws # None /\ Task'.host = fsm_state.url
        BY <1>7 DEF OneUrl
    <2>1. fsm_state.tag # "Disconnected" /\ ~WillReset
        BY <1>5 DEF IsUnderWay, LiveTag
    <2>2. /\ mgr.ws_url = fsm_state.url
          /\ Without(from_fsm, {update \in Starts : update.url # fsm_state.url})
          /\ HasStarted => cur_ws # None /\ Task.host = fsm_state.url
        BY <1>1, <2>1 DEF OneUrl
    <2> QED
        BY <1>8, <2>1, <2>2
<1> QED
    BY <1>9, <1>10, <1>11, <1>12, <1>13, <1>14, <1>15, <1>16 DEF SettleInv

-----------------------------------------------------------------------------
(* The steps of the machine.                                               *)

\* The Inputs that a machine cannot ignore, and the URL that it keeps.
LEMMA FsmDecides ==
    ASSUME TypeInv, RestInv, mgr_pc \notin StopPc, FsmStep
    PROVE  LET input == Head(to_fsm)
               from == fsm_state.tag
               to == fsm_state'.tag
           IN  /\ input.tag = "Reset" => to = "Disconnected"
               /\ input.tag = "Error" => to \in {"Disconnected", "Disconnecting"}
               /\ input.tag \in {"Error", "DisconnectionComplete"} /\ from = "Disconnecting"
                      => to = "Disconnected"
               /\ input.tag = "AttemptRegister" /\ from = "Connecting" => to = "Connected"
               /\ from # "Disconnected" /\ to # "Disconnected" => fsm_state'.url = fsm_state.url
               /\ from = "Disconnected" /\ to # "Disconnected" =>
                      /\ input.tag = "Connect" /\ to = "Connecting"
                      /\ fsm_state'.url = input.url
<1> DEFINE input == Head(to_fsm)
           from == fsm_state.tag
           to == fsm_state'.tag
<1>1. FsmTransition \/ FsmTransitionError
    BY DEF FsmStep, FsmNext, FsmShutDown, RestInv, IsStopping
<1>2. input \in Input /\ fsm_state \in State /\ from \in StateTag
    <2>1. to_fsm \in Seq(Input) /\ to_fsm # <<>> /\ fsm_state \in State
        BY <1>1 DEF TypeInv, CoreOK, RestOK, FsmTransition, FsmTransitionError
    <2> QED
        BY <2>1 DEF State, StateTag
<1>3. CASE FsmTransitionError
    <2>1. Applicable(fsm_state, input) = {} /\ UNCHANGED fsm_state
        BY <1>3 DEF FsmTransitionError
    <2>2. \A rule \in Rules : ~(rule.from = from /\ rule.input = input.tag)
        BY <2>1 DEF Applicable
    <2> HIDE DEF input, from
    <2>3. input.tag # "Reset"
        <3>1. Rule(from, "Reset", "Disconnected", NoOutput) \in Rules
            BY <1>2 DEF Rules
        <3> QED
            BY <2>2, <3>1 DEF Rule
    <2>4. input.tag = "Error" => from = "Disconnected"
        <3> DEFINE to_end == Rule("Connecting", "Error", "Disconnected", "HandleConnectError")
                   rule(s) == Rule(s, "Error", "Disconnecting", "DisconnectFromTv")
                   ended == Rule("Disconnecting", "Error", "Disconnected", "HandleDisconnectError")
        <3>1. /\ to_end \in Rules /\ ended \in Rules
              /\ rule("Connected") \in Rules /\ rule("Pairing") \in Rules
              /\ rule("Initializing") \in Rules /\ rule("Communicating") \in Rules
            BY DEF Rules
        <3> QED
            BY <1>2, <2>2, <3>1 DEF Rule, StateTag
    <2>5. ~(input.tag = "DisconnectionComplete" /\ from = "Disconnecting")
        <3>1. Rule("Disconnecting", "DisconnectionComplete", "Disconnected",
                   "HandleSuccessfulDisconnect") \in Rules
            BY DEF Rules
        <3> QED
            BY <2>2, <3>1 DEF Rule
    <2>6. ~(input.tag = "AttemptRegister" /\ from = "Connecting")
        <3>1. Rule("Connecting", "AttemptRegister", "Connected", "SendRegisterPayload") \in Rules
            BY DEF Rules
        <3> QED
            BY <2>2, <3>1 DEF Rule
    <2> QED
        BY <2>1, <2>3, <2>4, <2>5, <2>6 DEF input, from
<1>4. CASE FsmTransition
    <2>1. PICK rule \in Applicable(fsm_state, input) : fsm_state' = Target(rule, fsm_state, input)
        BY <1>4 DEF FsmTransition
    <2>2. /\ rule \in Rules /\ rule.from = from /\ rule.input = input.tag /\ to = rule.to
        BY <1>2, <2>1, RuleTypes DEF Applicable
    <2>3. rule.to # "Disconnected" =>
              fsm_state'.url = IF rule.input = "Connect" THEN input.url ELSE fsm_state.url
        BY <2>1 DEF Target
    <2>4. /\ rule.input = "Reset" => rule.to = "Disconnected"
          /\ rule.input = "Error" => rule.to \in {"Disconnected", "Disconnecting"}
          /\ rule.input \in {"Error", "DisconnectionComplete"} /\ rule.from = "Disconnecting"
                 => rule.to = "Disconnected"
          /\ rule.input = "AttemptRegister" /\ rule.from = "Connecting" => rule.to = "Connected"
          /\ rule.input = "Connect" => rule.from = "Disconnected"
          /\ rule.from = "Disconnected" /\ rule.to # "Disconnected" =>
                 rule.input = "Connect" /\ rule.to = "Connecting"
        BY <2>2 DEF Rules, Rule
    <2> QED
        BY <2>2, <2>3, <2>4
<1> QED
    BY <1>1, <1>3, <1>4

\* Where a machine comes from, and what it has reported on the way.
LEMMA FsmComesFrom ==
    ASSUME NEW input, NEW from, NEW to, NEW out \in Update, FsmMove(input, from, to, out)
    PROVE  /\ out \in Starts => from = "Disconnected" /\ out.url = input.url
           /\ out \in Hangups => to = "Disconnecting"
           /\ to = "Connecting" => from \in {"Connecting", "Disconnected"}
           /\ to \in LiveTag =>
                  \/ from \in LiveTag
                  \/ from = "Connecting" /\ input.tag = "AttemptRegister"
           /\ to = "Disconnecting" /\ from # "Disconnecting" =>
                  /\ from \in LiveTag /\ out \in Hangups
                  /\ input.tag \in {"Disconnect", "Error"}
           /\ from = "Disconnected" /\ to = "Connecting" => input.tag = "Connect" /\ out \in Starts
<1> DEFINE tag == IF IsSilent(out) THEN NoOutput ELSE out.tag
           ends == {"HandleSuccessfulDisconnect", "HandleDisconnectError", "HandleConnectError"}
<1>1. /\ IsSilent(out) => tag = NoOutput
      /\ out \in Starts <=> tag = "ConnectToTv"
      /\ out \in Ends <=> tag \in ends
      /\ out \in Outputs({"SendRegisterPayload"}) <=> tag = "SendRegisterPayload"
      /\ out \in Outputs({"PairWithTv"}) <=> tag = "PairWithTv"
      /\ out \in Outputs({"InitializeConnection"}) <=> tag = "InitializeConnection"
      /\ out \in Outputs({"SendCommand"}) <=> tag = "SendCommand"
      /\ out \in Outputs({"DisconnectFromTv"}) <=> tag = "DisconnectFromTv"
    BY TaggedOutputs DEF IsSilent, OutputTag, NoOutput
<1> HIDE DEF tag
<1> QED
    BY <1>1 DEF FsmMove, NoOutput, Hangups, LiveTag

LEMMA FsmSettled ==
    ASSUME TypeInv, RestInv, PairInv, SettleInv, FsmStep
    PROVE  SettleInv'
<1>1. UNCHANGED <<ws, cur_ws, mgr, mgr_pc, ws_join_handle>>
    BY DEF FsmStep, ws_vars, mgr_vars
<1> SUFFICES ASSUME mgr_pc \notin StopPc
             PROVE  (/\ OthersOver /\ TaskReportsInTurn /\ HasConnected /\ HasHandle /\ NoHangup
                     /\ Attended /\ Awaiting /\ ErrorsFirst /\ EndIsReported /\ Leaving /\ OneUrl)'
    BY <1>1 DEF SettleInv
<1>2. /\ OthersOver /\ TaskReportsInTurn /\ HasConnected /\ HasHandle /\ NoHangup
      /\ Attended /\ Awaiting /\ ErrorsFirst /\ EndIsReported /\ Leaving /\ OneUrl
    BY DEF SettleInv
<1>3. OneTask /\ Asking /\ Starting
    BY DEF PairInv, AttemptInv
<1> DEFINE input == Head(to_fsm)
           from == fsm_state.tag
           to == fsm_state'.tag
<1>4. to_fsm # <<>> /\ to_fsm' = Tail(to_fsm) /\ to_fsm \in Seq(Input)
    BY FsmMoves DEF TypeInv, CoreOK
<1>5. PICK out \in Update : /\ AddsOutput(from_fsm, out, from_fsm')
                            /\ FsmMove(input, from, to, out)
    BY FsmMoves
<1>6. /\ input.tag = "Reset" => to = "Disconnected"
      /\ input.tag = "Error" => to \in {"Disconnected", "Disconnecting"}
      /\ input.tag \in {"Error", "DisconnectionComplete"} /\ from = "Disconnecting"
             => to = "Disconnected"
      /\ input.tag = "AttemptRegister" /\ from = "Connecting" => to = "Connected"
      /\ from # "Disconnected" /\ to # "Disconnected" => fsm_state'.url = fsm_state.url
      /\ from = "Disconnected" /\ to # "Disconnected" =>
             input.tag = "Connect" /\ to = "Connecting" /\ fsm_state'.url = input.url
    BY FsmDecides
<1>7. /\ out \in Starts => from = "Disconnected" /\ out.url = input.url
      /\ out \in Hangups => to = "Disconnecting"
      /\ to = "Connecting" => from \in {"Connecting", "Disconnected"}
      /\ to \in LiveTag => \/ from \in LiveTag
                           \/ from = "Connecting" /\ input.tag = "AttemptRegister"
      /\ to = "Disconnecting" /\ from # "Disconnecting" =>
             /\ from \in LiveTag /\ out \in Hangups
             /\ input.tag \in {"Disconnect", "Error"}
      /\ from = "Disconnected" /\ to = "Connecting" => input.tag = "Connect" /\ out \in Starts
    <2> HIDE DEF input, from, to
    <2> QED
        BY <1>5, FsmComesFrom
<1>8. input \in Input
    BY <1>4
<1>9. /\ input \in Registrations <=> input.tag = "AttemptRegister"
      /\ input \in Completions <=> input.tag = "DisconnectionComplete"
      /\ input \in Errors <=> input.tag = "Error"
      /\ input \in Connects <=> input.tag = "Connect"
      /\ input \in Inputs({"Reset"}) <=> input.tag = "Reset"
    BY <1>8, TaggedInputs DEF Registrations, Completions
<1>10. /\ Takes(to_fsm, to_fsm') /\ TakesMore(to_fsm, to_fsm')
    BY <1>4, TailTakes, TailTakesMore
<1>11. \A S, T :
           /\ Without(to_fsm, S) <=> input \notin S /\ Without(to_fsm', S)
           /\ NoneAfter(to_fsm, S, T) => NoneAfter(to_fsm', S, T)
           /\ NoneAfter(to_fsm, S, T) /\ input \in S => Without(to_fsm', T)
           /\ NoneAfter(to_fsm', S, T) /\ input \notin S => NoneAfter(to_fsm, S, T)
           /\ Without(to_fsm', T) => NoneAfter(to_fsm, S, T)
    BY <1>10 DEF Takes, TakesMore
<1>12. /\ \A S : S \subseteq Outputs(OutputTag) =>
              (Without(from_fsm', S) <=> Without(from_fsm, S) /\ out \notin S)
       /\ Starts \subseteq Outputs(OutputTag) /\ Hangups \subseteq Outputs(OutputTag)
    <2>1. \A S, T : S \subseteq Outputs(OutputTag) /\ T \subseteq Outputs(OutputTag) =>
              (Without(from_fsm', S) <=> Without(from_fsm, S) /\ out \notin S)
        BY <1>5 DEF AddsOutput
    <2> QED
        BY <2>1, FewerOutputs DEF Hangups
<1>13. /\ Without(from_fsm', Starts) <=> Without(from_fsm, Starts) /\ out \notin Starts
       /\ Without(from_fsm', Hangups) <=> Without(from_fsm, Hangups) /\ out \notin Hangups
    BY <1>12
<1>14. HasStarted' => HasStarted /\ out \notin Starts
    BY <1>13 DEF HasStarted
<1>15. /\ to # "Disconnected" /\ WillReset => WillReset'
       /\ to \notin {"Disconnected", "Disconnecting"} /\ WillEnd => WillEnd'
    BY <1>1, <1>6, <1>9, <1>11 DEF WillReset, WillEnd
<1>16. /\ cur_ws' = cur_ws /\ Task' = Task
       /\ IsUnderWay' <=> to = "Connecting" \/ to \in LiveTag
       /\ IsUnderWay <=> from = "Connecting" \/ from \in LiveTag
       /\ IsLive' <=> to \in LiveTag
       /\ IsLive <=> from \in LiveTag
       /\ "Disconnected" \notin LiveTag /\ "Connecting" \notin LiveTag
       /\ "Disconnecting" \notin LiveTag
    BY <1>1 DEF Task, IsUnderWay, IsLive, LiveTag
\* A Connect that is accepted finds nothing of another attempt.
<1>17. from = "Disconnected" /\ to = "Connecting" =>
           /\ ~HasStarted'
           /\ Without(from_fsm, Outputs(OutputTag))
           /\ mgr.ws_url = input.url
           /\ Without(to_fsm', Input \ Inputs(IdleInput))
    <2> SUFFICES ASSUME from = "Disconnected", to = "Connecting"
                 PROVE  /\ ~HasStarted'
                        /\ Without(from_fsm, Outputs(OutputTag))
                        /\ mgr.ws_url = input.url
                        /\ Without(to_fsm', Input \ Inputs(IdleInput))
        OBVIOUS
    <2>1. input \in Connects /\ out \in Starts
        BY <1>7, <1>9
    <2>2. /\ Without(to_fsm, {c \in Connects : c.url # mgr.ws_url})
          /\ NoneAfter(to_fsm, Connects, Input \ Inputs(IdleInput))
          /\ Without(from_fsm, Outputs(OutputTag))
        BY <1>3, <1>11, <2>1 DEF Asking
    <2>3. input \notin {c \in Connects : c.url # mgr.ws_url}
        BY <1>11, <2>2
    <2> HIDE DEF input
    <2> QED
        BY <1>11, <1>14, <2>1, <2>2, <2>3
<1>18. /\ Errors \subseteq Input \ Inputs(IdleInput)
       /\ Registrations \subseteq Input \ Inputs(IdleInput)
    BY DEF Errors, Inputs, IdleInput, Registrations
<1>19. from = "Disconnected" /\ to = "Connecting" =>
           Without(to_fsm', Errors) /\ Without(to_fsm', Registrations)
    BY <1>17, <1>18, FewerWithout
<1> HIDE DEF input, from, to
<1>20. OthersOver' /\ TaskReportsInTurn'
    BY <1>1, <1>2, <1>16 DEF OthersOver, TaskReportsInTurn
<1>21. HasConnected'
    <2>1. ~Without(to_fsm', Registrations) => cur_ws # None /\ Task.phase # "connecting"
        BY <1>2, <1>11 DEF HasConnected
    <2>2. to \notin {"Disconnected", "Connecting"} => cur_ws # None /\ Task.phase # "connecting"
        <3> SUFFICES ASSUME to \notin {"Disconnected", "Connecting"}
                     PROVE  cur_ws # None /\ Task.phase # "connecting"
            OBVIOUS
        <3>1. CASE from \notin {"Disconnected", "Connecting"}
            BY <1>2, <3>1 DEF HasConnected, from
        <3>2. CASE from = "Connecting"
            <4>1. to \in LiveTag \/ to = "Disconnecting"
                BY <1>5, <3>2 DEF FsmMove, LiveTag
            <4>2. input \in Registrations
                BY <1>7, <1>9, <1>16, <3>2, <4>1
            <4> QED
                BY <1>2, <1>11, <4>2 DEF HasConnected
        <3> QED
            BY <1>6, <3>1, <3>2
    <2> QED
        BY <1>16, <2>1, <2>2 DEF HasConnected, to
<1>22. HasHandle'
    <2> SUFFICES ASSUME to # "Disconnected", HasStarted'
                 PROVE  ws_join_handle # None \/ WillReset'
        BY <1>1 DEF HasHandle, to
    <2>1. from # "Disconnected"
        BY <1>6, <1>17
    <2> QED
        BY <1>2, <1>14, <1>15, <2>1 DEF HasHandle, from
<1>23. NoHangup'
    <2> SUFFICES ASSUME IsUnderWay' PROVE Without(from_fsm', Hangups)
        BY DEF NoHangup
    <2>1. out \notin Hangups
        BY <1>7, <1>16
    <2>2. CASE from = "Disconnected"
        BY <1>6, <1>12, <1>13, <1>16, <1>17, <2>1, <2>2, FewerWithout
    <2>3. CASE from # "Disconnected"
        BY <1>2, <1>7, <1>13, <1>16, <2>1, <2>3 DEF NoHangup
    <2> QED
        BY <2>2, <2>3
<1>24. Attended'
    <2> SUFFICES ASSUME IsUnderWay', HasStarted'
                 PROVE  WillEnd' \/ (cur_ws # None /\ IsAttended(Task))
        BY <1>16 DEF Attended
    <2>1. from # "Disconnected"
        BY <1>6, <1>16, <1>17
    <2>2. IsUnderWay /\ HasStarted
        BY <1>7, <1>14, <1>16, <2>1
    <2> QED
        BY <1>2, <1>15, <1>16, <2>2 DEF Attended
<1>25. Awaiting'
    <2> SUFFICES ASSUME to = "Connecting", HasStarted'
                 PROVE  \/ WillEnd'
                        \/ ~Without(to_fsm', Registrations)
                        \/ cur_ws # None /\ \/ Task.phase = "connecting"
                                            \/ ~Without(Task.from_ws, {"Connected"} \cup ErrorWords)
        BY <1>16 DEF Awaiting, to
    <2>1. from = "Connecting" /\ HasStarted
        BY <1>7, <1>14, <1>17
    <2>2. input \notin Registrations
        BY <1>6, <1>9, <2>1
    <2> QED
        BY <1>2, <1>11, <1>15, <2>1, <2>2 DEF Awaiting, from
<1>26. ErrorsFirst'
    <2>1. ASSUME to = "Connecting"
          PROVE  NoneBetween(to_fsm', Registrations, Completions, Errors)
        <3>1. CASE from = "Connecting"
            BY <1>2, <1>10, <3>1 DEF ErrorsFirst, TakesMore, from
        <3>2. CASE from = "Disconnected"
            <4>1. Without(to_fsm', Errors)
                BY <1>19, <2>1, <3>2
            <4> QED
                BY <4>1 DEF Without, NoneBetween
        <3> QED
            BY <1>7, <2>1, <3>1, <3>2
    <2>2. ASSUME to \in LiveTag
          PROVE  NoneAfter(to_fsm', Completions, Errors)
        <3>1. CASE from \in LiveTag
            BY <1>2, <1>11, <1>16, <3>1 DEF ErrorsFirst
        <3>2. CASE from = "Connecting" /\ input.tag = "AttemptRegister"
            BY <1>2, <1>9, <1>10, <3>2 DEF ErrorsFirst, TakesMore, from, input
        <3> QED
            BY <1>7, <2>2, <3>1, <3>2
    <2> QED
        BY <1>16, <2>1, <2>2 DEF ErrorsFirst, to
<1>27. EndIsReported'
    <2> SUFFICES ASSUME IsExiting
                 PROVE  /\ to = "Connecting" /\ ~Without(to_fsm', Registrations) =>
                               \/ WillReset'
                               \/ ~NoneAfter(to_fsm', Registrations, Completions)
                               \/ ~Without(Task.from_ws, {"Disconnected"})
                        /\ to \in LiveTag =>
                               \/ WillReset'
                               \/ ~Without(to_fsm', Completions)
                               \/ ~Without(Task.from_ws, {"Disconnected"})
        BY <1>16 DEF EndIsReported, IsExiting, to
    <2>1. ASSUME to = "Connecting", ~Without(to_fsm', Registrations)
          PROVE  \/ WillReset'
                 \/ ~NoneAfter(to_fsm', Registrations, Completions)
                 \/ ~Without(Task.from_ws, {"Disconnected"})
        <3>1. from = "Connecting"
            BY <1>7, <1>19, <2>1
        <3>2. input \notin Registrations
            BY <1>6, <1>9, <2>1, <3>1
        <3>3. ~Without(to_fsm, Registrations)
            BY <1>11, <2>1
        <3>4. \/ WillReset
              \/ ~NoneAfter(to_fsm, Registrations, Completions)
              \/ ~Without(Task.from_ws, {"Disconnected"})
            BY <1>2, <3>1, <3>3 DEF EndIsReported, from
        <3>5. NoneAfter(to_fsm', Registrations, Completions)
                  => NoneAfter(to_fsm, Registrations, Completions)
            BY <1>11, <3>2
        <3> QED
            BY <1>15, <2>1, <3>4, <3>5
    <2>2. ASSUME to \in LiveTag, from = "Connecting", input.tag = "AttemptRegister"
          PROVE  \/ WillReset'
                 \/ ~Without(to_fsm', Completions)
                 \/ ~Without(Task.from_ws, {"Disconnected"})
        <3>1. ~Without(to_fsm, Registrations)
            BY <1>9, <1>11, <2>2
        <3>2. \/ WillReset
              \/ ~NoneAfter(to_fsm, Registrations, Completions)
              \/ ~Without(Task.from_ws, {"Disconnected"})
            BY <1>2, <2>2, <3>1 DEF EndIsReported, from
        <3>3. Without(to_fsm', Completions) => NoneAfter(to_fsm, Registrations, Completions)
            BY <1>11
        <3> QED
            BY <1>15, <1>16, <2>2, <3>2, <3>3
    <2>3. ASSUME to \in LiveTag, from \in LiveTag
          PROVE  \/ WillReset'
                 \/ ~Without(to_fsm', Completions)
                 \/ ~Without(Task.from_ws, {"Disconnected"})
        <3>1. \/ WillReset
              \/ ~Without(to_fsm, Completions)
              \/ ~Without(Task.from_ws, {"Disconnected"})
            BY <1>2, <1>16, <2>3 DEF EndIsReported
        <3>2. CASE input \notin Completions
            BY <1>11, <1>15, <1>16, <2>3, <3>1, <3>2
        <3>3. CASE input \in Completions
            <4>1. NoneAfter(to_fsm, Completions, Errors)
                BY <1>2, <1>16, <2>3 DEF ErrorsFirst
            <4>2. Without(to_fsm', Errors) /\ ~Without(to_fsm, Completions)
                BY <1>11, <3>3, <4>1
            <4>3. input.tag = "DisconnectionComplete"
                BY <1>9, <3>3
            <4>4. Without(to_fsm, Errors)
                BY <1>9, <1>11, <4>2, <4>3
            <4>5. HasStarted
                BY <1>3, <1>16, <2>3 DEF Starting, HasStarted, from
            <4>6. WillEnd \/ (cur_ws # None /\ IsAttended(Task))
                BY <1>2, <1>16, <2>3, <4>5 DEF Attended
            <4>7. ~(cur_ws # None /\ IsAttended(Task))
                <5> SUFFICES ASSUME cur_ws # None, IsAttended(Task) PROVE FALSE
                    OBVIOUS
                <5>1. ~Without(Task.from_ws, ErrorWords)
                    BY DEF IsAttended, IsExiting
                <5>2. ErrorWords \subseteq WsUpdateMessage \ {"Disconnected"}
                    BY DEF ErrorWords, WsUpdateMessage
                <5>3. ~Spent
                    BY <5>1, <5>2, FewerWithout DEF Spent, IsSpent
                <5>4. from \notin {"Disconnected", "Connecting"}
                    BY <1>16, <2>3
                <5>5. Without(to_fsm, Completions)
                    BY <1>3, <5>3, <5>4 DEF OneTask, Completions, from
                <5> QED
                    BY <4>2, <5>5
            <4>8. WillReset
                BY <4>4, <4>6, <4>7 DEF WillEnd
            <4> QED
                BY <1>15, <1>16, <2>3, <4>8
        <3> QED
            BY <3>2, <3>3
    <2> QED
        BY <1>7, <2>1, <2>2, <2>3
<1>28. Leaving'
    <2> SUFFICES ASSUME to = "Disconnecting"
                 PROVE  \/ WillEnd'
                        \/ ~Without(to_fsm', Completions)
                        \/ cur_ws # None /\ IsLeaving(Task)
                        \/ /\ ~Without(from_fsm', Hangups)
                           /\ cur_ws # None /\ Task.phase \in {"running", "ended"}
        BY <1>16 DEF Leaving, to
    <2>1. CASE from = "Disconnecting"
        <3>1. input.tag \notin {"Error", "DisconnectionComplete", "Reset"}
            BY <1>6, <2>1
        <3>2. /\ WillEnd => WillEnd'
              /\ ~Without(to_fsm, Completions) => ~Without(to_fsm', Completions)
            BY <1>1, <1>9, <1>11, <3>1 DEF WillEnd, WillReset
        <3> QED
            BY <1>2, <1>13, <2>1, <3>2 DEF Leaving, from
    <2>2. CASE from # "Disconnecting"
        <3>1. from \in LiveTag /\ out \in Hangups /\ input.tag \in {"Disconnect", "Error"}
            BY <1>7, <2>2
        <3>2. cur_ws # None /\ Task.phase # "connecting"
            BY <1>2, <1>16, <3>1 DEF HasConnected, from
        <3>3. Task.phase \in Phase
            BY <3>2 DEF TypeInv, WsTypeOK, SocketState, Task
        <3>4. Task.phase \in {"running", "closing", "exiting", "ended"}
            BY <1>2, <3>2, <3>3 DEF Phase, TaskReportsInTurn, ReportsInTurn
        <3>5. CASE Task.phase \in {"running", "ended"}
            BY <1>13, <3>1, <3>2, <3>5
        <3>6. CASE Task.phase = "closing"
            BY <3>2, <3>6 DEF IsLeaving
        <3>7. CASE Task.phase = "exiting"
            <4>1. \/ WillReset
                  \/ ~Without(to_fsm, Completions)
                  \/ ~Without(Task.from_ws, {"Disconnected"})
                BY <1>2, <1>16, <3>1, <3>2, <3>7 DEF EndIsReported, IsExiting
            <4>2. input \notin Completions
                BY <1>9, <3>1
            <4> QED
                BY <1>11, <1>15, <3>2, <4>1, <4>2 DEF IsLeaving, WillEnd
        <3> QED
            BY <3>4, <3>5, <3>6, <3>7
    <2> QED
        BY <2>1, <2>2
<1>29. OneUrl'
    <2> SUFFICES ASSUME IsUnderWay', ~WillReset'
                 PROVE  /\ mgr.ws_url = fsm_state'.url
                        /\ Without(from_fsm', {update \in Starts : update.url # fsm_state'.url})
                        /\ HasStarted' => cur_ws # None /\ Task.host = fsm_state'.url
        BY <1>1, <1>16 DEF OneUrl
    <2> DEFINE wrong == {update \in Starts : update.url # fsm_state'.url}
    <2>1. /\ wrong \subseteq Starts
          /\ wrong \subseteq Outputs(OutputTag)
        BY <1>12
    <2>2. Without(from_fsm', wrong) <=> Without(from_fsm, wrong) /\ out \notin wrong
        BY <1>12, <2>1
    <2>3. CASE from = "Disconnected"
        <3>1. to = "Connecting" /\ fsm_state'.url = input.url
            BY <1>6, <1>16, <2>3
        <3>2. out \notin wrong
            BY <1>7, <3>1
        <3>3. Without(from_fsm, wrong)
            BY <1>17, <2>1, <2>3, <3>1, FewerWithout
        <3> QED
            BY <1>17, <2>2, <2>3, <3>1, <3>2, <3>3
    <2>4. CASE from # "Disconnected"
        <3>1. IsUnderWay /\ fsm_state'.url = fsm_state.url /\ ~WillReset /\ out \notin Starts
            BY <1>6, <1>7, <1>15, <1>16, <2>4
        <3>2. /\ mgr.ws_url = fsm_state.url
              /\ Without(from_fsm, {update \in Starts : update.url # fsm_state.url})
              /\ HasStarted => cur_ws # None /\ Task.host = fsm_state.url
            BY <1>2, <3>1 DEF OneUrl
        <3>3. Without(from_fsm, wrong) /\ out \notin wrong
            BY <2>1, <3>1, <3>2
        <3> QED
            BY <1>14, <2>2, <3>1, <3>2, <3>3
    <2> QED
        BY <2>3, <2>4
<1> QED
    BY <1>20, <1>21, <1>22, <1>23, <1>24, <1>25, <1>26, <1>27, <1>28, <1>29

-----------------------------------------------------------------------------
(* The steps of the manager that read an update of the machine.            *)

\* Starting the task of an attempt.  The one before it is over by then.
LEMMA ConnectToTvSettled ==
    ASSUME TypeInv, PairInv, SettleInv, ConnectToTv
    PROVE  SettleInv'
<1>1. PICK i \in Socket : StartSocket(i, Head(from_fsm).url) /\ ws_join_handle' = i
    BY DEF ConnectToTv
<1>2. /\ mgr_pc = "select" /\ from_fsm # <<>> /\ from_fsm' = Tail(from_fsm)
      /\ Head(from_fsm).kind = "Output" /\ Head(from_fsm).tag = "ConnectToTv"
      /\ UNCHANGED fsm_state
    BY DEF ConnectToTv, Updated, AtSelect
<1>3. /\ OneTask /\ Starting
      /\ OthersOver /\ ErrorsFirst /\ OneUrl
    BY <1>2 DEF PairInv, AttemptInv, SettleInv, StopPc
<1>4. /\ from_fsm \in Seq(Update) /\ Head(from_fsm) \in Update /\ to_fsm \in Seq(Input)
      /\ mgr \in ManagerState /\ ws \in [Socket -> SocketState]
    BY <1>2 DEF TypeInv, RestOK, CoreOK, WsTypeOK
<1>5. UNCHANGED <<mgr, to_fsm>> /\ mgr_pc' = "select"
    <2>1. Done(mgr).sent = <<>> /\ Done(mgr).mgr = mgr /\ Done(mgr).pc = "select"
        BY DEF Done, Result
    <2>2. Commit(Done(mgr))
        BY DEF ConnectToTv
    <2> QED
        BY <1>4, <2>1, <2>2 DEF Commit
<1>6. Takes(from_fsm, from_fsm') /\ Head(from_fsm) \in Starts
    BY <1>2, <1>4, TailTakes, TaggedOutputs
<1>7. /\ ~Without(from_fsm, Starts)
      /\ \A S : Without(from_fsm, S) => Without(from_fsm', S) /\ Head(from_fsm) \notin S
    BY <1>6 DEF Takes
<1>8. /\ fsm_state.tag = "Connecting"
      /\ Without(to_fsm, Input \ Inputs(IdleInput))
      /\ Head(from_fsm).url = mgr.ws_url
      /\ Without(from_fsm', Outputs(OutputTag \ {"ConnectToTv"}))
    BY <1>3, <1>6, <1>7 DEF Starting
<1>9. /\ Without(to_fsm, Registrations) /\ Without(to_fsm, Inputs({"Reset"}))
      /\ Without(from_fsm', Hangups)
    <2>1. \A tags : tags \cap IdleInput = {} => Without(to_fsm, Inputs(tags))
        BY <1>8 DEF Without, Inputs
    <2>2. Hangups \subseteq Outputs(OutputTag \ {"ConnectToTv"})
        BY DEF Hangups, Outputs, OutputTag
    <2> QED
        BY <1>8, <2>1, <2>2, FewerWithout DEF Registrations, IdleInput
<1>10. ~WillReset
    BY <1>2, <1>9 DEF WillReset, ResetPc
<1>11. /\ mgr.ws_url = fsm_state.url
       /\ Without(from_fsm, {update \in Starts : update.url # fsm_state.url})
    BY <1>3, <1>8, <1>10 DEF OneUrl, IsUnderWay
<1>12. cur_ws' = i /\ i # None /\ Task' = NewSocket(fsm_state.url)
    <2>1. cur_ws' = i /\ i # None
        BY <1>1, SocketAssumption DEF StartSocket
    <2>2. ws' = [ChannelsDropped EXCEPT ![i] = NewSocket(Head(from_fsm).url)]
        BY <1>1 DEF StartSocket
    <2>3. ws'[i] = NewSocket(Head(from_fsm).url)
        BY <2>2 DEF ChannelsDropped
    <2> QED
        BY <1>8, <1>11, <2>1, <2>3 DEF Task
<1>13. /\ Task'.phase = "connecting" /\ Task'.host = fsm_state.url
       /\ Task'.to_ws = <<>> /\ Task'.from_ws = <<>>
    BY <1>12 DEF NewSocket, NoSocket
<1>14. OthersOver'
    <2>1. Spent
        BY <1>3, <1>7, FewerWithout DEF OneTask, StartsOrEnds
    <2>2. \A j \in Socket : j # i => ws'[j] = ChannelsDropped[j]
        BY <1>1 DEF StartSocket, ChannelsDropped
    <2>3. \A j \in Socket : ws[j].phase \notin {"connecting", "running"}
        <3>1. cur_ws # None => Task.phase \in {"closing", "exiting", "ended"}
            BY <2>1 DEF Spent, IsSpent, IsOver
        <3>2. \A j \in Socket : j = cur_ws => ws[j] = Task /\ cur_ws # None
            BY SocketAssumption DEF Task
        <3> QED
            BY <1>3, <3>1, <3>2 DEF OthersOver
    <2>4. \A j \in Socket : ChannelsDropped[j].phase \notin {"connecting", "running"}
        <3> SUFFICES ASSUME NEW j \in Socket
                     PROVE  ChannelsDropped[j].phase \notin {"connecting", "running"}
            OBVIOUS
        <3>1. ChannelsDropped[j] = CASE j # cur_ws -> ws[j]
                                     [] j = cur_ws /\ ws[j].phase = "ended" -> NoSocket
                                     [] OTHER -> [ws[j] EXCEPT !.from_ws = <<>>]
            BY DEF ChannelsDropped
        <3>2. [ws[j] EXCEPT !.from_ws = <<>>].phase = ws[j].phase
            BY <1>4 DEF SocketState
        <3>3. NoSocket.phase = "free"
            BY DEF NoSocket
        <3> QED
            BY <2>3, <3>1, <3>2, <3>3
    <2> QED
        BY <1>12, <2>2, <2>4 DEF OthersOver
<1>15. cur_ws' # None /\ ws_join_handle' # None
    BY <1>1, <1>12
<1>16. TaskReportsInTurn' /\ HasConnected' /\ HasHandle' /\ NoHangup'
    <2>1. TaskReportsInTurn'
        BY <1>13 DEF TaskReportsInTurn, ReportsInTurn
    <2>2. HasConnected'
        BY <1>2, <1>5, <1>8, <1>9 DEF HasConnected
    <2>3. HasHandle' /\ NoHangup'
        BY <1>9, <1>15 DEF HasHandle, NoHangup
    <2> QED
        BY <2>1, <2>2, <2>3
<1>17. Attended' /\ Awaiting'
    BY <1>13, <1>15, EmptyQueue DEF Attended, IsAttended, Awaiting
<1>18. ErrorsFirst'
    BY <1>2, <1>3, <1>5 DEF ErrorsFirst, IsLive
<1>19. EndIsReported' /\ Leaving'
    BY <1>2, <1>8, <1>13 DEF EndIsReported, IsExiting, Leaving
<1>20. OneUrl'
    BY <1>2, <1>5, <1>7, <1>11, <1>13, <1>15 DEF OneUrl
<1> QED
    BY <1>14, <1>16, <1>17, <1>18, <1>19, <1>20 DEF SettleInv

LEMMA StateMachineSettled ==
    ASSUME ~IsOperational, TypeInv, OneAttempt, PairInv, SettleInv, FromStateMachine
    PROVE  SettleInv'
<1>1. /\ UNCHANGED fsm_state /\ from_fsm # <<>> /\ from_fsm' = Tail(from_fsm)
      /\ mgr_pc = "select"
    BY DEF FromStateMachine, NewState, ConnectToTv, SendRegisterPayload, PairWithTv,
           InitializeConnection, SendCommand, DisconnectFromTv, HandleSuccessfulDisconnect,
           HandleDisconnectError, HandleDisconnected, HandleConnectError, TransitionError,
           Updated, AtSelect
<1>2. /\ mgr \in ManagerState /\ WsTypeOK /\ Head(from_fsm) \in Update
      /\ from_fsm \in Seq(Update) /\ to_fsm \in Seq(Input) /\ KeepsUrl(mgr)
      /\ mgr_pc \notin StopPc
    BY <1>1 DEF TypeInv, CoreOK, RestOK, PairInv, KeepsUrl, StopPc
<1>3. \A S : Without(from_fsm, S) <=> Head(from_fsm) \notin S /\ Without(from_fsm', S)
    BY <1>1, <1>2, TailTakes DEF Takes
<1>4. ASSUME NEW r, r.sent = <<>>, Commit(r)
      PROVE  UNCHANGED to_fsm /\ mgr_pc' = r.pc
    BY <1>2, <1>4 DEF Commit
<1>5. ASSUME NEW s \in ManagerState, KeepsUrl(s), NEW pc,
             \/ Commit(Result(s, <<>>, pc)) \/ Commit(Done(s)) \/ ForceManagerReset(s, pc)
             \/ \E message : SendToWs(s, message, pc)
      PROVE  UNCHANGED to_fsm /\ mgr'.ws_url = mgr.ws_url
    <2>1. UNCHANGED to_fsm
        BY <1>4, <1>5 DEF Result, Done, SendToWs, ForceManagerReset
    <2>2. mgr'.ws_url = mgr.ws_url
        BY <1>5, HandlerKeepsUrl DEF KeepsUrl
    <2> QED
        BY <2>1, <2>2
<1>6. ASSUME NEW s \in ManagerState, KeepsUrl(s), NEW pc,
             \/ Commit(Result(s, <<>>, pc)) \/ Commit(Done(s)) \/ ForceManagerReset(s, pc)
             \/ \E message : SendToWs(s, message, pc),
             TaskServed, UNCHANGED ws_join_handle, Head(from_fsm) \notin Starts,
             IsUnderWay => mgr_pc' \in ResetPc \/ KeepsUntold,
             fsm_state.tag = "Disconnecting" /\ Head(from_fsm) \in Hangups =>
                 \/ mgr_pc' \in ResetPc
                 \/ ~Without(to_fsm, Inputs({"Reset"}))
                 \/ cur_ws # None /\ Task.phase \in {"running", "ended"} => IsLeaving(Task')
      PROVE  SettleInv'
    <2>1. UNCHANGED to_fsm /\ mgr'.ws_url = mgr.ws_url
        BY <1>5, <1>6
    <2>2. /\ <<>> \in Seq(Input) /\ to_fsm' = to_fsm \o <<>>
          /\ \A S : Without(<<>>, S)
        BY <1>2, <2>1, EmptyQueue
    <2>3. \A S : Without(from_fsm, S) => Without(from_fsm', S)
        BY <1>3
    <2>4. HasStarted' => HasStarted
        BY <1>3, <1>6 DEF HasStarted
    <2>5. /\ mgr_pc' \in ResetPc => WillReset'
          /\ ~Without(to_fsm, Inputs({"Reset"})) => WillReset'
          /\ mgr_pc \notin ResetPc
        BY <1>1, <2>1 DEF WillReset, ResetPc
    <2>6. IsUnderWay => WillReset' \/ (KeepsUntold /\ mgr'.ws_url = mgr.ws_url)
        BY <1>6, <2>1, <2>5
    <2>7. fsm_state.tag = "Disconnecting" /\ ~Without(from_fsm, Hangups) =>
               \/ WillReset'
               \/ ~Without(from_fsm', Hangups)
               \/ cur_ws # None /\ Task.phase \in {"running", "ended"} => IsLeaving(Task')
        BY <1>3, <1>6, <2>5
    <2> QED
        BY <1>1, <1>2, <1>6, <2>2, <2>3, <2>4, <2>5, <2>6, <2>7, HandlerKeepsSettled
\* The steps that send nothing to the task.
<1>7. ASSUME NEW s \in ManagerState, KeepsUrl(s), NEW pc,
             \/ Commit(Result(s, <<>>, pc)) \/ Commit(Done(s)),
             UNCHANGED <<ws_vars, ws_join_handle>>,
             Head(from_fsm) \notin Starts, Head(from_fsm) \notin Hangups
      PROVE  SettleInv'
    <2>1. TaskServed /\ KeepsUntold
        BY <1>7, UnchangedServed
    <2> QED
        BY <1>6, <1>7, <2>1
\* Those that send it something, but not that it is to end.
<1>8. ASSUME NEW s \in ManagerState, KeepsUrl(s),
             NEW message \in {"Register", "Initialize", "Command"},
             SendToWs(s, message, "reset"), UNCHANGED ws_join_handle,
             Head(from_fsm) \notin Starts, Head(from_fsm) \notin Hangups
      PROVE  SettleInv'
    <2>1. message \in WsMessage \ {"TestConnection"} /\ message # "ShutDown"
        BY DEF WsMessage, WsPayload
    <2>2. TaskServed /\ (mgr_pc' = "reset" \/ KeepsUntold)
        BY <1>2, <1>8, <2>1, SendToWsServes
    <2> QED
        BY <1>6, <1>8, <2>2 DEF ResetPc
\* And those that end an attempt: the machine is Disconnected.
<1>9. ASSUME Head(from_fsm) \in Ends
      PROVE  fsm_state.tag = "Disconnected"
    <2>1. HasEnd(from_fsm)
        BY <1>3, <1>9 DEF HasEnd
    <2> QED
        BY <2>1 DEF OneAttempt, IsActive
<1>10. /\ Head(from_fsm) \in Starts <=>
              Head(from_fsm).kind = "Output" /\ Head(from_fsm).tag = "ConnectToTv"
       /\ Head(from_fsm) \in Hangups <=>
              Head(from_fsm).kind = "Output" /\ Head(from_fsm).tag = "DisconnectFromTv"
    BY <1>2, TaggedOutputs DEF Hangups
<1>11. CASE NewState
    <2> DEFINE status == [tag |-> Head(from_fsm).tag, url |-> Head(from_fsm).url]
               s == [mgr EXCEPT !.manager_status = status]
    <2>1. Commit(Done(s)) /\ UNCHANGED <<ws_vars, ws_join_handle>>
        BY <1>11 DEF NewState
    <2>2. status \in ManagerStatus /\ Head(from_fsm).kind # "Output"
        BY <1>2, <1>11 DEF NewState, Updated, Update, ManagerStatus, State
    <2> HIDE DEF status
    <2>3. s \in ManagerState /\ KeepsUrl(s)
        BY <1>2, <2>2, FieldTypes, FieldsKeepUrl
    <2> HIDE DEF s
    <2> QED
        BY <1>7, <1>10, <2>1, <2>2, <2>3
<1>12. CASE ConnectToTv
    BY <1>12, ConnectToTvSettled
<1>13. CASE SendRegisterPayload
    <2> DEFINE s == SetReconnectFlowStatus(mgr, "Inactive")
               t == [s EXCEPT !.session_connection_count = 1]
    <2>1. s \in ManagerState /\ KeepsUrl(s)
        BY <1>2, SetFlowType, FlowTypes, FlowNeverWaits DEF KeepsUrl
    <2>2. /\ SendToWs(t, "Register", "reset") /\ UNCHANGED ws_join_handle
          /\ Head(from_fsm).tag = "SendRegisterPayload"
        BY <1>13 DEF SendRegisterPayload, Updated
    <2> HIDE DEF s
    <2>3. t \in ManagerState /\ KeepsUrl(t)
        BY <2>1 DEF ManagerState, KeepsUrl, NeverWaits
    <2> HIDE DEF t
    <2> QED
        BY <1>8, <1>10, <2>2, <2>3
<1>14. CASE PairWithTv
    <2> DEFINE s == [mgr EXCEPT !.is_pairing = TRUE]
    <2>1. /\ Commit(Done(s)) /\ UNCHANGED <<ws_vars, ws_join_handle>>
          /\ Head(from_fsm).tag = "PairWithTv"
        BY <1>14 DEF PairWithTv, Updated
    <2>2. s \in ManagerState /\ KeepsUrl(s)
        BY <1>2, FieldTypes, FieldsKeepUrl
    <2> HIDE DEF s
    <2> QED
        BY <1>7, <1>10, <2>1, <2>2
<1>15. CASE InitializeConnection
    <2> DEFINE paired == [mgr EXCEPT !.is_pairing = FALSE]
    <2>1. /\ paired \in ManagerState /\ KeepsUrl(paired)
          /\ Remembered(paired) \in ManagerState /\ KeepsUrl(Remembered(paired))
        BY <1>2, FieldTypes, FieldsKeepUrl
    <2>2. /\ UNCHANGED ws_join_handle
          /\ Head(from_fsm).tag = "InitializeConnection"
          /\ \/ ForceManagerReset(paired, "reset_initialize")
             \/ SendToWs(Remembered(paired), "Initialize", "reset")
        BY <1>15 DEF InitializeConnection, Updated
    <2> HIDE DEF paired
    <2>3. CASE ForceManagerReset(paired, "reset_initialize")
        <3>1. TaskServed /\ mgr_pc' = "reset_initialize"
            BY <1>2, <2>3, ForceResetServes
        <3> QED
            BY <1>6, <1>10, <2>1, <2>2, <2>3, <3>1 DEF ResetPc
    <2>4. CASE SendToWs(Remembered(paired), "Initialize", "reset")
        BY <1>8, <1>10, <2>1, <2>2, <2>4
    <2> QED
        BY <2>2, <2>3, <2>4
<1>16. CASE SendCommand
    <2>1. /\ SendToWs(mgr, "Command", "reset") /\ UNCHANGED ws_join_handle
          /\ Head(from_fsm).tag = "SendCommand"
        BY <1>16 DEF SendCommand, Updated
    <2> QED
        BY <1>2, <1>8, <1>10, <2>1
<1>17. CASE DisconnectFromTv
    <2> DEFINE s == OptionallyPrepareForReconnect(mgr)
    <2>1. s \in ManagerState /\ KeepsUrl(s)
        BY <1>2, PrepareType, PrepareKeepsUrl
    <2>2. /\ \/ ws_join_handle = None /\ Commit(Done(s)) /\ UNCHANGED ws_vars
             \/ SendToWs(s, "ShutDown", "reset")
          /\ UNCHANGED ws_join_handle
          /\ Head(from_fsm).kind = "Output" /\ Head(from_fsm).tag = "DisconnectFromTv"
        BY <1>17 DEF DisconnectFromTv, InitiateDisconnectFromTv, Updated
    <2> HIDE DEF s
    <2>3. Head(from_fsm) \notin Starts /\ Head(from_fsm) \in Hangups
        BY <1>10, <2>2
    <2>4. ~IsUnderWay
        BY <1>2, <1>3, <2>3 DEF SettleInv, NoHangup
    <2>5. CASE ws_join_handle = None /\ Commit(Done(s)) /\ UNCHANGED ws_vars
        <3>1. TaskServed
            BY <2>5, UnchangedServed
        <3>2. fsm_state.tag = "Disconnecting" => HasStarted
            BY <1>2 DEF PairInv, AttemptInv, Starting, HasStarted
        <3>3. fsm_state.tag = "Disconnecting" => WillReset
            BY <1>2, <2>5, <3>2 DEF SettleInv, HasHandle
        <3>4. fsm_state.tag = "Disconnecting" => ~Without(to_fsm, Inputs({"Reset"}))
            BY <1>1, <3>3 DEF WillReset, ResetPc
        <3> QED
            BY <1>6, <2>1, <2>2, <2>3, <2>4, <2>5, <3>1, <3>4
    <2>6. CASE SendToWs(s, "ShutDown", "reset")
        <3>1. /\ TaskServed
              /\ \/ mgr_pc' = "reset"
                 \/ cur_ws # None => ToldToEnd(Task')
            BY <1>2, <2>6, SendToWsServes DEF WsMessage
        <3>2. cur_ws # None /\ Task.phase = "ended" => mgr_pc' = "reset"
            <4> SUFFICES ASSUME cur_ws # None, Task.phase = "ended" PROVE mgr_pc' = "reset"
                OBVIOUS
            <4>1. Commit(Result(s, <<>>, "reset"))
                BY <2>6 DEF SendToWs, ForceManagerReset, IsWsOpen, Task
            <4> QED
                BY <4>1 DEF Commit, Result
        <3>3. cur_ws # None /\ Task.phase \in {"running", "ended"} =>
                  mgr_pc' = "reset" \/ IsLeaving(Task')
            BY <3>1, <3>2 DEF IsLeaving, ToldToEnd, TaskServed, TaskKept
        <3>4. \/ mgr_pc' \in ResetPc
              \/ cur_ws # None /\ Task.phase \in {"running", "ended"} => IsLeaving(Task')
            BY <3>3 DEF ResetPc
        <3> QED
            BY <1>6, <2>1, <2>2, <2>3, <2>4, <2>6, <3>1, <3>4
    <2> QED
        BY <2>2, <2>5, <2>6
<1>18. CASE HandleSuccessfulDisconnect \/ HandleDisconnectError
    <2> DEFINE s == [mgr EXCEPT !.is_manual_disconnect_requested = FALSE]
    <2>1. /\ Commit(Result(s, <<>>, "disconnected")) /\ UNCHANGED <<ws_vars, ws_join_handle>>
          /\ Head(from_fsm).tag \in {"HandleSuccessfulDisconnect", "HandleDisconnectError"}
        BY <1>18 DEF HandleSuccessfulDisconnect, HandleDisconnectError, HandleDisconnected,
                     Updated
    <2>2. s \in ManagerState /\ KeepsUrl(s)
        BY <1>2, FieldTypes, FieldsKeepUrl
    <2> HIDE DEF s
    <2> QED
        BY <1>7, <1>10, <2>1, <2>2
<1>19. CASE HandleConnectError
    <2>1. /\ ForceManagerReset(mgr, "reset_connect_error") /\ UNCHANGED ws_join_handle
          /\ Head(from_fsm).kind = "Output" /\ Head(from_fsm).tag = "HandleConnectError"
        BY <1>19 DEF HandleConnectError, Updated
    <2>2. Head(from_fsm) \in Ends
        BY <1>2, <2>1, TaggedOutputs
    <2>3. ~IsUnderWay /\ fsm_state.tag # "Disconnecting"
        BY <1>9, <2>2 DEF IsUnderWay, LiveTag
    <2>4. TaskServed
        BY <1>2, <2>1, ForceResetServes
    <2> QED
        BY <1>2, <1>6, <1>10, <2>1, <2>3, <2>4
<1>20. CASE TransitionError
    <2>1. Commit(Done(mgr)) /\ UNCHANGED <<ws_vars, ws_join_handle>>
          /\ Head(from_fsm).kind = "TransitionError"
        BY <1>20 DEF TransitionError, Updated
    <2> QED
        BY <1>2, <1>7, <1>10, <2>1
<1> QED
    BY <1>11, <1>12, <1>13, <1>14, <1>15, <1>16, <1>17, <1>18, <1>19, <1>20
       DEF FromStateMachine

-----------------------------------------------------------------------------
(* The steps of the manager that read what its task has reported.  What is *)
(* read goes on to the machine.                                            *)

LEMMA ReportSettled ==
    ASSUME TypeInv, PairInv, SettleInv, mgr_pc = "select", mgr_pc' = "select",
           UNCHANGED <<cur_ws, fsm_state, from_fsm, ws_join_handle>>,
           cur_ws # None, Task.from_ws # <<>>,
           ws' = [ws EXCEPT ![cur_ws].from_ws = Tail(@)],
           \/ Head(Task.from_ws) = "Volume" /\ to_fsm' = to_fsm
           \/ to_fsm' = Append(to_fsm, InputOf(InputFor(Head(Task.from_ws)))),
           mgr'.ws_url = mgr.ws_url
    PROVE  SettleInv'
<1>1. /\ OneTask /\ TaskInOrder
      /\ OthersOver /\ TaskReportsInTurn /\ HasConnected /\ HasHandle /\ NoHangup
      /\ Attended /\ Awaiting /\ ErrorsFirst /\ EndIsReported /\ Leaving /\ OneUrl
    BY DEF PairInv, AttemptInv, SettleInv, StopPc
<1> DEFINE s == Task
           t == Task'
           update == Head(s.from_ws)
           tag == InputFor(update)
<1>2. /\ s \in SocketState /\ to_fsm \in Seq(Input)
      /\ t = [s EXCEPT !.from_ws = Tail(s.from_ws)]
    BY DEF TypeInv, CoreOK, WsTypeOK, Task
<1>3. /\ InOrder(s) /\ ReportsInTurn(s) /\ s.from_ws # <<>>
      /\ s.from_ws \in Seq(WsUpdateMessage)
      /\ t.from_ws = Tail(s.from_ws) /\ t.phase = s.phase /\ t.host = s.host /\ t.tv = s.tv
      /\ t.testing = s.testing /\ t.to_ws = s.to_ws
    BY <1>1, <1>2 DEF TaskInOrder, TaskReportsInTurn, SocketState
<1>4. t \in SocketState
    <2>1. Tail(s.from_ws) \in Seq(WsUpdateMessage)
        BY <1>3
    <2> QED
        BY <1>2, <2>1 DEF SocketState
<1>5. OthersOver'
    <2>1. \A j \in Socket : j # cur_ws => ws'[j] = ws[j]
        BY DEF TypeInv, WsTypeOK
    <2> QED
        BY <1>1, <2>1 DEF OthersOver
<1> HIDE DEF s, t
<1>6. /\ update \in WsUpdateMessage \ {"ConnectionOk", "ConnectionNotOk"}
      /\ IsSpent(s) => update = "Disconnected"
      /\ update \in LastWords => IsSpent(t)
    BY <1>2, <1>3, <1>4, ReadReport DEF ReportRead
<1>7. Takes(s.from_ws, t.from_ws)
    BY <1>3, TailTakes
<1>8. \A S : Without(s.from_ws, S) <=> update \notin S /\ Without(t.from_ws, S)
    BY <1>7 DEF Takes
<1>9. /\ tag \in InputTag \ {"Connect"}
      /\ update = "Connected" <=> tag = "AttemptRegister"
      /\ update = "Disconnected" <=> tag = "DisconnectionComplete"
      /\ update \in ErrorWords => tag = "Error"
      /\ tag = "Error" => update # "Disconnected"
    BY <1>6 DEF InputFor, InputTag, WsUpdateMessage, TvPayload, ErrorWords
<1> DEFINE sent == InputOf(tag)
<1>10. /\ sent \in Input
       /\ sent \in Registrations <=> update = "Connected"
       /\ sent \in Completions <=> update = "Disconnected"
       /\ update \in ErrorWords => sent \in Errors
       /\ sent \in Errors => update # "Disconnected"
    <2>1. sent \in Input /\ sent.tag = tag
        BY <1>9, InputOfType DEF InputOf
    <2> HIDE DEF sent
    <2> QED
        BY <1>9, <2>1, TaggedInputs DEF Registrations, Completions
<1>11. \/ update = "Volume" /\ to_fsm' = to_fsm
       \/ to_fsm' = Append(to_fsm, sent)
    BY DEF s
<1>12. update # "Disconnected" => ~Spent
    BY <1>6 DEF Spent, s
<1> HIDE DEF sent, tag, update
<1>13. Adds(to_fsm, sent, Append(to_fsm, sent))
    BY <1>2, <1>10, AppendAdds
<1>14. \A S, T : /\ ~Without(to_fsm, S) => ~Without(to_fsm', S)
                 /\ Without(to_fsm, S) /\ ~Without(to_fsm', S) => sent \in S
                 /\ ~NoneAfter(to_fsm, S, T) => ~NoneAfter(to_fsm', S, T)
                 /\ NoneAfter(to_fsm, S, T) /\ (Without(to_fsm, S) \/ sent \notin T)
                        => NoneAfter(to_fsm', S, T)
    BY <1>11, <1>13 DEF Adds
<1>15. update \in {"Connected", "Disconnected"} \cup ErrorWords
           => to_fsm' = Append(to_fsm, sent)
    BY <1>11 DEF ErrorWords
<1>16. /\ update = "Connected" => ~Without(to_fsm', Registrations)
       /\ update = "Disconnected" => ~Without(to_fsm', Completions)
       /\ update = "Disconnected" /\ ~Without(to_fsm, Registrations)
              => ~NoneAfter(to_fsm', Registrations, Completions)
       /\ update \in ErrorWords => ~Without(to_fsm', Errors)
    BY <1>10, <1>13, <1>15 DEF Adds
<1>17. (WillReset => WillReset') /\ (WillEnd => WillEnd') /\ (update \in ErrorWords => WillEnd')
    BY <1>14, <1>16 DEF WillReset, WillEnd, ResetPc
<1>18. (HasStarted' <=> HasStarted) /\ (IsUnderWay' <=> IsUnderWay) /\ (IsLive' <=> IsLive)
    BY DEF HasStarted, IsUnderWay, IsLive
<1>19. t.phase # "connecting" /\ s.phase # "connecting"
    BY <1>3 DEF ReportsInTurn
<1>20. /\ ~Without(s.from_ws, {"Disconnected"})
              => update = "Disconnected" \/ ~Without(t.from_ws, {"Disconnected"})
       /\ ~Without(s.from_ws, ErrorWords)
              => update \in ErrorWords \/ ~Without(t.from_ws, ErrorWords)
       /\ ~Without(s.from_ws, {"Connected"} \cup ErrorWords)
              => \/ update = "Connected" \/ update \in ErrorWords
                 \/ ~Without(t.from_ws, {"Connected"} \cup ErrorWords)
    BY <1>8
<1>21. TaskReportsInTurn'
    <2> SUFFICES ASSUME t.phase \in {"exiting", "ended"}, ~Without(t.from_ws, {"Connected"})
                 PROVE  ~Without(t.from_ws, {"Disconnected"})
        BY <1>3, <1>19 DEF TaskReportsInTurn, ReportsInTurn, t
    <2>1. ~Without(s.from_ws, {"Disconnected"})
        BY <1>3, <1>8 DEF ReportsInTurn
    <2>2. update # "Disconnected"
        <3>1. {"Connected"} \subseteq WsUpdateMessage \ {"Disconnected"}
            BY DEF WsUpdateMessage
        <3>2. ~IsSpent(t)
            BY <3>1, FewerWithout DEF IsSpent
        <3> QED
            BY <1>6, <3>2 DEF LastWords
    <2> QED
        BY <1>20, <2>1, <2>2
<1>22. HasConnected' /\ HasHandle' /\ NoHangup'
    <2>1. HasConnected'
        BY <1>19 DEF HasConnected, t
    <2>2. HasHandle'
        BY <1>1, <1>17, <1>18 DEF HasHandle
    <2>3. NoHangup'
        BY <1>1, <1>18 DEF NoHangup
    <2> QED
        BY <2>1, <2>2, <2>3
<1>23. Attended'
    <2>1. IsAttended(s) => IsAttended(t) \/ update \in ErrorWords
        BY <1>3, <1>20 DEF IsAttended
    <2> QED
        BY <1>1, <1>17, <1>18, <2>1 DEF Attended, s, t
<1>24. Awaiting'
    <2> SUFFICES ASSUME fsm_state.tag = "Connecting", HasStarted, ~WillEnd',
                        Without(to_fsm', Registrations)
                 PROVE  ~Without(t.from_ws, {"Connected"} \cup ErrorWords)
        BY <1>18 DEF Awaiting, t
    <2>1. ~WillEnd /\ Without(to_fsm, Registrations)
        BY <1>14, <1>17
    <2>2. ~Without(s.from_ws, {"Connected"} \cup ErrorWords)
        BY <1>1, <1>19, <2>1 DEF Awaiting, s
    <2> QED
        BY <1>16, <1>17, <1>20, <2>2
<1>25. ErrorsFirst'
    <2>1. sent \in Errors => NoneAfter(to_fsm, Registrations, Completions)
        BY <1>1, <1>10, <1>12 DEF OneTask, Registrations, Completions
    <2>2. sent \in Errors /\ IsLive => Without(to_fsm, Completions)
        BY <1>1, <1>10, <1>12 DEF OneTask, Completions, IsLive, LiveTag
    <2>3. fsm_state.tag = "Connecting" => NoneBetween(to_fsm', Registrations, Completions, Errors)
        <3> SUFFICES ASSUME NoneBetween(to_fsm, Registrations, Completions, Errors)
                     PROVE  NoneBetween(to_fsm', Registrations, Completions, Errors)
            BY <1>1 DEF ErrorsFirst
        <3>1. NoneBetween(Append(to_fsm, sent), Registrations, Completions, Errors)
            BY <1>2, <1>10, <2>1, SendLast
        <3> QED
            BY <1>11, <3>1
    <2>4. IsLive => NoneAfter(to_fsm', Completions, Errors)
        BY <1>1, <1>14, <2>2 DEF ErrorsFirst
    <2> QED
        BY <1>18, <2>3, <2>4 DEF ErrorsFirst
<1>26. EndIsReported'
    <2> SUFFICES ASSUME s.phase = "exiting", ~WillReset', Without(t.from_ws, {"Disconnected"})
                 PROVE  /\ fsm_state.tag = "Connecting" /\ ~Without(to_fsm', Registrations)
                               => ~NoneAfter(to_fsm', Registrations, Completions)
                        /\ IsLive => ~Without(to_fsm', Completions)
        BY <1>3, <1>18 DEF EndIsReported, IsExiting, t
    <2>1. ~WillReset /\ IsExiting
        BY <1>17 DEF IsExiting, s
    <2>2. ~Without(s.from_ws, {"Disconnected"}) => update = "Disconnected"
        BY <1>20
    <2>3. ASSUME fsm_state.tag = "Connecting", ~Without(to_fsm, Registrations)
          PROVE  ~NoneAfter(to_fsm', Registrations, Completions)
        BY <1>1, <1>14, <1>16, <2>1, <2>2, <2>3 DEF EndIsReported, s
    \* The end is still behind the connection that has just been read.
    <2>4. ~Without(to_fsm', Registrations) => ~Without(to_fsm, Registrations)
        <3> SUFFICES ASSUME Without(to_fsm, Registrations), ~Without(to_fsm', Registrations)
                     PROVE  FALSE
            OBVIOUS
        <3>1. update = "Connected"
            BY <1>10, <1>14
        <3>2. ~Without(s.from_ws, {"Connected"})
            BY <1>8, <3>1
        <3>3. ~Without(s.from_ws, {"Disconnected"})
            BY <1>3, <3>2 DEF ReportsInTurn
        <3> QED
            BY <2>2, <3>1, <3>3
    <2>5. IsLive => ~Without(to_fsm', Completions)
        BY <1>1, <1>14, <1>16, <2>1, <2>2 DEF EndIsReported, s
    <2> QED
        BY <2>3, <2>4, <2>5
<1>27. Leaving'
    <2>1. IsLeaving(s) => IsLeaving(t) \/ update = "Disconnected"
        BY <1>3, <1>20 DEF IsLeaving
    <2>2. cur_ws # None /\ Task'.phase = Task.phase
        BY <1>3 DEF s, t
    <2> QED
        BY <1>1, <1>14, <1>16, <1>17, <2>1, <2>2 DEF Leaving, s, t
<1>28. OneUrl'
    <2>1. Task'.host = Task.host
        BY <1>3 DEF s, t
    <2> QED
        BY <1>1, <1>17, <1>18, <2>1 DEF OneUrl
<1> QED
    BY <1>5, <1>21, <1>22, <1>23, <1>24, <1>25, <1>26, <1>27, <1>28 DEF SettleInv

LEMMA WebSocketSettled ==
    ASSUME ~IsOperational, TypeInv, RestInv, PairInv, SettleInv, FromWebSocket
    PROVE  SettleInv'
<1> DEFINE update == Head(ws[cur_ws].from_ws)
<1>1. PICK updates : Reported(updates)
    BY DEF FromWebSocket, WebSocketConnected, WebSocketDisconnected, ConnectionLost,
           ConnectionTested, GetVolume, PairRequested, PairingFailed, Registered
<1>2. /\ mgr_pc = "select" /\ cur_ws # None /\ ws[cur_ws].from_ws # <<>>
      /\ ws' = [ws EXCEPT ![cur_ws].from_ws = Tail(@)]
      /\ UNCHANGED <<cur_ws, fsm_state, from_fsm, ws_join_handle>>
    BY <1>1 DEF Reported, AtSelect
<1>3. fsm_alive
    BY <1>2 DEF RestInv, IsStopping, StopPc
<1>4. AttemptInv /\ KeepsUrl(mgr)
    BY <1>2 DEF PairInv, KeepsUrl, StopPc
<1>5. /\ mgr \in ManagerState /\ to_fsm \in Seq(Input)
      /\ ws[cur_ws] \in SocketState /\ cur_ws \in Socket
    BY <1>2 DEF TypeInv, CoreOK, WsTypeOK
<1>6. ASSUME NEW s \in ManagerState, KeepsUrl(s),
             \/ update = "Volume" /\ Commit(Done(s))
             \/ Commit(DoneSending(s, InputFor(update)))
      PROVE  SettleInv'
    <2>1. mgr'.ws_url = mgr.ws_url
        BY <1>6, HandlerKeepsUrl DEF KeepsUrl
    <2>2. mgr_pc' = "select"
        BY <1>6, ResultPcs DEF Commit
    <2> DEFINE input == InputOf(InputFor(update))
    <2>3. \/ update = "Volume" /\ to_fsm' = to_fsm
          \/ to_fsm' = Append(to_fsm, input)
        <3>1. Done(s).sent = <<>> /\ DoneSending(s, InputFor(update)).sent = <<input>>
            BY DEF Done, DoneSending, Result
        <3>2. (update = "Volume" /\ to_fsm' = to_fsm \o <<>>) \/ to_fsm' = to_fsm \o <<input>>
            BY <1>3, <1>6, <3>1 DEF Commit
        <3>3. to_fsm \o <<input>> = Append(to_fsm, input) /\ to_fsm \o <<>> = to_fsm
            BY <1>5
        <3> QED
            BY <3>2, <3>3
    <2> DEFINE reported == Task.from_ws
    <2>4. reported = ws[cur_ws].from_ws
        BY DEF Task
    <2>5. /\ reported # <<>>
          /\ \/ Head(reported) = "Volume" /\ to_fsm' = to_fsm
             \/ to_fsm' = Append(to_fsm, InputOf(InputFor(Head(reported))))
        BY <1>2, <2>3, <2>4
    <2> QED
        BY <1>2, <2>1, <2>2, <2>5, ReportSettled
<1>7. CASE WebSocketConnected
    <2>1. InputFor(update) = "AttemptRegister"
        BY <1>7 DEF WebSocketConnected, Reported, InputFor
    <2> QED
        BY <1>4, <1>5, <1>6, <1>7, <2>1 DEF WebSocketConnected
<1>8. CASE WebSocketDisconnected
    <2>1. InputFor(update) = "DisconnectionComplete"
        BY <1>8 DEF WebSocketDisconnected, Reported, InputFor
    <2> QED
        BY <1>4, <1>5, <1>6, <1>8, <2>1 DEF WebSocketDisconnected
<1>9. CASE ConnectionLost
    <2>1. InputFor(update) = "Error"
        BY <1>9 DEF ConnectionLost, Reported, InputFor
    <2> DEFINE s == OptionallyPrepareForReconnect(mgr)
    <2>2. s \in ManagerState /\ KeepsUrl(s)
        BY <1>4, <1>5, PrepareType, PrepareKeepsUrl
    <2>3. Commit(DoneSending(s, "Error"))
        BY <1>9 DEF ConnectionLost
    <2> HIDE DEF s
    <2> QED
        BY <1>6, <2>1, <2>2, <2>3
<1>10. ~ConnectionTested
    <2>1. Without(ws[cur_ws].from_ws, {"ConnectionOk", "ConnectionNotOk"})
        BY <1>2, <1>4 DEF AttemptInv, TaskInOrder, InOrder, Task
    <2>2. ws[cur_ws].from_ws \in Seq(WsUpdateMessage)
        BY <1>5 DEF SocketState
    <2>3. 1 \in 1 .. Len(ws[cur_ws].from_ws) /\ ws[cur_ws].from_ws[1] = update
        BY <1>2, <2>2
    <2> QED
        BY <2>1, <2>3 DEF ConnectionTested, Reported, Without
<1>11. CASE GetVolume
    <2>1. update = "Volume" /\ InputFor(update) = "StartCommunication"
        BY <1>11 DEF GetVolume, Reported, InputFor
    <2> DEFINE s == [mgr EXCEPT !.is_connection_initialized = TRUE]
    <2>2. s \in ManagerState /\ KeepsUrl(s)
        BY <1>4, <1>5, FieldTypes, FieldsKeepUrl
    <2>3. Commit(Done(mgr)) \/ Commit(DoneSending(s, "StartCommunication"))
        BY <1>11 DEF GetVolume
    <2> HIDE DEF s
    <2> QED
        BY <1>4, <1>5, <1>6, <2>1, <2>2, <2>3
<1>12. CASE PairRequested
    <2>1. InputFor(update) = "Pair"
        BY <1>12 DEF PairRequested, Reported, InputFor
    <2> QED
        BY <1>4, <1>5, <1>6, <1>12, <2>1 DEF PairRequested
<1>13. CASE PairingFailed
    <2>1. InputFor(update) = "Error"
        BY <1>13 DEF PairingFailed, Reported, InputFor
    <2> QED
        BY <1>4, <1>5, <1>6, <1>13, <2>1 DEF PairingFailed
<1>14. CASE Registered
    <2> DEFINE host == ws[cur_ws].host
               s == [mgr EXCEPT !.client_key = host]
    <2>1. InputFor(update) = "Initialize" /\ Commit(DoneSending(s, "Initialize"))
        BY <1>14 DEF Registered, Reported, InputFor
    <2>2. host \in KeyOption
        BY <1>5 DEF SocketState, KeyOption, Key, UrlOption
    <2>3. s \in ManagerState /\ KeepsUrl(s)
        BY <1>4, <1>5, <2>2 DEF ManagerState, KeepsUrl, NeverWaits
    <2> HIDE DEF s
    <2> QED
        BY <1>6, <2>1, <2>3
<1> QED
    BY <1>7, <1>8, <1>9, <1>10, <1>11, <1>12, <1>13, <1>14 DEF FromWebSocket

-----------------------------------------------------------------------------
(* The steps of the manager that are up to its caller, or that go on with  *)
(* a handler.                                                              *)

\* Sending the machine Inputs that neither end an attempt nor register, and
\* leaving the task alone.
LEMMA SendSettled ==
    ASSUME TypeInv, SettleInv, mgr_pc \notin StopPc,
           UNCHANGED <<ws_vars, fsm_state, from_fsm>>,
           NEW sent \in Seq(Input), to_fsm' = to_fsm \o sent,
           Without(sent, Errors), Without(sent, Registrations),
           mgr_pc \in ResetPc => WillReset',
           fsm_state.tag # "Disconnected" =>
               \/ WillReset'
               \/ UNCHANGED ws_join_handle /\ mgr'.ws_url = mgr.ws_url
    PROVE  SettleInv'
<1>1. TaskServed /\ KeepsUntold
    BY UnchangedServed
<1>2. (HasStarted' => HasStarted) /\ \A S : Without(from_fsm, S) => Without(from_fsm', S)
    BY DEF HasStarted
<1>3. IsUnderWay => fsm_state.tag # "Disconnected"
    BY DEF IsUnderWay, LiveTag
<1>4. IsUnderWay => WillReset' \/ (KeepsUntold /\ mgr'.ws_url = mgr.ws_url)
    BY <1>1, <1>3
<1>5. ~Without(from_fsm, Hangups) => ~Without(from_fsm', Hangups)
    OBVIOUS
<1> QED
    BY <1>1, <1>2, <1>4, <1>5, HandlerKeepsSettled

\* Nothing but Inputs of these kinds.
LEMMA HarmlessInputs ==
    ASSUME NEW sent,
           Without(sent, Input \ Inputs({"Connect", "Disconnect", "SendCommand", "Reset"}))
    PROVE  Without(sent, Errors) /\ Without(sent, Registrations)
<1> DEFINE others == Input \ Inputs({"Connect", "Disconnect", "SendCommand", "Reset"})
<1>1. Errors \subseteq others /\ Registrations \subseteq others
    BY DEF Errors, Registrations, Inputs
<1> HIDE DEF others
<1>2. Without(sent, others)
    BY DEF others
<1> QED
    BY <1>1, <1>2, FewerWithout

LEMMA ConnectSettled ==
    ASSUME TypeInv, SettleInv, mgr_pc \in {"select", "sleeping"}, fsm_alive,
           NEW s \in ManagerState, NeverWaits(s), s.ws_url = mgr.ws_url,
           NEW c \in Connection, Commit(InitiateConnectToTv(s, c)),
           UNCHANGED <<ws_vars, fsm_state, from_fsm, ws_join_handle>>,
           IsDisconnected(s) => fsm_state.tag = "Disconnected"
    PROVE  SettleInv'
<1> DEFINE r == InitiateConnectToTv(s, c)
<1>1. /\ r.sent = <<>> => r.mgr.ws_url = s.ws_url
      /\ \/ r.sent = <<>>
         \/ /\ r.sent = <<ConnectInput(c.url)>> /\ c.url \in Url
            /\ IsDisconnected(s)
    BY ConnectSendsUrl
<1>2. Commit(r)
    OBVIOUS
<1> HIDE DEF r
<1>3. mgr' = r.mgr /\ to_fsm' = to_fsm \o r.sent
    BY <1>1, <1>2 DEF Commit
<1>4. mgr_pc \notin StopPc /\ mgr_pc \notin ResetPc
    BY DEF StopPc, ResetPc
<1>5. CASE r.sent = <<>>
    <2> DEFINE none == <<>>
    <2>1. none \in Seq(Input) /\ to_fsm' = to_fsm \o none /\ \A S : Without(none, S)
        BY <1>3, <1>5, EmptyQueue
    <2> HIDE DEF none
    <2> QED
        BY <1>1, <1>3, <1>4, <1>5, <2>1, SendSettled
<1>6. CASE r.sent # <<>>
    <2> DEFINE input == ConnectInput(c.url)
               sent == <<input>>
    <2>1. input \in Input /\ input.tag = "Connect"
        BY <1>1, <1>6 DEF ConnectInput, Input
    <2> HIDE DEF input
    <2>2. /\ sent \in Seq(Input)
          /\ Without(sent, Input \ Inputs({"Connect", "Disconnect", "SendCommand", "Reset"}))
        BY <2>1 DEF Without, Inputs
    <2>3. to_fsm' = to_fsm \o sent /\ fsm_state.tag = "Disconnected"
        BY <1>1, <1>3, <1>6 DEF input
    <2> HIDE DEF sent
    <2> QED
        BY <1>4, <2>2, <2>3, HarmlessInputs, SendSettled
<1> QED
    BY <1>5, <1>6

LEMMA CallerSettled ==
    ASSUME Patient, "TestConnection" \notin CallerMessage,
           TypeInv, StatusInv, RestInv, PairInv, SettleInv, FromCaller
    PROVE  SettleInv'
<1>1. /\ UNCHANGED <<fsm_state, from_fsm, ws_join_handle>> /\ mgr_pc = "select"
    BY DEF FromCaller, CancelReconnect, Connect, ConnectLastGoodConnection, Disconnect,
           SendTvCommand, TestConnection, ShutDown, Called, AtSelect
<1>2. /\ mgr \in ManagerState /\ to_fsm \in Seq(Input) /\ KeepsUrl(mgr) /\ fsm_alive
      /\ mgr_pc \notin StopPc /\ mgr_pc \notin ResetPc
    BY <1>1 DEF TypeInv, CoreOK, PairInv, KeepsUrl, RestInv, IsStopping, StopPc, ResetPc
<1>3. ASSUME NEW s \in ManagerState, KeepsUrl(s), Commit(Done(s)), UNCHANGED ws_vars
      PROVE  SettleInv'
    <2>1. mgr'.ws_url = mgr.ws_url
        BY <1>3, HandlerKeepsUrl DEF KeepsUrl
    <2> DEFINE none == <<>>
    <2>2. none \in Seq(Input) /\ \A S : Without(none, S)
        BY EmptyQueue
    <2>3. Done(s).sent = none
        BY DEF Done, Result
    <2> HIDE DEF none
    <2>4. to_fsm' = to_fsm \o none
        BY <1>2, <1>3, <2>3 DEF Commit
    <2> QED
        BY <1>1, <1>2, <1>3, <2>1, <2>2, <2>4, SendSettled
<1>4. ASSUME NEW s \in ManagerState, KeepsUrl(s), NEW tag \in {"Disconnect", "SendCommand"},
             Commit(DoneSending(s, tag)), UNCHANGED ws_vars
      PROVE  SettleInv'
    <2> DEFINE sent == <<InputOf(tag)>>
    <2>1. mgr'.ws_url = mgr.ws_url
        BY <1>4, HandlerKeepsUrl DEF KeepsUrl
    <2>2. DoneSending(s, tag).sent = sent
        BY DEF DoneSending, Result
    <2>3. InputOf(tag) \in Input /\ InputOf(tag).tag = tag
        BY InputOfType, InputTags DEF InputOf
    <2>4. /\ sent \in Seq(Input)
          /\ Without(sent, Input \ Inputs({"Connect", "Disconnect", "SendCommand", "Reset"}))
        BY <2>3 DEF Without, Inputs
    <2> HIDE DEF sent
    <2>5. to_fsm' = to_fsm \o sent
        BY <1>2, <1>4, <2>2 DEF Commit
    <2> QED
        BY <1>1, <1>2, <1>4, <2>1, <2>4, <2>5, HarmlessInputs, SendSettled
\* Of a manager at rest the status is that of the machine.
<1>5. ASSUME Quiet, NEW c \in Connection, Commit(InitiateConnectToTv(mgr, c)), UNCHANGED ws_vars
      PROVE  SettleInv'
    <2>1. IsDisconnected(mgr) => fsm_state.tag = "Disconnected"
        BY <1>5 DEF Quiet, IsDisconnected, Zombie, StatusInv, HasNoState
    <2> QED
        BY <1>1, <1>2, <1>5, <2>1, ConnectSettled DEF KeepsUrl
<1>6. CASE CancelReconnect
    <2> DEFINE cancelled == SetReconnectFlowStatus(mgr, "Cancelled")
    <2>1. cancelled \in ManagerState /\ KeepsUrl(cancelled)
        BY <1>2, SetFlowType, FlowTypes, FlowNeverWaits DEF KeepsUrl
    <2>2. (Commit(Done(cancelled)) \/ Commit(Done(mgr))) /\ UNCHANGED ws_vars
        BY <1>2, <1>6 DEF CancelReconnect, KeepsUrl, NeverWaits
    <2> HIDE DEF cancelled
    <2> QED
        BY <1>2, <1>3, <2>1, <2>2
<1>7. CASE Connect
    BY <1>5, <1>7 DEF Connect
<1>8. CASE ConnectLastGoodConnection
    <2>1. CASE mgr.last_good_connection = None
        BY <1>2, <1>3, <1>8, <2>1 DEF ConnectLastGoodConnection
    <2>2. CASE mgr.last_good_connection # None
        <3>1. mgr.last_good_connection \in Connection
            BY <1>2, <2>2 DEF ManagerState, ConnectionOption
        <3> QED
            BY <1>5, <1>8, <2>2, <3>1 DEF ConnectLastGoodConnection
    <2> QED
        BY <2>1, <2>2
<1>9. CASE Disconnect
    <2> DEFINE s == [mgr EXCEPT !.is_manual_disconnect_requested = TRUE]
    <2>1. s \in ManagerState /\ KeepsUrl(s)
        BY <1>2, FieldTypes, FieldsKeepUrl
    <2>2. Commit(DoneSending(s, "Disconnect")) /\ UNCHANGED ws_vars
        BY <1>9 DEF Disconnect
    <2> HIDE DEF s
    <2> QED
        BY <1>4, <2>1, <2>2
<1>10. CASE SendTvCommand
    BY <1>2, <1>4, <1>10 DEF SendTvCommand
<1>11. ~TestConnection
    BY DEF TestConnection, Called
<1>12. CASE ShutDown
    <2>1. mgr_pc' = "stopping"
        BY <1>12 DEF ShutDown, Commit, Result
    <2> QED
        BY <2>1 DEF SettleInv, StopPc
<1> QED
    BY <1>6, <1>7, <1>8, <1>9, <1>10, <1>11, <1>12 DEF FromCaller

\* The Reset that ends a reset.
LEMMA FinishedResetSettled ==
    ASSUME TypeInv, RestInv, SettleInv,
           NEW resume \in {"reset", "reset_connect_error", "reset_initialize"},
           NEW r \in ResultType,
           FinishedReset(resume, r), Without(r.sent, Input \ Inputs({"Reset"}))
    PROVE  SettleInv'
<1> DEFINE longer == [r EXCEPT !.sent = ResetInput \o r.sent]
           sent == ResetInput \o r.sent
<1>1. /\ Commit(longer) /\ mgr_pc = resume
      /\ UNCHANGED <<fsm_state, from_fsm, ws_vars>>
    BY DEF FinishedReset, Resumed
<1>2. fsm_alive /\ mgr_pc \notin StopPc
    BY <1>1 DEF RestInv, IsStopping, StopPc
<1>3. InputOf("Reset") \in Input /\ InputOf("Reset").tag = "Reset"
    BY InputOfType, InputTags DEF InputOf
<1>4. /\ ResetInput \in Seq(Input) /\ Without(ResetInput, Input \ Inputs({"Reset"}))
      /\ ~Without(ResetInput, Inputs({"Reset"}))
    BY <1>3 DEF ResetInput, Without, Inputs
<1>5. /\ sent \in Seq(Input) /\ Without(sent, Input \ Inputs({"Reset"}))
      /\ ~Without(sent, Inputs({"Reset"}))
    BY <1>4, SendMessages DEF ResultType
<1>6. to_fsm' = to_fsm \o sent
    <2>1. longer.sent = sent
        BY DEF ResultType
    <2> QED
        BY <1>1, <1>2, <2>1 DEF Commit
<1> HIDE DEF sent, longer
<1>7. WillReset'
    <2>1. to_fsm \in Seq(Input)
        BY DEF TypeInv, CoreOK
    <2>2. ~Without(to_fsm \o sent, Inputs({"Reset"}))
        BY <1>5, <2>1, SendMessages
    <2> QED
        BY <1>6, <2>2 DEF WillReset
<1>8. Without(sent, Errors) /\ Without(sent, Registrations)
    <2> DEFINE harmless == Inputs({"Connect", "Disconnect", "SendCommand", "Reset"})
    <2>1. Input \ harmless \subseteq Input \ Inputs({"Reset"})
        BY DEF Inputs
    <2> HIDE DEF harmless
    <2>2. Without(sent, Input \ harmless)
        BY <1>5, <2>1, FewerWithout
    <2> QED
        BY <2>2, HarmlessInputs DEF harmless
<1> QED
    BY <1>1, <1>2, <1>5, <1>6, <1>7, <1>8, SendSettled

LEMMA ContinueSettled ==
    ASSUME ~IsOperational, TypeInv, RestInv, OneAttempt, PairInv, SettleInv, Continue
    PROVE  SettleInv'
<1>1. UNCHANGED <<fsm_state, from_fsm>>
    BY DEF Continue, FinishReset, FinishConnectError, FinishInitialize, FinishShutDown,
           FinishedReset, ResetInsteadOfReconnect, FinishDisconnect, RetryIntervalTick,
           TasksStopped, Resumed
<1> DEFINE s == InitializeManagerState(mgr)
<1>2. /\ s \in ManagerState /\ mgr \in ManagerState /\ NeverWaits(mgr)
      /\ tv_ip \in UrlOption /\ to_fsm \in Seq(Input) /\ WsTypeOK
    BY InitializeType DEF TypeInv, CoreOK, RestOK, PairInv
<1> HIDE DEF s
<1>3. <<>> \in Seq(Input) /\ \A S : Without(<<>>, S)
    BY EmptyQueue
<1>4. CASE FinishReset
    <2>1. FinishedReset("reset", Done(s))
        BY <1>4 DEF FinishReset, s
    <2>2. Done(s) \in ResultType /\ Done(s).sent = <<>>
        BY <1>2, DoneType, RetrySends DEF IsResult
    <2> QED
        BY <1>3, <2>1, <2>2, FinishedResetSettled
<1>5. CASE FinishConnectError
    <2> DEFINE r == AfterConnectError(s)
    <2>1. FinishedReset("reset_connect_error", r)
        BY <1>5 DEF FinishConnectError, s
    <2>2. IsResult(r)
        BY <1>2, DoneType, InitiateReconnectType, SetFlowType, FlowTypes DEF AfterConnectError
    <2>3. r.sent = <<>>
        BY RetrySends
    <2> HIDE DEF r
    <2> QED
        BY <1>3, <2>1, <2>2, <2>3, FinishedResetSettled DEF IsResult
<1>6. CASE FinishInitialize
    <2> DEFINE resets == [k \in 1 .. 5 |-> InputOf("Reset")]
               r == Result(Remembered(s), resets, "select")
    <2>1. FinishedReset("reset_initialize", r)
        BY <1>6 DEF FinishInitialize, s
    <2>2. InputOf("Reset") \in Input /\ InputOf("Reset").tag = "Reset"
        BY InputOfType, InputTags DEF InputOf
    <2>3. resets \in Seq(Input) /\ Without(resets, Input \ Inputs({"Reset"}))
        BY <2>2 DEF Without, Inputs
    <2>4. Remembered(s) \in ManagerState
        BY <1>2, FieldTypes
    <2>5. r.sent = resets
        BY DEF Result
    <2> HIDE DEF resets
    <2>6. IsResult(r)
        BY <1>2, <2>3, <2>4, SentType, PcTypes
    <2> HIDE DEF r
    <2> QED
        BY <2>1, <2>3, <2>5, <2>6, FinishedResetSettled DEF IsResult
\* A manager that is shutting down, and does not come back.
<1>7. CASE FinishShutDown
    <2> DEFINE r == Result(s, <<>>, "stopped")
               longer == [r EXCEPT !.sent = ResetInput \o r.sent]
    <2>1. Commit(longer)
        BY <1>7 DEF FinishShutDown, FinishedReset, s
    <2>2. longer.pc = "stopped"
        BY DEF Result
    <2> HIDE DEF r, longer
    <2> QED
        BY <2>1, <2>2 DEF Commit, SettleInv, StopPc
<1>8. CASE TasksStopped
    <2>1. mgr_pc' \in {"stopped", "reset_shut_down"}
        BY <1>8 DEF TasksStopped, ForceManagerReset, Commit, Result
    <2> QED
        BY <2>1 DEF SettleInv, StopPc
<1>9. CASE ResetInsteadOfReconnect
    <2>1. /\ ForceManagerReset(mgr, "reset") /\ mgr_pc = "force_reset"
          /\ UNCHANGED ws_join_handle
        BY <1>9 DEF ResetInsteadOfReconnect
    <2>2. TaskServed /\ mgr_pc' = "reset"
        BY <1>2, <2>1, ForceResetServes
    <2>3. WillReset' /\ mgr_pc \notin StopPc
        BY <2>1, <2>2 DEF WillReset, ResetPc, StopPc
    <2> DEFINE none == <<>>
    <2>4. none \in Seq(Input) /\ \A S : Without(none, S)
        BY <1>3
    <2>5. to_fsm' = to_fsm \o none
        BY <1>2, <2>1 DEF ForceManagerReset, Commit, Result
    <2> HIDE DEF none
    <2>6. \A S : Without(from_fsm, S) => Without(from_fsm', S)
        BY <1>1
    <2> QED
        BY <1>1, <2>2, <2>3, <2>4, <2>5, <2>6, HandlerKeepsSettled
\* The attempt is over.
<1>10. ASSUME mgr_pc \in RestPc
       PROVE  fsm_state.tag = "Disconnected" /\ mgr_pc \notin ResetPc /\ mgr_pc \notin StopPc
    BY <1>10 DEF OneAttempt, IsActive, RestPc, ResetPc, StopPc
<1>11. CASE FinishDisconnect
    <2> DEFINE unpaired == [SetReconnectFlowStatus(s, "Inactive") EXCEPT !.is_pairing = FALSE]
               again == InitiateReconnect(s, FALSE)
    <2>1. /\ Commit(Done(s)) \/ Commit(Done(unpaired)) \/ Commit(again)
          /\ mgr_pc \in RestPc /\ UNCHANGED ws_vars
        BY <1>11 DEF FinishDisconnect, Resumed, RestPc, s
    <2>2. again.sent = <<>> /\ Done(s).sent = <<>> /\ Done(unpaired).sent = <<>>
        BY RetrySends
    <2> HIDE DEF unpaired, again
    <2>3. PICK r : Commit(r) /\ r.sent = <<>>
        BY <2>1, <2>2
    <2> DEFINE none == <<>>
    <2>4. none \in Seq(Input) /\ \A S : Without(none, S)
        BY <1>3
    <2>5. to_fsm' = to_fsm \o none
        BY <1>2, <2>3 DEF Commit
    <2> HIDE DEF none
    <2> QED
        BY <1>1, <1>10, <2>1, <2>4, <2>5, SendSettled
<1>12. CASE RetryIntervalTick
    <2> DEFINE attempts == IF mgr.reconnect_attempts < MaxAttempts
                           THEN mgr.reconnect_attempts + 1 ELSE mgr.reconnect_attempts
               counted == [mgr EXCEPT !.reconnect_attempts = attempts]
               c == mgr.connection_details
    <2>1. /\ Commit(InitiateConnectToTv(counted, c)) /\ mgr_pc = "sleeping"
          /\ UNCHANGED <<ws_vars, ws_join_handle>>
        BY <1>12 DEF RetryIntervalTick, Reconnect, Resumed
    <2>2. c \in Connection
        BY <1>2, <2>1 DEF TypeInv, CoreOK, SleepingHasConnection, ManagerState, ConnectionOption
    <2>3. attempts \in 0 .. MaxAttempts
        BY <1>2, ManagerAssumption DEF ManagerState
    <2> HIDE DEF attempts
    <2>4. counted \in ManagerState /\ NeverWaits(counted) /\ counted.ws_url = mgr.ws_url
        BY <1>2, <2>3 DEF ManagerState, NeverWaits
    <2> HIDE DEF counted, c
    <2>5. fsm_alive /\ fsm_state.tag = "Disconnected"
        BY <1>10, <2>1 DEF RestPc, StopPc, RestInv, IsStopping
    <2> QED
        BY <1>1, <2>1, <2>2, <2>4, <2>5, ConnectSettled
<1> QED
    BY <1>4, <1>5, <1>6, <1>7, <1>8, <1>9, <1>11, <1>12 DEF Continue

-----------------------------------------------------------------------------
(* All steps together.                                                     *)

LEMMA NextKeepsSettled ==
    ASSUME Patient, ~IsOperational, "TestConnection" \notin CallerMessage,
           "SendFailed" \notin Faults,
           TypeInv, StatusInv, RestInv, NeverChecked, OneAttempt, PairInv, SettleInv, [Next]_vars
    PROVE  SettleInv'
<1>1. CASE FromCaller
    BY <1>1, CallerSettled
<1>2. CASE FromStateMachine
    BY <1>2, StateMachineSettled
<1>3. CASE FromWebSocket
    BY <1>3, WebSocketSettled
<1>4. ~TvNetworkChecked
    BY DEF TvNetworkChecked, NeverChecked
<1>5. CASE Continue
    BY <1>5, ContinueSettled
<1>6. CASE FsmStep
    BY <1>6, FsmSettled
<1>7. CASE \E i \in Socket : WsTask(i) \/ WsNetwork(i)
    BY <1>7, WebSocketTaskSettled
<1>8. CASE NetStep \/ UNCHANGED vars
    <2>1. UNCHANGED <<fsm_state, to_fsm, from_fsm, ws, cur_ws, mgr, mgr_pc, ws_join_handle>>
        BY <1>8 DEF NetStep, vars, fsm_vars, ws_vars, mgr_vars
    <2>2. (OthersOver => OthersOver') /\ Task' = Task
        BY <2>1 DEF OthersOver, Task
    <2> QED
        BY <2>1, <2>2, UnchangedSettled
<1> QED
    BY <1>1, <1>2, <1>3, <1>4, <1>5, <1>6, <1>7, <1>8 DEF Next, ManagerStep

LEMMA InitSettled == Init => SettleInv
<1> SUFFICES ASSUME Init PROVE SettleInv
    OBVIOUS
<1>1. /\ to_fsm = <<>> /\ from_fsm = <<>> /\ fsm_state.tag = "Disconnected"
      /\ cur_ws = None /\ \A i \in Socket : ws[i].phase = "free"
    BY DEF Init, FsmInit, WsInit, Disconnected, NoSocket
<1>2. \A S : Without(to_fsm, S) /\ Without(from_fsm, S)
    BY <1>1, EmptyQueue
<1>3. ~IsUnderWay /\ ~IsLive
    BY <1>1 DEF IsUnderWay, IsLive, LiveTag
<1>4. OthersOver /\ TaskReportsInTurn /\ HasConnected /\ HasHandle /\ NoHangup
    BY <1>1, <1>2, <1>3 DEF OthersOver, TaskReportsInTurn, HasConnected, HasHandle, NoHangup
<1>5. Attended /\ Awaiting /\ ErrorsFirst /\ EndIsReported /\ Leaving /\ OneUrl
    BY <1>1, <1>3 DEF Attended, Awaiting, ErrorsFirst, EndIsReported, IsExiting, Leaving, OneUrl
<1> QED
    BY <1>4, <1>5 DEF SettleInv

\* Where nothing is under way, nothing is still to come: the machine is in none
\* of the states that it is to leave.
LEMMA SettledImplies ==
    ASSUME TypeInv, StatusInv, RestInv, PairInv, SettleInv
    PROVE  SettledMeansConsistent
<1> SUFFICES ASSUME Quiet
             PROVE  \/ /\ mgr.manager_status.tag \in LiveTag
                       /\ cur_ws # None /\ Running(cur_ws)
                       /\ ws[cur_ws].host = mgr.manager_status.url
                       /\ mgr.ws_url = mgr.manager_status.url
                    \/ /\ IsDisconnected(mgr)
                       /\ \A i \in Socket : ~Running(i)
    BY DEF SettledMeansConsistent
<1>1. /\ mgr_pc = "select" /\ to_fsm = <<>> /\ from_fsm = <<>>
      /\ cur_ws # None => /\ Task.from_ws = <<>> /\ Task.to_ws = <<>>
                          /\ Task.phase \in {"running", "ended"}
    BY DEF Quiet, Task
<1>2. /\ OneTask /\ OthersOver /\ Attended /\ Awaiting /\ Leaving /\ OneUrl
    BY <1>1 DEF PairInv, AttemptInv, SettleInv, StopPc
<1>3. mgr.manager_status = fsm_state
    <2>1. mgr.manager_status # Zombie
        BY <1>1 DEF RestInv, IsStopping, StopPc
    <2> QED
        BY <1>1, <2>1 DEF StatusInv, HasNoState
<1>4. \A S : Without(to_fsm, S) /\ Without(from_fsm, S)
    BY <1>1, EmptyQueue
<1>5. ~WillReset /\ ~WillEnd /\ HasStarted
    BY <1>1, <1>4 DEF WillReset, WillEnd, ResetPc, HasStarted
<1>6. cur_ws # None => \A S : Without(Task.from_ws, S) /\ Without(Task.to_ws, S)
    BY <1>1, EmptyQueue
<1>7. fsm_state.tag # "Connecting"
    BY <1>1, <1>2, <1>4, <1>5, <1>6 DEF Awaiting
<1>8. fsm_state.tag # "Disconnecting"
    BY <1>1, <1>2, <1>4, <1>5, <1>6 DEF Leaving, IsLeaving
<1>9. fsm_state.tag \in {"Disconnected"} \cup LiveTag
    BY <1>7, <1>8 DEF TypeInv, RestOK, CoreOK, State, StateTag, LiveTag
<1>10. CASE fsm_state.tag \in LiveTag
    <2>1. IsUnderWay
        BY <1>10 DEF IsUnderWay
    <2>2. cur_ws # None /\ Task.phase = "running"
        BY <1>1, <1>2, <1>5, <1>6, <2>1 DEF Attended, IsAttended
    <2>3. mgr.ws_url = fsm_state.url /\ Task.host = fsm_state.url
        BY <1>2, <1>5, <2>1 DEF OneUrl
    <2> QED
        BY <1>3, <1>10, <2>2, <2>3 DEF Running, Task
<1>11. CASE fsm_state.tag = "Disconnected"
    <2>1. cur_ws # None => Task.phase # "running"
        BY <1>2, <1>11 DEF OneTask, Gone, IsOver
    <2>2. \A i \in Socket : ~Running(i)
        <3> SUFFICES ASSUME NEW i \in Socket PROVE ws[i].phase # "running"
            BY DEF Running
        <3>1. i = cur_ws => cur_ws # None /\ ws[i] = Task
            BY SocketAssumption DEF Task
        <3> QED
            BY <1>2, <2>1, <3>1 DEF OthersOver
    <2> QED
        BY <1>3, <1>11, <2>2 DEF IsDisconnected
<1> QED
    BY <1>9, <1>10, <1>11

\* When nothing is under way, what the caller has been told is so: behind a live
\* status runs a connection to the TV of that URL, which is the manager's own
\* too; no connection runs behind Disconnected, neither that of the last attempt
\* nor one before it; and no attempt is left in Connecting or Disconnecting,
\* whatever failed on the way there.  The caller must connect only when nothing
\* is under way and test no connection, the checker must not operate, and no send
\* of a task may fail without the other end noticing (what happens then is the
\* finding of a run).
THEOREM SettlesConsistently ==
    ASSUME Patient, ~IsOperational, "TestConnection" \notin CallerMessage,
           "SendFailed" \notin Faults
    PROVE  Spec => []SettledMeansConsistent
<1>1. Init => /\ StatusInv /\ RestInv /\ NoForgottenTask /\ RegisterInv /\ NeverChecked
              /\ OneAttempt /\ PairInv /\ SettleInv
    <2>1. Init => NoForgottenTask
        BY DEF Init, WsInit, ManagerInit, NoForgottenTask
    <2> QED
        BY <2>1, InitAttempt, InitRegister, InitPair, InitSettled
<1>2. TypeInv /\ StatusInv /\ RestInv /\ NoForgottenTask /\ RegisterInv /\ NeverChecked
          /\ OneAttempt /\ PairInv /\ SettleInv /\ [Next]_vars
          => (/\ StatusInv /\ RestInv /\ NoForgottenTask /\ RegisterInv /\ NeverChecked
              /\ OneAttempt /\ PairInv /\ SettleInv)'
    <2>1. TypeInv /\ StatusInv /\ [Next]_vars => StatusInv'
        BY NextKeepsStatus
    <2>2. TypeInv /\ RestInv /\ [Next]_vars => RestInv'
        BY NextKeepsRest
    <2>3. TypeInv /\ NoForgottenTask /\ [Next]_vars => NoForgottenTask'
        BY NextKeepsTasks
    <2>4. TypeInv /\ NoForgottenTask /\ RegisterInv /\ [Next]_vars => RegisterInv'
        BY NextKeepsRegister
    <2>5. TypeInv /\ StatusInv /\ RestInv /\ NeverChecked /\ OneAttempt /\ [Next]_vars
              => (NeverChecked /\ OneAttempt)'
        BY NextKeepsAttempt
    <2>6. TypeInv /\ StatusInv /\ RestInv /\ NoForgottenTask /\ RegisterInv /\ NeverChecked
              /\ OneAttempt /\ PairInv /\ [Next]_vars => PairInv'
        BY NextKeepsPair
    <2>7. TypeInv /\ StatusInv /\ RestInv /\ NeverChecked /\ OneAttempt /\ PairInv /\ SettleInv
              /\ [Next]_vars => SettleInv'
        BY NextKeepsSettled
    <2> QED
        BY <2>1, <2>2, <2>3, <2>4, <2>5, <2>6, <2>7
<1>3. TypeInv /\ StatusInv /\ RestInv /\ PairInv /\ SettleInv => SettledMeansConsistent
    BY SettledImplies
<1> QED
    BY <1>1, <1>2, <1>3, InitType, NextType, PTL DEF Spec
=============================================================================
