-------------------------- MODULE Backpressure_proofs --------------------------
(***************************************************************************)
(* Why no circle of full channels forms.  A send is awaited, so the tasks  *)
(* can only wait for each other when there are more messages than room for *)
(* them; what has to be shown is that there never are.  Every message, and *)
(* every task, is charged for whatever may still come of it: a Connect for *)
(* the Input, the updates, the task, its reports and the requests that it  *)
(* sets off, down to the last answer.  No step makes more of a message     *)
(* than it was charged for, so the total only rises with a call or with a  *)
(* payload of the TV, and both are limited in a burst.  The charges are a  *)
(* tariff; two of them are used, one that counts the messages of the       *)
(* machine, and one that counts the reports of the task.                   *)
(***************************************************************************)
EXTENDS Backpressure, TLAPS

(* Weights of sequences.  The weight of a sequence is the sum of what its  *)
(* messages are charged; rest[i] is that of the messages from the i-th on. *)
(* That it is at least the length, where every message is charged, is part *)
(* of the definition: it is carried along instead of proved by induction.  *)

AtLeastOne(load) == \A m \in DOMAIN load : load[m] >= 1

IsLedger(rest, s, load) ==
    /\ rest \in [1 .. Len(s) + 1 -> Nat]
    /\ rest[Len(s) + 1] = 0
    /\ \A i \in 1 .. Len(s) : rest[i] = load[s[i]] + rest[i + 1]
    /\ AtLeastOne(load) => \A i \in 1 .. Len(s) + 1 : rest[i] >= Len(s) + 1 - i

Weighs(s, load, n) == \E rest : IsLedger(rest, s, load) /\ rest[1] = n

\* An empty channel weighs nothing.
LEMMA EmptyWeighs ==
    ASSUME NEW load PROVE Weighs(<<>>, load, 0)
<1> DEFINE rest == [i \in 1 .. 1 |-> 0]
<1>1. IsLedger(rest, <<>>, load)
    BY DEF IsLedger
<1>2. rest[1] = 0
    OBVIOUS
<1> QED
    BY <1>1, <1>2 DEF Weighs

\* One message weighs what it is charged.
LEMMA OneWeighs ==
    ASSUME NEW S, NEW load \in [S -> Nat], NEW m \in S
    PROVE  Weighs(<<m>>, load, load[m])
<1> DEFINE rest == [i \in 1 .. 2 |-> IF i = 1 THEN load[m] ELSE 0]
<1>1. Len(<<m>>) = 1 /\ <<m>>[1] = m /\ load[m] \in Nat
    OBVIOUS
<1>2. rest \in [1 .. 1 + 1 -> Nat] /\ rest[1] = load[m] /\ rest[1 + 1] = 0
    BY <1>1
<1>3. AtLeastOne(load) => load[m] >= 1
    BY DEF AtLeastOne
<1> HIDE DEF rest
<1>4. IsLedger(rest, <<m>>, load)
    BY <1>1, <1>2, <1>3 DEF IsLedger
<1> QED
    BY <1>2, <1>4 DEF Weighs

\* The first message can be taken off, and with it what it is charged.
LEMMA TailWeighs ==
    ASSUME NEW S, NEW load \in [S -> Nat], NEW s \in Seq(S), s # <<>>,
           NEW n, Weighs(s, load, n)
    PROVE  \E m \in Nat : n = load[Head(s)] + m /\ Weighs(Tail(s), load, m)
<1>1. PICK rest : IsLedger(rest, s, load) /\ rest[1] = n
    BY DEF Weighs
<1> DEFINE other == [i \in 1 .. Len(s) |-> rest[i + 1]]
<1>2. Len(s) \in Nat \ {0} /\ Len(Tail(s)) = Len(s) - 1 /\ Head(s) = s[1]
      /\ \A i \in 1 .. Len(s) - 1 : Tail(s)[i] = s[i + 1]
    OBVIOUS
<1>3. other[1] = rest[2] /\ rest[2] \in Nat /\ n = load[Head(s)] + rest[2]
    BY <1>1, <1>2 DEF IsLedger
<1>4. IsLedger(other, Tail(s), load)
    BY <1>1, <1>2 DEF IsLedger
<1> HIDE DEF other
<1> QED
    BY <1>3, <1>4 DEF Weighs

\* Two sequences one after the other weigh what they weigh together.
LEMMA ConcatWeighs ==
    ASSUME NEW S, NEW load \in [S -> Nat], NEW s \in Seq(S), NEW t \in Seq(S),
           NEW n \in Nat, NEW m \in Nat, Weighs(s, load, n), Weighs(t, load, m)
    PROVE  Weighs(s \o t, load, n + m)
<1>1. PICK rs : IsLedger(rs, s, load) /\ rs[1] = n
    BY DEF Weighs
<1>2. PICK rt : IsLedger(rt, t, load) /\ rt[1] = m
    BY DEF Weighs
<1> DEFINE a == Len(s)
           b == Len(t)
           rest == [i \in 1 .. a + b + 1 |-> IF i <= a THEN rs[i] + m ELSE rt[i - a]]
<1>3. a \in Nat /\ b \in Nat /\ Len(s \o t) = a + b
    OBVIOUS
<1>31. \A i \in 1 .. a : (s \o t)[i] = s[i] /\ load[s[i]] \in Nat
    OBVIOUS
<1>32. \A i \in a + 1 .. a + b : (s \o t)[i] = t[i - a]
    OBVIOUS
<1>4. /\ rs \in [1 .. a + 1 -> Nat] /\ rs[a + 1] = 0
      /\ \A i \in 1 .. a : rs[i] = load[s[i]] + rs[i + 1]
      /\ AtLeastOne(load) => \A i \in 1 .. a + 1 : rs[i] >= a + 1 - i
    BY <1>1 DEF IsLedger
<1>5. /\ rt \in [1 .. b + 1 -> Nat] /\ rt[b + 1] = 0
      /\ \A i \in 1 .. b : rt[i] = load[t[i]] + rt[i + 1]
      /\ AtLeastOne(load) => \A i \in 1 .. b + 1 : rt[i] >= b + 1 - i
    BY <1>2 DEF IsLedger
<1> HIDE DEF a, b
<1>6. rest \in [1 .. a + b + 1 -> Nat]
    BY <1>3, <1>4, <1>5
<1>7. /\ \A i \in 1 .. a : rest[i] = rs[i] + m
      /\ \A i \in 1 .. b + 1 : rest[a + i] = rt[i]
    <2>1. ASSUME NEW i \in 1 .. b + 1 PROVE rest[a + i] = rt[i]
        <3>1. a + i \in 1 .. a + b + 1 /\ ~(a + i <= a) /\ (a + i) - a = i
            BY <1>3
        <3> QED
            BY <3>1
    <2>2. ASSUME NEW i \in 1 .. a PROVE rest[i] = rs[i] + m
        <3>1. i \in 1 .. a + b + 1 /\ i <= a
            BY <1>3
        <3> QED
            BY <3>1
    <2> QED
        BY <2>1, <2>2
<1> HIDE DEF rest
<1>8. rest[1] = n + m /\ rest[a + b + 1] = 0
    <2>1. rest[a + b + 1] = rt[b + 1]
        <3>1. b + 1 \in 1 .. b + 1 /\ a + b + 1 = a + (b + 1)
            BY <1>3
        <3> QED
            BY <1>7, <3>1
    <2>2. CASE a = 0
        <3>1. 1 \in 1 .. b + 1 /\ a + 1 = 1
            BY <1>3, <2>2
        <3>2. rest[1] = rt[1] /\ rs[1] = 0
            BY <1>4, <1>7, <2>2, <3>1
        <3> QED
            BY <1>1, <1>2, <1>5, <2>1, <3>2
    <2>3. CASE a > 0
        BY <1>1, <1>3, <1>5, <1>7, <2>1, <2>3
    <2> QED
        BY <1>3, <2>2, <2>3
<1>9. ASSUME NEW i \in 1 .. a + b
      PROVE  /\ rest[i] = load[(s \o t)[i]] + rest[i + 1]
             /\ AtLeastOne(load) => rest[i] >= a + b + 1 - i
    <2>1. CASE i < a
        <3>1. i \in 1 .. a /\ i + 1 \in 1 .. a
            BY <1>3, <2>1
        <3>2. rest[i] = rs[i] + m /\ rest[i + 1] = rs[i + 1] + m
            BY <1>7, <3>1
        <3>3. rs[i] = load[s[i]] + rs[i + 1] /\ rs[i] \in Nat /\ rs[i + 1] \in Nat
            BY <1>3, <1>4, <3>1
        <3>5. load[s[i]] \in Nat /\ (s \o t)[i] = s[i]
            BY <1>31, <3>1
        <3>4. AtLeastOne(load) => m >= b /\ rs[i] >= a + 1 - i
            BY <1>2, <1>3, <1>4, <1>5, <3>1
        <3>6. rest[i] = load[(s \o t)[i]] + rest[i + 1]
            BY <3>2, <3>3, <3>5
        <3>7. AtLeastOne(load) => rest[i] >= a + b + 1 - i
            BY <1>3, <3>2, <3>3, <3>4
        <3> QED
            BY <3>6, <3>7
    <2>2. CASE i = a
        <3>0. i \in 1 .. a /\ 1 \in 1 .. b + 1
            BY <1>3, <2>2
        <3>1. rest[i] = rs[i] + m /\ rest[i + 1] = m
            BY <1>2, <1>7, <2>2, <3>0
        <3>2. rs[i] = load[s[i]] + 0 /\ load[s[i]] \in Nat /\ (s \o t)[i] = s[i]
            BY <1>31, <1>4, <2>2, <3>0
        <3>3. AtLeastOne(load) => m >= b /\ rs[i] >= a + 1 - i
            BY <1>2, <1>3, <1>4, <1>5, <2>2
        <3> QED
            BY <1>3, <3>1, <3>2, <3>3
    <2>3. CASE i > a
        <3>1. PICK j \in 1 .. b : i = a + j
            <4>1. i - a \in 1 .. b /\ i = a + (i - a)
                BY <1>3, <2>3
            <4> QED
                BY <4>1
        <3>2. rest[i] = rt[j] /\ rest[i + 1] = rt[j + 1]
            <4>1. j \in 1 .. b + 1 /\ j + 1 \in 1 .. b + 1 /\ i + 1 = a + (j + 1)
                BY <1>3, <3>1
            <4> QED
                BY <1>7, <3>1, <4>1
        <3>3. (s \o t)[i] = t[j]
            <4>1. i - a = j /\ i \in a + 1 .. a + b
                BY <1>3, <3>1
            <4> QED
                BY <1>32, <4>1
        <3>4. rt[j] = load[t[j]] + rt[j + 1] /\ (AtLeastOne(load) => rt[j] >= b + 1 - j)
            BY <1>3, <1>5
        <3> QED
            BY <1>3, <3>1, <3>2, <3>3, <3>4
    <2> QED
        BY <1>3, <2>1, <2>2, <2>3
<1>10. IsLedger(rest, s \o t, load)
    <2>1. AtLeastOne(load) => \A i \in 1 .. a + b + 1 : rest[i] >= a + b + 1 - i
        <3>1. \A i \in 1 .. a + b + 1 : i \in 1 .. a + b \/ i = a + b + 1
            BY <1>3
        <3>2. rest[a + b + 1] >= a + b + 1 - (a + b + 1)
            BY <1>3, <1>8
        <3>3. ASSUME AtLeastOne(load), NEW i \in 1 .. a + b + 1
              PROVE  rest[i] >= a + b + 1 - i
            <4>1. CASE i \in 1 .. a + b
                BY <1>9, <3>3, <4>1
            <4>2. CASE i = a + b + 1
                BY <3>2, <4>2
            <4> QED
                BY <3>1, <4>1, <4>2
        <3> QED
            BY <3>3
    <2> QED
        BY <2>1, <1>3, <1>6, <1>8, <1>9 DEF IsLedger
<1> QED
    BY <1>8, <1>10 DEF Weighs

\* A message that is sent adds what it is charged.
LEMMA AppendWeighs ==
    ASSUME NEW S, NEW load \in [S -> Nat], NEW s \in Seq(S), NEW m \in S,
           NEW n \in Nat, Weighs(s, load, n)
    PROVE  Weighs(Append(s, m), load, n + load[m])
<1>1. Append(s, m) = s \o <<m>>
    OBVIOUS
<1>2. <<m>> \in Seq(S) /\ load[m] \in Nat
    OBVIOUS
<1> QED
    BY <1>1, <1>2, OneWeighs, ConcatWeighs

\* A message sent k times, and charged nothing or one each time.
LEMMA RepeatWeighs ==
    ASSUME NEW S, NEW load \in [S -> Nat], NEW m \in S, load[m] \in {0, 1}, NEW k \in Nat
    PROVE  Weighs([i \in 1 .. k |-> m], load, IF load[m] = 0 THEN 0 ELSE k)
<1> DEFINE s == [i \in 1 .. k |-> m]
           rest == [i \in 1 .. k + 1 |-> IF load[m] = 0 THEN 0 ELSE k + 1 - i]
<1>1. s \in Seq(S) /\ Len(s) = k /\ \A i \in 1 .. k : s[i] = m
    OBVIOUS
<1>2. AtLeastOne(load) => load[m] = 1
    BY DEF AtLeastOne
<1> HIDE DEF s
<1>3. IsLedger(rest, s, load)
    BY <1>1, <1>2 DEF IsLedger
<1>4. rest[1] = IF load[m] = 0 THEN 0 ELSE k
    OBVIOUS
<1> HIDE DEF rest
<1>5. Weighs(s, load, IF load[m] = 0 THEN 0 ELSE k)
    BY <1>3, <1>4 DEF Weighs
<1> QED
    BY <1>5 DEF s

\* Where every message is charged, a channel weighs at least its length.
LEMMA LengthWeighs ==
    ASSUME NEW S, NEW load \in [S -> Nat], NEW s \in Seq(S), NEW n \in Nat,
           Weighs(s, load, n), AtLeastOne(load)
    PROVE  n >= Len(s)
BY DEF Weighs, IsLedger

\* And an empty channel weighs nothing else.
LEMMA EmptyWeighsNothing ==
    ASSUME NEW load, NEW n, Weighs(<<>>, load, n)
    PROVE  n = 0
BY DEF Weighs, IsLedger
------------------------------------------------------------------------------
(* Types.                                                                  *)

Session == {"idle", "registering", "prompting", "registered", "subscribed"}

\* A task writes while it runs; while it connects nobody has heard from it.
TaskInOrder ==
    /\ ws.writing # None => ws.phase = "running"
    /\ ws.phase = "connecting" => ws.session = "idle" /\ ws.report = <<>>

TypeInv == TypeOK /\ TaskInOrder

\* The Inputs the handlers send are Inputs.
LEMMA Inputs ==
    /\ \A tag \in InputTag \ {"Connect"} : InputOf(tag) \in Input
    /\ ConnectInput(CHOOSE u \in Url : TRUE) \in Input
<1>1. (CHOOSE u \in Url : TRUE) \in Url
    BY BackpressureAssumption
<1> QED
    BY <1>1 DEF InputOf, ConnectInput, Input

\* The operations the handlers await are operations.
LEMMA Operations ==
    /\ {Out, TellShutDown, ShutDownWs, Join} \subseteq Operation
    /\ \A input \in Input : Fsm(input) \in Operation
    /\ \A message \in WsMessage : Ws(message) \in Operation
    /\ "ShutDown" \in CallerMessage => {Stopped, Stop} \subseteq Operation
BY DEF Operation, Op, Out, TellShutDown, ShutDownWs, Join, Fsm, Ws

\* A sequence of one message over and over.
LEMMA Repeated ==
    ASSUME NEW S, NEW m \in S, NEW k \in Nat
    PROVE  [i \in 1 .. k |-> m] \in Seq(S)
OBVIOUS

\* Any number of outputs.
LEMMA OutsAreOperations == \A n \in Nat : Outs(n) \in Seq(Operation)
BY Operations, Repeated DEF Outs

\* The lists that several handlers share.
LEMMA ListsAreOperations ==
    /\ StateOuts \in Seq(Operation)
    /\ ResetOps \in Seq(Operation)
    /\ PrepareOps \in Seq(Operation)
<1>1. StateOuts \in Seq(Operation)
    <2>1. Details + 2 \in Nat
        BY BackpressureAssumption
    <2> QED
        BY <2>1, OutsAreOperations DEF StateOuts
<1>2. Fsm(InputOf("Reset")) \in Operation
    BY Inputs, Operations DEF InputTag
<1>3. <<Out, TellShutDown, Join>> \in Seq(Operation)
      /\ <<Fsm(InputOf("Reset")), Out>> \in Seq(Operation)
    BY <1>2, Operations
<1>4. ResetOps \in Seq(Operation)
    BY <1>1, <1>3 DEF ResetOps
<1>5. PrepareOps \in Seq(Operation)
    BY Operations DEF PrepareOps
<1> QED
    BY <1>1, <1>4, <1>5

\* What a ManagerMessage makes the manager do.
LEMMA CommandIsOperations ==
    ASSUME NEW message \in CallerMessage
    PROVE  CommandOps(message) \in Seq(Operation)
<1> USE Inputs, Operations
<1>1. message \in ManagerMessage
    BY BackpressureAssumption
<1>2. CASE message = "Connect"
    <2>1. <<Out>> \in Seq(Operation)
        OBVIOUS
    <2>2. <<Out, Fsm(ConnectInput(CHOOSE u \in Url : TRUE))>> \in Seq(Operation)
        OBVIOUS
    <2>3. CASE IsDisconnected
        BY <1>2, <2>2, <2>3 DEF CommandOps
    <2>4. CASE ~IsDisconnected
        BY <1>2, <2>1, <2>4 DEF CommandOps
    <2> QED
        BY <2>3, <2>4
<1>3. CASE message = "Disconnect"
    <2>1. <<Fsm(InputOf("Disconnect"))>> \in Seq(Operation)
        BY DEF InputTag
    <2> QED
        BY <1>3, <2>1 DEF CommandOps
<1>4. CASE message = "SendTvCommand"
    <2>1. <<Fsm(InputOf("SendCommand"))>> \in Seq(Operation)
        BY DEF InputTag
    <2> QED
        BY <1>4, <2>1 DEF CommandOps
<1>5. CASE message = "EmitAllState"
    <2>1. 1 + Details \in Nat
        BY BackpressureAssumption
    <2> QED
        BY <1>5, <2>1, OutsAreOperations DEF CommandOps
<1>6. CASE message = "ShutDown"
    <2>1. <<Stopped, ShutDownWs, Stop>> \in Seq(Operation)
        BY <1>6
    <2> QED
        BY <1>6, <2>1 DEF CommandOps
<1> QED
    BY <1>1, <1>2, <1>3, <1>4, <1>5, <1>6 DEF ManagerMessage

\* What an Output of the machine makes it do.
LEMMA OutputIsOperations ==
    ASSUME NEW tag \in OutputTag
    PROVE  OutputOps(tag) \in Seq(Operation)
<1> USE Operations
<1>1. CASE tag \in {"ConnectToTv", "PairWithTv"}
    BY <1>1 DEF OutputOps
<1>2. CASE tag = "SendRegisterPayload"
    <2>1. <<Out, Ws("Register")>> \in Seq(Operation)
        BY DEF WsMessage
    <2> QED
        BY <1>2, <2>1 DEF OutputOps
<1>3. CASE tag = "InitializeConnection"
    <2>1. Ws("Initialize") \in Operation /\ Requests \in Nat
        BY BackpressureAssumption DEF WsMessage
    <2>2. [k \in 1 .. Requests |-> Ws("Initialize")] \in Seq(Operation)
        BY <2>1, Repeated
    <2> QED
        BY <1>3, <2>2 DEF OutputOps
<1>4. CASE tag = "SendCommand"
    <2>1. <<Ws("Command")>> \in Seq(Operation)
        BY DEF WsMessage
    <2> QED
        BY <1>4, <2>1 DEF OutputOps
<1>5. CASE tag = "DisconnectFromTv"
    <2>1. Append(PrepareOps, ShutDownWs) \in Seq(Operation)
        BY ListsAreOperations
    <2> QED
        BY <1>5, <2>1 DEF OutputOps
<1>6. CASE tag \in {"HandleSuccessfulDisconnect", "HandleDisconnectError"}
    <2>1. <<Join>> \in Seq(Operation)
        OBVIOUS
    <2>2. <<Join>> \o StateOuts \in Seq(Operation)
        BY <2>1, ListsAreOperations
    <2> QED
        BY <1>6, <2>2 DEF OutputOps
<1>7. CASE tag = "HandleConnectError"
    BY <1>7, ListsAreOperations DEF OutputOps
<1> QED
    BY <1>1, <1>2, <1>3, <1>4, <1>5, <1>6, <1>7 DEF OutputTag

\* What a new State makes it do.
LEMMA StatusIsOperations ==
    ASSUME NEW status
    PROVE  StatusOps(status) \in Seq(Operation)
<1>1. <<>> \in Seq(Operation) /\ <<Out>> \in Seq(Operation) /\ <<Out, Out>> \in Seq(Operation)
    BY Operations
<1> QED
    BY <1>1 DEF StatusOps

\* What a report of the WebSocket task makes it do.
LEMMA UpdateIsOperations ==
    ASSUME NEW update \in WsUpdate
    PROVE  UpdateOps(update) \in Seq(Operation)
<1>1. \A tag \in InputTag \ {"Connect"} :
          /\ <<Fsm(InputOf(tag))>> \in Seq(Operation)
          /\ <<Fsm(InputOf(tag)), Out>> \in Seq(Operation)
    BY Inputs, Operations
<1>2. <<Out>> \in Seq(Operation)
    BY Operations
<1> USE DEF InputTag
<1>3. CASE update \in {"Connected", "Disconnected", "Pair", "Registered"}
    BY <1>1, <1>3 DEF UpdateOps
<1>4. CASE update \in {"ConnectError", "ServerClosedConnection"}
    <2>1. PrepareOps \o <<Fsm(InputOf("Error")), Out>> \in Seq(Operation)
        BY <1>1, ListsAreOperations
    <2> QED
        BY <1>4, <2>1 DEF UpdateOps
<1>5. CASE update = "Volume"
    BY <1>1, <1>2, <1>5 DEF UpdateOps
<1> QED
    BY <1>3, <1>4, <1>5 DEF WsUpdate

\* A rule of the machine leads to a State, and what it reports are Updates.
LEMMA RuleTypes ==
    ASSUME NEW s \in State, NEW input \in Input, NEW rule \in Applicable(s, input)
    PROVE  /\ Target(rule, s, input) \in State
           /\ Updates(rule, Target(rule, s, input)) \in Seq(Update)
           /\ StateUpdate(Target(rule, s, input)) \in Update
           /\ rule.output # NoOutput =>
                  OutputUpdate(rule.output, Target(rule, s, input)) \in Update
<1>1. rule \in Rules /\ rule.from = s.tag /\ rule.input = input.tag
    BY DEF Applicable
<1>2. /\ rule.to \in StateTag
      /\ rule.output \in OutputTag \cup {NoOutput}
      /\ rule.from = "Disconnected" => rule.to = "Disconnected" \/ rule.input = "Connect"
      /\ rule.input = "Connect" => rule.to # "Disconnected"
    BY <1>1 DEF Rules, Rule, StateTag, OutputTag, NoOutput
<1> DEFINE s2 == Target(rule, s, input)
<1>3. s2 \in State
    <2>1. CASE rule.to = "Disconnected"
        <3>1. s2 = [tag |-> "Disconnected", url |-> None]
            BY <1>2, <2>1 DEF Target
        <3> HIDE DEF s2
        <3> QED
            BY <3>1 DEF State
    <2>2. CASE rule.to # "Disconnected" /\ rule.input = "Connect"
        BY <1>1, <1>2, <2>2 DEF Target, State, Input
    <2>3. CASE rule.to # "Disconnected" /\ rule.input # "Connect"
        <3>1. s.url \in Url
            BY <1>1, <1>2, <2>3 DEF State
        <3> QED
            BY <1>2, <2>3, <3>1 DEF Target, State
    <2> QED
        BY <2>1, <2>2, <2>3
<1> HIDE DEF s2
<1>4. StateUpdate(s2) \in Update
    BY <1>3 DEF StateUpdate, Update, State
<1>5. rule.output # NoOutput => OutputUpdate(rule.output, s2) \in Update
    BY <1>2, <1>3 DEF OutputUpdate, Update, State, UrlOption
<1>6. Updates(rule, s2) \in Seq(Update)
    BY <1>4, <1>5 DEF Updates
<1> QED
    BY <1>3, <1>4, <1>5, <1>6 DEF s2

\* The invariant in parts, by who writes the variables.
MgrType == [ manager_status : StateTag \cup {"Zombie"},
             is_connection_initialized : BOOLEAN,
             is_manual_disconnect_requested : BOOLEAN,
             ws_join_handle : BOOLEAN ]

WsType == [ phase : {"none", "connecting", "running", "closing", "ended"},
            session : Session,
            to_ws : Seq(WsMessage), from_ws : Seq(WsUpdate), report : Seq(WsUpdate),
            writing : WsMessage \cup {None} ]

FsmPart ==
    /\ FsmTypeOK /\ AtMost(to_fsm, Backlog) /\ AtMost(from_fsm, Backlog)
    /\ fsm_pending \in Seq(Update)

CallerPart ==
    /\ command_rx \in Seq(CallerMessage) /\ AtMost(command_rx, Buffer)
    /\ output \in 0 .. OutputBuffer

HandlerPart == todo \in Seq(Operation) /\ mgr \in MgrType

InOrder(task) ==
    /\ AtMost(task.to_ws, Buffer) /\ AtMost(task.from_ws, Buffer)
    /\ task.writing # None => task.phase = "running"
    /\ task.phase = "connecting" => task.session = "idle" /\ task.report = <<>>

WsPart == ws \in WsType /\ InOrder(ws)

BurstPart == calls \in 0 .. MaxCalls /\ volumes \in 0 .. MaxVolumes

\* The parts are the whole.
LEMMA Parts ==
    TypeInv <=> FsmPart /\ CallerPart /\ HandlerPart /\ WsPart /\ BurstPart
<1>1. TypeInv => FsmPart /\ CallerPart /\ HandlerPart /\ WsPart /\ BurstPart
    BY DEF TypeInv, TypeOK, TaskInOrder, FsmPart, CallerPart, HandlerPart, WsPart, BurstPart,
           InOrder, MgrType, WsType, Session
<1>2. FsmPart /\ CallerPart /\ HandlerPart /\ WsPart /\ BurstPart => TypeInv
    BY DEF TypeInv, TypeOK, TaskInOrder, FsmPart, CallerPart, HandlerPart, WsPart, BurstPart,
           InOrder, MgrType, WsType, Session
<1> QED
    BY <1>1, <1>2

\* What a step leaves alone keeps its part.
LEMMA Frame ==
    ASSUME TypeInv
    PROVE  /\ UNCHANGED <<fsm_vars, fsm_pending>> => FsmPart'
           /\ UNCHANGED <<command_rx, output>> => CallerPart'
           /\ UNCHANGED <<todo, mgr>> => HandlerPart'
           /\ UNCHANGED ws => WsPart'
           /\ UNCHANGED <<calls, volumes>> => BurstPart'
<1>1. FsmPart /\ CallerPart /\ HandlerPart /\ WsPart /\ BurstPart
    BY Parts
<1>2. UNCHANGED <<fsm_vars, fsm_pending>> => FsmPart'
    BY <1>1 DEF FsmPart, FsmTypeOK, AtMost, fsm_vars
<1>3. UNCHANGED <<command_rx, output>> => CallerPart'
    BY <1>1 DEF CallerPart, AtMost
<1>4. UNCHANGED <<todo, mgr>> => HandlerPart'
    BY <1>1 DEF HandlerPart
<1>5. UNCHANGED ws => WsPart'
    BY <1>1 DEF WsPart
<1>6. UNCHANGED <<calls, volumes>> => BurstPart'
    BY <1>1 DEF BurstPart
<1> QED
    BY <1>2, <1>3, <1>4, <1>5, <1>6

\* And so they are after the step.
LEMMA PartsPrimed ==
    ASSUME FsmPart', CallerPart', HandlerPart', WsPart', BurstPart'
    PROVE  TypeInv'
BY DEF TypeInv, TypeOK, TaskInOrder, FsmPart, CallerPart, HandlerPart, WsPart, BurstPart,
       InOrder, MgrType, WsType, Session

\* A send into a channel with room.
LEMMA Appended ==
    ASSUME NEW S, NEW s \in Seq(S), NEW m \in S, NEW n \in Nat, Len(s) < n
    PROVE  Append(s, m) \in Seq(S) /\ AtMost(Append(s, m), n)
BY DEF AtMost

\* A message taken from a channel.
LEMMA Taken ==
    ASSUME NEW S, NEW s \in Seq(S), s # <<>>, NEW n \in Nat
    PROVE  /\ Head(s) \in S /\ Tail(s) \in Seq(S) /\ Len(Tail(s)) = Len(s) - 1
           /\ AtMost(s, n) => AtMost(Tail(s), n)
<1>1. Head(s) \in S /\ Tail(s) \in Seq(S) /\ Len(Tail(s)) = Len(s) - 1 /\ Len(s) \in Nat
    OBVIOUS
<1> QED
    BY <1>1 DEF AtMost

\* Every channel has room for one message at least.
LEMMA Capacities == Backlog \in Nat \ {0} /\ Buffer \in Nat \ {0} /\ OutputBuffer \in Nat \ {0}
BY TypesAssumption, BackpressureAssumption

\* The caller sends into command_rx only while there is room.
LEMMA CallType ==
    ASSUME TypeInv, Call
    PROVE  TypeInv'
<1>1. PICK message \in CallerMessage : command_rx' = Append(command_rx, message)
    BY DEF Call
<1>2. command_rx \in Seq(CallerMessage) /\ Len(command_rx) < Buffer /\ output' = output
      /\ output \in 0 .. OutputBuffer
    BY Parts DEF Call, HasRoom, CallerPart
<1>3. CallerPart'
    BY <1>1, <1>2, Appended, Capacities DEF CallerPart
<1>4. BurstPart'
    BY Parts, BackpressureAssumption DEF BurstPart, Call, CallsInBurst, VolumesInBurst
<1>5. UNCHANGED <<fsm_vars, fsm_pending, todo, mgr, ws>>
    BY DEF Call
<1> QED
    BY <1>3, <1>4, <1>5, Frame, PartsPrimed

\* The caller takes an output.
LEMMA CallerReadsType ==
    ASSUME TypeInv, CallerReads
    PROVE  TypeInv'
<1>1. CallerPart'
    BY Parts, Capacities DEF CallerPart, CallerReads, AtMost
<1>2. UNCHANGED <<fsm_vars, fsm_pending, todo, mgr, ws, calls, volumes>>
    BY DEF CallerReads
<1> QED
    BY <1>1, <1>2, Frame, PartsPrimed

\* The machine takes an Input and owes its updates.
LEMMA MachineTakesInputType ==
    ASSUME TypeInv, MachineTakesInput
    PROVE  TypeInv'
<1>1. FsmPart
    BY Parts
<1>2. Head(to_fsm) \in Input /\ Tail(to_fsm) \in Seq(Input) /\ AtMost(Tail(to_fsm), Backlog)
    BY <1>1, Taken, Capacities DEF FsmPart, FsmTypeOK, MachineTakesInput
<1>3. fsm_state' \in State /\ fsm_pending' \in Seq(Update)
    <2>1. CASE Applicable(fsm_state, Head(to_fsm)) = {}
        <3>1. ErrorUpdate(Head(to_fsm)) \in Update
            BY <1>2 DEF ErrorUpdate, Update, Input, InputTag, UrlOption
        <3>2. fsm_pending' = <<ErrorUpdate(Head(to_fsm))>> /\ fsm_state' = fsm_state
            BY <2>1 DEF MachineTakesInput
        <3>3. fsm_state \in State
            BY <1>1 DEF FsmPart, FsmTypeOK
        <3> QED
            BY <3>1, <3>2, <3>3
    <2>2. CASE Applicable(fsm_state, Head(to_fsm)) # {}
        <3>1. PICK rule \in Applicable(fsm_state, Head(to_fsm)) :
                  /\ fsm_state' = Target(rule, fsm_state, Head(to_fsm))
                  /\ fsm_pending' = Updates(rule, fsm_state')
            BY <2>2 DEF MachineTakesInput
        <3>2. fsm_state \in State
            BY <1>1 DEF FsmPart, FsmTypeOK
        <3> QED
            BY <1>2, <3>1, <3>2, RuleTypes
    <2> QED
        BY <2>1, <2>2
<1>4. FsmPart'
    BY <1>1, <1>2, <1>3 DEF FsmPart, FsmTypeOK, MachineTakesInput, AtMost
<1>5. UNCHANGED <<command_rx, output, todo, mgr, ws, calls, volumes>>
    BY DEF MachineTakesInput
<1> QED
    BY <1>4, <1>5, Frame, PartsPrimed

\* The machine sends an update into a channel with room.
LEMMA MachineSendsType ==
    ASSUME TypeInv, MachineSends
    PROVE  TypeInv'
<1>1. FsmPart
    BY Parts
<1>2. Head(fsm_pending) \in Update /\ Tail(fsm_pending) \in Seq(Update)
    BY <1>1, Taken, Capacities DEF FsmPart, MachineSends
<1>3. from_fsm' \in Seq(Update) /\ AtMost(from_fsm', Backlog)
    BY <1>1, <1>2, Appended, Capacities DEF FsmPart, FsmTypeOK, MachineSends, Room
<1>4. FsmPart'
    BY <1>1, <1>2, <1>3 DEF FsmPart, FsmTypeOK, MachineSends, AtMost
<1>5. UNCHANGED <<command_rx, output, todo, mgr, ws, calls, volumes>>
    BY DEF MachineSends
<1> QED
    BY <1>4, <1>5, Frame, PartsPrimed

\* The machine ends and drops its Inputs.
LEMMA MachineStopsType ==
    ASSUME TypeInv, MachineStops
    PROVE  TypeInv'
<1>1. FsmPart'
    <2>1. FsmPart
        BY Parts
    <2>2. /\ to_fsm' = <<>> /\ fsm_alive' = FALSE
          /\ UNCHANGED <<fsm_state, from_fsm, fsm_cancelled, fsm_pending>>
        BY DEF MachineStops, FsmShutDown
    <2>3. <<>> \in Seq(Input) /\ AtMost(<<>>, Backlog)
        BY Capacities DEF AtMost
    <2> QED
        BY <2>1, <2>2, <2>3 DEF FsmPart, FsmTypeOK, AtMost
<1>2. UNCHANGED <<command_rx, output, todo, mgr, ws, calls, volumes>>
    BY DEF MachineStops
<1> QED
    BY <1>1, <1>2, Frame, PartsPrimed

\* The manager takes a ManagerMessage.
LEMMA FromCallerType ==
    ASSUME TypeInv, FromCaller
    PROVE  TypeInv'
<1>1. FsmPart /\ CallerPart /\ HandlerPart
    BY Parts
<1>2. Head(command_rx) \in CallerMessage /\ Tail(command_rx) \in Seq(CallerMessage)
      /\ AtMost(Tail(command_rx), Buffer)
    BY <1>1, Taken, Capacities DEF CallerPart, FromCaller
<1>3. CallerPart'
    BY <1>1, <1>2 DEF CallerPart, FromCaller, Handle, AtMost
<1>4. CommandOps(Head(command_rx)) \in Seq(Operation)
    BY <1>2, CommandIsOperations
<1>5. HandlerPart'
    BY <1>1, <1>4 DEF HandlerPart, MgrType, FromCaller, Handle
<1>6. FsmPart'
    BY <1>1 DEF FsmPart, FsmTypeOK, FromCaller, Handle, AtMost
<1>7. UNCHANGED <<ws, calls, volumes>>
    BY DEF FromCaller, Handle
<1> QED
    BY <1>3, <1>5, <1>6, <1>7, Frame, PartsPrimed

\* The manager takes an update of the machine; an output may start a task.
LEMMA FromStateMachineType ==
    ASSUME TypeInv, FromStateMachine
    PROVE  TypeInv'
<1>1. FsmPart /\ HandlerPart /\ WsPart
    BY Parts
<1>2. Head(from_fsm) \in Update /\ Tail(from_fsm) \in Seq(Update)
      /\ AtMost(Tail(from_fsm), Backlog)
    BY <1>1, Taken, Capacities DEF FsmPart, FsmTypeOK, FromStateMachine
<1>3. UNCHANGED <<fsm_pending, output, calls, volumes, fsm_state, to_fsm, fsm_alive,
                  fsm_cancelled, command_rx>>
    BY DEF FromStateMachine, NewState, NewOutput, TransitionError, Handle
<1>4. FsmPart'
    BY <1>1, <1>2, <1>3 DEF FsmPart, FsmTypeOK, FromStateMachine, AtMost
<1>5. HandlerPart' /\ WsPart'
    <2>1. CASE NewState
        <3>1. Head(from_fsm).tag \in StateTag
            BY <1>2, <2>1 DEF NewState, Update, StateTag
        <3>2. HandlerPart'
            BY <1>1, <2>1, <3>1, StatusIsOperations DEF HandlerPart, MgrType, NewState, Handle
        <3> QED
            BY <2>1, <3>2, Frame DEF NewState
    <2>2. CASE NewOutput
        <3>1. Head(from_fsm).tag \in OutputTag
            BY <1>2, <2>2 DEF NewOutput, Update
        <3>2. HandlerPart'
            BY <1>1, <2>2, <3>1, OutputIsOperations DEF HandlerPart, MgrType, NewOutput, Handle
        <3>3. CASE Head(from_fsm).tag = "ConnectToTv"
            <4>1. ws' = [NoTask EXCEPT !.phase = "connecting"]
                BY <2>2, <3>3 DEF NewOutput
            <4>2. ws' = [phase |-> "connecting", session |-> "idle", to_ws |-> <<>>,
                         from_ws |-> <<>>, report |-> <<>>, writing |-> None]
                BY <4>1 DEF NoTask
            <4>3. AtMost(<<>>, Buffer)
                BY Capacities DEF AtMost
            <4>4. ws' \in WsType
                BY <4>2 DEF WsType, Session
            <4>5. WsPart'
                BY <4>2, <4>3, <4>4 DEF WsPart, InOrder, AtMost
            <4> QED
                BY <3>2, <4>5
        <3>4. CASE Head(from_fsm).tag # "ConnectToTv"
            BY <2>2, <3>2, <3>4, Frame DEF NewOutput
        <3> QED
            BY <3>3, <3>4
    <2>3. CASE TransitionError
        <3>1. <<Out>> \in Seq(Operation)
            BY Operations
        <3>2. HandlerPart'
            BY <1>1, <2>3, <3>1 DEF HandlerPart, TransitionError, Handle
        <3> QED
            BY <2>3, <3>2, Frame DEF TransitionError
    <2> QED
        BY <2>1, <2>2, <2>3 DEF FromStateMachine
<1> QED
    BY <1>3, <1>4, <1>5, Frame, PartsPrimed

\* The manager takes a report of the task.
LEMMA FromWebSocketType ==
    ASSUME TypeInv, FromWebSocket
    PROVE  TypeInv'
<1>1. HandlerPart /\ WsPart
    BY Parts
<1>2. Head(ws.from_ws) \in WsUpdate /\ Tail(ws.from_ws) \in Seq(WsUpdate)
      /\ AtMost(Tail(ws.from_ws), Buffer)
    BY <1>1, Taken, Capacities DEF WsPart, WsType, InOrder, FromWebSocket
<1>3. UpdateOps(Head(ws.from_ws)) \in Seq(Operation)
    BY <1>2, UpdateIsOperations
<1>4. HandlerPart'
    BY <1>1, <1>3 DEF HandlerPart, MgrType, FromWebSocket, Handle
<1>5. WsPart'
    BY <1>1, <1>2 DEF WsPart, WsType, InOrder, FromWebSocket
<1>6. UNCHANGED <<fsm_vars, fsm_pending, command_rx, output, calls, volumes>>
    BY DEF FromWebSocket, Handle
<1> QED
    BY <1>4, <1>5, <1>6, Frame, PartsPrimed

-----------------------------------------------------------------------------

\* What is left in a handler, and what the manager's next operation is.
LEMMA NextOperation ==
    ASSUME TypeInv, NEW op, IsNext(op)
    PROVE  /\ todo # <<>> /\ Head(todo) \in Operation /\ Head(todo).op = op
           /\ Tail(todo) \in Seq(Operation)
BY Parts DEF HandlerPart, IsNext

\* The operations that go on with the handler keep every other part.
LEMMA ContinueType ==
    ASSUME TypeInv, NEW op, IsNext(op), NEW ops \in Seq(Operation), Continue(ops),
           mgr' \in MgrType,
           AtMost(to_fsm', Backlog) /\ to_fsm' \in Seq(Input),
           output' \in 0 .. OutputBuffer,
           WsPart'
    PROVE  TypeInv'
<1>1. FsmPart /\ CallerPart
    BY Parts
<1>2. ops \o Tail(todo) \in Seq(Operation)
    BY NextOperation
<1>3. HandlerPart'
    BY <1>2 DEF HandlerPart, Continue
<1>4. FsmPart'
    BY <1>1 DEF FsmPart, FsmTypeOK, Continue, AtMost
<1>5. CallerPart'
    BY <1>1 DEF CallerPart, Continue, AtMost
<1>6. UNCHANGED <<calls, volumes>>
    BY DEF Continue
<1> QED
    BY <1>3, <1>4, <1>5, <1>6, Frame, PartsPrimed

\* What an operation leaves alone keeps its type.
LEMMA Kept ==
    ASSUME TypeInv
    PROVE  /\ <<>> \in Seq(Operation)
           /\ UNCHANGED mgr => mgr' \in MgrType
           /\ UNCHANGED to_fsm => AtMost(to_fsm', Backlog) /\ to_fsm' \in Seq(Input)
           /\ UNCHANGED output => output' \in 0 .. OutputBuffer
           /\ UNCHANGED ws => WsPart'
BY Parts, Frame DEF HandlerPart, FsmPart, FsmTypeOK, CallerPart, AtMost

\* An output is sent only while there is room.
LEMMA SendOutType ==
    ASSUME TypeInv, SendOut
    PROVE  TypeInv'
<1>1. output' \in 0 .. OutputBuffer
    BY Parts, Capacities DEF SendOut, CallerPart
<1>2. IsNext("out") /\ Continue(<<>>) /\ UNCHANGED <<to_fsm, mgr, ws>>
    BY DEF SendOut
<1> QED
    BY <1>1, <1>2, Kept, ContinueType

\* An Input is sent to a machine that lives, into a channel with room.
LEMMA SendToFsmType ==
    ASSUME TypeInv, SendToFsm
    PROVE  TypeInv'
<1>1. IsNext("fsm") /\ UNCHANGED <<output, ws>>
    BY DEF SendToFsm
<1>2. CASE fsm_alive
    <2>1. Room(to_fsm) /\ to_fsm' = Append(to_fsm, Head(todo).arg) /\ Continue(<<>>)
          /\ UNCHANGED mgr
        BY <1>2 DEF SendToFsm
    <2>2. Head(todo).arg \in Input
        <3>1. Head(todo) \in Operation /\ Head(todo).op = "fsm"
            BY <1>1, NextOperation
        <3> QED
            BY <3>1 DEF Operation, Stopped, Stop, Op
    <2>3. to_fsm \in Seq(Input)
        BY Parts DEF FsmPart, FsmTypeOK
    <2>4. AtMost(to_fsm', Backlog) /\ to_fsm' \in Seq(Input)
        BY <2>1, <2>2, <2>3, Appended, Capacities DEF Room
    <2> QED
        BY <1>1, <2>1, <2>4, Kept, ContinueType
<1>3. CASE ~fsm_alive
    <2>1. mgr' = [mgr EXCEPT !.manager_status = "Zombie"] /\ Continue(<<Out, Out>>)
          /\ UNCHANGED to_fsm
        BY <1>3 DEF SendToFsm
    <2>2. mgr' \in MgrType
        BY <2>1, Parts DEF HandlerPart, MgrType
    <2>3. <<Out, Out>> \in Seq(Operation)
        BY Operations
    <2> QED
        BY <1>1, <2>1, <2>2, <2>3, Kept, ContinueType
<1> QED
    BY <1>2, <1>3

\* A message is sent to a task that is there, into a channel with room.
LEMMA SendToOpenWsType ==
    ASSUME TypeInv, NEW message \in WsMessage, SendToOpenWs(message)
    PROVE  WsPart'
<1>1. WsPart
    BY Parts
<1>2. ws.to_ws \in Seq(WsMessage)
    BY <1>1 DEF WsPart, WsType
<1>3. Append(ws.to_ws, message) \in Seq(WsMessage) /\ AtMost(Append(ws.to_ws, message), Buffer)
    BY <1>2, Appended, Capacities DEF SendToOpenWs, HasRoom
<1>4. ws' = [ws EXCEPT !.to_ws = Append(ws.to_ws, message)]
    BY DEF SendToOpenWs
<1> QED
    BY <1>1, <1>3, <1>4 DEF WsPart, WsType, InOrder

\* A send to a task that has gone puts the reset in front of the handler.
LEMMA SendToWsType ==
    ASSUME TypeInv, SendToWs
    PROVE  TypeInv'
<1>1. IsNext("ws") /\ UNCHANGED <<output, to_fsm, mgr>>
    BY DEF SendToWs
<1>2. CASE SendToOpenWs(Head(todo).arg)
    <2>1. Head(todo).arg \in WsMessage
        <3>1. Head(todo) \in Operation /\ Head(todo).op = "ws"
            BY <1>1, NextOperation
        <3> QED
            BY <3>1 DEF Operation, Stopped, Stop, Op
    <2>2. WsPart'
        BY <1>2, <2>1, SendToOpenWsType
    <2>3. Continue(<<>>)
        BY <1>2 DEF SendToOpenWs
    <2> QED
        BY <1>1, <2>2, <2>3, Kept, ContinueType
<1>3. CASE UNCHANGED ws /\ Continue(IF ws.phase = "none" THEN <<>> ELSE ResetOps)
    <2>1. (IF ws.phase = "none" THEN <<>> ELSE ResetOps) \in Seq(Operation)
        BY Kept, ListsAreOperations
    <2> QED
        BY <1>1, <1>3, <2>1, Kept, ContinueType
<1> QED
    BY <1>2, <1>3 DEF SendToWs

\* The ShutDown of a reset.
LEMMA TellWsToShutDownType ==
    ASSUME TypeInv, TellWsToShutDown
    PROVE  TypeInv'
<1>1. IsNext("tell") /\ UNCHANGED <<output, to_fsm, mgr>> /\ Continue(<<>>)
    BY DEF TellWsToShutDown, SendToOpenWs
<1>2. CASE SendToOpenWs("ShutDown")
    <2>1. "ShutDown" \in WsMessage
        BY DEF WsMessage
    <2>2. WsPart'
        BY <1>2, <2>1, SendToOpenWsType
    <2> QED
        BY <1>1, <2>2, Kept, ContinueType
<1>3. CASE UNCHANGED ws
    BY <1>1, <1>3, Kept, ContinueType
<1> QED
    BY <1>2, <1>3 DEF TellWsToShutDown

\* The ShutDown of a connection that has a join handle.
LEMMA DisconnectFromTvType ==
    ASSUME TypeInv, DisconnectFromTv
    PROVE  TypeInv'
<1>1. IsNext("shut_down") /\ UNCHANGED <<output, to_fsm, mgr, ws>>
      /\ Continue(IF mgr.ws_join_handle THEN <<Ws("ShutDown")>> ELSE <<>>)
    BY DEF DisconnectFromTv
<1>2. <<Ws("ShutDown")>> \in Seq(Operation)
    BY Operations DEF WsMessage
<1>3. (IF mgr.ws_join_handle THEN <<Ws("ShutDown")>> ELSE <<>>) \in Seq(Operation)
    BY <1>2, Kept
<1> QED
    BY <1>1, <1>3, Kept, ContinueType

\* The manager has joined the task.
LEMMA JoinWsType ==
    ASSUME TypeInv, JoinWs
    PROVE  TypeInv'
<1>1. IsNext("join") /\ UNCHANGED <<output, to_fsm, ws>> /\ Continue(<<>>)
    BY DEF JoinWs
<1>2. mgr' \in MgrType
    BY Parts DEF HandlerPart, MgrType, JoinWs
<1> QED
    BY <1>1, <1>2, Kept, ContinueType

\* The manager has seen the machine end.
LEMMA AwaitMachineType ==
    ASSUME TypeInv, AwaitMachine
    PROVE  TypeInv'
<1>1. IsNext("stopped") /\ UNCHANGED <<output, to_fsm, mgr, ws>> /\ Continue(<<>>)
    BY DEF AwaitMachine
<1> QED
    BY <1>1, Kept, ContinueType

-----------------------------------------------------------------------------

\* A step of the task or the TV leads to another task of the type.
LEMMA BecomesType ==
    ASSUME TypeInv, NEW task \in WsType, InOrder(task), Becomes(task), UNCHANGED volumes
    PROVE  TypeInv'
<1>1. WsPart'
    BY DEF Becomes, WsPart, InOrder, AtMost
<1>2. UNCHANGED <<fsm_vars, fsm_pending, command_rx, output, todo, mgr, calls, volumes>>
    BY DEF Becomes
<1> QED
    BY <1>1, <1>2, Frame, PartsPrimed

\* The task reports into a channel with room.
LEMMA WsReportsType ==
    ASSUME TypeInv, WsReports
    PROVE  TypeInv'
<1> DEFINE task == [ws EXCEPT !.from_ws = Append(@, Head(ws.report)), !.report = Tail(@)]
<1>1. ws \in WsType /\ InOrder(ws)
    BY Parts DEF WsPart
<1>2. Head(ws.report) \in WsUpdate /\ Tail(ws.report) \in Seq(WsUpdate)
    BY <1>1 DEF WsType, WsReports
<1>3. Append(ws.from_ws, Head(ws.report)) \in Seq(WsUpdate)
      /\ AtMost(Append(ws.from_ws, Head(ws.report)), Buffer)
    BY <1>1, <1>2, Appended, Capacities DEF WsType, WsReports, HasRoom
<1>4. task \in WsType
    BY <1>1, <1>2, <1>3 DEF WsType
<1>5. InOrder(task)
    BY <1>1, <1>3 DEF WsType, InOrder, WsReports
<1>6. Becomes(task) /\ UNCHANGED volumes
    BY DEF WsReports
<1> HIDE DEF task
<1> QED
    BY <1>4, <1>5, <1>6, BecomesType

\* A task that runs takes a message to write.
LEMMA WsWritesType ==
    ASSUME TypeInv, WsWrites
    PROVE  TypeInv'
<1> DEFINE task == [ws EXCEPT !.writing = Head(ws.to_ws), !.to_ws = Tail(@)]
<1>1. ws \in WsType /\ InOrder(ws)
    BY Parts DEF WsPart
<1>2. Head(ws.to_ws) \in WsMessage /\ Tail(ws.to_ws) \in Seq(WsMessage)
      /\ AtMost(Tail(ws.to_ws), Buffer)
    BY <1>1, Taken, Capacities DEF WsType, WsWrites, InOrder
<1>3. task \in WsType
    BY <1>1, <1>2 DEF WsType
<1>4. InOrder(task)
    BY <1>1, <1>2 DEF WsType, InOrder, WsWrites
<1>5. Becomes(task) /\ UNCHANGED volumes
    BY DEF WsWrites
<1> HIDE DEF task
<1> QED
    BY <1>3, <1>4, <1>5, BecomesType

\* The task ends and drops what it was sent.
LEMMA WsEndsType ==
    ASSUME TypeInv, WsEnds
    PROVE  TypeInv'
<1> DEFINE task == [ws EXCEPT !.phase = "ended", !.to_ws = <<>>]
<1>1. ws \in WsType /\ InOrder(ws)
    BY Parts DEF WsPart
<1>2. AtMost(<<>>, Buffer) /\ <<>> \in Seq(WsMessage)
    BY Capacities DEF AtMost
<1>3. task \in WsType
    BY <1>1, <1>2 DEF WsType
<1>4. InOrder(task)
    BY <1>1, <1>2 DEF WsType, InOrder, WsEnds, IsFree
<1>5. Becomes(task) /\ UNCHANGED volumes
    BY DEF WsEnds
<1> HIDE DEF task
<1> QED
    BY <1>3, <1>4, <1>5, BecomesType

\* The task has its connection, or an error.
LEMMA WsConnectsType ==
    ASSUME TypeInv, WsConnects
    PROVE  TypeInv'
<1>1. ws \in WsType /\ InOrder(ws) /\ ws.phase = "connecting" /\ UNCHANGED volumes
    BY Parts DEF WsPart, WsConnects
<1>2. <<"Connected">> \in Seq(WsUpdate) /\ <<"ConnectError">> \in Seq(WsUpdate)
    BY DEF WsUpdate
<1>3. ASSUME NEW phase \in {"running", "closing"}, NEW report \in Seq(WsUpdate),
             Becomes([ws EXCEPT !.phase = phase, !.report = report])
      PROVE  TypeInv'
    <2> DEFINE task == [ws EXCEPT !.phase = phase, !.report = report]
    <2>1. task \in WsType
        BY <1>1 DEF WsType
    <2>2. InOrder(task)
        BY <1>1 DEF WsType, InOrder
    <2>3. Becomes(task)
        BY <1>3
    <2> HIDE DEF task
    <2> QED
        BY <1>1, <2>1, <2>2, <2>3, BecomesType
<1> QED
    BY <1>2, <1>3 DEF WsConnects

\* The TV reads what is written; only a task that runs was writing.
LEMMA TvReadsType ==
    ASSUME TypeInv, TvReads
    PROVE  TypeInv'
<1>1. ws \in WsType /\ InOrder(ws) /\ ws.writing \in WsMessage /\ UNCHANGED volumes
    BY Parts DEF WsPart, WsType, TvReads
<1>2. <<"Disconnected">> \in Seq(WsUpdate)
    BY DEF WsUpdate
<1>3. PICK task : /\ Becomes(task)
                  /\ \/ task = [ws EXCEPT !.writing = None, !.phase = "closing",
                                          !.report = <<"Disconnected">>]
                     \/ task = [ws EXCEPT !.writing = None, !.session = "registering"]
                     \/ task = [ws EXCEPT !.writing = None, !.session = "subscribed"]
                     \/ task = [ws EXCEPT !.writing = None]
    <2>1. CASE ws.writing = "ShutDown"
        BY <2>1 DEF TvReads
    <2>2. CASE ws.writing = "Register"
        BY <2>2 DEF TvReads
    <2>3. CASE ws.writing = "Initialize"
        BY <2>3 DEF TvReads
    <2>4. CASE ws.writing = "Command"
        BY <2>4 DEF TvReads
    <2> QED
        BY <1>1, <2>1, <2>2, <2>3, <2>4 DEF WsMessage
<1>4. task \in WsType
    BY <1>1, <1>2, <1>3 DEF WsType, Session
<1>5. ws.phase = "running"
    BY <1>1, BackpressureAssumption DEF InOrder
<1>6. InOrder(task)
    BY <1>1, <1>3, <1>5 DEF WsType, InOrder
<1> QED
    BY <1>1, <1>3, <1>4, <1>6, BecomesType

\* The TV answers a registration, or prompts its user.
LEMMA TvRegistersType ==
    ASSUME TypeInv, TvRegisters
    PROVE  TypeInv'
<1>1. ws \in WsType /\ InOrder(ws) /\ ws.phase = "running" /\ UNCHANGED volumes
    BY Parts DEF WsPart, TvRegisters
<1>2. PICK answer \in {"Registered", "Pair"} :
          Becomes([ws EXCEPT !.report = <<answer>>,
                             !.session = IF answer = "Pair" THEN "prompting" ELSE "registered"])
    BY DEF TvRegisters
<1> DEFINE task == [ws EXCEPT !.report = <<answer>>,
                              !.session = IF answer = "Pair" THEN "prompting" ELSE "registered"]
<1>3. <<answer>> \in Seq(WsUpdate)
    BY DEF WsUpdate
<1>4. task \in WsType
    BY <1>1, <1>3 DEF WsType, Session
<1>5. InOrder(task)
    BY <1>1 DEF WsType, InOrder
<1>6. Becomes(task)
    BY <1>2
<1> HIDE DEF task
<1> QED
    BY <1>1, <1>4, <1>5, <1>6, BecomesType

\* The TV sends a volume payload.
LEMMA TvSendsVolumeType ==
    ASSUME TypeInv, TvSendsVolume
    PROVE  TypeInv'
<1>1. ws \in WsType /\ InOrder(ws) /\ ws.phase = "running"
    BY Parts DEF WsPart, TvSendsVolume
<1>2. ws' = [ws EXCEPT !.report = <<"Volume">>] /\ <<"Volume">> \in Seq(WsUpdate)
    BY DEF TvSendsVolume, WsUpdate
<1>3. WsPart'
    BY <1>1, <1>2 DEF WsPart, WsType, InOrder
<1>4. BurstPart'
    BY Parts, BackpressureAssumption DEF BurstPart, TvSendsVolume, CallsInBurst, VolumesInBurst
<1>5. UNCHANGED <<fsm_vars, fsm_pending, command_rx, output, todo, mgr>>
    BY DEF TvSendsVolume
<1> QED
    BY <1>3, <1>4, <1>5, Frame, PartsPrimed

\* The TV closes the connection.
LEMMA TvClosesType ==
    ASSUME TypeInv, TvCloses
    PROVE  TypeInv'
<1> DEFINE task == [ws EXCEPT !.phase = "closing",
                              !.report = <<"ServerClosedConnection", "Disconnected">>]
<1>1. ws \in WsType /\ InOrder(ws) /\ ws.phase = "running" /\ IsFree
    BY Parts DEF WsPart, TvCloses
<1>2. <<"ServerClosedConnection", "Disconnected">> \in Seq(WsUpdate)
    BY DEF WsUpdate
<1>3. task \in WsType
    BY <1>1, <1>2 DEF WsType
<1>4. InOrder(task)
    BY <1>1 DEF WsType, InOrder, IsFree
<1>5. Becomes(task) /\ UNCHANGED volumes
    BY DEF TvCloses
<1> HIDE DEF task
<1> QED
    BY <1>3, <1>4, <1>5, BecomesType

-----------------------------------------------------------------------------

\* Initially every channel is empty.
LEMMA InitType == Init => TypeInv
<1> SUFFICES ASSUME Init PROVE TypeInv
    OBVIOUS
<1>1. FsmPart
    <2>1. /\ <<>> \in Seq(Input) /\ <<>> \in Seq(Update)
          /\ AtMost(<<>>, Backlog)
        BY Capacities DEF AtMost
    <2>2. Disconnected \in State
        BY DEF State, Disconnected
    <2> QED
        BY <2>1, <2>2 DEF Init, FsmInit, FsmPart, FsmTypeOK
<1>2. CallerPart
    BY Capacities DEF Init, CallerPart, AtMost
<1>3. HandlerPart
    BY DEF Init, HandlerPart, MgrType, StateTag
<1>4. WsPart
    <2>1. ws = [phase |-> "none", session |-> "idle", to_ws |-> <<>>, from_ws |-> <<>>,
                report |-> <<>>, writing |-> None]
        BY DEF Init, NoTask
    <2>2. AtMost(<<>>, Buffer)
        BY Capacities DEF AtMost
    <2>3. ws \in WsType
        BY <2>1 DEF WsType, Session
    <2> QED
        BY <2>1, <2>2, <2>3 DEF WsPart, InOrder
<1>5. BurstPart
    BY BackpressureAssumption DEF Init, BurstPart
<1> QED
    BY <1>1, <1>2, <1>3, <1>4, <1>5, Parts

\* A step of none of the tasks.
LEMMA StutterType ==
    ASSUME TypeInv, UNCHANGED bp_vars
    PROVE  TypeInv'
BY Frame, PartsPrimed DEF bp_vars, fsm_vars

\* Every step keeps the types.
LEMMA NextType ==
    ASSUME TypeInv, [Next]_bp_vars
    PROVE  TypeInv'
<1>1. CASE Machine
    BY <1>1, MachineTakesInputType, MachineSendsType, MachineStopsType DEF Machine
<1>2. CASE Select
    BY <1>2, FromCallerType, FromStateMachineType, FromWebSocketType DEF Select
<1>3. CASE WorkOff
    BY <1>3, SendOutType, SendToFsmType, SendToWsType, TellWsToShutDownType,
       DisconnectFromTvType, JoinWsType, AwaitMachineType DEF WorkOff
<1>4. CASE WsTask
    BY <1>4, WsReportsType, WsWritesType, WsEndsType, WsConnectsType DEF WsTask
<1>5. CASE Tv
    BY <1>5, TvReadsType, TvRegistersType, TvSendsVolumeType, TvClosesType DEF Tv
<1>6. CASE UNCHANGED bp_vars
    BY <1>6, StutterType
<1> QED
    BY <1>1, <1>2, <1>3, <1>4, <1>5, <1>6, CallType, CallerReadsType DEF Next

\* The channels of the manager, the machine and the task hold what they are for
\* and never more than they have room for; a task writes only while it runs, and
\* has nothing to report before it is connected.
THEOREM TypesHold == Spec => []TypeInv
<1>1. TypeInv /\ [Next]_bp_vars => TypeInv'
    BY NextType
<1> QED
    BY <1>1, InitType, PTL DEF Spec

\* The type invariant of the bounded channels: each send of the code waits for
\* room, so no channel ever holds more than its capacity, whoever sends when.
THEOREM ChannelsInBounds == Spec => []TypeOK
<1>1. TypeInv => TypeOK
    BY DEF TypeInv
<1> QED
    BY <1>1, TypesHold, PTL
-----------------------------------------------------------------------------
(* Tariffs.  A tariff covers the steps when each thing is charged for all  *)
(* that comes of it.                                                       *)

Tariff ==
    [ call : [ManagerMessage -> Nat],   \* a message in command_rx
      input : [InputTag -> Nat],        \* an Input on its way to the machine
      note : Nat,                       \* a State or a TransitionError
      output : [OutputTag -> Nat],      \* an Output
      ask : [WsMessage -> Nat],         \* a message the handler is to send the task
      asked : [WsMessage -> Nat],       \* one the task has not dealt with
      report : [WsUpdate -> Nat],       \* a report of the task
      connection : Nat,                 \* a task that connects
      open : Nat,                       \* a task that runs
      session : [Session -> Nat],       \* and what its TV may still answer
      base : Nat, each : Nat ]          \* the allowance, and that of each call

CallLoad(w) == [message \in CallerMessage |-> w.call[message]]

InputLoad(w) == [input \in Input |-> w.input[input.tag]]

UpdateLoad(w) ==
    [update \in Update |-> IF update.kind = "Output" THEN w.output[update.tag] ELSE w.note]

OpLoad(w) ==
    [o \in Operation |-> IF o.op = "fsm" THEN w.input[o.arg.tag]
                         ELSE IF o.op = "ws" THEN w.ask[o.arg]
                         ELSE IF o.op = "shut_down" THEN w.ask["ShutDown"]
                         ELSE 0]

TaskLoad(w, task) ==
    (IF task.phase = "connecting" THEN w.connection
     ELSE IF task.phase = "running" THEN w.open + w.session[task.session]
     ELSE 0)
    + (IF task.writing = None THEN 0 ELSE w.asked[task.writing])

\* What an Input is charged covers what the machine reports for it.
MachineCovered(w) ==
    /\ \A rule \in Rules :
           w.input[rule.input] >= w.note + (IF rule.output = NoOutput THEN 0
                                            ELSE w.output[rule.output])
    /\ \A tag \in InputTag : w.input[tag] >= w.note

\* What a message is charged covers the operations of its handler.
HandlersCovered(w) ==
    /\ w.call["Connect"] >= w.input["Connect"]
    /\ w.call["Disconnect"] >= w.input["Disconnect"]
    /\ w.call["SendTvCommand"] >= w.input["SendCommand"]
    /\ w.call["ShutDown"] >= w.ask["ShutDown"]
    /\ w.output["ConnectToTv"] >= w.connection
    /\ w.output["SendRegisterPayload"] >= w.ask["Register"]
    /\ w.ask["Initialize"] \in {0, 1}
    /\ w.ask["Initialize"] = 1 => w.output["InitializeConnection"] >= Requests
    /\ w.output["SendCommand"] >= w.ask["Command"]
    /\ w.output["DisconnectFromTv"] >= w.ask["ShutDown"]
    /\ w.output["HandleConnectError"] >= w.input["Reset"]
    /\ w.report["Connected"] >= w.input["AttemptRegister"]
    /\ w.report["Disconnected"] >= w.input["DisconnectionComplete"]
    /\ w.report["ConnectError"] >= w.input["Error"]
    /\ w.report["ServerClosedConnection"] >= w.input["Error"]
    /\ w.report["Pair"] >= w.input["Pair"]
    /\ w.report["Registered"] >= w.input["Initialize"]
    /\ w.report["Volume"] >= w.input["StartCommunication"]
    /\ \A message \in WsMessage :
           w.ask[message] >= w.asked[message] /\ w.ask[message] >= w.input["Reset"]
    /\ w.asked["ShutDown"] = 0

\* What a task is charged covers what it and the TV still report.
TaskCovered(w) ==
    /\ w.connection >= w.open + w.session["idle"] + w.report["Connected"]
    /\ w.connection >= w.report["ConnectError"]
    /\ w.open >= w.report["ServerClosedConnection"] + w.report["Disconnected"]
    /\ w.asked["Register"] >= w.session["registering"]
    /\ w.session["registering"] >= w.report["Pair"] + w.session["prompting"]
    /\ w.session["registering"] >= w.report["Registered"] + w.session["registered"]
    /\ w.session["prompting"] >= w.report["Registered"] + w.session["registered"]
    /\ w.session["subscribed"] = 0
    /\ w.report["Volume"] = 1

\* A rest fits the allowance, and so does every call that ends it.
CallerCovered(w) ==
    /\ \A session \in Session : w.open + w.session[session] <= w.base
    /\ w.call["Connect"] <= w.base + w.each
    /\ \A message \in ManagerMessage :
           ~(Patient /\ message = "Connect") => w.call[message] <= w.each

Covers(w) ==
    w \in Tariff /\ MachineCovered(w) /\ HandlersCovered(w) /\ TaskCovered(w) /\ CallerCovered(w)

\* A tariff charges every message of every channel.
LEMMA LoadTypes ==
    ASSUME NEW w \in Tariff
    PROVE  /\ CallLoad(w) \in [CallerMessage -> Nat]
           /\ InputLoad(w) \in [Input -> Nat]
           /\ UpdateLoad(w) \in [Update -> Nat]
           /\ OpLoad(w) \in [Operation -> Nat]
           /\ w.asked \in [WsMessage -> Nat]
           /\ w.report \in [WsUpdate -> Nat]
<1>1. CallLoad(w) \in [CallerMessage -> Nat]
    BY BackpressureAssumption DEF CallLoad, Tariff
<1>2. InputLoad(w) \in [Input -> Nat]
    BY DEF InputLoad, Tariff, Input, InputTag
<1>3. UpdateLoad(w) \in [Update -> Nat]
    BY DEF UpdateLoad, Tariff, Update
<1>4. OpLoad(w) \in [Operation -> Nat]
    <2>1. ASSUME NEW o \in Operation
          PROVE  (IF o.op = "fsm" THEN w.input[o.arg.tag]
                  ELSE IF o.op = "ws" THEN w.ask[o.arg]
                  ELSE IF o.op = "shut_down" THEN w.ask["ShutDown"]
                  ELSE 0) \in Nat
        <3>1. o.op = "fsm" => o.arg.tag \in InputTag
            BY DEF Operation, Op, Stopped, Stop, Input, InputTag
        <3>2. o.op = "ws" => o.arg \in WsMessage
            BY DEF Operation, Op, Stopped, Stop
        <3> QED
            BY <3>1, <3>2 DEF Tariff, WsMessage
    <2> QED
        BY <2>1 DEF OpLoad
<1>5. w.asked \in [WsMessage -> Nat] /\ w.report \in [WsUpdate -> Nat]
    BY DEF Tariff
<1> QED
    BY <1>1, <1>2, <1>3, <1>4, <1>5

\* Only the operations that send a message are charged for.
LEMMA OperationLoads ==
    ASSUME NEW w
    PROVE  /\ OpLoad(w)[Out] = 0 /\ OpLoad(w)[TellShutDown] = 0 /\ OpLoad(w)[Join] = 0
           /\ OpLoad(w)[ShutDownWs] = w.ask["ShutDown"]
           /\ \A input \in Input : OpLoad(w)[Fsm(input)] = w.input[input.tag]
           /\ \A message \in WsMessage : OpLoad(w)[Ws(message)] = w.ask[message]
           /\ "ShutDown" \in CallerMessage => OpLoad(w)[Stopped] = 0 /\ OpLoad(w)[Stop] = 0
<1>1. OpLoad(w)[Out] = 0 /\ OpLoad(w)[TellShutDown] = 0 /\ OpLoad(w)[Join] = 0
      /\ OpLoad(w)[ShutDownWs] = w.ask["ShutDown"]
    BY Operations DEF OpLoad, Out, TellShutDown, Join, ShutDownWs, Op
<1>2. \A input \in Input : OpLoad(w)[Fsm(input)] = w.input[input.tag]
    BY Operations DEF OpLoad, Fsm, Op
<1>3. \A message \in WsMessage : OpLoad(w)[Ws(message)] = w.ask[message]
    BY Operations DEF OpLoad, Ws, Op
<1>4. "ShutDown" \in CallerMessage => OpLoad(w)[Stopped] = 0 /\ OpLoad(w)[Stop] = 0
    BY Operations DEF OpLoad, Stopped, Stop, Op
<1> QED
    BY <1>1, <1>2, <1>3, <1>4

\* A list of operations that is charged no more than n.
Costs(ops, w, n) ==
    ops \in Seq(Operation) /\ \E m \in Nat : m <= n /\ Weighs(ops, OpLoad(w), m)

\* No operations cost nothing.
LEMMA CostsNothing ==
    ASSUME NEW w
    PROVE  Costs(<<>>, w, 0)
<1>1. <<>> \in Seq(Operation)
    OBVIOUS
<1> QED
    BY <1>1, EmptyWeighs DEF Costs

\* One operation.
LEMMA CostsOne ==
    ASSUME NEW w \in Tariff, NEW o \in Operation, NEW n \in Nat, OpLoad(w)[o] <= n
    PROVE  Costs(<<o>>, w, n)
<1>1. <<o>> \in Seq(Operation) /\ OpLoad(w)[o] \in Nat
    BY LoadTypes
<1>2. Weighs(<<o>>, OpLoad(w), OpLoad(w)[o])
    BY LoadTypes, OneWeighs
<1> QED
    BY <1>1, <1>2 DEF Costs

\* One list after the other.
LEMMA CostsBoth ==
    ASSUME NEW w \in Tariff, NEW s, NEW t, NEW n \in Nat, NEW m \in Nat,
           Costs(s, w, n), Costs(t, w, m)
    PROVE  Costs(s \o t, w, n + m)
<1>1. PICK k \in Nat : k <= n /\ Weighs(s, OpLoad(w), k)
    BY DEF Costs
<1>2. PICK l \in Nat : l <= m /\ Weighs(t, OpLoad(w), l)
    BY DEF Costs
<1>3. s \in Seq(Operation) /\ t \in Seq(Operation)
    BY DEF Costs
<1>4. Weighs(s \o t, OpLoad(w), k + l)
    BY <1>1, <1>2, <1>3, LoadTypes, ConcatWeighs
<1>5. s \o t \in Seq(Operation)
    BY <1>3
<1>6. k + l \in Nat /\ k + l <= n + m
    BY <1>1, <1>2
<1> QED
    BY <1>4, <1>5, <1>6 DEF Costs

\* A limit may be raised.
LEMMA CostsMore ==
    ASSUME NEW w, NEW s, NEW n \in Nat, NEW m \in Nat, n <= m, Costs(s, w, n)
    PROVE  Costs(s, w, m)
BY DEF Costs

\* An operation repeated.
LEMMA CostsRepeat ==
    ASSUME NEW w \in Tariff, NEW o \in Operation, NEW k \in Nat, OpLoad(w)[o] \in {0, 1}
    PROVE  Costs([i \in 1 .. k |-> o], w, IF OpLoad(w)[o] = 0 THEN 0 ELSE k)
<1>1. [i \in 1 .. k |-> o] \in Seq(Operation)
    BY Repeated
<1>2. Weighs([i \in 1 .. k |-> o], OpLoad(w), IF OpLoad(w)[o] = 0 THEN 0 ELSE k)
    BY LoadTypes, RepeatWeighs
<1> QED
    BY <1>1, <1>2 DEF Costs

\* Sequences are equal where their elements are.
LEMMA EqualTuples ==
    ASSUME NEW S, NEW s \in Seq(S), NEW t \in Seq(S), Len(s) = Len(t),
           \A i \in 1 .. Len(s) : s[i] = t[i]
    PROVE  s = t
OBVIOUS

\* Short lists, joined.
LEMMA Joined ==
    ASSUME NEW a, NEW b, NEW c
    PROVE  <<a>> \o <<b>> = <<a, b>> /\ <<a, b>> \o <<c>> = <<a, b, c>>
<1> DEFINE S == {a, b, c}
           s == <<a>> \o <<b>>
           t == <<a, b>>
           u == <<a, b>> \o <<c>>
           v == <<a, b, c>>
<1>1. <<a>> \in Seq(S) /\ Len(<<a>>) = 1 /\ <<b>> \in Seq(S) /\ Len(<<b>>) = 1
      /\ <<c>> \in Seq(S) /\ Len(<<c>>) = 1
    OBVIOUS
<1>2. t[1] = a /\ t[2] = b /\ Len(t) = 2 /\ t \in Seq(S)
    OBVIOUS
<1>3. v[1] = a /\ v[2] = b /\ v[3] = c /\ Len(v) = 3 /\ v \in Seq(S)
    OBVIOUS
<1>4. s[1] = a /\ s[2] = b /\ Len(s) = 2 /\ s \in Seq(S)
    BY <1>1
<1>5. u[1] = a /\ u[2] = b /\ u[3] = c /\ Len(u) = 3 /\ u \in Seq(S)
    BY <1>1, <1>2
<1> HIDE DEF S, s, t, u, v
<1>6. s = t
    BY <1>2, <1>4, EqualTuples
<1>7. u = v
    BY <1>3, <1>5, EqualTuples
<1> QED
    BY <1>6, <1>7 DEF s, t, u, v

\* Outputs cost nothing: the caller reads them, and sends nothing for it.
LEMMA OutsCost ==
    ASSUME NEW w \in Tariff, NEW k \in Nat
    PROVE  Costs(Outs(k), w, 0)
<1>1. Out \in Operation /\ OpLoad(w)[Out] = 0
    BY Operations, OperationLoads
<1>2. Costs([i \in 1 .. k |-> Out], w, 0)
    BY <1>1, CostsRepeat
<1> QED
    BY <1>2 DEF Outs

\* What the lists cost that several handlers share: a reset, its Input.
LEMMA ListsCost ==
    ASSUME NEW w \in Tariff
    PROVE  /\ Costs(<<Out>>, w, 0) /\ Costs(<<Out, Out>>, w, 0)
           /\ Costs(StateOuts, w, 0)
           /\ Costs(PrepareOps, w, 0)
           /\ Costs(<<Join>> \o StateOuts, w, 0)
           /\ Costs(ResetOps, w, w.input["Reset"])
<1>1. Costs(<<Out>>, w, 0) /\ Costs(<<Join>>, w, 0) /\ Costs(<<TellShutDown>>, w, 0)
    <2>1. ASSUME NEW o \in Operation, OpLoad(w)[o] = 0
          PROVE  Costs(<<o>>, w, 0)
        BY <2>1, CostsOne
    <2>2. Out \in Operation /\ Join \in Operation /\ TellShutDown \in Operation
        BY Operations
    <2>3. OpLoad(w)[Out] = 0 /\ OpLoad(w)[Join] = 0 /\ OpLoad(w)[TellShutDown] = 0
        BY OperationLoads
    <2> QED
        BY <2>1, <2>2, <2>3
<1>2. Costs(<<Out, Out>>, w, 0)
    <2>1. <<Out>> \o <<Out>> = <<Out, Out>>
        BY Joined
    <2>2. Costs(<<Out>> \o <<Out>>, w, 0 + 0)
        BY <1>1, CostsBoth
    <2> QED
        BY <2>1, <2>2, 0 + 0 = 0
<1>3. Costs(StateOuts, w, 0)
    BY BackpressureAssumption, OutsCost DEF StateOuts
<1>4. Costs(PrepareOps, w, 0)
    BY <1>1, CostsNothing DEF PrepareOps
<1>5. Costs(<<Join>> \o StateOuts, w, 0)
    BY <1>1, <1>3, CostsBoth
<1>6. Costs(ResetOps, w, w.input["Reset"])
    <2>1. InputOf("Reset") \in Input /\ InputOf("Reset").tag = "Reset"
        BY Inputs DEF InputTag, InputOf
    <2>2. w.input["Reset"] \in Nat
        BY DEF Tariff, InputTag
    <2>3. Costs(<<Fsm(InputOf("Reset"))>>, w, w.input["Reset"])
        <3>1. Fsm(InputOf("Reset")) \in Operation
            BY <2>1, Operations
        <3>2. OpLoad(w)[Fsm(InputOf("Reset"))] <= w.input["Reset"]
            BY <2>1, <2>2, OperationLoads
        <3> QED
            BY <2>2, <3>1, <3>2, CostsOne
    <2>4. Costs(<<Out>> \o <<TellShutDown>>, w, 0 + 0)
        BY <1>1, CostsBoth
    <2>5. Costs((<<Out>> \o <<TellShutDown>>) \o <<Join>>, w, 0 + 0)
        BY <1>1, <2>4, CostsBoth
    <2>6. (<<Out>> \o <<TellShutDown>>) \o <<Join>> = <<Out, TellShutDown, Join>>
        BY Joined
    <2>7. Costs(<<Out, TellShutDown, Join>> \o StateOuts, w, 0 + 0)
        <3>1. Costs(<<Out, TellShutDown, Join>>, w, 0)
            BY <2>5, <2>6, 0 + 0 = 0
        <3> QED
            BY <1>3, <3>1, CostsBoth
    <2>8. Costs(<<Fsm(InputOf("Reset"))>> \o <<Out>>, w, w.input["Reset"] + 0)
        BY <1>1, <2>2, <2>3, CostsBoth
    <2>9. <<Fsm(InputOf("Reset"))>> \o <<Out>> = <<Fsm(InputOf("Reset")), Out>>
        BY Joined
    <2>10. Costs(<<Fsm(InputOf("Reset")), Out>>, w, w.input["Reset"])
        <3>1. w.input["Reset"] + 0 = w.input["Reset"]
            BY <2>2
        <3> QED
            BY <2>8, <2>9, <3>1
    <2>11. Costs(<<Out, TellShutDown, Join>> \o StateOuts, w, 0)
        BY <2>7
    <2>12. Costs((<<Out, TellShutDown, Join>> \o StateOuts) \o <<Fsm(InputOf("Reset")), Out>>,
                 w, 0 + w.input["Reset"])
        BY <2>2, <2>10, <2>11, CostsBoth
    <2>13. 0 + w.input["Reset"] = w.input["Reset"]
        BY <2>2
    <2> QED
        BY <2>12, <2>13 DEF ResetOps
<1> QED
    BY <1>1, <1>2, <1>3, <1>4, <1>5, <1>6

\* The Input of a handler is all it is charged for.
LEMMA InputCosts ==
    ASSUME NEW w \in Tariff, NEW input \in Input, NEW n \in Nat, w.input[input.tag] <= n
    PROVE  /\ Costs(<<Fsm(input)>>, w, n)
           /\ Costs(<<Out, Fsm(input)>>, w, n)
           /\ Costs(<<Fsm(input), Out>>, w, n)
<1>1. Costs(<<Fsm(input)>>, w, n) /\ Costs(<<Out>>, w, 0)
    BY Operations, OperationLoads, CostsOne, ListsCost
<1>2. <<Out>> \o <<Fsm(input)>> = <<Out, Fsm(input)>>
      /\ <<Fsm(input)>> \o <<Out>> = <<Fsm(input), Out>>
    BY Joined
<1>3. Costs(<<Out>> \o <<Fsm(input)>>, w, 0 + n) /\ Costs(<<Fsm(input)>> \o <<Out>>, w, n + 0)
    BY <1>1, CostsBoth
<1>4. 0 + n = n /\ n + 0 = n
    OBVIOUS
<1> QED
    BY <1>1, <1>2, <1>3, <1>4

\* Numbers of a tariff.
LEMMA Rates ==
    ASSUME NEW w \in Tariff
    PROVE  /\ \A message \in ManagerMessage : w.call[message] \in Nat
           /\ \A tag \in InputTag : w.input[tag] \in Nat
           /\ \A tag \in OutputTag : w.output[tag] \in Nat
           /\ \A message \in WsMessage : w.ask[message] \in Nat /\ w.asked[message] \in Nat
           /\ \A update \in WsUpdate : w.report[update] \in Nat
           /\ \A session \in Session : w.session[session] \in Nat
           /\ w.note \in Nat /\ w.connection \in Nat /\ w.open \in Nat
           /\ w.base \in Nat /\ w.each \in Nat
BY DEF Tariff

\* An Input has the tag it is named after.
LEMMA InputTags ==
    /\ \A tag \in InputTag \ {"Connect"} : InputOf(tag) \in Input /\ InputOf(tag).tag = tag
    /\ \A u : ConnectInput(u).tag = "Connect"
BY Inputs DEF InputOf, ConnectInput

\* A ManagerMessage pays for its handler.
LEMMA CommandCosts ==
    ASSUME NEW w \in Tariff, HandlersCovered(w), NEW message \in CallerMessage
    PROVE  Costs(CommandOps(message), w, w.call[message])
<1>0. message \in ManagerMessage /\ w.call[message] \in Nat
    BY BackpressureAssumption, Rates
<1> DEFINE n == w.call[message]
<1>1. n \in Nat
    BY <1>0
<1>2. ASSUME NEW ops, Costs(ops, w, 0) PROVE Costs(ops, w, n)
    BY <1>1, <1>2, CostsMore
<1> HIDE DEF n
<1>3. CASE message = "Connect"
    <2>1. ConnectInput(CHOOSE u \in Url : TRUE) \in Input
          /\ w.input[ConnectInput(CHOOSE u \in Url : TRUE).tag] <= n
        BY <1>0, <1>3, Inputs, InputTags, Rates DEF HandlersCovered, n, InputTag
    <2>2. Costs(<<Out, Fsm(ConnectInput(CHOOSE u \in Url : TRUE))>>, w, n)
        BY <1>1, <2>1, InputCosts
    <2>3. Costs(<<Out>>, w, n)
        BY <1>2, ListsCost
    <2>4. CASE IsDisconnected
        BY <1>3, <2>2, <2>4 DEF CommandOps, n
    <2>5. CASE ~IsDisconnected
        BY <1>3, <2>3, <2>5 DEF CommandOps, n
    <2> QED
        BY <2>4, <2>5
<1>4. CASE message = "Disconnect"
    <2>1. InputOf("Disconnect") \in Input /\ w.input[InputOf("Disconnect").tag] <= n
        BY <1>4, InputTags DEF HandlersCovered, n, InputTag
    <2>2. Costs(<<Fsm(InputOf("Disconnect"))>>, w, n)
        BY <1>1, <2>1, InputCosts
    <2> QED
        BY <1>4, <2>2 DEF CommandOps, n
<1>5. CASE message = "SendTvCommand"
    <2>1. InputOf("SendCommand") \in Input /\ w.input[InputOf("SendCommand").tag] <= n
        BY <1>5, InputTags DEF HandlersCovered, n, InputTag
    <2>2. Costs(<<Fsm(InputOf("SendCommand"))>>, w, n)
        BY <1>1, <2>1, InputCosts
    <2> QED
        BY <1>5, <2>2 DEF CommandOps, n
<1>6. CASE message = "EmitAllState"
    <2>1. Costs(Outs(1 + Details), w, n)
        BY <1>2, BackpressureAssumption, OutsCost
    <2> QED
        BY <1>6, <2>1 DEF CommandOps, n
<1>7. CASE message = "ShutDown"
    <2>1. Stopped \in Operation /\ Stop \in Operation /\ ShutDownWs \in Operation
        BY <1>7, Operations
    <2>2. OpLoad(w)[Stopped] = 0 /\ OpLoad(w)[Stop] = 0 /\ OpLoad(w)[ShutDownWs] <= n
        BY <1>7, OperationLoads DEF HandlersCovered, n
    <2>3. Costs(<<Stopped>>, w, 0) /\ Costs(<<Stop>>, w, 0) /\ Costs(<<ShutDownWs>>, w, n)
        BY <1>1, <2>1, <2>2, CostsOne
    <2>4. Costs(<<Stopped>> \o <<ShutDownWs>>, w, 0 + n)
        BY <1>1, <2>3, CostsBoth
    <2>5. Costs((<<Stopped>> \o <<ShutDownWs>>) \o <<Stop>>, w, (0 + n) + 0)
        BY <1>1, <2>3, <2>4, CostsBoth
    <2>6. (0 + n) + 0 = n
        BY <1>1
    <2> QED
        BY <1>7, <2>5, <2>6, Joined DEF CommandOps, n
<1> QED
    BY <1>0, <1>3, <1>4, <1>5, <1>6, <1>7 DEF ManagerMessage

\* An Output of the machine pays for its handler.
LEMMA OutputCosts ==
    ASSUME NEW w \in Tariff, HandlersCovered(w), NEW tag \in OutputTag
    PROVE  Costs(OutputOps(tag), w, w.output[tag])
<1> DEFINE n == w.output[tag]
<1>1. n \in Nat
    BY Rates
<1>2. ASSUME NEW ops, Costs(ops, w, 0) PROVE Costs(ops, w, n)
    BY <1>1, <1>2, CostsMore
<1>3. ASSUME NEW o \in Operation, OpLoad(w)[o] <= n PROVE Costs(<<o>>, w, n)
    BY <1>1, <1>3, CostsOne
<1> HIDE DEF n
<1>4. CASE tag \in {"ConnectToTv", "PairWithTv"}
    <2>1. Costs(<<>>, w, n)
        BY <1>2, CostsNothing
    <2> QED
        BY <1>4, <2>1 DEF OutputOps, n
<1>5. CASE tag = "SendRegisterPayload"
    <2>1. Ws("Register") \in Operation /\ OpLoad(w)[Ws("Register")] <= n
        BY <1>5, Operations, OperationLoads DEF HandlersCovered, WsMessage, n
    <2>2. Costs(<<Ws("Register")>>, w, n) /\ Costs(<<Out>>, w, 0)
        BY <1>3, <2>1, ListsCost
    <2>3. Costs(<<Out>> \o <<Ws("Register")>>, w, 0 + n)
        BY <1>1, <2>2, CostsBoth
    <2>4. 0 + n = n
        BY <1>1
    <2>5. Costs(<<Out, Ws("Register")>>, w, n)
        BY <2>3, <2>4, Joined
    <2> QED
        BY <1>5, <2>5 DEF OutputOps, n
<1>6. CASE tag = "InitializeConnection"
    <2>1. Ws("Initialize") \in Operation /\ OpLoad(w)[Ws("Initialize")] = w.ask["Initialize"]
        BY Operations, OperationLoads DEF WsMessage
    <2>2. Requests \in Nat
        BY BackpressureAssumption
    <2>3. Costs([k \in 1 .. Requests |-> Ws("Initialize")], w,
                IF w.ask["Initialize"] = 0 THEN 0 ELSE Requests)
        <3>1. w.ask["Initialize"] \in {0, 1}
            BY DEF HandlersCovered
        <3> QED
            BY <2>1, <2>2, <3>1, CostsRepeat
    <2>4. w.ask["Initialize"] = 0 \/ Requests <= n
        BY <1>6 DEF HandlersCovered, n
    <2>5. Costs([k \in 1 .. Requests |-> Ws("Initialize")], w, n)
        <3>1. CASE w.ask["Initialize"] = 0
            BY <1>2, <2>3, <3>1
        <3>2. CASE w.ask["Initialize"] # 0
            <4>1. Costs([k \in 1 .. Requests |-> Ws("Initialize")], w, Requests) /\ Requests <= n
                BY <2>3, <2>4, <3>2
            <4> QED
                BY <1>1, <2>2, <4>1, CostsMore
        <3> QED
            BY <3>1, <3>2
    <2> QED
        BY <1>6, <2>5 DEF OutputOps, n
<1>7. CASE tag = "SendCommand"
    <2>1. Ws("Command") \in Operation /\ OpLoad(w)[Ws("Command")] <= n
        BY <1>7, Operations, OperationLoads DEF HandlersCovered, WsMessage, n
    <2> QED
        BY <1>3, <1>7, <2>1 DEF OutputOps, n
<1>8. CASE tag = "DisconnectFromTv"
    <2>1. ShutDownWs \in Operation /\ OpLoad(w)[ShutDownWs] <= n
        BY <1>8, Operations, OperationLoads DEF HandlersCovered, n
    <2>2. Costs(<<ShutDownWs>>, w, n) /\ Costs(PrepareOps, w, 0)
        BY <1>3, <2>1, ListsCost
    <2>3. Costs(PrepareOps \o <<ShutDownWs>>, w, 0 + n)
        BY <1>1, <2>2, CostsBoth
    <2>4. 0 + n = n
        BY <1>1
    <2>5. PrepareOps \o <<ShutDownWs>> = Append(PrepareOps, ShutDownWs)
        <3>1. PrepareOps \in Seq(Operation)
            BY ListsAreOperations
        <3> QED
            BY <2>1, <3>1
    <2>6. Costs(Append(PrepareOps, ShutDownWs), w, n)
        BY <2>3, <2>4, <2>5
    <2> QED
        BY <1>8, <2>6 DEF OutputOps, n
<1>9. CASE tag \in {"HandleSuccessfulDisconnect", "HandleDisconnectError"}
    <2>1. Costs(<<Join>> \o StateOuts, w, n)
        BY <1>2, ListsCost
    <2> QED
        BY <1>9, <2>1 DEF OutputOps, n
<1>10. CASE tag = "HandleConnectError"
    <2>1. w.input["Reset"] <= n /\ w.input["Reset"] \in Nat
        BY <1>10, Rates DEF HandlersCovered, InputTag, n
    <2>2. Costs(ResetOps, w, n)
        BY <1>1, <2>1, ListsCost, CostsMore
    <2> QED
        BY <1>10, <2>2 DEF OutputOps, n
<1> QED
    BY <1>4, <1>5, <1>6, <1>7, <1>8, <1>9, <1>10 DEF OutputTag

\* A new State makes the manager send outputs alone.
LEMMA StatusCosts ==
    ASSUME NEW w \in Tariff, NEW status
    PROVE  Costs(StatusOps(status), w, 0)
<1>1. Costs(<<>>, w, 0) /\ Costs(<<Out>>, w, 0) /\ Costs(<<Out, Out>>, w, 0)
    BY CostsNothing, ListsCost
<1>2. CASE status = mgr.manager_status
    BY <1>1, <1>2 DEF StatusOps
<1>3. CASE status # mgr.manager_status /\ status = "Communicating"
    BY <1>1, <1>3 DEF StatusOps
<1>4. CASE status # mgr.manager_status /\ status # "Communicating"
    BY <1>1, <1>4 DEF StatusOps
<1> QED
    BY <1>2, <1>3, <1>4

\* A report of the task pays for its handler.
LEMMA UpdateCosts ==
    ASSUME NEW w \in Tariff, HandlersCovered(w), NEW update \in WsUpdate
    PROVE  Costs(UpdateOps(update), w, w.report[update])
<1> DEFINE n == w.report[update]
<1>1. n \in Nat
    BY Rates
<1> HIDE DEF n
<1>2. ASSUME NEW tag \in InputTag \ {"Connect"}, w.input[tag] <= n
      PROVE  Costs(<<Fsm(InputOf(tag))>>, w, n) /\ Costs(<<Fsm(InputOf(tag)), Out>>, w, n)
    BY <1>1, <1>2, InputTags, InputCosts
<1>3. Costs(<<Out>>, w, n)
    BY <1>1, ListsCost, CostsMore
<1>4. CASE update = "Connected"
    <2>1. w.input["AttemptRegister"] <= n
        BY <1>4 DEF HandlersCovered, n
    <2> QED
        BY <1>2, <1>4, <2>1 DEF UpdateOps, InputTag, n
<1>5. CASE update = "Disconnected"
    <2>1. w.input["DisconnectionComplete"] <= n
        BY <1>5 DEF HandlersCovered, n
    <2> QED
        BY <1>2, <1>5, <2>1 DEF UpdateOps, InputTag, n
<1>6. CASE update \in {"ConnectError", "ServerClosedConnection"}
    <2>1. w.input["Error"] <= n
        BY <1>6 DEF HandlersCovered, n
    <2>2. Costs(<<Fsm(InputOf("Error")), Out>>, w, n) /\ Costs(PrepareOps, w, 0)
        BY <1>2, <2>1, ListsCost DEF InputTag
    <2>3. Costs(PrepareOps \o <<Fsm(InputOf("Error")), Out>>, w, 0 + n)
        BY <1>1, <2>2, CostsBoth
    <2>4. 0 + n = n
        BY <1>1
    <2>5. Costs(PrepareOps \o <<Fsm(InputOf("Error")), Out>>, w, n)
        BY <2>3, <2>4
    <2> QED
        BY <1>6, <2>5 DEF UpdateOps, n
<1>7. CASE update = "Pair"
    <2>1. w.input["Pair"] <= n
        BY <1>7 DEF HandlersCovered, n
    <2> QED
        BY <1>2, <1>7, <2>1 DEF UpdateOps, InputTag, n
<1>8. CASE update = "Registered"
    <2>1. w.input["Initialize"] <= n
        BY <1>8 DEF HandlersCovered, n
    <2> QED
        BY <1>2, <1>8, <2>1 DEF UpdateOps, InputTag, n
<1>9. CASE update = "Volume"
    <2>1. w.input["StartCommunication"] <= n
        BY <1>9 DEF HandlersCovered, n
    <2>2. Costs(<<Fsm(InputOf("StartCommunication")), Out>>, w, n)
        BY <1>2, <2>1 DEF InputTag
    <2> QED
        BY <1>3, <1>9, <2>2 DEF UpdateOps, n
<1> QED
    BY <1>4, <1>5, <1>6, <1>7, <1>8, <1>9 DEF WsUpdate

\* What the machine reports for an Input is charged to that Input.
LEMMA ReportsWeigh ==
    ASSUME NEW w \in Tariff, MachineCovered(w), NEW s \in State, NEW input \in Input,
           NEW rule \in Applicable(s, input)
    PROVE  \E n \in Nat : /\ n <= InputLoad(w)[input]
                          /\ Weighs(Updates(rule, Target(rule, s, input)), UpdateLoad(w), n)
<1> DEFINE s2 == Target(rule, s, input)
<1>1. rule \in Rules /\ rule.input = input.tag
    BY DEF Applicable
<1>2. /\ StateUpdate(s2) \in Update
      /\ rule.output # NoOutput => OutputUpdate(rule.output, s2) \in Update
    BY RuleTypes
<1>3. rule.output \in OutputTag \cup {NoOutput}
    BY <1>1 DEF Rules, Rule, OutputTag, NoOutput
<1>4. InputLoad(w)[input] = w.input[rule.input]
    BY <1>1 DEF InputLoad
<1> HIDE DEF s2
<1>5. UpdateLoad(w)[StateUpdate(s2)] = w.note
    BY <1>2 DEF UpdateLoad, StateUpdate
<1>6. rule.output # NoOutput =>
          UpdateLoad(w)[OutputUpdate(rule.output, s2)] = w.output[rule.output]
    BY <1>2 DEF UpdateLoad, OutputUpdate
<1>7. w.note \in Nat /\ UpdateLoad(w) \in [Update -> Nat]
    BY Rates, LoadTypes
<1>8. Weighs(<<StateUpdate(s2)>>, UpdateLoad(w), w.note)
    BY <1>2, <1>5, <1>7, OneWeighs
<1>9. CASE rule.output = NoOutput
    <2>1. w.note <= w.input[rule.input]
        BY <1>1, <1>7, <1>9 DEF MachineCovered
    <2>2. Updates(rule, s2) = <<StateUpdate(s2)>>
        BY <1>9 DEF Updates
    <2> QED
        BY <1>4, <1>7, <1>8, <2>1, <2>2 DEF s2
<1>10. CASE rule.output # NoOutput
    <2>1. w.output[rule.output] \in Nat
        BY <1>3, <1>10, Rates
    <2>2. w.note + w.output[rule.output] <= w.input[rule.input]
        BY <1>1, <1>7, <1>10, <2>1 DEF MachineCovered
    <2>3. Weighs(<<OutputUpdate(rule.output, s2)>>, UpdateLoad(w), w.output[rule.output])
        BY <1>2, <1>6, <1>7, <1>10, OneWeighs
    <2>4. Weighs(<<StateUpdate(s2)>> \o <<OutputUpdate(rule.output, s2)>>, UpdateLoad(w),
                 w.note + w.output[rule.output])
        <3>1. <<StateUpdate(s2)>> \in Seq(Update)
              /\ <<OutputUpdate(rule.output, s2)>> \in Seq(Update)
            BY <1>2, <1>10
        <3> QED
            BY <1>7, <1>8, <2>1, <2>3, <3>1, ConcatWeighs
    <2>5. Updates(rule, s2) = <<StateUpdate(s2)>> \o <<OutputUpdate(rule.output, s2)>>
        BY <1>10, Joined DEF Updates
    <2>6. w.note + w.output[rule.output] \in Nat
        BY <1>7, <2>1
    <2> QED
        BY <1>4, <2>2, <2>4, <2>5, <2>6 DEF s2
<1> QED
    BY <1>9, <1>10
-----------------------------------------------------------------------------
(* The books: what the channels hold, by a tariff, and the invariant.      *)

Book == [ command_rx : Nat, todo : Nat, to_fsm : Nat, fsm_pending : Nat, from_fsm : Nat,
          to_ws : Nat, from_ws : Nat, report : Nat ]

\* b is what is in the channels, and in the hands of the tasks, by the tariff w.
Books(w, b) ==
    /\ Weighs(command_rx, CallLoad(w), b.command_rx)
    /\ Weighs(todo, OpLoad(w), b.todo)
    /\ Weighs(to_fsm, InputLoad(w), b.to_fsm)
    /\ Weighs(fsm_pending, UpdateLoad(w), b.fsm_pending)
    /\ Weighs(from_fsm, UpdateLoad(w), b.from_fsm)
    /\ Weighs(ws.to_ws, w.asked, b.to_ws)
    /\ Weighs(ws.from_ws, w.report, b.from_ws)
    /\ Weighs(ws.report, w.report, b.report)

Total(b) == b.command_rx + b.todo + b.to_fsm + b.fsm_pending + b.from_fsm
            + b.to_ws + b.from_ws + b.report

Allowance(w, n, v) == w.base + n * w.each + v

\* Whatever the interleaving, what is under way stays within the allowance.
LoadInv(w) ==
    \E b \in Book :
        Books(w, b) /\ Total(b) + TaskLoad(w, ws) <= Allowance(w, calls, volumes)

\* Each call and each volume payload of the burst raises the allowance.
LEMMA AllowanceGrows ==
    ASSUME NEW w \in Tariff, NEW n \in Nat, NEW v \in Nat
    PROVE  /\ Allowance(w, n, v) \in Nat
           /\ Allowance(w, n + 1, v) = Allowance(w, n, v) + w.each
           /\ Allowance(w, n, v + 1) = Allowance(w, n, v) + 1
           /\ Allowance(w, 1, 0) = w.base + w.each
           /\ Allowance(w, 0, 1) = w.base + 1
<1>1. w.base \in Nat /\ w.each \in Nat
    BY Rates
<1>2. n * w.each \in Nat /\ (n + 1) * w.each = n * w.each + w.each
    BY <1>1
<1> QED
    BY <1>1, <1>2 DEF Allowance

\* What a task is charged is a number.
LEMMA TaskLoadType ==
    ASSUME NEW w \in Tariff, NEW task \in WsType
    PROVE  TaskLoad(w, task) \in Nat
<1>1. task.session \in Session /\ (task.writing # None => task.writing \in WsMessage)
    BY DEF WsType
<1> QED
    BY <1>1, Rates DEF TaskLoad

Entries(c, t, i, p, u, a, f, r) ==
    [ command_rx |-> c, todo |-> t, to_fsm |-> i, fsm_pending |-> p, from_fsm |-> u,
      to_ws |-> a, from_ws |-> f, report |-> r ]

\* And so is the total of the books.
LEMMA TotalType == \A b \in Book : Total(b) \in Nat
BY DEF Book, Total

\* A step that moves charges about, and adds none.
LEMMA Rebalanced ==
    ASSUME NEW w \in Tariff, TypeInv, TypeInv',
           NEW b \in Book, Total(b) + TaskLoad(w, ws) <= Allowance(w, calls, volumes),
           NEW n \in Book, Books(w, n)',
           Total(n) + TaskLoad(w, ws') <= Total(b) + TaskLoad(w, ws),
           UNCHANGED <<calls, volumes>>
    PROVE  LoadInv(w)'
<1>1. calls \in Nat /\ volumes \in Nat
    BY Parts DEF BurstPart
<1>2. ws \in WsType /\ ws' \in WsType
    BY DEF TypeInv, TypeOK, WsType, Session
<1>3. /\ Total(b) \in Nat /\ Total(n) \in Nat
      /\ TaskLoad(w, ws) \in Nat /\ TaskLoad(w, ws') \in Nat
      /\ Allowance(w, calls, volumes) \in Nat
    BY <1>1, <1>2, TotalType, TaskLoadType, AllowanceGrows
<1>4. Total(n) + TaskLoad(w, ws') <= Allowance(w, calls, volumes)
    BY <1>3
<1>5. Total(n) + TaskLoad(w, ws') <= Allowance(w, calls', volumes')
    BY <1>4
<1> QED
    BY <1>5 DEF LoadInv

\* A step that moves no message.
LEMMA StutterLoad ==
    ASSUME NEW w \in Tariff, LoadInv(w),
           UNCHANGED <<command_rx, todo, to_fsm, fsm_pending, from_fsm, ws, calls, volumes>>
    PROVE  LoadInv(w)'
BY DEF LoadInv, Books

\* Initially nothing is under way.
LEMMA InitLoad ==
    ASSUME NEW w \in Tariff, Init
    PROVE  LoadInv(w)
<1> DEFINE b == [ command_rx |-> 0, todo |-> 0, to_fsm |-> 0, fsm_pending |-> 0,
                  from_fsm |-> 0, to_ws |-> 0, from_ws |-> 0, report |-> 0 ]
<1>1. b \in Book /\ Total(b) = 0
    BY DEF Book, Total
<1>2. ws = [phase |-> "none", session |-> "idle", to_ws |-> <<>>, from_ws |-> <<>>,
            report |-> <<>>, writing |-> None]
    BY DEF Init, NoTask
<1>3. Books(w, b)
    BY <1>2, EmptyWeighs DEF Init, FsmInit, Books
<1>4. TaskLoad(w, ws) = 0
    BY <1>2 DEF TaskLoad
<1>5. Allowance(w, calls, volumes) \in Nat
    BY AllowanceGrows DEF Init
<1>6. Total(b) + TaskLoad(w, ws) <= Allowance(w, calls, volumes)
    BY <1>1, <1>4, <1>5
<1> HIDE DEF b
<1> QED
    BY <1>1, <1>3, <1>6 DEF LoadInv

-----------------------------------------------------------------------------
(* The caller and the machine.                                             *)

\* At rest only an open connection is charged for.
LEMMA RestWeighs ==
    ASSUME NEW w, Covers(w), TypeInv, AtRest, NEW b \in Book, Books(w, b)
    PROVE  /\ Total(b) = 0
           /\ TaskLoad(w, ws) \in Nat /\ TaskLoad(w, ws) <= w.base
           /\ ~IsOpen => TaskLoad(w, ws) = 0
<1>1. w \in Tariff /\ CallerCovered(w)
    BY DEF Covers
<1>2. ws \in WsType
    BY Parts DEF WsPart
<1>3. Total(b) = 0
    BY EmptyWeighsNothing DEF AtRest, IsFree, Books, Book, Total
<1>4. ws.phase \in {"none", "running", "ended"} /\ ws.writing = None /\ ws.session \in Session
    BY <1>2 DEF AtRest, IsFree, WsType
<1>5. TaskLoad(w, ws) = IF ws.phase = "running" THEN w.open + w.session[ws.session] ELSE 0
    <2>1. w.open \in Nat /\ w.session[ws.session] \in Nat
        BY <1>1, <1>4, Rates
    <2> QED
        BY <1>4, <2>1 DEF TaskLoad
<1>6. w.open + w.session[ws.session] <= w.base /\ w.base \in Nat
    BY <1>1, <1>4, Rates DEF CallerCovered
<1> QED
    BY <1>1, <1>2, <1>3, <1>5, <1>6, TaskLoadType DEF IsOpen

\* A call within a burst, or the first of a new one.
LEMMA CallLoadStep ==
    ASSUME NEW w, Covers(w), TypeInv, LoadInv(w), Call
    PROVE  LoadInv(w)'
<1>1. w \in Tariff /\ CallerCovered(w)
    BY DEF Covers
<1>2. PICK b \in Book :
          Books(w, b) /\ Total(b) + TaskLoad(w, ws) <= Allowance(w, calls, volumes)
    BY DEF LoadInv
<1>3. PICK message \in CallerMessage :
          /\ Patient /\ message = "Connect" => AtRest /\ ~IsOpen
          /\ command_rx' = Append(command_rx, message)
    BY DEF Call
<1>4. message \in ManagerMessage /\ w.call[message] \in Nat /\ w.each \in Nat /\ w.base \in Nat
    BY <1>1, BackpressureAssumption, Rates
<1> DEFINE n == Entries(b.command_rx + w.call[message], b.todo, b.to_fsm, b.fsm_pending,
                        b.from_fsm, b.to_ws, b.from_ws, b.report)
<1>5. n \in Book /\ Total(n) = Total(b) + w.call[message]
    BY <1>4 DEF Book, Total, Entries
<1>6. Books(w, n)'
    <2>1. CallLoad(w) \in [CallerMessage -> Nat] /\ CallLoad(w)[message] = w.call[message]
        BY <1>1, LoadTypes DEF CallLoad
    <2>2. command_rx \in Seq(CallerMessage) /\ b.command_rx \in Nat
        BY Parts DEF CallerPart, Book
    <2>3. Weighs(command_rx', CallLoad(w), b.command_rx + w.call[message])
        BY <1>2, <1>3, <2>1, <2>2, AppendWeighs DEF Books
    <2>4. UNCHANGED <<todo, to_fsm, fsm_pending, from_fsm, ws>>
        BY DEF Call, fsm_vars
    <2> QED
        BY <1>2, <2>3, <2>4 DEF Books, Book, Entries
<1> HIDE DEF n
<1>7. calls \in Nat /\ volumes \in Nat /\ ws \in WsType /\ ws' = ws
    BY Parts DEF BurstPart, WsPart, Call
<1>8. Total(n) + TaskLoad(w, ws) <= Allowance(w, calls', volumes')
    <2>1. CASE AtRest
        <3>1. calls' = 1 /\ volumes' = 0
            BY <2>1 DEF Call, CallsInBurst, VolumesInBurst
        <3>2. Allowance(w, calls', volumes') = w.base + w.each
            BY <1>1, <1>7, <3>1, AllowanceGrows
        <3>3. Total(n) = w.call[message]
            BY <1>2, <1>4, <1>5, <2>1, RestWeighs
        <3>4. CASE Patient /\ message = "Connect"
            <4>1. TaskLoad(w, ws) = 0
                BY <1>2, <1>3, <2>1, <3>4, RestWeighs
            <4>2. w.call[message] <= w.base + w.each
                BY <1>1, <3>4 DEF CallerCovered
            <4> QED
                BY <1>4, <3>2, <3>3, <4>1, <4>2
        <3>5. CASE ~(Patient /\ message = "Connect")
            <4>1. TaskLoad(w, ws) \in Nat /\ TaskLoad(w, ws) <= w.base
                BY <1>2, <2>1, RestWeighs
            <4>2. w.call[message] <= w.each
                BY <1>1, <1>4, <3>5 DEF CallerCovered
            <4> QED
                BY <1>4, <3>2, <3>3, <4>1, <4>2
        <3> QED
            BY <3>4, <3>5
    <2>2. CASE ~AtRest
        <3>1. calls' = calls + 1 /\ volumes' = volumes
            BY <2>2 DEF Call, CallsInBurst, VolumesInBurst
        <3>2. Allowance(w, calls', volumes') = Allowance(w, calls, volumes) + w.each
              /\ Allowance(w, calls, volumes) \in Nat
            BY <1>1, <1>7, <3>1, AllowanceGrows
        <3>3. w.call[message] <= w.each
            BY <1>1, <1>3, <1>4, <2>2 DEF CallerCovered
        <3>4. Total(b) \in Nat /\ TaskLoad(w, ws) \in Nat
            BY <1>1, <1>7, TotalType, TaskLoadType
        <3> QED
            BY <1>2, <1>4, <1>5, <3>2, <3>3, <3>4
    <2> QED
        BY <2>1, <2>2
<1>9. Total(n) + TaskLoad(w, ws') <= Allowance(w, calls', volumes')
    BY <1>7, <1>8
<1> QED
    BY <1>5, <1>6, <1>9 DEF LoadInv

\* An Input pays for the updates the machine now owes.
LEMMA MachineTakesInputLoad ==
    ASSUME NEW w, Covers(w), TypeInv, TypeInv', LoadInv(w), MachineTakesInput
    PROVE  LoadInv(w)'
<1>1. w \in Tariff /\ MachineCovered(w)
    BY DEF Covers
<1>2. PICK b \in Book :
          Books(w, b) /\ Total(b) + TaskLoad(w, ws) <= Allowance(w, calls, volumes)
    BY DEF LoadInv
<1>3. /\ fsm_state \in State /\ to_fsm \in Seq(Input) /\ to_fsm # <<>>
      /\ Head(to_fsm) \in Input /\ InputLoad(w) \in [Input -> Nat]
    BY <1>1, Parts, LoadTypes DEF FsmPart, FsmTypeOK, MachineTakesInput
<1>4. PICK m \in Nat : b.to_fsm = InputLoad(w)[Head(to_fsm)] + m
                       /\ Weighs(Tail(to_fsm), InputLoad(w), m)
    BY <1>2, <1>3, TailWeighs DEF Books
<1>5. PICK k \in Nat : k <= InputLoad(w)[Head(to_fsm)]
                       /\ Weighs(fsm_pending', UpdateLoad(w), k)
    <2>1. CASE Applicable(fsm_state, Head(to_fsm)) = {}
        <3>1. fsm_pending' = <<ErrorUpdate(Head(to_fsm))>>
            BY <2>1 DEF MachineTakesInput
        <3>2. ErrorUpdate(Head(to_fsm)) \in Update
            BY <1>3 DEF ErrorUpdate, Update, Input, InputTag, UrlOption
        <3>3. UpdateLoad(w)[ErrorUpdate(Head(to_fsm))] = w.note
            BY <3>2 DEF UpdateLoad, ErrorUpdate
        <3>4. InputLoad(w)[Head(to_fsm)] = w.input[Head(to_fsm).tag]
              /\ Head(to_fsm).tag \in InputTag
            BY <1>3 DEF InputLoad, Input, InputTag
        <3>5. w.note \in Nat /\ w.note <= InputLoad(w)[Head(to_fsm)]
            BY <1>1, <3>4, Rates DEF MachineCovered
        <3>6. Weighs(fsm_pending', UpdateLoad(w), w.note)
            BY <1>1, <3>1, <3>2, <3>3, LoadTypes, OneWeighs
        <3> QED
            BY <3>5, <3>6
    <2>2. CASE Applicable(fsm_state, Head(to_fsm)) # {}
        <3>1. PICK rule \in Applicable(fsm_state, Head(to_fsm)) :
                  fsm_pending' = Updates(rule, Target(rule, fsm_state, Head(to_fsm)))
            BY <2>2 DEF MachineTakesInput
        <3> QED
            BY <1>1, <1>3, <3>1, ReportsWeigh
    <2> QED
        BY <2>1, <2>2
<1> DEFINE n == Entries(b.command_rx, b.todo, m, k, b.from_fsm, b.to_ws, b.from_ws, b.report)
<1>51. b.fsm_pending = 0 /\ b.to_fsm >= m + k
    <2>1. InputLoad(w)[Head(to_fsm)] \in Nat
        BY <1>3
    <2>2. fsm_pending = <<>>
        BY DEF MachineTakesInput
    <2> QED
        BY <1>2, <1>4, <1>5, <2>1, <2>2, EmptyWeighsNothing DEF Books
<1>6. n \in Book /\ Total(n) <= Total(b)
    BY <1>51 DEF Book, Total, Entries
<1>7. to_fsm' = Tail(to_fsm) /\ UNCHANGED <<command_rx, todo, from_fsm, ws, calls, volumes>>
    BY DEF MachineTakesInput
<1>8. Books(w, n)'
    BY <1>2, <1>4, <1>5, <1>7 DEF Books, Book, Entries
<1> HIDE DEF n
<1>9. TaskLoad(w, ws) \in Nat /\ Total(b) \in Nat /\ Total(n) \in Nat
    BY <1>1, <1>6, Parts, TaskLoadType, TotalType DEF WsPart
<1>10. Total(n) + TaskLoad(w, ws') <= Total(b) + TaskLoad(w, ws)
    BY <1>6, <1>7, <1>9
<1> QED
    BY <1>1, <1>2, <1>6, <1>7, <1>8, <1>10, Rebalanced

\* An update moves into the channel.
LEMMA MachineSendsLoad ==
    ASSUME NEW w, Covers(w), TypeInv, TypeInv', LoadInv(w), MachineSends
    PROVE  LoadInv(w)'
<1>1. w \in Tariff
    BY DEF Covers
<1>2. PICK b \in Book :
          Books(w, b) /\ Total(b) + TaskLoad(w, ws) <= Allowance(w, calls, volumes)
    BY DEF LoadInv
<1>3. /\ fsm_pending \in Seq(Update) /\ fsm_pending # <<>> /\ from_fsm \in Seq(Update)
      /\ Head(fsm_pending) \in Update /\ UpdateLoad(w) \in [Update -> Nat]
    BY <1>1, Parts, LoadTypes DEF FsmPart, FsmTypeOK, MachineSends
<1>4. PICK l \in Nat : l = UpdateLoad(w)[Head(fsm_pending)]
    BY <1>3
<1>5. PICK m \in Nat : b.fsm_pending = l + m /\ Weighs(Tail(fsm_pending), UpdateLoad(w), m)
    BY <1>2, <1>3, <1>4, TailWeighs DEF Books
<1>6. Weighs(from_fsm', UpdateLoad(w), b.from_fsm + l)
    <2>1. from_fsm' = Append(from_fsm, Head(fsm_pending)) /\ b.from_fsm \in Nat
        BY DEF MachineSends, Book
    <2> QED
        BY <1>2, <1>3, <1>4, <2>1, AppendWeighs DEF Books
<1> DEFINE n == Entries(b.command_rx, b.todo, b.to_fsm, m,
                        b.from_fsm + l, b.to_ws, b.from_ws, b.report)
<1>7. n \in Book /\ Total(n) = Total(b)
    BY <1>5 DEF Book, Total, Entries
<1>8. fsm_pending' = Tail(fsm_pending)
      /\ UNCHANGED <<command_rx, todo, to_fsm, ws, calls, volumes>>
    BY DEF MachineSends
<1>9. Books(w, n)'
    BY <1>2, <1>5, <1>6, <1>8 DEF Books, Book, Entries
<1> HIDE DEF n
<1>10. TaskLoad(w, ws) \in Nat /\ Total(b) \in Nat
    BY <1>1, Parts, TaskLoadType, TotalType DEF WsPart
<1>11. Total(n) + TaskLoad(w, ws') <= Total(b) + TaskLoad(w, ws)
    BY <1>7, <1>8, <1>10
<1> QED
    BY <1>1, <1>2, <1>7, <1>8, <1>9, <1>11, Rebalanced

\* The Inputs that are dropped are taken off the books.
LEMMA MachineStopsLoad ==
    ASSUME NEW w, Covers(w), TypeInv, TypeInv', LoadInv(w), MachineStops
    PROVE  LoadInv(w)'
<1>1. w \in Tariff
    BY DEF Covers
<1>2. PICK b \in Book :
          Books(w, b) /\ Total(b) + TaskLoad(w, ws) <= Allowance(w, calls, volumes)
    BY DEF LoadInv
<1> DEFINE n == Entries(b.command_rx, b.todo, 0, b.fsm_pending,
                        b.from_fsm, b.to_ws, b.from_ws, b.report)
<1>3. n \in Book /\ Total(n) <= Total(b)
    BY DEF Book, Total, Entries
<1>4. to_fsm' = <<>>
      /\ UNCHANGED <<command_rx, todo, fsm_pending, from_fsm, ws, calls, volumes>>
    BY DEF MachineStops, FsmShutDown
<1>5. Books(w, n)'
    BY <1>2, <1>4, EmptyWeighs DEF Books, Book, Entries
<1> HIDE DEF n
<1>6. TaskLoad(w, ws) \in Nat /\ Total(b) \in Nat /\ Total(n) \in Nat
    BY <1>1, <1>3, Parts, TaskLoadType, TotalType DEF WsPart
<1>7. Total(n) + TaskLoad(w, ws') <= Total(b) + TaskLoad(w, ws)
    BY <1>3, <1>4, <1>6
<1> QED
    BY <1>1, <1>2, <1>3, <1>4, <1>5, <1>7, Rebalanced

-----------------------------------------------------------------------------
(* The manager.                                                            *)

\* What the last lemmas start from.
LEMMA Opened ==
    ASSUME NEW w, Covers(w), TypeInv, LoadInv(w)
    PROVE  /\ w \in Tariff
           /\ TaskLoad(w, ws) \in Nat
           /\ \E b \in Book : /\ Books(w, b) /\ Total(b) \in Nat
                              /\ Total(b) + TaskLoad(w, ws) <= Allowance(w, calls, volumes)
BY Parts, TaskLoadType, TotalType DEF Covers, LoadInv, WsPart

\* A ManagerMessage pays for the operations of its handler.
LEMMA FromCallerLoad ==
    ASSUME NEW w, Covers(w), TypeInv, TypeInv', LoadInv(w), FromCaller
    PROVE  LoadInv(w)'
<1>1. w \in Tariff /\ TaskLoad(w, ws) \in Nat /\ HandlersCovered(w)
    BY Opened DEF Covers
<1>2. PICK b \in Book : /\ Books(w, b) /\ Total(b) \in Nat
                        /\ Total(b) + TaskLoad(w, ws) <= Allowance(w, calls, volumes)
    BY Opened
<1>3. /\ command_rx \in Seq(CallerMessage) /\ command_rx # <<>>
      /\ Head(command_rx) \in CallerMessage /\ CallLoad(w) \in [CallerMessage -> Nat]
    BY <1>1, Parts, LoadTypes DEF CallerPart, FromCaller
<1>4. PICK l \in Nat : l = CallLoad(w)[Head(command_rx)]
    BY <1>3
<1>5. PICK m \in Nat : b.command_rx = l + m /\ Weighs(Tail(command_rx), CallLoad(w), m)
    BY <1>2, <1>3, <1>4, TailWeighs DEF Books
<1>6. l = w.call[Head(command_rx)]
    BY <1>3, <1>4 DEF CallLoad
<1>7. todo' = CommandOps(Head(command_rx)) /\ todo = <<>> /\ command_rx' = Tail(command_rx)
      /\ UNCHANGED <<to_fsm, fsm_pending, from_fsm, ws, calls, volumes>>
    BY DEF FromCaller, Handle, AtSelect
<1>8. PICK k \in Nat : k <= l /\ Weighs(todo', OpLoad(w), k)
    BY <1>1, <1>3, <1>6, <1>7, CommandCosts DEF Costs
<1>9. b.todo = 0
    BY <1>2, <1>7, EmptyWeighsNothing DEF Books
<1> DEFINE n == Entries(m, k, b.to_fsm, b.fsm_pending, b.from_fsm, b.to_ws, b.from_ws, b.report)
<1>10. n \in Book /\ Total(n) <= Total(b)
    BY <1>5, <1>8, <1>9 DEF Book, Total, Entries
<1>11. Books(w, n)'
    BY <1>2, <1>5, <1>7, <1>8 DEF Books, Entries
<1> HIDE DEF n
<1>12. Total(n) + TaskLoad(w, ws') <= Total(b) + TaskLoad(w, ws)
    BY <1>1, <1>2, <1>7, <1>10, TotalType
<1> QED
    BY <1>1, <1>2, <1>7, <1>10, <1>11, <1>12, Rebalanced

\* An update pays for its handler, ConnectToTv for the task it starts.
LEMMA FromStateMachineLoad ==
    ASSUME NEW w, Covers(w), TypeInv, TypeInv', LoadInv(w), FromStateMachine
    PROVE  LoadInv(w)'
<1>1. w \in Tariff /\ TaskLoad(w, ws) \in Nat /\ HandlersCovered(w)
    BY Opened DEF Covers
<1>2. PICK b \in Book : /\ Books(w, b) /\ Total(b) \in Nat
                        /\ Total(b) + TaskLoad(w, ws) <= Allowance(w, calls, volumes)
    BY Opened
<1>3. /\ from_fsm \in Seq(Update) /\ from_fsm # <<>>
      /\ Head(from_fsm) \in Update /\ UpdateLoad(w) \in [Update -> Nat]
    BY <1>1, Parts, LoadTypes DEF FsmPart, FsmTypeOK, FromStateMachine
<1>4. PICK l \in Nat : l = UpdateLoad(w)[Head(from_fsm)]
    BY <1>3
<1>5. PICK m \in Nat : b.from_fsm = l + m /\ Weighs(Tail(from_fsm), UpdateLoad(w), m)
    BY <1>2, <1>3, <1>4, TailWeighs DEF Books
<1>6. todo = <<>> /\ from_fsm' = Tail(from_fsm)
      /\ UNCHANGED <<command_rx, to_fsm, fsm_pending, calls, volumes>>
    BY DEF FromStateMachine, NewState, NewOutput, TransitionError, Handle, AtSelect
<1>7. b.todo = 0
    BY <1>2, <1>6, EmptyWeighsNothing DEF Books
<1>8. ASSUME NEW k \in Nat, k <= l, Weighs(todo', OpLoad(w), k), ws' = ws
      PROVE  LoadInv(w)'
    <2> DEFINE n == Entries(b.command_rx, k, b.to_fsm, b.fsm_pending,
                            m, b.to_ws, b.from_ws, b.report)
    <2>1. n \in Book /\ Total(n) <= Total(b)
        BY <1>5, <1>7, <1>8 DEF Book, Total, Entries
    <2>2. Books(w, n)'
        BY <1>2, <1>5, <1>6, <1>8 DEF Books, Entries
    <2> HIDE DEF n
    <2>3. Total(n) + TaskLoad(w, ws') <= Total(b) + TaskLoad(w, ws)
        BY <1>1, <1>2, <1>8, <2>1, TotalType
    <2> QED
        BY <1>1, <1>2, <1>6, <2>1, <2>2, <2>3, Rebalanced
<1>9. CASE NewState
    <2>1. todo' = StatusOps(Head(from_fsm).tag) /\ ws' = ws
        BY <1>9 DEF NewState, Handle
    <2>2. PICK k \in Nat : k <= 0 /\ Weighs(todo', OpLoad(w), k)
        BY <1>1, <2>1, StatusCosts DEF Costs
    <2>3. k <= l
        BY <1>4, <2>2
    <2> QED
        BY <1>8, <2>1, <2>2, <2>3
<1>10. CASE TransitionError
    <2>1. todo' = <<Out>> /\ ws' = ws
        BY <1>10 DEF TransitionError, Handle
    <2>2. PICK k \in Nat : k <= 0 /\ Weighs(todo', OpLoad(w), k)
        BY <1>1, <2>1, ListsCost DEF Costs
    <2>3. k <= l
        BY <1>4, <2>2
    <2> QED
        BY <1>8, <2>1, <2>2, <2>3
<1>11. CASE NewOutput
    <2> DEFINE tag == Head(from_fsm).tag
    <2>1. tag \in OutputTag /\ l = w.output[tag]
        BY <1>3, <1>4, <1>11 DEF NewOutput, Update, UpdateLoad
    <2>2. todo' = OutputOps(tag)
        BY <1>11 DEF NewOutput, Handle
    <2>3. CASE tag = "ConnectToTv"
        <3>1. todo' = <<>>
            BY <2>2, <2>3 DEF OutputOps
        <3>2. ws' = [NoTask EXCEPT !.phase = "connecting"]
            BY <1>11, <2>3 DEF NewOutput
        <3>3. ws' = [phase |-> "connecting", session |-> "idle", to_ws |-> <<>>,
                     from_ws |-> <<>>, report |-> <<>>, writing |-> None]
            BY <3>2 DEF NoTask
        <3>4. w.connection \in Nat /\ w.connection <= l
            BY <1>1, <2>1, <2>3, Rates DEF HandlersCovered
        <3>5. TaskLoad(w, ws') = w.connection
            BY <3>3, <3>4 DEF TaskLoad
        <3> DEFINE n == Entries(b.command_rx, 0, b.to_fsm, b.fsm_pending, m, 0, 0, 0)
        <3>6. n \in Book /\ Total(n) + l <= Total(b)
            BY <1>5, <1>7 DEF Book, Total, Entries
        <3>7. Books(w, n)'
            BY <1>2, <1>5, <1>6, <3>1, <3>3, EmptyWeighs DEF Books, Entries
        <3> HIDE DEF n
        <3>8. Total(n) + TaskLoad(w, ws') <= Total(b) + TaskLoad(w, ws)
            BY <1>1, <1>2, <3>4, <3>5, <3>6, TotalType
        <3> QED
            BY <1>1, <1>2, <1>6, <3>6, <3>7, <3>8, Rebalanced
    <2>4. CASE tag # "ConnectToTv"
        <3>1. ws' = ws
            BY <1>11, <2>4 DEF NewOutput
        <3>2. PICK k \in Nat : k <= l /\ Weighs(todo', OpLoad(w), k)
            BY <1>1, <2>1, <2>2, OutputCosts DEF Costs
        <3> QED
            BY <1>8, <3>1, <3>2
    <2> QED
        BY <2>3, <2>4
<1> QED
    BY <1>9, <1>10, <1>11 DEF FromStateMachine

\* A report pays for its handler.
LEMMA FromWebSocketLoad ==
    ASSUME NEW w, Covers(w), TypeInv, TypeInv', LoadInv(w), FromWebSocket
    PROVE  LoadInv(w)'
<1>1. w \in Tariff /\ TaskLoad(w, ws) \in Nat /\ HandlersCovered(w)
    BY Opened DEF Covers
<1>2. PICK b \in Book : /\ Books(w, b) /\ Total(b) \in Nat
                        /\ Total(b) + TaskLoad(w, ws) <= Allowance(w, calls, volumes)
    BY Opened
<1>3. /\ ws \in WsType /\ ws.from_ws \in Seq(WsUpdate) /\ ws.from_ws # <<>>
      /\ Head(ws.from_ws) \in WsUpdate /\ w.report \in [WsUpdate -> Nat]
    BY <1>1, Parts, LoadTypes DEF WsPart, WsType, FromWebSocket
<1>4. PICK l \in Nat : l = w.report[Head(ws.from_ws)]
    BY <1>3
<1>5. PICK m \in Nat : b.from_ws = l + m /\ Weighs(Tail(ws.from_ws), w.report, m)
    BY <1>2, <1>3, <1>4, TailWeighs DEF Books
<1>6. todo = <<>> /\ todo' = UpdateOps(Head(ws.from_ws))
      /\ ws' = [ws EXCEPT !.from_ws = Tail(ws.from_ws)]
      /\ UNCHANGED <<command_rx, to_fsm, from_fsm, fsm_pending, calls, volumes>>
    BY DEF FromWebSocket, Handle, AtSelect, fsm_vars
<1>7. b.todo = 0
    BY <1>2, <1>6, EmptyWeighsNothing DEF Books
<1>8. PICK k \in Nat : k <= l /\ Weighs(todo', OpLoad(w), k)
    BY <1>1, <1>3, <1>4, <1>6, UpdateCosts DEF Costs
<1>9. /\ ws'.from_ws = Tail(ws.from_ws) /\ ws'.to_ws = ws.to_ws /\ ws'.report = ws.report
      /\ ws'.phase = ws.phase /\ ws'.session = ws.session /\ ws'.writing = ws.writing
    BY <1>3, <1>6 DEF WsType
<1>10. TaskLoad(w, ws') = TaskLoad(w, ws)
    BY <1>9 DEF TaskLoad
<1> DEFINE n == Entries(b.command_rx, k, b.to_fsm, b.fsm_pending,
                        b.from_fsm, b.to_ws, m, b.report)
<1>11. n \in Book /\ Total(n) <= Total(b)
    BY <1>5, <1>7, <1>8 DEF Book, Total, Entries
<1>12. Books(w, n)'
    BY <1>2, <1>5, <1>6, <1>8, <1>9 DEF Books, Entries
<1> HIDE DEF n
<1>13. Total(n) + TaskLoad(w, ws') <= Total(b) + TaskLoad(w, ws)
    BY <1>1, <1>2, <1>10, <1>11, TotalType
<1> QED
    BY <1>1, <1>2, <1>6, <1>11, <1>12, <1>13, Rebalanced

\* The operation the manager completes pays for those it puts in its place.
LEMMA GoesOn ==
    ASSUME NEW w \in Tariff, TypeInv, NEW b \in Book, Books(w, b),
           NEW op, IsNext(op), NEW ops, NEW k \in Nat, Costs(ops, w, k), Continue(ops)
    PROVE  \E l, t \in Nat : /\ l = OpLoad(w)[Head(todo)]
                             /\ t + l <= b.todo + k
                             /\ Weighs(todo', OpLoad(w), t)
<1>1. /\ todo \in Seq(Operation) /\ todo # <<>> /\ Head(todo) \in Operation
      /\ Tail(todo) \in Seq(Operation) /\ OpLoad(w) \in [Operation -> Nat]
    BY Parts, NextOperation, LoadTypes DEF HandlerPart
<1>2. PICK l \in Nat : l = OpLoad(w)[Head(todo)]
    BY <1>1
<1>3. PICK m \in Nat : b.todo = l + m /\ Weighs(Tail(todo), OpLoad(w), m)
    BY <1>1, <1>2, TailWeighs DEF Books
<1>4. PICK j \in Nat : j <= k /\ Weighs(ops, OpLoad(w), j)
    BY DEF Costs
<1>5. ops \in Seq(Operation) /\ todo' = ops \o Tail(todo)
    BY DEF Costs, Continue
<1>6. Weighs(todo', OpLoad(w), j + m)
    BY <1>1, <1>3, <1>4, <1>5, ConcatWeighs
<1>7. j + m \in Nat /\ (j + m) + l <= b.todo + k
    BY <1>3, <1>4
<1> QED
    BY <1>2, <1>6, <1>7

\* An operation that leaves the channels and the task alone.
LEMMA QuietLoad ==
    ASSUME NEW w, Covers(w), TypeInv, TypeInv', LoadInv(w), NEW op, IsNext(op),
           NEW ops, NEW k \in Nat, k <= OpLoad(w)[Head(todo)], Costs(ops, w, k), Continue(ops),
           UNCHANGED <<to_fsm, ws>>
    PROVE  LoadInv(w)'
<1>1. w \in Tariff /\ TaskLoad(w, ws) \in Nat
    BY Opened
<1>2. PICK b \in Book : /\ Books(w, b) /\ Total(b) \in Nat
                        /\ Total(b) + TaskLoad(w, ws) <= Allowance(w, calls, volumes)
    BY Opened
<1>3. PICK l, t \in Nat : l = OpLoad(w)[Head(todo)] /\ t + l <= b.todo + k
                          /\ Weighs(todo', OpLoad(w), t)
    BY <1>1, <1>2, GoesOn
<1>4. t <= b.todo
    BY <1>3 DEF Book
<1>5. UNCHANGED <<command_rx, from_fsm, fsm_pending, calls, volumes>>
    BY DEF Continue
<1> DEFINE n == Entries(b.command_rx, t, b.to_fsm, b.fsm_pending,
                        b.from_fsm, b.to_ws, b.from_ws, b.report)
<1>6. n \in Book /\ Total(n) <= Total(b)
    BY <1>4 DEF Book, Total, Entries
<1>7. Books(w, n)'
    BY <1>2, <1>3, <1>5 DEF Books, Entries
<1> HIDE DEF n
<1>8. Total(n) + TaskLoad(w, ws') <= Total(b) + TaskLoad(w, ws)
    BY <1>1, <1>2, <1>6, TotalType
<1> QED
    BY <1>1, <1>2, <1>5, <1>6, <1>7, <1>8, Rebalanced

\* An operation that is over and puts nothing in its place.
LEMMA OnwardLoad ==
    ASSUME NEW w, Covers(w), TypeInv, TypeInv', LoadInv(w), NEW op, IsNext(op),
           Continue(<<>>), UNCHANGED <<to_fsm, ws>>
    PROVE  LoadInv(w)'
<1>1. w \in Tariff
    BY DEF Covers
<1>2. OpLoad(w)[Head(todo)] \in Nat
    BY <1>1, LoadTypes, NextOperation
<1>3. 0 <= OpLoad(w)[Head(todo)]
    BY <1>2
<1> QED
    BY <1>3, CostsNothing, QuietLoad

\* The operation pays for the Input it sends.
LEMMA SendToFsmLoad ==
    ASSUME NEW w, Covers(w), TypeInv, TypeInv', LoadInv(w), SendToFsm
    PROVE  LoadInv(w)'
<1>1. w \in Tariff /\ TaskLoad(w, ws) \in Nat
    BY Opened
<1>2. IsNext("fsm") /\ UNCHANGED ws
    BY DEF SendToFsm
<1>3. CASE fsm_alive
    <2>1. to_fsm' = Append(to_fsm, Head(todo).arg) /\ Continue(<<>>)
        BY <1>3 DEF SendToFsm
    <2>2. PICK b \in Book : /\ Books(w, b) /\ Total(b) \in Nat
                            /\ Total(b) + TaskLoad(w, ws) <= Allowance(w, calls, volumes)
        BY Opened
    <2>3. PICK l, t \in Nat : l = OpLoad(w)[Head(todo)] /\ t + l <= b.todo + 0
                              /\ Weighs(todo', OpLoad(w), t)
        BY <1>1, <1>2, <2>1, <2>2, CostsNothing, GoesOn
    <2>4. Head(todo) \in Operation /\ Head(todo).op = "fsm"
        BY <1>2, NextOperation
    <2>5. Head(todo).arg \in Input
        BY <2>4 DEF Operation, Stopped, Stop, Op
    <2>6. InputLoad(w)[Head(todo).arg] = l
        BY <2>3, <2>4, <2>5 DEF OpLoad, InputLoad
    <2>7. to_fsm \in Seq(Input) /\ InputLoad(w) \in [Input -> Nat] /\ b.to_fsm \in Nat
        BY <1>1, Parts, LoadTypes DEF FsmPart, FsmTypeOK, Book
    <2>8. Weighs(to_fsm', InputLoad(w), b.to_fsm + l)
        BY <2>1, <2>2, <2>5, <2>6, <2>7, AppendWeighs DEF Books
    <2>9. UNCHANGED <<command_rx, from_fsm, fsm_pending, calls, volumes>>
        BY <2>1 DEF Continue
    <2> DEFINE n == Entries(b.command_rx, t, b.to_fsm + l, b.fsm_pending,
                            b.from_fsm, b.to_ws, b.from_ws, b.report)
    <2>10. n \in Book /\ Total(n) <= Total(b)
        BY <2>3 DEF Book, Total, Entries
    <2>11. Books(w, n)'
        BY <1>2, <2>2, <2>3, <2>8, <2>9 DEF Books, Entries
    <2> HIDE DEF n
    <2>12. Total(n) + TaskLoad(w, ws') <= Total(b) + TaskLoad(w, ws)
        BY <1>1, <1>2, <2>2, <2>10, TotalType
    <2> QED
        BY <1>1, <2>2, <2>9, <2>10, <2>11, <2>12, Rebalanced
<1>4. CASE ~fsm_alive
    <2>1. Continue(<<Out, Out>>) /\ UNCHANGED to_fsm
        BY <1>4 DEF SendToFsm
    <2>2. Costs(<<Out, Out>>, w, 0)
        BY <1>1, ListsCost
    <2>3. OpLoad(w)[Head(todo)] \in Nat
        BY <1>1, <1>2, LoadTypes, NextOperation
    <2>4. 0 <= OpLoad(w)[Head(todo)]
        BY <2>3
    <2> QED
        BY <1>2, <2>1, <2>2, <2>4, QuietLoad
<1> QED
    BY <1>3, <1>4

\* A message handed to the task is charged no more than the operation was.
LEMMA SendToOpenWsLoad ==
    ASSUME NEW w, Covers(w), TypeInv, TypeInv', LoadInv(w), NEW op, IsNext(op),
           NEW message \in WsMessage, w.asked[message] <= OpLoad(w)[Head(todo)],
           SendToOpenWs(message), UNCHANGED to_fsm
    PROVE  LoadInv(w)'
<1>1. w \in Tariff /\ TaskLoad(w, ws) \in Nat /\ w.asked[message] \in Nat
    BY Opened, Rates
<1>2. PICK b \in Book : /\ Books(w, b) /\ Total(b) \in Nat
                        /\ Total(b) + TaskLoad(w, ws) <= Allowance(w, calls, volumes)
    BY Opened
<1>3. Continue(<<>>) /\ ws' = [ws EXCEPT !.to_ws = Append(ws.to_ws, message)]
    BY DEF SendToOpenWs
<1>4. PICK l, t \in Nat : l = OpLoad(w)[Head(todo)] /\ t + l <= b.todo + 0
                          /\ Weighs(todo', OpLoad(w), t)
    BY <1>1, <1>2, <1>3, CostsNothing, GoesOn
<1>5. ws \in WsType /\ ws.to_ws \in Seq(WsMessage)
    BY Parts DEF WsPart, WsType
<1>6. /\ ws'.to_ws = Append(ws.to_ws, message) /\ ws'.from_ws = ws.from_ws
      /\ ws'.report = ws.report /\ ws'.phase = ws.phase /\ ws'.session = ws.session
      /\ ws'.writing = ws.writing
    BY <1>3, <1>5 DEF WsType
<1>7. TaskLoad(w, ws') = TaskLoad(w, ws)
    BY <1>6 DEF TaskLoad
<1>8. Weighs(ws'.to_ws, w.asked, b.to_ws + w.asked[message])
    <2>1. w.asked \in [WsMessage -> Nat] /\ b.to_ws \in Nat
        BY <1>1, LoadTypes DEF Book
    <2> QED
        BY <1>2, <1>5, <1>6, <2>1, AppendWeighs DEF Books
<1>9. UNCHANGED <<command_rx, from_fsm, fsm_pending, calls, volumes>>
    BY <1>3 DEF Continue
<1> DEFINE n == Entries(b.command_rx, t, b.to_fsm, b.fsm_pending,
                        b.from_fsm, b.to_ws + w.asked[message], b.from_ws, b.report)
<1>10. n \in Book /\ Total(n) <= Total(b)
    BY <1>1, <1>4 DEF Book, Total, Entries
<1>11. Books(w, n)'
    BY <1>2, <1>4, <1>6, <1>8, <1>9 DEF Books, Entries
<1> HIDE DEF n
<1>12. Total(n) + TaskLoad(w, ws') <= Total(b) + TaskLoad(w, ws)
    BY <1>1, <1>2, <1>7, <1>10, TotalType
<1> QED
    BY <1>1, <1>2, <1>9, <1>10, <1>11, <1>12, Rebalanced

\* It pays for the message it sends, or for the reset.
LEMMA SendToWsLoad ==
    ASSUME NEW w, Covers(w), TypeInv, TypeInv', LoadInv(w), SendToWs
    PROVE  LoadInv(w)'
<1>1. w \in Tariff /\ HandlersCovered(w)
    BY DEF Covers
<1>2. IsNext("ws") /\ UNCHANGED to_fsm
    BY DEF SendToWs
<1>3. Head(todo) \in Operation /\ Head(todo).op = "ws"
    BY <1>2, NextOperation
<1>4. Head(todo).arg \in WsMessage
    BY <1>3 DEF Operation, Stopped, Stop, Op
<1>5. OpLoad(w)[Head(todo)] = w.ask[Head(todo).arg]
    BY <1>3 DEF OpLoad
<1>6. /\ w.asked[Head(todo).arg] <= OpLoad(w)[Head(todo)]
      /\ w.input["Reset"] <= OpLoad(w)[Head(todo)]
      /\ w.input["Reset"] \in Nat
    BY <1>1, <1>4, <1>5, Rates DEF HandlersCovered, InputTag
<1>7. CASE SendToOpenWs(Head(todo).arg)
    BY <1>2, <1>4, <1>6, <1>7, SendToOpenWsLoad
<1>8. CASE UNCHANGED ws /\ Continue(IF ws.phase = "none" THEN <<>> ELSE ResetOps)
    <2>1. CASE ws.phase = "none"
        BY <1>2, <1>8, <2>1, OnwardLoad
    <2>2. CASE ws.phase # "none"
        BY <1>1, <1>2, <1>6, <1>8, <2>2, ListsCost, QuietLoad
    <2> QED
        BY <2>1, <2>2
<1> QED
    BY <1>7, <1>8 DEF SendToWs

\* The ShutDown of a reset is charged to the task it ends.
LEMMA TellWsToShutDownLoad ==
    ASSUME NEW w, Covers(w), TypeInv, TypeInv', LoadInv(w), TellWsToShutDown
    PROVE  LoadInv(w)'
<1>1. w \in Tariff /\ HandlersCovered(w)
    BY DEF Covers
<1>2. IsNext("tell") /\ UNCHANGED to_fsm
    BY DEF TellWsToShutDown
<1>3. OpLoad(w)[Head(todo)] \in Nat /\ w.asked["ShutDown"] = 0 /\ "ShutDown" \in WsMessage
    BY <1>1, <1>2, NextOperation, LoadTypes DEF HandlersCovered, WsMessage
<1>4. w.asked["ShutDown"] <= OpLoad(w)[Head(todo)]
    BY <1>3
<1>5. CASE SendToOpenWs("ShutDown")
    BY <1>2, <1>3, <1>4, <1>5, SendToOpenWsLoad
<1>6. CASE Continue(<<>>) /\ UNCHANGED ws
    BY <1>2, <1>6, OnwardLoad
<1> QED
    BY <1>5, <1>6 DEF TellWsToShutDown

\* The ShutDown is handed on.
LEMMA DisconnectFromTvLoad ==
    ASSUME NEW w, Covers(w), TypeInv, TypeInv', LoadInv(w), DisconnectFromTv
    PROVE  LoadInv(w)'
<1>1. w \in Tariff
    BY DEF Covers
<1>2. IsNext("shut_down") /\ UNCHANGED <<to_fsm, ws>>
      /\ Continue(IF mgr.ws_join_handle THEN <<Ws("ShutDown")>> ELSE <<>>)
    BY DEF DisconnectFromTv
<1>3. CASE mgr.ws_join_handle
    <2>1. Head(todo) \in Operation /\ Head(todo).op = "shut_down"
        BY <1>2, NextOperation
    <2>2. OpLoad(w)[Head(todo)] = w.ask["ShutDown"]
        BY <2>1 DEF OpLoad
    <2>3. "ShutDown" \in WsMessage /\ w.ask["ShutDown"] \in Nat
        BY <1>1, Rates DEF WsMessage
    <2>4. Ws("ShutDown") \in Operation /\ OpLoad(w)[Ws("ShutDown")] = w.ask["ShutDown"]
        BY <2>3, Operations, OperationLoads
    <2>5. Costs(<<Ws("ShutDown")>>, w, w.ask["ShutDown"])
        <3>1. w.ask["ShutDown"] <= w.ask["ShutDown"]
            BY <2>3
        <3> QED
            BY <1>1, <2>3, <2>4, <3>1, CostsOne
    <2>6. w.ask["ShutDown"] <= OpLoad(w)[Head(todo)]
        BY <2>2, <2>3
    <2>7. Continue(<<Ws("ShutDown")>>)
        BY <1>2, <1>3
    <2> QED
        BY <1>2, <2>3, <2>5, <2>6, <2>7, QuietLoad
<1>4. CASE ~mgr.ws_join_handle
    BY <1>2, <1>4, OnwardLoad
<1> QED
    BY <1>3, <1>4

\* Every operation of the manager.
LEMMA WorkOffLoad ==
    ASSUME NEW w, Covers(w), TypeInv, TypeInv', LoadInv(w), WorkOff
    PROVE  LoadInv(w)'
<1>1. CASE SendOut
    <2>1. IsNext("out") /\ Continue(<<>>) /\ UNCHANGED <<to_fsm, ws>>
        BY <1>1 DEF SendOut
    <2> QED
        BY <2>1, OnwardLoad
<1>2. CASE JoinWs
    <2>1. IsNext("join") /\ Continue(<<>>) /\ UNCHANGED <<to_fsm, ws>>
        BY <1>2 DEF JoinWs
    <2> QED
        BY <2>1, OnwardLoad
<1>3. CASE AwaitMachine
    <2>1. IsNext("stopped") /\ Continue(<<>>) /\ UNCHANGED <<to_fsm, ws>>
        BY <1>3 DEF AwaitMachine
    <2> QED
        BY <2>1, OnwardLoad
<1> QED
    BY <1>1, <1>2, <1>3, SendToFsmLoad, SendToWsLoad, TellWsToShutDownLoad, DisconnectFromTvLoad
       DEF WorkOff

-----------------------------------------------------------------------------
(* The WebSocket task and the TV.                                          *)

\* A step of the task or the TV alone: its channels, its report and its charge.
LEMMA BecomesLoad ==
    ASSUME NEW w, Covers(w), TypeInv, TypeInv',
           NEW b \in Book, Books(w, b),
           Total(b) + TaskLoad(w, ws) <= Allowance(w, calls, volumes),
           NEW a \in Nat, NEW f \in Nat, NEW r \in Nat,
           Weighs(ws'.to_ws, w.asked, a),
           Weighs(ws'.from_ws, w.report, f),
           Weighs(ws'.report, w.report, r),
           a + f + r + TaskLoad(w, ws') <= b.to_ws + b.from_ws + b.report + TaskLoad(w, ws),
           UNCHANGED <<fsm_vars, fsm_pending, command_rx, todo, calls, volumes>>
    PROVE  LoadInv(w)'
<1>1. w \in Tariff
    BY DEF Covers
<1>2. TaskLoad(w, ws) \in Nat /\ TaskLoad(w, ws') \in Nat
    <2>1. ws \in WsType /\ ws' \in WsType
        BY DEF TypeInv, TypeOK, WsType, Session
    <2> QED
        BY <1>1, <2>1, TaskLoadType
<1>3. UNCHANGED <<to_fsm, from_fsm>>
    BY DEF fsm_vars
<1> DEFINE n == Entries(b.command_rx, b.todo, b.to_fsm, b.fsm_pending, b.from_fsm, a, f, r)
<1>4. n \in Book /\ Total(n) + TaskLoad(w, ws') <= Total(b) + TaskLoad(w, ws)
    BY <1>2 DEF Book, Total, Entries
<1>5. Books(w, n)'
    BY <1>3 DEF Books, Entries
<1> HIDE DEF n
<1> QED
    BY <1>1, <1>4, <1>5, Rebalanced

\* A report moves into the channel.
LEMMA WsReportsLoad ==
    ASSUME NEW w, Covers(w), TypeInv, TypeInv', LoadInv(w), WsReports
    PROVE  LoadInv(w)'
<1>1. w \in Tariff
    BY DEF Covers
<1>2. PICK b \in Book :
          Books(w, b) /\ Total(b) + TaskLoad(w, ws) <= Allowance(w, calls, volumes)
    BY Opened
<1>3. /\ ws \in WsType /\ ws.report \in Seq(WsUpdate) /\ ws.from_ws \in Seq(WsUpdate)
      /\ ws.report # <<>> /\ Head(ws.report) \in WsUpdate /\ w.report \in [WsUpdate -> Nat]
    BY <1>1, Parts, LoadTypes DEF WsPart, WsType, WsReports
<1>4. PICK l \in Nat : l = w.report[Head(ws.report)]
    BY <1>3
<1>5. PICK m \in Nat : b.report = l + m /\ Weighs(Tail(ws.report), w.report, m)
    BY <1>2, <1>3, <1>4, TailWeighs DEF Books
<1>6. b.from_ws \in Nat /\ b.to_ws \in Nat
    BY DEF Book
<1>7. Weighs(Append(ws.from_ws, Head(ws.report)), w.report, b.from_ws + l)
    BY <1>2, <1>3, <1>4, <1>6, AppendWeighs DEF Books
<1>8. ws' = [ws EXCEPT !.from_ws = Append(ws.from_ws, Head(ws.report)),
                       !.report = Tail(ws.report)]
      /\ UNCHANGED <<fsm_vars, fsm_pending, command_rx, todo, calls, volumes>>
    BY DEF WsReports, Becomes
<1>9. /\ ws'.to_ws = ws.to_ws /\ ws'.from_ws = Append(ws.from_ws, Head(ws.report))
      /\ ws'.report = Tail(ws.report)
      /\ ws'.phase = ws.phase /\ ws'.session = ws.session /\ ws'.writing = ws.writing
    BY <1>3, <1>8 DEF WsType
<1>10. TaskLoad(w, ws') = TaskLoad(w, ws) /\ TaskLoad(w, ws) \in Nat
    BY <1>9, Opened DEF TaskLoad
<1>11. b.to_ws + (b.from_ws + l) + m + TaskLoad(w, ws')
           <= b.to_ws + b.from_ws + b.report + TaskLoad(w, ws)
    BY <1>5, <1>6, <1>10
<1>12. Weighs(ws.to_ws, w.asked, b.to_ws)
    BY <1>2 DEF Books
<1>13. b.from_ws + l \in Nat
    BY <1>6
<1> QED
    BY <1>2, <1>5, <1>6, <1>7, <1>8, <1>9, <1>11, <1>12, <1>13, BecomesLoad

\* The message the task now writes is charged as it was in the channel.
LEMMA WsWritesLoad ==
    ASSUME NEW w, Covers(w), TypeInv, TypeInv', LoadInv(w), WsWrites
    PROVE  LoadInv(w)'
<1>1. w \in Tariff
    BY DEF Covers
<1>2. PICK b \in Book :
          Books(w, b) /\ Total(b) + TaskLoad(w, ws) <= Allowance(w, calls, volumes)
    BY Opened
<1>3. /\ ws \in WsType /\ ws.to_ws \in Seq(WsMessage) /\ ws.to_ws # <<>>
      /\ Head(ws.to_ws) \in WsMessage /\ w.asked \in [WsMessage -> Nat]
    BY <1>1, Parts, LoadTypes DEF WsPart, WsType, WsWrites
<1>4. PICK l \in Nat : l = w.asked[Head(ws.to_ws)]
    BY <1>3
<1>5. PICK m \in Nat : b.to_ws = l + m /\ Weighs(Tail(ws.to_ws), w.asked, m)
    BY <1>2, <1>3, <1>4, TailWeighs DEF Books
<1>6. ws' = [ws EXCEPT !.writing = Head(ws.to_ws), !.to_ws = Tail(ws.to_ws)]
      /\ UNCHANGED <<fsm_vars, fsm_pending, command_rx, todo, calls, volumes>>
    BY DEF WsWrites, Becomes
<1>7. /\ ws'.to_ws = Tail(ws.to_ws) /\ ws'.from_ws = ws.from_ws /\ ws'.report = ws.report
      /\ ws'.phase = ws.phase /\ ws'.session = ws.session /\ ws'.writing = Head(ws.to_ws)
    BY <1>3, <1>6 DEF WsType
<1>8. TaskLoad(w, ws') = TaskLoad(w, ws) + l /\ TaskLoad(w, ws) \in Nat
    <2>1. ws.writing = None /\ ws.phase = "running" /\ Head(ws.to_ws) # None
        BY <1>3, BackpressureAssumption DEF WsWrites, IsFree
    <2>2. ws.session \in Session
        BY <1>3 DEF WsType
    <2>3. w.open + w.session[ws.session] \in Nat
        BY <1>1, <2>2, Rates
    <2> QED
        BY <1>4, <1>7, <2>1, <2>3 DEF TaskLoad
<1>9. b.from_ws \in Nat /\ b.report \in Nat
    BY DEF Book
<1>10. m + b.from_ws + b.report + TaskLoad(w, ws')
           <= b.to_ws + b.from_ws + b.report + TaskLoad(w, ws)
    BY <1>5, <1>8, <1>9
<1>11. Weighs(ws.from_ws, w.report, b.from_ws) /\ Weighs(ws.report, w.report, b.report)
    BY <1>2 DEF Books
<1> QED
    BY <1>2, <1>5, <1>6, <1>7, <1>9, <1>10, <1>11, BecomesLoad

\* The messages that are dropped are taken off the books.
LEMMA WsEndsLoad ==
    ASSUME NEW w, Covers(w), TypeInv, TypeInv', LoadInv(w), WsEnds
    PROVE  LoadInv(w)'
<1>1. w \in Tariff
    BY DEF Covers
<1>2. PICK b \in Book :
          Books(w, b) /\ Total(b) + TaskLoad(w, ws) <= Allowance(w, calls, volumes)
    BY Opened
<1>3. ws \in WsType /\ ws.phase = "closing" /\ ws.writing = None
    BY Parts DEF WsPart, WsEnds, IsFree
<1>4. ws' = [ws EXCEPT !.phase = "ended", !.to_ws = <<>>]
      /\ UNCHANGED <<fsm_vars, fsm_pending, command_rx, todo, calls, volumes>>
    BY DEF WsEnds, Becomes
<1>5. /\ ws'.to_ws = <<>> /\ ws'.from_ws = ws.from_ws /\ ws'.report = ws.report
      /\ ws'.phase = "ended" /\ ws'.writing = None
    BY <1>3, <1>4 DEF WsType
<1>6. TaskLoad(w, ws) = 0 /\ TaskLoad(w, ws') = 0
    BY <1>3, <1>5 DEF TaskLoad
<1>7. b.to_ws \in Nat /\ b.from_ws \in Nat /\ b.report \in Nat
    BY DEF Book
<1>8. 0 + b.from_ws + b.report + TaskLoad(w, ws')
           <= b.to_ws + b.from_ws + b.report + TaskLoad(w, ws)
    BY <1>6, <1>7
<1>9. Weighs(ws'.to_ws, w.asked, 0)
    BY <1>5, EmptyWeighs
<1>10. Weighs(ws.from_ws, w.report, b.from_ws) /\ Weighs(ws.report, w.report, b.report)
    BY <1>2 DEF Books
<1> QED
    BY <1>2, <1>4, <1>5, <1>7, <1>8, <1>9, <1>10, BecomesLoad

\* A task with nothing to report gets a report, paid for by what it is charged.
LEMMA ReportsLoad ==
    ASSUME NEW w, Covers(w), TypeInv, TypeInv', LoadInv(w),
           NEW r \in Nat, Weighs(ws'.report, w.report, r),
           r + TaskLoad(w, ws') <= TaskLoad(w, ws),
           ws'.to_ws = ws.to_ws, ws'.from_ws = ws.from_ws,
           UNCHANGED <<fsm_vars, fsm_pending, command_rx, todo, calls, volumes>>
    PROVE  LoadInv(w)'
<1>1. PICK b \in Book :
          Books(w, b) /\ Total(b) + TaskLoad(w, ws) <= Allowance(w, calls, volumes)
    BY Opened
<1>2. b.to_ws \in Nat /\ b.from_ws \in Nat /\ b.report \in Nat
    BY DEF Book
<1>3. TaskLoad(w, ws) \in Nat /\ TaskLoad(w, ws') \in Nat
    <2>1. ws \in WsType /\ ws' \in WsType
        BY DEF TypeInv, TypeOK, WsType, Session
    <2> QED
        BY <2>1, TaskLoadType DEF Covers
<1>4. b.to_ws + b.from_ws + r + TaskLoad(w, ws')
          <= b.to_ws + b.from_ws + b.report + TaskLoad(w, ws)
    BY <1>2, <1>3
<1>5. Weighs(ws'.to_ws, w.asked, b.to_ws) /\ Weighs(ws'.from_ws, w.report, b.from_ws)
    BY <1>1 DEF Books
<1> QED
    BY <1>1, <1>2, <1>4, <1>5, BecomesLoad

\* A single report.
LEMMA ReportWeighs ==
    ASSUME NEW w \in Tariff, NEW update \in WsUpdate
    PROVE  w.report[update] \in Nat /\ Weighs(<<update>>, w.report, w.report[update])
BY LoadTypes, Rates, OneWeighs

\* A task that connects has paid for its report and for the connection.
LEMMA WsConnectsLoad ==
    ASSUME NEW w, Covers(w), TypeInv, TypeInv', LoadInv(w), WsConnects
    PROVE  LoadInv(w)'
<1>1. w \in Tariff /\ TaskCovered(w)
    BY DEF Covers
<1>2. /\ ws \in WsType /\ ws.phase = "connecting" /\ ws.session = "idle"
      /\ ws.report = <<>> /\ ws.writing = None
    BY Parts DEF WsPart, InOrder, WsConnects
<1>3. TaskLoad(w, ws) = w.connection /\ w.connection \in Nat /\ w.open \in Nat
      /\ w.session["idle"] \in Nat
    BY <1>1, <1>2, Rates DEF TaskLoad, Session
<1>4. UNCHANGED <<fsm_vars, fsm_pending, command_rx, todo, calls, volumes>>
    BY DEF WsConnects, Becomes
<1>5. CASE ws' = [ws EXCEPT !.phase = "running", !.report = <<"Connected">>]
    <2>1. /\ ws'.to_ws = ws.to_ws /\ ws'.from_ws = ws.from_ws /\ ws'.report = <<"Connected">>
          /\ ws'.phase = "running" /\ ws'.session = "idle" /\ ws'.writing = None
        BY <1>2, <1>5 DEF WsType
    <2>2. TaskLoad(w, ws') = w.open + w.session["idle"]
        BY <1>3, <2>1 DEF TaskLoad
    <2>3. w.report["Connected"] \in Nat
          /\ Weighs(ws'.report, w.report, w.report["Connected"])
        BY <1>1, <2>1, ReportWeighs DEF WsUpdate
    <2>4. w.report["Connected"] + TaskLoad(w, ws') <= TaskLoad(w, ws)
        BY <1>1, <1>3, <2>2, <2>3 DEF TaskCovered
    <2> QED
        BY <1>4, <2>1, <2>3, <2>4, ReportsLoad
<1>6. CASE ws' = [ws EXCEPT !.phase = "closing", !.report = <<"ConnectError">>]
    <2>1. /\ ws'.to_ws = ws.to_ws /\ ws'.from_ws = ws.from_ws
          /\ ws'.report = <<"ConnectError">>
          /\ ws'.phase = "closing" /\ ws'.writing = None
        BY <1>2, <1>6 DEF WsType
    <2>2. TaskLoad(w, ws') = 0
        BY <2>1 DEF TaskLoad
    <2>3. w.report["ConnectError"] \in Nat
          /\ Weighs(ws'.report, w.report, w.report["ConnectError"])
        BY <1>1, <2>1, ReportWeighs DEF WsUpdate
    <2>4. w.report["ConnectError"] + TaskLoad(w, ws') <= TaskLoad(w, ws)
        BY <1>1, <1>3, <2>2, <2>3 DEF TaskCovered
    <2> QED
        BY <1>4, <2>1, <2>3, <2>4, ReportsLoad
<1> QED
    BY <1>5, <1>6 DEF WsConnects, Becomes

\* What a task that runs is charged.
LEMMA RunningLoad ==
    ASSUME NEW w \in Tariff, NEW task \in WsType, task.phase = "running"
    PROVE  /\ TaskLoad(w, task) = w.open + w.session[task.session]
                                  + (IF task.writing = None THEN 0 ELSE w.asked[task.writing])
           /\ w.open \in Nat /\ w.session[task.session] \in Nat
           /\ task.writing # None => w.asked[task.writing] \in Nat
<1>1. task.session \in Session /\ (task.writing # None => task.writing \in WsMessage)
    BY DEF WsType
<1> QED
    BY <1>1, Rates DEF TaskLoad

\* What was written pays for what the TV now owes.
LEMMA TvReadsLoad ==
    ASSUME NEW w, Covers(w), TypeInv, TypeInv', LoadInv(w), TvReads
    PROVE  LoadInv(w)'
<1>1. w \in Tariff /\ TaskCovered(w)
    BY DEF Covers
<1>2. PICK b \in Book :
          Books(w, b) /\ Total(b) + TaskLoad(w, ws) <= Allowance(w, calls, volumes)
    BY Opened
<1>3. ws \in WsType /\ ws.writing # None /\ ws.writing \in WsMessage /\ ws.phase = "running"
    BY Parts DEF WsPart, WsType, InOrder, TvReads
<1>4. UNCHANGED <<fsm_vars, fsm_pending, command_rx, todo, calls, volumes>>
    BY DEF TvReads, Becomes
<1>5. b.to_ws \in Nat /\ b.from_ws \in Nat /\ b.report \in Nat
    BY DEF Book
<1>6. Weighs(ws.to_ws, w.asked, b.to_ws) /\ Weighs(ws.from_ws, w.report, b.from_ws)
      /\ Weighs(ws.report, w.report, b.report)
    BY <1>2 DEF Books
<1>7. TaskLoad(w, ws) = w.open + w.session[ws.session] + w.asked[ws.writing]
      /\ w.open \in Nat /\ w.session[ws.session] \in Nat /\ w.asked[ws.writing] \in Nat
    BY <1>1, <1>3, RunningLoad
<1>8. CASE ws' = [ws EXCEPT !.writing = None, !.phase = "closing",
                            !.report = <<"Disconnected">>]
    <2>1. /\ ws'.to_ws = ws.to_ws /\ ws'.from_ws = ws.from_ws
          /\ ws'.report = <<"Disconnected">>
          /\ ws'.phase = "closing" /\ ws'.writing = None
        BY <1>3, <1>8 DEF WsType
    <2>2. TaskLoad(w, ws') = 0
        BY <2>1 DEF TaskLoad
    <2>3. w.report["Disconnected"] \in Nat
          /\ Weighs(ws'.report, w.report, w.report["Disconnected"])
        BY <1>1, <2>1, ReportWeighs DEF WsUpdate
    <2>4. w.report["ServerClosedConnection"] \in Nat
        BY <1>1, ReportWeighs DEF WsUpdate
    <2>5. w.report["Disconnected"] + TaskLoad(w, ws') <= TaskLoad(w, ws)
        BY <1>1, <1>7, <2>2, <2>3, <2>4 DEF TaskCovered
    <2> QED
        BY <1>4, <2>1, <2>3, <2>5, ReportsLoad
<1>9. ASSUME NEW session \in Session,
             w.session[session] <= w.session[ws.session] + w.asked[ws.writing],
             ws'.to_ws = ws.to_ws, ws'.from_ws = ws.from_ws, ws'.report = ws.report,
             ws'.phase = "running", ws'.session = session, ws'.writing = None
      PROVE  LoadInv(w)'
    <2>1. ws' \in WsType
        BY DEF TypeInv, TypeOK, WsType, Session
    <2>2. TaskLoad(w, ws') = w.open + w.session[session] /\ w.session[session] \in Nat
        BY <1>1, <1>7, <1>9, <2>1, RunningLoad
    <2>3. b.to_ws + b.from_ws + b.report + TaskLoad(w, ws')
              <= b.to_ws + b.from_ws + b.report + TaskLoad(w, ws)
        BY <1>5, <1>7, <1>9, <2>2
    <2> QED
        BY <1>2, <1>4, <1>5, <1>6, <1>9, <2>3, BecomesLoad
<1>10. CASE ws.writing = "Register" /\ ws' = [ws EXCEPT !.writing = None, !.session = "registering"]
    <2>1. w.session["registering"] \in Nat
          /\ w.session["registering"] <= w.session[ws.session] + w.asked[ws.writing]
        BY <1>1, <1>7, <1>10, Rates DEF TaskCovered, Session
    <2>2. /\ ws'.to_ws = ws.to_ws /\ ws'.from_ws = ws.from_ws /\ ws'.report = ws.report
          /\ ws'.phase = "running" /\ ws'.session = "registering" /\ ws'.writing = None
        BY <1>3, <1>10 DEF WsType
    <2> QED
        BY <1>9, <2>1, <2>2 DEF Session
<1>11. CASE ws' = [ws EXCEPT !.writing = None, !.session = "subscribed"]
    <2>1. w.session["subscribed"] <= w.session[ws.session] + w.asked[ws.writing]
        BY <1>1, <1>7 DEF TaskCovered
    <2>2. /\ ws'.to_ws = ws.to_ws /\ ws'.from_ws = ws.from_ws /\ ws'.report = ws.report
          /\ ws'.phase = "running" /\ ws'.session = "subscribed" /\ ws'.writing = None
        BY <1>3, <1>11 DEF WsType
    <2> QED
        BY <1>9, <2>1, <2>2 DEF Session
<1>12. CASE ws' = [ws EXCEPT !.writing = None]
    <2>1. w.session[ws.session] <= w.session[ws.session] + w.asked[ws.writing]
          /\ ws.session \in Session
        BY <1>3, <1>7 DEF WsType
    <2>2. /\ ws'.to_ws = ws.to_ws /\ ws'.from_ws = ws.from_ws /\ ws'.report = ws.report
          /\ ws'.phase = "running" /\ ws'.session = ws.session /\ ws'.writing = None
        BY <1>3, <1>12 DEF WsType
    <2> QED
        BY <1>9, <2>1, <2>2
<1>13. \/ ws' = [ws EXCEPT !.writing = None, !.phase = "closing", !.report = <<"Disconnected">>]
       \/ ws.writing = "Register" /\ ws' = [ws EXCEPT !.writing = None, !.session = "registering"]
       \/ ws' = [ws EXCEPT !.writing = None, !.session = "subscribed"]
       \/ ws' = [ws EXCEPT !.writing = None]
    <2>1. CASE ws.writing = "ShutDown"
        BY <2>1 DEF TvReads, Becomes
    <2>2. CASE ws.writing = "Register"
        BY <2>2 DEF TvReads, Becomes
    <2>3. CASE ws.writing = "Initialize"
        BY <2>3 DEF TvReads, Becomes
    <2>4. CASE ws.writing = "Command"
        BY <2>4 DEF TvReads, Becomes
    <2> QED
        BY <1>3, <2>1, <2>2, <2>3, <2>4 DEF WsMessage
<1> QED
    BY <1>8, <1>10, <1>11, <1>12, <1>13

\* A registration has paid for its answers.
LEMMA TvRegistersLoad ==
    ASSUME NEW w, Covers(w), TypeInv, TypeInv', LoadInv(w), TvRegisters
    PROVE  LoadInv(w)'
<1>1. w \in Tariff /\ TaskCovered(w)
    BY DEF Covers
<1>2. /\ ws \in WsType /\ ws.phase = "running" /\ ws.writing = None
      /\ ws.session \in {"registering", "prompting"}
    BY Parts DEF WsPart, TvRegisters, IsFree
<1>3. PICK answer \in {"Registered", "Pair"} :
          /\ answer = "Pair" => ws.session = "registering"
          /\ ws' = [ws EXCEPT !.report = <<answer>>,
                              !.session = IF answer = "Pair" THEN "prompting" ELSE "registered"]
    BY DEF TvRegisters, Becomes
<1>4. UNCHANGED <<fsm_vars, fsm_pending, command_rx, todo, calls, volumes>>
    BY DEF TvRegisters, Becomes
<1>5. /\ ws'.to_ws = ws.to_ws /\ ws'.from_ws = ws.from_ws /\ ws'.report = <<answer>>
      /\ ws'.phase = "running" /\ ws'.writing = None
      /\ ws'.session = IF answer = "Pair" THEN "prompting" ELSE "registered"
    BY <1>2, <1>3 DEF WsType
<1>6. w.report[answer] \in Nat /\ Weighs(ws'.report, w.report, w.report[answer])
    BY <1>1, <1>3, <1>5, ReportWeighs DEF WsUpdate
<1>7. TaskLoad(w, ws) = w.open + w.session[ws.session] /\ w.open \in Nat
      /\ w.session[ws.session] \in Nat
    BY <1>1, <1>2, RunningLoad
<1>8. TaskLoad(w, ws') = w.open + w.session[ws'.session] /\ w.session[ws'.session] \in Nat
    <2>1. ws' \in WsType
        BY DEF TypeInv, TypeOK, WsType, Session
    <2> QED
        BY <1>1, <1>5, <1>7, <2>1, RunningLoad
<1>9. w.report[answer] + w.session[ws'.session] <= w.session[ws.session]
    <2>1. CASE answer = "Pair"
        BY <1>1, <1>3, <1>5, <1>6, <1>7, <1>8, <2>1 DEF TaskCovered
    <2>2. CASE answer = "Registered"
        BY <1>1, <1>2, <1>5, <1>6, <1>7, <1>8, <2>2 DEF TaskCovered
    <2> QED
        BY <1>3, <2>1, <2>2
<1>10. w.report[answer] + TaskLoad(w, ws') <= TaskLoad(w, ws)
    BY <1>6, <1>7, <1>8, <1>9
<1> QED
    BY <1>4, <1>5, <1>6, <1>10, ReportsLoad

\* A volume payload is covered by the allowance it raises.
LEMMA TvSendsVolumeLoad ==
    ASSUME NEW w, Covers(w), TypeInv, TypeInv', LoadInv(w), TvSendsVolume
    PROVE  LoadInv(w)'
<1>1. w \in Tariff /\ TaskCovered(w)
    BY DEF Covers
<1>2. PICK b \in Book :
          Books(w, b) /\ Total(b) + TaskLoad(w, ws) <= Allowance(w, calls, volumes)
    BY Opened
<1>3. ws \in WsType /\ ws.report = <<>> /\ ws' = [ws EXCEPT !.report = <<"Volume">>]
      /\ UNCHANGED <<fsm_vars, fsm_pending, command_rx, output, todo, mgr>>
    BY Parts DEF WsPart, TvSendsVolume, IsFree
<1>4. /\ ws'.to_ws = ws.to_ws /\ ws'.from_ws = ws.from_ws /\ ws'.report = <<"Volume">>
      /\ ws'.phase = ws.phase /\ ws'.session = ws.session /\ ws'.writing = ws.writing
    BY <1>3 DEF WsType
<1>5. TaskLoad(w, ws') = TaskLoad(w, ws) /\ TaskLoad(w, ws) \in Nat
    BY <1>4, Opened DEF TaskLoad
<1>6. Weighs(ws'.report, w.report, 1)
    BY <1>1, <1>4, ReportWeighs DEF TaskCovered, WsUpdate
<1>7. b.report = 0
    BY <1>2, <1>3, EmptyWeighsNothing DEF Books
<1> DEFINE n == Entries(b.command_rx, b.todo, b.to_fsm, b.fsm_pending,
                        b.from_fsm, b.to_ws, b.from_ws, 1)
<1>8. n \in Book /\ Total(n) = Total(b) + 1
    BY <1>7 DEF Book, Total, Entries
<1>9. Books(w, n)'
    BY <1>2, <1>3, <1>4, <1>6 DEF Books, Entries, fsm_vars
<1> HIDE DEF n
<1>10. calls \in Nat /\ volumes \in Nat
    BY Parts DEF BurstPart
<1>11. Total(n) + TaskLoad(w, ws) <= Allowance(w, calls', volumes')
    <2>1. CASE AtRest
        <3>1. calls' = 0 /\ volumes' = 1
            BY <2>1 DEF TvSendsVolume, CallsInBurst, VolumesInBurst
        <3>2. Allowance(w, calls', volumes') = w.base + 1 /\ w.base \in Nat
            BY <1>1, <1>10, <3>1, AllowanceGrows, Rates
        <3>3. Total(b) = 0 /\ TaskLoad(w, ws) <= w.base
            BY <1>2, <2>1, RestWeighs
        <3> QED
            BY <1>5, <1>8, <3>2, <3>3
    <2>2. CASE ~AtRest
        <3>1. calls' = calls /\ volumes' = volumes + 1
            BY <2>2 DEF TvSendsVolume, CallsInBurst, VolumesInBurst
        <3>2. Allowance(w, calls', volumes') = Allowance(w, calls, volumes) + 1
              /\ Allowance(w, calls, volumes) \in Nat
            BY <1>1, <1>10, <3>1, AllowanceGrows
        <3>3. Total(b) \in Nat
            BY TotalType
        <3> QED
            BY <1>2, <1>5, <1>8, <3>2, <3>3
    <2> QED
        BY <2>1, <2>2
<1>12. Total(n) + TaskLoad(w, ws') <= Allowance(w, calls', volumes')
    BY <1>5, <1>11
<1> QED
    BY <1>8, <1>9, <1>12 DEF LoadInv

\* A connection has paid for the two reports of its end.
LEMMA TvClosesLoad ==
    ASSUME NEW w, Covers(w), TypeInv, TypeInv', LoadInv(w), TvCloses
    PROVE  LoadInv(w)'
<1>1. w \in Tariff /\ TaskCovered(w)
    BY DEF Covers
<1>2. ws \in WsType /\ ws.phase = "running" /\ ws.writing = None
    BY Parts DEF WsPart, TvCloses, IsFree
<1>3. ws' = [ws EXCEPT !.phase = "closing",
                       !.report = <<"ServerClosedConnection", "Disconnected">>]
      /\ UNCHANGED <<fsm_vars, fsm_pending, command_rx, todo, calls, volumes>>
    BY DEF TvCloses, Becomes
<1>4. /\ ws'.to_ws = ws.to_ws /\ ws'.from_ws = ws.from_ws /\ ws'.phase = "closing"
      /\ ws'.writing = None /\ ws'.report = <<"ServerClosedConnection", "Disconnected">>
    BY <1>2, <1>3 DEF WsType
<1> DEFINE l == w.report["ServerClosedConnection"] + w.report["Disconnected"]
<1>5. l \in Nat /\ Weighs(ws'.report, w.report, l)
    <2>1. /\ w.report["ServerClosedConnection"] \in Nat /\ w.report["Disconnected"] \in Nat
          /\ Weighs(<<"ServerClosedConnection">>, w.report, w.report["ServerClosedConnection"])
          /\ Weighs(<<"Disconnected">>, w.report, w.report["Disconnected"])
        BY <1>1, ReportWeighs DEF WsUpdate
    <2>2. <<"ServerClosedConnection">> \in Seq(WsUpdate) /\ <<"Disconnected">> \in Seq(WsUpdate)
        BY DEF WsUpdate
    <2>3. w.report \in [WsUpdate -> Nat]
        BY <1>1, LoadTypes
    <2>4. Weighs(<<"ServerClosedConnection">> \o <<"Disconnected">>, w.report, l)
        BY <2>1, <2>2, <2>3, ConcatWeighs
    <2>5. <<"ServerClosedConnection">> \o <<"Disconnected">>
              = <<"ServerClosedConnection", "Disconnected">>
        BY Joined
    <2>6. Weighs(<<"ServerClosedConnection", "Disconnected">>, w.report, l)
        BY <2>4, <2>5
    <2>7. l \in Nat
        BY <2>1
    <2> HIDE DEF l
    <2> QED
        BY <1>4, <2>6, <2>7
<1>6. TaskLoad(w, ws') = 0
    BY <1>4 DEF TaskLoad
<1>7. TaskLoad(w, ws) = w.open + w.session[ws.session] /\ w.open \in Nat
      /\ w.session[ws.session] \in Nat
    BY <1>1, <1>2, RunningLoad
<1>8. l <= w.open
    BY <1>1, <1>5, <1>7 DEF TaskCovered
<1> HIDE DEF l
<1>9. l + TaskLoad(w, ws') <= TaskLoad(w, ws)
    BY <1>5, <1>6, <1>7, <1>8
<1> QED
    BY <1>3, <1>4, <1>5, <1>9, ReportsLoad

-----------------------------------------------------------------------------

\* Every step stays within the allowance.
LEMMA NextLoad ==
    ASSUME NEW w, Covers(w), TypeInv, TypeInv', LoadInv(w), [Next]_bp_vars
    PROVE  LoadInv(w)'
<1>1. CASE Machine
    BY <1>1, MachineTakesInputLoad, MachineSendsLoad, MachineStopsLoad DEF Machine
<1>2. CASE Select
    BY <1>2, FromCallerLoad, FromStateMachineLoad, FromWebSocketLoad DEF Select
<1>3. CASE WorkOff
    BY <1>3, WorkOffLoad
<1>4. CASE WsTask
    BY <1>4, WsReportsLoad, WsWritesLoad, WsEndsLoad, WsConnectsLoad DEF WsTask
<1>5. CASE Tv
    BY <1>5, TvReadsLoad, TvRegistersLoad, TvSendsVolumeLoad, TvClosesLoad DEF Tv
<1>6. CASE CallerReads \/ UNCHANGED bp_vars
    <2>1. UNCHANGED <<command_rx, todo, to_fsm, fsm_pending, from_fsm, ws, calls, volumes>>
        BY <1>6 DEF CallerReads, bp_vars, fsm_vars
    <2> QED
        BY <2>1, StutterLoad DEF Covers
<1> QED
    BY <1>1, <1>2, <1>3, <1>4, <1>5, <1>6, CallLoadStep DEF Next

-----------------------------------------------------------------------------
(* Two tariffs, and what they bound.                                       *)

\* The Inputs and updates of one initialize_connection, and of its end.
Answers == 1 + (IF Requests > 1 THEN Requests ELSE 1)

\* Of a call that may come at any time; a patient Connect needs no other.
EachMessages == IF Patient THEN 2 ELSE 8 + Answers
EachReports == IF Patient THEN 0 ELSE 5

\* What may still come before the machine: every Input and every update counts one.
MachineTariff ==
    [ call |-> [message \in ManagerMessage |->
                  CASE message = "Connect" -> 8 + Answers
                    [] message \in {"Disconnect", "SendTvCommand"} -> 2
                    [] message = "ShutDown" -> 1
                    [] message = "EmitAllState" -> 0],
      input |-> [tag \in InputTag |->
                  CASE tag = "Connect" -> 8 + Answers
                    [] tag = "AttemptRegister" -> 3 + Answers
                    [] tag = "Initialize" -> Answers
                    [] tag \in {"StartCommunication", "Reset"} -> 1
                    [] tag \in {"Pair", "SendCommand", "Error", "Disconnect",
                                "DisconnectionComplete"} -> 2],
      note |-> 1,
      output |-> [tag \in OutputTag |->
                  CASE tag = "ConnectToTv" -> 7 + Answers
                    [] tag = "SendRegisterPayload" -> 2 + Answers
                    [] tag = "InitializeConnection" -> Answers - 1
                    [] tag \in OutputTag \ {"ConnectToTv", "SendRegisterPayload",
                                            "InitializeConnection"} -> 1],
      ask |-> [message \in WsMessage |-> IF message = "Register" THEN 2 + Answers ELSE 1],
      asked |-> [message \in WsMessage |-> IF message = "Register" THEN 2 + Answers ELSE 0],
      report |-> [update \in WsUpdate |->
                  CASE update = "Connected" -> 3 + Answers
                    [] update = "Registered" -> Answers
                    [] update = "Volume" -> 1
                    [] update \in {"ConnectError", "Pair", "ServerClosedConnection",
                                   "Disconnected"} -> 2],
      connection |-> 7 + Answers,
      open |-> 4,
      session |-> [session \in Session |->
                  CASE session = "registering" -> 2 + Answers
                    [] session = "prompting" -> Answers
                    [] session \in {"idle", "registered", "subscribed"} -> 0],
      base |-> 6 + Answers,
      each |-> EachMessages ]

\* What the task may still report: every report counts one.
ReportTariff ==
    [ call |-> [message \in ManagerMessage |-> IF message = "Connect" THEN 5 ELSE 0],
      input |-> [tag \in InputTag |->
                  IF tag = "Connect" THEN 5 ELSE IF tag = "AttemptRegister" THEN 2 ELSE 0],
      note |-> 0,
      output |-> [tag \in OutputTag |->
                  IF tag = "ConnectToTv" THEN 5
                  ELSE IF tag = "SendRegisterPayload" THEN 2 ELSE 0],
      ask |-> [message \in WsMessage |-> IF message = "Register" THEN 2 ELSE 0],
      asked |-> [message \in WsMessage |-> IF message = "Register" THEN 2 ELSE 0],
      report |-> [update \in WsUpdate |-> IF update = "Connected" THEN 3 ELSE 1],
      connection |-> 5,
      open |-> 2,
      session |-> [session \in Session |->
                  IF session = "registering" THEN 2
                  ELSE IF session = "prompting" THEN 1 ELSE 0],
      base |-> 5,
      each |-> EachReports ]

\* At least two, and as many as the requests.
LEMMA AnswersType == Answers \in Nat /\ Answers >= 2 /\ Answers - 1 >= Requests
BY BackpressureAssumption DEF Answers

\* What one more call allows for.
LEMMA EachType ==
    /\ EachMessages \in Nat /\ EachMessages >= 2 /\ (~Patient => EachMessages = 8 + Answers)
    /\ EachReports \in Nat /\ (~Patient => EachReports = 5)
BY AnswersType DEF EachMessages, EachReports

\* The first tariff covers every step.
LEMMA MachineTariffCovers == Covers(MachineTariff)
<1> USE AnswersType, EachType
<1> DEFINE w == MachineTariff
<1>1. w \in Tariff
    BY DEF MachineTariff, Tariff, ManagerMessage, InputTag, OutputTag, WsMessage, WsUpdate, Session
<1>2. MachineCovered(w)
    BY DEF MachineTariff, MachineCovered, Rules, Rule, NoOutput, StateTag, InputTag, OutputTag
<1>3. HandlersCovered(w)
    BY DEF MachineTariff, HandlersCovered, ManagerMessage, InputTag, OutputTag, WsMessage, WsUpdate
<1>4. TaskCovered(w)
    BY DEF MachineTariff, TaskCovered, WsMessage, WsUpdate, Session
<1>5. CallerCovered(w)
    BY DEF MachineTariff, CallerCovered, ManagerMessage, Session
<1> QED
    BY <1>1, <1>2, <1>3, <1>4, <1>5 DEF Covers

\* And so does the second.
LEMMA ReportTariffCovers == Covers(ReportTariff)
<1> USE AnswersType, EachType
<1> DEFINE w == ReportTariff
<1>1. w \in Tariff
    BY DEF ReportTariff, Tariff, ManagerMessage, InputTag, OutputTag, WsMessage, WsUpdate, Session
<1>2. MachineCovered(w)
    BY DEF ReportTariff, MachineCovered, Rules, Rule, NoOutput, StateTag, InputTag, OutputTag
<1>3. HandlersCovered(w)
    BY DEF ReportTariff, HandlersCovered, ManagerMessage, InputTag, OutputTag, WsMessage, WsUpdate
<1>4. TaskCovered(w)
    BY DEF ReportTariff, TaskCovered, WsMessage, WsUpdate, Session
<1>5. CallerCovered(w)
    BY DEF ReportTariff, CallerCovered, ManagerMessage, Session
<1> QED
    BY <1>1, <1>2, <1>3, <1>4, <1>5 DEF Covers

\* Enough room for one burst, by the two tariffs.
MessageLimit == 6 + Answers + MaxCalls * EachMessages + MaxVolumes
ReportLimit == 5 + MaxCalls * EachReports + MaxVolumes

Roomy ==
    /\ MessageLimit <= 2 * Backlog + 1
    /\ "ShutDown" \in CallerMessage => MessageLimit <= Backlog
    /\ ReportLimit <= Buffer

\* The limits are numbers.
LEMMA LimitTypes == MessageLimit \in Nat /\ ReportLimit \in Nat
<1>1. MaxCalls * EachMessages \in Nat /\ MaxCalls * EachReports \in Nat
    BY EachType, BackpressureAssumption
<1> QED
    BY <1>1, AnswersType, BackpressureAssumption DEF MessageLimit, ReportLimit

\* More calls, more to allow for.
LEMMA ProductGrows ==
    ASSUME NEW m \in Nat, NEW n \in Nat, NEW k \in Nat, m <= n
    PROVE  m * k \in Nat /\ n * k \in Nat /\ m * k <= n * k
<1>1. PICK d \in Nat : n = m + d
    <2>1. n - m \in Nat /\ n = m + (n - m)
        OBVIOUS
    <2> QED
        BY <2>1
<1>2. n * k = m * k + d * k /\ m * k \in Nat /\ d * k \in Nat
    BY <1>1
<1> QED
    BY <1>2

\* The allowance of a burst is limited with its calls and volume payloads.
LEMMA AllowanceBound ==
    ASSUME NEW w \in Tariff, TypeInv
    PROVE  Allowance(w, calls, volumes) <= w.base + MaxCalls * w.each + MaxVolumes
<1>1. calls \in Nat /\ calls <= MaxCalls /\ volumes \in Nat /\ volumes <= MaxVolumes
      /\ MaxCalls \in Nat /\ MaxVolumes \in Nat
    BY Parts, BackpressureAssumption DEF BurstPart
<1>2. w.each \in Nat /\ w.base \in Nat
    BY Rates
<1>3. calls * w.each \in Nat /\ MaxCalls * w.each \in Nat /\ calls * w.each <= MaxCalls * w.each
    BY <1>1, <1>2, ProductGrows
<1> QED
    BY <1>1, <1>2, <1>3 DEF Allowance

\* Before the machine: the Inputs it has, its updates, and one Input to come.
MessagesBounded ==
    Len(to_fsm) + Len(fsm_pending) + Len(from_fsm) + (IF IsNext("fsm") THEN 1 ELSE 0)
        <= MessageLimit

\* Before the task: what it has reported, and what it is about to.
ReportsBounded == Len(ws.from_ws) + Len(ws.report) <= ReportLimit

\* Every Input and update counts one, so there are no more of them than that.
LEMMA LoadBoundsMessages == TypeInv /\ LoadInv(MachineTariff) => MessagesBounded
<1> SUFFICES ASSUME TypeInv, LoadInv(MachineTariff) PROVE MessagesBounded
    OBVIOUS
<1> DEFINE w == MachineTariff
<1>1. w \in Tariff
    BY MachineTariffCovers DEF Covers
<1>2. PICK b \in Book :
          Books(w, b) /\ Total(b) + TaskLoad(w, ws) <= Allowance(w, calls, volumes)
    BY DEF LoadInv
<1>3. w.base = 6 + Answers /\ w.each = EachMessages
    BY DEF MachineTariff
<1>4. \A tag \in InputTag : w.input[tag] >= 1
    BY AnswersType DEF MachineTariff, InputTag
<1>5. w.note = 1 /\ \A tag \in OutputTag : w.output[tag] >= 1
    BY AnswersType DEF MachineTariff, OutputTag
<1> HIDE DEF w
<1>6. AtLeastOne(InputLoad(w))
    BY <1>4 DEF AtLeastOne, InputLoad, Input, InputTag
<1>7. AtLeastOne(UpdateLoad(w))
    BY <1>5 DEF AtLeastOne, UpdateLoad, Update
<1>8. /\ InputLoad(w) \in [Input -> Nat] /\ UpdateLoad(w) \in [Update -> Nat]
      /\ OpLoad(w) \in [Operation -> Nat]
    BY <1>1, LoadTypes
<1>9. /\ to_fsm \in Seq(Input) /\ fsm_pending \in Seq(Update) /\ from_fsm \in Seq(Update)
      /\ todo \in Seq(Operation)
    BY Parts DEF FsmPart, FsmTypeOK, HandlerPart
<1>10. b.to_fsm >= Len(to_fsm)
    BY <1>2, <1>6, <1>8, <1>9, LengthWeighs DEF Books, Book
<1>11. b.fsm_pending >= Len(fsm_pending) /\ b.from_fsm >= Len(from_fsm)
    BY <1>2, <1>7, <1>8, <1>9, LengthWeighs DEF Books, Book
<1>12. b.todo >= IF IsNext("fsm") THEN 1 ELSE 0
    <2>1. CASE IsNext("fsm")
        <3>1. Head(todo) \in Operation /\ Head(todo).op = "fsm" /\ todo # <<>>
            BY <2>1, NextOperation
        <3>2. Head(todo).arg.tag \in InputTag
            BY <3>1 DEF Operation, Stopped, Stop, Op, Input, InputTag
        <3>3. PICK l \in Nat : l = OpLoad(w)[Head(todo)]
            BY <1>8, <3>1
        <3>4. l >= 1
            <4>1. l = w.input[Head(todo).arg.tag]
                BY <3>1, <3>3 DEF OpLoad
            <4> QED
                BY <1>4, <3>2, <4>1
        <3>5. PICK m \in Nat : b.todo = l + m /\ Weighs(Tail(todo), OpLoad(w), m)
            BY <1>2, <1>8, <1>9, <3>1, <3>3, TailWeighs DEF Books
        <3> QED
            BY <2>1, <3>4, <3>5
    <2>2. CASE ~IsNext("fsm")
        BY <2>2 DEF Book
    <2> QED
        BY <2>1, <2>2
<1>13. Total(b) >= b.to_fsm + b.fsm_pending + b.from_fsm + b.todo
    BY DEF Total, Book
<1>14. Allowance(w, calls, volumes) <= MessageLimit
    BY <1>1, <1>3, AllowanceBound DEF MessageLimit
<1>15. /\ TaskLoad(w, ws) \in Nat /\ Total(b) \in Nat /\ MessageLimit \in Nat
       /\ Allowance(w, calls, volumes) \in Nat
    <2>1. calls \in Nat /\ volumes \in Nat /\ ws \in WsType
        BY Parts DEF BurstPart, WsPart
    <2> QED
        BY <1>1, <2>1, AllowanceGrows, TaskLoadType, TotalType, LimitTypes
<1>16. Total(b) <= MessageLimit
    BY <1>2, <1>14, <1>15
<1>17. /\ Len(to_fsm) \in Nat /\ Len(fsm_pending) \in Nat /\ Len(from_fsm) \in Nat
       /\ b.to_fsm \in Nat /\ b.fsm_pending \in Nat /\ b.from_fsm \in Nat /\ b.todo \in Nat
    BY <1>9 DEF Book
<1> QED
    BY <1>10, <1>11, <1>12, <1>13, <1>15, <1>16, <1>17 DEF MessagesBounded

\* And every report counts one.
LEMMA LoadBoundsReports == TypeInv /\ LoadInv(ReportTariff) => ReportsBounded
<1> SUFFICES ASSUME TypeInv, LoadInv(ReportTariff) PROVE ReportsBounded
    OBVIOUS
<1> DEFINE w == ReportTariff
<1>1. w \in Tariff
    BY ReportTariffCovers DEF Covers
<1>2. PICK b \in Book :
          Books(w, b) /\ Total(b) + TaskLoad(w, ws) <= Allowance(w, calls, volumes)
    BY DEF LoadInv
<1>3. w.base = 5 /\ w.each = EachReports
    BY DEF ReportTariff
<1>4. AtLeastOne(w.report)
    BY DEF AtLeastOne, ReportTariff
<1> HIDE DEF w
<1>5. w.report \in [WsUpdate -> Nat]
    BY <1>1, LoadTypes
<1>6. ws \in WsType /\ ws.from_ws \in Seq(WsUpdate) /\ ws.report \in Seq(WsUpdate)
    BY Parts DEF WsPart, WsType
<1>7. b.from_ws >= Len(ws.from_ws) /\ b.report >= Len(ws.report)
    BY <1>2, <1>4, <1>5, <1>6, LengthWeighs DEF Books, Book
<1>8. Total(b) >= b.from_ws + b.report
    BY DEF Total, Book
<1>9. Allowance(w, calls, volumes) <= ReportLimit
    BY <1>1, <1>3, AllowanceBound DEF ReportLimit
<1>10. /\ TaskLoad(w, ws) \in Nat /\ Total(b) \in Nat /\ ReportLimit \in Nat
       /\ Allowance(w, calls, volumes) \in Nat
    <2>1. calls \in Nat /\ volumes \in Nat
        BY Parts DEF BurstPart
    <2> QED
        BY <1>1, <1>6, <2>1, AllowanceGrows, TaskLoadType, TotalType, LimitTypes
<1>11. Total(b) <= ReportLimit
    BY <1>2, <1>9, <1>10
<1>12. /\ Len(ws.from_ws) \in Nat /\ Len(ws.report) \in Nat
       /\ b.from_ws \in Nat /\ b.report \in Nat
    BY <1>6 DEF Book
<1>13. Len(ws.from_ws) + Len(ws.report) <= ReportLimit
    <2>1. \A f, r, m, n, total, limit \in Nat :
              m >= f /\ n >= r /\ total >= m + n /\ total <= limit => f + r <= limit
        OBVIOUS
    <2> QED
        BY <1>7, <1>8, <1>10, <1>11, <1>12, <2>1
<1> QED
    BY <1>13 DEF ReportsBounded

Load == LoadInv(MachineTariff) /\ LoadInv(ReportTariff)

\* By both tariffs, whatever is under way between the tasks stays within the
\* allowance of the burst: no handler, no transition and no answer of the TV makes
\* more messages than the message it was made for has paid for.
THEOREM LoadIsCovered == Spec => []Load
<1>1. Init => Load
    BY MachineTariffCovers, ReportTariffCovers, InitLoad DEF Covers, Load
<1>2. TypeInv /\ TypeInv' /\ Load /\ [Next]_bp_vars => Load'
    <2> SUFFICES ASSUME TypeInv, TypeInv', Load, [Next]_bp_vars PROVE Load'
        OBVIOUS
    <2>1. LoadInv(MachineTariff)'
        BY MachineTariffCovers, NextLoad DEF Load
    <2>2. LoadInv(ReportTariff)'
        BY ReportTariffCovers, NextLoad DEF Load
    <2> QED
        BY <2>1, <2>2 DEF Load
<1> QED
    BY <1>1, <1>2, TypesHold, PTL DEF Spec

\* However the tasks interleave, and whatever the capacities, the machine has never
\* more than MessageLimit Inputs and updates before and behind it, and the task
\* never more than ReportLimit reports; the caller and the TV start as many bursts
\* as they like.
THEOREM MessagesStayBounded == Spec => [](MessagesBounded /\ ReportsBounded)
<1>1. TypeInv /\ Load => MessagesBounded /\ ReportsBounded
    BY LoadBoundsMessages, LoadBoundsReports DEF Load
<1> QED
    BY <1>1, LoadIsCovered, TypesHold, PTL

\* A circle needs more messages than there are.
LEMMA BoundsSuffice ==
    ASSUME Roomy, TypeInv, MessagesBounded, ReportsBounded
    PROVE  NoCircularWait
<1>1. /\ Len(to_fsm) \in Nat /\ Len(from_fsm) \in Nat /\ Len(fsm_pending) \in Nat
      /\ fsm_pending # <<>> => Len(fsm_pending) >= 1
    BY Parts DEF FsmPart, FsmTypeOK
<1>2. /\ Len(ws.from_ws) \in Nat /\ Len(ws.report) \in Nat
      /\ ws.report # <<>> => Len(ws.report) >= 1
    BY Parts DEF WsPart, WsType
<1>3. IsNext("stopped") => "ShutDown" \in CallerMessage
    BY NextOperation DEF Operation, Op
<1>4. ~(ManagerAwaitsMachine /\ MachineAwaitsManager)
    <2> SUFFICES ASSUME ManagerAwaitsMachine, MachineAwaitsManager PROVE FALSE
        OBVIOUS
    <2>1. Len(fsm_pending) >= 1 /\ Len(from_fsm) >= Backlog
        BY <1>1, Capacities DEF MachineAwaitsManager, Room
    <2>2. CASE IsNext("fsm") /\ ~Room(to_fsm)
        <3>1. Len(to_fsm) >= Backlog
            BY <1>1, <2>2, Capacities DEF Room
        <3> QED
            BY <1>1, <2>1, <2>2, <3>1, Capacities, LimitTypes DEF MessagesBounded, Roomy
    <2>3. CASE IsNext("stopped")
        <3>1. MessageLimit <= Backlog
            BY <1>3, <2>3 DEF Roomy
        <3> QED
            BY <1>1, <2>1, <3>1, Capacities, LimitTypes DEF MessagesBounded
    <2> QED
        BY <2>2, <2>3 DEF ManagerAwaitsMachine
<1>5. ~(ManagerAwaitsWs /\ WsAwaitsManager)
    <2> SUFFICES ASSUME WsAwaitsManager PROVE FALSE
        OBVIOUS
    <2>1. Len(ws.report) >= 1 /\ Len(ws.from_ws) >= Buffer
        BY <1>2, Capacities DEF WsAwaitsManager, HasRoom
    <2>2. ReportLimit <= Buffer /\ Len(ws.from_ws) + Len(ws.report) <= ReportLimit
        BY DEF ReportsBounded, Roomy
    <2>3. \A f, r, limit, n \in Nat : ~(r >= 1 /\ f >= n /\ limit <= n /\ f + r <= limit)
        OBVIOUS
    <2>4. Buffer \in Nat /\ ReportLimit \in Nat
          /\ Len(ws.from_ws) \in Nat /\ Len(ws.report) \in Nat
        BY <1>2, Capacities, LimitTypes
    <2> QED
        BY <2>1, <2>2, <2>3, <2>4
<1> QED
    BY <1>4, <1>5 DEF NoCircularWait

\* With room for one burst the manager never awaits the machine, or the WebSocket
\* task, while that one waits for the manager: the deadlock of two full channels
\* that the code leaves to its capacities of 32.  With them and six requests a
\* patient caller has a burst of c calls and v volume payloads for 13 + 2c + v <= 32.
THEOREM NobodyWaitsInCircles ==
    ASSUME Roomy
    PROVE  Spec => []NoCircularWait
<1>1. TypeInv /\ MessagesBounded /\ ReportsBounded => NoCircularWait
    BY BoundsSuffice
<1> QED
    BY <1>1, TypesHold, MessagesStayBounded, PTL

\* What that comes to with the channels of the code, which hold 32, the six
\* requests of initialize_connection, and a caller that connects at rest: nobody
\* waits in circles with nine calls, ShutDown among them, and a volume payload in
\* every burst, or with fewer calls and more payloads.
THEOREM CapacitiesOfTheCode ==
    ASSUME Backlog = 32, Buffer = 32, Requests = 6, Patient,
           2 * MaxCalls + MaxVolumes <= 19
    PROVE  Spec => []NoCircularWait
<1>1. Answers = 7 /\ EachMessages = 2 /\ EachReports = 0
    BY DEF Answers, EachMessages, EachReports
<1>2. MessageLimit <= 32 /\ ReportLimit <= 32
    BY <1>1, BackpressureAssumption DEF MessageLimit, ReportLimit
<1>3. Roomy
    BY <1>2, LimitTypes DEF Roomy
<1> QED
    BY <1>3, NobodyWaitsInCircles
=============================================================================
