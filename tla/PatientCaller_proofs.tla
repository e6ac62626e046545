------------------------- MODULE PatientCaller_proofs -------------------------
(***************************************************************************)
(* What holds of a caller that only connects when nothing is under way,    *)
(* and of a manager whose network checker does not operate: there is one   *)
(* attempt to connect at a time, so that no Connect is lost; and what a TV *)
(* answers to a registration is stored with the URL of that TV.            *)
(***************************************************************************)
EXTENDS Reconnect_proofs

-----------------------------------------------------------------------------
(* Queues: what is not in them, and what does not come after what.         *)

Without(queue, S) == \A k \in 1 .. Len(queue) : queue[k] \notin S

NoneAfter(queue, S, T) ==
    \A k, l \in 1 .. Len(queue) : k < l /\ queue[k] \in S => queue[l] \notin T

LEMMA EmptyQueue == \A S, T : Without(<<>>, S) /\ NoneAfter(<<>>, S, T)
    BY DEF Without, NoneAfter

\* Reading a message.
LEMMA ReadMessage ==
    ASSUME NEW D, NEW queue \in Seq(D), queue # <<>>, NEW S, NEW T
    PROVE  /\ Without(queue, S) <=> Head(queue) \notin S /\ Without(Tail(queue), S)
           /\ NoneAfter(queue, S, T) => NoneAfter(Tail(queue), S, T)
           /\ NoneAfter(queue, S, T) /\ Head(queue) \in S => Without(Tail(queue), T)
<1> DEFINE rest == Tail(queue)
<1>1. /\ Len(queue) \in Nat \ {0} /\ Len(rest) = Len(queue) - 1 /\ Head(queue) = queue[1]
      /\ \A k \in 1 .. Len(queue) - 1 : rest[k] = queue[k + 1]
    OBVIOUS
<1> HIDE DEF rest
<1>2. \A k \in 1 .. Len(rest) : /\ k + 1 \in 1 .. Len(queue) /\ rest[k] = queue[k + 1]
                                /\ 1 < k + 1
    BY <1>1
<1>3. \A k \in 1 .. Len(queue) : k = 1 \/ (k - 1 \in 1 .. Len(rest) /\ queue[k] = rest[k - 1])
    <2> SUFFICES ASSUME NEW k \in 1 .. Len(queue), k # 1
                 PROVE  k - 1 \in 1 .. Len(rest) /\ queue[k] = rest[k - 1]
        OBVIOUS
    <2>1. k - 1 \in 1 .. Len(queue) - 1 /\ (k - 1) + 1 = k
        BY <1>1
    <2> QED
        BY <1>1, <2>1
<1>4. 1 \in 1 .. Len(queue)
    BY <1>1
<1>5. Without(queue, S) => queue[1] \notin S /\ Without(rest, S)
    BY <1>2, <1>4 DEF Without
<1>6. queue[1] \notin S /\ Without(rest, S) => Without(queue, S)
    BY <1>3 DEF Without
<1>7. NoneAfter(queue, S, T) => NoneAfter(rest, S, T)
    <2>1. \A k, l \in 1 .. Len(rest) : k < l => k + 1 < l + 1
        BY <1>1
    <2> QED
        BY <1>2, <2>1 DEF NoneAfter
<1>8. NoneAfter(queue, S, T) /\ queue[1] \in S => Without(rest, T)
    BY <1>2, <1>4 DEF NoneAfter, Without
<1> QED
    BY <1>1, <1>5, <1>6, <1>7, <1>8 DEF rest

\* Sending messages.
LEMMA SendMessages ==
    ASSUME NEW D, NEW queue \in Seq(D), NEW sent \in Seq(D), NEW S, NEW T
    PROVE  /\ Without(queue \o sent, S) <=> Without(queue, S) /\ Without(sent, S)
           /\ NoneAfter(queue \o sent, S, T) <=>
                  /\ NoneAfter(queue, S, T) /\ NoneAfter(sent, S, T)
                  /\ Without(queue, S) \/ Without(sent, T)
<1> DEFINE longer == queue \o sent
           n == Len(queue)
<1>1. /\ n \in Nat /\ Len(sent) \in Nat /\ Len(longer) = n + Len(sent)
      /\ \A k \in 1 .. n : longer[k] = queue[k]
      /\ \A k \in 1 .. Len(sent) : longer[n + k] = sent[k]
    OBVIOUS
<1> HIDE DEF longer, n
<1>2. ASSUME NEW k \in 1 .. Len(longer)
      PROVE  \/ k \in 1 .. n /\ longer[k] = queue[k]
             \/ k - n \in 1 .. Len(sent) /\ longer[k] = sent[k - n]
    <2>1. k \in 1 .. n \/ (k - n \in 1 .. Len(sent) /\ n + (k - n) = k)
        BY <1>1
    <2> QED
        BY <1>1, <2>1
<1>3. /\ \A k \in 1 .. n : k \in 1 .. Len(longer) /\ longer[k] = queue[k]
      /\ \A k \in 1 .. Len(sent) : n + k \in 1 .. Len(longer) /\ longer[n + k] = sent[k]
    BY <1>1
<1>4. Without(longer, S) <=> Without(queue, S) /\ Without(sent, S)
    <2>1. Without(queue, S) /\ Without(sent, S) => Without(longer, S)
        BY <1>2 DEF Without, n
    <2>2. Without(longer, S) => Without(queue, S) /\ Without(sent, S)
        BY <1>3 DEF Without, n
    <2> QED
        BY <2>1, <2>2
<1>5. ASSUME NoneAfter(queue, S, T), NoneAfter(sent, S, T), Without(queue, S) \/ Without(sent, T)
      PROVE  NoneAfter(longer, S, T)
    <2> SUFFICES ASSUME NEW k \in 1 .. Len(longer), NEW l \in 1 .. Len(longer),
                        k < l, longer[k] \in S
                 PROVE  longer[l] \notin T
        BY DEF NoneAfter
    <2>1. CASE k \in 1 .. n /\ l \in 1 .. n
        BY <1>1, <1>5, <2>1 DEF NoneAfter, n
    <2>2. CASE k \in 1 .. n /\ l \notin 1 .. n
        BY <1>1, <1>2, <1>5, <2>2 DEF Without, n
    <2>3. CASE k \notin 1 .. n
        <3>1. l \notin 1 .. n /\ k - n < l - n
            BY <1>1, <2>3
        <3> QED
            BY <1>2, <1>5, <2>3, <3>1 DEF NoneAfter
    <2> QED
        BY <2>1, <2>2, <2>3
<1>6. ASSUME NoneAfter(longer, S, T)
      PROVE  /\ NoneAfter(queue, S, T) /\ NoneAfter(sent, S, T)
             /\ Without(queue, S) \/ Without(sent, T)
    <2>1. /\ \A k, l \in 1 .. Len(sent) : k < l => n + k < n + l
          /\ \A k \in 1 .. n, l \in 1 .. Len(sent) : k < n + l
        BY <1>1
    <2>2. NoneAfter(queue, S, T)
        BY <1>3, <1>6 DEF NoneAfter, n
    <2>3. NoneAfter(sent, S, T)
        BY <1>3, <1>6, <2>1 DEF NoneAfter
    <2>4. Without(queue, S) \/ Without(sent, T)
        BY <1>3, <1>6, <2>1 DEF NoneAfter, Without, n
    <2> QED
        BY <2>2, <2>3, <2>4
<1> QED
    BY <1>4, <1>5, <1>6 DEF longer

\* Sending one message.
LEMMA SendMessage ==
    ASSUME NEW D, NEW queue \in Seq(D), NEW message \in D, NEW S, NEW T
    PROVE  /\ Append(queue, message) = queue \o <<message>>
           /\ Append(queue, message) \in Seq(D)
           /\ Without(Append(queue, message), S) <=> Without(queue, S) /\ message \notin S
           /\ NoneAfter(Append(queue, message), S, T) <=>
                  NoneAfter(queue, S, T) /\ (Without(queue, S) \/ message \notin T)
<1>1. <<message>> \in Seq(D) /\ Append(queue, message) = queue \o <<message>>
    OBVIOUS
<1>2. (Without(<<message>>, S) <=> message \notin S) /\ NoneAfter(<<message>>, S, T)
    BY DEF Without, NoneAfter
<1>3. Without(<<message>>, T) <=> message \notin T
    BY DEF Without
<1> DEFINE sent == <<message>>
<1>4. /\ Without(queue \o sent, S) <=> Without(queue, S) /\ Without(sent, S)
      /\ NoneAfter(queue \o sent, S, T) <=>
             /\ NoneAfter(queue, S, T) /\ NoneAfter(sent, S, T)
             /\ Without(queue, S) \/ Without(sent, T)
    <2>1. sent \in Seq(D)
        BY <1>1
    <2> HIDE DEF sent
    <2> QED
        BY <2>1, SendMessages
<1>5. Append(queue, message) = queue \o sent /\ Append(queue, message) \in Seq(D)
    BY <1>1
<1> HIDE DEF sent
<1> QED
    BY <1>1, <1>2, <1>3, <1>4, <1>5 DEF sent

\* The same of every two sets: rest is queue when its first message has been
\* read, longer is queue with a message more.
Takes(queue, rest) ==
    \A S, T :
        /\ Without(queue, S) <=> Head(queue) \notin S /\ Without(rest, S)
        /\ NoneAfter(queue, S, T) => NoneAfter(rest, S, T)
        /\ NoneAfter(queue, S, T) /\ Head(queue) \in S => Without(rest, T)

Adds(queue, message, longer) ==
    \A S, T :
        /\ Without(longer, S) <=> Without(queue, S) /\ message \notin S
        /\ NoneAfter(longer, S, T) <=>
               NoneAfter(queue, S, T) /\ (Without(queue, S) \/ message \notin T)

LEMMA TailTakes ==
    ASSUME NEW D, NEW queue \in Seq(D), queue # <<>>
    PROVE  Takes(queue, Tail(queue))
<1>1. ASSUME NEW S, NEW T
      PROVE  /\ Without(queue, S) <=> Head(queue) \notin S /\ Without(Tail(queue), S)
             /\ NoneAfter(queue, S, T) => NoneAfter(Tail(queue), S, T)
             /\ NoneAfter(queue, S, T) /\ Head(queue) \in S => Without(Tail(queue), T)
    BY ReadMessage
<1> QED
    BY <1>1 DEF Takes

LEMMA AppendAdds ==
    ASSUME NEW D, NEW queue \in Seq(D), NEW message \in D
    PROVE  Adds(queue, message, Append(queue, message))
<1>1. ASSUME NEW S, NEW T
      PROVE  /\ Without(Append(queue, message), S) <=> Without(queue, S) /\ message \notin S
             /\ NoneAfter(Append(queue, message), S, T) <=>
                    NoneAfter(queue, S, T) /\ (Without(queue, S) \/ message \notin T)
    BY SendMessage
<1> QED
    BY <1>1 DEF Adds

\* A queue without the messages of a set is one without those of a part of it.
LEMMA FewerWithout ==
    ASSUME NEW queue
    PROVE  \A S, T : Without(queue, T) /\ S \subseteq T => Without(queue, S)
    BY DEF Without

-----------------------------------------------------------------------------
(* One attempt at a time.  A caller that only connects when nothing is     *)
(* under way leaves the Connects to the manager, which sends one for each  *)
(* attempt that has ended.  So an attempt is in at most one place: asked   *)
(* for, under way in the machine, ended with the output yet to be read, or *)
(* at a handler that may go on to a retry.  The checker must not operate:  *)
(* one that sees the TV come back would reconnect by itself, and does so   *)
(* next to a Connect whose State the manager has not read yet.             *)

Connects == {input \in Input : input.tag = "Connect"}

Ends == {update \in Update : IsEnd(update)}

HasConnect(queue) == ~Without(queue, Connects)

OneConnect(queue) == NoneAfter(queue, Connects, Connects)

HasEnd(queue) == ~Without(queue, Ends)

OneEnd(queue) == NoneAfter(queue, Ends, Ends)

IsActive == fsm_state.tag # "Disconnected"

OneAttempt ==
    /\ OneConnect(to_fsm)
    /\ OneEnd(from_fsm)
    /\ HasConnect(to_fsm) => ~IsActive /\ ~HasEnd(from_fsm) /\ mgr_pc \notin RestPc
    /\ IsActive => ~HasEnd(from_fsm) /\ mgr_pc \notin RestPc
    /\ HasEnd(from_fsm) => mgr_pc \notin RestPc

\* A checker that does not operate never has anything to tell the manager.
NeverChecked == ~is_notify_due /\ ~is_tv_on_network_notify

LEMMA OneAttemptImplies == TypeInv /\ OneAttempt => ConnectIsAccepted
<1> SUFFICES ASSUME TypeInv, OneAttempt, to_fsm # <<>>, Head(to_fsm).tag = "Connect"
             PROVE  fsm_state = Disconnected
    BY DEF ConnectIsAccepted
<1>1. to_fsm \in Seq(Input) /\ fsm_state \in State
    BY DEF TypeInv, CoreOK, RestOK
<1>2. 1 \in 1 .. Len(to_fsm) /\ to_fsm[1] = Head(to_fsm) /\ Head(to_fsm) \in Input
    BY <1>1
<1>3. fsm_state.tag = "Disconnected"
    BY <1>2 DEF OneAttempt, HasConnect, Without, Connects, IsActive
<1> QED
    BY <1>1, <1>3 DEF State, Disconnected

\* Reading an Input.
LEMMA ReadConnect ==
    ASSUME NEW queue \in Seq(Input), queue # <<>>
    PROVE  /\ HasConnect(Tail(queue)) => HasConnect(queue)
           /\ Head(queue).tag = "Connect" => HasConnect(queue)
           /\ OneConnect(queue) => OneConnect(Tail(queue))
           /\ OneConnect(queue) /\ Head(queue).tag = "Connect" => ~HasConnect(Tail(queue))
<1>1. Head(queue) \in Input
    OBVIOUS
<1>2. Head(queue) \in Connects <=> Head(queue).tag = "Connect"
    BY <1>1 DEF Connects
<1> QED
    BY <1>2, ReadMessage DEF HasConnect, OneConnect

\* Sending Inputs: other ones than Connect change nothing.
LEMMA SendConnect ==
    ASSUME NEW queue \in Seq(Input), NEW sent \in Seq(Input)
    PROVE  /\ HasConnect(queue \o sent) => HasConnect(queue) \/ HasConnect(sent)
           /\ OneConnect(queue) /\ ~HasConnect(sent) => OneConnect(queue \o sent)
           /\ OneConnect(sent) /\ ~HasConnect(queue) => OneConnect(queue \o sent)
<1>1. ~HasConnect(sent) => OneConnect(sent)
    BY DEF HasConnect, OneConnect, Without, NoneAfter
<1>2. ~HasConnect(queue) => OneConnect(queue)
    BY DEF HasConnect, OneConnect, Without, NoneAfter
<1> QED
    BY <1>1, <1>2, SendMessages DEF HasConnect, OneConnect

\* Reading an update.
LEMMA ReadEnd ==
    ASSUME NEW queue \in Seq(Update), queue # <<>>
    PROVE  /\ HasEnd(Tail(queue)) => HasEnd(queue)
           /\ IsEnd(Head(queue)) => HasEnd(queue)
           /\ OneEnd(queue) => OneEnd(Tail(queue))
           /\ OneEnd(queue) /\ IsEnd(Head(queue)) => ~HasEnd(Tail(queue))
<1>1. Head(queue) \in Update
    OBVIOUS
<1>2. Head(queue) \in Ends <=> IsEnd(Head(queue))
    BY <1>1 DEF Ends
<1> QED
    BY <1>2, ReadMessage DEF HasEnd, OneEnd

\* Reporting one: other ones than an end change nothing.
LEMMA ReportEnd ==
    ASSUME NEW queue \in Seq(Update), NEW update \in Update
    PROVE  /\ ~IsEnd(update) /\ HasEnd(Append(queue, update)) => HasEnd(queue)
           /\ ~IsEnd(update) /\ OneEnd(queue) => OneEnd(Append(queue, update))
           /\ ~HasEnd(queue) => OneEnd(Append(queue, update))
<1>1. update \in Ends <=> IsEnd(update)
    BY DEF Ends
<1>2. ~HasEnd(queue) => OneEnd(queue)
    BY DEF HasEnd, OneEnd, Without, NoneAfter
<1> QED
    BY <1>1, <1>2, SendMessage DEF HasEnd, OneEnd

-----------------------------------------------------------------------------
(* The steps that start no attempt, and those that do.                     *)

\* The Inputs that a step sends hold no Connect.
AsksForNone ==
    /\ HasConnect(to_fsm') => HasConnect(to_fsm)
    /\ OneConnect(to_fsm) => OneConnect(to_fsm')

LEMMA UnchangedAsks == UNCHANGED to_fsm => AsksForNone
    BY DEF AsksForNone, HasConnect, OneConnect

LEMMA CommitAsks ==
    ASSUME TypeInv, NEW r, r.sent \in Seq(Input), ~HasConnect(r.sent), Commit(r)
    PROVE  AsksForNone
<1>1. to_fsm \in Seq(Input) /\ (to_fsm' = to_fsm \/ to_fsm' = to_fsm \o r.sent)
    BY DEF TypeInv, CoreOK, Commit
<1>2. CASE to_fsm' = to_fsm
    BY <1>2, UnchangedAsks
<1>3. CASE to_fsm' = to_fsm \o r.sent
    BY <1>1, <1>3, SendConnect DEF AsksForNone
<1> QED
    BY <1>1, <1>2, <1>3

\* Nothing sent, and one Input other than Connect.
LEMMA CommitDoneAsks ==
    ASSUME TypeInv, NEW s, Commit(Done(s))
    PROVE  AsksForNone
<1>1. Done(s).sent = <<>>
    BY DEF Done, Result
<1>2. <<>> \in Seq(Input) /\ ~HasConnect(<<>>)
    BY DEF HasConnect, Without
<1> QED
    BY <1>1, <1>2, CommitAsks

LEMMA CommitSendingAsks ==
    ASSUME TypeInv, NEW s, NEW tag \in InputTag \ {"Connect"}, Commit(DoneSending(s, tag))
    PROVE  AsksForNone
<1>1. DoneSending(s, tag).sent = <<InputOf(tag)>>
    BY DEF DoneSending, Result
<1>2. InputOf(tag) \in Input /\ InputOf(tag).tag # "Connect"
    BY InputOfType DEF InputOf
<1>3. <<InputOf(tag)>> \in Seq(Input) /\ ~HasConnect(<<InputOf(tag)>>)
    BY <1>2 DEF HasConnect, Without, Connects
<1> QED
    BY <1>1, <1>3, CommitAsks

LEMMA ForceResetAsks ==
    ASSUME TypeInv, NEW s, NEW resume, ForceManagerReset(s, resume)
    PROVE  AsksForNone /\ mgr_pc' = resume
<1> DEFINE r == Result(s, <<>>, resume)
<1>1. Commit(r)
    BY DEF ForceManagerReset
<1>2. r.sent = <<>> /\ r.pc = resume
    BY DEF Result
<1>3. <<>> \in Seq(Input) /\ ~HasConnect(<<>>)
    BY DEF HasConnect, Without
<1> HIDE DEF r
<1>4. AsksForNone
    BY <1>1, <1>2, <1>3, CommitAsks
<1> QED
    BY <1>1, <1>2, <1>4 DEF Commit

LEMMA SendToWsAsks ==
    ASSUME TypeInv, NEW s, NEW message, SendToWs(s, message, "reset")
    PROVE  AsksForNone /\ mgr_pc' \in {"select", "reset"}
<1>1. CASE cur_ws = None \/ IsWsOpen
    BY <1>1, CommitDoneAsks, ResultPcs DEF SendToWs, Commit
<1>2. CASE ~(cur_ws = None \/ IsWsOpen)
    BY <1>2, ForceResetAsks DEF SendToWs
<1> QED
    BY <1>1, <1>2

\* A step that neither starts an attempt nor ends one.
LEMMA KeptAttempt ==
    ASSUME OneAttempt, AsksForNone, UNCHANGED <<fsm_state, from_fsm>>,
           mgr_pc' \in RestPc => mgr_pc \in RestPc
    PROVE  OneAttempt'
    BY DEF OneAttempt, AsksForNone, OneEnd, HasEnd, IsActive

\* A step that reads an update, and goes on with the attempt it is the end of.
LEMMA ReadAttempt ==
    ASSUME TypeInv, OneAttempt, AsksForNone, UNCHANGED fsm_state,
           from_fsm # <<>>, from_fsm' = Tail(from_fsm),
           mgr_pc' \in RestPc => IsEnd(Head(from_fsm))
    PROVE  OneAttempt'
<1>1. from_fsm \in Seq(Update)
    BY DEF TypeInv, RestOK
<1>2. /\ HasEnd(from_fsm') => HasEnd(from_fsm) /\ ~IsEnd(Head(from_fsm))
      /\ IsEnd(Head(from_fsm)) => HasEnd(from_fsm)
      /\ OneEnd(from_fsm')
    BY <1>1, ReadEnd DEF OneAttempt
<1> QED
    BY <1>2 DEF OneAttempt, AsksForNone, IsActive

\* A step that may start an attempt where there is none, or comes out of a rest.
LEMMA AskAttempt ==
    ASSUME TypeInv, OneAttempt, NEW s \in ManagerState, NEW c \in Connection,
           ~HasConnect(to_fsm), ~HasEnd(from_fsm), ~IsActive,
           UNCHANGED <<fsm_state, from_fsm>>, Commit(InitiateConnectToTv(s, c))
    PROVE  OneAttempt'
<1> DEFINE r == InitiateConnectToTv(s, c)
<1>1. Commit(r)
    OBVIOUS
<1>2. r.sent \in Seq(Input) /\ r.pc = "select"
    BY InitiateConnectType, ResultPcs DEF TypeInv, CoreOK, IsResult, ResultType
<1>3. OneConnect(r.sent)
    <2>1. \A a, b : Result(a, b, "select").sent = b /\ Done(a).sent = <<>>
        BY DEF Result, Done
    <2> DEFINE connecting == Result(Connecting(WithClientKey(s, c), c),
                                    <<ConnectInput(c.url)>>, "select")
    <2>2. connecting = [mgr |-> Connecting(WithClientKey(s, c), c),
                        sent |-> <<ConnectInput(c.url)>>, pc |-> "select", tv_ip |-> tv_ip]
        BY DEF Result
    <2>3. [connecting EXCEPT !.tv_ip = TvIpFor(c.url)].sent = <<ConnectInput(c.url)>>
        BY <2>2
    <2> HIDE DEF connecting
    <2>4. r.sent = <<>> \/ r.sent = <<ConnectInput(c.url)>>
        BY <2>1, <2>3 DEF InitiateConnectToTv, connecting
    <2> HIDE DEF r
    <2> QED
        BY <2>4 DEF OneConnect, NoneAfter
<1> HIDE DEF r
<1>4. to_fsm \in Seq(Input) /\ (to_fsm' = to_fsm \/ to_fsm' = to_fsm \o r.sent)
    BY <1>1 DEF TypeInv, CoreOK, Commit
<1>5. OneConnect(to_fsm')
    <2>1. OneConnect(to_fsm \o r.sent)
        BY <1>2, <1>3, <1>4, SendConnect
    <2> QED
        BY <1>4, <2>1 DEF OneAttempt, OneConnect
<1>6. mgr_pc' \notin RestPc
    BY <1>1, <1>2 DEF Commit, RestPc
<1> QED
    BY <1>5, <1>6 DEF OneAttempt, HasEnd, OneEnd, IsActive

-----------------------------------------------------------------------------
(* The actions.                                                            *)

LEMMA CallerAttempt ==
    ASSUME Patient, TypeInv, StatusInv, RestInv, OneAttempt, FromCaller
    PROVE  OneAttempt'
<1>1. UNCHANGED <<fsm_state, from_fsm>> /\ mgr_pc = "select"
    BY DEF FromCaller, CancelReconnect, Connect, ConnectLastGoodConnection, Disconnect,
           SendTvCommand, TestConnection, ShutDown, Called, AtSelect
<1>2. mgr \in ManagerState
    BY DEF TypeInv, CoreOK
<1>3. ASSUME AsksForNone, mgr_pc' \in {"select", "reset", "stopping"}
      PROVE  OneAttempt'
    BY <1>1, <1>3, KeptAttempt DEF RestPc
<1>4. ASSUME Quiet, NEW c \in Connection, Commit(InitiateConnectToTv(mgr, c))
      PROVE  OneAttempt'
    <2>1. to_fsm = <<>> /\ from_fsm = <<>>
        BY <1>4 DEF Quiet
    <2>2. ~HasConnect(to_fsm) /\ ~HasEnd(from_fsm)
        BY <2>1 DEF HasConnect, HasEnd, Without
    <2>3. CASE IsDisconnected(mgr)
        <3>1. mgr.manager_status # Zombie
            BY <2>3 DEF IsDisconnected, Zombie
        <3>2. mgr.manager_status = fsm_state
            BY <2>1, <3>1 DEF StatusInv, HasNoState
        <3>3. ~IsActive
            BY <2>3, <3>2 DEF IsActive, IsDisconnected
        <3> QED
            BY <1>1, <1>2, <1>4, <2>2, <3>3, AskAttempt
    <2>4. CASE ~IsDisconnected(mgr)
        <3>1. InitiateConnectToTv(mgr, c) = Done(WithClientKey(mgr, c))
            BY <2>4 DEF InitiateConnectToTv
        <3> QED
            BY <1>3, <1>4, <3>1, CommitDoneAsks, ResultPcs DEF Commit
    <2> QED
        BY <2>3, <2>4
<1>5. CASE CancelReconnect
    <2> DEFINE cancelled == SetReconnectFlowStatus(mgr, "Cancelled")
    <2>1. \/ Commit(Done(cancelled)) \/ ForceManagerReset(cancelled, "reset")
          \/ Commit(Done(mgr))
        BY <1>5 DEF CancelReconnect
    <2> HIDE DEF cancelled
    <2> QED
        BY <1>3, <2>1, ForceResetAsks, CommitDoneAsks, ResultPcs DEF Commit
<1>6. CASE Connect
    BY <1>4, <1>6 DEF Connect
<1>7. CASE ConnectLastGoodConnection
    <2>1. CASE mgr.last_good_connection = None
        BY <1>3, <1>7, <2>1, CommitDoneAsks, ResultPcs DEF ConnectLastGoodConnection, Commit
    <2>2. CASE mgr.last_good_connection # None
        <3>1. mgr.last_good_connection \in Connection
            BY <1>2, <2>2 DEF ManagerState, ConnectionOption
        <3> QED
            BY <1>4, <1>7, <2>2, <3>1 DEF ConnectLastGoodConnection
    <2> QED
        BY <2>1, <2>2
<1>8. CASE Disconnect
    <2>1. PICK s : Commit(DoneSending(s, "Disconnect"))
        BY <1>8 DEF Disconnect
    <2> QED
        BY <1>3, <2>1, CommitSendingAsks, InputTags, ResultPcs DEF Commit
<1>9. CASE SendTvCommand
    BY <1>3, <1>9, CommitSendingAsks, InputTags, ResultPcs DEF SendTvCommand, Commit
<1>10. CASE TestConnection
    BY <1>3, <1>10, SendToWsAsks, CommitDoneAsks, ResultPcs DEF TestConnection, Commit
<1>11. CASE ShutDown
    <2> DEFINE r == Result(mgr, <<>>, "stopping")
    <2>1. Commit(r) /\ r.sent = <<>> /\ r.pc = "stopping"
        BY <1>11 DEF ShutDown, Result
    <2>2. <<>> \in Seq(Input) /\ ~HasConnect(<<>>)
        BY DEF HasConnect, Without
    <2> HIDE DEF r
    <2> QED
        BY <1>3, <2>1, <2>2, CommitAsks DEF Commit
<1> QED
    BY <1>5, <1>6, <1>7, <1>8, <1>9, <1>10, <1>11 DEF FromCaller

LEMMA StateMachineAttempt ==
    ASSUME TypeInv, OneAttempt, FromStateMachine
    PROVE  OneAttempt'
<1>1. /\ UNCHANGED fsm_state /\ from_fsm # <<>> /\ from_fsm' = Tail(from_fsm)
    BY DEF FromStateMachine, NewState, ConnectToTv, SendRegisterPayload, PairWithTv,
           InitializeConnection, SendCommand, DisconnectFromTv, HandleSuccessfulDisconnect,
           HandleDisconnectError, HandleDisconnected, HandleConnectError, TransitionError, Updated
<1>2. ASSUME AsksForNone, mgr_pc' \in RestPc => IsEnd(Head(from_fsm))
      PROVE  OneAttempt'
    BY <1>1, <1>2, ReadAttempt
<1>3. ASSUME AsksForNone, mgr_pc' \in {"select", "reset", "reset_initialize"}
      PROVE  OneAttempt'
    BY <1>2, <1>3 DEF RestPc
<1>4. ASSUME NEW s, Commit(Done(s))
      PROVE  OneAttempt'
    BY <1>3, <1>4, CommitDoneAsks, ResultPcs DEF Commit
<1>5. CASE NewState \/ ConnectToTv \/ PairWithTv \/ TransitionError
    BY <1>4, <1>5 DEF NewState, ConnectToTv, PairWithTv, TransitionError
<1>6. CASE SendRegisterPayload \/ SendCommand
    BY <1>3, <1>6, SendToWsAsks DEF SendRegisterPayload, SendCommand
<1>7. CASE InitializeConnection
    BY <1>3, <1>7, SendToWsAsks, ForceResetAsks DEF InitializeConnection
<1>8. CASE DisconnectFromTv
    BY <1>3, <1>4, <1>8, SendToWsAsks DEF DisconnectFromTv, InitiateDisconnectFromTv
<1>9. CASE HandleSuccessfulDisconnect \/ HandleDisconnectError
    <2>1. IsEnd(Head(from_fsm))
        BY <1>9 DEF HandleSuccessfulDisconnect, HandleDisconnectError, HandleDisconnected,
               Updated, IsEnd, IsFarewell, IsOutput
    <2>2. PICK s : Commit(Result(s, <<>>, "disconnected"))
        BY <1>9 DEF HandleSuccessfulDisconnect, HandleDisconnectError, HandleDisconnected
    <2> DEFINE r == Result(s, <<>>, "disconnected")
    <2>3. r.sent = <<>> /\ Commit(r)
        BY <2>2 DEF Result
    <2>4. <<>> \in Seq(Input) /\ ~HasConnect(<<>>)
        BY DEF HasConnect, Without
    <2> HIDE DEF r
    <2> QED
        BY <1>2, <2>1, <2>3, <2>4, CommitAsks
<1>10. CASE HandleConnectError
    <2>1. IsEnd(Head(from_fsm))
        BY <1>10 DEF HandleConnectError, Updated, IsEnd, IsOutput
    <2> QED
        BY <1>2, <1>10, <2>1, ForceResetAsks DEF HandleConnectError
<1> QED
    BY <1>5, <1>6, <1>7, <1>8, <1>9, <1>10 DEF FromStateMachine

LEMMA WebSocketAttempt ==
    ASSUME TypeInv, OneAttempt, FromWebSocket
    PROVE  OneAttempt'
<1>1. PICK updates : Reported(updates)
    BY DEF FromWebSocket, WebSocketConnected, WebSocketDisconnected, ConnectionLost,
           ConnectionTested, GetVolume, PairRequested, PairingFailed, Registered
<1>2. \E s : \/ Commit(Done(s))
             \/ \E tag \in InputTag \ {"Connect"} : Commit(DoneSending(s, tag))
    BY InputTags
       DEF FromWebSocket, WebSocketConnected, WebSocketDisconnected, ConnectionLost,
           ConnectionTested, GetVolume, PairRequested, PairingFailed, Registered
<1>3. AsksForNone /\ mgr_pc' = "select"
    BY <1>2, CommitDoneAsks, CommitSendingAsks, ResultPcs DEF Commit
<1> QED
    BY <1>1, <1>3, KeptAttempt DEF Reported, RestPc

\* What a reset sends, with nothing else or with more of the same.
LEMMA FinishedResetAsks ==
    ASSUME TypeInv, NEW resume, NEW r, FinishedReset(resume, r),
           r.sent \in Seq(Input), ~HasConnect(r.sent)
    PROVE  AsksForNone /\ mgr_pc = resume /\ mgr_pc' = r.pc
<1> DEFINE longer == [r EXCEPT !.sent = ResetInput \o r.sent]
<1>1. Commit(longer) /\ mgr_pc = resume
    BY DEF FinishedReset
<1>2. InputOf("Reset") \in Input /\ InputOf("Reset").tag # "Connect"
    BY InputOfType, InputTags DEF InputOf
<1>3. ResetInput \in Seq(Input) /\ ~HasConnect(ResetInput)
    BY <1>2 DEF ResetInput, HasConnect, Without, Connects
<1>4. ResetInput \o r.sent \in Seq(Input) /\ ~HasConnect(ResetInput \o r.sent)
    BY <1>3, SendConnect
<1>5. longer.sent = ResetInput \o r.sent \/ Commit(r)
    BY <1>1 DEF Commit
<1>6. mgr_pc' = r.pc
    BY <1>1 DEF Commit
<1> HIDE DEF longer
<1>7. AsksForNone
    BY <1>1, <1>4, <1>5, CommitAsks
<1> QED
    BY <1>1, <1>6, <1>7

\* A retry is not sent at once: the manager sleeps first.
LEMMA RetrySends ==
    ASSUME NEW s
    PROVE  /\ Done(s).sent = <<>>
           /\ InitiateReconnect(s, FALSE).sent = <<>>
           /\ AfterConnectError(s).sent = <<>>
<1>1. \A a, pc : Result(a, <<>>, pc).sent = <<>>
    BY DEF Result
<1>2. \A a : Done(a).sent = <<>>
    BY <1>1 DEF Done
<1>3. InitiateReconnect(s, FALSE).sent = <<>>
    BY <1>1, <1>2 DEF InitiateReconnect
<1> QED
    BY <1>2, <1>3 DEF AfterConnectError

\* Of the handlers that go on, the one that has slept starts an attempt, and
\* the others sleep only where an attempt has ended.
LEMMA ContinueAttempt ==
    ASSUME TypeInv, OneAttempt, Continue
    PROVE  OneAttempt'
<1>1. UNCHANGED <<fsm_state, from_fsm>>
    BY DEF Continue, FinishReset, FinishConnectError, FinishInitialize, FinishShutDown,
           FinishedReset, ResetInsteadOfReconnect, FinishDisconnect, RetryIntervalTick,
           TasksStopped, Resumed
<1>2. <<>> \in Seq(Input) /\ ~HasConnect(<<>>)
    BY DEF HasConnect, Without
<1>3. ASSUME AsksForNone, mgr_pc' \in RestPc => mgr_pc \in RestPc
      PROVE  OneAttempt'
    BY <1>1, <1>3, KeptAttempt
<1> DEFINE s == InitializeManagerState(mgr)
<1> HIDE DEF s
<1>4. CASE FinishReset
    <2>1. FinishedReset("reset", Done(s))
        BY <1>4 DEF FinishReset, s
    <2>2. AsksForNone /\ mgr_pc' = "select"
        BY <1>2, <2>1, FinishedResetAsks, RetrySends, ResultPcs
    <2> QED
        BY <1>3, <2>2 DEF RestPc
<1>5. CASE FinishConnectError
    <2>1. FinishedReset("reset_connect_error", AfterConnectError(s))
        BY <1>5 DEF FinishConnectError, s
    <2>2. AsksForNone /\ mgr_pc = "reset_connect_error"
        BY <1>2, <2>1, FinishedResetAsks, RetrySends
    <2> QED
        BY <1>3, <2>2 DEF RestPc
<1>6. CASE FinishInitialize
    <2> DEFINE resets == [k \in 1 .. 5 |-> InputOf("Reset")]
               r == Result(Remembered(s), resets, "select")
    <2>1. FinishedReset("reset_initialize", r)
        BY <1>6 DEF FinishInitialize, s
    <2>2. r.sent = resets /\ r.pc = "select"
        BY DEF Result
    <2>3. resets \in Seq(Input) /\ ~HasConnect(resets)
        BY InputOfType, InputTags DEF HasConnect, Without, Connects, InputOf
    <2> HIDE DEF resets, r
    <2>4. AsksForNone /\ mgr_pc' = "select"
        BY <2>1, <2>2, <2>3, FinishedResetAsks
    <2> QED
        BY <1>3, <2>4 DEF RestPc
<1>7. CASE FinishShutDown
    <2> DEFINE r == Result(s, <<>>, "stopped")
    <2>1. FinishedReset("reset_shut_down", r)
        BY <1>7 DEF FinishShutDown, s
    <2>2. r.sent = <<>> /\ r.pc = "stopped"
        BY DEF Result
    <2> HIDE DEF r
    <2>3. AsksForNone /\ mgr_pc' = "stopped"
        BY <1>2, <2>1, <2>2, FinishedResetAsks
    <2> QED
        BY <1>3, <2>3 DEF RestPc
<1>8. CASE ResetInsteadOfReconnect
    <2>1. AsksForNone /\ mgr_pc' = "reset"
        BY <1>8, ForceResetAsks DEF ResetInsteadOfReconnect
    <2> QED
        BY <1>3, <2>1 DEF RestPc
<1>9. CASE FinishDisconnect
    <2> DEFINE unpaired == [SetReconnectFlowStatus(s, "Inactive") EXCEPT !.is_pairing = FALSE]
    <2>1. \/ Commit(Done(s)) \/ Commit(Done(unpaired)) \/ Commit(InitiateReconnect(s, FALSE))
        BY <1>9 DEF FinishDisconnect, s
    <2> HIDE DEF unpaired
    <2>2. AsksForNone
        BY <1>2, <2>1, RetrySends, CommitAsks
    <2>3. mgr_pc \in RestPc
        BY <1>9 DEF FinishDisconnect, RestPc
    <2> QED
        BY <1>3, <2>2, <2>3
<1>10. CASE RetryIntervalTick
    <2> DEFINE attempts == IF mgr.reconnect_attempts < MaxAttempts
                           THEN mgr.reconnect_attempts + 1 ELSE mgr.reconnect_attempts
               counted == [mgr EXCEPT !.reconnect_attempts = attempts]
               c == mgr.connection_details
    <2>1. Commit(InitiateConnectToTv(counted, c))
        BY <1>10 DEF RetryIntervalTick, Reconnect
    <2>2. mgr \in ManagerState /\ c \in Connection
        BY <1>10 DEF TypeInv, CoreOK, SleepingHasConnection, RetryIntervalTick, ManagerState,
                     ConnectionOption
    <2>3. attempts \in 0 .. MaxAttempts
        BY <2>2, ManagerAssumption DEF ManagerState
    <2> HIDE DEF attempts
    <2>4. counted \in ManagerState
        BY <2>2, <2>3 DEF ManagerState
    <2> HIDE DEF counted, c
    <2>5. ~HasConnect(to_fsm) /\ ~HasEnd(from_fsm) /\ ~IsActive
        BY <1>10 DEF RetryIntervalTick, OneAttempt, RestPc
    <2> QED
        BY <1>1, <2>1, <2>2, <2>4, <2>5, AskAttempt
<1>11. CASE TasksStopped
    <2> DEFINE r == Result(mgr, <<>>, "stopped")
    <2>1. mgr_pc' # "sleeping" /\ mgr_pc' \notin RestPc /\ AsksForNone
        <3>1. CASE ForceManagerReset(mgr, "reset_shut_down")
            BY <3>1, ForceResetAsks DEF RestPc
        <3>2. CASE Commit(r)
            <4>1. r.sent = <<>> /\ r.pc = "stopped"
                BY DEF Result
            <4> HIDE DEF r
            <4> QED
                BY <1>2, <3>2, <4>1, CommitAsks DEF Commit, RestPc
        <3> QED
            BY <1>11, <3>1, <3>2 DEF TasksStopped
    <2> QED
        BY <1>3, <2>1
<1> QED
    BY <1>4, <1>5, <1>6, <1>7, <1>8, <1>9, <1>10, <1>11 DEF Continue

\* A transition into an attempt, within one or out of it.
LEMMA RulesOfAttempts ==
    ASSUME NEW rule \in Rules
    PROVE  /\ rule.input = "Connect" =>
                  /\ rule.from = "Disconnected" /\ rule.to # "Disconnected"
                  /\ rule.output = "ConnectToTv"
           /\ rule.input # "Connect" /\ rule.to # "Disconnected" => rule.from # "Disconnected"
           /\ rule.output \in {"HandleSuccessfulDisconnect", "HandleDisconnectError",
                               "HandleConnectError"}
                  => rule.from # "Disconnected" /\ rule.to = "Disconnected"
    BY DEF Rules, Rule, NoOutput

LEMMA FsmAttempt ==
    ASSUME TypeInv, OneAttempt, FsmStep
    PROVE  OneAttempt'
<1>1. /\ from_fsm \in Seq(Update) /\ fsm_state \in State /\ to_fsm \in Seq(Input)
      /\ UNCHANGED mgr_pc
    BY DEF TypeInv, RestOK, CoreOK, FsmStep, mgr_vars
<1>2. ASSUME to_fsm # <<>>, to_fsm' = Tail(to_fsm)
      PROVE  /\ OneConnect(to_fsm')
             /\ HasConnect(to_fsm') => HasConnect(to_fsm) /\ Head(to_fsm).tag # "Connect"
             /\ Head(to_fsm).tag = "Connect" => HasConnect(to_fsm)
    BY <1>1, <1>2, ReadConnect DEF OneAttempt
<1>3. CASE FsmTransition
    <2>1. PICK rule \in Applicable(fsm_state, Head(to_fsm)) :
              /\ fsm_state' = Target(rule, fsm_state, Head(to_fsm))
              /\ from_fsm' = from_fsm \o Updates(rule, fsm_state')
        BY <1>3 DEF FsmTransition
    <2>2. /\ rule \in Rules /\ rule.from = fsm_state.tag /\ rule.input = Head(to_fsm).tag
          /\ fsm_state' \in State /\ fsm_state'.tag = rule.to
        <3>1. Head(to_fsm) \in Input
            BY <1>1, <1>3 DEF FsmTransition
        <3> QED
            BY <1>1, <2>1, <3>1, RuleTypes DEF Applicable
    <2>3. rule.output \in OutputTag \cup {NoOutput}
        BY <2>2 DEF Rules, Rule, OutputTag, NoOutput
    <2> DEFINE moved == StateUpdate(fsm_state')
               asked == OutputUpdate(rule.output, fsm_state')
               reported == Append(from_fsm, moved)
               ends == rule.output \in {"HandleSuccessfulDisconnect", "HandleDisconnectError",
                                        "HandleConnectError"}
    <2>4. moved \in Update /\ ~IsEnd(moved)
        BY <2>2 DEF StateUpdate, Update, State, IsEnd, IsFarewell, IsOutput
    <2>5. rule.output # NoOutput => asked \in Update
        BY <2>2, <2>3 DEF OutputUpdate, Update, State, UrlOption
    <2>6. IsEnd(asked) => ends
        BY DEF OutputUpdate, IsEnd, IsFarewell, IsOutput
    <2>7. from_fsm' = IF rule.output = NoOutput THEN reported ELSE Append(reported, asked)
        <3>1. /\ rule.output = NoOutput => from_fsm' = from_fsm \o <<moved>>
              /\ rule.output # NoOutput => from_fsm' = from_fsm \o <<moved, asked>>
            BY <2>1 DEF Updates
        <3> HIDE DEF moved, asked
        <3> QED
            BY <1>1, <2>4, <2>5, <3>1
    <2>8. /\ rule.input = "Connect" => ~IsActive /\ ~ends
          /\ rule.input # "Connect" /\ IsActive' => IsActive
          /\ ends => IsActive /\ ~IsActive'
          /\ rule.input = "Connect" => IsActive'
        BY <2>2, RulesOfAttempts DEF IsActive
    <2> HIDE DEF moved, asked, ends
    <2>9. /\ reported \in Seq(Update)
          /\ HasEnd(reported) => HasEnd(from_fsm)
          /\ OneEnd(reported)
        BY <1>1, <2>4, ReportEnd DEF OneAttempt
    <2> HIDE DEF reported
    <2>10. /\ HasEnd(from_fsm') => HasEnd(from_fsm) \/ ends
           /\ OneEnd(from_fsm')
        <3>1. CASE rule.output = NoOutput
            BY <2>7, <2>9, <3>1
        <3>2. CASE rule.output # NoOutput /\ ~ends
            BY <2>5, <2>6, <2>7, <2>9, <3>2, ReportEnd
        <3>3. CASE rule.output # NoOutput /\ ends
            <4>1. ~HasEnd(reported)
                BY <2>8, <2>9, <3>3 DEF OneAttempt
            <4> QED
                BY <2>5, <2>7, <2>9, <3>3, <4>1, ReportEnd
        <3> QED
            BY <3>1, <3>2, <3>3
    <2>11. /\ OneConnect(to_fsm')
           /\ HasConnect(to_fsm') => HasConnect(to_fsm) /\ rule.input # "Connect"
           /\ rule.input = "Connect" => HasConnect(to_fsm)
        BY <1>2, <1>3, <2>2 DEF FsmTransition
    <2> QED
        BY <1>1, <2>8, <2>10, <2>11 DEF OneAttempt
<1>4. CASE FsmTransitionError
    <2> DEFINE refused == ErrorUpdate(Head(to_fsm))
    <2>1. refused \in Update /\ ~IsEnd(refused)
        <3>1. Head(to_fsm) \in Input
            BY <1>1, <1>4 DEF FsmTransitionError
        <3>2. Head(to_fsm).tag \in InputTag /\ Head(to_fsm).url \in UrlOption
            BY <3>1 DEF Input, InputTag, UrlOption
        <3> QED
            BY <3>2 DEF ErrorUpdate, Update, IsEnd, IsFarewell, IsOutput
    <2>2. from_fsm' = Append(from_fsm, refused) /\ UNCHANGED fsm_state
        BY <1>4 DEF FsmTransitionError
    <2> HIDE DEF refused
    <2>3. /\ HasEnd(from_fsm') => HasEnd(from_fsm)
          /\ OneEnd(from_fsm')
        BY <1>1, <2>1, <2>2, ReportEnd DEF OneAttempt
    <2>4. OneConnect(to_fsm') /\ (HasConnect(to_fsm') => HasConnect(to_fsm))
        BY <1>2, <1>4 DEF FsmTransitionError
    <2> QED
        BY <1>1, <2>2, <2>3, <2>4 DEF OneAttempt, IsActive
<1>5. CASE FsmShutDown
    <2>1. to_fsm' = <<>> /\ UNCHANGED <<fsm_state, from_fsm>>
        BY <1>5 DEF FsmShutDown
    <2>2. AsksForNone
        BY <2>1 DEF AsksForNone, HasConnect, OneConnect, Without, NoneAfter
    <2> QED
        BY <1>1, <2>1, <2>2, KeptAttempt
<1> QED
    BY <1>3, <1>4, <1>5 DEF FsmStep, FsmNext

LEMMA NextKeepsAttempt ==
    ASSUME Patient, ~IsOperational,
           TypeInv, StatusInv, RestInv, NeverChecked, OneAttempt, [Next]_vars
    PROVE  (NeverChecked /\ OneAttempt)'
<1>1. NeverChecked' /\ ~TvNetworkChecked
    <2>1. ~TvNetworkChecked
        BY DEF TvNetworkChecked, NeverChecked
    <2> SUFFICES NeverChecked'
        BY <2>1
    <2>2. CASE NetStep
        BY <2>2 DEF NetStep, StoreResult, NotifyManager, NeverChecked
    <2>3. CASE FromCaller
        BY <2>3 DEF FromCaller, CancelReconnect, Connect, ConnectLastGoodConnection, Disconnect,
               SendTvCommand, TestConnection, ShutDown, Called, NeverChecked
    <2>4. CASE FromStateMachine
        BY <2>4
           DEF FromStateMachine, NewState, ConnectToTv, SendRegisterPayload, PairWithTv,
               InitializeConnection, SendCommand, DisconnectFromTv, HandleSuccessfulDisconnect,
               HandleDisconnectError, HandleDisconnected, HandleConnectError, TransitionError,
               Updated, NeverChecked
    <2>5. CASE FromWebSocket
        <3>1. PICK updates : Reported(updates)
            BY <2>5 DEF FromWebSocket, WebSocketConnected, WebSocketDisconnected,
                   ConnectionLost, ConnectionTested, GetVolume, PairRequested, PairingFailed,
                   Registered
        <3> QED
            BY <3>1 DEF Reported, NeverChecked
    <2>6. CASE Continue
        <3>1. UNCHANGED <<is_notify_due, is_tv_on_network_notify>>
            BY <2>6 DEF Continue, FinishReset, FinishConnectError, FinishInitialize,
                   FinishShutDown, FinishedReset, ResetInsteadOfReconnect, FinishDisconnect,
                   RetryIntervalTick, TasksStopped, Resumed
        <3> QED
            BY <3>1 DEF NeverChecked
    <2>7. CASE FsmStep \/ (\E i \in Socket : WsTask(i) \/ WsNetwork(i)) \/ UNCHANGED vars
        BY <2>7 DEF FsmStep, WsTask, WsNetwork, vars, checker_vars, net_vars, NeverChecked
    <2> QED
        BY <2>1, <2>2, <2>3, <2>4, <2>5, <2>6, <2>7 DEF Next, ManagerStep
<1>2. CASE FromCaller
    BY <1>1, <1>2, CallerAttempt
<1>3. CASE FromStateMachine
    BY <1>1, <1>3, StateMachineAttempt
<1>4. CASE FromWebSocket
    BY <1>1, <1>4, WebSocketAttempt
<1>5. CASE Continue
    BY <1>1, <1>5, ContinueAttempt
<1>6. CASE FsmStep
    BY <1>1, <1>6, FsmAttempt
<1>7. CASE (\E i \in Socket : WsTask(i) \/ WsNetwork(i)) \/ NetStep \/ UNCHANGED vars
    <2>1. UNCHANGED <<fsm_state, to_fsm, from_fsm, mgr_pc>>
        BY <1>7 DEF WsTask, WsNetwork, NetStep, vars, fsm_vars, mgr_vars
    <2> QED
        BY <1>1, <2>1, UnchangedAsks, KeptAttempt
<1> QED
    BY <1>1, <1>2, <1>3, <1>4, <1>5, <1>6, <1>7 DEF Next, ManagerStep

LEMMA InitAttempt == Init => StatusInv /\ RestInv /\ NeverChecked /\ OneAttempt
<1> SUFFICES ASSUME Init PROVE StatusInv /\ RestInv /\ NeverChecked /\ OneAttempt
    OBVIOUS
<1>1. /\ to_fsm = <<>> /\ from_fsm = <<>> /\ fsm_state = Disconnected /\ mgr_pc = "select"
      /\ fsm_alive /\ ~fsm_cancelled /\ ~is_notify_due /\ ~is_tv_on_network_notify
    BY DEF Init, FsmInit, ManagerInit, NetInit
<1>2. mgr.manager_status = Disconnected
    BY DEF Init, ManagerInit, ImportPersistedState
<1> QED
    BY <1>1, <1>2 DEF Disconnected, Zombie, StatusInv, LastStateIs, RestInv, IsStopping,
           RestPc, EndsFollowDisconnected, NeverChecked, OneAttempt, OneConnect, HasConnect,
           OneEnd, HasEnd, Without, NoneAfter, IsActive

\* Whatever goes wrong, and whatever else the caller asks for, a Connect of a
\* caller that waits for the manager to settle, and every retry the manager
\* makes on its own, reaches the machine in Disconnected and is not lost.
THEOREM ConnectsAreAccepted ==
    ASSUME Patient, ~IsOperational
    PROVE  Spec => []ConnectIsAccepted
<1>1. Init => StatusInv /\ RestInv /\ NeverChecked /\ OneAttempt
    BY InitAttempt
<1>2. TypeInv /\ StatusInv /\ RestInv /\ NeverChecked /\ OneAttempt /\ [Next]_vars
          => (StatusInv /\ RestInv /\ NeverChecked /\ OneAttempt)'
    BY NextKeepsStatus, NextKeepsRest, NextKeepsAttempt
<1> QED
    BY <1>1, <1>2, InitType, NextType, OneAttemptImplies, PTL DEF Spec

-----------------------------------------------------------------------------
(* What is written to disk.  The manager stores the key of a registration  *)
(* with its own ws_url, so that it has to be the URL of the TV that has    *)
(* answered.  It is, because the URL is only set where an attempt begins,  *)
(* and at that time nothing is left of the attempt before it: its task is  *)
(* over, all it has reported is read, and no Input or output is on its way *)
(* that could bring a second attempt or leave the first one.  That is what *)
(* the invariant below says, queue by queue.  It does not hold of a task   *)
(* whose send fails, nor of one that is being tested: the first is told to *)
(* end by nobody and the answer of the TV may come after the next attempt  *)
(* has begun, the second may end its attempt at any time.                  *)

Inputs(tags) == {input \in Input : input.tag \in tags}

Outputs(tags) == {update \in Update : update.kind = "Output" /\ update.tag \in tags}

\* The Inputs that leave a machine in Connecting as it is, and those that can
\* only lead it on to a registration.
IdleInput == {"SendCommand", "Disconnect", "DisconnectionComplete"}

EarlyInput == IdleInput \cup {"AttemptRegister", "Pair"}

Starts == Outputs({"ConnectToTv"})

StartsOrEnds == Starts \cup Ends

Errors == Inputs({"Error"})

\* The last updates of a task, and the answers of a TV to a registration.
LastWords == {"ConnectError", "MessageReadError", "ServerClosedConnection", "Disconnected"}

Refusals == {"PairUnsupported", "PairingError"}

Verdicts == {"Registered"} \cup Refusals

EarlySession == {"idle", "registering", "prompting"}

\* Of a task: it is out of its loop; all it has reported is read, but for its
\* end; the TV has yet to answer, or its answer is still to be read.
IsOver(s) == s.phase \in {"closing", "exiting", "ended"}

IsSpent(s) == IsOver(s) /\ Without(s.from_ws, WsUpdateMessage \ {"Disconnected"})

IsUnanswered(s) ==
    \/ s.phase \in {"connecting", "running"} /\ s.tv \in EarlySession
    \/ ~Without(s.from_ws, Verdicts)

\* The updates of a task come in the order of its session with the TV.
InOrder(s) ==
    /\ ~s.testing
    /\ Without(s.to_ws, {"TestConnection"})
    /\ Without(s.from_ws, {"ConnectionOk", "ConnectionNotOk"})
    /\ s.phase = "connecting" => s.tv = "idle"
    /\ ~IsOver(s) => Without(s.from_ws, LastWords)
    /\ s.phase # "ended" =>
           /\ s.tv \in EarlySession => Without(s.from_ws, TvPayload \ {"Pair"})
           /\ s.tv = "declined" => Without(s.from_ws, {"Registered", "Volume"})
           /\ s.tv \in {"registered", "subscribed"} => Without(s.from_ws, Refusals)
    /\ NoneAfter(s.from_ws, LastWords, WsUpdateMessage \ {"Disconnected"})
    /\ NoneAfter(s.from_ws, TvPayload \ {"Pair"}, Verdicts)
    /\ NoneAfter(s.from_ws, Refusals, WsUpdateMessage \ LastWords)

\* The same of the task whose channels the manager holds, if there is one.
Task == ws[cur_ws]

TaskInOrder == cur_ws # None => InOrder(Task)

Gone == cur_ws # None => IsOver(Task)

Spent == cur_ws # None => IsSpent(Task)

Unanswered == cur_ws # None /\ IsUnanswered(Task)

\* A task that is not spent belongs to the one attempt there is: nothing is on
\* its way that starts another, and it ends by the way of Disconnecting.
OneTask ==
    /\ ~Gone => fsm_state.tag # "Disconnected" /\ Without(to_fsm, Inputs({"Reset"}))
    /\ ~Spent =>
           /\ mgr_pc \notin RestPc
           /\ Without(to_fsm, Connects)
           /\ Without(from_fsm, StartsOrEnds)
           /\ NoneAfter(to_fsm, Inputs({"AttemptRegister"}), Inputs({"DisconnectionComplete"}))
           /\ fsm_state.tag \notin {"Disconnected", "Connecting"} =>
                  Without(to_fsm, Inputs({"DisconnectionComplete"}))

\* The outputs of an attempt do not outlive it.
EndsAreLast ==
    /\ mgr_pc \in RestPc => Without(from_fsm, Outputs(OutputTag))
    /\ NoneAfter(from_fsm, Ends, Outputs(OutputTag))

\* An attempt: asked for, with the URL the manager has; started; waiting for
\* the answer of the TV; refused by it.
Asking ==
    ~Without(to_fsm, Connects) =>
        /\ mgr_pc = "select"
        /\ Without(to_fsm, {input \in Connects : input.url # mgr.ws_url})
        /\ NoneAfter(to_fsm, Connects, Input \ Inputs(IdleInput))
        /\ Without(from_fsm, Outputs(OutputTag))

Starting ==
    ~Without(from_fsm, Starts) =>
        /\ mgr_pc = "select"
        /\ fsm_state.tag = "Connecting"
        /\ Without(to_fsm, Input \ Inputs(IdleInput))
        /\ Without(from_fsm, {update \in Starts : update.url # mgr.ws_url})
        /\ Without(from_fsm, Outputs(OutputTag \ {"ConnectToTv"}))
        /\ NoneAfter(from_fsm, Starts, Starts)

Waiting ==
    Unanswered =>
        /\ mgr_pc = "select"
        /\ mgr.ws_url = Task.host
        /\ fsm_state.tag \in {"Connecting", "Connected", "Pairing"}
        /\ Without(to_fsm, Input \ Inputs(EarlyInput))
        /\ Without(from_fsm, Outputs(OutputTag \ {"SendRegisterPayload", "PairWithTv"}))

Refused ==
    ~Spent /\ ~Without(to_fsm, Errors) =>
        /\ mgr_pc = "select"
        /\ fsm_state.tag \in {"Connected", "Pairing"}
        /\ Without(to_fsm, Input \ Inputs(EarlyInput \cup {"Error"}))
        /\ NoneAfter(to_fsm, Errors, Errors)
        /\ Without(from_fsm, Outputs(OutputTag \ {"PairWithTv"}))
        /\ Without(Task.from_ws, WsUpdateMessage \ LastWords)
        /\ Task.tv = "declined" \/ IsOver(Task)

\* The TV is heard of only after the registration has been asked for.
ToRegister ==
    fsm_state.tag = "Connecting" \/ ~Without(from_fsm, Outputs({"SendRegisterPayload"}))

Unheard ==
    /\ fsm_state.tag = "Connecting" => Without(from_fsm, Outputs(OutputTag \ {"ConnectToTv"}))
    /\ ToRegister /\ cur_ws # None => Without(Task.from_ws, TvPayload)

AttemptInv ==
    /\ TaskInOrder /\ OneTask /\ EndsAreLast
    /\ Asking /\ Starting /\ Waiting /\ Refused /\ Unheard

NeverWaits(s) == s.reconnect_flow_status # "WaitingForTvOnNetwork"

\* A manager that is shutting down writes nothing.
PairInv ==
    /\ PersistedPairMatches
    /\ NeverWaits(mgr)
    /\ mgr_pc \notin StopPc => AttemptInv

-----------------------------------------------------------------------------
(* Inputs and outputs by their tags, and the manager's fields.             *)

LEMMA TaggedInputs ==
    ASSUME NEW input \in Input
    PROVE  /\ \A tags : input \in Inputs(tags) <=> input.tag \in tags
           /\ input \in Connects <=> input.tag = "Connect"
           /\ input \in Errors <=> input.tag = "Error"
    BY DEF Inputs, Connects, Errors

LEMMA TaggedOutputs ==
    ASSUME NEW update \in Update
    PROVE  /\ \A tags : update \in Outputs(tags) <=> update.kind = "Output" /\ update.tag \in tags
           /\ update \in Starts <=> update.kind = "Output" /\ update.tag = "ConnectToTv"
           /\ update \in Ends <=> /\ update.kind = "Output"
                                  /\ update.tag \in {"HandleSuccessfulDisconnect",
                                         "HandleDisconnectError", "HandleConnectError"}
           /\ update \in StartsOrEnds <=> update \in Starts \/ update \in Ends
    BY DEF Outputs, Starts, StartsOrEnds, Ends, IsEnd, IsFarewell, IsOutput

\* The fields a handler leaves: the URL that the manager has, and a flow that
\* does not wait for the TV.
KeepsUrl(s) == NeverWaits(s) /\ s.ws_url = mgr.ws_url

LEMMA FlowNeverWaits ==
    ASSUME NEW s \in ManagerState, NEW status, status # "WaitingForTvOnNetwork"
    PROVE  /\ NeverWaits(SetReconnectFlowStatus(s, status))
           /\ SetReconnectFlowStatus(s, status).ws_url = s.ws_url
    BY DEF SetReconnectFlowStatus, ManagerState, NeverWaits

LEMMA FieldsKeepUrl ==
    ASSUME NEW s \in ManagerState, KeepsUrl(s)
    PROVE  /\ \A b \in BOOLEAN :
                /\ KeepsUrl([s EXCEPT !.is_manual_disconnect_requested = b])
                /\ KeepsUrl([s EXCEPT !.is_pairing = b])
                /\ KeepsUrl([s EXCEPT !.is_connection_initialized = b])
           /\ \A status \in ManagerStatus : KeepsUrl([s EXCEPT !.manager_status = status])
           /\ \A n \in 0 .. 1 : KeepsUrl([s EXCEPT !.session_connection_count = n])
           /\ \A k \in KeyOption : KeepsUrl([s EXCEPT !.client_key = k])
           /\ KeepsUrl(Remembered(s))
    BY DEF ManagerState, Remembered, NeverWaits, KeepsUrl

LEMMA PrepareKeepsUrl ==
    ASSUME ~IsOperational, NEW s \in ManagerState, KeepsUrl(s)
    PROVE  KeepsUrl(OptionallyPrepareForReconnect(s))
<1>1. FlowAfterLostConnection(s) # "WaitingForTvOnNetwork"
    BY DEF FlowAfterLostConnection
<1> QED
    BY <1>1, FlowNeverWaits DEF OptionallyPrepareForReconnect, KeepsUrl

LEMMA InitializeNeverWaits ==
    ASSUME NEW s \in ManagerState, disk \in PersistedState \cup {None}, NeverWaits(s)
    PROVE  NeverWaits(InitializeManagerState(s))
<1> DEFINE uninitialized == [s EXCEPT !.is_connection_initialized = FALSE]
           kept == IF IsReconnectFlow(s) THEN uninitialized
                                         ELSE ForgetConnection(uninitialized)
           settled == IF s.reconnect_flow_status = "Cancelled"
                      THEN SetReconnectFlowStatus(kept, "Inactive")
                      ELSE kept
<1>1. uninitialized \in ManagerState /\ NeverWaits(uninitialized)
    BY DEF ManagerState, NeverWaits
<1> HIDE DEF uninitialized
<1>2. NeverWaits(ForgetConnection(uninitialized))
    BY <1>1 DEF ForgetConnection, ManagerState, NeverWaits
<1>3. kept \in ManagerState /\ NeverWaits(kept)
    BY <1>1, <1>2, ForgetType
<1> HIDE DEF kept
<1>4. settled \in ManagerState /\ NeverWaits(settled)
    BY <1>3, SetFlowType, FlowTypes, FlowNeverWaits
<1> HIDE DEF settled
<1>5. NeverWaits(ImportPersistedState(settled))
    BY <1>4 DEF ImportPersistedState, ManagerState, NeverWaits
<1> QED
    BY <1>5 DEF InitializeManagerState, settled, kept, uninitialized

\* Being told to connect: refused, or with the URL that is sent to the machine.
LEMMA ConnectSendsUrl ==
    ASSUME NEW s \in ManagerState, NEW c \in Connection, NeverWaits(s)
    PROVE  LET r == InitiateConnectToTv(s, c)
           IN  /\ NeverWaits(r.mgr)
               /\ r.pc = "select"
               /\ r.sent = <<>> => r.mgr.ws_url = s.ws_url
               /\ \/ r.sent = <<>>
                  \/ /\ r.sent = <<ConnectInput(c.url)>>
                     /\ c.url \in Url
                     /\ r.mgr.ws_url = c.url
                     /\ IsDisconnected(s)
<1> DEFINE r == InitiateConnectToTv(s, c)
           keyed == WithClientKey(s, c)
           chosen == [keyed EXCEPT !.connection_details = c]
           flow == SetReconnectFlowStatus(chosen,
                       IF c.initial_connect_retries THEN "Active" ELSE "Inactive")
<1>1. c \in ConnectionType
    BY TypesAssumption
<1>2. keyed \in ManagerState /\ NeverWaits(keyed) /\ keyed.ws_url = s.ws_url
    BY <1>1 DEF WithClientKey, ConnectionType, ManagerState, NeverWaits
<1> HIDE DEF keyed
<1>3. r.pc = "select"
    BY ResultPcs
<1>4. CASE ~IsDisconnected(s) \/ c.url = None
    <2>1. r = [mgr |-> keyed, sent |-> <<>>, pc |-> "select", tv_ip |-> tv_ip]
        BY <1>4 DEF InitiateConnectToTv, Done, Result, keyed
    <2>2. r.mgr = keyed /\ r.sent = <<>>
        BY <2>1
    <2> HIDE DEF r
    <2> QED
        BY <1>2, <1>3, <2>2 DEF r
<1>5. CASE IsDisconnected(s) /\ c.url # None
    <2>1. chosen \in ManagerState
        BY <1>2 DEF ManagerState, ConnectionOption
    <2>2. flow \in ManagerState /\ NeverWaits(flow)
        <3> HIDE DEF chosen
        <3> QED
            BY <2>1, SetFlowType, FlowTypes, FlowNeverWaits
    <2>3. Connecting(keyed, c) = [flow EXCEPT !.ws_url = c.url]
        BY DEF Connecting
    <2> HIDE DEF flow
    <2>4. NeverWaits(Connecting(keyed, c)) /\ Connecting(keyed, c).ws_url = c.url
        BY <2>2, <2>3 DEF ManagerState, NeverWaits
    <2>5. r = [mgr |-> Connecting(keyed, c), sent |-> <<ConnectInput(c.url)>>,
               pc |-> "select", tv_ip |-> TvIpFor(c.url)]
        BY <1>5 DEF InitiateConnectToTv, Result, keyed
    <2>6. r.mgr = Connecting(keyed, c) /\ r.sent = <<ConnectInput(c.url)>>
        BY <2>5
    <2>7. c.url \in Url
        BY <1>1, <1>5 DEF ConnectionType, UrlOption
    <2> HIDE DEF r
    <2> QED
        BY <1>3, <1>5, <2>4, <2>6, <2>7 DEF r
<1> QED
    BY <1>4, <1>5

\* A step of a handler that leaves the fields s.
LEMMA HandlerKeepsUrl ==
    ASSUME NEW s \in ManagerState, NeverWaits(s),
           NEW sent, NEW pc, NEW message, NEW tag,
           \/ Commit(Result(s, sent, pc)) \/ Commit(Done(s)) \/ Commit(DoneSending(s, tag))
           \/ ForceManagerReset(s, pc) \/ SendToWs(s, message, pc)
    PROVE  NeverWaits(mgr') /\ mgr'.ws_url = s.ws_url
<1>1. ASSUME NEW r, r.mgr = s, Commit(r)
      PROVE  NeverWaits(mgr') /\ mgr'.ws_url = s.ws_url
    BY <1>1 DEF Commit, ManagerState, NeverWaits
<1> QED
    BY <1>1 DEF ForceManagerReset, SendToWs, Done, DoneSending, Result

-----------------------------------------------------------------------------
(* The steps of the task.  It goes through its session with the TV, and no *)
(* step makes it owe an answer that it did not owe before.                 *)

TaskMoves(s, t) ==
    /\ InOrder(t)
    /\ t.host = s.host
    /\ IsOver(s) => IsOver(t)
    /\ IsSpent(s) => IsSpent(t)
    /\ IsUnanswered(t) => IsUnanswered(s)
    /\ (s.tv = "idle" \/ IsOver(s)) /\ Without(s.from_ws, TvPayload)
           => Without(t.from_ws, TvPayload)
    /\ (s.tv = "declined" \/ IsOver(s)) /\ Without(s.from_ws, WsUpdateMessage \ LastWords)
           => /\ t.tv = "declined" \/ IsOver(t)
              /\ Without(t.from_ws, WsUpdateMessage \ LastWords)

\* A step that reports nothing.
LEMMA SilentMove ==
    ASSUME NEW s \in SocketState, NEW t \in SocketState, InOrder(s),
           t.from_ws = s.from_ws, t.host = s.host, ~t.testing,
           Without(t.to_ws, {"TestConnection"}),
           \/ /\ s.phase = "running" /\ t.phase = "running"
              /\ \/ t.tv = s.tv
                 \/ s.tv = "idle" /\ t.tv = "registering"
                 \/ s.tv = "registered" /\ t.tv = "subscribed"
           \/ s.phase = "running" /\ t.phase = "closing" /\ t.tv = s.tv
           \/ s.phase = "exiting" /\ t.phase = "ended"
    PROVE  TaskMoves(s, t)
<1>1. IsOver(s) => IsOver(t)
    BY DEF IsOver
<1>2. InOrder(t)
    BY <1>1 DEF InOrder, IsOver, EarlySession
<1> QED
    BY <1>1, <1>2 DEF TaskMoves, IsSpent, IsUnanswered, IsOver, EarlySession

\* A step that reports the update.
LEMMA ReportingMove ==
    ASSUME NEW s \in SocketState, NEW t \in SocketState, NEW update \in WsUpdateMessage, InOrder(s),
           t.from_ws = Append(s.from_ws, update), t.host = s.host, ~t.testing, t.to_ws = s.to_ws,
           \/ /\ update = "Disconnected"
              /\ s.phase = "closing" /\ t.phase = "exiting" /\ t.tv = s.tv
           \/ /\ update \in LastWords \ {"Disconnected"}
              /\ \/ s.phase = "connecting" /\ t.phase = "exiting"
                 \/ s.phase = "running" /\ t.phase = "closing"
              /\ t.tv = s.tv
           \/ /\ update = "Connected"
              /\ s.phase = "connecting" /\ t.phase = "running" /\ t.tv = s.tv
           \/ /\ s.phase = "running" /\ t.phase = "running"
              /\ \/ s.tv \in {"registering", "prompting"} /\ update = "Registered"
                                                          /\ t.tv = "registered"
                 \/ s.tv = "registering" /\ update = "Pair" /\ t.tv = "prompting"
                 \/ s.tv \in {"registering", "prompting"} /\ update \in Refusals
                                                          /\ t.tv = "declined"
                 \/ s.tv = "subscribed" /\ update = "Volume" /\ t.tv = "subscribed"
    PROVE  TaskMoves(s, t)
<1>1. s.from_ws \in Seq(WsUpdateMessage) /\ s.tv \in TvSession /\ s.phase \in Phase
    BY DEF SocketState
<1>2. /\ \A S : Without(t.from_ws, S) <=> Without(s.from_ws, S) /\ update \notin S
      /\ \A S, T : NoneAfter(t.from_ws, S, T) <=>
             NoneAfter(s.from_ws, S, T) /\ (Without(s.from_ws, S) \/ update \notin T)
    <2>1. Adds(s.from_ws, update, t.from_ws)
        BY <1>1, AppendAdds
    <2> QED
        BY <2>1 DEF Adds
<1>3. \A S, T : Without(s.from_ws, T) /\ S \subseteq T => Without(s.from_ws, S)
    BY FewerWithout
<1> DEFINE q == s.from_ws
<1>4. IsOver(s) => IsOver(t)
    BY DEF IsOver
<1>5. /\ ~t.testing /\ Without(t.to_ws, {"TestConnection"})
      /\ Without(t.from_ws, {"ConnectionOk", "ConnectionNotOk"})
      /\ t.phase = "connecting" => t.tv = "idle"
    <2>1. update \notin {"ConnectionOk", "ConnectionNotOk"}
        BY DEF LastWords, Refusals
    <2>2. Without(s.from_ws, {"ConnectionOk", "ConnectionNotOk"})
        BY DEF InOrder
    <2>3. Without(t.from_ws, {"ConnectionOk", "ConnectionNotOk"})
        BY <1>2, <2>1, <2>2
    <2>4. t.phase # "connecting" /\ Without(s.to_ws, {"TestConnection"})
        BY DEF InOrder
    <2> QED
        BY <2>3, <2>4
<1>6. ~IsOver(t) => Without(t.from_ws, LastWords)
    BY <1>2, <1>4 DEF InOrder, LastWords, Refusals, IsOver
<1>7. t.phase # "ended" =>
           /\ t.tv \in EarlySession => Without(t.from_ws, TvPayload \ {"Pair"})
           /\ t.tv = "declined" => Without(t.from_ws, {"Registered", "Volume"})
           /\ t.tv \in {"registered", "subscribed"} => Without(t.from_ws, Refusals)
    <2>1. /\ {"Registered", "Volume"} \subseteq TvPayload \ {"Pair"}
          /\ Refusals \subseteq TvPayload \ {"Pair"}
        BY DEF TvPayload, Refusals
    <2>2. CASE update \in LastWords \cup {"Connected"}
        <3>1. update \notin TvPayload \cup Refusals
            BY <2>2 DEF LastWords, TvPayload, Refusals
        <3> QED
            BY <1>2, <2>2, <3>1 DEF InOrder, LastWords, Refusals
    <2>3. CASE update \notin LastWords \cup {"Connected"}
        BY <1>2, <1>3, <2>1, <2>3 DEF InOrder, LastWords, Refusals, EarlySession
    <2> QED
        BY <2>2, <2>3
<1>8. NoneAfter(t.from_ws, LastWords, WsUpdateMessage \ {"Disconnected"})
    BY <1>2 DEF InOrder, IsOver, LastWords
<1>9. NoneAfter(t.from_ws, TvPayload \ {"Pair"}, Verdicts)
    <2>1. update \in Verdicts => Without(s.from_ws, TvPayload \ {"Pair"})
        BY DEF InOrder, Verdicts, Refusals, LastWords, EarlySession
    <2> QED
        BY <1>2, <2>1 DEF InOrder
<1>10. NoneAfter(t.from_ws, Refusals, WsUpdateMessage \ LastWords)
    <2>1. update \notin LastWords => Without(s.from_ws, Refusals)
        <3>1. update \notin LastWords => s.phase # "ended" /\ s.tv # "declined"
            BY DEF InOrder, LastWords
        <3>2. Refusals \subseteq TvPayload \ {"Pair"}
            BY DEF TvPayload, Refusals
        <3> QED
            BY <1>1, <1>3, <3>1, <3>2 DEF InOrder, TvSession, EarlySession
    <2> QED
        BY <1>2, <2>1 DEF InOrder
<1>11. InOrder(t)
    BY <1>5, <1>6, <1>7, <1>8, <1>9, <1>10 DEF InOrder
<1>12. IsSpent(s) => IsSpent(t)
    BY <1>2, <1>4 DEF IsSpent, IsOver, LastWords
<1>13. IsUnanswered(t) => IsUnanswered(s)
    BY <1>2 DEF IsUnanswered, EarlySession, Verdicts, Refusals, LastWords, InOrder
<1>14. (s.tv = "idle" \/ IsOver(s)) /\ Without(s.from_ws, TvPayload)
           => Without(t.from_ws, TvPayload)
    BY <1>2 DEF IsOver, TvPayload, LastWords
<1>15. (s.tv = "declined" \/ IsOver(s)) /\ Without(s.from_ws, WsUpdateMessage \ LastWords)
           => /\ t.tv = "declined" \/ IsOver(t)
              /\ Without(t.from_ws, WsUpdateMessage \ LastWords)
    BY <1>2, <1>4 DEF IsOver, LastWords, InOrder
<1> QED
    BY <1>4, <1>11, <1>12, <1>13, <1>14, <1>15 DEF TaskMoves

LEMMA TaskMovesOn ==
    ASSUME "SendFailed" \notin Faults, TypeInv, cur_ws # None,
           IsAskedOnce(Task), InOrder(Task), WsTaskStep(cur_ws) \/ WsNetworkStep(cur_ws)
    PROVE  TaskMoves(Task, Task')
<1> DEFINE i == cur_ws
           s == ws[i]
           t == ws[i]'
<1> SUFFICES TaskMoves(s, t)
    BY DEF Task
<1>1. i \in Socket /\ s \in SocketState /\ WsTypeOK /\ UNCHANGED cur_ws
    BY DEF TypeInv, WsTypeOK, WsTaskStep, WsNetworkStep, WsSendPayload, WsTestConnection,
           WsShutDown, WsChannelClosed, WsReportDisconnected, WsEnd, WsConnected,
           WsConnectError, WsSendFailed, WsText, WsPong, WsPingTimeout, WsServerClosed,
           WsReadError, Becomes
<1>2. t \in SocketState
    <2>1. WsTypeOK'
        BY <1>1, WsStepType
    <2> QED
        BY <1>1, <2>1 DEF WsTypeOK
<1>3. ASSUME NEW r, Becomes(i, r)
      PROVE  t = r
    BY <1>1, <1>3 DEF Becomes, WsTypeOK
<1>4. /\ s.to_ws \in Seq(WsMessage) /\ s.from_ws \in Seq(WsUpdateMessage) /\ s.tv \in TvSession
      /\ ~s.testing /\ Without(s.to_ws, {"TestConnection"})
    BY <1>1 DEF SocketState, InOrder, Task
<1>5. s.to_ws # <<>> => /\ Head(s.to_ws) # "TestConnection"
                        /\ Without(Tail(s.to_ws), {"TestConnection"})
    <2> SUFFICES ASSUME s.to_ws # <<>>
                 PROVE  /\ Head(s.to_ws) # "TestConnection"
                        /\ Without(Tail(s.to_ws), {"TestConnection"})
        OBVIOUS
    <2>1. Takes(s.to_ws, Tail(s.to_ws))
        BY <1>4, TailTakes
    <2> QED
        BY <1>4, <2>1 DEF Takes
<1>6. ASSUME t.from_ws = s.from_ws, t.host = s.host, ~t.testing,
             Without(t.to_ws, {"TestConnection"}),
             \/ /\ s.phase = "running" /\ t.phase = "running"
                /\ \/ t.tv = s.tv
                   \/ s.tv = "idle" /\ t.tv = "registering"
                   \/ s.tv = "registered" /\ t.tv = "subscribed"
             \/ s.phase = "running" /\ t.phase = "closing" /\ t.tv = s.tv
             \/ s.phase = "exiting" /\ t.phase = "ended"
      PROVE  TaskMoves(s, t)
    <2>1. InOrder(s)
        BY DEF Task
    <2> HIDE DEF s, t
    <2> QED
        BY <1>1, <1>2, <1>6, <2>1, SilentMove
<1>7. ASSUME NEW update \in WsUpdateMessage, NEW phase, NEW tv,
             t = [Reporting(i, update) EXCEPT !.phase = phase, !.tv = tv],
             \/ /\ update = "Disconnected"
                /\ s.phase = "closing" /\ phase = "exiting" /\ tv = s.tv
             \/ /\ update \in LastWords \ {"Disconnected"}
                /\ \/ s.phase = "connecting" /\ phase = "exiting"
                   \/ s.phase = "running" /\ phase = "closing"
                /\ tv = s.tv
             \/ /\ update = "Connected"
                /\ s.phase = "connecting" /\ phase = "running" /\ tv = s.tv
             \/ /\ s.phase = "running" /\ phase = "running"
                /\ \/ s.tv \in {"registering", "prompting"} /\ update = "Registered"
                                                            /\ tv = "registered"
                   \/ s.tv = "registering" /\ update = "Pair" /\ tv = "prompting"
                   \/ s.tv \in {"registering", "prompting"} /\ update \in Refusals
                                                            /\ tv = "declined"
                   \/ s.tv = "subscribed" /\ update = "Volume" /\ tv = "subscribed"
      PROVE  TaskMoves(s, t)
    <2>1. t = [s EXCEPT !.from_ws = Append(s.from_ws, update), !.phase = phase, !.tv = tv]
        BY <1>7 DEF Reporting
    <2>2. InOrder(s)
        BY DEF Task
    <2> HIDE DEF s, t
    <2>3. /\ t.from_ws = Append(s.from_ws, update) /\ t.host = s.host /\ ~t.testing
          /\ t.to_ws = s.to_ws /\ t.phase = phase /\ t.tv = tv
        BY <1>1, <1>4, <2>1 DEF SocketState
    <2> QED
        BY <1>1, <1>2, <1>7, <2>2, <2>3, ReportingMove
<1>8. [s EXCEPT !.tv = s.tv] = s /\ [s EXCEPT !.phase = s.phase] = s
    BY <1>1 DEF SocketState
<1>9. CASE WsSendPayload(i)
    <2> DEFINE session == AfterPayload(s.tv, Next_ws(i))
    <2>1. /\ s.phase = "running" /\ s.to_ws # <<>>
          /\ t = [s EXCEPT !.to_ws = Tail(s.to_ws), !.tv = session]
        BY <1>1, <1>3, <1>9 DEF WsSendPayload, Running, Received, SocketState
    <2>2. \/ session = s.tv
          \/ s.tv = "idle" /\ session = "registering"
          \/ s.tv = "registered" /\ session = "subscribed"
        <3>1. CASE Next_ws(i) = "Register"
            <4>1. ~NoRegister(s.to_ws)
                BY <1>4, <2>1, <3>1, ReadRegister DEF Next_ws
            <4> QED
                BY <3>1, <4>1 DEF IsAskedOnce, AfterPayload, Task
        <3>2. CASE Next_ws(i) # "Register"
            BY <3>2 DEF AfterPayload
        <3> QED
            BY <3>1, <3>2
    <2> HIDE DEF session
    <2>3. /\ t.from_ws = s.from_ws /\ t.host = s.host /\ ~t.testing /\ t.phase = "running"
          /\ t.to_ws = Tail(s.to_ws) /\ t.tv = session
        BY <1>1, <1>4, <2>1 DEF SocketState
    <2> QED
        BY <1>5, <1>6, <2>1, <2>2, <2>3
<1>10. CASE WsShutDown(i)
    <2>1. /\ s.phase = "running" /\ s.to_ws # <<>>
          /\ t = [s EXCEPT !.to_ws = Tail(s.to_ws), !.phase = "closing"]
        BY <1>1, <1>3, <1>10 DEF WsShutDown, Running, Received, SocketState
    <2>2. /\ t.from_ws = s.from_ws /\ t.host = s.host /\ ~t.testing /\ t.phase = "closing"
          /\ t.to_ws = Tail(s.to_ws) /\ t.tv = s.tv
        BY <1>1, <1>4, <2>1 DEF SocketState
    <2> QED
        BY <1>5, <1>6, <2>1, <2>2
<1>11. CASE WsEnd(i)
    <2>1. s.phase = "exiting" /\ t = Ended(i)
        BY <1>3, <1>11 DEF WsEnd
    <2>2. /\ t.from_ws = s.from_ws /\ t.host = s.host /\ ~t.testing /\ t.phase = "ended"
          /\ t.to_ws = <<>>
        BY <2>1 DEF Ended, NoSocket
    <2> QED
        BY <1>6, <2>1, <2>2, EmptyQueue
<1>12. CASE WsReportDisconnected(i)
    <2>1. s.phase = "closing" /\ t = [Reporting(i, "Disconnected") EXCEPT !.phase = "exiting"]
        BY <1>3, <1>12 DEF WsReportDisconnected
    <2>2. t = [Reporting(i, "Disconnected") EXCEPT !.phase = "exiting", !.tv = s.tv]
        BY <1>1, <2>1 DEF Reporting, SocketState
    <2> HIDE DEF s, t
    <2> QED
        BY <1>7, <2>1, <2>2 DEF WsUpdateMessage
<1>13. CASE WsConnected(i)
    <2>1. s.phase = "connecting" /\ t = [Reporting(i, "Connected") EXCEPT !.phase = "running"]
        BY <1>3, <1>13 DEF WsConnected
    <2>2. t = [Reporting(i, "Connected") EXCEPT !.phase = "running", !.tv = s.tv]
        BY <1>1, <2>1 DEF Reporting, SocketState
    <2> HIDE DEF s, t
    <2> QED
        BY <1>7, <2>1, <2>2 DEF WsUpdateMessage
<1>14. CASE WsConnectError(i) \/ WsServerClosed(i) \/ WsReadError(i)
    <2>1. PICK update \in LastWords \ {"Disconnected"}, phase \in {"exiting", "closing"} :
              /\ \/ s.phase = "connecting" /\ phase = "exiting"
                 \/ s.phase = "running" /\ phase = "closing"
              /\ t = [Reporting(i, update) EXCEPT !.phase = phase]
        BY <1>3, <1>14 DEF WsConnectError, WsServerClosed, WsReadError, Running, LastWords
    <2>2. t = [Reporting(i, update) EXCEPT !.phase = phase, !.tv = s.tv]
        BY <1>1, <2>1 DEF Reporting, SocketState
    <2>3. update \in WsUpdateMessage
        BY DEF LastWords, WsUpdateMessage
    <2> DEFINE tv == s.tv
    <2>4. t = [Reporting(i, update) EXCEPT !.phase = phase, !.tv = tv] /\ tv = s.tv
        BY <2>2
    <2> HIDE DEF s, t, tv
    <2>5. CASE s.phase = "connecting" /\ phase = "exiting"
        BY <1>7, <2>1, <2>3, <2>4, <2>5
    <2>6. CASE s.phase = "running" /\ phase = "closing"
        BY <1>7, <2>1, <2>3, <2>4, <2>6
    <2> QED
        BY <2>1, <2>5, <2>6
<1>15. CASE WsText(i)
    <2>1. s.phase = "running"
        BY <1>15 DEF WsText, Running
    <2>2. PICK answer \in TvAnswers(s.tv) :
              t = [Reporting(i, answer.payload) EXCEPT
                       !.tv = answer.session, !.phase = IF i = cur_ws THEN @ ELSE "closing"]
        BY <1>3, <1>15 DEF WsText
    <2> DEFINE update == answer.payload
               tv == answer.session
    <2>3. \/ s.tv \in {"registering", "prompting"} /\ update = "Registered" /\ tv = "registered"
          \/ s.tv = "registering" /\ update = "Pair" /\ tv = "prompting"
          \/ s.tv \in {"registering", "prompting"} /\ update \in Refusals /\ tv = "declined"
          \/ s.tv = "subscribed" /\ update = "Volume" /\ tv = "subscribed"
        BY DEF TvAnswers, Answer, Refusals
    <2>4. update \in WsUpdateMessage
        BY <2>3 DEF Refusals, WsUpdateMessage, TvPayload
    <2>5. t = [Reporting(i, update) EXCEPT !.phase = "running", !.tv = tv]
        BY <1>1, <2>1, <2>2 DEF Reporting, SocketState
    <2> HIDE DEF s, t, update, tv
    <2> QED
        BY <1>7, <2>1, <2>3, <2>4, <2>5
<1>16. ~WsTestConnection(i) /\ ~WsChannelClosed(i) /\ ~WsSendFailed(i) /\ ~WsPong(i)
       /\ ~WsPingTimeout(i)
    BY <1>4, <1>5 DEF WsTestConnection, WsChannelClosed, WsSendFailed, WsPong, WsPingTimeout,
                      Next_ws
<1> QED
    BY <1>9, <1>10, <1>11, <1>12, <1>13, <1>14, <1>15, <1>16
       DEF WsTaskStep, WsNetworkStep

-----------------------------------------------------------------------------
(* The invariant in the steps of the tasks.                                *)

\* A registration that is still to be sent finds a TV that has not been asked,
\* or a task that is over.
LEMMA RegisterFindsIdle ==
    ASSUME TypeInv, RegisterInv, OneTask, ToRegister, cur_ws # None
    PROVE  Task.tv = "idle" \/ IsOver(Task)
<1>1. from_fsm \in Seq(Update)
    BY DEF TypeInv, RestOK
<1>2. CASE ~Without(from_fsm, Starts)
    <2>1. Spent
        BY <1>2 DEF OneTask, Without, StartsOrEnds
    <2> QED
        BY <2>1 DEF Spent, IsSpent
<1>3. CASE Without(from_fsm, Starts)
    <2>1. \A k \in 1 .. Len(from_fsm) : ~IsOutput(from_fsm[k], "ConnectToTv")
        <3>1. \A k \in 1 .. Len(from_fsm) : from_fsm[k] \in Update
            BY <1>1
        <3> QED
            BY <1>3, <3>1, TaggedOutputs DEF Without, IsOutput
    <2>2. \A k \in 1 .. Len(from_fsm) + 1 :
              ~Precedes("ConnectToTv", "SendRegisterPayload", from_fsm, k)
        BY <1>1, <2>1 DEF Precedes
    <2>3. \/ FindsUnasked(from_fsm, Len(from_fsm) + 1)
          \/ \E k \in 1 .. Len(from_fsm) : FindsUnasked(from_fsm, k)
        BY DEF ToRegister, RegisterInv, AllFindUnasked, IsOutput, Without, Outputs
    <2>4. Unasked
        BY <1>1, <2>2, <2>3 DEF FindsUnasked
    <2> QED
        BY <2>4 DEF Unasked, IsUnasked, Task
<1> QED
    BY <1>2, <1>3

LEMMA TaskKeepsPair ==
    ASSUME TypeInv, RegisterInv, PairInv, UNCHANGED <<cur_ws, fsm_vars, mgr, mgr_pc, disk>>,
           cur_ws # None /\ mgr_pc \notin StopPc => TaskMoves(Task, Task')
    PROVE  PairInv'
<1>1. PersistedPairMatches' /\ NeverWaits(mgr')
    BY DEF PairInv, PersistedPairMatches
<1> SUFFICES ASSUME mgr_pc' \notin StopPc PROVE AttemptInv'
    BY <1>1 DEF PairInv
<1>2. AttemptInv /\ (cur_ws # None => TaskMoves(Task, Task'))
    BY DEF PairInv
<1>3. /\ Gone => Gone'
      /\ Spent => Spent'
      /\ Unanswered' => Unanswered /\ Task'.host = Task.host
      /\ TaskInOrder'
    BY <1>2 DEF TaskMoves, Gone, Spent, Unanswered, TaskInOrder, Task
<1>4. UNCHANGED <<to_fsm, from_fsm, fsm_state>>
    BY DEF fsm_vars
<1>5. OneTask'
    BY <1>2, <1>3, <1>4 DEF AttemptInv, OneTask
<1>6. EndsAreLast' /\ Asking' /\ Starting'
    BY <1>2, <1>4 DEF AttemptInv, EndsAreLast, Asking, Starting
<1>7. Waiting'
    BY <1>2, <1>3, <1>4 DEF AttemptInv, Waiting
<1>8. Refused'
    <2> SUFFICES ASSUME ~Spent', ~Without(to_fsm, Errors)
                 PROVE  Refused'
        BY <1>4 DEF Refused
    <2>1. cur_ws # None
        BY DEF Spent
    <2> QED
        BY <1>2, <1>3, <1>4, <2>1 DEF AttemptInv, Refused, TaskMoves
<1>9. Unheard'
    <2>1. ToRegister' <=> ToRegister
        BY <1>4 DEF ToRegister
    <2>2. ToRegister /\ cur_ws # None => Without(Task'.from_ws, TvPayload)
        <3> SUFFICES ASSUME ToRegister, cur_ws # None
                     PROVE  Without(Task'.from_ws, TvPayload)
            OBVIOUS
        <3>1. Task.tv = "idle" \/ IsOver(Task)
            BY <1>2, RegisterFindsIdle DEF AttemptInv
        <3> QED
            BY <1>2, <3>1 DEF AttemptInv, Unheard, TaskMoves
    <2> QED
        BY <1>2, <1>4, <2>1, <2>2 DEF AttemptInv, Unheard
<1> QED
    BY <1>3, <1>5, <1>6, <1>7, <1>8, <1>9 DEF AttemptInv

LEMMA WebSocketTaskPair ==
    ASSUME "SendFailed" \notin Faults, TypeInv, RegisterInv, PairInv,
           NEW i \in Socket, WsTask(i) \/ WsNetwork(i)
    PROVE  PairInv'
<1>1. UNCHANGED <<cur_ws, fsm_vars, mgr, mgr_pc, disk>>
    BY DEF WsTask, WsNetwork, WsTaskStep, WsNetworkStep, WsSendPayload, WsTestConnection,
           WsShutDown, WsChannelClosed, WsReportDisconnected, WsEnd, WsConnected,
           WsConnectError, WsSendFailed, WsText, WsPong, WsPingTimeout, WsServerClosed,
           WsReadError, Becomes, mgr_vars
<1>2. ASSUME cur_ws # None, mgr_pc \notin StopPc
      PROVE  TaskMoves(Task, Task')
    <2>1. InOrder(Task)
        BY <1>2 DEF PairInv, AttemptInv, TaskInOrder
    <2>2. CASE i = cur_ws
        <3>1. IsAskedOnce(Task)
            BY <2>2 DEF RegisterInv, AskedOnce, Task
        <3> QED
            BY <1>2, <2>1, <2>2, <3>1, TaskMovesOn DEF WsTask, WsNetwork
    <2>3. CASE i # cur_ws
        <3>1. Task' = Task
            <4>1. PICK r : ws' = [ws EXCEPT ![i] = r]
                BY DEF WsTask, WsNetwork, WsTaskStep, WsNetworkStep, WsSendPayload,
                       WsTestConnection, WsShutDown, WsChannelClosed, WsReportDisconnected,
                       WsEnd, WsConnected, WsConnectError, WsSendFailed, WsText, WsPong,
                       WsPingTimeout, WsServerClosed, WsReadError, Becomes
            <4> QED
                BY <1>1, <1>2, <2>3, <4>1 DEF Task, TypeInv, WsTypeOK
        <3> QED
            BY <2>1, <3>1 DEF TaskMoves
    <2> QED
        BY <2>2, <2>3
<1> QED
    BY <1>1, <1>2, TaskKeepsPair

-----------------------------------------------------------------------------
(* The invariant in the steps of the manager, which at most sends its task *)
(* a message.                                                              *)

TaskKept ==
    /\ UNCHANGED cur_ws
    /\ cur_ws # None =>
           /\ Task'.phase = Task.phase /\ Task'.host = Task.host /\ Task'.tv = Task.tv
           /\ Task'.from_ws = Task.from_ws
           /\ InOrder(Task) => InOrder(Task')

LEMMA UnchangedTask == UNCHANGED ws_vars => TaskKept
    BY DEF ws_vars, TaskKept, Task

LEMMA TellKeepsTask ==
    ASSUME WsTypeOK, cur_ws # None, NEW message \in WsMessage \ {"TestConnection"}, Tell(message)
    PROVE  TaskKept
<1>1. /\ cur_ws \in Socket /\ Task \in SocketState /\ UNCHANGED cur_ws
      /\ Task' = [Task EXCEPT !.to_ws = Append(Task.to_ws, message)]
    BY DEF WsTypeOK, Tell, Task
<1> DEFINE s == Task
           t == Task'
           longer == Append(s.to_ws, message)
<1>2. s.to_ws \in Seq(WsMessage)
    BY <1>1 DEF SocketState
<1>3. Adds(s.to_ws, message, longer)
    BY <1>2, AppendAdds
<1> HIDE DEF s, t, longer
<1>4. /\ t.phase = s.phase /\ t.host = s.host /\ t.tv = s.tv /\ t.from_ws = s.from_ws
      /\ t.testing = s.testing /\ t.to_ws = longer
    BY <1>1 DEF SocketState, s, t, longer
<1>5. Without(s.to_ws, {"TestConnection"}) => Without(t.to_ws, {"TestConnection"})
    BY <1>3, <1>4 DEF Adds
<1>6. InOrder(s) => InOrder(t)
    BY <1>4, <1>5 DEF InOrder, IsOver
<1> QED
    BY <1>1, <1>4, <1>6 DEF TaskKept, s, t

LEMMA ForceResetKeepsTask ==
    ASSUME WsTypeOK, NEW s, NEW pc, ForceManagerReset(s, pc)
    PROVE  TaskKept
    BY TellKeepsTask, UnchangedTask DEF ForceManagerReset, IsWsOpen, WsMessage

LEMMA SendToWsKeepsTask ==
    ASSUME WsTypeOK, NEW s, NEW message \in WsMessage \ {"TestConnection"}, NEW pc,
           SendToWs(s, message, pc)
    PROVE  /\ TaskKept
           /\ \/ mgr_pc' = "select"
              \/ mgr_pc' = pc /\ cur_ws # None /\ Task.phase = "ended"
<1>1. CASE cur_ws = None \/ IsWsOpen
    BY <1>1, TellKeepsTask, UnchangedTask, ResultPcs DEF SendToWs, IsWsOpen, Commit
<1>2. CASE ~(cur_ws = None \/ IsWsOpen)
    <2>1. ForceManagerReset(s, pc) /\ cur_ws # None /\ Task.phase = "ended"
        BY <1>2 DEF SendToWs, IsWsOpen, Task
    <2>2. Commit(Result(s, <<>>, pc))
        BY <2>1 DEF ForceManagerReset
    <2>3. mgr_pc' = pc
        BY <2>2 DEF Commit, Result
    <2> QED
        BY <2>1, <2>3, ForceResetKeepsTask
<1> QED
    BY <1>1, <1>2

LEMMA SameTask ==
    ASSUME TaskKept
    PROVE  /\ TaskInOrder => TaskInOrder'
           /\ (Gone' <=> Gone) /\ (Spent' <=> Spent) /\ (Unanswered' <=> Unanswered)
           /\ cur_ws # None => /\ Task'.host = Task.host /\ Task'.tv = Task.tv
                               /\ Task'.from_ws = Task.from_ws
                               /\ IsOver(Task') <=> IsOver(Task)
    BY DEF TaskKept, TaskInOrder, Gone, Spent, Unanswered, IsOver, IsSpent, IsUnanswered, Task


LEMMA FewerOutputs ==
    /\ \A tags : Outputs(tags) \subseteq Outputs(OutputTag)
    /\ Starts \subseteq Outputs(OutputTag) /\ Ends \subseteq Outputs(OutputTag)
    BY DEF Outputs, Starts, Ends, Update, IsEnd, IsFarewell, IsOutput

ReadsAtSelect == mgr_pc' = "select"

\* send_to_ws has found that the task is gone.
ReadsAndResets ==
    /\ mgr_pc' \in {"reset", "reset_initialize"}
    /\ Head(from_fsm) \in Outputs({"SendRegisterPayload", "InitializeConnection",
                                   "SendCommand", "DisconnectFromTv"})
    /\ cur_ws # None /\ Task.phase = "ended"

ReadsAnEnd ==
    /\ mgr_pc' \in {"disconnected", "reset_connect_error"}
    /\ Head(from_fsm) \in Ends

LEMMA ReadPair ==
    ASSUME TypeInv, PairInv, TaskKept, mgr_pc = "select",
           from_fsm # <<>>, from_fsm' = Tail(from_fsm), UNCHANGED <<fsm_state, to_fsm, disk>>,
           NeverWaits(mgr'), mgr'.ws_url = mgr.ws_url,
           ReadsAtSelect \/ ReadsAndResets \/ ReadsAnEnd
    PROVE  PairInv'
<1>1. AttemptInv
    BY DEF PairInv, StopPc
<1>2. from_fsm \in Seq(Update) /\ Head(from_fsm) \in Update
    BY DEF TypeInv, RestOK
<1>3. Takes(from_fsm, from_fsm')
    BY <1>2, TailTakes
<1>4. \A S, T : /\ Without(from_fsm, S) => Without(from_fsm', S) /\ Head(from_fsm) \notin S
                /\ NoneAfter(from_fsm, S, T) => NoneAfter(from_fsm', S, T)
                /\ NoneAfter(from_fsm, S, T) /\ Head(from_fsm) \in S => Without(from_fsm', T)
    BY <1>3 DEF Takes
<1>5. /\ (Gone' <=> Gone) /\ (Spent' <=> Spent) /\ (Unanswered' <=> Unanswered) /\ TaskInOrder'
      /\ cur_ws # None => /\ Task'.host = Task.host /\ Task'.tv = Task.tv
                          /\ Task'.from_ws = Task.from_ws
                          /\ IsOver(Task') <=> IsOver(Task)
      /\ UNCHANGED cur_ws
    BY <1>1, SameTask DEF AttemptInv, TaskKept
<1>6. OneTask'
    <2>1. mgr_pc' \in RestPc => Head(from_fsm) \in Ends
        BY DEF ReadsAtSelect, ReadsAndResets, ReadsAnEnd, RestPc
    <2>2. ~Spent => mgr_pc' \notin RestPc
        BY <1>1, <1>4, <2>1 DEF AttemptInv, OneTask, StartsOrEnds
    <2> QED
        BY <1>1, <1>4, <1>5, <2>2 DEF AttemptInv, OneTask
<1>7. EndsAreLast'
    BY <1>1, <1>4 DEF AttemptInv, EndsAreLast, ReadsAtSelect, ReadsAndResets, ReadsAnEnd, RestPc
<1>8. Asking'
    <2> SUFFICES ASSUME ~Without(to_fsm, Connects)
                 PROVE  mgr_pc' = "select" /\ Without(from_fsm', Outputs(OutputTag))
        BY <1>1 DEF AttemptInv, Asking
    <2>1. Without(from_fsm, Outputs(OutputTag))
        BY <1>1 DEF AttemptInv, Asking
    <2>2. Head(from_fsm) \notin Outputs(OutputTag)
        BY <1>4, <2>1
    <2> QED
        BY <1>4, <2>1, <2>2, FewerOutputs DEF ReadsAtSelect, ReadsAndResets, ReadsAnEnd
<1>9. Starting'
    <2> SUFFICES ASSUME ~Without(from_fsm', Starts)
                 PROVE  Starting'
        BY DEF Starting
    <2>1. ~Without(from_fsm, Starts)
        BY <1>4
    <2>2. Head(from_fsm) \notin Outputs(OutputTag \ {"ConnectToTv"})
        BY <1>1, <1>4, <2>1 DEF AttemptInv, Starting
    <2>3. mgr_pc' = "select"
        BY <1>2, <2>2, TaggedOutputs DEF ReadsAtSelect, ReadsAndResets, ReadsAnEnd, OutputTag
    <2> QED
        BY <1>1, <1>4, <2>1, <2>3 DEF AttemptInv, Starting
<1>10. Waiting'
    <2> SUFFICES ASSUME Unanswered
                 PROVE  Waiting'
        BY <1>5 DEF Waiting
    <2>1. Head(from_fsm) \notin Outputs(OutputTag \ {"SendRegisterPayload", "PairWithTv"})
        BY <1>1, <1>4 DEF AttemptInv, Waiting
    <2>2. ~ReadsAnEnd
        BY <1>2, <2>1, TaggedOutputs DEF ReadsAnEnd, OutputTag
    <2>3. ~ReadsAndResets
        <3> SUFFICES ASSUME ReadsAndResets PROVE FALSE
            OBVIOUS
        <3>1. Head(from_fsm) \in Outputs({"SendRegisterPayload"})
            BY <1>2, <2>1, TaggedOutputs DEF ReadsAndResets, OutputTag
        <3>2. ~Without(from_fsm, Outputs({"SendRegisterPayload"}))
            BY <1>4, <3>1
        <3>3. Without(Task.from_ws, TvPayload)
            BY <1>1, <3>2 DEF AttemptInv, Unheard, ToRegister, ReadsAndResets
        <3>4. Verdicts \subseteq TvPayload
            BY DEF Verdicts, Refusals, TvPayload
        <3>5. Without(Task.from_ws, Verdicts)
            BY <3>3, <3>4, FewerWithout
        <3> QED
            BY <3>5 DEF Unanswered, IsUnanswered, ReadsAndResets
    <2>4. mgr_pc' = "select"
        BY <2>2, <2>3 DEF ReadsAtSelect
    <2>5. cur_ws # None
        BY DEF Unanswered
    <2> QED
        BY <1>1, <1>4, <1>5, <2>4, <2>5 DEF AttemptInv, Waiting
<1>11. Refused'
    <2> SUFFICES ASSUME ~Spent, ~Without(to_fsm, Errors)
                 PROVE  Refused'
        BY <1>5 DEF Refused
    <2>1. Head(from_fsm) \notin Outputs(OutputTag \ {"PairWithTv"})
        BY <1>1, <1>4 DEF AttemptInv, Refused
    <2>2. mgr_pc' = "select"
        BY <1>2, <2>1, TaggedOutputs
           DEF ReadsAtSelect, ReadsAndResets, ReadsAnEnd, OutputTag
    <2>3. cur_ws # None
        BY DEF Spent
    <2> QED
        BY <1>1, <1>4, <1>5, <2>2, <2>3 DEF AttemptInv, Refused
<1>12. Unheard'
    BY <1>1, <1>4, <1>5 DEF AttemptInv, Unheard, ToRegister
<1> QED
    BY <1>5, <1>6, <1>7, <1>8, <1>9, <1>10, <1>11, <1>12
       DEF PairInv, AttemptInv, PersistedPairMatches

\* Starting the task of an attempt.
LEMMA ConnectToTvPair ==
    ASSUME TypeInv, PairInv, ConnectToTv
    PROVE  PairInv'
<1>1. PICK i \in Socket : StartSocket(i, Head(from_fsm).url)
    BY DEF ConnectToTv
<1>2. /\ mgr_pc = "select" /\ from_fsm # <<>> /\ from_fsm' = Tail(from_fsm)
      /\ Head(from_fsm).kind = "Output" /\ Head(from_fsm).tag = "ConnectToTv"
      /\ UNCHANGED <<fsm_state, disk>>
    BY DEF ConnectToTv, Updated, AtSelect
<1>3. AttemptInv
    BY <1>2 DEF PairInv, StopPc
<1>4. /\ from_fsm \in Seq(Update) /\ Head(from_fsm) \in Update /\ to_fsm \in Seq(Input)
      /\ mgr \in ManagerState
    BY <1>2 DEF TypeInv, RestOK, CoreOK
<1>5. Commit(Done(mgr))
    BY DEF ConnectToTv
<1>6. UNCHANGED <<mgr, to_fsm>> /\ mgr_pc' = "select"
    <2>1. Done(mgr).sent = <<>> /\ Done(mgr).mgr = mgr /\ Done(mgr).pc = "select"
        BY DEF Done, Result
    <2> QED
        BY <1>4, <1>5, <2>1 DEF Commit
<1>7. Takes(from_fsm, from_fsm') /\ Head(from_fsm) \in Starts
    BY <1>2, <1>4, TailTakes, TaggedOutputs
<1>8. /\ ~Without(from_fsm, Starts)
      /\ \A S, T : /\ Without(from_fsm, S) => Without(from_fsm', S) /\ Head(from_fsm) \notin S
                   /\ NoneAfter(from_fsm, S, T) => NoneAfter(from_fsm', S, T)
                   /\ NoneAfter(from_fsm, S, T) /\ Head(from_fsm) \in S => Without(from_fsm', T)
    BY <1>7 DEF Takes
<1>9. /\ fsm_state.tag = "Connecting"
      /\ Without(to_fsm, Input \ Inputs(IdleInput))
      /\ Head(from_fsm).url = mgr.ws_url
      /\ Without(from_fsm', Outputs(OutputTag \ {"ConnectToTv"}))
      /\ Without(from_fsm', Starts)
    BY <1>3, <1>7, <1>8 DEF AttemptInv, Starting
<1>10. Without(from_fsm', Outputs(OutputTag))
    BY <1>9 DEF Without, Outputs, Starts
<1>11. Without(from_fsm', StartsOrEnds) /\ \A tags : Without(from_fsm', Outputs(tags))
    BY <1>10, FewerOutputs DEF Without, StartsOrEnds
<1>12. /\ cur_ws' # None
       /\ Task' = NewSocket(mgr.ws_url)
    <2>1. cur_ws' = i /\ i # None
        BY <1>1, SocketAssumption DEF StartSocket
    <2>2. ws' = [ChannelsDropped EXCEPT ![i] = NewSocket(Head(from_fsm).url)]
        BY <1>1 DEF StartSocket
    <2>3. ws'[i] = NewSocket(Head(from_fsm).url)
        BY <2>2 DEF ChannelsDropped
    <2> QED
        BY <1>9, <2>1, <2>3 DEF Task
<1>13. /\ Task'.phase = "connecting" /\ Task'.host = mgr.ws_url /\ Task'.tv = "idle"
       /\ ~Task'.testing /\ Task'.to_ws = <<>> /\ Task'.from_ws = <<>>
    BY <1>12 DEF NewSocket, NoSocket
<1>14. TaskInOrder' /\ ~IsOver(Task')
    BY <1>13, EmptyQueue DEF TaskInOrder, InOrder, IsOver, EarlySession
<1>15. ~Gone' /\ ~Spent'
    BY <1>12, <1>14 DEF Gone, Spent, IsSpent
<1>16. \A tags : tags \cap IdleInput = {} => Without(to_fsm, Inputs(tags))
    BY <1>9 DEF Without, Inputs
<1>17. /\ Without(to_fsm, Inputs({"Reset"})) /\ Without(to_fsm, Inputs({"AttemptRegister"}))
       /\ Without(to_fsm, Inputs({"Connect"})) /\ Without(to_fsm, Errors)
    BY <1>16 DEF IdleInput, Errors
<1>18. Without(to_fsm, Connects)
    BY <1>17 DEF Connects, Inputs
<1>19. OneTask'
    BY <1>6, <1>9, <1>2, <1>11, <1>17, <1>18 DEF OneTask, RestPc, NoneAfter, Without
<1>20. EndsAreLast'
    BY <1>3, <1>6, <1>8 DEF AttemptInv, EndsAreLast, RestPc
<1>21. Asking' /\ Starting' /\ Refused'
    BY <1>6, <1>9, <1>17, <1>18 DEF Asking, Starting, Refused
<1>22. Waiting'
    <2>1. Without(to_fsm, Input \ Inputs(EarlyInput))
        BY <1>9 DEF Without, Inputs, EarlyInput
    <2> QED
        BY <1>2, <1>6, <1>9, <1>11, <1>13, <2>1 DEF Waiting
<1>23. Unheard'
    BY <1>2, <1>9, <1>11, <1>13, EmptyQueue DEF Unheard
<1> QED
    BY <1>2, <1>6, <1>14, <1>19, <1>20, <1>21, <1>22, <1>23
       DEF PairInv, AttemptInv, PersistedPairMatches, NeverWaits

LEMMA StateMachinePair ==
    ASSUME ~IsOperational, TypeInv, PairInv, FromStateMachine
    PROVE  PairInv'
<1>1. /\ UNCHANGED <<fsm_state, disk>> /\ from_fsm # <<>> /\ from_fsm' = Tail(from_fsm)
      /\ mgr_pc = "select"
    BY DEF FromStateMachine, NewState, ConnectToTv, SendRegisterPayload, PairWithTv,
           InitializeConnection, SendCommand, DisconnectFromTv, HandleSuccessfulDisconnect,
           HandleDisconnectError, HandleDisconnected, HandleConnectError, TransitionError,
           Updated, AtSelect
<1>2. /\ mgr \in ManagerState /\ WsTypeOK /\ Head(from_fsm) \in Update
      /\ from_fsm \in Seq(Update) /\ to_fsm \in Seq(Input) /\ KeepsUrl(mgr)
    BY <1>1 DEF TypeInv, CoreOK, RestOK, PairInv, KeepsUrl
<1>3. ASSUME NEW r, r.sent = <<>>, Commit(r)
      PROVE  UNCHANGED to_fsm /\ mgr_pc' = r.pc
    BY <1>2, <1>3 DEF Commit
<1>4. ASSUME NEW s, NEW pc,
             \/ Commit(Result(s, <<>>, pc)) \/ Commit(Done(s)) \/ ForceManagerReset(s, pc)
             \/ \E message : SendToWs(s, message, pc)
      PROVE  UNCHANGED to_fsm
    BY <1>3, <1>4 DEF Result, Done, SendToWs, ForceManagerReset
<1>5. ASSUME NEW s \in ManagerState, KeepsUrl(s), NEW pc,
             \/ Commit(Result(s, <<>>, pc)) \/ Commit(Done(s)) \/ ForceManagerReset(s, pc)
             \/ \E message : SendToWs(s, message, pc),
             TaskKept, ReadsAtSelect \/ ReadsAndResets \/ ReadsAnEnd
      PROVE  PairInv'
    <2>1. UNCHANGED to_fsm
        BY <1>4, <1>5
    <2>2. NeverWaits(mgr') /\ mgr'.ws_url = mgr.ws_url
        BY <1>5, HandlerKeepsUrl DEF KeepsUrl
    <2> QED
        BY <1>1, <1>5, <2>1, <2>2, ReadPair
<1>6. ASSUME NEW s \in ManagerState, KeepsUrl(s), Commit(Done(s)), UNCHANGED ws_vars
      PROVE  PairInv'
    <2>1. mgr_pc' = "select"
        BY <1>6, ResultPcs DEF Commit
    <2> QED
        BY <1>5, <1>6, <2>1, UnchangedTask DEF ReadsAtSelect
<1>7. ASSUME NEW s \in ManagerState, KeepsUrl(s),
             NEW message \in {"Register", "Initialize", "Command", "ShutDown"},
             SendToWs(s, message, "reset"),
             Head(from_fsm) \in Outputs({"SendRegisterPayload", "InitializeConnection",
                                         "SendCommand", "DisconnectFromTv"})
      PROVE  PairInv'
    <2>1. message \in WsMessage \ {"TestConnection"}
        BY DEF WsMessage, WsPayload
    <2>2. /\ TaskKept
          /\ \/ mgr_pc' = "select"
             \/ mgr_pc' = "reset" /\ cur_ws # None /\ Task.phase = "ended"
        BY <1>2, <1>7, <2>1, SendToWsKeepsTask
    <2> QED
        BY <1>5, <1>7, <2>2 DEF ReadsAtSelect, ReadsAndResets
<1>8. CASE NewState
    <2> DEFINE status == [tag |-> Head(from_fsm).tag, url |-> Head(from_fsm).url]
    <2>1. Commit(Done([mgr EXCEPT !.manager_status = status])) /\ UNCHANGED ws_vars
        BY <1>8 DEF NewState
    <2>2. status \in ManagerStatus
        BY <1>2, <1>8 DEF NewState, Updated, Update, ManagerStatus, State
    <2> HIDE DEF status
    <2> QED
        BY <1>2, <1>6, <2>1, <2>2, FieldTypes, FieldsKeepUrl
<1>9. CASE ConnectToTv
    BY <1>9, ConnectToTvPair
<1>10. CASE SendRegisterPayload
    <2> DEFINE s == SetReconnectFlowStatus(mgr, "Inactive")
               t == [s EXCEPT !.session_connection_count = 1]
    <2>1. s \in ManagerState /\ KeepsUrl(s)
        BY <1>2, SetFlowType, FlowTypes, FlowNeverWaits DEF KeepsUrl
    <2>2. SendToWs(t, "Register", "reset")
        BY <1>10 DEF SendRegisterPayload
    <2> HIDE DEF s
    <2>3. t \in ManagerState /\ KeepsUrl(t)
        BY <2>1 DEF ManagerState, KeepsUrl, NeverWaits
    <2>4. Head(from_fsm) \in Outputs({"SendRegisterPayload"})
        BY <1>2, <1>10, TaggedOutputs DEF SendRegisterPayload, Updated
    <2>5. Head(from_fsm) \in Outputs({"SendRegisterPayload", "InitializeConnection",
                                      "SendCommand", "DisconnectFromTv"})
        BY <2>4 DEF Outputs
    <2> HIDE DEF t
    <2> QED
        BY <1>7, <2>2, <2>3, <2>5
<1>11. CASE PairWithTv
    BY <1>2, <1>6, <1>11, FieldTypes, FieldsKeepUrl DEF PairWithTv
<1>12. CASE InitializeConnection
    <2> DEFINE paired == [mgr EXCEPT !.is_pairing = FALSE]
    <2>1. /\ paired \in ManagerState /\ KeepsUrl(paired)
          /\ Remembered(paired) \in ManagerState /\ KeepsUrl(Remembered(paired))
        BY <1>2, FieldTypes, FieldsKeepUrl
    <2>2. Head(from_fsm) \in Outputs({"InitializeConnection"})
        BY <1>2, <1>12, TaggedOutputs DEF InitializeConnection, Updated
    <2>3. \/ /\ cur_ws # None /\ ~IsWsOpen
             /\ ForceManagerReset(paired, "reset_initialize")
          \/ SendToWs(Remembered(paired), "Initialize", "reset")
        BY <1>12 DEF InitializeConnection
    <2> HIDE DEF paired
    <2>4. CASE cur_ws # None /\ ~IsWsOpen /\ ForceManagerReset(paired, "reset_initialize")
        <3>1. Task.phase = "ended" /\ TaskKept
            BY <1>2, <2>4, ForceResetKeepsTask DEF IsWsOpen, Task
        <3>2. Commit(Result(paired, <<>>, "reset_initialize"))
            BY <2>4 DEF ForceManagerReset
        <3>3. mgr_pc' = "reset_initialize"
            BY <3>2 DEF Commit, Result
        <3>4. ReadsAndResets
            BY <2>2, <2>4, <3>1, <3>3 DEF ReadsAndResets, Outputs
        <3> QED
            BY <1>5, <2>1, <2>4, <3>1, <3>4
    <2>5. CASE SendToWs(Remembered(paired), "Initialize", "reset")
        BY <1>7, <2>1, <2>2, <2>5 DEF Outputs
    <2> QED
        BY <2>3, <2>4, <2>5
<1>13. CASE SendCommand
    <2>1. Head(from_fsm) \in Outputs({"SendCommand"})
        BY <1>2, <1>13, TaggedOutputs DEF SendCommand, Updated
    <2> QED
        BY <1>2, <1>7, <1>13, <2>1 DEF SendCommand, Outputs
<1>14. CASE DisconnectFromTv
    <2> DEFINE s == OptionallyPrepareForReconnect(mgr)
    <2>1. s \in ManagerState /\ KeepsUrl(s)
        BY <1>2, PrepareType, PrepareKeepsUrl
    <2>2. Head(from_fsm) \in Outputs({"DisconnectFromTv"})
        BY <1>2, <1>14, TaggedOutputs DEF DisconnectFromTv, Updated
    <2>3. \/ Commit(Done(s)) /\ UNCHANGED ws_vars
          \/ SendToWs(s, "ShutDown", "reset")
        BY <1>14 DEF DisconnectFromTv, InitiateDisconnectFromTv
    <2> HIDE DEF s
    <2> QED
        BY <1>6, <1>7, <2>1, <2>2, <2>3 DEF Outputs
<1>15. CASE HandleSuccessfulDisconnect \/ HandleDisconnectError
    <2> DEFINE s == [mgr EXCEPT !.is_manual_disconnect_requested = FALSE]
    <2>1. Commit(Result(s, <<>>, "disconnected")) /\ UNCHANGED ws_vars
        BY <1>15 DEF HandleSuccessfulDisconnect, HandleDisconnectError, HandleDisconnected
    <2>2. s \in ManagerState /\ KeepsUrl(s)
        BY <1>2, FieldTypes, FieldsKeepUrl
    <2>3. Head(from_fsm) \in Ends
        BY <1>2, <1>15, TaggedOutputs DEF HandleSuccessfulDisconnect, HandleDisconnectError,
                                          HandleDisconnected, Updated
    <2> HIDE DEF s
    <2>4. mgr_pc' = "disconnected"
        BY <2>1 DEF Commit, Result
    <2> QED
        BY <1>5, <2>1, <2>2, <2>3, <2>4, UnchangedTask DEF ReadsAnEnd
<1>16. CASE HandleConnectError
    <2>1. ForceManagerReset(mgr, "reset_connect_error")
        BY <1>16 DEF HandleConnectError
    <2>2. Commit(Result(mgr, <<>>, "reset_connect_error"))
        BY <2>1 DEF ForceManagerReset
    <2>3. mgr_pc' = "reset_connect_error"
        BY <2>2 DEF Commit, Result
    <2>4. Head(from_fsm) \in Ends
        BY <1>2, <1>16, TaggedOutputs DEF HandleConnectError, Updated
    <2> QED
        BY <1>2, <1>5, <2>1, <2>3, <2>4, ForceResetKeepsTask DEF ReadsAnEnd
<1>17. CASE TransitionError
    BY <1>2, <1>6, <1>17 DEF TransitionError
<1> QED
    BY <1>8, <1>9, <1>10, <1>11, <1>12, <1>13, <1>14, <1>15, <1>16, <1>17 DEF FromStateMachine

-----------------------------------------------------------------------------
(* The invariant in the steps of the machine.                              *)

\* The machine reads an Input and reports at most one output.  The update out
\* stands for it, or for a State or TransitionError that is no output.
AddsOutput(queue, out, longer) ==
    \A S, T : S \subseteq Outputs(OutputTag) /\ T \subseteq Outputs(OutputTag) =>
        /\ Without(longer, S) <=> Without(queue, S) /\ out \notin S
        /\ NoneAfter(longer, S, T) <=>
               NoneAfter(queue, S, T) /\ (Without(queue, S) \/ out \notin T)

IsSilent(out) == out \notin Outputs(OutputTag)

FsmMove(input, from, to, out) ==
    \/ from = to /\ IsSilent(out)
    \/ input.tag = "Reset" /\ to = "Disconnected" /\ IsSilent(out)
    \/ /\ input.tag = "Connect" /\ from = "Disconnected" /\ to = "Connecting"
       /\ out \in Starts /\ out.url = input.url
    \/ /\ input.tag = "AttemptRegister" /\ from = "Connecting" /\ to = "Connected"
       /\ out \in Outputs({"SendRegisterPayload"})
    \/ /\ input.tag = "Pair" /\ from = "Connected" /\ to = "Pairing"
       /\ out \in Outputs({"PairWithTv"})
    \/ /\ input.tag = "Initialize" /\ from \in {"Connected", "Pairing"} /\ to = "Initializing"
       /\ out \in Outputs({"InitializeConnection"})
    \/ /\ input.tag = "StartCommunication"
       /\ from = "Initializing" /\ to = "Communicating" /\ IsSilent(out)
    \/ /\ input.tag = "SendCommand" /\ from = "Communicating" /\ to = "Communicating"
       /\ out \in Outputs({"SendCommand"})
    \/ /\ input.tag = "Disconnect" /\ from = "Communicating" /\ to = "Disconnecting"
       /\ out \in Outputs({"DisconnectFromTv"})
    \/ /\ input.tag = "Error" /\ to = "Disconnecting"
       /\ from \in {"Connected", "Pairing", "Initializing", "Communicating"}
       /\ out \in Outputs({"DisconnectFromTv"})
    \/ /\ input.tag = "Error" /\ from \in {"Connecting", "Disconnecting"}
       /\ to = "Disconnected" /\ out \in Ends
    \/ /\ input.tag = "DisconnectionComplete" /\ from = "Disconnecting"
       /\ to = "Disconnected" /\ out \in Ends

LEMMA FsmMoves ==
    ASSUME TypeInv, RestInv, mgr_pc \notin StopPc, FsmStep
    PROVE  /\ to_fsm # <<>> /\ to_fsm' = Tail(to_fsm)
           /\ \E out \in Update :
                  /\ AddsOutput(from_fsm, out, from_fsm')
                  /\ FsmMove(Head(to_fsm), fsm_state.tag, fsm_state'.tag, out)
<1>1. /\ from_fsm \in Seq(Update) /\ fsm_state \in State /\ to_fsm \in Seq(Input)
    BY DEF TypeInv, RestOK, CoreOK
<1>2. FsmTransition \/ FsmTransitionError
    BY DEF FsmStep, FsmNext, FsmShutDown, RestInv, IsStopping
<1>3. to_fsm # <<>> /\ to_fsm' = Tail(to_fsm) /\ Head(to_fsm) \in Input
    BY <1>1, <1>2 DEF FsmTransition, FsmTransitionError
<1>4. ASSUME NEW update \in Update, update.kind # "Output"
      PROVE  IsSilent(update) /\ AddsOutput(from_fsm, update, Append(from_fsm, update))
    <2>1. Adds(from_fsm, update, Append(from_fsm, update))
        BY <1>1, AppendAdds
    <2> QED
        BY <1>4, <2>1, TaggedOutputs DEF IsSilent, Adds, AddsOutput
<1>5. CASE FsmTransitionError
    <2> DEFINE refused == ErrorUpdate(Head(to_fsm))
    <2>1. refused \in Update /\ refused.kind # "Output"
        <3>1. Head(to_fsm).tag \in InputTag /\ Head(to_fsm).url \in UrlOption
            BY <1>3 DEF Input, InputTag, UrlOption
        <3> QED
            BY <3>1 DEF ErrorUpdate, Update
    <2>2. from_fsm' = Append(from_fsm, refused) /\ UNCHANGED fsm_state
        BY <1>5 DEF FsmTransitionError
    <2> HIDE DEF refused
    <2>3. IsSilent(refused) /\ AddsOutput(from_fsm, refused, from_fsm')
        BY <1>4, <2>1, <2>2
    <2>4. FsmMove(Head(to_fsm), fsm_state.tag, fsm_state'.tag, refused)
        BY <2>2, <2>3 DEF FsmMove
    <2> QED
        BY <1>3, <2>1, <2>3, <2>4
<1>6. CASE FsmTransition
    <2>1. PICK rule \in Applicable(fsm_state, Head(to_fsm)) :
              /\ fsm_state' = Target(rule, fsm_state, Head(to_fsm))
              /\ from_fsm' = from_fsm \o Updates(rule, fsm_state')
        BY <1>6 DEF FsmTransition
    <2>2. /\ rule \in Rules /\ rule.from = fsm_state.tag /\ rule.input = Head(to_fsm).tag
          /\ fsm_state' \in State /\ fsm_state'.tag = rule.to
        BY <1>1, <1>3, <2>1, RuleTypes DEF Applicable
    <2>3. rule.output \in OutputTag \cup {NoOutput}
        BY <2>2 DEF Rules, Rule, OutputTag, NoOutput
    <2> DEFINE moved == StateUpdate(fsm_state')
               asked == OutputUpdate(rule.output, fsm_state')
               reported == Append(from_fsm, moved)
               input == Head(to_fsm)
    <2>4. moved \in Update /\ moved.kind # "Output"
        BY <2>2 DEF StateUpdate, Update, State
    <2>5. rule.output # NoOutput => asked \in Update
        BY <2>2, <2>3 DEF OutputUpdate, Update, State, UrlOption
    <2>6. \A tags : rule.output # NoOutput =>
                        (asked \in Outputs(tags) <=> rule.output \in tags)
        BY <2>5 DEF OutputUpdate, Outputs
    <2>7. from_fsm' = IF rule.output = NoOutput THEN reported ELSE Append(reported, asked)
        <3>1. /\ rule.output = NoOutput => from_fsm' = from_fsm \o <<moved>>
              /\ rule.output # NoOutput => from_fsm' = from_fsm \o <<moved, asked>>
            BY <2>1 DEF Updates
        <3> HIDE DEF moved, asked
        <3> QED
            BY <1>1, <2>4, <2>5, <3>1
    <2>8. IsSilent(moved) /\ AddsOutput(from_fsm, moved, reported)
        BY <1>4, <2>4
    <2>9. rule.input = "Connect" => asked.url = input.url
        <3> SUFFICES ASSUME rule.input = "Connect" PROVE asked.url = input.url
            OBVIOUS
        <3>1. rule.to = "Connecting"
            BY <2>2 DEF Rules, Rule
        <3>2. fsm_state'.url = input.url
            BY <2>1, <3>1 DEF Target
        <3> QED
            BY <3>2 DEF OutputUpdate
    <2>10. asked \in Ends <=> asked \in Outputs({"HandleSuccessfulDisconnect",
                                  "HandleDisconnectError", "HandleConnectError"})
        BY DEF Ends, Outputs, IsEnd, IsFarewell, IsOutput
    <2> HIDE DEF moved, asked, reported
    <2>11. CASE rule.output = NoOutput
        <3>1. \/ input.tag = "Reset" /\ rule.to = "Disconnected"
              \/ input.tag = "StartCommunication" /\ rule.from = "Initializing"
                 /\ rule.to = "Communicating"
            BY <2>2, <2>11 DEF Rules, Rule, NoOutput
        <3>2. FsmMove(input, fsm_state.tag, fsm_state'.tag, moved)
            BY <2>2, <2>8, <3>1 DEF FsmMove
        <3> QED
            BY <1>3, <2>4, <2>7, <2>8, <2>11, <3>2
    <2>12. CASE rule.output # NoOutput
        <3>1. reported \in Seq(Update)
            BY <1>1, <2>4 DEF reported
        <3>2. Adds(reported, asked, Append(reported, asked))
            BY <2>5, <2>12, <3>1, AppendAdds
        <3>3. AddsOutput(from_fsm, asked, from_fsm')
            <4> SUFFICES ASSUME NEW S, NEW T, S \subseteq Outputs(OutputTag),
                                T \subseteq Outputs(OutputTag)
                         PROVE  /\ Without(from_fsm', S) <=> Without(from_fsm, S) /\ asked \notin S
                                /\ NoneAfter(from_fsm', S, T) <=>
                                       /\ NoneAfter(from_fsm, S, T)
                                       /\ Without(from_fsm, S) \/ asked \notin T
                BY DEF AddsOutput
            <4>1. /\ Without(reported, S) <=> Without(from_fsm, S)
                  /\ NoneAfter(reported, S, T) <=> NoneAfter(from_fsm, S, T)
                BY <2>8 DEF AddsOutput, IsSilent
            <4> QED
                BY <2>7, <2>12, <3>2, <4>1 DEF Adds
        <3>4. FsmMove(input, fsm_state.tag, fsm_state'.tag, asked)
            BY <2>2, <2>6, <2>9, <2>10, <2>12 DEF FsmMove, Rules, Rule, NoOutput, Starts
        <3> QED
            BY <1>3, <2>5, <2>12, <3>3, <3>4
    <2> QED
        BY <2>11, <2>12
<1> QED
    BY <1>2, <1>5, <1>6

LEMMA FsmPair ==
    ASSUME TypeInv, RestInv, OneAttempt, PairInv, FsmStep
    PROVE  PairInv'
<1>1. UNCHANGED <<ws, cur_ws, mgr, mgr_pc, disk>>
    BY DEF FsmStep, ws_vars, mgr_vars
<1>2. PersistedPairMatches' /\ NeverWaits(mgr')
    BY <1>1 DEF PairInv, PersistedPairMatches
<1> SUFFICES ASSUME mgr_pc \notin StopPc PROVE AttemptInv'
    BY <1>1, <1>2 DEF PairInv
<1>3. AttemptInv
    BY DEF PairInv
<1> DEFINE input == Head(to_fsm)
           from == fsm_state.tag
           to == fsm_state'.tag
<1>4. to_fsm # <<>> /\ to_fsm' = Tail(to_fsm) /\ to_fsm \in Seq(Input)
    BY FsmMoves DEF TypeInv, CoreOK
<1>5. PICK out \in Update : /\ AddsOutput(from_fsm, out, from_fsm')
                            /\ FsmMove(input, from, to, out)
    BY FsmMoves
<1>6. input \in Input
    BY <1>4
<1>7. Takes(to_fsm, to_fsm')
    BY <1>4, TailTakes
<1>8. /\ \A S, T : /\ Without(to_fsm, S) => Without(to_fsm', S) /\ input \notin S
                   /\ NoneAfter(to_fsm, S, T) => NoneAfter(to_fsm', S, T)
                   /\ NoneAfter(to_fsm, S, T) /\ input \in S => Without(to_fsm', T)
      /\ \A tags : input \in Inputs(tags) <=> input.tag \in tags
      /\ input \in Connects <=> input.tag = "Connect"
      /\ input \in Errors <=> input.tag = "Error"
    BY <1>6, <1>7, TaggedInputs DEF Takes
<1>9. /\ \A S, T : S \subseteq Outputs(OutputTag) /\ T \subseteq Outputs(OutputTag) =>
             /\ Without(from_fsm', S) <=> Without(from_fsm, S) /\ out \notin S
             /\ NoneAfter(from_fsm', S, T) <=>
                    NoneAfter(from_fsm, S, T) /\ (Without(from_fsm, S) \/ out \notin T)
      /\ \A tags : Outputs(tags) \subseteq Outputs(OutputTag)
      /\ Starts \subseteq Outputs(OutputTag) /\ Ends \subseteq Outputs(OutputTag)
      /\ StartsOrEnds \subseteq Outputs(OutputTag)
    BY <1>5, FewerOutputs DEF AddsOutput, StartsOrEnds
<1>10. /\ out \in Starts <=> out \in Outputs({"ConnectToTv"})
       /\ out \in StartsOrEnds <=> out \in Starts \/ out \in Ends
       /\ \A tags : out \in Outputs(tags) <=> out.kind = "Output" /\ out.tag \in tags
    BY TaggedOutputs
<1>11. /\ (Gone' <=> Gone) /\ (Spent' <=> Spent) /\ (Unanswered' <=> Unanswered)
       /\ Task' = Task /\ TaskInOrder'
       /\ Spent => Gone
    BY <1>1, <1>3 DEF Gone, Spent, Unanswered, Task, TaskInOrder, AttemptInv, IsSpent
<1> HIDE DEF input, from, to
<1>12. /\ out \in Starts => /\ input.tag = "Connect" /\ out.url = input.url
                            /\ from = "Disconnected" /\ to = "Connecting"
       /\ out \in Ends => \/ input.tag = "Error" /\ from \in {"Connecting", "Disconnecting"}
                          \/ input.tag = "DisconnectionComplete" /\ from = "Disconnecting"
       /\ out \in Outputs({"SendRegisterPayload"}) => from = "Connecting"
    <2> DEFINE tag == IF IsSilent(out) THEN NoOutput ELSE out.tag
               ends == {"HandleSuccessfulDisconnect", "HandleDisconnectError",
                        "HandleConnectError"}
    <2>1. /\ IsSilent(out) => tag = NoOutput
          /\ out \in Starts <=> tag = "ConnectToTv"
          /\ out \in Ends <=> tag \in ends
          /\ out \in Outputs({"SendRegisterPayload"}) <=> tag = "SendRegisterPayload"
          /\ out \in Outputs({"PairWithTv"}) <=> tag = "PairWithTv"
          /\ out \in Outputs({"InitializeConnection"}) <=> tag = "InitializeConnection"
          /\ out \in Outputs({"SendCommand"}) <=> tag = "SendCommand"
          /\ out \in Outputs({"DisconnectFromTv"}) <=> tag = "DisconnectFromTv"
        BY <1>10, TaggedOutputs DEF IsSilent, OutputTag, NoOutput
    <2> HIDE DEF tag
    <2> QED
        BY <1>5, <2>1 DEF FsmMove, NoOutput
\* What is known of an Input that would leave an attempt, or begin one.
<1>13. ~Spent => input.tag # "Connect" /\ out \notin StartsOrEnds
    <2> SUFFICES ASSUME ~Spent
                 PROVE  input.tag # "Connect" /\ out \notin StartsOrEnds
        OBVIOUS
    <2>1. input.tag # "Connect"
        BY <1>3, <1>8 DEF AttemptInv, OneTask
    <2>2. input.tag = "Error" => from \in {"Connected", "Pairing"}
        BY <1>3, <1>8 DEF AttemptInv, Refused, from
    <2>3. input.tag = "DisconnectionComplete" => from # "Disconnecting"
        BY <1>3, <1>8 DEF AttemptInv, OneTask, from
    <2> QED
        BY <1>10, <1>12, <2>1, <2>2, <2>3
<1>14. ~Gone => to # "Disconnected"
    <2> SUFFICES ASSUME ~Gone PROVE to # "Disconnected"
        OBVIOUS
    <2>1. input.tag # "Reset" /\ from # "Disconnected"
        BY <1>3, <1>8 DEF AttemptInv, OneTask, from
    <2>2. out \notin Ends
        BY <1>10, <1>11, <1>13
    <2> QED
        BY <1>5, <2>1, <2>2 DEF FsmMove
<1>15. ~Without(to_fsm, Connects) => from = "Disconnected"
    BY <1>3 DEF OneAttempt, HasConnect, IsActive, from
<1>16. from = "Disconnected" /\ input.tag # "Connect" => IsSilent(out) /\ to = "Disconnected"
    BY <1>5 DEF FsmMove
<1>17. OneTask'
    <2>1. ~Gone => /\ to # "Disconnected" /\ Without(to_fsm', Inputs({"Reset"}))
        BY <1>3, <1>8, <1>14 DEF AttemptInv, OneTask
    <2>2. ~Spent => /\ mgr_pc' \notin RestPc
                    /\ Without(to_fsm', Connects)
                    /\ Without(from_fsm', StartsOrEnds)
                    /\ NoneAfter(to_fsm', Inputs({"AttemptRegister"}),
                                          Inputs({"DisconnectionComplete"}))
        BY <1>1, <1>3, <1>8, <1>9, <1>13 DEF AttemptInv, OneTask
    <2>3. ASSUME ~Spent, to \notin {"Disconnected", "Connecting"}
          PROVE  Without(to_fsm', Inputs({"DisconnectionComplete"}))
        <3>1. CASE from \notin {"Disconnected", "Connecting"}
            BY <1>3, <1>8, <2>3, <3>1 DEF AttemptInv, OneTask, from
        <3>2. CASE from \in {"Disconnected", "Connecting"}
            <4>1. input \in Inputs({"AttemptRegister"})
                BY <1>5, <1>8, <2>3, <3>2 DEF FsmMove
            <4> QED
                BY <1>3, <1>8, <2>3, <4>1 DEF AttemptInv, OneTask
        <3> QED
            BY <3>1, <3>2
    <2> QED
        BY <1>11, <2>1, <2>2, <2>3 DEF OneTask, to
<1>18. EndsAreLast'
    <2>1. mgr_pc \in RestPc \/ ~Without(from_fsm, Ends) => IsSilent(out)
        BY <1>8, <1>15, <1>16 DEF OneAttempt, HasEnd, HasConnect, IsActive, from, Without
    <2> QED
        BY <1>1, <1>3, <1>9, <2>1 DEF AttemptInv, EndsAreLast, IsSilent
<1>19. Asking'
    <2> SUFFICES ASSUME ~Without(to_fsm', Connects)
                 PROVE  Asking'
        BY DEF Asking
    <2>1. ~Without(to_fsm, Connects) /\ input.tag # "Connect"
        BY <1>8 DEF OneAttempt, OneConnect
    <2>2. IsSilent(out)
        BY <1>15, <1>16, <2>1
    <2> QED
        BY <1>1, <1>3, <1>8, <1>9, <2>1, <2>2 DEF AttemptInv, Asking, IsSilent
<1>20. Starting'
    <2>1. CASE input.tag = "Connect" /\ out \in Starts
        <3>1. /\ mgr_pc = "select" /\ input.url = mgr.ws_url
              /\ Without(to_fsm', Input \ Inputs(IdleInput))
              /\ Without(from_fsm, Outputs(OutputTag))
            BY <1>3, <1>8, <2>1 DEF AttemptInv, Asking
        <3>2. to = "Connecting" /\ out.url = input.url
            BY <1>12, <2>1
        <3> DEFINE elsewhere == {update \in Starts : update.url # mgr.ws_url}
        <3>3. elsewhere \subseteq Outputs(OutputTag) /\ out \notin elsewhere
            BY <1>9, <3>1, <3>2
        <3>4. Without(from_fsm, elsewhere) /\ Without(from_fsm, Starts)
              /\ Without(from_fsm, Outputs(OutputTag \ {"ConnectToTv"}))
            BY <1>9, <3>1, <3>3, FewerWithout
        <3>5. Without(from_fsm', elsewhere)
            BY <1>9, <3>3, <3>4
        <3>6. Without(from_fsm', Outputs(OutputTag \ {"ConnectToTv"}))
            BY <1>9, <1>10, <2>1, <3>4
        <3>7. NoneAfter(from_fsm', Starts, Starts)
            BY <1>9, <3>4 DEF NoneAfter, Without
        <3> QED
            BY <1>1, <3>1, <3>2, <3>5, <3>6, <3>7 DEF Starting, to
    <2>2. CASE ~(input.tag = "Connect" /\ out \in Starts)
        <3> SUFFICES ASSUME ~Without(from_fsm', Starts)
                     PROVE  Starting'
            BY DEF Starting
        <3>1. ~Without(from_fsm, Starts)
            BY <1>9, <1>12, <2>2
        <3>2. from = "Connecting" /\ input.tag \in IdleInput
            BY <1>3, <1>8, <3>1, <1>6 DEF AttemptInv, Starting, from
        <3>3. to = "Connecting" /\ IsSilent(out)
            BY <1>5, <3>2 DEF FsmMove, IdleInput
        <3> DEFINE elsewhere == {update \in Starts : update.url # mgr.ws_url}
        <3>4. elsewhere \subseteq Outputs(OutputTag)
            BY <1>9
        <3> QED
            BY <1>1, <1>3, <1>8, <1>9, <3>1, <3>3, <3>4 DEF AttemptInv, Starting, IsSilent, to
    <2> QED
        BY <2>1, <2>2
<1>21. Waiting'
    <2> SUFFICES ASSUME Unanswered
                 PROVE  Waiting'
        BY <1>11 DEF Waiting
    <2>1. from \in {"Connecting", "Connected", "Pairing"} /\ input.tag \in EarlyInput
        BY <1>3, <1>6, <1>8 DEF AttemptInv, Waiting, from
    <2>2. /\ to \in {"Connecting", "Connected", "Pairing"}
          /\ out \notin Outputs(OutputTag \ {"SendRegisterPayload", "PairWithTv"})
        BY <1>5, <1>9, <1>10, <2>1 DEF FsmMove, EarlyInput, IdleInput, IsSilent
    <2> QED
        BY <1>1, <1>3, <1>8, <1>9, <1>11, <2>2 DEF AttemptInv, Waiting, to
<1>22. Refused'
    <2> SUFFICES ASSUME ~Spent, ~Without(to_fsm', Errors)
                 PROVE  Refused'
        BY <1>11 DEF Refused
    <2>1. ~Without(to_fsm, Errors)
        BY <1>8
    <2>2. input.tag # "Error"
        BY <1>3, <1>8, <2>1 DEF AttemptInv, Refused
    <2>3. from \in {"Connected", "Pairing"} /\ input.tag \in EarlyInput
        BY <1>3, <1>6, <1>8, <2>1, <2>2 DEF AttemptInv, Refused, from
    <2>4. /\ to \in {"Connected", "Pairing"}
          /\ out \notin Outputs(OutputTag \ {"PairWithTv"})
        BY <1>5, <1>9, <1>10, <2>3 DEF FsmMove, EarlyInput, IdleInput, IsSilent
    <2> QED
        BY <1>1, <1>3, <1>8, <1>9, <1>11, <2>1, <2>4 DEF AttemptInv, Refused, to
<1>23. Unheard'
    <2>1. to = "Connecting" => \/ from = "Connecting" /\ IsSilent(out)
                               \/ /\ input.tag = "Connect" /\ out \in Starts
                                  /\ Spent
        BY <1>5, <1>13 DEF FsmMove
    <2>2. input.tag = "Connect" => Without(from_fsm, Outputs(OutputTag \ {"ConnectToTv"}))
        <3>1. input.tag = "Connect" => Without(from_fsm, Outputs(OutputTag))
            BY <1>3, <1>8 DEF AttemptInv, Asking
        <3> QED
            BY <1>9, <3>1, FewerWithout
    <2>3. to = "Connecting" => Without(from_fsm', Outputs(OutputTag \ {"ConnectToTv"}))
        <3>1. CASE from = "Connecting" /\ IsSilent(out)
            BY <1>3, <1>9, <3>1 DEF AttemptInv, Unheard, IsSilent, from
        <3>2. CASE input.tag = "Connect" /\ out \in Starts
            BY <1>9, <1>10, <2>2, <3>2
        <3> QED
            BY <2>1, <3>1, <3>2
    <2>4. ASSUME ToRegister', cur_ws # None
          PROVE  Without(Task.from_ws, TvPayload)
        <3>1. CASE ToRegister
            BY <1>3, <2>4, <3>1 DEF AttemptInv, Unheard
        <3>2. CASE ~ToRegister
            <4>1. from # "Connecting" /\ Without(from_fsm, Outputs({"SendRegisterPayload"}))
                BY <3>2 DEF ToRegister, from
            <4>2. out \notin Outputs({"SendRegisterPayload"})
                BY <1>12, <4>1
            <4>3. to = "Connecting"
                BY <1>9, <2>4, <4>1, <4>2 DEF ToRegister, to
            <4>4. Spent
                BY <2>1, <4>1, <4>3
            <4>5. TvPayload \subseteq WsUpdateMessage \ {"Disconnected"}
                BY DEF TvPayload, WsUpdateMessage
            <4> QED
                BY <2>4, <4>4, <4>5, FewerWithout DEF Spent, IsSpent
        <3> QED
            BY <3>1, <3>2
    <2> QED
        BY <1>1, <1>11, <2>3, <2>4 DEF Unheard, to
<1> QED
    BY <1>11, <1>17, <1>18, <1>19, <1>20, <1>21, <1>22, <1>23 DEF AttemptInv

-----------------------------------------------------------------------------
(* The invariant in the steps of the manager that read what its task has   *)
(* reported.                                                               *)

ReportRead(s, t) ==
    LET update == Head(s.from_ws)
    IN  /\ update \in WsUpdateMessage \ {"ConnectionOk", "ConnectionNotOk"}
        /\ InOrder(t)
        /\ t.host = s.host /\ t.tv = s.tv
        /\ IsOver(t) <=> IsOver(s)
        /\ IsSpent(s) => IsSpent(t) /\ update = "Disconnected"
        /\ update \in LastWords => IsSpent(t)
        /\ IsSpent(t) => ~IsUnanswered(t)
        /\ IsUnanswered(t) => IsUnanswered(s)
        /\ update \in Verdicts => IsUnanswered(s) /\ ~IsUnanswered(t)
        /\ update = "Volume" => ~IsUnanswered(t)
        /\ update \in Refusals =>
               /\ t.tv = "declined" \/ IsOver(t)
               /\ Without(t.from_ws, WsUpdateMessage \ LastWords)
        /\ \A S : Without(s.from_ws, S) => update \notin S /\ Without(t.from_ws, S)

LEMMA ReadReport ==
    ASSUME NEW s \in SocketState, NEW t \in SocketState, InOrder(s), s.from_ws # <<>>,
           t.from_ws = Tail(s.from_ws), t.phase = s.phase, t.host = s.host, t.tv = s.tv,
           t.testing = s.testing, t.to_ws = s.to_ws
    PROVE  ReportRead(s, t)
<1> DEFINE update == Head(s.from_ws)
           queue == s.from_ws
           rest == t.from_ws
<1>1. /\ queue \in Seq(WsUpdateMessage) /\ s.tv \in TvSession /\ s.phase \in Phase
      /\ rest = Tail(queue) /\ queue # <<>>
      /\ t.host = s.host /\ t.tv = s.tv /\ t.phase = s.phase /\ t.testing = s.testing
      /\ t.to_ws = s.to_ws
    BY DEF SocketState
<1>2. update \in WsUpdateMessage
    BY <1>1
<1>3. Takes(queue, rest)
    BY <1>1, TailTakes
<1>4. \A S, T : /\ Without(queue, S) <=> update \notin S /\ Without(rest, S)
                /\ NoneAfter(queue, S, T) => NoneAfter(rest, S, T)
                /\ NoneAfter(queue, S, T) /\ update \in S => Without(rest, T)
    BY <1>3 DEF Takes
<1> HIDE DEF update, queue, rest
<1>5. /\ Without(queue, {"ConnectionOk", "ConnectionNotOk"})
      /\ ~IsOver(s) => Without(queue, LastWords)
      /\ s.phase # "ended" =>
             /\ s.tv \in EarlySession => Without(queue, TvPayload \ {"Pair"})
             /\ s.tv = "declined" => Without(queue, {"Registered", "Volume"})
             /\ s.tv \in {"registered", "subscribed"} => Without(queue, Refusals)
      /\ NoneAfter(queue, LastWords, WsUpdateMessage \ {"Disconnected"})
      /\ NoneAfter(queue, TvPayload \ {"Pair"}, Verdicts)
      /\ NoneAfter(queue, Refusals, WsUpdateMessage \ LastWords)
      /\ ~s.testing /\ Without(s.to_ws, {"TestConnection"})
      /\ s.phase = "connecting" => s.tv = "idle"
    BY DEF InOrder, queue
<1>6. InOrder(t)
    BY <1>1, <1>4, <1>5 DEF InOrder, IsOver, rest
<1>7. IsOver(t) <=> IsOver(s)
    BY <1>1 DEF IsOver
<1>8. IsSpent(s) => IsSpent(t) /\ update = "Disconnected"
    BY <1>2, <1>4, <1>7 DEF IsSpent, queue, rest
<1>9. update \in LastWords => IsSpent(t)
    BY <1>4, <1>5, <1>7 DEF IsSpent, rest
<1>10. IsSpent(t) => ~IsUnanswered(t)
    <2>1. Verdicts \subseteq WsUpdateMessage \ {"Disconnected"}
        BY DEF Verdicts, Refusals, WsUpdateMessage, TvPayload
    <2> QED
        BY <2>1, FewerWithout DEF IsSpent, IsUnanswered, IsOver
<1>11. IsUnanswered(t) => IsUnanswered(s)
    BY <1>1, <1>4 DEF IsUnanswered, queue, rest
<1>12. update \in TvPayload \ {"Pair"} => ~IsUnanswered(t)
    <2> SUFFICES ASSUME update \in TvPayload \ {"Pair"} PROVE ~IsUnanswered(t)
        OBVIOUS
    <2>1. Without(rest, Verdicts) /\ ~Without(queue, TvPayload \ {"Pair"})
        BY <1>4, <1>5
    <2> QED
        BY <1>1, <1>5, <2>1 DEF IsUnanswered, rest
<1>13. update \in Verdicts => IsUnanswered(s) /\ update \in TvPayload \ {"Pair"}
    BY <1>4 DEF IsUnanswered, Verdicts, Refusals, TvPayload, queue
<1>14. update \in Refusals => /\ t.tv = "declined" \/ IsOver(t)
                              /\ Without(rest, WsUpdateMessage \ LastWords)
    <2> SUFFICES ASSUME update \in Refusals
                 PROVE  /\ t.tv = "declined" \/ IsOver(t)
                        /\ Without(rest, WsUpdateMessage \ LastWords)
        OBVIOUS
    <2>1. update \in TvPayload \ {"Pair"}
        BY DEF Refusals, TvPayload
    <2>2. ~Without(queue, Refusals) /\ ~Without(queue, TvPayload \ {"Pair"})
        BY <1>4, <2>1
    <2>3. s.phase = "ended" \/ s.tv = "declined"
        BY <1>1, <1>5, <2>2 DEF TvSession, EarlySession
    <2> QED
        BY <1>1, <1>4, <1>5, <2>3 DEF IsOver
<1>15. update \notin {"ConnectionOk", "ConnectionNotOk"} /\ "Volume" \in TvPayload \ {"Pair"}
    BY <1>4, <1>5 DEF TvPayload
<1> QED
    BY <1>1, <1>2, <1>4, <1>6, <1>7, <1>8, <1>9, <1>10, <1>11, <1>12, <1>13, <1>14, <1>15
       DEF ReportRead, update, queue, rest

\* The Input that the manager sends for an update of its task.
InputFor(update) ==
    CASE update = "Connected"    -> "AttemptRegister"
      [] update = "Disconnected" -> "DisconnectionComplete"
      [] update = "Pair"         -> "Pair"
      [] update = "Registered"   -> "Initialize"
      [] update = "Volume"       -> "StartCommunication"
      [] OTHER                   -> "Error"

LEMMA ReportPair ==
    ASSUME TypeInv, PairInv, mgr_pc = "select", mgr_pc' = "select",
           UNCHANGED <<cur_ws, fsm_state, from_fsm>>,
           cur_ws # None, Task.from_ws # <<>>,
           ws' = [ws EXCEPT ![cur_ws].from_ws = Tail(@)],
           \/ to_fsm' = to_fsm
           \/ to_fsm' = Append(to_fsm, InputOf(InputFor(Head(Task.from_ws)))),
           NeverWaits(mgr'), mgr'.ws_url = mgr.ws_url
    PROVE  AttemptInv'
<1>1. AttemptInv
    BY DEF PairInv, StopPc
<1> DEFINE s == Task
           t == Task'
           update == Head(s.from_ws)
           tag == InputFor(update)
<1>2. /\ s \in SocketState /\ to_fsm \in Seq(Input) /\ from_fsm \in Seq(Update)
      /\ t = [s EXCEPT !.from_ws = Tail(s.from_ws)]
    BY DEF TypeInv, RestOK, CoreOK, WsTypeOK, Task
<1>3. t \in SocketState
    <2>1. s.from_ws \in Seq(WsUpdateMessage)
        BY <1>2 DEF SocketState
    <2>2. Tail(s.from_ws) \in Seq(WsUpdateMessage)
        BY <2>1
    <2> QED
        BY <1>2, <2>2 DEF SocketState
<1>4. /\ InOrder(s) /\ s.from_ws # <<>>
      /\ t.from_ws = Tail(s.from_ws) /\ t.phase = s.phase /\ t.host = s.host /\ t.tv = s.tv
      /\ t.testing = s.testing /\ t.to_ws = s.to_ws
    BY <1>1, <1>2 DEF AttemptInv, TaskInOrder, SocketState
<1> HIDE DEF s, t
<1>5. ReportRead(s, t)
    BY <1>2, <1>3, <1>4, ReadReport
<1>6. /\ (Gone <=> IsOver(s)) /\ (Spent <=> IsSpent(s)) /\ (Unanswered <=> IsUnanswered(s))
      /\ (Gone' <=> IsOver(t)) /\ (Spent' <=> IsSpent(t)) /\ (Unanswered' <=> IsUnanswered(t))
    BY DEF Gone, Spent, Unanswered, s, t
<1>7. TaskInOrder'
    BY <1>5 DEF ReportRead, TaskInOrder, t
<1>8. /\ update \in WsUpdateMessage \ {"ConnectionOk", "ConnectionNotOk"}
      /\ tag \in InputTag \ {"Connect", "Reset"}
      /\ update \in {"Connected", "Pair"} => tag \in {"AttemptRegister", "Pair"}
      /\ update = "Disconnected" <=> tag = "DisconnectionComplete"
      /\ tag = "Error" => update \in LastWords \/ update \in Refusals
    BY <1>5 DEF ReportRead, InputFor, InputTag, WsUpdateMessage, TvPayload, LastWords, Refusals
<1> DEFINE sent == InputOf(tag)
<1>9. /\ sent \in Input
      /\ \A tags : sent \in Inputs(tags) <=> tag \in tags
      /\ sent \notin Connects
      /\ sent \in Errors <=> tag = "Error"
    <2>1. sent \in Input /\ sent.tag = tag
        BY <1>8, InputOfType DEF InputOf
    <2> HIDE DEF sent
    <2> QED
        BY <1>8, <2>1, TaggedInputs
<1>10. to_fsm' = to_fsm \/ to_fsm' = Append(to_fsm, sent)
    BY DEF s
<1> HIDE DEF sent, tag, update
<1>11. \A S, T : /\ Without(to_fsm, S) /\ sent \notin S => Without(to_fsm', S)
                 /\ Without(to_fsm', S) => Without(to_fsm, S)
                 /\ NoneAfter(to_fsm, S, T) /\ (Without(to_fsm, S) \/ sent \notin T)
                        => NoneAfter(to_fsm', S, T)
    <2>1. Adds(to_fsm, sent, Append(to_fsm, sent))
        BY <1>2, <1>9, AppendAdds
    <2> QED
        BY <1>10, <2>1 DEF Adds
<1>12. /\ Spent => Spent' /\ update = "Disconnected"
       /\ update \in LastWords => Spent'
       /\ Spent' => ~Unanswered'
       /\ Unanswered' => Unanswered
       /\ update \in Verdicts => Unanswered /\ ~Unanswered'
       /\ update = "Volume" => ~Unanswered'
       /\ \A S : Without(s.from_ws, S) => update \notin S /\ Without(t.from_ws, S)
    BY <1>5, <1>6 DEF ReportRead, update
<1>13. OneTask'
    <2>1. ~Gone' => fsm_state'.tag # "Disconnected" /\ Without(to_fsm', Inputs({"Reset"}))
        BY <1>1, <1>5, <1>6, <1>8, <1>9, <1>11 DEF ReportRead, AttemptInv, OneTask
    <2>2. ~Spent' => ~Spent /\ tag # "DisconnectionComplete"
        BY <1>8, <1>12 DEF LastWords
    <2>3. ~Spent' => /\ mgr_pc' \notin RestPc
                     /\ Without(to_fsm', Connects)
                     /\ Without(from_fsm', StartsOrEnds)
        BY <1>1, <1>9, <1>11, <2>2 DEF AttemptInv, OneTask, RestPc
    <2>4. ~Spent' => NoneAfter(to_fsm', Inputs({"AttemptRegister"}),
                                        Inputs({"DisconnectionComplete"}))
        BY <1>1, <1>9, <1>11, <2>2 DEF AttemptInv, OneTask
    <2>5. ~Spent' /\ fsm_state'.tag \notin {"Disconnected", "Connecting"}
              => Without(to_fsm', Inputs({"DisconnectionComplete"}))
        BY <1>1, <1>9, <1>11, <2>2 DEF AttemptInv, OneTask
    <2> QED
        BY <2>1, <2>3, <2>4, <2>5 DEF OneTask
<1>14. EndsAreLast'
    BY <1>1 DEF AttemptInv, EndsAreLast, RestPc
\* Before an attempt has its task, there is only the end of the last one to read.
<1>15. /\ ~Without(to_fsm, Connects) => tag \in IdleInput
       /\ ~Without(from_fsm, Starts) => tag \in IdleInput
    <2>1. ~Without(from_fsm, Starts) => ~Without(from_fsm, StartsOrEnds)
        BY DEF Without, StartsOrEnds
    <2> QED
        BY <1>1, <1>8, <1>12, <2>1 DEF AttemptInv, OneTask, IdleInput
<1>16. Asking'
    <2> SUFFICES ASSUME ~Without(to_fsm', Connects)
                 PROVE  Asking'
        BY DEF Asking
    <2>1. ~Without(to_fsm, Connects)
        BY <1>9, <1>11
    <2>2. sent \notin Input \ Inputs(IdleInput)
        BY <1>9, <1>15, <2>1
    <2> QED
        BY <1>1, <1>9, <1>11, <2>1, <2>2 DEF AttemptInv, Asking
<1>17. Starting'
    <2> SUFFICES ASSUME ~Without(from_fsm, Starts)
                 PROVE  Starting'
        BY DEF Starting
    <2>1. sent \notin Input \ Inputs(IdleInput)
        BY <1>9, <1>15
    <2> QED
        BY <1>1, <1>11, <2>1 DEF AttemptInv, Starting
<1>18. Waiting'
    <2> SUFFICES ASSUME Unanswered'
                 PROVE  Waiting'
        BY DEF Waiting
    <2>1. update \in {"Connected", "Pair"}
        BY <1>8, <1>12 DEF LastWords, Verdicts, Refusals, WsUpdateMessage, TvPayload
    <2>2. sent \notin Input \ Inputs(EarlyInput)
        BY <1>8, <1>9, <2>1 DEF EarlyInput
    <2>3. Task'.host = Task.host /\ Unanswered
        BY <1>5, <1>12 DEF ReportRead, s, t
    <2> QED
        BY <1>1, <1>11, <2>2, <2>3 DEF AttemptInv, Waiting
\* The TV has refused: nothing but the way to Connected or Pairing is under way.
<1>19. Refused'
    <2> SUFFICES ASSUME ~Spent', ~Without(to_fsm', Errors)
                 PROVE  Refused'
        BY DEF Refused
    <2>1. update \notin LastWords /\ ~Spent
        BY <1>12
    <2>2. Without(to_fsm, Errors)
        <3> SUFFICES ASSUME ~Without(to_fsm, Errors) PROVE FALSE
            OBVIOUS
        <3>1. Without(s.from_ws, WsUpdateMessage \ LastWords)
            BY <1>1, <2>1 DEF AttemptInv, Refused, s
        <3> QED
            BY <1>8, <1>12, <2>1, <3>1
    <2>3. tag = "Error" /\ update \in Refusals
        BY <1>8, <1>9, <1>11, <2>1, <2>2
    <2>4. Unanswered /\ update \in TvPayload
        BY <1>12, <2>3 DEF Verdicts, Refusals, TvPayload
    <2>5. ~Without(s.from_ws, TvPayload)
        BY <1>12, <2>4
    <2>6. /\ fsm_state.tag \in {"Connected", "Pairing"}
          /\ Without(from_fsm, Outputs({"SendRegisterPayload"}))
        BY <1>1, <2>4, <2>5 DEF AttemptInv, Waiting, Unheard, ToRegister, s
    <2>7. Without(from_fsm, Outputs(OutputTag \ {"SendRegisterPayload", "PairWithTv"}))
        BY <1>1, <2>4 DEF AttemptInv, Waiting
    <2>8. Without(from_fsm, Outputs(OutputTag \ {"PairWithTv"}))
        BY <2>6, <2>7 DEF Without, Outputs
    <2>9. Without(to_fsm', Input \ Inputs(EarlyInput \cup {"Error"}))
        <3>1. Without(to_fsm, Input \ Inputs(EarlyInput))
            BY <1>1, <2>4 DEF AttemptInv, Waiting
        <3>2. Input \ Inputs(EarlyInput \cup {"Error"}) \subseteq Input \ Inputs(EarlyInput)
            BY DEF Inputs
        <3>3. sent \in Inputs(EarlyInput \cup {"Error"})
            BY <1>9, <2>3
        <3> QED
            BY <1>11, <3>1, <3>2, <3>3, FewerWithout
    <2>10. NoneAfter(to_fsm', Errors, Errors)
        BY <1>11, <2>2 DEF NoneAfter, Without
    <2>11. /\ Without(Task'.from_ws, WsUpdateMessage \ LastWords)
           /\ Task'.tv = "declined" \/ IsOver(Task')
        BY <1>5, <2>3 DEF ReportRead, t, update
    <2> QED
        BY <2>6, <2>8, <2>9, <2>10, <2>11 DEF Refused
<1>20. Unheard'
    <2>1. ToRegister' <=> ToRegister
        BY DEF ToRegister
    <2>2. Without(s.from_ws, TvPayload) => Without(t.from_ws, TvPayload)
        BY <1>12
    <2> QED
        BY <1>1, <2>1, <2>2 DEF AttemptInv, Unheard, s, t
<1> QED
    BY <1>7, <1>13, <1>14, <1>16, <1>17, <1>18, <1>19, <1>20 DEF AttemptInv

LEMMA WebSocketPair ==
    ASSUME ~IsOperational, TypeInv, RestInv, PairInv, FromWebSocket
    PROVE  PairInv'
<1> DEFINE update == Head(ws[cur_ws].from_ws)
<1>1. PICK updates : Reported(updates)
    BY DEF FromWebSocket, WebSocketConnected, WebSocketDisconnected, ConnectionLost,
           ConnectionTested, GetVolume, PairRequested, PairingFailed, Registered
<1>2. /\ mgr_pc = "select" /\ cur_ws # None /\ ws[cur_ws].from_ws # <<>>
      /\ ws' = [ws EXCEPT ![cur_ws].from_ws = Tail(@)]
      /\ UNCHANGED <<cur_ws, fsm_state, from_fsm>>
    BY <1>1 DEF Reported, AtSelect
<1>3. fsm_alive
    BY <1>2 DEF RestInv, IsStopping, StopPc
<1>4. AttemptInv /\ PersistedPairMatches /\ KeepsUrl(mgr)
    BY <1>2 DEF PairInv, KeepsUrl, StopPc
<1>5. /\ mgr \in ManagerState /\ to_fsm \in Seq(Input)
      /\ ws[cur_ws] \in SocketState /\ cur_ws \in Socket
    BY <1>2 DEF TypeInv, CoreOK, WsTypeOK
<1>6. ASSUME NEW s \in ManagerState, KeepsUrl(s), PersistedPairMatches',
             Commit(Done(s)) \/ Commit(DoneSending(s, InputFor(update)))
      PROVE  PairInv'
    <2>1. NeverWaits(mgr') /\ mgr'.ws_url = mgr.ws_url
        BY <1>6, HandlerKeepsUrl DEF KeepsUrl
    <2>2. mgr_pc' = "select"
        BY <1>6, ResultPcs DEF Commit
    <2>3. to_fsm' = to_fsm \/ to_fsm' = Append(to_fsm, InputOf(InputFor(update)))
        <3> DEFINE input == InputOf(InputFor(update))
        <3>1. Done(s).sent = <<>> /\ DoneSending(s, InputFor(update)).sent = <<input>>
            BY DEF Done, DoneSending, Result
        <3>2. to_fsm' = to_fsm \o <<>> \/ to_fsm' = to_fsm \o <<input>>
            BY <1>3, <1>6, <3>1 DEF Commit
        <3>3. to_fsm \o <<input>> = Append(to_fsm, input)
            BY <1>5
        <3> QED
            BY <1>5, <3>2, <3>3
    <2>4. AttemptInv'
        <3> DEFINE reported == Task.from_ws
        <3>1. reported = ws[cur_ws].from_ws
            BY DEF Task
        <3>2. reported # <<>> /\ (to_fsm' = to_fsm
                                  \/ to_fsm' = Append(to_fsm, InputOf(InputFor(Head(reported)))))
            BY <1>2, <2>3, <3>1
        <3> QED
            BY <1>2, <2>1, <2>2, <3>2, ReportPair
    <2> QED
        BY <1>6, <2>1, <2>4 DEF PairInv
<1>7. disk' = disk => PersistedPairMatches'
    BY <1>4 DEF PersistedPairMatches
<1>8. CASE WebSocketConnected
    <2>1. InputFor(update) = "AttemptRegister"
        BY <1>8 DEF WebSocketConnected, Reported, InputFor
    <2> QED
        BY <1>4, <1>5, <1>6, <1>7, <1>8, <2>1 DEF WebSocketConnected
<1>9. CASE WebSocketDisconnected
    <2>1. InputFor(update) = "DisconnectionComplete"
        BY <1>9 DEF WebSocketDisconnected, Reported, InputFor
    <2> QED
        BY <1>4, <1>5, <1>6, <1>7, <1>9, <2>1 DEF WebSocketDisconnected
<1>10. CASE ConnectionLost
    <2>1. InputFor(update) = "Error"
        BY <1>10 DEF ConnectionLost, Reported, InputFor
    <2> DEFINE s == OptionallyPrepareForReconnect(mgr)
    <2>2. s \in ManagerState /\ KeepsUrl(s)
        BY <1>4, <1>5, PrepareType, PrepareKeepsUrl
    <2>3. Commit(DoneSending(s, "Error")) /\ disk' = disk
        BY <1>10 DEF ConnectionLost
    <2> HIDE DEF s
    <2> QED
        BY <1>6, <1>7, <2>1, <2>2, <2>3
<1>11. ~ConnectionTested
    <2>1. Without(ws[cur_ws].from_ws, {"ConnectionOk", "ConnectionNotOk"})
        BY <1>2, <1>4 DEF AttemptInv, TaskInOrder, InOrder, Task
    <2>2. ws[cur_ws].from_ws \in Seq(WsUpdateMessage)
        BY <1>5 DEF SocketState
    <2>3. 1 \in 1 .. Len(ws[cur_ws].from_ws) /\ ws[cur_ws].from_ws[1] = update
        BY <1>2, <2>2
    <2> QED
        BY <2>1, <2>3 DEF ConnectionTested, Reported, Without
<1>12. CASE GetVolume
    <2>1. InputFor(update) = "StartCommunication"
        BY <1>12 DEF GetVolume, Reported, InputFor
    <2> DEFINE s == [mgr EXCEPT !.is_connection_initialized = TRUE]
    <2>2. s \in ManagerState /\ KeepsUrl(s)
        BY <1>4, <1>5, FieldTypes, FieldsKeepUrl
    <2>3. /\ Commit(Done(mgr)) \/ Commit(DoneSending(s, "StartCommunication"))
          /\ disk' = disk
        BY <1>12 DEF GetVolume
    <2> HIDE DEF s
    <2> QED
        BY <1>4, <1>5, <1>6, <1>7, <2>1, <2>2, <2>3
<1>13. CASE PairRequested
    <2>1. InputFor(update) = "Pair"
        BY <1>13 DEF PairRequested, Reported, InputFor
    <2> QED
        BY <1>4, <1>5, <1>6, <1>7, <1>13, <2>1 DEF PairRequested
<1>14. CASE PairingFailed
    <2>1. InputFor(update) = "Error"
        BY <1>14 DEF PairingFailed, Reported, InputFor
    <2> QED
        BY <1>4, <1>5, <1>6, <1>7, <1>14, <2>1 DEF PairingFailed
<1>15. CASE Registered
    <2> DEFINE host == ws[cur_ws].host
               s == [mgr EXCEPT !.client_key = host]
    <2>1. update = "Registered" /\ InputFor(update) = "Initialize"
        BY <1>15 DEF Registered, Reported, InputFor
    <2>2. Commit(DoneSending(s, "Initialize")) /\ disk' \in AfterWrite(s)
        BY <1>15 DEF Registered
    \* The answer belongs to the attempt that the URL was set for.
    <2>3. mgr.ws_url = host
        <3>1. ws[cur_ws].from_ws \in Seq(WsUpdateMessage)
            BY <1>5 DEF SocketState
        <3>2. 1 \in 1 .. Len(ws[cur_ws].from_ws) /\ ws[cur_ws].from_ws[1] = update
            BY <1>2, <3>1
        <3>3. ~Without(ws[cur_ws].from_ws, Verdicts)
            BY <2>1, <3>2 DEF Without, Verdicts
        <3>4. Unanswered
            BY <1>2, <3>3 DEF Unanswered, IsUnanswered, Task
        <3> QED
            BY <1>4, <3>4 DEF AttemptInv, Waiting, Task
    <2>4. host \in KeyOption /\ host \in UrlOption
        BY <1>5 DEF SocketState, KeyOption, Key, UrlOption
    <2>5. s \in ManagerState /\ KeepsUrl(s) /\ s.ws_url = host /\ s.client_key = host
        BY <1>4, <1>5, <2>3, <2>4 DEF ManagerState, KeepsUrl, NeverWaits
    <2> HIDE DEF s, host
    <2>6. PersistedPairMatches'
        BY <1>4, <2>2, <2>5 DEF AfterWrite, PersistedPairMatches
    <2> QED
        BY <1>6, <2>1, <2>2, <2>5, <2>6
<1> QED
    BY <1>8, <1>9, <1>10, <1>11, <1>12, <1>13, <1>14, <1>15 DEF FromWebSocket

-----------------------------------------------------------------------------
(* The invariant in the steps of the manager that are up to its caller, or *)
(* that go on with a handler.                                              *)

\* Inputs that begin no attempt: those of the caller, and the Resets of a
\* manager whose task is gone.
LEMMA SendPair ==
    ASSUME TypeInv, PairInv, mgr_pc \notin StopPc, mgr_pc' \notin StopPc,
           TaskKept, UNCHANGED <<fsm_state, from_fsm, disk>>, NeverWaits(mgr'),
           NEW sent \in Seq(Input), to_fsm' = to_fsm \o sent,
           \/ /\ mgr_pc = "select" /\ mgr_pc' = "select" /\ mgr'.ws_url = mgr.ws_url
              /\ Without(sent, Input \ Inputs({"Disconnect", "SendCommand"}))
           \/ /\ mgr_pc # "select"
              /\ mgr_pc' \in RestPc => mgr_pc \in RestPc
              /\ Without(sent, Input \ Inputs({"Reset"}))
              /\ sent = <<>> \/ Gone
    PROVE  PairInv'
<1>1. AttemptInv
    BY DEF PairInv
<1>2. /\ (Gone' <=> Gone) /\ (Spent' <=> Spent) /\ (Unanswered' <=> Unanswered) /\ TaskInOrder'
      /\ cur_ws # None => /\ Task'.host = Task.host /\ Task'.tv = Task.tv
                          /\ Task'.from_ws = Task.from_ws
                          /\ IsOver(Task') <=> IsOver(Task)
      /\ UNCHANGED cur_ws
    BY <1>1, SameTask DEF AttemptInv, TaskKept
<1>3. \A S, T : /\ Without(to_fsm', S) <=> Without(to_fsm, S) /\ Without(sent, S)
                /\ NoneAfter(to_fsm', S, T) <=>
                       /\ NoneAfter(to_fsm, S, T) /\ NoneAfter(sent, S, T)
                       /\ Without(to_fsm, S) \/ Without(sent, T)
    BY SendMessages DEF TypeInv, CoreOK
<1> DEFINE asked == Input \ Inputs({"Disconnect", "SendCommand"})
           resets == Input \ Inputs({"Reset"})
<1>4. /\ \A tags : /\ tags \cap {"Disconnect", "SendCommand"} = {} => Inputs(tags) \subseteq asked
                   /\ "Reset" \notin tags => Inputs(tags) \subseteq resets
      /\ Connects \subseteq asked /\ Connects \subseteq resets
      /\ Errors \subseteq asked /\ Errors \subseteq resets
      /\ Input \ Inputs(IdleInput) \subseteq asked
      /\ Input \ Inputs(EarlyInput) \subseteq asked
      /\ Input \ Inputs(EarlyInput \cup {"Error"}) \subseteq asked
    BY DEF Inputs, Connects, Errors, IdleInput, EarlyInput
<1>5. \A S, T : Without(sent, T) /\ S \subseteq T => Without(sent, S)
    BY FewerWithout
<1>6. /\ Without(sent, Connects) /\ Without(sent, Errors)
      /\ Without(sent, Inputs({"AttemptRegister"}))
      /\ Without(sent, Inputs({"DisconnectionComplete"}))
    BY <1>4, <1>5
<1>7. \A S, T : Without(sent, S) => NoneAfter(sent, S, T)
    BY DEF Without, NoneAfter
<1>8. \A S : sent = <<>> => Without(sent, S)
    BY EmptyQueue
<1>9. OneTask'
    <2>1. ~Gone => Without(sent, Inputs({"Reset"}))
        BY <1>4, <1>5, <1>8
    <2>2. ~Spent => mgr_pc' \notin RestPc
        BY <1>1 DEF AttemptInv, OneTask, RestPc
    <2> QED
        BY <1>1, <1>2, <1>3, <1>6, <1>7, <2>1, <2>2 DEF AttemptInv, OneTask
<1>10. EndsAreLast'
    BY <1>1 DEF AttemptInv, EndsAreLast, RestPc
<1>11. CASE mgr_pc = "select"
    <2>1. /\ Without(sent, Input \ Inputs(IdleInput))
          /\ Without(sent, Input \ Inputs(EarlyInput))
          /\ Without(sent, Input \ Inputs(EarlyInput \cup {"Error"}))
        BY <1>4, <1>5, <1>11
    <2>2. Asking'
        <3> DEFINE elsewhere == {input \in Connects : input.url # mgr.ws_url}
        <3>1. Without(sent, elsewhere)
            BY <1>5, <1>6
        <3> QED
            BY <1>1, <1>3, <1>6, <1>7, <1>11, <2>1, <3>1 DEF AttemptInv, Asking
    <2>3. Starting'
        BY <1>1, <1>3, <1>11, <2>1 DEF AttemptInv, Starting
    <2>4. Waiting'
        BY <1>1, <1>2, <1>3, <1>11, <2>1 DEF AttemptInv, Waiting, Unanswered
    <2>5. Refused'
        BY <1>1, <1>2, <1>3, <1>6, <1>7, <1>11, <2>1 DEF AttemptInv, Refused, Spent
    <2>6. Unheard'
        BY <1>1, <1>2 DEF AttemptInv, Unheard, ToRegister
    <2> QED
        BY <1>2, <1>9, <1>10, <2>2, <2>3, <2>4, <2>5, <2>6
           DEF PairInv, AttemptInv, PersistedPairMatches
<1>12. CASE mgr_pc # "select"
    <2>1. Asking' /\ Starting' /\ Waiting' /\ Refused'
        BY <1>1, <1>2, <1>3, <1>6, <1>12
           DEF AttemptInv, Asking, Starting, Waiting, Refused
    <2>2. Unheard'
        BY <1>1, <1>2 DEF AttemptInv, Unheard, ToRegister
    <2> QED
        BY <1>2, <1>9, <1>10, <2>1, <2>2 DEF PairInv, AttemptInv, PersistedPairMatches
<1> QED
    BY <1>11, <1>12

\* A Connect, where nothing is left of the attempt before it.
LEMMA AskPair ==
    ASSUME TypeInv, PairInv, mgr_pc \notin StopPc, mgr_pc' = "select",
           UNCHANGED <<ws, cur_ws, fsm_state, from_fsm, disk>>, NeverWaits(mgr'),
           Spent, fsm_state.tag = "Disconnected",
           Without(to_fsm, Connects), Without(from_fsm, Outputs(OutputTag)),
           to_fsm' = Append(to_fsm, ConnectInput(mgr'.ws_url)), mgr'.ws_url \in Url
    PROVE  PairInv'
<1>1. AttemptInv
    BY DEF PairInv
<1> DEFINE sent == ConnectInput(mgr'.ws_url)
<1>2. /\ sent \in Input /\ sent.tag = "Connect" /\ sent.url = mgr'.ws_url
      /\ to_fsm \in Seq(Input)
    BY DEF ConnectInput, Input, TypeInv, CoreOK
<1>3. sent \in Connects /\ sent \notin Errors
    BY <1>2, TaggedInputs
<1> HIDE DEF sent
<1>4. Adds(to_fsm, sent, to_fsm')
    BY <1>2, AppendAdds DEF sent
<1>5. \A S, T : /\ Without(to_fsm', S) <=> Without(to_fsm, S) /\ sent \notin S
                /\ NoneAfter(to_fsm', S, T) <=>
                       NoneAfter(to_fsm, S, T) /\ (Without(to_fsm, S) \/ sent \notin T)
    BY <1>4 DEF Adds
<1>6. /\ Task' = Task /\ Spent' /\ Gone' /\ TaskInOrder'
      /\ ~Unanswered'
    <2>1. Verdicts \subseteq WsUpdateMessage \ {"Disconnected"}
        BY DEF Verdicts, Refusals, WsUpdateMessage, TvPayload
    <2>2. Spent => Gone /\ ~Unanswered
        BY <2>1, FewerWithout DEF Spent, Gone, Unanswered, IsSpent, IsUnanswered, IsOver
    <2> QED
        BY <1>1, <2>2 DEF AttemptInv, Task, Spent, Gone, Unanswered, TaskInOrder
<1>7. OneTask'
    BY <1>6 DEF OneTask
<1>8. EndsAreLast'
    BY <1>1 DEF AttemptInv, EndsAreLast, RestPc
<1>9. Asking'
    <2> DEFINE elsewhere == {input \in Connects : input.url # mgr'.ws_url}
    <2>1. sent \notin elsewhere /\ Without(to_fsm, elsewhere)
        BY <1>2, FewerWithout
    <2>2. NoneAfter(to_fsm, Connects, Input \ Inputs(IdleInput))
        BY DEF Without, NoneAfter
    <2>3. Without(to_fsm', elsewhere)
        BY <1>5, <2>1
    <2>4. NoneAfter(to_fsm', Connects, Input \ Inputs(IdleInput))
        BY <1>5, <2>2
    <2> QED
        BY <2>3, <2>4 DEF Asking
<1>10. Without(from_fsm, Starts) /\ Without(from_fsm, Outputs({"SendRegisterPayload"}))
    BY FewerOutputs, FewerWithout
<1>11. Starting' /\ Waiting' /\ Refused' /\ Unheard'
    BY <1>6, <1>10 DEF Starting, Waiting, Refused, Unheard, ToRegister
<1> QED
    BY <1>6, <1>7, <1>8, <1>9, <1>11 DEF PairInv, AttemptInv, PersistedPairMatches

\* A step that sends nothing, of the caller or of a handler that goes on.
LEMMA KeptPair ==
    ASSUME TypeInv, PairInv, mgr_pc \notin StopPc, mgr_pc' \notin StopPc,
           TaskKept, UNCHANGED <<fsm_state, to_fsm, from_fsm, disk>>, NeverWaits(mgr'),
           \/ mgr_pc = "select" /\ mgr_pc' = "select" /\ mgr'.ws_url = mgr.ws_url
           \/ mgr_pc # "select" /\ (mgr_pc' \in RestPc => mgr_pc \in RestPc)
    PROVE  PairInv'
<1>1. <<>> \in Seq(Input) /\ to_fsm' = to_fsm \o <<>>
    BY DEF TypeInv, CoreOK
<1> DEFINE none == <<>>
<1>2. none \in Seq(Input) /\ to_fsm' = to_fsm \o none /\ \A S : Without(none, S)
    BY <1>1, EmptyQueue
<1>3. none = <<>>
    OBVIOUS
<1> HIDE DEF none
<1> QED
    BY <1>2, <1>3, SendPair

LEMMA ConnectPair ==
    ASSUME TypeInv, PairInv, fsm_alive, mgr_pc \in {"select", "sleeping"},
           NEW s \in ManagerState, NeverWaits(s), s.ws_url = mgr.ws_url,
           NEW c \in Connection, Commit(InitiateConnectToTv(s, c)),
           UNCHANGED <<ws, cur_ws, fsm_state, from_fsm, disk>>,
           IsDisconnected(s) =>
               /\ Spent /\ fsm_state.tag = "Disconnected"
               /\ Without(to_fsm, Connects) /\ Without(from_fsm, Outputs(OutputTag))
    PROVE  PairInv'
<1> DEFINE r == InitiateConnectToTv(s, c)
<1>1. /\ NeverWaits(r.mgr) /\ r.pc = "select"
      /\ r.sent = <<>> => r.mgr.ws_url = s.ws_url
      /\ \/ r.sent = <<>>
         \/ /\ r.sent = <<ConnectInput(c.url)>> /\ c.url \in Url
            /\ r.mgr.ws_url = c.url /\ IsDisconnected(s)
    BY ConnectSendsUrl
<1>2. Commit(r)
    OBVIOUS
<1> HIDE DEF r
<1>3. mgr' = r.mgr /\ to_fsm' = to_fsm \o r.sent /\ mgr_pc' = "select"
    BY <1>1, <1>2 DEF Commit
<1>4. to_fsm \in Seq(Input) /\ mgr_pc \notin StopPc /\ mgr_pc' \notin StopPc
    BY <1>3 DEF TypeInv, CoreOK, StopPc
<1>5. CASE r.sent = <<>>
    <2>1. UNCHANGED to_fsm /\ TaskKept
        BY <1>3, <1>4, <1>5, UnchangedTask DEF ws_vars
    <2>2. NeverWaits(mgr') /\ mgr'.ws_url = mgr.ws_url
        BY <1>1, <1>3, <1>5
    <2> QED
        BY <1>3, <1>4, <2>1, <2>2, KeptPair DEF RestPc
<1>6. CASE r.sent # <<>>
    <2>1. r.sent = <<ConnectInput(c.url)>> /\ c.url \in Url /\ mgr'.ws_url = c.url
        BY <1>1, <1>3, <1>6
    <2> DEFINE input == ConnectInput(c.url)
    <2>2. to_fsm \o <<input>> = Append(to_fsm, input)
        BY <1>4
    <2>3. to_fsm' = Append(to_fsm, ConnectInput(mgr'.ws_url))
        BY <1>3, <2>1, <2>2
    <2>4. IsDisconnected(s) /\ NeverWaits(mgr')
        BY <1>1, <1>3, <1>6
    <2> QED
        BY <1>3, <1>4, <2>1, <2>3, <2>4, AskPair
<1> QED
    BY <1>5, <1>6

LEMMA CallerPair ==
    ASSUME Patient, "TestConnection" \notin CallerMessage,
           TypeInv, StatusInv, RestInv, OneAttempt, PairInv, FromCaller
    PROVE  PairInv'
<1>1. /\ UNCHANGED <<fsm_state, from_fsm, disk>> /\ mgr_pc = "select"
    BY DEF FromCaller, CancelReconnect, Connect, ConnectLastGoodConnection, Disconnect,
           SendTvCommand, TestConnection, ShutDown, Called, AtSelect
<1>2. /\ mgr \in ManagerState /\ to_fsm \in Seq(Input) /\ KeepsUrl(mgr) /\ fsm_alive
      /\ mgr_pc \notin StopPc /\ AttemptInv
    BY <1>1 DEF TypeInv, CoreOK, PairInv, KeepsUrl, RestInv, IsStopping, StopPc
<1>3. ASSUME NEW s \in ManagerState, KeepsUrl(s), Commit(Done(s)), UNCHANGED ws_vars
      PROVE  PairInv'
    <2>1. NeverWaits(mgr') /\ mgr'.ws_url = mgr.ws_url
        BY <1>3, HandlerKeepsUrl DEF KeepsUrl
    <2>2. Done(s).sent = <<>> /\ Done(s).pc = "select"
        BY DEF Done, Result
    <2>3. UNCHANGED to_fsm /\ mgr_pc' = "select"
        BY <1>2, <1>3, <2>2 DEF Commit
    <2> QED
        BY <1>1, <1>2, <1>3, <2>1, <2>3, UnchangedTask, KeptPair DEF StopPc
<1>4. ASSUME NEW s \in ManagerState, KeepsUrl(s), NEW tag \in {"Disconnect", "SendCommand"},
             Commit(DoneSending(s, tag)), UNCHANGED ws_vars
      PROVE  PairInv'
    <2> DEFINE sent == <<InputOf(tag)>>
    <2>1. NeverWaits(mgr') /\ mgr'.ws_url = mgr.ws_url
        BY <1>4, HandlerKeepsUrl DEF KeepsUrl
    <2>2. DoneSending(s, tag).sent = sent /\ DoneSending(s, tag).pc = "select"
        BY DEF DoneSending, Result
    <2>3. InputOf(tag) \in Inputs({"Disconnect", "SendCommand"})
        <3>1. InputOf(tag) \in Input /\ InputOf(tag).tag = tag
            BY InputOfType, InputTags DEF InputOf
        <3> QED
            BY <3>1 DEF Inputs
    <2>4. sent \in Seq(Input) /\ Without(sent, Input \ Inputs({"Disconnect", "SendCommand"}))
        BY <2>3 DEF Without, Inputs
    <2> HIDE DEF sent
    <2>5. to_fsm' = to_fsm \o sent /\ mgr_pc' = "select"
        BY <1>2, <1>4, <2>2 DEF Commit
    <2>6. TaskKept
        BY <1>4, UnchangedTask
    <2> QED
        BY <1>1, <1>2, <2>1, <2>4, <2>5, <2>6, SendPair DEF StopPc
<1>5. ASSUME Quiet, NEW c \in Connection, Commit(InitiateConnectToTv(mgr, c)), UNCHANGED ws_vars
      PROVE  PairInv'
    <2>1. to_fsm = <<>> /\ from_fsm = <<>> /\ (cur_ws # None => Task.from_ws = <<>>)
        BY <1>5 DEF Quiet, Task
    <2>2. Without(to_fsm, Connects) /\ Without(from_fsm, Outputs(OutputTag))
        BY <2>1, EmptyQueue
    <2>3. ASSUME IsDisconnected(mgr)
          PROVE  Spent /\ fsm_state.tag = "Disconnected"
        <3>1. mgr.manager_status # Zombie
            BY <2>3 DEF IsDisconnected, Zombie
        <3>2. mgr.manager_status = fsm_state
            BY <2>1, <3>1 DEF StatusInv, HasNoState
        <3>3. fsm_state.tag = "Disconnected"
            BY <2>3, <3>2 DEF IsDisconnected
        <3>4. Gone
            BY <1>2, <3>3 DEF AttemptInv, OneTask
        <3> QED
            BY <2>1, <3>3, <3>4, EmptyQueue DEF Spent, IsSpent, Gone
    <2> QED
        BY <1>1, <1>2, <1>5, <2>2, <2>3, ConnectPair DEF ws_vars, KeepsUrl
<1>6. CASE CancelReconnect
    <2> DEFINE cancelled == SetReconnectFlowStatus(mgr, "Cancelled")
    <2>1. cancelled \in ManagerState /\ KeepsUrl(cancelled)
        BY <1>2, SetFlowType, FlowTypes, FlowNeverWaits DEF KeepsUrl
    <2>2. (Commit(Done(cancelled)) \/ Commit(Done(mgr))) /\ UNCHANGED ws_vars
        BY <1>2, <1>6 DEF CancelReconnect, KeepsUrl, NeverWaits
    <2> HIDE DEF cancelled
    <2> QED
        BY <1>2, <1>3, <2>1, <2>2
<1>7. CASE Connect
    BY <1>5, <1>7 DEF Connect
<1>8. CASE ConnectLastGoodConnection
    <2>1. CASE mgr.last_good_connection = None
        BY <1>2, <1>3, <1>8, <2>1 DEF ConnectLastGoodConnection
    <2>2. CASE mgr.last_good_connection # None
        <3>1. mgr.last_good_connection \in Connection
            BY <1>2, <2>2 DEF ManagerState, ConnectionOption
        <3> QED
            BY <1>5, <1>8, <2>2, <3>1 DEF ConnectLastGoodConnection
    <2> QED
        BY <2>1, <2>2
<1>9. CASE Disconnect
    <2> DEFINE s == [mgr EXCEPT !.is_manual_disconnect_requested = TRUE]
    <2>1. s \in ManagerState /\ KeepsUrl(s)
        BY <1>2, FieldTypes, FieldsKeepUrl
    <2>2. Commit(DoneSending(s, "Disconnect")) /\ UNCHANGED ws_vars
        BY <1>9 DEF Disconnect
    <2> HIDE DEF s
    <2> QED
        BY <1>4, <2>1, <2>2
<1>10. CASE SendTvCommand
    BY <1>2, <1>4, <1>10 DEF SendTvCommand
<1>11. ~TestConnection
    BY DEF TestConnection, Called
<1>12. CASE ShutDown
    <2>1. Commit(Result(mgr, <<>>, "stopping"))
        BY <1>12 DEF ShutDown
    <2>2. NeverWaits(mgr')
        BY <1>2, <2>1, HandlerKeepsUrl DEF KeepsUrl
    <2>3. mgr_pc' = "stopping"
        BY <2>1 DEF Commit, Result
    <2> QED
        BY <1>1, <2>2, <2>3 DEF PairInv, StopPc, PersistedPairMatches
<1> QED
    BY <1>6, <1>7, <1>8, <1>9, <1>10, <1>11, <1>12 DEF FromCaller

\* A retry does not wait for the TV to come back.
LEMMA RetryNeverWaits ==
    ASSUME ~IsOperational, NEW s \in ManagerState, NeverWaits(s)
    PROVE  /\ NeverWaits(InitiateReconnect(s, FALSE).mgr)
           /\ NeverWaits(AfterConnectError(s).mgr)
           /\ InitiateReconnect(s, FALSE).pc \in {"select", "force_reset", "sleeping"}
           /\ AfterConnectError(s).pc \in {"select", "force_reset", "sleeping"}
<1> DEFINE active == SetReconnectFlowStatus(s, "Active")
           given_up == SetReconnectFlowStatus(active, "Inactive")
           inactive == SetReconnectFlowStatus(s, "Inactive")
<1>1. active \in ManagerState /\ NeverWaits(active) /\ NeverWaits(inactive)
    BY SetFlowType, FlowTypes, FlowNeverWaits
<1>2. NeverWaits(given_up)
    <2> HIDE DEF active
    <2> QED
        BY <1>1, FlowNeverWaits
<1> DEFINE again == InitiateReconnect(s, FALSE)
<1>3. \A a : Done(a).mgr = a
    BY DEF Done, Result
<1>4. NeverWaits(again.mgr)
    <2>1. \/ again.mgr = given_up \/ again.mgr = active \/ again.mgr = s
        BY DEF InitiateReconnect, Result, Done
    <2> HIDE DEF active, given_up, again
    <2> QED
        BY <1>1, <1>2, <2>1
<1>5. InitiateReconnect(s, FALSE).pc \in {"select", "force_reset", "sleeping"}
    BY RetryPc
<1>6. \/ AfterConnectError(s) = Done(s) \/ AfterConnectError(s) = Done(inactive)
      \/ AfterConnectError(s) = again
    <2> DEFINE quiet == Done(s)
               cancelled == Done(inactive)
    <2>1. AfterConnectError(s) =
              CASE ~ShouldRetryConnectFailure(s) -> quiet
                [] s.reconnect_flow_status = "Active" -> again
                [] s.reconnect_flow_status = "Cancelled" -> cancelled
                [] OTHER -> quiet
        BY DEF AfterConnectError
    <2> HIDE DEF quiet, cancelled, again
    <2>2. AfterConnectError(s) \in {quiet, again, cancelled}
        BY <2>1
    <2> QED
        BY <2>2 DEF quiet, cancelled
<1>7. \A a : Done(a).pc = "select"
    BY ResultPcs
<1> HIDE DEF active, given_up, inactive, again
<1>8. AfterConnectError(s).mgr \in {s, inactive, again.mgr}
      /\ AfterConnectError(s).pc \in {"select", again.pc}
    BY <1>3, <1>6, <1>7
<1> QED
    BY <1>1, <1>4, <1>5, <1>8 DEF again

\* A handler has reset the manager, whose task is gone by then.
LEMMA FinishedResetPair ==
    ASSUME TypeInv, RestInv, NoForgottenTask, PairInv,
           NEW resume \in {"reset", "reset_connect_error", "reset_initialize"}, NEW r,
           FinishedReset(resume, r), NeverWaits(r.mgr),
           r.sent \in Seq(Input), Without(r.sent, Input \ Inputs({"Reset"})),
           r.pc \notin StopPc, r.pc \in RestPc => resume \in RestPc
    PROVE  PairInv'
<1> DEFINE longer == [r EXCEPT !.sent = ResetInput \o r.sent]
           sent == ResetInput \o r.sent
<1>1. /\ Commit(longer) /\ mgr_pc = resume
      /\ UNCHANGED <<fsm_state, from_fsm, disk>> /\ UNCHANGED ws_vars
    BY DEF FinishedReset, Resumed
<1>2. fsm_alive /\ mgr_pc \notin StopPc /\ mgr_pc # "select"
    BY <1>1 DEF RestInv, IsStopping, StopPc
<1>3. InputOf("Reset") \in Inputs({"Reset"})
    <2>1. InputOf("Reset") \in Input /\ InputOf("Reset").tag = "Reset"
        BY InputOfType, InputTags DEF InputOf
    <2> QED
        BY <2>1 DEF Inputs
<1>4. ResetInput \in Seq(Input) /\ Without(ResetInput, Input \ Inputs({"Reset"}))
    BY <1>3 DEF ResetInput, Without, Inputs
<1>5. sent \in Seq(Input) /\ Without(sent, Input \ Inputs({"Reset"}))
    BY <1>4, SendMessages
<1>6. mgr_pc' = r.pc /\ (mgr' = r.mgr) /\ (to_fsm' = to_fsm \o sent \/ to_fsm' = to_fsm \o r.sent)
    BY <1>1, <1>2 DEF Commit
<1>7. Gone
    BY DEF FinishedReset, Joined, NoForgottenTask, Gone, IsOver, Task
<1> HIDE DEF sent, longer
<1>8. TaskKept
    BY <1>1, UnchangedTask
<1>9. CASE to_fsm' = to_fsm \o sent
    BY <1>1, <1>2, <1>5, <1>6, <1>7, <1>8, <1>9, SendPair
<1>10. CASE to_fsm' = to_fsm \o r.sent
    BY <1>1, <1>2, <1>6, <1>7, <1>8, <1>10, SendPair
<1> QED
    BY <1>6, <1>9, <1>10

LEMMA ContinuePair ==
    ASSUME ~IsOperational, TypeInv, RestInv, NoForgottenTask, OneAttempt, PairInv, Continue
    PROVE  PairInv'
<1>1. UNCHANGED <<fsm_state, from_fsm, disk>>
    BY DEF Continue, FinishReset, FinishConnectError, FinishInitialize, FinishShutDown,
           FinishedReset, ResetInsteadOfReconnect, FinishDisconnect, RetryIntervalTick,
           TasksStopped, Resumed
<1> DEFINE s == InitializeManagerState(mgr)
<1>2. s \in ManagerState /\ NeverWaits(s) /\ mgr \in ManagerState /\ NeverWaits(mgr)
    BY InitializeType, InitializeNeverWaits DEF TypeInv, CoreOK, RestOK, PairInv
<1> HIDE DEF s
<1>3. <<>> \in Seq(Input) /\ \A S : Without(<<>>, S)
    BY EmptyQueue
<1>4. CASE FinishReset
    <2>1. FinishedReset("reset", Done(s))
        BY <1>4 DEF FinishReset, s
    <2>2. Done(s).mgr = s /\ Done(s).sent = <<>> /\ Done(s).pc = "select"
        BY DEF Done, Result
    <2>3. "select" \notin StopPc /\ "select" \notin RestPc
        BY DEF StopPc, RestPc
    <2> QED
        BY <1>2, <1>3, <2>1, <2>2, <2>3, FinishedResetPair
<1>5. CASE FinishConnectError
    <2> DEFINE r == AfterConnectError(s)
    <2>1. FinishedReset("reset_connect_error", r)
        BY <1>5 DEF FinishConnectError, s
    <2>2. NeverWaits(r.mgr) /\ r.sent = <<>> /\ r.pc \in {"select", "force_reset", "sleeping"}
        BY <1>2, RetryNeverWaits, RetrySends
    <2> HIDE DEF r
    <2>3. r.pc \notin StopPc /\ "reset_connect_error" \in RestPc
        BY <2>2 DEF StopPc, RestPc
    <2> QED
        BY <1>3, <2>1, <2>2, <2>3, FinishedResetPair
<1>6. CASE FinishInitialize
    <2> DEFINE resets == [k \in 1 .. 5 |-> InputOf("Reset")]
               r == Result(Remembered(s), resets, "select")
    <2>1. FinishedReset("reset_initialize", r)
        BY <1>6 DEF FinishInitialize, s
    <2>2. r.mgr = Remembered(s) /\ r.sent = resets /\ r.pc = "select"
        BY DEF Result
    <2>3. InputOf("Reset") \in Input /\ InputOf("Reset").tag = "Reset"
        BY InputOfType, InputTags DEF InputOf
    <2>4. resets \in Seq(Input) /\ Without(resets, Input \ Inputs({"Reset"}))
        BY <2>3 DEF Without, Inputs
    <2>5. NeverWaits(Remembered(s))
        BY <1>2 DEF Remembered, ManagerState, NeverWaits
    <2> HIDE DEF resets, r
    <2>6. "select" \notin StopPc /\ "select" \notin RestPc
        BY DEF StopPc, RestPc
    <2> QED
        BY <2>1, <2>2, <2>4, <2>5, <2>6, FinishedResetPair
<1>7. ASSUME NEW t \in ManagerState, NeverWaits(t), NEW pc \in StopPc,
             \/ Commit(Result(t, <<>>, pc)) \/ ForceManagerReset(t, pc)
             \/ FinishedReset("reset_shut_down", Result(t, <<>>, pc))
      PROVE  PairInv'
    <2> DEFINE r == Result(t, <<>>, pc)
               longer == [r EXCEPT !.sent = ResetInput \o r.sent]
    <2>1. Commit(r) \/ Commit(longer)
        BY <1>7 DEF ForceManagerReset, FinishedReset
    <2>2. r.mgr = t /\ r.pc = pc /\ longer.mgr = t /\ longer.pc = pc
        BY DEF Result
    <2> HIDE DEF r, longer
    <2>3. mgr_pc' = pc /\ (mgr' = t \/ mgr' = [t EXCEPT !.manager_status = Zombie])
        BY <2>1, <2>2 DEF Commit
    <2>4. NeverWaits(mgr')
        BY <1>7, <2>3 DEF NeverWaits, ManagerState
    <2> QED
        BY <1>1, <1>7, <2>3, <2>4 DEF PairInv, PersistedPairMatches
<1>8. CASE FinishShutDown
    <2>1. FinishedReset("reset_shut_down", Result(s, <<>>, "stopped"))
        BY <1>8 DEF FinishShutDown, s
    <2>2. "stopped" \in StopPc
        BY DEF StopPc
    <2> QED
        BY <1>2, <1>7, <2>1, <2>2
<1>9. CASE ResetInsteadOfReconnect
    <2>1. ForceManagerReset(mgr, "reset") /\ mgr_pc = "force_reset"
        BY <1>9 DEF ResetInsteadOfReconnect
    <2>2. TaskKept
        BY <2>1, ForceResetKeepsTask DEF TypeInv
    <2> DEFINE r == Result(mgr, <<>>, "reset")
    <2>3. Commit(r) /\ r.mgr = mgr /\ r.sent = <<>> /\ r.pc = "reset"
        BY <2>1 DEF ForceManagerReset, Result
    <2> HIDE DEF r
    <2>4. mgr_pc' = "reset" /\ mgr' = mgr /\ (to_fsm' = to_fsm \o r.sent \/ to_fsm' = to_fsm)
        BY <2>3 DEF Commit
    <2>5. UNCHANGED to_fsm
        BY <2>3, <2>4 DEF TypeInv, CoreOK
    <2> QED
        BY <1>1, <1>2, <2>1, <2>2, <2>4, <2>5, KeptPair DEF StopPc, RestPc
<1>10. CASE FinishDisconnect
    <2> DEFINE inactive == SetReconnectFlowStatus(s, "Inactive")
               unpaired == [inactive EXCEPT !.is_pairing = FALSE]
               again == InitiateReconnect(s, FALSE)
    <2>1. /\ Commit(Done(s)) \/ Commit(Done(unpaired)) \/ Commit(again)
          /\ mgr_pc = "disconnected" /\ UNCHANGED ws_vars
        BY <1>10 DEF FinishDisconnect, Resumed, s
    <2>2. NeverWaits(unpaired)
        <3>1. inactive \in ManagerState /\ NeverWaits(inactive)
            BY <1>2, SetFlowType, FlowTypes, FlowNeverWaits
        <3> HIDE DEF inactive
        <3> QED
            BY <3>1 DEF ManagerState, NeverWaits
    <2>3. /\ NeverWaits(again.mgr) /\ again.sent = <<>>
          /\ again.pc \in {"select", "force_reset", "sleeping"}
        BY <1>2, RetryNeverWaits, RetrySends
    <2> HIDE DEF inactive, unpaired, again
    <2>4. \A t : Done(t).mgr = t /\ Done(t).sent = <<>> /\ Done(t).pc = "select"
        BY DEF Done, Result
    <2>5. PICK r : /\ Commit(r) /\ NeverWaits(r.mgr) /\ r.sent = <<>>
                   /\ r.pc \in {"select", "force_reset", "sleeping"}
        BY <1>2, <2>1, <2>2, <2>3, <2>4
    <2>6. mgr' = r.mgr /\ mgr_pc' = r.pc /\ (to_fsm' = to_fsm \o r.sent \/ to_fsm' = to_fsm)
        BY <2>5 DEF Commit
    <2>7. UNCHANGED to_fsm /\ NeverWaits(mgr') /\ mgr_pc' \notin StopPc
        BY <2>5, <2>6 DEF TypeInv, CoreOK, StopPc
    <2>8. mgr_pc \notin StopPc /\ mgr_pc # "select" /\ mgr_pc \in RestPc
        BY <2>1 DEF StopPc, RestPc
    <2> QED
        BY <1>1, <2>1, <2>7, <2>8, UnchangedTask, KeptPair
<1>11. CASE RetryIntervalTick
    <2> DEFINE attempts == IF mgr.reconnect_attempts < MaxAttempts
                           THEN mgr.reconnect_attempts + 1 ELSE mgr.reconnect_attempts
               counted == [mgr EXCEPT !.reconnect_attempts = attempts]
               c == mgr.connection_details
    <2>1. /\ Commit(InitiateConnectToTv(counted, c)) /\ mgr_pc = "sleeping"
          /\ UNCHANGED <<ws, cur_ws>>
        BY <1>11 DEF RetryIntervalTick, Reconnect, Resumed, ws_vars
    <2>2. c \in Connection
        BY <1>2, <2>1 DEF TypeInv, CoreOK, SleepingHasConnection, ManagerState, ConnectionOption
    <2>3. attempts \in 0 .. MaxAttempts
        BY <1>2, ManagerAssumption DEF ManagerState
    <2> HIDE DEF attempts
    <2>4. counted \in ManagerState /\ NeverWaits(counted) /\ counted.ws_url = mgr.ws_url
        BY <1>2, <2>3 DEF ManagerState, NeverWaits
    <2> HIDE DEF counted, c
    <2>5. mgr_pc \in RestPc /\ fsm_alive /\ mgr_pc \notin StopPc
        BY <2>1 DEF RestPc, StopPc, RestInv, IsStopping
    <2>6. AttemptInv
        BY <2>5 DEF PairInv
    <2>7. Spent /\ Without(from_fsm, Outputs(OutputTag))
        BY <2>5, <2>6 DEF AttemptInv, OneTask, EndsAreLast
    <2>8. fsm_state.tag = "Disconnected" /\ Without(to_fsm, Connects)
        BY <2>5 DEF OneAttempt, HasConnect, IsActive
    <2> QED
        BY <1>1, <2>1, <2>2, <2>4, <2>5, <2>7, <2>8, ConnectPair
<1>12. CASE TasksStopped
    <2>1. Commit(Result(mgr, <<>>, "stopped")) \/ ForceManagerReset(mgr, "reset_shut_down")
        BY <1>12 DEF TasksStopped
    <2>2. "stopped" \in StopPc /\ "reset_shut_down" \in StopPc
        BY DEF StopPc
    <2> QED
        BY <1>2, <1>7, <2>1, <2>2
<1> QED
    BY <1>4, <1>5, <1>6, <1>8, <1>9, <1>10, <1>11, <1>12 DEF Continue

-----------------------------------------------------------------------------
(* All steps together.                                                     *)

\* A step that is about something else.
LEMMA UnchangedPair ==
    ASSUME PairInv, UNCHANGED <<fsm_state, to_fsm, from_fsm, ws, cur_ws, mgr, mgr_pc, disk>>
    PROVE  PairInv'
<1>1. Task' = Task
    BY DEF Task
<1>2. (Gone' <=> Gone) /\ (Spent' <=> Spent) /\ (Unanswered' <=> Unanswered)
    BY <1>1 DEF Gone, Spent, Unanswered
<1>3. mgr_pc \notin StopPc => AttemptInv
    BY DEF PairInv
<1>4. TaskInOrder => TaskInOrder'
    BY <1>1 DEF TaskInOrder
<1>5. OneTask => OneTask'
    BY <1>2 DEF OneTask
<1>6. EndsAreLast /\ Asking /\ Starting => EndsAreLast' /\ Asking' /\ Starting'
    BY DEF EndsAreLast, Asking, Starting
<1>7. Waiting => Waiting'
    BY <1>1, <1>2 DEF Waiting
<1>8. Refused => Refused'
    BY <1>1, <1>2 DEF Refused
<1>9. Unheard => Unheard'
    BY <1>1 DEF Unheard, ToRegister
<1>10. AttemptInv => AttemptInv'
    BY <1>4, <1>5, <1>6, <1>7, <1>8, <1>9 DEF AttemptInv
<1> QED
    BY <1>10 DEF PairInv, PersistedPairMatches

LEMMA NextKeepsPair ==
    ASSUME Patient, ~IsOperational, "TestConnection" \notin CallerMessage,
           "SendFailed" \notin Faults,
           TypeInv, StatusInv, RestInv, NoForgottenTask, RegisterInv, NeverChecked,
           OneAttempt, PairInv, [Next]_vars
    PROVE  PairInv'
<1>1. CASE FromCaller
    BY <1>1, CallerPair
<1>2. CASE FromStateMachine
    BY <1>2, StateMachinePair
<1>3. CASE FromWebSocket
    BY <1>3, WebSocketPair
<1>4. ~TvNetworkChecked
    BY DEF TvNetworkChecked, NeverChecked
<1>5. CASE Continue
    BY <1>5, ContinuePair
<1>6. CASE FsmStep
    BY <1>6, FsmPair
<1>7. CASE \E i \in Socket : WsTask(i) \/ WsNetwork(i)
    BY <1>7, WebSocketTaskPair
<1>8. CASE NetStep \/ UNCHANGED vars
    BY <1>8, UnchangedPair DEF NetStep, vars, fsm_vars, ws_vars, mgr_vars
<1> QED
    BY <1>1, <1>2, <1>3, <1>4, <1>5, <1>6, <1>7, <1>8 DEF Next, ManagerStep

LEMMA InitPair == Init => PairInv
<1> SUFFICES ASSUME Init PROVE PairInv
    OBVIOUS
<1>1. /\ to_fsm = <<>> /\ from_fsm = <<>> /\ fsm_state.tag = "Disconnected"
      /\ cur_ws = None /\ mgr_pc = "select"
    BY DEF Init, FsmInit, WsInit, ManagerInit, Disconnected
<1>2. PersistedPairMatches
    BY DEF Init, ManagerInit, PersistedPairMatches
<1>3. NeverWaits(mgr)
    BY DEF Init, ManagerInit, ImportPersistedState, NeverWaits
<1>4. /\ \A S : Without(to_fsm, S) /\ Without(from_fsm, S)
      /\ \A S, T : NoneAfter(to_fsm, S, T) /\ NoneAfter(from_fsm, S, T)
    BY <1>1, EmptyQueue
<1>5. TaskInOrder /\ OneTask /\ Waiting /\ Refused
    BY <1>1 DEF TaskInOrder, OneTask, Gone, Spent, Waiting, Unanswered, Refused
<1>6. EndsAreLast /\ Asking /\ Starting /\ Unheard
    BY <1>1, <1>4 DEF EndsAreLast, Asking, Starting, Unheard
<1> QED
    BY <1>2, <1>3, <1>5, <1>6 DEF PairInv, AttemptInv

\* The state file never pairs the URL of one TV with the key of another,
\* whatever fails on the way to a registration, the writing of the file
\* included: handle_registered writes its own ws_url next to the key that the
\* task has reported, and the two are of one attempt.  The caller must connect
\* only when nothing is under way (a Connect that overtakes a registration
\* changes ws_url under it) and test no connection, and
\* no send of a task may fail without the other end noticing.
THEOREM StoredPairsMatch ==
    ASSUME Patient, ~IsOperational, "TestConnection" \notin CallerMessage,
           "SendFailed" \notin Faults
    PROVE  Spec => []PersistedPairMatches
<1>1. Init => /\ StatusInv /\ RestInv /\ NoForgottenTask /\ RegisterInv /\ NeverChecked
              /\ OneAttempt /\ PairInv
    <2>1. Init => NoForgottenTask
        BY DEF Init, WsInit, ManagerInit, NoForgottenTask
    <2> QED
        BY <2>1, InitAttempt, InitRegister, InitPair
<1>2. TypeInv /\ StatusInv /\ RestInv /\ NoForgottenTask /\ RegisterInv /\ NeverChecked
          /\ OneAttempt /\ PairInv /\ [Next]_vars
          => (/\ StatusInv /\ RestInv /\ NoForgottenTask /\ RegisterInv /\ NeverChecked
              /\ OneAttempt /\ PairInv)'
    <2>1. TypeInv /\ StatusInv /\ [Next]_vars => StatusInv'
        BY NextKeepsStatus
    <2>2. TypeInv /\ RestInv /\ [Next]_vars => RestInv'
        BY NextKeepsRest
    <2>3. TypeInv /\ NoForgottenTask /\ [Next]_vars => NoForgottenTask'
        BY NextKeepsTasks
    <2>4. TypeInv /\ NoForgottenTask /\ RegisterInv /\ [Next]_vars => RegisterInv'
        BY NextKeepsRegister
    <2>5. TypeInv /\ StatusInv /\ RestInv /\ NeverChecked /\ OneAttempt /\ [Next]_vars
              => (NeverChecked /\ OneAttempt)'
        BY NextKeepsAttempt
    <2>6. TypeInv /\ StatusInv /\ RestInv /\ NoForgottenTask /\ RegisterInv /\ NeverChecked
              /\ OneAttempt /\ PairInv /\ [Next]_vars => PairInv'
        BY NextKeepsPair
    <2> QED
        BY <2>1, <2>2, <2>3, <2>4, <2>5, <2>6
<1>3. PairInv => PersistedPairMatches
    BY DEF PairInv
<1> QED
    BY <1>1, <1>2, <1>3, InitType, NextType, PTL DEF Spec
=============================================================================
