----------------------------- MODULE StateMachine -----------------------------
(***************************************************************************)
(* The state machine task (src/state_machine.rs): it reads Inputs from one *)
(* channel and reports each new State, then the Output of the transition,  *)
(* over another.  An Input that has no transition in the current state     *)
(* leaves the state alone and is reported as a TransitionError.            *)
(***************************************************************************)
EXTENDS LgTvTypes

VARIABLES
    fsm_state,      \* the state of the StateMachine<LgTvStateMachine>
    to_fsm,         \* channel of Inputs, manager to machine
    from_fsm,       \* channel of StateMachineUpdateMessages, machine to manager
    fsm_alive,      \* the task is running
    fsm_cancelled   \* the cancellation token has been cancelled

fsm_vars == <<fsm_state, to_fsm, from_fsm, fsm_alive, fsm_cancelled>>

StateTag == {"Disconnected", "Connecting", "Connected", "Pairing",
             "Initializing", "Communicating", "Disconnecting"}

InputTag == {"Connect", "AttemptRegister", "Pair", "Initialize",
             "StartCommunication", "SendCommand", "Reset", "Error",
             "Disconnect", "DisconnectionComplete"}

NoOutput == "none"

OutputTag == {"ConnectToTv", "SendRegisterPayload", "PairWithTv",
              "InitializeConnection", "SendCommand", "DisconnectFromTv",
              "HandleConnectError", "HandleDisconnectError",
              "HandleSuccessfulDisconnect"}

\* Every state but Disconnected carries the URL of the connection.
State == [tag : {"Disconnected"}, url : {None}]
            \cup [tag : StateTag \ {"Disconnected"}, url : Url]

Input == [tag : {"Connect"}, url : Url]
            \cup [tag : InputTag \ {"Connect"}, url : {None}]

Update == [kind : {"State"}, tag : {"Disconnected"}, url : {None}]
            \cup [kind : {"State"}, tag : StateTag \ {"Disconnected"}, url : Url]
            \cup [kind : {"Output"}, tag : OutputTag, url : UrlOption]
            \cup [kind : {"TransitionError"}, tag : InputTag, url : UrlOption]

Disconnected == [tag |-> "Disconnected", url |-> None]

\* Only Connect carries a URL; the TvCommand in SendCommand is abstracted.
InputOf(tag) == [tag |-> tag, url |-> None]

ConnectInput(u) == [tag |-> "Connect", url |-> u]

Rule(from, input, to, output) ==
    [from |-> from, input |-> input, to |-> to, output |-> output]

\* transition() and output() of LgTvStateMachine, as one table.
Rules ==
    { Rule("Disconnected",  "Connect",               "Connecting",    "ConnectToTv"),
      Rule("Connecting",    "AttemptRegister",       "Connected",     "SendRegisterPayload"),
      Rule("Connecting",    "Error",                 "Disconnected",  "HandleConnectError"),
      Rule("Connected",     "Pair",                  "Pairing",       "PairWithTv"),
      Rule("Connected",     "Initialize",            "Initializing",  "InitializeConnection"),
      Rule("Connected",     "Error",                 "Disconnecting", "DisconnectFromTv"),
      Rule("Pairing",       "Initialize",            "Initializing",  "InitializeConnection"),
      Rule("Pairing",       "Error",                 "Disconnecting", "DisconnectFromTv"),
      Rule("Initializing",  "StartCommunication",    "Communicating", NoOutput),
      Rule("Initializing",  "Error",                 "Disconnecting", "DisconnectFromTv"),
      Rule("Communicating", "SendCommand",           "Communicating", "SendCommand"),
      Rule("Communicating", "Disconnect",            "Disconnecting", "DisconnectFromTv"),
      Rule("Communicating", "Error",                 "Disconnecting", "DisconnectFromTv"),
      Rule("Disconnecting", "DisconnectionComplete", "Disconnected",  "HandleSuccessfulDisconnect"),
      Rule("Disconnecting", "Error",                 "Disconnected",  "HandleDisconnectError") }
    \cup { Rule(s, "Reset", "Disconnected", NoOutput) : s \in StateTag }

\* The state a rule leads to: Connect brings the URL, Disconnected drops it.
Target(rule, s, input) ==
    [tag |-> rule.to,
     url |-> CASE rule.to = "Disconnected" -> None
               [] rule.input = "Connect" -> input.url
               [] OTHER -> s.url]

StateUpdate(s) == [kind |-> "State", tag |-> s.tag, url |-> s.url]

OutputUpdate(output, s) == [kind |-> "Output", tag |-> output, url |-> s.url]

ErrorUpdate(input) ==
    [kind |-> "TransitionError", tag |-> input.tag, url |-> input.url]

\* Mutant of Updates: the Output goes out before the State.
OutputFirst(rule, s) ==
    IF rule.output = NoOutput
    THEN <<StateUpdate(s)>>
    ELSE <<OutputUpdate(rule.output, s), StateUpdate(s)>>

\* What the task sends for a transition to s: the State, then any Output.
Updates(rule, s) ==
    IF rule.output = NoOutput
    THEN <<StateUpdate(s)>>
    ELSE <<StateUpdate(s), OutputUpdate(rule.output, s)>>

\* Mutant of Applicable: Initializing has no transition for an Error.
ApplicableNoInitializingError(s, input) ==
    {rule \in Rules : /\ rule.from = s.tag /\ rule.input = input.tag
                      /\ ~(s.tag = "Initializing" /\ input.tag = "Error")}

Applicable(s, input) ==
    {rule \in Rules : rule.from = s.tag /\ rule.input = input.tag}

FsmInit ==
    /\ fsm_state = Disconnected
    /\ to_fsm = <<>>
    /\ from_fsm = <<>>
    /\ fsm_alive = TRUE
    /\ fsm_cancelled = FALSE

\* An Input with a transition: move, and report the State and the Output.
FsmTransition ==
    /\ fsm_alive
    /\ to_fsm # <<>>
    /\ Room(from_fsm)
    /\ \E rule \in Applicable(fsm_state, Head(to_fsm)) :
           /\ fsm_state' = Target(rule, fsm_state, Head(to_fsm))
           /\ from_fsm' = from_fsm \o Updates(rule, fsm_state')
    /\ to_fsm' = Tail(to_fsm)
    /\ UNCHANGED <<fsm_alive, fsm_cancelled>>

\* An Input without one: the machine stays where it is and says so.
FsmTransitionError ==
    /\ fsm_alive
    /\ to_fsm # <<>>
    /\ Room(from_fsm)
    /\ Applicable(fsm_state, Head(to_fsm)) = {}
    /\ from_fsm' = Append(from_fsm, ErrorUpdate(Head(to_fsm)))
    /\ to_fsm' = Tail(to_fsm)
    /\ UNCHANGED <<fsm_state, fsm_alive, fsm_cancelled>>

\* Mutant of FsmShutDown: the task waits until its updates have been read.
FsmShutDownOnceRead ==
    /\ fsm_alive
    /\ fsm_cancelled
    /\ from_fsm = <<>>
    /\ fsm_alive' = FALSE
    /\ to_fsm' = <<>>
    /\ UNCHANGED <<fsm_state, from_fsm, fsm_cancelled>>

\* The task sees the cancelled token and ends; queued Inputs are dropped.
FsmShutDown ==
    /\ fsm_alive
    /\ fsm_cancelled
    /\ fsm_alive' = FALSE
    /\ to_fsm' = <<>>
    /\ UNCHANGED <<fsm_state, from_fsm, fsm_cancelled>>

FsmNext == FsmTransition \/ FsmTransitionError \/ FsmShutDown

FsmTypeOK ==
    /\ fsm_state \in State
    /\ to_fsm \in Seq(Input)
    /\ from_fsm \in Seq(Update)
    /\ fsm_alive \in BOOLEAN
    /\ fsm_cancelled \in BOOLEAN
=============================================================================
