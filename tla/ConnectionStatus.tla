---------------------------- MODULE ConnectionStatus ----------------------------
(***************************************************************************)
(* What the manager promises its caller about ManagerStatus: the           *)
(* connection flow of the README and of the State enum.  A connection has  *)
(* one URL from Connecting to Disconnected; each status is reached by the  *)
(* one before it; a reset may bring the manager back to Disconnected at    *)
(* any time; and Connecting and Disconnecting do not last.                 *)
(***************************************************************************)
EXTENDS LgTvTypes

VARIABLES
    status,     \* the ManagerStatus last set
    url         \* the URL it carries

Init ==
    /\ status = "Disconnected"
    /\ url = None

Connect ==
    /\ status = "Disconnected"
    /\ status' = "Connecting"
    /\ url' \in Url

Move(from, to) ==
    /\ status = from
    /\ status' = to
    /\ UNCHANGED url

Advance ==
    \/ Move("Connecting", "Connected")
    \/ Move("Connected", "Pairing")
    \/ Move("Connected", "Initializing")
    \/ Move("Pairing", "Initializing")
    \/ Move("Initializing", "Communicating")

Disconnect ==
    \E from \in {"Connected", "Pairing", "Initializing", "Communicating"} :
        Move(from, "Disconnecting")

\* A connection attempt that fails, a disconnect that completes, or a reset.
BackToDisconnected ==
    /\ status # "Zombie"
    /\ status' = "Disconnected"
    /\ url' = None

\* The state machine cannot be reached any more.
EnterZombieState ==
    /\ status' = "Zombie"
    /\ url' = None

Next == Connect \/ Advance \/ Disconnect \/ BackToDisconnected \/ EnterZombieState

LeaveConnecting == status = "Connecting" /\ Next /\ status' # "Connecting"

LeaveDisconnecting == status = "Disconnecting" /\ Next /\ status' # "Disconnecting"

status_vars == <<status, url>>

Spec ==
    /\ Init
    /\ [][Next]_status_vars
    /\ WF_status_vars(LeaveConnecting)
    /\ WF_status_vars(LeaveDisconnecting)
=============================================================================
