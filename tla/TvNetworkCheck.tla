----------------------------- MODULE TvNetworkCheck -----------------------------
(***************************************************************************)
(* The TV network checker (src/tv_network_check.rs): a task that pings the *)
(* TV on a timer, on request and when it is given an address, and the      *)
(* manager's side of what they share: two flags, an address behind a mutex *)
(* and four Notifys, each of which holds at most one permit.  The module   *)
(* TvOnNetwork, which LgTvManager is composed with, is what this one       *)
(* implements.                                                             *)
(***************************************************************************)
EXTENDS LgTvTypes

CONSTANT
    IsOperational   \* the ping socket could be opened and the task runs

VARIABLES
    tv_ip,                      \* the address given by the manager, or None
    tv_ip_notify,               \* permit: there is a new address
    check,                      \* permit: a check is requested
    ping_target_ip,             \* the task's own copy of the address
    stage,                      \* where the task is
    is_pinging,
    is_pinging_notify,          \* permit: is_pinging has changed
    is_tv_on_network,           \* result of the last ping
    is_tv_on_network_notify,    \* permit: there is a new result
    was_on_network,             \* the manager's copy of the result
    test_status,                \* the last TvOnNetworkTestStatus it emitted
    result_for                  \* history: the address that was pinged last

shared_vars == <<tv_ip, tv_ip_notify, check, is_pinging, is_pinging_notify,
                 is_tv_on_network, is_tv_on_network_notify>>

check_vars == <<shared_vars, ping_target_ip, stage, was_on_network, test_status, result_for>>

\* select: in the select! of the loop.  The others are places in check_tv: the
\* ping is under way, its result is stored, the manager has been notified.
Stage == {"select", "pinging", "stored", "notified"}

TestStatus == {"Unknown", "InProgress", "Passed", "Failed"}

Init ==
    /\ tv_ip = None /\ ping_target_ip = None /\ result_for = None
    /\ tv_ip_notify = FALSE /\ check = FALSE
    /\ stage = "select"
    /\ is_pinging = FALSE /\ is_pinging_notify = FALSE
    /\ is_tv_on_network = FALSE /\ is_tv_on_network_notify = FALSE
    /\ was_on_network = FALSE
    /\ test_status = "Unknown"

-----------------------------------------------------------------------------
(* The manager.                                                            *)

\* initiate_connect_to_tv gives the checker an address that differs from its own.
SetTvIp ==
    /\ tv_ip' \in IpUrl \ {tv_ip}
    /\ tv_ip_notify' = TRUE
    /\ check' = TRUE
    /\ UNCHANGED <<is_pinging, is_pinging_notify, is_tv_on_network, is_tv_on_network_notify,
                   ping_target_ip, stage, was_on_network, test_status, result_for>>

\* TestTvOnNetwork; initialize_manager_state, which goes on to emit Unknown.
RequestCheck ==
    /\ check' = TRUE
    /\ test_status' \in {test_status, "Unknown"}
    /\ UNCHANGED <<tv_ip, tv_ip_notify, is_pinging, is_pinging_notify, is_tv_on_network,
                   is_tv_on_network_notify, ping_target_ip, stage, was_on_network, result_for>>

TvOnNetworkNotified ==
    /\ is_tv_on_network_notify
    /\ is_tv_on_network_notify' = FALSE
    /\ was_on_network' = is_tv_on_network
    /\ test_status' = IF is_tv_on_network THEN "Passed" ELSE "Failed"
    /\ UNCHANGED <<tv_ip, tv_ip_notify, check, is_pinging, is_pinging_notify,
                   is_tv_on_network, ping_target_ip, stage, result_for>>

TestingNotified ==
    /\ is_pinging_notify
    /\ is_pinging_notify' = FALSE
    /\ test_status' = IF is_pinging THEN "InProgress" ELSE test_status
    /\ UNCHANGED <<tv_ip, tv_ip_notify, check, is_pinging, is_tv_on_network,
                   is_tv_on_network_notify, ping_target_ip, stage, was_on_network, result_for>>

-----------------------------------------------------------------------------
(* The checker task.                                                       *)

AtSelect == IsOperational /\ stage = "select"

\* Mutant of ReceiveTvIp: the address is taken, and no check asked for.
ReceiveTvIpOnly ==
    /\ AtSelect /\ tv_ip_notify
    /\ tv_ip_notify' = FALSE
    /\ ping_target_ip' = tv_ip
    /\ UNCHANGED <<tv_ip, check, is_pinging, is_pinging_notify, is_tv_on_network,
                   is_tv_on_network_notify, stage, was_on_network, test_status, result_for>>

ReceiveTvIp ==
    /\ AtSelect /\ tv_ip_notify
    /\ tv_ip_notify' = FALSE
    /\ ping_target_ip' = tv_ip
    /\ check' = TRUE
    /\ UNCHANGED <<tv_ip, is_pinging, is_pinging_notify, is_tv_on_network,
                   is_tv_on_network_notify, stage, was_on_network, test_status, result_for>>

\* The start of check_tv.  A check that finds another one under way is dropped.
BeginCheck ==
    /\ IF ping_target_ip = None \/ is_pinging
       THEN UNCHANGED <<is_pinging, is_pinging_notify, stage>>
       ELSE /\ is_pinging' = TRUE
            /\ is_pinging_notify' = TRUE
            /\ stage' = "pinging"
    /\ UNCHANGED <<tv_ip, tv_ip_notify, is_tv_on_network, is_tv_on_network_notify,
                   ping_target_ip, was_on_network, test_status, result_for>>

PingIntervalTick == AtSelect /\ BeginCheck /\ UNCHANGED check

CheckRequested == AtSelect /\ check /\ check' = FALSE /\ BeginCheck

PingEnds ==
    /\ stage = "pinging"
    /\ is_tv_on_network' \in BOOLEAN
    /\ result_for' = ping_target_ip
    /\ stage' = "stored"
    /\ UNCHANGED <<tv_ip, tv_ip_notify, check, is_pinging, is_pinging_notify,
                   is_tv_on_network_notify, ping_target_ip, was_on_network, test_status>>

\* Mutant of NotifyResult: the manager is only told of a TV that answers.
NotifyPassed ==
    /\ stage = "stored"
    /\ is_tv_on_network_notify' = (is_tv_on_network_notify \/ is_tv_on_network)
    /\ stage' = "notified"
    /\ UNCHANGED <<tv_ip, tv_ip_notify, check, is_pinging, is_pinging_notify, is_tv_on_network,
                   ping_target_ip, was_on_network, test_status, result_for>>

NotifyResult ==
    /\ stage = "stored"
    /\ is_tv_on_network_notify' = TRUE
    /\ stage' = "notified"
    /\ UNCHANGED <<tv_ip, tv_ip_notify, check, is_pinging, is_pinging_notify, is_tv_on_network,
                   ping_target_ip, was_on_network, test_status, result_for>>

\* Mutant of EndCheck: the flag stays set, and later checks are dropped.
EndCheckUnmarked ==
    /\ stage = "notified"
    /\ is_pinging_notify' = TRUE
    /\ stage' = "select"
    /\ UNCHANGED <<tv_ip, tv_ip_notify, check, is_pinging, is_tv_on_network,
                   is_tv_on_network_notify, ping_target_ip, was_on_network,
                   test_status, result_for>>

EndCheck ==
    /\ stage = "notified"
    /\ is_pinging' = FALSE
    /\ is_pinging_notify' = TRUE
    /\ stage' = "select"
    /\ UNCHANGED <<tv_ip, tv_ip_notify, check, is_tv_on_network, is_tv_on_network_notify,
                   ping_target_ip, was_on_network, test_status, result_for>>

-----------------------------------------------------------------------------

ManagerNext == SetTvIp \/ RequestCheck \/ TvOnNetworkNotified \/ TestingNotified

CheckerNext ==
    \/ ReceiveTvIp \/ PingIntervalTick \/ CheckRequested
    \/ PingEnds \/ NotifyResult \/ EndCheck

Next == ManagerNext \/ CheckerNext

Spec == Init /\ [][Next]_check_vars

(* A ping ends, at the latest by its timeout; both select!s pick at random  *)
(* among the branches that are ready.  The timer is not assumed to tick.    *)
CheckerFairness ==
    /\ WF_check_vars(PingEnds) /\ WF_check_vars(NotifyResult) /\ WF_check_vars(EndCheck)
    /\ SF_check_vars(ReceiveTvIp) /\ SF_check_vars(CheckRequested)
    /\ SF_check_vars(TvOnNetworkNotified)

FairSpec == Spec /\ CheckerFairness

-----------------------------------------------------------------------------

TypeOK ==
    /\ tv_ip \in IpUrl \cup {None}
    /\ ping_target_ip \in IpUrl \cup {None}
    /\ result_for \in IpUrl \cup {None}
    /\ stage \in Stage
    /\ test_status \in TestStatus
    /\ tv_ip_notify \in BOOLEAN /\ check \in BOOLEAN
    /\ is_pinging \in BOOLEAN /\ is_pinging_notify \in BOOLEAN
    /\ is_tv_on_network \in BOOLEAN /\ is_tv_on_network_notify \in BOOLEAN
    /\ was_on_network \in BOOLEAN

NothingPending ==
    stage = "select" /\ ~tv_ip_notify /\ ~check /\ ~is_tv_on_network_notify

\* However the requests for checks, the new addresses, the pings and the
\* manager's handlers interleave: once nothing is pending, the result the
\* manager goes by is the one of the address it gave last, never that of a TV it
\* was connected to before, and a verdict it has shown is that result.
SettledResultIsCurrent ==
    NothingPending =>
        /\ result_for = tv_ip
        /\ was_on_network = is_tv_on_network
        /\ test_status = "Passed" => is_tv_on_network
        /\ test_status = "Failed" => ~is_tv_on_network

\* The copy the task pings is replaced on a notification, and checks that come
\* during a ping are merged into one permit: still, without any help of the
\* timer, a new address is pinged, unless it is replaced before.
NewAddressIsPinged ==
    \A ip \in IpUrl :
        tv_ip = ip /\ result_for # ip ~> result_for = ip \/ tv_ip # ip

\* To the manager the checker is what TvOnNetwork says: it pings no TV it has
\* not been told of, and each result is followed by a notification of its own
\* before there is the next.
Abstract == INSTANCE TvOnNetwork WITH is_notify_due <- (stage = "stored")

NetSpec == Abstract!NetSpec
=============================================================================
