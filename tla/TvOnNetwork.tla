------------------------------ MODULE TvOnNetwork ------------------------------
(***************************************************************************)
(* What the manager sees of the TV network checker                         *)
(* (src/tv_network_check.rs): a flag, a notification that there is a new   *)
(* result, and the IP address the checker has been given.  When the ping   *)
(* socket cannot be opened the checker never starts.  TvNetworkCheck is    *)
(* the checker itself, and implements this module.                         *)
(***************************************************************************)
EXTENDS LgTvTypes

CONSTANT
    IsOperational   \* tv_on_network_checker.is_operational

VARIABLES
    is_tv_on_network,           \* result of the last ping
    is_tv_on_network_notify,    \* the Notify holds a permit
    tv_ip,                      \* the address to ping, named by its URL
    is_notify_due               \* a result is stored that is yet to be notified

net_vars == <<is_tv_on_network, is_tv_on_network_notify, tv_ip, is_notify_due>>

ASSUME NetAssumption == IsOperational \in BOOLEAN

NetInit ==
    /\ is_tv_on_network = FALSE
    /\ is_tv_on_network_notify = FALSE
    /\ tv_ip = None
    /\ is_notify_due = FALSE

\* check_tv: a ping of the TV has ended, the result is stored ...
StoreResult ==
    /\ IsOperational
    /\ tv_ip # None
    /\ ~is_notify_due
    /\ is_notify_due' = TRUE
    /\ is_tv_on_network' \in BOOLEAN
    /\ UNCHANGED <<tv_ip, is_tv_on_network_notify>>

\* ... and then the manager is notified.
NotifyManager ==
    /\ is_notify_due
    /\ is_notify_due' = FALSE
    /\ is_tv_on_network_notify' = TRUE
    /\ UNCHANGED <<tv_ip, is_tv_on_network>>

CheckTv == StoreResult \/ NotifyManager

\* The address the checker pings after a connection to url: a host name has none.
TvIpFor(url) == IF url \in IpUrl THEN url ELSE tv_ip

(* The manager's steps, for the checker seen by itself.                    *)

NewTvIp ==
    /\ tv_ip' \in IpUrl
    /\ UNCHANGED <<is_tv_on_network, is_tv_on_network_notify, is_notify_due>>

TakeNotification ==
    /\ is_tv_on_network_notify
    /\ is_tv_on_network_notify' = FALSE
    /\ UNCHANGED <<tv_ip, is_tv_on_network, is_notify_due>>

NetNext == CheckTv \/ NewTvIp \/ TakeNotification

NetSpec == NetInit /\ [][NetNext]_net_vars /\ WF_net_vars(NotifyManager)

NetTypeOK ==
    /\ is_tv_on_network \in BOOLEAN
    /\ is_tv_on_network_notify \in BOOLEAN
    /\ tv_ip \in UrlOption
    /\ is_notify_due \in BOOLEAN
=============================================================================
