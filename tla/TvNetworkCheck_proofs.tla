------------------------- MODULE TvNetworkCheck_proofs -------------------------
(***************************************************************************)
(* Theorems about the TV network checker, for any set of addresses: a      *)
(* settled result is the one of the address given last, and every step is  *)
(* one that TvOnNetwork allows.                                            *)
(***************************************************************************)
EXTENDS TvNetworkCheck, TLAPS

\* is_pinging says that a check is under way, so the task never drops a check;
\* its own address differs from the manager's only while there is a notification.
CopyIsCurrent ==
    /\ is_pinging = (stage # "select")
    /\ tv_ip_notify \/ ping_target_ip = tv_ip
    /\ stage # "select" => ping_target_ip # None /\ IsOperational
    /\ ping_target_ip # None => tv_ip # None

\* An address that has not been pinged is about to be.
PingIsDue ==
    /\ check \/ stage = "pinging" \/ result_for = ping_target_ip
    /\ ping_target_ip = None => result_for = None

\* A result the manager has not seen is about to be notified.
NotifyIsDue ==
    \/ is_tv_on_network_notify
    \/ stage = "stored"
    \/ /\ was_on_network = is_tv_on_network
       /\ test_status = "Passed" => is_tv_on_network
       /\ test_status = "Failed" => ~is_tv_on_network

CheckInv ==
    /\ TypeOK
    /\ CopyIsCurrent
    /\ PingIsDue
    /\ NotifyIsDue

LEMMA CheckInit == Init => CheckInv
BY DEF Init, CheckInv, TypeOK, Stage, TestStatus, CopyIsCurrent, PingIsDue, NotifyIsDue

LEMMA CheckStep == CheckInv /\ [Next]_check_vars => CheckInv'
<1> SUFFICES ASSUME CheckInv, [Next]_check_vars PROVE CheckInv'
    OBVIOUS
<1> USE TypesAssumption DEF CheckInv, TypeOK, Stage, TestStatus,
                            CopyIsCurrent, PingIsDue, NotifyIsDue
<1>1. CASE SetTvIp
    BY <1>1 DEF SetTvIp
<1>2. CASE RequestCheck
    <2>1. CASE test_status' = "Unknown"
        BY <1>2, <2>1 DEF RequestCheck
    <2>2. CASE test_status' = test_status
        BY <1>2, <2>2 DEF RequestCheck
    <2> QED
        BY <1>2, <2>1, <2>2 DEF RequestCheck
<1>3. CASE TvOnNetworkNotified
    BY <1>3 DEF TvOnNetworkNotified
<1>4. CASE TestingNotified
    BY <1>4 DEF TestingNotified
<1>5. CASE ReceiveTvIp
    BY <1>5 DEF ReceiveTvIp, AtSelect
<1>6. CASE PingIntervalTick
    BY <1>6 DEF PingIntervalTick, AtSelect, BeginCheck
<1>7. CASE CheckRequested
    <2>1. stage = "select" /\ check' = FALSE /\ ~is_pinging
        BY <1>7 DEF CheckRequested, AtSelect
    <2>2. CASE ping_target_ip = None
        BY <1>7, <2>1, <2>2 DEF CheckRequested, BeginCheck
    <2>3. CASE ping_target_ip # None
        BY <1>7, <2>1, <2>3 DEF CheckRequested, AtSelect, BeginCheck
    <2> QED
        BY <2>2, <2>3
<1>8. CASE PingEnds
    BY <1>8 DEF PingEnds
<1>9. CASE NotifyResult
    BY <1>9 DEF NotifyResult
<1>10. CASE EndCheck
    BY <1>10 DEF EndCheck
<1>11. CASE UNCHANGED check_vars
    BY <1>11 DEF check_vars, shared_vars
<1> QED
    BY <1>1, <1>2, <1>3, <1>4, <1>5, <1>6, <1>7, <1>8, <1>9, <1>10, <1>11
       DEF Next, ManagerNext, CheckerNext

\* Once nothing is pending the manager goes by the result of the address it
\* gave last, however requests, new addresses, pings and handlers interleave.
THEOREM ResultIsCurrent == Spec => []SettledResultIsCurrent
<1>1. CheckInv => SettledResultIsCurrent
    BY DEF CheckInv, TypeOK, CopyIsCurrent, PingIsDue, NotifyIsDue,
           SettledResultIsCurrent, NothingPending
<1> QED
    BY <1>1, CheckInit, CheckStep, PTL DEF Spec

\* The checker pings no TV it has not been told of, and follows each result by
\* a notification before there is the next: it does what LgTvManager, which is
\* composed with TvOnNetwork, takes it to do.
THEOREM ImplementsTvOnNetwork ==
    Spec => Abstract!NetInit /\ [][Abstract!NetNext]_(Abstract!net_vars)
<1>1. Init => Abstract!NetInit
    BY DEF Init, Abstract!NetInit
<1>2. ASSUME CheckInv, [Next]_check_vars
      PROVE  [Abstract!NetNext]_(Abstract!net_vars)
    <2> USE <1>2 DEF Abstract!NetNext, Abstract!net_vars, Abstract!CheckTv
    <2>1. CASE SetTvIp
        BY <2>1 DEF SetTvIp, Abstract!NewTvIp
    <2>2. CASE TvOnNetworkNotified
        BY <2>2 DEF TvOnNetworkNotified, Abstract!TakeNotification
    <2>3. CASE PingEnds
        BY <2>3 DEF PingEnds, CheckInv, CopyIsCurrent, Abstract!StoreResult
    <2>4. CASE NotifyResult
        BY <2>4 DEF NotifyResult, Abstract!NotifyManager
    <2>5. CASE RequestCheck \/ TestingNotified \/ ReceiveTvIp \/ EndCheck
        BY <2>5 DEF RequestCheck, TestingNotified, ReceiveTvIp, AtSelect, EndCheck
    <2>6. CASE PingIntervalTick \/ CheckRequested
        BY <2>6 DEF PingIntervalTick, CheckRequested, AtSelect, BeginCheck
    <2>7. CASE UNCHANGED check_vars
        BY <2>7 DEF check_vars, shared_vars
    <2> QED
        BY <2>1, <2>2, <2>3, <2>4, <2>5, <2>6, <2>7 DEF Next, ManagerNext, CheckerNext
<1> QED
    BY <1>1, <1>2, CheckInit, CheckStep, PTL DEF Spec
=============================================================================
