-------------------------------- MODULE Conn --------------------------------
(***************************************************************************
 The connection of a station interface and its scans: the cfg80211 operations
 connect, disconnect, external_auth and scan, the part of ndo_stop that waits
 for the connection to end (rwnx_main.c), and the indications of the firmware
 that complete them (rwnx_msg_rx.c).  drv_conn_state is written by both sides:
 the kernel's operations run in their callers, the indications in the receive
 thread, in the order the firmware sent them.

 Seven things leave the two sides apart.  After the first of them no operation
 begins; what is under way, and the firmware, go on:
   "refused"   the connect request fails, or its status is not CO_OK,
   "unsent"    the disconnect request fails,
   "late"      ndo_stop gives up waiting for the state to change,
   "roaming"   ndo_stop finds the interface roaming and does not wait,
   "again"     connect is called while the interface roams, or while a roam is
               ended, and forgets is_roam,
   "scan"      the scan or the cancel request fails,
   "selfwait"  the receive thread refuses the external authentication itself,
               and so waits for a confirmation that only it can receive.
 ***************************************************************************)
EXTENDS Integers, Sequences, Null

CONSTANT MaxMsgs        \* bound: indications in flight

VARIABLES conn_state,   \* drv_conn_state
          is_roam, ext_auth,
          ap_valid,     \* sta.ap names a valid station
          chan_linked,  \* the interface is linked to a channel context
          carrier,      \* netif_carrier_ok
          conn_up,      \* the interface is up and in vif_table
          told,         \* what cfg80211 was last told: "up" or "down"
          scan_request, \* the scan request kept by the driver, or NULL
          cfg_scan,     \* the request cfg80211 waits for, or NULL
          scanning,
          scan_done_of, \* cfg80211_scan_done: the request it was called for and the scan that ended
          conn_op,      \* the kernel's operation under way
          fw_conn,      \* external: the firmware's connection
          fw_scan,      \* external: the request the firmware scans for, or NULL
          conn_msgs,    \* indications in flight, oldest first
          null_used,    \* a handler used the interface or its access point although there was none
          conn_upset

link == <<conn_state, is_roam, ap_valid, chan_linked, carrier, told>>
scans == <<scan_request, cfg_scan, scanning, scan_done_of>>
connVars == <<link, ext_auth, conn_up, scans, conn_op, fw_conn, fw_scan, conn_msgs, null_used, conn_upset>>

ScanRequests == 1 .. 2      \* a request is told apart from the one before
Transient == {"CONNECTING", "ROAMING", "DISCONNECTING"}

ConnInit ==
    /\ conn_state = "DISCONNECTED" /\ is_roam = FALSE /\ ext_auth = FALSE
    /\ ap_valid = FALSE /\ chan_linked = FALSE /\ carrier = FALSE /\ conn_up = FALSE /\ told = "down"
    /\ scan_request = NULL /\ cfg_scan = NULL /\ scanning = FALSE /\ scan_done_of = NULL
    /\ conn_op = "idle" /\ fw_conn = "off" /\ fw_scan = NULL /\ conn_msgs = <<>>
    /\ null_used = FALSE /\ conn_upset = {}

Free == conn_op = "idle" /\ conn_upset = {}
Upsets(e) == conn_upset' = conn_upset \cup {e}
Posts(m) == conn_msgs' = Append(conn_msgs, m)

\* The receive thread works through what the firmware sent before it confirms a request.
Confirmed == conn_msgs = <<>>

-----------------------------------------------------------------------------
\* The kernel's operations.

Open ==
    /\ Free /\ ~conn_up
    /\ conn_up' = TRUE /\ fw_conn' = "idle"
    /\ UNCHANGED <<link, ext_auth, scans, conn_op, fw_scan, conn_msgs, null_used, conn_upset>>

\* The state is set before the request is sent and is not taken back.
rwnx_cfg80211_connect ==
    /\ Free /\ conn_up /\ conn_state \notin {"DISCONNECTING", "CONNECTING"}
    /\ is_roam' = (conn_state = "CONNECTED")
    /\ conn_state' = IF is_roam' THEN "ROAMING" ELSE "CONNECTING"
    /\ \/ /\ conn_op' = "connect"
          /\ IF conn_state = "ROAMING" THEN Upsets("again") ELSE UNCHANGED conn_upset
       \/ Upsets("refused") /\ UNCHANGED conn_op            \* SAE without external authentication
    /\ UNCHANGED <<ap_valid, chan_linked, carrier, told, ext_auth, conn_up, scans, fw_conn, fw_scan, conn_msgs, null_used>>

\* While a connection is made or ended connect does nothing, but clears is_roam first:
\* the reassociation under way is then taken for an end, and ndo_stop does not wait for it.
ConnectIgnored ==
    /\ Free /\ conn_up /\ conn_state \in {"DISCONNECTING", "CONNECTING"}
    /\ is_roam' = FALSE
    /\ IF is_roam THEN Upsets("again") ELSE UNCHANGED conn_upset
    /\ UNCHANGED <<conn_state, ap_valid, chan_linked, carrier, told, ext_auth, conn_up, scans,
                   conn_op, fw_conn, fw_scan, conn_msgs, null_used>>

\* An error does not take the state back.
ConnectSent ==
    /\ conn_op = "connect" /\ conn_op' = "idle"
    /\ \/ Upsets("refused") /\ UNCHANGED <<fw_conn, conn_msgs>>
       \/ /\ fw_conn \in {"idle", "joined"}                 \* SM_CONNECT_CFM, CO_OK
          /\ UNCHANGED conn_upset
          /\ fw_conn' = IF fw_conn = "joined" THEN "roaming" ELSE "joining"
          /\ IF fw_conn = "joined" THEN Posts([is |-> "disconnect", reassoc |-> TRUE])
             ELSE UNCHANGED conn_msgs
    /\ UNCHANGED <<link, ext_auth, conn_up, scans, fw_scan, null_used>>

\* SM_DISCONNECT_REQ at the firmware (external).
FwDisconnect ==
    CASE fw_conn = "joined" -> fw_conn' = "leaving" /\ UNCHANGED conn_msgs
      [] fw_conn = "joining" -> fw_conn' = "idle" /\ Posts([is |-> "connect", ok |-> FALSE, roamed |-> FALSE])
      [] fw_conn = "roaming" -> fw_conn' = "idle" /\ Posts([is |-> "connect", ok |-> FALSE, roamed |-> TRUE])
      [] OTHER -> UNCHANGED <<fw_conn, conn_msgs>>

rwnx_cfg80211_disconnect ==
    /\ Free /\ conn_up /\ conn_state \notin {"DISCONNECTED", "DISCONNECTING"}
    /\ conn_state' = "DISCONNECTING"
    /\ \/ FwDisconnect /\ UNCHANGED conn_upset
       \/ Upsets("unsent") /\ UNCHANGED <<fw_conn, conn_msgs>>
    /\ UNCHANGED <<is_roam, ap_valid, chan_linked, carrier, told, ext_auth, conn_up, scans, conn_op, fw_scan, null_used>>

rwnx_cfg80211_external_auth ==
    /\ Free /\ ext_auth /\ ext_auth' = FALSE
    /\ UNCHANGED <<link, conn_up, scans, conn_op, fw_conn, fw_scan, conn_msgs, null_used, conn_upset>>

\* scan_request and scanning are set before the request is sent and kept when that fails.
rwnx_cfg80211_scan ==
    /\ Free /\ conn_up /\ cfg_scan = NULL
    /\ conn_state # "CONNECTING" /\ ~scanning /\ ~ext_auth
    /\ \E r \in ScanRequests :
         /\ scan_done_of # NULL => r # scan_done_of[1]
         /\ scan_request' = r /\ scanning' = TRUE
         /\ \/ cfg_scan' = r /\ fw_scan' = r /\ UNCHANGED conn_upset
            \/ Upsets("scan") /\ UNCHANGED <<cfg_scan, fw_scan>>
    /\ UNCHANGED <<link, ext_auth, conn_up, scan_done_of, conn_op, fw_conn, conn_msgs, null_used>>

-----------------------------------------------------------------------------
\* ndo_stop, as far as the connection and the scan go.

CloseBegins ==
    /\ Free /\ conn_up /\ conn_op' = "close_wait"
    /\ UNCHANGED <<link, ext_auth, conn_up, scans, fw_conn, fw_scan, conn_msgs, null_used, conn_upset>>

\* Up to 20 times 200 ms for a connection that is being made or ended.
CloseWaits ==
    /\ conn_op = "close_wait"
    /\ IF conn_state \in {"CONNECTING", "DISCONNECTING"} THEN Upsets("late") ELSE UNCHANGED conn_upset
    /\ scanning' = FALSE
    /\ conn_op' = IF scan_request # NULL THEN "close_scan" ELSE "close_link"
    /\ UNCHANGED <<link, ext_auth, conn_up, scan_request, cfg_scan, scan_done_of, fw_conn, fw_scan, conn_msgs, null_used>>

\* The scan is reported as aborted before it is cancelled; a failure to cancel ends the close.
KeepRequest == UNCHANGED scan_request
ForgetRequest == scan_request' = NULL

CloseAbortsScan ==
    /\ conn_op = "close_scan"
    /\ cfg_scan' = NULL /\ ForgetRequest
    /\ conn_op' = "close_cancel"
    /\ UNCHANGED <<link, ext_auth, conn_up, scanning, scan_done_of, fw_conn, fw_scan, conn_msgs, null_used, conn_upset>>

CloseCancels ==
    /\ conn_op = "close_cancel"
    /\ \/ fw_scan' = NULL /\ Confirmed /\ conn_op' = "close_link" /\ UNCHANGED conn_upset
       \/ Upsets("scan") /\ conn_op' = "idle" /\ UNCHANGED fw_scan
    /\ UNCHANGED <<link, ext_auth, conn_up, scans, fw_conn, conn_msgs, null_used>>

\* A connection is taken down; anything else but a roaming interface has ended.
CloseDisconnects ==
    /\ conn_op = "close_link"
    /\ IF conn_state = "CONNECTED"
       THEN conn_state' = "DISCONNECTING" /\ FwDisconnect /\ conn_op' = "close_ind"
       ELSE UNCHANGED <<conn_state, fw_conn, conn_msgs>> /\ conn_op' = "close_remove"
    /\ IF conn_state = "ROAMING" THEN Upsets("roaming") ELSE UNCHANGED conn_upset
    /\ UNCHANGED <<is_roam, ap_valid, chan_linked, carrier, told, ext_auth, conn_up, scans, fw_scan, null_used>>

\* Up to 20 times 100 ms for the disconnect indication.
NoWait == UNCHANGED conn_upset
WaitForInd == IF conn_state = "DISCONNECTING" THEN Upsets("late") ELSE UNCHANGED conn_upset

CloseWaitsInd ==
    /\ conn_op = "close_ind" /\ conn_op' = "close_remove"
    /\ WaitForInd
    /\ UNCHANGED <<link, ext_auth, conn_up, scans, fw_conn, fw_scan, conn_msgs, null_used>>

\* MM_REMOVE_IF_REQ is confirmed after the indications before it; or it times out
\* and the close goes on all the same.
CloseRemoves ==
    /\ conn_op = "close_remove" /\ conn_op' = "close_down"
    /\ fw_conn' = "off" /\ fw_scan' = NULL
    /\ IF Confirmed THEN UNCHANGED conn_upset ELSE Upsets("late")
    /\ UNCHANGED <<link, ext_auth, conn_up, scans, conn_msgs, null_used>>

CloseEnds ==
    /\ conn_op = "close_down" /\ conn_op' = "idle"
    /\ conn_up' = FALSE /\ chan_linked' = FALSE
    /\ carrier' = FALSE /\ told' = IF carrier THEN "down" ELSE told
    /\ UNCHANGED <<conn_state, is_roam, ap_valid, ext_auth, scans, fw_conn, fw_scan, conn_msgs, null_used, conn_upset>>

-----------------------------------------------------------------------------
\* The firmware (external): it ends a connection attempt, loses or leaves a
\* connection, asks for an external authentication, and finishes a scan.

FwEndsJoin ==
    /\ fw_conn \in {"joining", "roaming"} /\ Len(conn_msgs) < MaxMsgs
    /\ \E ok \in BOOLEAN :
         /\ fw_conn' = IF ok THEN "joined" ELSE "idle"
         /\ Posts([is |-> "connect", ok |-> ok, roamed |-> fw_conn = "roaming"])
    /\ UNCHANGED <<link, ext_auth, conn_up, scans, conn_op, fw_scan, null_used, conn_upset>>

FwLosesAp ==
    /\ fw_conn = "joined" /\ Len(conn_msgs) < MaxMsgs
    /\ fw_conn' = "idle" /\ Posts([is |-> "disconnect", reassoc |-> FALSE])
    /\ UNCHANGED <<link, ext_auth, conn_up, scans, conn_op, fw_scan, null_used, conn_upset>>

FwLeaves ==
    /\ fw_conn = "leaving" /\ Len(conn_msgs) < MaxMsgs
    /\ fw_conn' = "idle" /\ Posts([is |-> "disconnect", reassoc |-> FALSE])
    /\ UNCHANGED <<link, ext_auth, conn_up, scans, conn_op, fw_scan, null_used, conn_upset>>

FwAsksAuth ==
    /\ fw_conn = "joining" /\ Len(conn_msgs) < MaxMsgs /\ conn_upset = {}
    /\ \A i \in 1 .. Len(conn_msgs) : conn_msgs[i].is # "auth"
    /\ ~ext_auth
    /\ Posts([is |-> "auth"])
    /\ UNCHANGED <<link, ext_auth, conn_up, scans, conn_op, fw_conn, fw_scan, null_used, conn_upset>>

FwEndsScan ==
    /\ fw_scan # NULL /\ Len(conn_msgs) < MaxMsgs
    /\ fw_scan' = NULL /\ Posts([is |-> "scan", of |-> fw_scan])
    /\ UNCHANGED <<link, ext_auth, conn_up, scans, conn_op, fw_conn, null_used, conn_upset>>

-----------------------------------------------------------------------------
\* The indications, handled one after another by the receive thread.

Handles(is) == conn_msgs # <<>> /\ Head(conn_msgs).is = is /\ conn_msgs' = Tail(conn_msgs)

NoReset == conn_state
FailedState == "DISCONNECTED"
\* The access point is set up although the connection is not going to be reported.
ApIfReported(ind, ignored) == ind.ok /\ ~ignored
ApSetUp(ind, ignored) == ind.ok

\* A connection made while the state is DISCONNECTING is not reported: the
\* disconnect indication follows.
rwnx_rx_sm_connect_ind ==
    /\ Handles("connect")
    /\ LET ind == Head(conn_msgs)
           ignored == ind.ok /\ conn_state = "DISCONNECTING"
       IN IF ~conn_up THEN UNCHANGED <<link, ext_auth>>
          ELSE /\ ext_auth' = FALSE /\ is_roam' = FALSE
               /\ ap_valid' = (ap_valid \/ ApSetUp(ind, ignored)) /\ chan_linked' = (chan_linked \/ ind.ok)
               /\ conn_state' = IF ~ind.ok THEN FailedState
                                ELSE IF ignored THEN conn_state ELSE "CONNECTED"
               /\ told' = IF ignored THEN told ELSE IF ind.ok THEN "up" ELSE "down"
               /\ carrier' = (carrier \/ (ind.ok /\ ~ignored))
    /\ UNCHANGED <<conn_up, scans, conn_op, fw_conn, fw_scan, null_used, conn_upset>>

\* The state is read before the interface is tested, and the access point is used
\* untested.  cfg80211 is not told of a reassociation; a roaming interface keeps
\* its state for the connect indication to come.
rwnx_rx_sm_disconnect_ind ==
    /\ Handles("disconnect")
    /\ null_used' = (null_used \/ ~conn_up \/ (conn_state # "DISCONNECTED" /\ ~ap_valid))
    /\ IF ~conn_up \/ conn_state = "DISCONNECTED" THEN UNCHANGED <<link, ext_auth>>
       ELSE /\ told' = IF Head(conn_msgs).reassoc THEN told ELSE "down"
            /\ carrier' = FALSE /\ ap_valid' = FALSE /\ chan_linked' = FALSE /\ ext_auth' = FALSE
            /\ conn_state' = IF is_roam THEN conn_state ELSE "DISCONNECTED"
            /\ UNCHANGED is_roam
    /\ UNCHANGED <<conn_up, scans, conn_op, fw_conn, fw_scan, conn_upset>>

\* Up to 10 times 100 ms for user space; a refusal is sent from the receive thread.
rwnx_rx_sm_external_auth_required_ind ==
    /\ Handles("auth")
    /\ null_used' = (null_used \/ ~conn_up)
    /\ \/ conn_up /\ ext_auth' = TRUE /\ UNCHANGED conn_upset
       \/ Upsets("selfwait") /\ UNCHANGED ext_auth
    /\ UNCHANGED <<link, conn_up, scans, conn_op, fw_conn, fw_scan>>

rwnx_rx_scanu_start_cfm ==
    /\ Handles("scan")
    /\ IF scan_request = NULL THEN UNCHANGED <<cfg_scan, scan_done_of>>
       ELSE cfg_scan' = NULL /\ scan_done_of' = <<scan_request, Head(conn_msgs).of>>
    /\ scan_request' = NULL /\ scanning' = FALSE
    /\ UNCHANGED <<link, ext_auth, conn_up, conn_op, fw_conn, fw_scan, null_used, conn_upset>>

-----------------------------------------------------------------------------
CloseGoesOn == \/ CloseWaits \/ CloseAbortsScan \/ CloseCancels \/ CloseDisconnects
               \/ CloseWaitsInd \/ CloseRemoves \/ CloseEnds

RxHandles == \/ rwnx_rx_sm_connect_ind \/ rwnx_rx_sm_disconnect_ind
             \/ rwnx_rx_sm_external_auth_required_ind \/ rwnx_rx_scanu_start_cfm

ConnNext ==
    \/ Open \/ rwnx_cfg80211_connect \/ ConnectIgnored \/ ConnectSent \/ rwnx_cfg80211_disconnect
    \/ rwnx_cfg80211_external_auth \/ rwnx_cfg80211_scan \/ CloseBegins \/ CloseGoesOn
    \/ FwEndsJoin \/ FwLosesAp \/ FwLeaves \/ FwAsksAuth \/ FwEndsScan \/ RxHandles

\* The operations under way go on, the receive thread runs, and the firmware ends
\* what it has begun.
ConnFairness ==
    /\ WF_connVars(ConnectSent) /\ WF_connVars(CloseGoesOn) /\ WF_connVars(RxHandles)
    /\ WF_connVars(FwEndsJoin) /\ WF_connVars(FwLeaves) /\ WF_connVars(FwEndsScan)

ConnSpec == ConnInit /\ [][ConnNext]_connVars /\ ConnFairness

-----------------------------------------------------------------------------
(* Properties *)

\* At rest - nothing under way in the kernel, the firmware or the message queue -
\* driver, firmware and cfg80211 agree on whether the interface is connected: the
\* state, sta.ap, the channel context, the carrier and what cfg80211 was told.
\* This covers disconnects that cross a connect or a loss in flight, roaming, and
\* closing, in every order of requests and indications.
LinkAgrees ==
    conn_op = "idle" /\ conn_msgs = <<>> /\ fw_conn \in {"off", "idle", "joined"} /\ conn_upset = {} =>
        LET on == fw_conn = "joined" IN
        /\ conn_state = IF on THEN "CONNECTED" ELSE "DISCONNECTED"
        /\ ap_valid = on /\ chan_linked = on /\ carrier = on /\ (told = "up") = on

\* No indication finds its interface gone from vif_table, and no disconnect
\* indication finds a connection without an access point: both are used untested
\* (rwnx_rx_sm_disconnect_ind).  It rests on ndo_stop waiting for the state to
\* change before the interface is removed.
NothingNull == conn_upset = {} => ~null_used

\* A scan the driver reports to cfg80211 is the one the firmware has finished, and
\* a request kept in scan_request is one that cfg80211 still waits for: a scan
\* cancelled by ndo_stop cannot end the next one.
ScanIsOwn ==
    conn_upset = {} =>
        /\ scan_done_of # NULL => scan_done_of[1] = scan_done_of[2]
        /\ scan_request # NULL => scan_request = cfg_scan

\* A connection that is being made or ended comes to an end: the state does not
\* stay CONNECTING, ROAMING or DISCONNECTING, in which connect does nothing and
\* scans are refused, unless a request has failed.
Settles == conn_state \in Transient /\ conn_upset = {} ~> conn_state \notin Transient \/ conn_upset # {}

\* The link, the null pointers and the scan (rwnx_cfg80211_connect,
\* rwnx_rx_sm_connect_ind, rwnx_rx_sm_disconnect_ind, rwnx_rx_scanu_start_cfm).
ConnSound == LinkAgrees /\ NothingNull /\ ScanIsOwn
=============================================================================
