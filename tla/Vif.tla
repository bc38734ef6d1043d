-------------------------------- MODULE Vif --------------------------------
(***************************************************************************
 The virtual interfaces of the driver (rwnx_main.c): adding, opening,
 changing, closing and deleting them, the P2P device interface that is added
 to the firmware on demand and taken down again by the p2p_alive_timer, and
 the bookkeeping that all of these share: vif_table (indexed by the
 firmware's number), vif_started, avail_idx_map, is_p2p_alive, monitor_vif.

 The kernel calls the operations one at a time (rtnl); the commands they send
 sleep, and the timer callback runs meanwhile.  The start and add requests to
 the firmware may always fail.  Five things upset the bookkeeping; a behaviour
 is followed until the first of them, and what is under way then still ends:
   "cancel"  cancelling the scan fails when its interface is closed,
   "change"  a request fails while the type of an interface is changed,
   "race"    the timer callback overlaps an operation,
   "bare"    a P2P interface is opened without a started P2P device,
   "early"   remain_on_channel adds the P2P device while no interface is open.
 ***************************************************************************)
EXTENDS Integers, FiniteSets, Null

CONSTANTS NX_VIRT_DEV_MAX,       \* interfaces of the firmware, 0 .. NX_VIRT_DEV_MAX-1
          NX_VLAN,               \* slots kept for AP_VLAN interfaces
          P2P_ALIVE_TIME_COUNT,  \* expiries without a P2P interface before the device is taken down
          MaxStarted             \* bound: no more opens beyond this count

VARIABLES vif,          \* slot (drv_vif_index) -> the interface, or NULL: avail_idx_map
          vif_table,    \* firmware number -> slot of the interface, or NULL
          vif_started,  \* interfaces started
          fw_vifs,           \* external: the numbers the firmware has in use
          fw_on,         \* external: the firmware has been started (MM_START_REQ) since its last reset
          p2p_dev_vif, is_p2p_alive, alive_timer, alive_count,
          scan_of,         \* slot whose scan request is pending, or NULL
          monitor_vif,
          vif_op,           \* the operation the kernel thread is in, with its interface
          alive_cb,           \* "idle", or "down" between remove_if and the lock in the timer callback
          p2p_stale,        \* the P2P device was used although it had been deleted
          vif_upset        \* which of the five has happened

books == <<vif, vif_table, vif_started>>
p2pVars == <<p2p_dev_vif, is_p2p_alive, alive_timer, alive_count, p2p_stale>>
vifVars == <<books, fw_vifs, fw_on, p2pVars, scan_of, monitor_vif, vif_op, alive_cb, vif_upset>>

Regular == 0 .. NX_VIRT_DEV_MAX - 1
Vlan == NX_VIRT_DEV_MAX .. NX_VIRT_DEV_MAX + NX_VLAN - 1
Slots == Regular \cup Vlan
Types == {"STA", "AP", "P2PC", "VLAN", "MON", "P2PDEV"}
Events == {"cancel", "change", "race", "bare", "early"}

\* vif_started is a u8.
Inc(n) == (n + 1) % 256
Dec(n) == (n + 255) % 256

New(t) == [type |-> t, up |-> FALSE, idx |-> 0, run |-> FALSE]
Exists(v) == vif[v] # NULL
Running(v) == Exists(v) /\ vif[v].run
Idle == vif_op = [is |-> "idle", v |-> NULL]
At(is) == vif_op.is = is
Ends == vif_op' = [is |-> "idle", v |-> NULL]
Goes(is, v) == vif_op' = [is |-> is, v |-> v]
\* The event e happens, and no operation begins after it; or nothing happens.
Happens(e) == vif_upset \subseteq {e} /\ vif_upset' = {e}
Calm == UNCHANGED vif_upset
\* An operation begins; it may find the timer callback under way.
Begins == Idle /\ vif_upset = {} /\ (IF alive_cb = "idle" THEN Calm ELSE Happens("race"))
BeginsAlone == Idle /\ vif_upset = {} /\ alive_cb = "idle"

VifInit ==
    /\ vif = [s \in Slots |-> IF s = 0 THEN New("STA") ELSE NULL]
    /\ vif_table = [s \in Slots |-> NULL]
    /\ vif_started = 0
    /\ fw_vifs = {} /\ fw_on = FALSE
    /\ p2p_dev_vif = NULL /\ is_p2p_alive = FALSE /\ alive_timer = FALSE /\ alive_count = 0
    /\ scan_of = NULL /\ monitor_vif = NULL
    /\ vif_op = [is |-> "idle", v |-> NULL] /\ alive_cb = "idle" /\ p2p_stale = FALSE
    /\ vif_upset = {}

-----------------------------------------------------------------------------
\* Adding and deleting interfaces.

Avail(t) == {s \in IF t = "VLAN" THEN Vlan ELSE Regular : ~Exists(s)}

LowestAvail(t) == CHOOSE s \in Avail(t) : \A u \in Avail(t) : s <= u

\* A monitor interface and a data interface exclude each other (MON_DATA is off).
NoMonitorClash(t) == \A v \in Slots : Exists(v) => vif[v].type # "MON" /\ t # "MON"

rwnx_interface_add(t) ==
    /\ Begins /\ t \in Types \ {"P2PDEV"} /\ Avail(t) # {}
    /\ NoMonitorClash(t)
    /\ t = "VLAN" => \E v \in Slots : Exists(v) /\ vif[v].type = "AP"
    /\ vif' = [vif EXCEPT ![LowestAvail(t)] = New(t)]
    /\ UNCHANGED <<vif_table, vif_started, fw_vifs, fw_on, p2pVars, scan_of, monitor_vif, vif_op, alive_cb>>

\* The P2P device is remembered only while no P2P device is alive.
rwnx_virtual_interface_add ==
    /\ Begins /\ Avail("P2PDEV") # {}
    /\ \A v \in Slots : Exists(v) => vif[v].type # "P2PDEV"
    /\ LET s == LowestAvail("P2PDEV") IN
         /\ vif' = [vif EXCEPT ![s] = [New("P2PDEV") EXCEPT !.idx = s]]
         /\ p2p_dev_vif' = IF is_p2p_alive THEN p2p_dev_vif ELSE s
         /\ alive_count' = IF is_p2p_alive THEN alive_count ELSE 0
         /\ alive_timer' = (is_p2p_alive /\ alive_timer)
    /\ UNCHANGED <<vif_table, vif_started, fw_vifs, fw_on, is_p2p_alive, p2p_stale, scan_of, monitor_vif, vif_op, alive_cb>>

\* cfg80211 closes a running interface, or stops a running P2P device, first.
rwnx_cfg80211_del_iface(v) ==
    /\ Begins /\ Exists(v) /\ ~vif[v].run
    /\ vif' = [vif EXCEPT ![v] = NULL]
    /\ UNCHANGED <<vif_table, vif_started, fw_vifs, fw_on, p2pVars, scan_of, monitor_vif, vif_op, alive_cb>>

-----------------------------------------------------------------------------
\* The interface requests to the firmware (external).

\* MM_ADD_IF: the firmware numbers the interface, or refuses.
AddIf(Ok(_), failed) ==
    \/ failed /\ UNCHANGED fw_vifs
    \/ \E i \in Regular \ fw_vifs : fw_vifs' = fw_vifs \cup {i} /\ Ok(i)

RemoveIf(i) == fw_vifs' = fw_vifs \ {i}

\* Saving the number: up, vif_started and vif_table under cb_lock.  A deleted
\* interface is written all the same: only its memory is not there any more.
Attach(v, i) ==
    /\ vif' = IF Exists(v) THEN [vif EXCEPT ![v].up = TRUE, ![v].idx = i] ELSE vif
    /\ vif_table' = [vif_table EXCEPT ![i] = v]
    /\ vif_started' = Inc(vif_started)

-----------------------------------------------------------------------------
\* ndo_open.

\* The remembered P2P device has not been deleted.
DevExists == p2p_dev_vif # NULL /\ Exists(p2p_dev_vif) /\ vif[p2p_dev_vif].type = "P2PDEV"

\* The first interface starts the firmware; the STARTED flag is only ever waited for.
rwnx_open(v) ==
    /\ Exists(v) /\ ~vif[v].run /\ vif[v].type # "P2PDEV"
    /\ Inc(vif_started) <= MaxStarted
    /\ IF vif[v].type # "P2PC" \/ (DevExists /\ vif[p2p_dev_vif].run) THEN Begins
       ELSE BeginsAlone /\ Happens("bare")
    /\ \/ /\ vif_started = 0                          \* start, or the gain register write, fails
          /\ fw_on' \in {fw_on, TRUE}
          /\ UNCHANGED <<vif, vif_op>>
       \/ /\ fw_on' = (fw_on \/ vif_started = 0)
          /\ UNCHANGED vif
          /\ Goes(IF vif[v].type = "P2PC" /\ ~is_p2p_alive THEN "open_p2p" ELSE "open_add", v)
    /\ UNCHANGED <<vif_table, vif_started, fw_vifs, p2pVars, scan_of, monitor_vif, alive_cb>>

ArmAliveTimer == alive_timer' = TRUE /\ alive_count' = 0 /\ is_p2p_alive' = TRUE

\* A P2P interface brings the P2P device up first.
OpenP2pDevice ==
    /\ At("open_p2p") /\ Calm
    /\ p2p_stale' = (p2p_stale \/ ~DevExists)
    /\ \E up \in IF p2p_dev_vif = NULL THEN {TRUE}
                 ELSE IF DevExists THEN {vif[p2p_dev_vif].up} ELSE BOOLEAN :
          \/ /\ up
             /\ ArmAliveTimer /\ Goes("open_add", vif_op.v)
             /\ UNCHANGED <<books, fw_vifs>>
          \/ /\ ~up
             /\ AddIf(LAMBDA i : Attach(p2p_dev_vif, i) /\ ArmAliveTimer /\ Goes("open_add", vif_op.v),
                      Ends /\ UNCHANGED <<books, is_p2p_alive, alive_timer, alive_count>>)
    /\ UNCHANGED <<fw_on, p2p_dev_vif, scan_of, monitor_vif, alive_cb>>

\* Attaching the interface itself; an AP_VLAN one keeps its own number and is
\* not known to the firmware.
OpenAddIf ==
    LET v == vif_op.v
        Started(i) == /\ vif' = [vif EXCEPT ![v].up = TRUE, ![v].idx = i, ![v].run = TRUE]
                      /\ vif_table' = [vif_table EXCEPT ![i] = v]
                      /\ vif_started' = Inc(vif_started)
                      /\ monitor_vif' = IF vif[v].type = "MON" THEN i ELSE monitor_vif
    IN /\ At("open_add") /\ Calm
       /\ \/ vif[v].type = "VLAN" /\ Started(v) /\ UNCHANGED fw_vifs
          \/ vif[v].type # "VLAN" /\ AddIf(Started, UNCHANGED <<books, monitor_vif>>)
       /\ Ends
       /\ UNCHANGED <<fw_on, p2pVars, scan_of, alive_cb>>

-----------------------------------------------------------------------------
\* ndo_stop.

\* A pending scan of the interface is given up; when the cancel request fails
\* the rest of the close is skipped, although the kernel takes the interface as
\* closed.  Then the interface leaves the firmware.
rwnx_close(v) ==
    /\ Running(v) /\ vif[v].type # "P2PDEV"
    /\ scan_of' = IF scan_of = v THEN NULL ELSE scan_of
    /\ \/ /\ scan_of = v /\ BeginsAlone /\ Happens("cancel")
          /\ vif' = [vif EXCEPT ![v].run = FALSE]
          /\ UNCHANGED <<fw_vifs, vif_op>>
       \/ Begins /\ RemoveIf(vif[v].idx) /\ Goes("close_down", v) /\ UNCHANGED vif
    /\ UNCHANGED <<vif_table, vif_started, fw_on, p2pVars, monitor_vif, alive_cb>>

\* vif_table loses the interface, under cb_lock.
Detach(v) == vif_table' = [vif_table EXCEPT ![vif[v].idx] = NULL]

CloseDown ==
    /\ At("close_down") /\ Calm
    /\ vif' = [vif EXCEPT ![vif_op.v].up = FALSE]
    /\ Detach(vif_op.v)
    /\ Goes("close_count", vif_op.v)
    /\ UNCHANGED <<vif_started, fw_vifs, fw_on, p2pVars, scan_of, monitor_vif, alive_cb>>

LastOrNext == vif_started \in {1, 2}
LastClosed == vif_started = 1

\* The count is taken down without cb_lock; the last interface resets the firmware.
CloseCount ==
    /\ At("close_count") /\ Calm
    /\ monitor_vif' = IF vif[vif_op.v].type = "MON" THEN NULL ELSE monitor_vif
    /\ vif_started' = Dec(vif_started)
    /\ fw_on' = (fw_on /\ ~LastClosed)
    /\ fw_vifs' = IF LastClosed THEN {} ELSE fw_vifs
    /\ vif' = [vif EXCEPT ![vif_op.v].run = FALSE]
    /\ Ends
    /\ UNCHANGED <<vif_table, p2pVars, scan_of, alive_cb>>

-----------------------------------------------------------------------------
\* Changing the type: an interface that is up leaves the firmware and is added again.

MonitorChangeRefused(v, t) ==
    /\ t = "MON" /\ vif[v].type # "MON"
    /\ \E u \in Slots \ {v} : Exists(u)

KeepIndex(v) == UNCHANGED vif_table
ForgetIndex(v) == Detach(v)

rwnx_cfg80211_change_iface(v, t) ==
    /\ Exists(v) /\ t \in Types \ {"VLAN", "P2PDEV"}
    /\ vif[v].type \notin {"VLAN", "P2PDEV", t} /\ ~MonitorChangeRefused(v, t)
    /\ \/ /\ ~vif[v].up /\ Begins
          /\ vif' = [vif EXCEPT ![v].type = t]
          /\ monitor_vif' = IF t = "MON" THEN vif[v].idx ELSE NULL
          /\ UNCHANGED <<vif_table, fw_vifs, vif_op>>
       \/ /\ vif[v].up /\ BeginsAlone /\ Happens("change")  \* scan cancel or remove_if fails
          /\ vif' = [vif EXCEPT ![v].type = t]
          /\ UNCHANGED <<vif_table, fw_vifs, vif_op, monitor_vif>>
       \/ /\ vif[v].up /\ Begins
          /\ vif' = [vif EXCEPT ![v].type = t]
          /\ RemoveIf(vif[v].idx)
          /\ ForgetIndex(v)
          /\ Goes("change_add", v)
          /\ UNCHANGED monitor_vif
    /\ UNCHANGED <<vif_started, fw_on, p2pVars, scan_of, alive_cb>>

ChangeAddIf ==
    /\ At("change_add")
    /\ AddIf(LAMBDA i : /\ vif' = [vif EXCEPT ![vif_op.v].idx = i]
                        /\ vif_table' = [vif_table EXCEPT ![i] = vif_op.v]
                        /\ monitor_vif' = (IF vif[vif_op.v].type = "MON" THEN i ELSE NULL)
                        /\ Calm,
             Happens("change") /\ UNCHANGED <<vif, vif_table, monitor_vif>>)
    /\ Ends
    /\ UNCHANGED <<vif_started, fw_on, p2pVars, scan_of, alive_cb>>

-----------------------------------------------------------------------------
\* The P2P device.

rwnx_cfgp2p_start_p2p_device(v) ==
    /\ Begins /\ Exists(v) /\ vif[v].type = "P2PDEV" /\ ~vif[v].run
    /\ vif' = [vif EXCEPT ![v].run = TRUE]
    /\ UNCHANGED <<vif_table, vif_started, fw_vifs, fw_on, p2pVars, scan_of, monitor_vif, vif_op, alive_cb>>

\* remain_on_channel on the P2P device adds it to the firmware when it is not alive.
RocP2pDevice(v) ==
    /\ Running(v) /\ v = p2p_dev_vif /\ ~vif[v].up
    /\ IF fw_on THEN Begins ELSE BeginsAlone /\ Happens("early")
    /\ \/ /\ is_p2p_alive
          /\ alive_timer' = TRUE /\ alive_count' = 0
          /\ UNCHANGED <<books, fw_vifs, is_p2p_alive>>
       \/ /\ ~is_p2p_alive
          /\ AddIf(LAMBDA i : Attach(v, i) /\ ArmAliveTimer,
                   UNCHANGED <<books, is_p2p_alive, alive_timer, alive_count>>)
    /\ UNCHANGED <<fw_on, p2p_dev_vif, p2p_stale, scan_of, monitor_vif, vif_op, alive_cb>>

\* The timer is deleted only if it is pending: a callback that runs is not waited for.
KeepAliveTimer(v) == UNCHANGED alive_timer
DeleteAliveTimer(v) == alive_timer' = (alive_timer /\ v # p2p_dev_vif)

rwnx_cfgp2p_stop_p2p_device(v) ==
    /\ Begins /\ Running(v) /\ vif[v].type = "P2PDEV"
    /\ scan_of' = IF scan_of = v THEN NULL ELSE scan_of
    /\ is_p2p_alive' = (is_p2p_alive /\ v # p2p_dev_vif)
    /\ DeleteAliveTimer(v)
    /\ \/ /\ v = p2p_dev_vif /\ vif[v].up
          /\ RemoveIf(vif[v].idx) /\ Goes("stop_down", v)
          /\ UNCHANGED vif
       \/ /\ ~(v = p2p_dev_vif /\ vif[v].up)
          /\ vif' = [vif EXCEPT ![v].run = FALSE]
          /\ UNCHANGED <<fw_vifs, vif_op>>
    /\ UNCHANGED <<vif_table, vif_started, fw_on, p2p_dev_vif, alive_count, p2p_stale, monitor_vif, alive_cb>>

StopDown ==
    /\ At("stop_down") /\ Calm
    /\ vif' = [vif EXCEPT ![vif_op.v].up = FALSE, ![vif_op.v].run = FALSE]
    /\ Detach(vif_op.v)
    /\ vif_started' = Dec(vif_started)
    /\ Ends
    /\ UNCHANGED <<fw_vifs, fw_on, p2pVars, scan_of, monitor_vif, alive_cb>>

P2pInterfaces == {v \in Slots : Exists(v) /\ vif[v].type = "P2PC"}

\* The timer counts the expiries that find no P2P interface; at the limit the
\* device leaves the firmware.  It is not tested that the device is up.
aicwf_p2p_alive_timeout ==
    LET n == IF P2pInterfaces # {} THEN 0 ELSE alive_count + 1 IN
    /\ alive_timer /\ alive_cb = "idle" /\ vif_upset \subseteq {"race"}
    /\ IF Idle THEN Calm ELSE Happens("race")
    /\ \/ /\ n < P2P_ALIVE_TIME_COUNT
          /\ alive_count' = n /\ is_p2p_alive' = (is_p2p_alive \/ P2pInterfaces # {})
          /\ UNCHANGED <<alive_timer, p2p_stale, fw_vifs, alive_cb>>
       \/ /\ n >= P2P_ALIVE_TIME_COUNT
          /\ alive_count' = 0 /\ is_p2p_alive' = FALSE /\ alive_timer' = FALSE
          /\ p2p_stale' = (p2p_stale \/ ~DevExists)
          /\ IF DevExists THEN RemoveIf(vif[p2p_dev_vif].idx) ELSE UNCHANGED fw_vifs
          /\ alive_cb' = IF DevExists THEN "down" ELSE "idle"
    /\ UNCHANGED <<books, fw_on, p2p_dev_vif, scan_of, monitor_vif, vif_op>>

AliveTimeoutDown ==
    /\ alive_cb = "down" /\ alive_cb' = "idle" /\ (IF Idle THEN Calm ELSE Happens("race"))
    /\ p2p_stale' = (p2p_stale \/ ~DevExists)
    /\ IF DevExists
       THEN /\ vif' = [vif EXCEPT ![p2p_dev_vif].up = FALSE]
            /\ Detach(p2p_dev_vif)
            /\ vif_started' = Dec(vif_started)
       ELSE UNCHANGED books
    /\ UNCHANGED <<fw_vifs, fw_on, p2p_dev_vif, is_p2p_alive, alive_timer, alive_count, scan_of, monitor_vif, vif_op>>

\* A scan of an interface begins, or has its answer.
ScanEvent(v) ==
    /\ Begins /\ Running(v)
    /\ scan_of' = IF scan_of = NULL THEN v ELSE NULL
    /\ UNCHANGED <<books, fw_vifs, fw_on, p2pVars, monitor_vif, vif_op, alive_cb>>

-----------------------------------------------------------------------------
KernelBegins ==
    \/ \E t \in Types : rwnx_interface_add(t)
    \/ rwnx_virtual_interface_add
    \/ \E v \in Slots : \/ rwnx_cfg80211_del_iface(v) \/ rwnx_open(v) \/ rwnx_close(v)
                        \/ rwnx_cfgp2p_start_p2p_device(v) \/ rwnx_cfgp2p_stop_p2p_device(v)
                        \/ RocP2pDevice(v) \/ ScanEvent(v)
    \/ \E v \in Slots, t \in Types : rwnx_cfg80211_change_iface(v, t)

KernelGoesOn == \/ OpenP2pDevice \/ OpenAddIf \/ CloseDown \/ CloseCount
                \/ ChangeAddIf \/ StopDown

VifNext == KernelBegins \/ KernelGoesOn \/ aicwf_p2p_alive_timeout \/ AliveTimeoutDown

VifSpec == VifInit /\ [][VifNext]_vifVars

-----------------------------------------------------------------------------
(* Properties *)

Quiet == Idle /\ alive_cb = "idle"

VifTypeOK ==
    /\ \A s \in Slots : Exists(s) => vif[s] \in [type : Types, up : BOOLEAN, idx : Slots, run : BOOLEAN]
    /\ vif_table \in [Slots -> Slots \cup {NULL}]
    /\ vif_started \in 0 .. 255
    /\ fw_vifs \subseteq Regular

\* Between operations vif_started counts the interfaces that are up: the first
\* open starts the firmware and the last close resets it by this count.  Opens,
\* closes, type changes and the timer of the P2P device all keep it, unless a
\* request to the firmware fails or the timer callback overlaps an operation.
Counted ==
    Quiet /\ vif_upset = {} =>
        vif_started = Cardinality({v \in Slots : Exists(v) /\ vif[v].up})

\* Between operations vif_table, the interfaces and the firmware agree: the
\* table names exactly the interfaces that are up, each at its own number, and
\* those numbers are the ones the firmware has in use (rwnx_open, rwnx_close,
\* rwnx_cfg80211_change_iface and the timer callback).
TableAgrees ==
    Quiet /\ vif_upset = {} =>
        /\ \A i \in Slots : vif_table[i] # NULL =>
               Exists(vif_table[i]) /\ vif[vif_table[i]].up /\ vif[vif_table[i]].idx = i
        /\ \A v \in Slots : Exists(v) /\ vif[v].up => vif_table[vif[v].idx] = v
        /\ fw_vifs = {i \in Regular : vif_table[i] # NULL}

\* Interfaces are added only to a firmware that has been started.  The count
\* that decides on the start request also counts the P2P device, so this rests
\* on an interface having been opened before remain_on_channel brings the
\* device up (rwnx_open is the only one to send the request).
AddedAfterStart == fw_vifs # {} /\ vif_upset = {} => fw_on

\* No operation and no timer callback uses the P2P device after
\* rwnx_cfg80211_del_iface freed it: p2p_dev_vif is never cleared, so this rests
\* on rwnx_cfgp2p_stop_p2p_device having deleted the timer.
DeviceLives == vif_upset \subseteq {"cancel", "change"} => ~p2p_stale

\* The interfaces of rwnx_open, rwnx_close and rwnx_cfg80211_change_iface: counted,
\* in the table under the firmware's number, added after the start, and the P2P
\* device used only while it exists.
VifSound == VifTypeOK /\ Counted /\ TableAgrees /\ AddedAfterStart /\ DeviceLives
=============================================================================
