-------------------------------- MODULE Sta --------------------------------
(***************************************************************************
 The stations of an access point: adding, deleting, losing and probing them,
 and what the driver knows of their power save state (rwnx_main.c,
 rwnx_msg_rx.c).  A station is identified with its entry of sta_table.  The
 kernel's operations run one at a time; indications are handled by the receive
 thread; a lost station is deleted by a work item, and probes are answered by
 another.  What the program does after one of these is not modelled:
   "adding"     the add request failed and adding_sta stays set,
   "woke"       a station that was confirmed as asleep wakes up before it is added,
   "ghost"      the power save state of a station that is being deleted changes
                while another is added: it is remembered for the deleted one,
   "kept"       the delete request failed: the firmware keeps the station,
   "overtaken"  a station is lost while another's deletion has not been read, or
                a station is probed while another's probe has not been answered,
   "missed"     a station is lost before the driver that adds it has put it on the list,
   "cookie"     a probe is answered before its cookie is read.
 ***************************************************************************)
EXTENDS Integers, Sequences, Null

CONSTANTS Stas, MaxStaMsgs,     \* stations; bound: indications in flight
          MaxProbes             \* bound: probes answered

VARIABLES sta_list,     \* the valid stations on ap.sta_list
          sta_asleep,   \* stations with ps.active
          adding_sta,
          sta_op,       \* the kernel's operation under way
          lost_mac, loss_work,      \* sta_mac_addr and the work item: "idle", "queued" or <<station>>
          probe_mac, probe_id, probe_work, probe_cookie,
          probed,       \* the station whose probe user space waits for, or NULL
          fw_stas, fw_asleep,   \* external: the firmware's stations
          fw_lost,      \* external: the stations whose loss the firmware indicated
          sta_msgs, sta_upset

lossVars == <<lost_mac, loss_work>>
probeVars == <<probe_mac, probe_id, probe_work, probe_cookie, probed>>
fwVars == <<fw_stas, fw_asleep, fw_lost>>
staVars == <<sta_list, sta_asleep, adding_sta, sta_op, lossVars, probeVars, fwVars, sta_msgs, sta_upset>>

StaInit ==
    /\ sta_list = {} /\ sta_asleep = {} /\ adding_sta = FALSE /\ sta_op = <<"idle">>
    /\ lost_mac = NULL /\ loss_work = <<"idle">>
    /\ probe_mac = NULL /\ probe_id = 0 /\ probe_work = "idle" /\ probe_cookie = NULL /\ probed = NULL
    /\ fw_stas = {} /\ fw_asleep = {} /\ fw_lost = {} /\ sta_msgs = <<>> /\ sta_upset = {}

Ready == sta_op = <<"idle">>
Event(p, e) == sta_upset' = IF p THEN sta_upset \cup {e} ELSE sta_upset
\* The receive thread handles what the firmware indicated of a station before it
\* sees the confirmation of a request about it.
Seen(m) == \A i \in DOMAIN sta_msgs : sta_msgs[i][2] # m
Put(S, m, p) == IF p THEN S \cup {m} ELSE S \ {m}

-----------------------------------------------------------------------------
rwnx_cfg80211_add_station(m) ==
    /\ Ready /\ m \notin sta_list \cup fw_stas
    /\ adding_sta' = TRUE /\ sta_op' = <<"add", m>>
    /\ UNCHANGED <<sta_list, sta_asleep, lossVars, probeVars, fwVars, sta_msgs, sta_upset>>

\* External: the firmware adds the station and confirms its power save state.
FwAdds ==
    /\ sta_op[1] = "add" /\ Seen(sta_op[2])
    /\ \/ \E asleep \in BOOLEAN :
             /\ fw_stas' = fw_stas \cup {sta_op[2]} /\ fw_asleep' = Put(fw_asleep, sta_op[2], asleep)
             /\ sta_op' = <<"added", sta_op[2], asleep>> /\ UNCHANGED <<adding_sta, sta_upset>>
       \/ sta_op' = <<"idle">> /\ adding_sta' = FALSE /\ UNCHANGED <<fw_stas, fw_asleep, sta_upset>>  \* status
       \/ sta_op' = <<"idle">> /\ Event(TRUE, "adding") /\ UNCHANGED <<fw_stas, fw_asleep, adding_sta>>
    /\ UNCHANGED <<sta_list, sta_asleep, lossVars, probeVars, fw_lost, sta_msgs>>

\* Mutant: the confirmation is taken for the station's state.
PsAsConfirmed(m, confirmed) == Put(sta_asleep, m, confirmed)

\* The state an indication left while the station was being added is kept.
PsOnAdd(m, confirmed) == Put(sta_asleep, m, m \in sta_asleep \/ confirmed)

AddStationEnds ==
    /\ sta_op[1] = "added"
    /\ LET m == sta_op[2] IN
       /\ sta_list' = sta_list \cup {m}
       /\ sta_asleep' = PsOnAdd(m, sta_op[3])
       /\ Event(sta_op[3] /\ m \notin fw_asleep, "woke")
    /\ adding_sta' = FALSE /\ sta_op' = <<"idle">>
    /\ UNCHANGED <<lossVars, probeVars, fwVars, sta_msgs>>

\* Mutant: the station stays on the list until the request is confirmed.
OnlyInvalid(m) == UNCHANGED sta_list /\ sta_asleep' = sta_asleep \ {m}

\* A station is made invalid and taken off the list under cb_lock.
TakeOff(m) == sta_list' = sta_list \ {m} /\ sta_asleep' = sta_asleep \ {m}

\* Without an address every station is deleted, one after the other: stop_ap.
rwnx_cfg80211_del_station_compat(m, all) ==
    /\ Ready /\ m \in sta_list
    /\ TakeOff(m) /\ sta_op' = <<"del", m, all>>
    /\ UNCHANGED <<adding_sta, lossVars, probeVars, fwVars, sta_msgs, sta_upset>>

\* The firmware forgets a station when it confirms the request.
rwnx_send_me_sta_del(m) ==
    /\ Seen(m)
    /\ \/ /\ fw_stas' = fw_stas \ {m} /\ fw_asleep' = fw_asleep \ {m} /\ fw_lost' = fw_lost \ {m}
          /\ UNCHANGED sta_upset
       \/ Event(TRUE, "kept") /\ UNCHANGED fwVars

DelStationEnds ==
    /\ sta_op[1] = "del" /\ rwnx_send_me_sta_del(sta_op[2])
    /\ IF sta_op[3] /\ sta_list # {}
       THEN \E m \in sta_list : TakeOff(m) /\ sta_op' = <<"del", m, TRUE>>
       ELSE sta_op' = <<"idle">> /\ UNCHANGED <<sta_list, sta_asleep>>
    /\ UNCHANGED <<adding_sta, lossVars, probeVars, sta_msgs>>

-----------------------------------------------------------------------------
\* Indications.

rwnx_rx_ps_change_ind ==
    /\ sta_msgs # <<>> /\ Head(sta_msgs)[1] = "ps"
    /\ LET m == Head(sta_msgs)[2]  asleep == Head(sta_msgs)[3] IN
       sta_asleep' = IF m \in sta_list \/ adding_sta THEN Put(sta_asleep, m, asleep) ELSE sta_asleep
    /\ Event(adding_sta /\ Head(sta_msgs)[2] \notin sta_list \cup {sta_op[2]}, "ghost")
    /\ sta_msgs' = Tail(sta_msgs)
    /\ UNCHANGED <<sta_list, adding_sta, sta_op, lossVars, probeVars, fwVars>>

\* Mutant: the work item is not queued again while the last address is the same.
QueueIfNew == IF loss_work = <<"idle">> /\ lost_mac # Head(sta_msgs)[2] THEN <<"queued">> ELSE loss_work

QueueLoss == IF loss_work = <<"idle">> THEN <<"queued">> ELSE loss_work

rwnx_apm_staloss_ind ==
    /\ sta_msgs # <<>> /\ Head(sta_msgs)[1] = "loss"
    /\ lost_mac' = Head(sta_msgs)[2]
    /\ loss_work' = QueueLoss
    /\ Event(loss_work # <<"idle">>, "overtaken")
    /\ sta_msgs' = Tail(sta_msgs)
    /\ UNCHANGED <<sta_list, sta_asleep, adding_sta, sta_op, probeVars, fwVars>>

\* The address is not copied: the work item compares with what is there now.
apm_staloss_work_process ==
    /\ loss_work = <<"queued">>
    /\ IF lost_mac \in sta_list
       THEN TakeOff(lost_mac) /\ loss_work' = <<"del", lost_mac>>
       ELSE loss_work' = <<"idle">> /\ UNCHANGED <<sta_list, sta_asleep>>
    /\ Event(sta_op[1] = "added" /\ sta_op[2] = lost_mac, "missed")
    /\ UNCHANGED <<adding_sta, sta_op, lost_mac, probeVars, fwVars, sta_msgs>>

StalossEnds ==
    /\ loss_work[1] = "del" /\ rwnx_send_me_sta_del(loss_work[2])
    /\ loss_work' = <<"idle">>
    /\ UNCHANGED <<sta_list, sta_asleep, adding_sta, sta_op, lost_mac, probeVars, sta_msgs>>

-----------------------------------------------------------------------------
\* Probes.  Whether the station is on the list makes no difference to the operation.

rwnx_cfg80211_probe_client(m) ==
    /\ Ready /\ probe_id < MaxProbes
    /\ probe_mac' = m /\ probe_work' = "queued" /\ probed' = m /\ probe_cookie' = NULL
    /\ sta_op' = <<"probe">>
    /\ Event(probe_work = "queued", "overtaken")
    /\ UNCHANGED <<sta_list, sta_asleep, adding_sta, lossVars, probe_id, fwVars, sta_msgs>>

\* Mutant: the cookie names the next probe.
NextCookieOf == probe_id + 1

CookieOf == probe_id

ReadCookie ==
    /\ sta_op[1] = "probe"
    /\ probe_cookie' = CookieOf /\ sta_op' = <<"idle">>
    /\ Event(probe_work = "idle", "cookie")
    /\ UNCHANGED <<sta_list, sta_asleep, adding_sta, lossVars, probe_mac, probe_id, probe_work, probed,
                   fwVars, sta_msgs>>

NextProbe == probe_id + 1

apm_probe_sta_work_process ==
    /\ probe_work = "queued"
    /\ probe_work' = "idle" /\ probe_id' = NextProbe /\ probed' = NULL
    /\ UNCHANGED <<sta_list, sta_asleep, adding_sta, sta_op, lossVars, probe_mac, probe_cookie,
                   fwVars, sta_msgs, sta_upset>>

-----------------------------------------------------------------------------
\* External: the firmware sees a station change its power save state, or loses it.

FwPs(m) ==
    /\ m \in fw_stas \ fw_lost /\ Len(sta_msgs) < MaxStaMsgs
    /\ fw_asleep' = Put(fw_asleep, m, m \notin fw_asleep)
    /\ sta_msgs' = Append(sta_msgs, <<"ps", m, m \notin fw_asleep>>)
    /\ UNCHANGED <<sta_list, sta_asleep, adding_sta, sta_op, lossVars, probeVars, fw_stas, fw_lost, sta_upset>>

FwLoses(m) ==
    /\ m \in fw_stas \ fw_lost /\ Len(sta_msgs) < MaxStaMsgs
    /\ fw_lost' = fw_lost \cup {m} /\ sta_msgs' = Append(sta_msgs, <<"loss", m>>)
    /\ UNCHANGED <<sta_list, sta_asleep, adding_sta, sta_op, lossVars, probeVars, fw_stas, fw_asleep, sta_upset>>

StaNext ==
    /\ sta_upset = {}
    /\ \/ \E m \in Stas : \/ rwnx_cfg80211_add_station(m) \/ FwPs(m) \/ FwLoses(m)
                          \/ rwnx_cfg80211_probe_client(m)
                          \/ \E all \in BOOLEAN : rwnx_cfg80211_del_station_compat(m, all)
       \/ FwAdds \/ AddStationEnds \/ DelStationEnds
       \/ rwnx_rx_ps_change_ind \/ rwnx_apm_staloss_ind
       \/ apm_staloss_work_process \/ StalossEnds
       \/ ReadCookie \/ apm_probe_sta_work_process

StaWorks(A) == sta_upset = {} /\ A

\* The receive thread and the work queue run; operations return.
StaFairness ==
    /\ WF_staVars(StaWorks(rwnx_rx_ps_change_ind \/ rwnx_apm_staloss_ind))
    /\ WF_staVars(StaWorks(apm_staloss_work_process)) /\ SF_staVars(StaWorks(StalossEnds))
    /\ SF_staVars(StaWorks(DelStationEnds)) /\ SF_staVars(StaWorks(AddStationEnds))

StaSpec == StaInit /\ [][StaNext]_staVars /\ StaFairness

-----------------------------------------------------------------------------
\* The firmware's stations are those on the list and those that are being added
\* or deleted by one of the two actors, never by both.
StaAgrees ==
    LET adding == IF sta_op[1] = "added" THEN {sta_op[2]} ELSE {}
        deleting == IF sta_op[1] = "del" THEN {sta_op[2]} ELSE {}
        losing == IF loss_work[1] = "del" THEN {loss_work[2]} ELSE {} IN
    sta_upset = {} => /\ fw_stas = sta_list \cup adding \cup deleting \cup losing
                      /\ deleting \cap losing = {} /\ (deleting \cup losing) \cap sta_list = {}

\* When no indication is under way the driver holds a station for asleep exactly
\* when it is: its traffic is neither sent to a sleeping station nor held back
\* from one that is awake.
PsAgrees ==
    (sta_upset = {} /\ sta_msgs = <<>>) => \A m \in sta_list : m \in sta_asleep <=> m \in fw_asleep

\* The answer to the probe that is waited for will name its cookie and its station.
ProbeIsOwn ==
    (sta_upset = {} /\ probed # NULL /\ sta_op[1] # "probe") =>
        /\ probe_work = "queued" /\ probe_cookie = probe_id /\ probe_mac = probed

\* A station the firmware has lost is deleted.
LostIsDeleted == \A m \in Stas : m \in fw_lost ~> m \notin fw_stas \/ sta_upset # {}

\* The stations, their sleep and the probe (rwnx_cfg80211_add_station,
\* rwnx_rx_ps_change_ind, rwnx_cfg80211_probe_client).
StaSound == StaAgrees /\ PsAgrees /\ ProbeIsOwn
=============================================================================
