---- MODULE MCParts ----
(* One instance for the modules of control, messages, loading and removal: a behaviour follows one of them;
   the variables of the others keep their initial values, or are not there at all. *)
EXTENDS Sta, Roc, LoadBus, Vif, Conn, Chan

CONSTANTS Parts,      \* the modules this run explores
          Devs,
          Tids, Prio, NoQ, PsIdMaps, HwqOf, Senders, Credits, CreditMax, Wrap, LimitWrap, FlowStop, FlowRestart,
          HwqSize, Requests, MaxFrames, MaxRetry, Scenarios, PulseMax, Radars, MaxServed, RxScripts,
          FragRoom, UcChips, UcSome, UcShapes, UcPartners, MaxPlugs, TpScripts, USB_TXDESC_CNT,
          IndexWrap, MeshSlots, Concerns

CONSTANTS q1, q2

\* The two data queues of the station of TxQueue, on one hardware queue.
TxTids == <<q1, q2>>
TxHwq == [q \in {q1, q2} |-> 1]
TxKinds == {[q \in {q1, q2} |-> "legacy"], [q \in {q1, q2} |-> IF q = q2 THEN "uapsd" ELSE "legacy"]}

\* The pulses of one behaviour of Radar: a short pattern with jitter, a weather pattern, and pulses amid changes of region.
Pulse(g, o, l) == [gap |-> g, off |-> o, len |-> l]
Pulses == {[pulses |-> {Pulse(333, 0, 4), Pulse(333, 2, 4)}, max |-> 5, mixed |-> FALSE, opts |-> {TRUE}],
           [pulses |-> {Pulse(1600000, 0, 60), Pulse(300000, 0, 60)}, max |-> 5, mixed |-> FALSE, opts |-> {TRUE}],
           [pulses |-> {Pulse(333, 0, 4)}, max |-> 1, mixed |-> TRUE, opts |-> BOOLEAN]}

\* The frames of one behaviour of RxData: one frame of any kind with failing calls,
\* fragments of two senders with failing calls, fragments of two frames that are lost
\* and repeated, and isolated stations.
Members == {"s1", "s2", "s3"}
Unicast(d) == [vif |-> "ap", upload |-> TRUE, mon |-> FALSE, mgmt |-> NULL, qos |-> TRUE, reord |-> FALSE, amsdu |-> FALSE,
               to |-> <<d>>, more |-> FALSE, fn |-> 0, sn |-> 0, len |-> 500, src |-> "s1",
               dst |-> IF d \in Members THEN d ELSE NULL, vlan |-> NULL, fmt |-> 0, ants |-> 1, agg |-> FALSE]
RxPart(s, n, m, l) == [Unicast("s2") EXCEPT !.src = s, !.fn = n, !.more = m, !.sn = 1, !.len = l]
DataFrames == {[x EXCEPT !.vif = v, !.qos = q, !.reord = r, !.vlan = w] :
                  x \in {Unicast(d) : d \in {"group", "s2", "other"}} \cup
                        {[Unicast("group") EXCEPT !.amsdu = TRUE, !.to = <<d, e>>] : d \in {"group", "s2"}, e \in {"other", "s1"}},
                  v \in {"ap", "sta"}, q \in BOOLEAN, r \in BOOLEAN, w \in {NULL, "gone", "vlan"}}
MonFrames == {[Unicast("other") EXCEPT !.mon = TRUE, !.upload = u, !.fmt = t, !.ants = a, !.agg = g] :
                 u \in BOOLEAN, g \in BOOLEAN, t \in 0 .. 8, a \in 0 .. 4}
MgmtFrames == {[Unicast("other") EXCEPT !.mgmt = k, !.vif = v] : k \in {"beacon", "deauth", "ft", "other"}, v \in {"ap", "sta", NULL}}
TwoSenders == {RxPart("s1", 0, TRUE, 700), RxPart("s1", 1, TRUE, 700), RxPart("s1", 1, FALSE, 700), RxPart("s3", 0, TRUE, 700),
               RxPart("s3", 1, FALSE, 700), RxPart("s1", 0, TRUE, 1500)}
TwoFrames == {RxPart("s1", 0, TRUE, 500), RxPart("s1", 1, TRUE, 500), RxPart("s1", 2, FALSE, 500),
              [RxPart("s1", 0, TRUE, 500) EXCEPT !.sn = 2], [RxPart("s1", 1, FALSE, 500) EXCEPT !.sn = 2]}
Script(fs, n, iso, faults) == [frames |-> fs, max |-> n, members |-> Members, isolate |-> iso, faults |-> faults]
Scripts == {Script({x}, 1, FALSE, TRUE) : x \in DataFrames \cup MonFrames \cup MgmtFrames} \cup
           {Script(TwoSenders, 3, FALSE, TRUE),
            Script(TwoFrames, 6, FALSE, FALSE), Script({RxPart("s1", 0, TRUE, 500), RxPart("s1", 1, FALSE, 500)}, 2, TRUE, FALSE)}

\* The keys of the longer files of UserConf.
FewKeys == [c \in UcChips |->
    CASE c = "8801" -> {<<"enable", "enable">>, <<"lvl", "dsss">>}
      [] c = "X2"   -> {<<"ofst_enable", "enable">>, <<"ofst_5g_ant1", <<"42", "highrate">>>>}
      [] c = "D81"  -> {<<"loss", "enable_5g">>, <<"loss", "value_5g">>}
      [] OTHER      -> {<<"loss", "enable_2g4">>, <<"enable", "enable">>}]

\* The situations of TxPath: every priority and admission bit, stations that come and
\* go, a ring with failing calls, a ring that is lapped, every kind of interface.
Peer(m, q, a) == [mac |-> m, qos |-> q, acm |-> a]
Offer(k, d, u) == [kind |-> k, dst |-> d, up |-> u, src |-> "own"]
Group == Peer("group", FALSE, {})
Situation(v, os, n, ss, cs, fs) ==
    [vif |-> v, offers |-> os, max |-> n, stas |-> ss, comers |-> cs, faults |-> fs,
     proxy |-> [m \in {"proxied"} |-> "far"], path |-> [m \in {"far"} |-> "s1"]]
Situations ==
    {Situation("sta", {Offer("data", "ap", u) : u \in 0 .. 7}, 1, <<Peer("ap", q, a)>>, {}, FALSE) : q \in BOOLEAN, a \in SUBSET (0 .. 3)}
    \cup {Situation("ap", {Offer("data", d, 5) : d \in {"s1", "s2"}} \cup {Offer("ack", "s1", 0), Offer("eapol", "s1", 6), Offer("action", "s1", 0)}, 2,
                    <<Peer("s1", TRUE, {3})>>, {Peer("s2", TRUE, {}), Peer("s1", FALSE, {})}, FALSE),
          Situation("ap", {Offer("eapol", "s1", 6), Offer("assoc", "s2", 0), Offer("auth", "s1", 0), Offer("ack", "s1", 0)}, 2, <<Peer("s1", TRUE, {}), Group>>, {}, TRUE),
          Situation("ap", {Offer("eapol", "s1", 6), Offer("action", "s1", 0)}, 3, <<Peer("s1", TRUE, {})>>, {}, FALSE)}
    \cup {Situation(v, {[Offer("data", d, 3) EXCEPT !.src = x] : d \in {"s1", "far", "proxied", "group"}, x \in {"own", "behind"}}, 1,
                    <<Peer("s1", TRUE, {}), Group, Peer("wds", TRUE, {})>>, {}, FALSE) : v \in {"ap", "vlan", "4a", "mesh", "mon"}}

\* The concerns of Mesh: power modes of two links; a path that changes hops; two
\* paths through a peer; a slot that changes hands; proxies.
Concern(s, m, t, i, o, p, n) == [slots |-> s, macs |-> m, tgts |-> t, ids |-> i, outer |-> o, modes |-> p, max |-> n]
MeshConcerns ==
    {Concern({0, 1}, {"m1", "m2"}, {}, {}, {}, {1, 2}, 2), Concern({0, 1}, {"m1", "m2"}, {"m2"}, {1}, {}, {}, 1),
     Concern({0}, {"m1"}, {"m1", "m2"}, {1, 2}, {}, {}, 1), Concern({0}, {"m1", "m2"}, {"m2"}, {1}, {}, {}, 2),
     Concern({0}, {"m1"}, {"m2"}, {1}, {"o1"}, {}, 2)}

VARIABLES which, ps_id, events, active, stop, flagged, list, need, sk, nb_retry, last_retry, credits, limit,
          sent, flow, closed, tbusy, psOn, ready, sp, tim, valid, add, vstop, dq, flushing, task, walk,
          sender, cfm, nf, fw, out,
          x1, x2, x3, x4, x5, x6, x7, x8, x9, x10, x11, x12, x13, x14, x15, x16, x17, x18, x19, x20, x21

\* A behaviour follows one of these nine modules or none, so they share their variables.
M == INSTANCE MsgTx WITH chip <- x1, bus_up <- x2, crashed <- x3, script <- x4, buf <- x5, deferred <- x6, owed <- x7,
      answer <- x8, mishap <- x9
L == INSTANCE LoadFw WITH pid <- x1, truth <- x2, mem <- x3, boots <- x4, ours <- x5, fw_loaded <- x6, testmode <- x7,
      rev <- x8, chip_mcu_id <- x9, chipid <- x10, bound <- x11, script <- x12, held <- x13, passed <- x14,
      crashed <- x15, upset <- x16
G == INSTANCE Bringup WITH product <- x1, mode <- x2, dpd_file <- x3, revision <- x4, bound_devs <- x5, probing <- x6,
      todo <- x7, taken <- x8, plat_of <- x9, plat_on <- x10, chip_sub_id <- x11, chip_mcu <- x12, mgr_dead <- x13,
      missed <- x14, started_fw <- x15, bring_upset <- x16, lost_cmd <- x17
Z == INSTANCE Removal WITH sem <- x1, deinit_atomic <- x2, wait_cb <- x3, enabled <- x4, usb_state <- x5,
      bound_to <- x6, urbs <- x7, cb <- x8, disc <- x9, disc_holds <- x10, exit <- x11, tearing <- x12,
      rem_upset <- x13
T == INSTANCE TxQueue
D == INSTANCE Radar WITH radar_opt <- x1, radar_in <- x2, radar_status <- x3, sta_num <- x4, radar_enabled <- x5,
      region <- x6, dets <- x7, last_pulse_ts <- x8, prev_jiffies <- x9, clock <- x10, nr <- x11, ring <- x12,
      ind <- x13, batch <- x14, cac_on <- x15, served <- x16, heard <- x17, alarm <- x18, radar_upset <- x19
X == INSTANCE RxData WITH rx_in <- x1, nrx <- x2, vifs_up <- x3, entries <- x4, arming <- x5, torn <- x6, held <- x7,
      outcome <- x8, rx_upset <- x9
U == INSTANCE UserConf WITH uc_chip <- x1, uc_phase <- x2, uc_file <- x3, userconfig_info <- x4, uc_sent <- x5,
      uc_plugs <- x6, uc_upset <- x7
Y == INSTANCE TxPath WITH tp_in <- x1, tp_sta <- x2, tp_frame <- x3, tp_asked <- x4, tx_host_id <- x5,
      txdesc_free_idx <- x6, tp_fw <- x7, tp_up <- x8, tp_bad <- x9, tp_upset <- x10
W == INSTANCE Mesh WITH concern <- x1, joined <- x2, user_mpm <- x3, mesh_sta <- x4, mesh_links <- x5,
      mpath_list <- x6, proxy_list <- x7, create_path <- x8, mesh_pm <- x9, next_mesh_pm <- x10, mesh_op <- x11,
      lookup <- x12, steered <- x13, dumped <- x14, fw_links <- x15, fw_paths <- x16, fw_proxies <- x17, fw_pm <- x18,
      fw_asked <- x19, mesh_msgs <- x20, mesh_upset <- x21

vif_vars == <<vif, vif_table, vif_started, fw_vifs, fw_on, p2p_dev_vif, is_p2p_alive, alive_timer,
            alive_count, scan_of, monitor_vif, vif_op, alive_cb, p2p_stale, vif_upset>>
conn_vars == <<conn_state, is_roam, ext_auth, ap_valid, chan_linked, carrier, conn_up, told, scan_request,
            cfg_scan, scanning, scan_done_of, conn_op, fw_conn, fw_scan, conn_msgs, null_used,
            conn_upset>>
chan_vars == <<ch_index, chan_count, chan_def, cur_chanctx, chan_stopped, started, csa, cac_vif, cac_work,
            radar_on, radar_hit, chan_op, switching, chan_msgs, chan_upset>>
sta_vars == <<sta_list, sta_asleep, adding_sta, sta_op, lost_mac, loss_work, probe_mac, probe_id,
            probe_work, probe_cookie, probed, fw_stas, fw_asleep, fw_lost, sta_msgs, sta_upset>>
roc_vars == <<roc_elem, roc_cookie_cnt, offchan, offchan_on, roc_op, roc_ready, roc_given, fw_roc,
            roc_msgs, key_hw, key_flag, fw_keys, roc_upset>>
lbus_vars == <<up, app_cmp, rxbuf, work, rxq, busrx_trgg, rxthread, inblock, caller, cmd, listed,
            crashed, got, msg_urb, answers, down, lbus_upset>>
txq_vars == <<ps_id, events, active, stop, flagged, list, need, sk, nb_retry, last_retry, credits, limit,
            sent, flow, closed, tbusy, psOn, ready, sp, tim, valid, add, vstop, dq, flushing, task,
            walk, sender, cfm, nf, fw, out>>
own_vars == <<which, vif_vars, conn_vars, chan_vars, sta_vars, roc_vars, lbus_vars, txq_vars>>

\* The variables that the part does not use, from one on.
Free20 == x20 = NULL /\ x21 = NULL
Free18 == x18 = NULL /\ x19 = NULL /\ Free20
Free17 == x17 = NULL /\ Free18
Free14 == x14 = NULL /\ x15 = NULL /\ x16 = NULL /\ Free17
Free11 == x11 = NULL /\ x12 = NULL /\ x13 = NULL /\ Free14
Free10 == x10 = NULL /\ Free11
Free8 == x8 = NULL /\ x9 = NULL /\ Free10
Free1 == x1 = NULL /\ x2 = NULL /\ x3 = NULL /\ x4 = NULL /\ x5 = NULL /\ x6 = NULL /\ x7 = NULL /\ Free8

\* The same variables, for UNCHANGED.
from20 == <<x20, x21>>
from18 == <<x18, x19, from20>>
from17 == <<x17, from18>>
from14 == <<x14, x15, x16, from17>>
from11 == <<x11, x12, x13, from14>>
from10 == <<x10, from11>>
from8 == <<x8, x9, from10>>
from1 == <<x1, x2, x3, x4, x5, x6, x7, from8>>

all_vars == <<own_vars, from1>>

Init ==
    /\ which \in Parts
    /\ VifInit
    /\ ConnInit
    /\ ChanInit
    /\ StaInit
    /\ RocInit
    /\ BusInit /\ (which = "lbus" \/ rxbuf = [b \in RxBufs |-> "flying"])
    /\ T!Init /\ (which = "txq" \/ (events = {"ps", "busy"} /\ ps_id = [q \in {q1, q2} |-> "legacy"]))
    /\ CASE which = "msg" -> M!MsgInit /\ Free10
         [] which = "load" -> L!LoadInit /\ Free17
         [] which = "bring" -> G!BringInit /\ Free18
         [] which = "rem" -> Z!RemInit /\ Free14
         [] which = "radar" -> D!RadarInit /\ Free20
         [] which = "rxdata" -> X!RxInit /\ Free10
         [] which = "conf" -> U!UcInit /\ Free8
         [] which = "txpath" -> Y!TpInit /\ Free11
         [] which = "mesh" -> W!MeshInit
         [] OTHER -> Free1

vif_step == which = "vif" /\ VifNext /\ UNCHANGED <<which, conn_vars, chan_vars, sta_vars, roc_vars, lbus_vars, txq_vars, from1>>
conn_step == which = "conn" /\ ConnNext /\ UNCHANGED <<which, vif_vars, chan_vars, sta_vars, roc_vars, lbus_vars, txq_vars, from1>>
chan_step == which = "chan" /\ ChanNext /\ UNCHANGED <<which, vif_vars, conn_vars, sta_vars, roc_vars, lbus_vars, txq_vars, from1>>
sta_step == which = "sta" /\ StaNext /\ UNCHANGED <<which, vif_vars, conn_vars, chan_vars, roc_vars, lbus_vars, txq_vars, from1>>
roc_step == which = "roc" /\ RocNext /\ UNCHANGED <<which, vif_vars, conn_vars, chan_vars, sta_vars, lbus_vars, txq_vars, from1>>
msg_step == which = "msg" /\ M!MsgNext /\ UNCHANGED <<own_vars, from10>>
load_step == which = "load" /\ L!LoadNext /\ UNCHANGED <<own_vars, from17>>
lbus_step == which = "lbus" /\ BusNext /\ UNCHANGED <<which, vif_vars, conn_vars, chan_vars, sta_vars, roc_vars, txq_vars, from1>>
bring_step == which = "bring" /\ G!BringNext /\ UNCHANGED <<own_vars, from18>>
rem_step == which = "rem" /\ Z!RemNext /\ UNCHANGED <<own_vars, from14>>
txq_step == which = "txq" /\ T!Next /\ UNCHANGED <<which, vif_vars, conn_vars, chan_vars, sta_vars, roc_vars, lbus_vars, from1>>
radar_step == which = "radar" /\ D!RadarNext /\ UNCHANGED <<own_vars, from20>>
rxdata_step == which = "rxdata" /\ X!RxNext /\ UNCHANGED <<own_vars, from10>>
conf_step == which = "conf" /\ U!UcNext /\ UNCHANGED <<own_vars, from8>>
txpath_step == which = "txpath" /\ Y!TpNext /\ UNCHANGED <<own_vars, from11>>
mesh_step == which = "mesh" /\ W!MeshNext /\ UNCHANGED own_vars

Next == vif_step \/ conn_step \/ chan_step \/ sta_step \/ roc_step \/ msg_step \/ load_step \/ lbus_step \/ bring_step \/ rem_step \/ txq_step \/ radar_step \/ rxdata_step \/ conf_step \/ txpath_step \/ mesh_step

Spec == Init /\ [][Next]_all_vars

\* The fairness that each of these modules states.
LiveSpec ==
    /\ Spec
    /\ WF_conn_vars(which = "conn" /\ ConnectSent)
    /\ WF_conn_vars(which = "conn" /\ CloseGoesOn)
    /\ WF_conn_vars(which = "conn" /\ RxHandles)
    /\ WF_conn_vars(which = "conn" /\ FwEndsJoin)
    /\ WF_conn_vars(which = "conn" /\ FwLeaves)
    /\ WF_conn_vars(which = "conn" /\ FwEndsScan)
    /\ WF_chan_vars(which = "chan" /\ Runs(ReceiveThread))
    /\ WF_chan_vars(which = "chan" /\ Runs(StartLink \/ StopUnlink \/ LeaveCancels \/ ChannelSwitchReturns))
    /\ \A v \in ApVifs : WF_chan_vars(which = "chan" /\ Runs(CsaWorkStarts(v)))
    /\ \A v \in ApVifs : SF_chan_vars(which = "chan" /\ Runs(rwnx_csa_finish(v)))
    /\ \A v \in ApVifs : SF_chan_vars(which = "chan" /\ Runs(FwEndsCsa(v)))
    /\ WF_sta_vars(which = "sta" /\ StaWorks(rwnx_rx_ps_change_ind \/ rwnx_apm_staloss_ind))
    /\ WF_sta_vars(which = "sta" /\ StaWorks(apm_staloss_work_process))
    /\ SF_sta_vars(which = "sta" /\ StaWorks(StalossEnds))
    /\ SF_sta_vars(which = "sta" /\ StaWorks(DelStationEnds))
    /\ SF_sta_vars(which = "sta" /\ StaWorks(AddStationEnds))
    /\ WF_txq_vars(which = "txq" /\ (T!WalkActive \/ T!WalkInactive \/ T!WalkEnd))
    /\ WF_txq_vars(which = "txq" /\ T!Task)
    /\ \A x \in Senders : WF_txq_vars(which = "txq" /\ T!QueueSkb(x))
    /\ \A x \in T!PsIds : WF_txq_vars(which = "txq" /\ (\E n \in Requests : T!TrafficReq(n, x)))

\* A message and its buffer are freed once, its answer is there and fits (rwnx_send_msg).
MessagesSound == which = "msg" => M!MessagesSound

\* A started device has all its mode needs; a probe holds all or nothing (aicfw_download_fw).
LoadSound == which = "load" => L!LoadSound

\* A failed probe undoes what it did, and a device in use is configured (rwnx_cfg80211_init).
BringupSound == which = "bring" => G!BringupSound

\* The driver is torn down once, and its semaphore comes back (aicwf_usb_disconnect, aicwf_usb_exit).
RemovalSound == which = "rem" => Z!RemovalSound

\* A radar alarm is raised by pulses whose distances fit a pattern (dfs_pattern_detector_add_pulse).
RadarSound == which = "radar" => D!RadarSound

\* Frames reach host and air once, fragments in order, and no partial frame waits for ever (rwnx_rxdataind_aicwf).
RxDataSound == which = "rxdata" => X!RxDataSound

\* The firmware is told what the user's file says, but for the keys whose lines went wrong (rwnx_plat_userconfig_parsing).
UserConfSound == which = "conf" => U!UserConfSound

\* A frame keeps to its station and class, its confirmation finds it and it is released once (rwnx_tx_push).
TxPathSound == which = "txpath" => Y!TxPathSound

\* Paths, peers, requests and power modes of a mesh agree with the firmware (rwnx_update_mesh_power_mode).
MeshSound == which = "mesh" => W!MeshSound

\* A frame for a station that goes on sleeping and polls reaches it (rwnx_txq_queue_skb).
PollDelivers == T!PollDelivers

====
