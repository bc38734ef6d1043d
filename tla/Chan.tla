-------------------------------- MODULE Chan --------------------------------
(***************************************************************************
 Channel contexts: which interface uses which channel, the reference counts of
 the contexts, the queues stopped while the radio is on another channel, the
 channel switch announcements of access points, and the channel availability
 check with radar detection (rwnx_main.c, rwnx_msg_rx.c, rwnx_radar.c).

 The kernel's operations run one at a time; the indications are handled by the
 receive thread, which takes no lock, the end of a channel switch announcement
 and of an availability check by work items.  Seven things leave the books wrong:
   "crossed"  an interface is linked while the receive thread is between the
              first and the last step of a channel switch,
   "freed"    an announcement is freed while its work item is queued or runs,
   "early"    the announcement's end arrives before its work item is initialised,
   "stuck"    the beacon of the new channel cannot be built or sent, and the announcement
              is neither finished nor freed,
   "nocac"    the check could not be started, but its timer runs and will report
              an interface without a channel,
   "late"     a check is cancelled while its work item runs, which reads cac_vif again,
   "relink"   an interface is linked again without having been unlinked (a
              roaming station, a mesh peer, an access point whose check is not over).
 What the program does after the first of them is not modelled.
 ***************************************************************************)
EXTENDS Integers, Sequences, FiniteSets, Null

CONSTANTS ApVifs, MeshVifs, StaVifs, MonVifs,   \* interfaces by type
          Chans, RadarChans,    \* channel contexts, and those on a channel with radar
          MaxChanMsgs,          \* bound: indications in flight
          Together              \* bound: the sets of interfaces that are linked at a time

VARIABLES ch_index,     \* interface -> its channel context, or NULL (RWNX_CH_NOT_SET)
          chan_count,   \* channel context -> interfaces linked
          chan_def,     \* the contexts whose chan_def.chan is set
          cur_chanctx,
          chan_stopped, \* interfaces whose queues are stopped for RWNX_TXQ_STOP_CHAN
          started,      \* access points and meshes that are started
          csa,          \* access point -> its announcement, or NULL
          cac_vif, cac_work,
          radar_on,     \* radar_detection_enable(REPORT) on the radio's own chain
          radar_hit,    \* radar was found on the current channel
          chan_op,      \* the kernel's operation under way
          switching,    \* the receive thread's channel switch: "no", "pre" or "started"
          chan_msgs,    \* indications in flight, oldest first
          chan_upset

Vifs == ApVifs \cup MeshVifs \cup StaVifs \cup MonVifs

\* The announcements of channel switches.
Announced == [work : {"raw", "idle", "queued", "runs"}, ch : Chans \cup {NULL}, ok : BOOLEAN]

\* NULL is none of these, and an interface has one type.
ASSUME ChanAssumption ==
    /\ IsFiniteSet(Vifs) /\ NULL \notin Vifs \cup Chans \cup Announced
    /\ ApVifs \cap MeshVifs = {} /\ StaVifs \cap MonVifs = {}
    /\ (ApVifs \cup MeshVifs) \cap (StaVifs \cup MonVifs) = {}

books_ == <<ch_index, chan_count, chan_def>>
cacVars == <<cac_vif, cac_work>>
radarVars == <<radar_on, radar_hit>>
chanVars == <<books_, cur_chanctx, chan_stopped, started, csa, cacVars, radarVars,
              chan_op, switching, chan_msgs, chan_upset>>

ChanInit ==
    /\ ch_index = [v \in Vifs |-> NULL] /\ chan_count = [c \in Chans |-> 0] /\ chan_def = {}
    /\ cur_chanctx = NULL /\ chan_stopped = {} /\ started = {}
    /\ csa = [v \in ApVifs |-> NULL]
    /\ cac_vif = NULL /\ cac_work = "idle" /\ radar_on = FALSE /\ radar_hit = FALSE
    /\ chan_op = <<"idle">> /\ switching = "no" /\ chan_msgs = <<>> /\ chan_upset = {}

ChanIdle == chan_op = <<"idle">>
Upset(S) == chan_upset' = chan_upset \cup S
If(p, e) == IF p THEN {e} ELSE {}

-----------------------------------------------------------------------------
\* The reference counts.

\* Mutant: the interfaces of the current channel stay counted.
CountKept(v) ==
    IF ch_index[v] \in {NULL, cur_chanctx} THEN chan_count
    ELSE [chan_count EXCEPT ![ch_index[v]] = IF @ = 0 THEN 0 ELSE @ - 1]

CountWithout(v) ==
    IF ch_index[v] = NULL THEN chan_count
    ELSE [chan_count EXCEPT ![ch_index[v]] = IF @ = 0 THEN 0 ELSE @ - 1]

EmptiedBy(v) == {c \in Chans : c = ch_index[v] /\ CountWithout(v)[c] = 0}

rwnx_chanctx_unlink(v) ==
    /\ ch_index' = [ch_index EXCEPT ![v] = NULL]
    /\ chan_count' = CountWithout(v)
    /\ chan_def' = chan_def \ EmptiedBy(v)

rwnx_chanctx_link(v, c, defs) ==
    /\ ch_index' = [ch_index EXCEPT ![v] = c]
    /\ chan_count' = [chan_count EXCEPT ![c] = @ + 1]
    /\ chan_def' = chan_def \cup defs

\* Unlink followed by link.
Relink(v, c, defs) ==
    /\ ch_index' = [ch_index EXCEPT ![v] = c]
    /\ chan_count' = [CountWithout(v) EXCEPT ![c] = @ + 1]
    /\ chan_def' = (chan_def \ EmptiedBy(v)) \cup defs

\* Mutant: the queues are always started on the new channel.
StartAnyway(v, c) == chan_stopped' = chan_stopped \ {v}

StopUnlessCurrent(v, c) ==
    chan_stopped' = IF c = cur_chanctx THEN chan_stopped \ {v} ELSE chan_stopped \cup {v}

\* Mutant: the flags are those of the channel the radio was on.
EnableByOld(cur) ==
    /\ radar_on' = IF cur_chanctx \in chan_def' THEN cur_chanctx \in RadarChans ELSE radar_on
    /\ radar_hit' = (radar_hit /\ cur = cur_chanctx)

\* Detection follows the flags of the current channel, if that is known.
rwnx_radar_detection_enable_on_cur_channel(cur) ==
    /\ radar_on' = IF cur \in chan_def' THEN cur \in RadarChans ELSE radar_on
    /\ radar_hit' = (radar_hit /\ cur = cur_chanctx)

\* Unlinking the last interface of the current channel ends detection.
RadarAfterUnlink(v) ==
    /\ radar_on' = (radar_on /\ cur_chanctx \notin EmptiedBy(v))
    /\ UNCHANGED radar_hit

\* Bound: room for one more interface on a channel.
Room(v) == \E us \in Together : {v} \cup {u \in Vifs : ch_index[u] # NULL} \subseteq us

Crossed == switching # "no"

-----------------------------------------------------------------------------
\* Access points and meshes.

\* The confirmation names the channel context; a refused request changes nothing.
rwnx_cfg80211_start_ap(v) ==
    /\ ChanIdle /\ v \in ApVifs \ started /\ cac_vif # v /\ Room(v)
    /\ \E c \in Chans : chan_op' = <<"start", v, c>>
    /\ UNCHANGED <<books_, cur_chanctx, chan_stopped, started, csa, cacVars, radarVars,
                   switching, chan_msgs, chan_upset>>

rwnx_cfg80211_join_mesh(v) ==
    /\ ChanIdle /\ v \in MeshVifs \ started /\ Room(v)
    /\ \E c \in Chans : chan_op' = <<"start", v, c>>
    /\ UNCHANGED <<books_, cur_chanctx, chan_stopped, started, csa, cacVars, radarVars,
                   switching, chan_msgs, chan_upset>>

\* Under cb_lock, which the receive thread does not take.
StartLink ==
    /\ chan_op[1] = "start"
    /\ LET v == chan_op[2]  c == chan_op[3] IN
       /\ rwnx_chanctx_link(v, c, {c})
       /\ StopUnlessCurrent(v, c)
       /\ started' = started \cup {v}
       /\ csa' = IF v \in ApVifs THEN [csa EXCEPT ![v] = NULL] ELSE csa
       /\ IF c = cur_chanctx THEN rwnx_radar_detection_enable_on_cur_channel(c) ELSE UNCHANGED radarVars
       /\ Upset(If(Crossed, "crossed") \cup If(ch_index[v] # NULL, "relink"))
    /\ chan_op' = <<"idle">>
    /\ UNCHANGED <<cur_chanctx, cacVars, switching, chan_msgs>>

\* A check whose timer has not fired ends here: the firmware is told, cfg80211 is
\* told, the interface unlinked.  When the work item runs already, only cac_vif is cleared.
rwnx_radar_cancel_cac ==
    /\ IF cac_vif # NULL /\ cac_work = "armed"
       THEN rwnx_chanctx_unlink(cac_vif) /\ RadarAfterUnlink(cac_vif) /\ cac_work' = "idle"
       ELSE UNCHANGED <<books_, radarVars, cac_work>>
    /\ cac_vif' = NULL
    /\ Upset(If(cac_work = "runs", "late"))

\* stop_ap first deletes the stations and ends any check, whichever interface it is for.
rwnx_cfg80211_stop_ap(v) ==
    /\ ChanIdle /\ v \in ApVifs \cap started
    /\ rwnx_radar_cancel_cac
    /\ chan_op' = <<"stop", v>>
    /\ UNCHANGED <<cur_chanctx, chan_stopped, started, csa, switching, chan_msgs>>

rwnx_del_csa(v) ==
    /\ csa' = [csa EXCEPT ![v] = NULL]
    /\ Upset(If(csa[v] # NULL /\ csa[v].work \in {"queued", "runs"}, "freed"))

StopUnlink ==
    /\ chan_op[1] = "stop"
    /\ LET v == chan_op[2] IN
       /\ rwnx_chanctx_unlink(v) /\ RadarAfterUnlink(v)
       /\ chan_stopped' = chan_stopped \ {v} /\ started' = started \ {v}
       /\ rwnx_del_csa(v)
    /\ chan_op' = <<"idle">>
    /\ UNCHANGED <<cur_chanctx, cacVars, switching, chan_msgs>>

\* leave_mesh unlinks the mesh and then ends any check, under cb_lock, which the
\* check's work item does not take.
rwnx_cfg80211_leave_mesh(v) ==
    /\ ChanIdle /\ v \in MeshVifs \cap started
    /\ rwnx_chanctx_unlink(v) /\ RadarAfterUnlink(v)
    /\ chan_stopped' = chan_stopped \ {v} /\ started' = started \ {v}
    /\ chan_op' = <<"left">>
    /\ UNCHANGED <<cur_chanctx, csa, cacVars, switching, chan_msgs, chan_upset>>

LeaveCancels ==
    /\ chan_op = <<"left">> /\ chan_op' = <<"idle">>
    /\ rwnx_radar_cancel_cac
    /\ UNCHANGED <<cur_chanctx, chan_stopped, started, csa, switching, chan_msgs>>

\* A peer of a mesh without user space peering is a new user of the mesh's channel.
rwnx_rx_mesh_peer_update_ind(v) ==
    /\ ChanIdle /\ v \in MeshVifs \cap started
    /\ rwnx_chanctx_link(v, ch_index[v], {}) /\ Upset({"relink"})
    /\ UNCHANGED <<cur_chanctx, chan_stopped, started, csa, cacVars, radarVars,
                   chan_op, switching, chan_msgs>>

\* The monitor is unlinked, and linked where the firmware says; with other
\* interfaces up the channel of the context is left as it is.
rwnx_cfg80211_set_monitor_channel(v) ==
    /\ ChanIdle /\ v \in MonVifs /\ Room(v)
    /\ \/ \E c \in Chans : \E defs \in {{}, {c}} : Relink(v, c, defs) /\ RadarAfterUnlink(v)
       \/ rwnx_chanctx_unlink(v) /\ RadarAfterUnlink(v)
    /\ UNCHANGED <<cur_chanctx, chan_stopped, started, csa, cacVars, chan_op, switching,
                   chan_msgs, chan_upset>>

\* rwnx_rx_sm_connect_ind and rwnx_rx_sm_disconnect_ind: a connection made and lost;
\* a roaming station is not disconnected in between.
StationLinks(v) ==
    /\ v \in StaVifs /\ switching = "no" /\ Room(v)
    /\ \E c \in Chans :
          /\ rwnx_chanctx_link(v, c, {c})
          /\ StopUnlessCurrent(v, c)
          /\ Upset(If(ch_index[v] # NULL, "relink"))
    /\ UNCHANGED <<cur_chanctx, started, csa, cacVars, radarVars, chan_op, switching, chan_msgs>>

StationUnlinks(v) ==
    /\ v \in StaVifs /\ switching = "no" /\ ch_index[v] # NULL
    /\ rwnx_chanctx_unlink(v) /\ RadarAfterUnlink(v)
    /\ chan_stopped' = chan_stopped \ {v}
    /\ UNCHANGED <<cur_chanctx, started, csa, cacVars, chan_op, switching, chan_msgs, chan_upset>>

-----------------------------------------------------------------------------
\* Channel switch announcements.

\* Refused while one is under way.  The announcement exists before the request
\* is sent, its work item only after the request is confirmed.
rwnx_cfg80211_channel_switch(v) ==
    /\ ChanIdle /\ v \in ApVifs \cap started /\ csa[v] = NULL
    /\ csa' = [csa EXCEPT ![v] = [work |-> "raw", ch |-> NULL, ok |-> FALSE]]
    /\ chan_op' = <<"csa", v>>
    /\ UNCHANGED <<books_, cur_chanctx, chan_stopped, started, cacVars, radarVars,
                   switching, chan_msgs, chan_upset>>

ChannelSwitchReturns ==
    /\ chan_op[1] = "csa"
    /\ LET v == chan_op[2] IN
       \/ csa' = [csa EXCEPT ![v].work = "idle"] /\ UNCHANGED chan_upset
       \/ rwnx_del_csa(v)
    /\ chan_op' = <<"idle">>
    /\ UNCHANGED <<books_, cur_chanctx, chan_stopped, started, cacVars, radarVars, switching, chan_msgs>>

\* Mutant: the work item is queued only for a switch that succeeded.
QueueIfOk(c, ok) == [work |-> IF ok THEN "queued" ELSE "idle", ch |-> c, ok |-> ok]

QueueCsa(c, ok) == [work |-> "queued", ch |-> c, ok |-> ok]

\* An access point leaves the rest to the work item.
rwnx_rx_csa_finish_ind ==
    /\ chan_msgs # <<>> /\ Head(chan_msgs)[1] = "csa" /\ switching = "no"
    /\ LET v == Head(chan_msgs)[2]  c == Head(chan_msgs)[3]  ok == Head(chan_msgs)[4] IN
       IF v \in ApVifs
       THEN /\ csa' = IF csa[v] = NULL THEN csa ELSE [csa EXCEPT ![v] = QueueCsa(c, ok)]
            /\ Upset(If(csa[v] # NULL /\ csa[v].work = "raw", "early"))
            /\ UNCHANGED <<books_, chan_stopped, radarVars>>
       ELSE /\ IF ok THEN /\ Relink(v, c, {}) /\ StopUnlessCurrent(v, c)
                          /\ IF c = cur_chanctx THEN rwnx_radar_detection_enable_on_cur_channel(c)
                             ELSE RadarAfterUnlink(v)
               ELSE UNCHANGED <<books_, chan_stopped, radarVars>>
            /\ UNCHANGED <<csa, chan_upset>>
    /\ chan_msgs' = Tail(chan_msgs)
    /\ UNCHANGED <<cur_chanctx, started, cacVars, chan_op, switching>>

CsaWorkStarts(v) ==
    /\ csa[v] # NULL /\ csa[v].work = "queued"
    /\ csa' = [csa EXCEPT ![v].work = "runs"]
    /\ UNCHANGED <<books_, cur_chanctx, chan_stopped, started, cacVars, radarVars,
                   chan_op, switching, chan_msgs, chan_upset>>

\* The switched interface gets its new channel under the wireless device's lock,
\* which the kernel's operations hold; a failed switch stops the interface.  Without
\* a buffer for the beacon, or when rwnx_send_bcn fails, the work item just returns.
rwnx_csa_finish(v) ==
    /\ csa[v] # NULL /\ csa[v].work = "runs" /\ chan_op = <<"idle">>
    /\ \/ /\ csa[v].ok
          /\ LET c == csa[v].ch IN
             /\ Relink(v, c, {c}) /\ StopUnlessCurrent(v, c)
             /\ IF c = cur_chanctx THEN rwnx_radar_detection_enable_on_cur_channel(c) ELSE RadarAfterUnlink(v)
          /\ Upset(If(Crossed, "crossed"))
          /\ csa' = [csa EXCEPT ![v] = NULL] /\ UNCHANGED chan_op
       \/ /\ csa' = [csa EXCEPT ![v].work = "idle"] /\ Upset({"stuck"})
          /\ UNCHANGED <<books_, chan_stopped, radarVars, chan_op>>
       \/ /\ csa' = [csa EXCEPT ![v] = NULL] /\ chan_op' = <<"stop", v>>
          /\ UNCHANGED <<books_, chan_stopped, radarVars, chan_upset>>
    /\ UNCHANGED <<cur_chanctx, started, cacVars, switching, chan_msgs>>

-----------------------------------------------------------------------------
\* Channel availability check and radar.

\* The timer is armed before the request is sent; the status is tested even when
\* the request failed and nothing was stored in it.
rwnx_cfg80211_start_radar_detection(v) ==
    /\ ChanIdle /\ v \in ApVifs \ started /\ cac_vif = NULL /\ cac_work = "idle" /\ ch_index[v] = NULL /\ Room(v)
    /\ cac_vif' = v /\ cac_work' = "armed"
    /\ \/ \E c \in Chans :
             /\ rwnx_chanctx_link(v, c, {c})
             /\ radar_on' = (radar_on \/ c = cur_chanctx) /\ UNCHANGED <<radar_hit, chan_upset>>
       \/ Upset({"nocac"}) /\ UNCHANGED <<books_, radarVars>>
    /\ UNCHANGED <<cur_chanctx, chan_stopped, started, csa, chan_op, switching, chan_msgs>>

CacWorkStarts ==
    /\ cac_work = "armed" /\ cac_vif # NULL
    /\ cac_work' = "runs"
    /\ UNCHANGED <<books_, cur_chanctx, chan_stopped, started, csa, cac_vif, radarVars,
                   chan_op, switching, chan_msgs, chan_upset>>

\* After the firmware has confirmed; cac_vif is read again.
rwnx_radar_cac_work ==
    /\ cac_work = "runs"
    /\ rwnx_chanctx_unlink(cac_vif) /\ RadarAfterUnlink(cac_vif)
    /\ cac_vif' = NULL /\ cac_work' = "idle"
    /\ UNCHANGED <<cur_chanctx, chan_stopped, started, csa, chan_op, switching, chan_msgs, chan_upset>>

\* Pulses that match a pattern: cfg80211 is told of the radar and detection ends,
\* and so does any check.
rwnx_radar_detected ==
    /\ radar_on /\ cur_chanctx \in chan_def
    /\ radar_hit' = TRUE /\ radar_on' = FALSE
    /\ IF cac_vif # NULL /\ cac_work = "armed"
       THEN rwnx_chanctx_unlink(cac_vif) /\ cac_work' = "idle"
       ELSE UNCHANGED <<books_, cac_work>>
    /\ cac_vif' = NULL
    /\ Upset(If(cac_work = "runs", "late"))
    /\ UNCHANGED <<cur_chanctx, chan_stopped, started, csa, chan_op, switching, chan_msgs>>

-----------------------------------------------------------------------------
\* The radio changes channel.

rwnx_rx_chan_pre_switch_ind ==
    /\ chan_msgs # <<>> /\ Head(chan_msgs)[1] = "pre" /\ switching = "no"
    /\ chan_stopped' = chan_stopped \cup {v \in Vifs \ MonVifs : ch_index[v] = cur_chanctx /\ ch_index[v] # NULL}
    /\ switching' = "pre" /\ chan_msgs' = Tail(chan_msgs)
    /\ UNCHANGED <<books_, cur_chanctx, started, csa, cacVars, radarVars, chan_op, chan_upset>>

rwnx_rx_chan_switch_ind ==
    /\ chan_msgs # <<>> /\ Head(chan_msgs)[1] = "switch" /\ switching = "pre"
    /\ chan_stopped' = chan_stopped \ {v \in Vifs : ch_index[v] = Head(chan_msgs)[2]}
    /\ switching' = "started"
    /\ UNCHANGED <<books_, cur_chanctx, started, csa, cacVars, radarVars, chan_op, chan_msgs, chan_upset>>

SetCurrent ==
    /\ switching = "started"
    /\ cur_chanctx' = Head(chan_msgs)[2]
    /\ chan_def' = chan_def
    /\ rwnx_radar_detection_enable_on_cur_channel(cur_chanctx')
    /\ switching' = "no" /\ chan_msgs' = Tail(chan_msgs)
    /\ UNCHANGED <<ch_index, chan_count, chan_stopped, started, csa, cacVars, chan_op, chan_upset>>

-----------------------------------------------------------------------------
\* External: the firmware.

FwSwitches ==
    /\ Len(chan_msgs) + 1 < MaxChanMsgs
    /\ \E c \in Chans : c # cur_chanctx /\ chan_msgs' = chan_msgs \o <<<<"pre">>, <<"switch", c>>>>
    /\ \A i \in DOMAIN chan_msgs : chan_msgs[i][1] = "csa"
    /\ UNCHANGED <<books_, cur_chanctx, chan_stopped, started, csa, cacVars, radarVars,
                   chan_op, switching, chan_upset>>

FwEndsCsa(v) ==
    /\ Len(chan_msgs) < MaxChanMsgs
    /\ \/ v \in ApVifs /\ csa[v] # NULL /\ csa[v].work \in {"raw", "idle"}
       \/ v \in StaVifs /\ ch_index[v] # NULL
    /\ \A i \in DOMAIN chan_msgs : ~(chan_msgs[i][1] = "csa" /\ chan_msgs[i][2] = v)
    /\ \E c \in Chans, ok \in BOOLEAN : chan_msgs' = Append(chan_msgs, <<"csa", v, c, ok>>)
    /\ UNCHANGED <<books_, cur_chanctx, chan_stopped, started, csa, cacVars, radarVars,
                   chan_op, switching, chan_upset>>

ReceiveThread ==
    rwnx_rx_csa_finish_ind \/ rwnx_rx_chan_pre_switch_ind \/ rwnx_rx_chan_switch_ind \/ SetCurrent

ChanNext ==
    /\ chan_upset = {}
    /\ \/ \E v \in Vifs :
             \/ rwnx_cfg80211_start_ap(v) \/ rwnx_cfg80211_join_mesh(v) \/ rwnx_cfg80211_stop_ap(v)
             \/ rwnx_cfg80211_leave_mesh(v) \/ rwnx_rx_mesh_peer_update_ind(v)
             \/ rwnx_cfg80211_set_monitor_channel(v) \/ StationLinks(v) \/ StationUnlinks(v)
             \/ rwnx_cfg80211_channel_switch(v) \/ rwnx_cfg80211_start_radar_detection(v) \/ FwEndsCsa(v)
       \/ \E v \in ApVifs : CsaWorkStarts(v) \/ rwnx_csa_finish(v)
       \/ StartLink \/ StopUnlink \/ LeaveCancels \/ ChannelSwitchReturns
       \/ CacWorkStarts \/ rwnx_radar_cac_work \/ rwnx_radar_detected
       \/ ReceiveThread \/ FwSwitches

\* The receive thread, the work queue and the operations run when they can; the
\* firmware ends every announcement it was given.
Runs(A) == chan_upset = {} /\ A

ChanFairness ==
    /\ WF_chanVars(Runs(ReceiveThread))
    /\ WF_chanVars(Runs(StartLink \/ StopUnlink \/ LeaveCancels \/ ChannelSwitchReturns))
    /\ \A v \in ApVifs : /\ WF_chanVars(Runs(CsaWorkStarts(v))) /\ SF_chanVars(Runs(rwnx_csa_finish(v)))
                         /\ SF_chanVars(Runs(FwEndsCsa(v)))

ChanSpec == ChanInit /\ [][ChanNext]_chanVars /\ ChanFairness

-----------------------------------------------------------------------------
\* Properties.

\* While nothing is linked twice, the count of a channel context is the number
\* of interfaces on it, and a context nobody uses has no channel.
ChanCounted ==
    "relink" \notin chan_upset =>
        \A c \in Chans : /\ chan_count[c] = Cardinality({v \in Vifs : ch_index[v] = c})
                         /\ c \in chan_def => chan_count[c] > 0

\* Between channel switches the queues that are stopped for their channel are
\* exactly those of the interfaces on another channel than the radio.
QueuesFollow ==
    (chan_upset = {} /\ switching = "no") =>
        \A v \in started \cup {s \in StaVifs : ch_index[s] # NULL} :
            v \in chan_stopped <=> ch_index[v] # cur_chanctx

\* An access point on a radar channel is protected while the radio is there:
\* detection is on, or radar has been reported.
RadarWatched ==
    (/\ chan_upset = {} /\ switching = "no" /\ cur_chanctx \in RadarChans
     /\ \E v \in started : ch_index[v] = cur_chanctx) => radar_on \/ radar_hit

\* An announcement that user space was told of ends: with the switch or by
\* stopping the access point.
CsaEnds ==
    \A v \in ApVifs : csa[v] # NULL ~> csa[v] = NULL \/ chan_upset # {}

\* The channel contexts with their counts, the queues that follow the radio and the
\* radar detection (rwnx_chanctx_link, rwnx_rx_channel_switch_ind, start_ap).
ChanSound == ChanCounted /\ QueuesFollow /\ RadarWatched
=============================================================================
