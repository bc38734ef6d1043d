-------------------------------- MODULE Mesh --------------------------------
(***************************************************************************
 A mesh interface (rwnx_main.c, rwnx_msg_rx.c, rwnx_mesh.c, rwnx_tx.c): the
 peers, the paths and proxies that the firmware reports and a frame is steered
 by, the request for a path that is missing, and the power mode of the links.

 The kernel's operations run one at a time and sleep while the firmware
 answers; the receive thread applies the indications meanwhile; a frame looks
 its way up on a third processor.  Nothing protects the lists.  A behaviour
 ends with
   "freed"       the receive thread frees the path or the proxy a frame has found,
   "lostpeer"    a peer goes while a path leads to its slot or is reported to,
   "nopeer"      a path is reported through a slot whose peer is not listed (yet),
   "stuck"       a request for a path fails: no other is ever made,
   "nomem"       there is no memory for a path or a proxy that is reported,
   "left"        the mesh is left while there are links, paths or proxies: they stay,
   "skipped"     a path goes while user space lists the paths by their number.
 The firmware's power mode is no longer what the links ask for once
   "unrecorded"  the power mode is set for a mesh without links: mesh_pm is not,
   "uncounted"   the mode is chosen for a new link before the link is listed,
   "silent"      a link comes or goes by indication: no mode is chosen,
   "refused"     a request about a link or its mode fails.
 ***************************************************************************)
EXTENDS Integers, Sequences, FiniteSets, SequencesExt, Null

CONSTANTS MeshSlots,            \* places of sta_table
          Concerns              \* bound: what a behaviour is about, [slots, macs, tgts, ids, outer,
                                \* modes, max]: places and addresses of peers, addresses and
                                \* numbers of paths, addresses behind a mesh station, power
                                \* modes, indications in flight

VARIABLES concern,      \* one of Concerns; never changes
          joined, user_mpm,
          mesh_sta,     \* slot -> [mac, pm, valid]; the memory stays when a peer goes
          mesh_links,   \* ap.sta_list, a set of slots
          mpath_list,   \* sequence of [idx, tgt, hop, via]: the slot of the next hop, and whose it was
          proxy_list,   \* sequence of [ext, local, at]
          create_path, mesh_pm, next_mesh_pm,
          mesh_op,      \* the kernel's operation under way
          lookup,       \* a frame on its way: [dst, proxy, path], or NULL
          steered,      \* the last frame: [to, via], the slot as it was found and the peer of the path
          dumped,       \* the paths user space has been told of in this dump, or NULL
          fw_links, fw_paths, fw_proxies, fw_pm, fw_asked,   \* external: the firmware
          mesh_msgs,
          mesh_upset

lists == <<mpath_list, proxy_list>>
power == <<mesh_pm, next_mesh_pm, fw_pm>>
fwVars == <<fw_links, fw_paths, fw_proxies, fw_asked>>
meshVars == <<concern, joined, user_mpm, mesh_sta, mesh_links, lists, create_path, power, mesh_op, lookup, steered,
              dumped, fwVars, mesh_msgs, mesh_upset>>

\* nl80211_mesh_power_mode: the most active is the least.
ACTIVE == 1
DEEP_SLEEP == 3
MeshIdle == mesh_op = <<"idle">>
Cause(c, e) == IF c THEN {e} ELSE {}
Met(es) == mesh_upset' = mesh_upset \cup es
Post(m) == Len(mesh_msgs) < concern.max /\ mesh_msgs' = Append(mesh_msgs, m)

\* rwnx_interface_add
MeshInit ==
    /\ concern \in Concerns /\ joined = FALSE /\ user_mpm \in BOOLEAN
    /\ mesh_sta = [s \in MeshSlots |-> [mac |-> NULL, pm |-> 0, valid |-> FALSE]] /\ mesh_links = {}
    /\ mpath_list = <<>> /\ proxy_list = <<>> /\ create_path = FALSE
    /\ mesh_pm = ACTIVE /\ next_mesh_pm = ACTIVE /\ fw_pm = ACTIVE
    /\ mesh_op = <<"idle">> /\ lookup = NULL /\ steered = NULL /\ dumped = NULL
    /\ fw_links = [s \in MeshSlots |-> NULL] /\ fw_paths = {} /\ fw_proxies = {} /\ fw_asked = NULL
    /\ mesh_msgs = <<>> /\ mesh_upset = {}

-----------------------------------------------------------------------------
\* Joining and leaving

rwnx_cfg80211_join_mesh ==
    /\ MeshIdle /\ ~joined /\ joined' = TRUE
    /\ UNCHANGED <<concern, user_mpm, mesh_sta, mesh_links, lists, create_path, power, mesh_op, lookup, steered, dumped,
                   fwVars, mesh_msgs, mesh_upset>>

\* The lists of the interface are not touched.  The firmware forgets the mesh; what
\* it has reported is still applied.
rwnx_cfg80211_leave_mesh ==
    /\ MeshIdle /\ joined
    /\ joined' = FALSE /\ fw_links' = [s \in MeshSlots |-> NULL] /\ fw_paths' = {} /\ fw_proxies' = {} /\ fw_asked' = NULL
    /\ Met(Cause(mesh_links # {} \/ mpath_list \o proxy_list # <<>> \/ mesh_msgs # <<>> \/ fw_asked # NULL, "left"))
    /\ UNCHANGED <<concern, user_mpm, mesh_sta, mesh_links, lists, create_path, power, mesh_op, lookup, steered, dumped,
                   mesh_msgs>>

-----------------------------------------------------------------------------
\* The power mode of the links

\* Mutant of Chosen: the last of the links decides.
ChosenLast(links, sta, next) ==
    IF links = {} THEN next ELSE sta[CHOOSE s \in links : \A t \in links : sta[t].pm <= sta[s].pm].pm

\* The most active mode among the links, that of the next link if there is none.
Chosen(links, sta, next) ==
    IF links = {} THEN next
    ELSE CHOOSE pm \in {DEEP_SLEEP} \cup {sta[s].pm : s \in links} :
            /\ \A s \in links : sta[s].valid => pm <= sta[s].pm
            /\ pm = DEEP_SLEEP \/ \E s \in links : sta[s].valid /\ sta[s].pm = pm

\* Nothing is sent if the firmware is believed to be in that mode.
rwnx_update_mesh_power_mode(links, sta, then) ==
    LET pm == Chosen(links, sta, next_mesh_pm)
    IN  IF pm = mesh_pm THEN mesh_op' = then ELSE mesh_op' = <<"pm", pm, then>>

\* The answer to the request, which may have failed.
PowerModeAnswered ==
    /\ mesh_op[1] = "pm" /\ mesh_op' = mesh_op[3]
    /\ \/ mesh_pm' = mesh_op[2] /\ fw_pm' = mesh_op[2] /\ UNCHANGED mesh_upset
       \/ Met({"refused"}) /\ UNCHANGED <<mesh_pm, fw_pm>>
    /\ UNCHANGED <<concern, joined, user_mpm, mesh_sta, mesh_links, lists, create_path, next_mesh_pm, lookup, steered, dumped,
                   fwVars, mesh_msgs>>

\* With links the mode waits for the next change of a link.
rwnx_cfg80211_update_mesh_config(pm) ==
    /\ MeshIdle /\ joined /\ next_mesh_pm' = pm
    /\ IF mesh_links # {} THEN UNCHANGED <<fw_pm, mesh_upset>>
       ELSE \/ fw_pm' = pm /\ Met(Cause(pm # mesh_pm, "unrecorded"))
            \/ UNCHANGED fw_pm /\ Met({"refused"})
    /\ UNCHANGED <<concern, joined, user_mpm, mesh_sta, mesh_links, lists, create_path, mesh_pm, mesh_op, lookup, steered,
                   dumped, fwVars, mesh_msgs>>

-----------------------------------------------------------------------------
\* Peers, by the kernel's operations

\* The firmware has taken the peer, and its confirmation came behind all it had
\* reported; the link is listed once the mode is settled.
rwnx_cfg80211_add_station(s, mac, pm) ==
    /\ MeshIdle /\ joined /\ user_mpm /\ mesh_msgs = <<>> /\ fw_links[s] = NULL /\ ~mesh_sta[s].valid
    /\ \A t \in MeshSlots : fw_links[t] # mac
    /\ fw_links' = [fw_links EXCEPT ![s] = mac]
    /\ mesh_sta' = [mesh_sta EXCEPT ![s] = [@ EXCEPT !.mac = mac, !.pm = IF pm # 0 THEN pm ELSE next_mesh_pm]]
    /\ rwnx_update_mesh_power_mode(mesh_links, mesh_sta', <<"add", s>>)
    /\ UNCHANGED <<concern, joined, user_mpm, mesh_links, lists, create_path, power, lookup, steered, dumped,
                   fw_paths, fw_proxies, fw_asked, mesh_msgs, mesh_upset>>

StationListed ==
    /\ mesh_op[1] = "add" /\ mesh_op' = <<"idle">>
    /\ mesh_links' = mesh_links \cup {mesh_op[2]}
    /\ mesh_sta' = [mesh_sta EXCEPT ![mesh_op[2]].valid = TRUE]
    /\ Met(Cause(Chosen(mesh_links', mesh_sta', next_mesh_pm) # Chosen(mesh_links, mesh_sta, next_mesh_pm), "uncounted"))
    /\ UNCHANGED <<concern, joined, user_mpm, lists, create_path, power, lookup, steered, dumped, fwVars, mesh_msgs>>

Leads(s) ==
    \/ \E i \in DOMAIN mpath_list : mpath_list[i].hop = s
    \/ \E i \in DOMAIN mesh_msgs : mesh_msgs[i].kind = "path" /\ ~mesh_msgs[i].delete /\ mesh_msgs[i].hop = s
Gone(s) == [mesh_sta EXCEPT ![s].valid = FALSE]

rwnx_cfg80211_del_station(s) ==
    /\ MeshIdle /\ user_mpm /\ s \in mesh_links
    /\ mesh_links' = mesh_links \ {s} /\ mesh_sta' = Gone(s)
    /\ \/ /\ fw_links' = [fw_links EXCEPT ![s] = NULL]
          /\ rwnx_update_mesh_power_mode(mesh_links', mesh_sta', <<"idle">>)
          /\ Met(Cause(Leads(s), "lostpeer"))
       \/ Met({"refused"} \cup Cause(Leads(s), "lostpeer")) /\ UNCHANGED <<fw_links, mesh_op>>
    /\ UNCHANGED <<concern, joined, user_mpm, lists, create_path, power, lookup, steered, dumped,
                   fw_paths, fw_proxies, fw_asked, mesh_msgs>>

rwnx_cfg80211_change_station(s, pm) ==
    /\ MeshIdle /\ mesh_sta[s].valid
    /\ mesh_sta' = [mesh_sta EXCEPT ![s].pm = pm]
    /\ rwnx_update_mesh_power_mode(mesh_links, mesh_sta', <<"idle">>)
    /\ UNCHANGED <<concern, joined, user_mpm, mesh_links, lists, create_path, power, lookup, steered, dumped, fwVars,
                   mesh_msgs, mesh_upset>>

-----------------------------------------------------------------------------
\* Indications

Handles(kind) == mesh_msgs # <<>> /\ Head(mesh_msgs).kind = kind /\ mesh_msgs' = Tail(mesh_msgs)

\* Without user_mpm the firmware makes the links; with it, it only ends them.  The
\* mode of the link is what the slot has from before.
rwnx_rx_mesh_peer_update_ind ==
    /\ Handles("peer")
    /\ LET m == Head(mesh_msgs)
           comes == m.mac # NULL /\ ~user_mpm /\ ~mesh_sta[m.slot].valid
           goes  == m.mac = NULL /\ mesh_sta[m.slot].valid
       IN  /\ mesh_links' = IF comes THEN mesh_links \cup {m.slot} ELSE IF goes THEN mesh_links \ {m.slot} ELSE mesh_links
           /\ mesh_sta' = IF comes THEN [mesh_sta EXCEPT ![m.slot] = [@ EXCEPT !.mac = m.mac, !.valid = TRUE]]
                          ELSE IF goes THEN Gone(m.slot) ELSE mesh_sta
           /\ Met(Cause(goes /\ Leads(m.slot), "lostpeer") \cup
                  Cause(Chosen(mesh_links', mesh_sta', next_mesh_pm) # Chosen(mesh_links, mesh_sta, next_mesh_pm), "silent"))
    /\ UNCHANGED <<concern, joined, user_mpm, lists, create_path, power, mesh_op, lookup, steered, dumped, fwVars>>

\* A frame has found an element of the list and not yet read it.
Holds(what) == lookup # NULL /\ lookup.at = what
Spot(l, Test(_)) == SelectInSeq(l, Test)

rwnx_rx_mesh_path_update_ind ==
    /\ Handles("path")
    /\ LET m == Head(mesh_msgs)
           i == Spot(mpath_list, LAMBDA p : p.idx = m.idx)
       IN  CASE m.delete /\ i # 0 ->
                  /\ mpath_list' = RemoveAt(mpath_list, i)
                  /\ Met(Cause(Holds("path") /\ lookup.path.idx = m.idx, "freed") \cup
                         Cause(dumped # NULL /\ i <= Len(dumped), "skipped"))
             [] ~m.delete /\ i # 0 ->
                  /\ mpath_list' = [mpath_list EXCEPT ![i] = [@ EXCEPT !.hop = m.hop, !.via = m.via]]
                  /\ Met(Cause(~mesh_sta[m.hop].valid, "nopeer"))
             [] ~m.delete /\ i = 0 ->
                  \/ /\ mpath_list' = Append(mpath_list, [idx |-> m.idx, tgt |-> m.tgt, hop |-> m.hop, via |-> m.via])
                     /\ Met(Cause(~mesh_sta[m.hop].valid, "nopeer"))
                  \/ UNCHANGED mpath_list /\ Met({"nomem"})
             [] OTHER -> UNCHANGED <<mpath_list, mesh_upset>>
    /\ UNCHANGED <<concern, joined, user_mpm, mesh_sta, mesh_links, proxy_list, create_path, power, mesh_op, lookup, steered,
                   dumped, fwVars>>

\* A proxy that is known is left as it is.
rwnx_rx_mesh_proxy_update_ind ==
    /\ Handles("proxy")
    /\ LET m == Head(mesh_msgs)
           i == Spot(proxy_list, LAMBDA p : p.ext = m.ext)
       IN  CASE m.delete /\ i # 0 ->
                  /\ proxy_list' = RemoveAt(proxy_list, i)
                  /\ Met(Cause(Holds("proxy") /\ lookup.proxy = proxy_list[i], "freed"))
             [] ~m.delete /\ i = 0 ->
                  \/ proxy_list' = Append(proxy_list, [ext |-> m.ext, local |-> m.local, at |-> m.at]) /\ UNCHANGED mesh_upset
                  \/ UNCHANGED proxy_list /\ Met({"nomem"})
             [] OTHER -> UNCHANGED <<proxy_list, mesh_upset>>
    /\ UNCHANGED <<concern, joined, user_mpm, mesh_sta, mesh_links, mpath_list, create_path, power, mesh_op, lookup, steered,
                   dumped, fwVars>>

rwnx_rx_mesh_path_create_cfm ==
    /\ Handles("created") /\ create_path' = FALSE
    /\ UNCHANGED <<concern, joined, user_mpm, mesh_sta, mesh_links, lists, power, mesh_op, lookup, steered, dumped, fwVars,
                   mesh_upset>>

-----------------------------------------------------------------------------
\* A frame for dst (rwnx_select_txq, rwnx_get_mesh_proxy_info)

At(l, i) == IF i = 0 THEN NULL ELSE l[i]
rwnx_get_mesh_proxy_info(ext, local) == At(proxy_list, Spot(proxy_list, LAMBDA p : p.local = local /\ p.ext = ext))

FindProxy(dst) ==
    /\ lookup = NULL /\ joined /\ steered' = NULL
    /\ lookup' = [dst |-> dst, proxy |-> rwnx_get_mesh_proxy_info(dst, FALSE), path |-> NULL, at |-> "proxy"]
    /\ UNCHANGED <<concern, joined, user_mpm, mesh_sta, mesh_links, lists, create_path, power, mesh_op, dumped, fwVars,
                   mesh_msgs, mesh_upset>>

Target == IF lookup.proxy # NULL THEN lookup.proxy.at ELSE lookup.dst

\* Nothing is asked for while a confirmation is awaited.
rwnx_send_mesh_path_create_req ==
    IF create_path THEN UNCHANGED <<create_path, fw_asked, mesh_upset>>
    ELSE \/ create_path' = TRUE /\ fw_asked' = Target /\ UNCHANGED mesh_upset
         \/ create_path' = TRUE /\ UNCHANGED fw_asked /\ Met({"stuck"})
         \/ UNCHANGED <<create_path, fw_asked, mesh_upset>>     \* no memory for the message

FindPath ==
    /\ lookup # NULL /\ lookup.at = "proxy"
    /\ LET p == At(mpath_list, Spot(mpath_list, LAMBDA q : q.tgt = Target))
       IN  IF p # NULL THEN lookup' = [lookup EXCEPT !.path = p, !.at = "path"] /\ UNCHANGED <<create_path, fw_asked, mesh_upset>>
           ELSE lookup' = NULL /\ rwnx_send_mesh_path_create_req
    /\ UNCHANGED <<concern, joined, user_mpm, mesh_sta, mesh_links, lists, power, mesh_op, steered, dumped,
                   fw_links, fw_paths, fw_proxies, mesh_msgs>>

\* The path is read again: its next hop may be another by now.
Now == mpath_list[Spot(mpath_list, LAMBDA q : q.idx = lookup.path.idx)]
TakeHop ==
    /\ lookup # NULL /\ lookup.at = "path" /\ lookup' = NULL
    /\ steered' = [to |-> mesh_sta[Now.hop], via |-> Now.via]
    /\ UNCHANGED <<concern, joined, user_mpm, mesh_sta, mesh_links, lists, create_path, power, mesh_op, dumped, fwVars,
                   mesh_msgs, mesh_upset>>

\* rwnx_send_mesh_proxy_add_req, for a frame from behind this station.
ProxyAdded(ext) ==
    /\ joined /\ rwnx_get_mesh_proxy_info(ext, TRUE) = NULL
    /\ \A x \in fw_proxies : x.ext # ext
    /\ \A i \in DOMAIN mesh_msgs : mesh_msgs[i].kind # "proxy"
    /\ fw_proxies' = fw_proxies \cup {[ext |-> ext, local |-> TRUE, at |-> NULL]}
    /\ Post([kind |-> "proxy", ext |-> ext, local |-> TRUE, at |-> NULL, delete |-> FALSE])
    /\ UNCHANGED <<concern, joined, user_mpm, mesh_sta, mesh_links, lists, create_path, power, mesh_op, lookup, steered, dumped,
                   fw_links, fw_paths, fw_asked, mesh_upset>>

\* User space lists the paths by number; each call walks the list from its start.
rwnx_cfg80211_dump_mpath ==
    /\ MeshIdle
    /\ LET n == IF dumped = NULL THEN 0 ELSE Len(dumped)
       IN  dumped' = IF n < Len(mpath_list) THEN Append(IF dumped = NULL THEN <<>> ELSE dumped, mpath_list[n + 1].idx)
                     ELSE NULL
    /\ UNCHANGED <<concern, joined, user_mpm, mesh_sta, mesh_links, lists, create_path, power, mesh_op, lookup, steered, fwVars,
                   mesh_msgs, mesh_upset>>

-----------------------------------------------------------------------------
\* The firmware

\* It makes and ends links, unless user space makes them.
FwPeer(s, mac) ==
    /\ joined /\ IF mac = NULL THEN fw_links[s] # NULL ELSE ~user_mpm /\ fw_links[s] = NULL
    /\ mac # NULL => \A t \in MeshSlots : fw_links[t] # mac
    /\ fw_links' = [fw_links EXCEPT ![s] = mac]
    /\ Post([kind |-> "peer", slot |-> s, mac |-> mac])
    /\ UNCHANGED <<concern, joined, user_mpm, mesh_sta, mesh_links, lists, create_path, power, mesh_op, lookup, steered, dumped,
                   fw_paths, fw_proxies, fw_asked, mesh_upset>>

\* Of its own, or by rwnx_send_mesh_path_update_req: a path is made or goes another way.
FwSetsPath(idx, tgt, s) ==
    /\ joined /\ fw_links[s] # NULL
    /\ \A p \in fw_paths : (p.idx = idx) <=> (p.tgt = tgt)
    /\ fw_paths' = {p \in fw_paths : p.idx # idx} \cup {[idx |-> idx, tgt |-> tgt, hop |-> s, via |-> fw_links[s]]}
    /\ Post([kind |-> "path", idx |-> idx, tgt |-> tgt, hop |-> s, via |-> fw_links[s], delete |-> FALSE])
    /\ UNCHANGED <<concern, joined, user_mpm, mesh_sta, mesh_links, lists, create_path, power, mesh_op, lookup, steered, dumped,
                   fw_links, fw_proxies, fw_asked, mesh_upset>>
FwDropsPath(p) ==
    /\ p \in fw_paths /\ fw_paths' = fw_paths \ {p}
    /\ Post([kind |-> "path", idx |-> p.idx, delete |-> TRUE])
    /\ UNCHANGED <<concern, joined, user_mpm, mesh_sta, mesh_links, lists, create_path, power, mesh_op, lookup, steered, dumped,
                   fw_links, fw_proxies, fw_asked, mesh_upset>>

rwnx_cfg80211_add_mpath(idx, tgt, s) == MeshIdle /\ FwSetsPath(idx, tgt, s)
rwnx_cfg80211_change_mpath(idx, tgt, s) == rwnx_cfg80211_add_mpath(idx, tgt, s)
rwnx_cfg80211_del_mpath(p) == MeshIdle /\ FwDropsPath(p)

FwProxy(ext, at) ==
    /\ joined /\ \A x \in fw_proxies : x.ext # ext
    /\ fw_proxies' = fw_proxies \cup {[ext |-> ext, local |-> FALSE, at |-> at]}
    /\ Post([kind |-> "proxy", ext |-> ext, local |-> FALSE, at |-> at, delete |-> FALSE])
    /\ UNCHANGED <<concern, joined, user_mpm, mesh_sta, mesh_links, lists, create_path, power, mesh_op, lookup, steered, dumped,
                   fw_links, fw_paths, fw_asked, mesh_upset>>
FwDropsProxy(x) ==
    /\ x \in fw_proxies /\ fw_proxies' = fw_proxies \ {x}
    /\ Post([kind |-> "proxy", ext |-> x.ext, local |-> x.local, at |-> x.at, delete |-> TRUE])
    /\ UNCHANGED <<concern, joined, user_mpm, mesh_sta, mesh_links, lists, create_path, power, mesh_op, lookup, steered, dumped,
                   fw_links, fw_paths, fw_asked, mesh_upset>>

\* The request for a path is answered, whether there is one or not.
FwAnswers ==
    /\ fw_asked # NULL /\ fw_asked' = NULL /\ Post([kind |-> "created"])
    /\ UNCHANGED <<concern, joined, user_mpm, mesh_sta, mesh_links, lists, create_path, power, mesh_op, lookup, steered, dumped,
                   fw_links, fw_paths, fw_proxies, mesh_upset>>

PowerLost == {"unrecorded", "uncounted", "silent", "refused"}

\* Bound: once the mode is lost, only behaviours that are not about it go on.
GoesOn == mesh_upset \subseteq (IF concern.modes = {} THEN PowerLost ELSE {})

MeshNext ==
    /\ GoesOn
    /\ \/ rwnx_cfg80211_join_mesh \/ rwnx_cfg80211_leave_mesh \/ PowerModeAnswered \/ StationListed
       \/ \E s \in concern.slots :
            \/ \E mac \in concern.macs, pm \in {0} \cup concern.modes : rwnx_cfg80211_add_station(s, mac, pm)
            \/ rwnx_cfg80211_del_station(s)
            \/ \E pm \in concern.modes : rwnx_cfg80211_change_station(s, pm)
            \/ \E mac \in concern.macs \cup {NULL} : FwPeer(s, mac)
            \/ \E idx \in concern.ids, tgt \in concern.tgts :
                 rwnx_cfg80211_add_mpath(idx, tgt, s) \/ rwnx_cfg80211_change_mpath(idx, tgt, s) \/ FwSetsPath(idx, tgt, s)
       \/ \E pm \in concern.modes : rwnx_cfg80211_update_mesh_config(pm)
       \/ \E p \in fw_paths : rwnx_cfg80211_del_mpath(p) \/ FwDropsPath(p)
       \/ \E x \in fw_proxies : FwDropsProxy(x)
       \/ \E ext \in concern.outer : ProxyAdded(ext) \/ (\E at \in concern.tgts : FwProxy(ext, at))
       \/ rwnx_rx_mesh_peer_update_ind \/ rwnx_rx_mesh_path_update_ind \/ rwnx_rx_mesh_proxy_update_ind
       \/ rwnx_rx_mesh_path_create_cfm \/ FwAnswers
       \/ /\ concern.ids # {}
          /\ \/ \E dst \in concern.tgts \cup concern.outer : FindProxy(dst)
             \/ FindPath \/ TakeHop \/ rwnx_cfg80211_dump_mpath

MeshSpec == MeshInit /\ [][MeshNext]_meshVars

-----------------------------------------------------------------------------
\* Once the indications are handled the lists are the firmware's, whatever was made,
\* moved and dropped in between (rwnx_rx_mesh_path_update_ind).
ListsAgree ==
    mesh_msgs = <<>> /\ mesh_upset \subseteq PowerLost =>
        /\ Range(mpath_list) = fw_paths /\ Range(proxy_list) = fw_proxies
        /\ Len(mpath_list) = Cardinality(fw_paths) /\ Len(proxy_list) = Cardinality(fw_proxies)

\* A frame is given to the peer its path was reported for, while that peer has its
\* slot (rwnx_select_txq).
RightPeer == steered # NULL => steered.to.valid /\ steered.to.mac = steered.via

\* Whoever waits for a path is being answered (rwnx_send_mesh_path_create_req).
CreateAnswered ==
    create_path /\ mesh_upset \subseteq PowerLost =>
        fw_asked # NULL \/ \E i \in DOMAIN mesh_msgs : mesh_msgs[i].kind = "created"

\* Between operations the firmware is as active as the most active link asks, and no
\* more (rwnx_update_mesh_power_mode).
PowerHonoured ==
    MeshIdle /\ mesh_upset \cap PowerLost = {} =>
        IF mesh_links = {} THEN fw_pm = next_mesh_pm
        ELSE (\A s \in mesh_links : fw_pm <= mesh_sta[s].pm) /\ (\E s \in mesh_links : fw_pm = mesh_sta[s].pm)

\* What user space has been told of in a dump is the beginning of the list.
DumpInOrder ==
    dumped # NULL /\ mesh_upset \subseteq PowerLost =>
        Len(dumped) <= Len(mpath_list) /\ \A i \in DOMAIN dumped : dumped[i] = mpath_list[i].idx

\* Paths, peers, requests and power modes of a mesh agree with the firmware
\* (rwnx_select_txq, rwnx_rx_mesh_path_update_ind, rwnx_update_mesh_power_mode).
MeshSound == ListsAgree /\ RightPeer /\ CreateAnswered /\ PowerHonoured /\ DumpInOrder
=============================================================================
