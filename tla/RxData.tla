------------------------------- MODULE RxData -------------------------------
(***************************************************************************)
(* What becomes of a received frame (rwnx_rx.c): a monitor interface, the  *)
(* host, the air again and the reorder buffer, and the partial frames with *)
(* their timers, against the teardown of the driver.  A frame here is its  *)
(* descriptor; RxReorder has what happens in the reorder buffer.           *)
(***************************************************************************)
EXTENDS Integers, Sequences, FiniteSets, SequencesExt, Null

CONSTANTS RxScripts,    \* bound: sets of [frames, max, members, isolate, faults]: the frames that may
                        \* come, how many, the stations of the access point, whether they are kept
                        \* apart (RWNX_AP_ISOLATE), and whether calls fail and interfaces change
          FragRoom      \* the bytes of the buffer of a partial frame

VARIABLES rx_in,        \* the script of this behaviour; never changes
          nrx,          \* frames received so far
          vifs_up,      \* interfaces with the flag up
          entries,      \* rwnx_hw->defrag_list, and what the teardown has taken off it
          arming,       \* the partial frame that is listed but has no timer yet, or 0
          torn,         \* the teardown of rwnx_cfg80211_deinit: "no", "marked", "done"
          held,         \* the partial frame whose timer the teardown is stopping, or 0
          outcome,      \* what has become of the last frame, or NULL
          rx_upset      \* what has happened that the code does not survive

rxVars == <<rx_in, nrx, vifs_up, entries, arming, torn, held, outcome, rx_upset>>

\* The interfaces; the one for a VLAN belongs to the access point.
VifType == [ap |-> "AP", sta |-> "STATION", vlan |-> "AP_VLAN", mon |-> "MONITOR"]
IsAP(v) == VifType[v] \in {"AP", "AP_VLAN"}

\* A frame: flags_vif_idx, flags_upload, is_monitor_vif, flags_is_80211_mpdu with the
\* kind of management frame, QoS, flags_need_reord, the destinations of its MSDUs,
\* More Fragments, fragment and sequence number, length, the sender, flags_dst_idx,
\* the interface of the sender's VLAN, and the receive vector.
Plain == [vif |-> "ap", upload |-> TRUE, mon |-> FALSE, mgmt |-> NULL, qos |-> TRUE, reord |-> FALSE,
          amsdu |-> FALSE, to |-> <<"other">>, more |-> FALSE, fn |-> 0, sn |-> 0, len |-> 500,
          src |-> "s1", dst |-> NULL, vlan |-> NULL, fmt |-> 0, ants |-> 1, agg |-> FALSE]

RxInit ==
    /\ rx_in \in RxScripts /\ nrx = 0 /\ vifs_up = {"ap", "sta", "mon"}
    /\ entries = <<>> /\ arming = 0 /\ torn = "no" /\ held = 0 /\ outcome = NULL /\ rx_upset = {}

-----------------------------------------------------------------------------
(* The radiotap header                                                     *)

ALIGN(n, a) == ((n + a - 1) \div a) * a
HT(f) == f.fmt \in {2, 3}
VHT == 4
HE_SU == 5

\* The room that is reserved.
rwnx_rx_rtap_hdrlen(f) ==
    LET many  == f.ants > 1
        fixed == ALIGN(16 + (IF many THEN 4 * f.ants ELSE 0), 8) + 8
        sig   == ALIGN(fixed + 1 + (IF f.ants = 1 THEN 1 ELSE 0), 2) + (IF HT(f) THEN 3 ELSE 0)
        ampdu == IF f.fmt >= VHT \/ (f.fmt > 1 /\ f.agg) THEN ALIGN(sig, 4) + 8 ELSE sig
        phy   == IF f.fmt \in {VHT, HE_SU} THEN ALIGN(ampdu, 2) + 12 ELSE ampdu
    IN  phy + (IF many THEN 2 * f.ants ELSE 0)


\* The place behind the last byte that is written.
rwnx_rx_add_rtap_hdr(f) ==
    LET many  == f.ants > 1
        tsft  == ALIGN(8 + (IF many THEN 4 * f.ants ELSE 0), 8) + 8
        sig   == ALIGN(tsft + 6 + (IF f.ants = 1 THEN 2 ELSE 0), 2) + 2 + (IF HT(f) THEN 3 ELSE 0)
        ampdu == IF f.fmt >= VHT \/ (f.fmt > 1 /\ f.agg) THEN ALIGN(sig, 4) + 8 ELSE sig
        phy   == IF f.fmt = VHT THEN ampdu + 12 ELSE IF f.fmt = HE_SU THEN ALIGN(ampdu, 2) + 12 ELSE ampdu
    IN  phy + (IF many THEN 2 * f.ants ELSE 0)

-----------------------------------------------------------------------------
(* What becomes of one frame: how often each of its buffers (0 is the      *)
(* received one, i > 0 the copy of the i-th MSDU of an A-MSDU) is freed or *)
(* handed over, which MSDUs go up to the host, out on the air again and to *)
(* the reorder buffer, and which are given up for want of memory.          *)

Buffers(f) == 0 .. (IF f.amsdu THEN Len(f.to) ELSE 0)
Count(f, used) == [b \in Buffers(f) |-> IF b \in used THEN 1 ELSE 0]
Outcome(f, used) == [f |-> f, v |-> f.vif, used |-> Count(f, used), made |-> {0}, msdus |-> {}, host |-> {},
                     air |-> {}, reord |-> {}, lost |-> {}, parts |-> <<f>>, rtap |-> <<0, 0>>, calls |-> {}]
Freed(f) == Outcome(f, {0})

rwnx_rx_get_vif(v) == IF v \in vifs_up THEN v ELSE NULL

\* rwnx_rx_mgmt: the call of cfg80211 that a management frame makes on an interface.
rwnx_rx_mgmt(v, kind) ==
    CASE kind = "beacon" -> "report_obss_beacon"
      [] kind = "deauth" -> "rx_unprot_mlme_mgmt"
      [] kind = "ft" /\ VifType[v] = "STATION" -> "ft_event"
      [] OTHER -> "rx_mgmt"

\* rwnx_rx_mgmt_any: on its interface, or on all that are up; then it is freed.
rwnx_rx_mgmt_any(f) ==
    LET to == IF f.vif = NULL THEN vifs_up ELSE {f.vif} \cap vifs_up
    IN  [Freed(f) EXCEPT !.calls = {<<v, rwnx_rx_mgmt(v, f.mgmt)>> : v \in to}]

\* rwnx_rxdata_process_amsdu copies the first k MSDUs and frees the frame.
Split(f, k) == IF f.amsdu THEN 1 .. k ELSE {1}
Buf(f, i) == IF f.amsdu THEN i ELSE 0
Bufs(f, S) == {Buf(f, i) : i \in S}
SplitUsed(f) == IF f.amsdu THEN {0} ELSE {}

Group(f, i) == f.to[i] = "group"

\* rwnx_rx_data_skb_resend: the copies that go out on the air.
rwnx_rx_data_skb_resend(msdus, copy) == IF copy THEN msdus ELSE {}

\* arpoffload_proc: an acknowledged lease makes a client ask the firmware to answer for it.
arpoffload_proc(f, v) == IF VifType[v] = "STATION" /\ f.src = "dhcp" THEN {<<v, "arpoffload">>} ELSE {}

\* rwnx_rx_data_skb: the first MSDU decides for all of them.
rwnx_rx_data_skb(f, v, k, copy) ==
    LET msdus   == Split(f, k)
        member  == f.dst # NULL /\ f.dst \in rx_in.members
        bridge  == IsAP(v) /\ ~rx_in.isolate
        resend  == bridge /\ (Group(f, 1) \/ member)
        forward == ~(bridge /\ ~Group(f, 1) /\ member)
    IN  [Outcome(f, SplitUsed(f) \cup (IF forward \/ ~f.amsdu THEN Bufs(f, msdus) ELSE {}))
            EXCEPT !.v = v, !.made = {0} \cup Bufs(f, msdus), !.msdus = msdus,
                   !.host = IF forward THEN msdus ELSE {},
                   !.air = IF resend THEN rwnx_rx_data_skb_resend(msdus, copy) ELSE {},
                   !.lost = IF resend /\ ~copy THEN msdus ELSE {},
                   !.calls = IF forward THEN arpoffload_proc(f, v) ELSE {}]

\* The MSDUs that rwnx_rx_data_skb_resend sends out again, and those for the host.
Resends(f, msdus) ==
    {i \in msdus : Group(f, i) \/ (IF f.dst # NULL /\ ~f.amsdu THEN f.dst \in rx_in.members
                                   ELSE f.to[i] \in rx_in.members)}
Forwards(f, msdus) == {i \in msdus : Group(f, i) \/ i \notin Resends(f, msdus)}

\* The access point's loop over the MSDUs; isolation is not looked at here.  With nothing in the pool of recv_msdu the
\* first one is freed and the function left.
ApLoop(f, v, k, pool, copy) ==
    LET msdus == Split(f, k)
        seen  == IF f.qos /\ f.reord /\ ~pool THEN msdus \cap {1} ELSE msdus
        up    == Forwards(f, seen)
        out   == Resends(f, seen)
        kept  == f.qos /\ f.reord
    IN  [Outcome(f, SplitUsed(f) \cup Bufs(f, seen))
            EXCEPT !.v = v, !.made = {0} \cup Bufs(f, msdus), !.msdus = msdus,
                   !.host = IF kept THEN {} ELSE up,
                   !.reord = IF kept /\ pool THEN up ELSE {},
                   !.air = rwnx_rx_data_skb_resend(out, copy),
                   !.lost = (IF copy THEN {} ELSE out) \cup (IF kept /\ ~pool THEN msdus ELSE {})]

\* A client's frame: to the reorder buffer whole, or up.
ClientFrame(f, v, k, pool) ==
    IF f.qos /\ f.reord
    THEN [Freed(f) EXCEPT !.v = v, !.msdus = {1}, !.reord = IF pool THEN {1} ELSE {},
                          !.lost = IF pool THEN {} ELSE {1}]
    ELSE rwnx_rx_data_skb(f, v, k, TRUE)

\* The interface is looked up, then the sender's VLAN; a type that is neither client
\* nor access point is nobody's.
Deliver(f, k, pool, copy) ==
    LET v == IF f.vlan # NULL THEN f.vlan ELSE f.vif
    IN  CASE rwnx_rx_get_vif(f.vif) = NULL \/ v = "gone" -> Freed(f)
          [] rwnx_rx_get_vif(f.vif) # NULL /\ v # "gone" /\ VifType[v] = "STATION" -> ClientFrame(f, v, k, pool)
          [] rwnx_rx_get_vif(f.vif) # NULL /\ v # "gone" /\ VifType[v] = "AP" -> ApLoop(f, v, k, pool, copy)
          [] OTHER -> [Outcome(f, {}) EXCEPT !.v = v]

\* A frame for the monitor interface: in its own buffer if there is room in front,
\* else in a copy.
rwnx_rx_monitor(f, room, copy) ==
    LET rtap == <<rwnx_rx_rtap_hdrlen(f), rwnx_rx_add_rtap_hdr(f)>>
    IN  IF room \/ copy THEN [Freed(f) EXCEPT !.calls = {<<"mon", "netif_receive_skb">>}, !.rtap = rtap]
        ELSE Freed(f)

-----------------------------------------------------------------------------
(* Partial frames                                                          *)

Upset(events) == rx_upset' = rx_upset \cup events
If(c, e) == IF c THEN {e} ELSE {}

Fragment(f) == f.mgmt = NULL /\ ~f.reord /\ (f.more \/ f.fn > 0)

\* A partial frame is known by sequence number, TID and the index of the destination.
Key(f) == <<f.sn, f.qos, f.dst>>
Listed == {i \in DOMAIN entries : ~entries[i].teardown}
Lookup(f) ==
    LET same == {i \in Listed : entries[i].key = Key(f)}
    IN  IF same = {} THEN 0 ELSE CHOOSE i \in same : \A j \in same : i <= j

\* Mutant of InSequence: whatever comes is appended.
AnyPart(e, f) == TRUE

InSequence(e, f) == e.next_fn = f.fn

\* The fragment's bytes behind those that are there; beyond the buffer is a panic.
Append_(e, f) == [e EXCEPT !.parts = Append(@, f), !.len = @ + f.len]
TooLong(e) == e.len > FragRoom
Place(id) == CHOOSE i \in DOMAIN entries : entries[i].id = id

\* The first fragment to come makes the entry; its timer is set after the unlock.
FirstPart(f, mem) ==
    /\ outcome' = Freed(f)
    /\ IF mem
       THEN /\ entries' = Append(entries, Append_([id |-> nrx', key |-> Key(f), parts |-> <<>>, next_fn |-> 1,
                                                   len |-> 0, timer |-> "none", teardown |-> FALSE], f))
            /\ arming' = nrx'
            /\ Upset(If(f.len > FragRoom, "panic") \cup If(f.fn > 0, "headless") \cup If(torn # "no", "late"))
       ELSE UNCHANGED <<entries, arming, rx_upset>>

NextPart(f, i) ==
    /\ outcome' = Freed(f) /\ UNCHANGED arming
    /\ IF InSequence(entries[i], f)
       THEN /\ entries' = [entries EXCEPT ![i] = [Append_(@, f) EXCEPT !.next_fn = @ + 1]]
            /\ Upset(If(TooLong(entries'[i]), "panic") \cup If(\E p \in Range(entries[i].parts) : p.src # f.src, "mixed"))
       ELSE UNCHANGED <<entries, rx_upset>>

\* The last fragment: the entry goes, its timer is deleted without waiting for a
\* handler that has begun, and the frame is passed on by the descriptor of a buffer
\* that has just been freed.
LastPart(f, i, copy) ==
    /\ UNCHANGED arming
    /\ LET e == Append_(entries[i], f)
       IN  CASE ~InSequence(entries[i], f) -> outcome' = Freed(f) /\ UNCHANGED <<entries, rx_upset>>
             [] InSequence(entries[i], f) /\ TooLong(e) ->
                    Upset({"panic"}) /\ outcome' = Freed(f) /\ UNCHANGED entries
             [] InSequence(entries[i], f) /\ ~TooLong(e) /\ rwnx_rx_get_vif(f.vif) = NULL ->
                    /\ entries' = [entries EXCEPT ![i] = e] /\ outcome' = Freed(f) /\ Upset({"appended"})
             [] OTHER ->
                    /\ entries' = RemoveAt(entries, i)
                    /\ \E stale \in BOOLEAN :
                        /\ outcome' = IF stale THEN Freed(f)
                                      ELSE [rwnx_rx_data_skb(f, f.vif, 1, copy) EXCEPT !.parts = e.parts]
                        /\ Upset(If(stale, "stale") \cup If(e.timer = "running", "freed")
                                 \cup If(\E p \in Range(entries[i].parts) : p.src # f.src, "mixed"))

ArmTimer ==
    /\ arming # 0
    /\ entries' = [entries EXCEPT ![Place(arming)].timer = "pending"]
    /\ Upset(If(held = arming, "late"))
    /\ arming' = 0
    /\ UNCHANGED <<rx_in, nrx, vifs_up, torn, held, outcome>>

\* The timer expires and its handler begins; it waits for defrag_lock.
TimerFires ==
    /\ \E i \in DOMAIN entries :
          entries[i].timer = "pending" /\ entries' = [entries EXCEPT ![i].timer = "running"]
    /\ UNCHANGED <<rx_in, nrx, vifs_up, arming, torn, held, outcome, rx_upset>>

\* The lock is released through the entry that has been freed: with luck it is still
\* the same lock.
defrag_timeout_cb ==
    /\ \E i \in DOMAIN entries :
          /\ entries[i].timer = "running"
          /\ IF entries[i].teardown
             THEN entries' = [entries EXCEPT ![i].timer = "none"] /\ UNCHANGED rx_upset
             ELSE entries' = RemoveAt(entries, i) /\ \E luck \in {TRUE, ~rx_in.faults} : Upset(If(~luck, "unlock"))
    /\ UNCHANGED <<rx_in, nrx, vifs_up, arming, torn, held, outcome>>

\* rwnx_cfg80211_deinit, while the receive thread still runs.
TeardownMarks ==
    /\ torn = "no" /\ torn' = "marked"
    /\ entries' = [i \in DOMAIN entries |-> [entries[i] EXCEPT !.teardown = TRUE]]
    /\ UNCHANGED <<rx_in, nrx, vifs_up, arming, held, outcome, rx_upset>>

TeardownStopsTimer ==
    /\ torn = "marked" /\ held = 0
    /\ IF \E i \in DOMAIN entries : entries[i].teardown
       THEN /\ \E i \in DOMAIN entries : /\ entries[i].teardown /\ \A j \in DOMAIN entries : j < i => ~entries[j].teardown
                                         /\ held' = entries[i].id
                                         /\ entries' = [entries EXCEPT ![i].timer = IF @ = "pending" THEN "none" ELSE @]
            /\ UNCHANGED torn
       ELSE torn' = "done" /\ UNCHANGED <<held, entries>>
    /\ UNCHANGED <<rx_in, nrx, vifs_up, arming, outcome, rx_upset>>

TeardownFrees ==
    /\ held # 0 /\ entries[Place(held)].timer # "running"
    /\ entries' = RemoveAt(entries, Place(held)) /\ held' = 0
    /\ Upset(If(arming = held, "late"))
    /\ UNCHANGED <<rx_in, nrx, vifs_up, arming, torn, outcome>>

-----------------------------------------------------------------------------
(* rwnx_rxdataind_aicwf                                                    *)

Handled(out, leak) ==
    /\ outcome' = out /\ Upset(leak) /\ UNCHANGED <<entries, arming>>

\* What of the frame nobody frees: an interface type without a branch, or MSDUs behind
\* the one the pool had nothing left for.
Leaks(f, k, pool) ==
    If(f.vif \in vifs_up /\ (f.vlan = "vlan" \/ (f.vif = "ap" /\ f.vlan = NULL /\ f.amsdu /\ f.qos /\ f.reord /\ ~pool /\ k > 1)),
       "leak")

\* A data frame that is no fragment, or a last fragment without an entry.  k of its
\* MSDUs are copied; the interface may go down between two of them, and the last
\* copy is then forgotten.
Whole(f) ==
    \E k \in (IF f.amsdu /\ rx_in.faults THEN 0 .. Len(f.to) ELSE {Len(f.to)}), pool, copy, stays \in {TRUE, ~rx_in.faults} :
        Handled(Deliver(f, k, pool, copy),
                Leaks(f, k, pool) \cup If(f.fn > 0, "orphan") \cup If(f.amsdu /\ ~stays, "leak"))

Forward(f) ==
    IF Fragment(f)
    THEN IF f.more
         THEN IF Lookup(f) # 0 THEN NextPart(f, Lookup(f)) ELSE \E mem \in {TRUE, ~rx_in.faults} : FirstPart(f, mem)
         ELSE IF Lookup(f) # 0 THEN \E copy \in {TRUE, ~rx_in.faults} : LastPart(f, Lookup(f), copy) ELSE Whole(f)
    ELSE IF f.mgmt # NULL THEN Handled(rwnx_rx_mgmt_any(f), {}) ELSE Whole(f)

\* Both flags with the interface there dereference a copy that this build does not make.
Monitor(f) ==
    IF f.upload THEN Handled(Freed(f), {"nocopy"})
    ELSE \E room, copy \in {TRUE, ~rx_in.faults} : Handled(rwnx_rx_monitor(f, room, copy), {})

rwnx_rxdataind_aicwf(f) ==
    /\ arming = 0 /\ nrx < rx_in.max /\ nrx' = nrx + 1
    /\ CASE f.mon /\ rwnx_rx_get_vif("mon") # NULL -> Monitor(f)
         [] ~(f.mon /\ rwnx_rx_get_vif("mon") # NULL) /\ f.upload -> Forward(f)
         [] OTHER -> Handled(Outcome(f, {}), {"leak"})
    /\ UNCHANGED <<rx_in, vifs_up, torn, held>>

\* rwnx_open and rwnx_close.
VifUpDown(v) ==
    /\ rx_in.faults
    /\ vifs_up' = IF v \in vifs_up THEN vifs_up \ {v} ELSE vifs_up \cup {v}
    /\ UNCHANGED <<rx_in, nrx, entries, arming, torn, held, outcome, rx_upset>>

RxNext ==
    /\ rx_upset = {}
    /\ \/ \E f \in rx_in.frames : rwnx_rxdataind_aicwf(f)
       \/ ArmTimer \/ TimerFires \/ defrag_timeout_cb
       \/ TeardownMarks \/ TeardownStopsTimer \/ TeardownFrees
       \/ \E v \in {"ap", "sta", "mon"} : VifUpDown(v)

RxSpec == RxInit /\ [][RxNext]_rxVars

-----------------------------------------------------------------------------
(* Properties                                                              *)

\* Every buffer of a frame is freed or handed on once, on every path that does not
\* end in one of the events (rwnx_rxdataind_aicwf).
EachOnce ==
    outcome # NULL /\ rx_upset = {} => \A b \in outcome.made : outcome.used[b] = 1

\* At an access point a frame for the group goes to the host and out again, one for
\* an associated station only out again and any other only to the host, whichever of
\* the three paths it takes; a client gives everything to the host.
RoutedRight ==
    outcome # NULL /\ rx_upset = {} /\ ~rx_in.isolate =>
        \A i \in outcome.msdus \ outcome.lost :
            LET f == outcome.f
                up == i \in outcome.host \cup outcome.reord
                station == f.to[i] \in rx_in.members
            IN  IF outcome.v = "sta" THEN up /\ i \notin outcome.air
                ELSE (i \in outcome.air) = (Group(f, i) \/ station) /\ up = ~station

\* A frame that is put together is the fragments 0, 1, ... of one frame of one sender,
\* in their order and each once, however they are lost, repeated and timed out.
DeliveredWhole ==
    outcome # NULL /\ rx_upset = {} /\ outcome.host \cup outcome.air # {} =>
        /\ \A n \in DOMAIN outcome.parts :
              LET p == outcome.parts[n]
              IN  p.fn = n - 1 /\ p.sn = outcome.f.sn /\ p.src = outcome.f.src /\ p.more = (n < Len(outcome.parts))

\* A partial frame that is listed has its timer, or its handler has begun, or it is
\* about to get it: nothing waits for ever for the rest of a frame.
TimersCover ==
    rx_upset = {} => \A i \in Listed : entries[i].timer # "none" \/ arming = entries[i].id

\* The partial frame whose timer the teardown is stopping is still there when it
\* comes to free it (defrag_timeout_cb, rwnx_cfg80211_deinit).
HeldIsThere == held # 0 => \E i \in DOMAIN entries : entries[i].id = held

\* The radiotap header fits the room that was reserved for it, and fills it for one
\* antenna, for every format of the receive vector.
RtapFits ==
    outcome # NULL => /\ outcome.rtap[2] <= outcome.rtap[1]
                      /\ outcome.f.ants = 1 => outcome.rtap[2] = outcome.rtap[1]

\* The six (rwnx_rxdataind_aicwf, defrag_timeout_cb).
RxDataSound == EachOnce /\ RoutedRight /\ DeliveredWhole /\ TimersCover /\ HeldIsThere /\ RtapFits
=============================================================================
