------------------------------- MODULE TxPath -------------------------------
(***************************************************************************)
(* The way of one frame from the network stack to the firmware and back:   *)
(* the choice of a queue (rwnx_select_txq), the transmit functions, the    *)
(* ring of host identifiers for frames whose transmission the firmware     *)
(* confirms, the copy that goes over the bus, and the confirmation.        *)
(*                                                                         *)
(* The order of the queues is the business of TxQueue and the lists of USB *)
(* buffers that of UsbTx; here any queued frame may be pushed and any      *)
(* posted one be submitted.  The operations of TDLS are not registered     *)
(* with cfg80211, so no station is a TDLS peer.                            *)
(***************************************************************************)
EXTENDS Integers, FiniteSets, FiniteSetsExt, Null

CONSTANTS
    TpScripts,       \* the situations looked at: the interface (vif), the frames the stack and
                     \* cfg80211 offer (offers) and how many of them (max), the stations at the
                     \* start (stas) and those that come later (comers), proxies and paths of a
                     \* mesh, and whether memory, submissions and power fail (faults)
    USB_TXDESC_CNT,  \* slots of the ring
    IndexWrap        \* 0x40000000: where txdesc_free_idx starts again, a multiple of the slots

VARIABLES
    tp_in,       \* the situation; comers shrinks
    tp_sta,      \* slot -> the station that uses it, or NULL
    tp_frame,    \* frame -> its sk_buff and sw_txhdr
    tp_asked,    \* requests to the firmware for mesh proxies and paths
    tx_host_id, txdesc_free_idx,
    tp_fw,       \* what the firmware has to confirm: index and frame
    tp_up,       \* usbdev->state is USB_UP_ST
    tp_bad, tp_upset \* what a confirmation found, and named events

tpVars == <<tp_in, tp_sta, tp_frame, tp_asked, tx_host_id, txdesc_free_idx, tp_fw, tp_up, tp_bad, tp_upset>>


Slots  == DOMAIN tp_sta
Frames == DOMAIN tp_frame
Live   == tp_upset = {}
Here(m) == {s \in Slots : tp_sta[s] # NULL /\ tp_sta[s].mac = m}
TheSlot(S) == IF S = {} THEN NULL ELSE CHOOSE s \in S : TRUE

(***************************************************************************)
(* The choice of a queue.                                                  *)
(***************************************************************************)
\* Access classes by rank: background, best effort, video, voice.
BK == 0
BE == 1
VI == 2
VO == 3
rwnx_tid2hwq(tid) == CASE tid \in {1, 2} -> BK [] tid \in {4, 5} -> VI [] tid \in {6, 7, 8} -> VO [] OTHER -> BE
rwnx_down_hwq2tid(ac) == CASE ac = BK -> 2 [] ac = BE -> 3 [] OTHER -> 5

\* Mutated form for the runs: one step down, whatever that class asks for.
DowngradeOnce(acm, prio) ==
    IF rwnx_tid2hwq(prio) \in acm /\ rwnx_tid2hwq(prio) > BK
    THEN rwnx_down_hwq2tid(rwnx_tid2hwq(prio) - 1) ELSE prio
\* Down to a class without mandatory admission, to TID 1 when there is none.
rwnx_downgrade_ac(acm, prio) ==
    LET ac    == rwnx_tid2hwq(prio)
        lower == {a \in BK .. ac - 1 : a \notin acm}
    IN IF ac \notin acm THEN prio
       ELSE IF lower = {} THEN 1 ELSE rwnx_down_hwq2tid(Max(lower))

\* The station of a destination on each type of interface.
MeshTarget(e) == IF e.dst \in DOMAIN tp_in.proxy THEN tp_in.proxy[e.dst] ELSE e.dst
NoPath(e) == tp_in.vif = "mesh" /\ e.dst # "group" /\ MeshTarget(e) \notin DOMAIN tp_in.path
Destination(e) ==
    CASE tp_in.vif = "sta"  -> TheSlot(Here("ap"))
      [] tp_in.vif = "4a"   -> TheSlot(Here("wds"))
      [] tp_in.vif \in {"ap", "vlan", "mesh"} /\ e.dst = "group" -> TheSlot(Here("group"))
      [] tp_in.vif \in {"ap", "vlan"} -> TheSlot(Here(e.dst))
      [] tp_in.vif = "mesh" -> IF NoPath(e) THEN NULL ELSE TheSlot(Here(tp_in.path[MeshTarget(e)]))
      [] OTHER -> NULL

NonQos == 255
PRIO_STA_NULL == 170
\* rwnx_txq_sta_get: a TID beyond the station's queues stands for the first.
Txq(slot, tid) == <<slot, IF tid > 8 THEN 0 ELSE tid>>
Priority(e, s) ==
    IF s = NULL THEN PRIO_STA_NULL
    ELSE IF ~tp_sta[s].qos THEN NonQos
    ELSE rwnx_downgrade_ac(tp_sta[s].acm, e.up)

NewFrame(e) == [e |-> e, at |-> "chosen", map |-> NULL, prio |-> 0, to |-> NULL, acm |-> {},
                slot |-> NULL, tid |-> 0, index |-> 0, need_cfm |-> FALSE, copy |-> "none", frees |-> 0, told |-> 0, moved |-> FALSE]
Next_id == Cardinality(Frames) + 1
Add(r) == tp_frame' = [f \in Frames \cup {Next_id} |-> IF f \in Frames THEN tp_frame[f] ELSE r]

\* The requests that the choice itself sends: a mesh interface announces the
\* foreign source it stands in for and asks for a path it does not have.
MeshRequests(e) ==
    (IF tp_in.vif = "mesh" /\ e.src # "own" THEN {<<"proxy", e.src>>} ELSE {})
    \cup (IF NoPath(e) THEN {<<"path", MeshTarget(e)>>} ELSE {})

\* ndo_select_queue; the stack sends the frame afterwards.
rwnx_select_txq(e) ==
    LET s == Destination(e)
        p == Priority(e, s)
    IN /\ Live /\ Cardinality(Frames) < tp_in.max /\ e.kind \in {"data", "eapol", "ack"}
       /\ Add([NewFrame(e) EXCEPT
               !.map = (IF s = NULL THEN NULL ELSE Txq(s, p)), !.prio = p,
               !.to = (IF s = NULL THEN NULL ELSE tp_sta[s].mac),
               !.acm = (IF s = NULL THEN {} ELSE tp_sta[s].acm)])
       /\ tp_asked' = tp_asked \cup MeshRequests(e)
       /\ UNCHANGED <<tp_in, tp_sta, tx_host_id, txdesc_free_idx, tp_fw, tp_up, tp_bad, tp_upset>>

(***************************************************************************)
(* Sending.                                                                *)
(***************************************************************************)
Free(r) == [r EXCEPT !.at = "done", !.frees = @ + 1]
Set(f, r) == tp_frame' = [tp_frame EXCEPT ![f] = r]
\* What a step may suffer: a failed allocation, when the situation has any.
Fault == IF tp_in.faults THEN BOOLEAN ELSE {FALSE}

\* rwnx_get_tx_priv: the station is read off the netdev queue.
rwnx_get_tx_priv(r) == IF r.prio = PRIO_STA_NULL THEN NULL ELSE r.map[1]

\* From here rwnx_start_xmit and intf_tx are the same: find the queue, take
\* a header, fill the descriptor, queue the frame.
Queue(r, nomem) ==
    LET s == rwnx_get_tx_priv(r) IN
    IF s = NULL \/ tp_sta[s] = NULL \/ nomem THEN Free(r)
    ELSE [r EXCEPT !.at = "queued", !.slot = s, !.tid = r.prio]

rest_of_send == <<tp_in, tp_sta, tp_asked, tx_host_id, txdesc_free_idx, tp_fw, tp_up, tp_bad, tp_upset>>
\* Priorities below 3 become 0.  A short frame may be a TCP ACK that the
\* filter keeps.
Clamp(prio) == IF prio < 3 THEN 0 ELSE prio
rwnx_start_xmit(f) ==
    /\ Live /\ tp_frame[f].at = "chosen"
    /\ \E nocopy \in Fault, nomem \in Fault, keep \in BOOLEAN :
          \E r \in {[tp_frame[f] EXCEPT !.prio = Clamp(@)]} :
             /\ keep => r.e.kind = "ack" /\ ~nocopy
             /\ Set(f, IF nocopy THEN Free(r) ELSE IF keep THEN [r EXCEPT !.at = "acks"] ELSE Queue(r, nomem))
    /\ UNCHANGED rest_of_send
\* The filter sends the ACK it kept, or drops it for a newer one.
intf_tx(f) ==
    /\ Live /\ tp_frame[f].at = "acks"
    /\ \E nomem \in Fault : Set(f, Queue(tp_frame[f], nomem))
    /\ UNCHANGED rest_of_send
DropAck(f) ==
    /\ Live /\ tp_frame[f].at = "acks"
    /\ Set(f, Free(tp_frame[f]))
    /\ UNCHANGED rest_of_send

\* A management frame goes to the ninth queue of its station, or to the
\* interface's queue for unknown stations; without memory the caller gets
\* an error and no frame exists.
rwnx_start_mgmt_xmit(e) ==
    /\ Live /\ Cardinality(Frames) < tp_in.max /\ e.kind \in {"action", "assoc", "auth"}
    /\ \E s \in {TheSlot(Here(e.dst))} :
          Add([NewFrame(e) EXCEPT !.at = "queued", !.slot = s, !.tid = 8, !.to = IF s = NULL THEN NULL ELSE e.dst])
    /\ UNCHANGED rest_of_send

(***************************************************************************)
(* Pushing: the ring, then the bus.                                        *)
(***************************************************************************)
Ring == 0 .. USB_TXDESC_CNT - 1
\* The action frame, (re)association response, EAPOL and WAPI.
NeedsCfm(e) == e.kind \in {"action", "assoc", "eapol"}
Awaited == {x.frame : x \in tp_fw} \cup {f \in Frames : tp_frame[f].copy = "posted"}
After(i) == IF i + 1 = IndexWrap THEN 0 ELSE i + 1

\* Mutated form for the runs: the index is read after the push.
IndexAfter(i) == After(i)
\* status_desc_addr: the index the firmware will confirm.
StatusIndex(i) == i
aicwf_usb_host_txdesc_push(f) ==
    /\ tx_host_id' = [tx_host_id EXCEPT ![txdesc_free_idx % USB_TXDESC_CNT] = f]
    /\ txdesc_free_idx' = After(txdesc_free_idx)
    \* The slot belonged to a frame that is still to be confirmed.
    /\ tp_upset' = IF tx_host_id[txdesc_free_idx % USB_TXDESC_CNT] \in Awaited THEN {"lapped"} ELSE tp_upset

\* aicwf_frame_tx and aicwf_usb_bus_txdata: nothing goes out when the device
\* is down or no buffer is free.  A frame to be confirmed goes out as a copy,
\* another one as itself.
Bus(r, nobuf) ==
    IF ~tp_up \/ nobuf THEN Free(r)
    ELSE IF r.need_cfm THEN [r EXCEPT !.at = "ring", !.copy = "posted"]
    ELSE [r EXCEPT !.at = "posted"]

rwnx_tx_push(f) ==
    /\ Live /\ tp_frame[f].at = "queued"
    /\ \E nobuf \in Fault : \E r \in {[tp_frame[f] EXCEPT !.need_cfm = NeedsCfm(tp_frame[f].e)]} :
          Set(f, Bus([r EXCEPT !.index = IF r.need_cfm THEN StatusIndex(txdesc_free_idx) ELSE 0], nobuf))
    /\ IF NeedsCfm(tp_frame[f].e) THEN aicwf_usb_host_txdesc_push(f)
       ELSE UNCHANGED <<tx_host_id, txdesc_free_idx, tp_upset>>
    /\ UNCHANGED <<tp_in, tp_sta, tp_asked, tp_fw, tp_up, tp_bad>>
\* The copy is written through the result of kmalloc, which may be NULL.
CopyFails(f) ==
    /\ Live /\ tp_in.faults /\ tp_frame[f].at = "queued" /\ NeedsCfm(tp_frame[f].e) /\ tp_up
    /\ tp_upset' = {"nocopy"}
    /\ UNCHANGED <<tp_in, tp_sta, tp_frame, tp_asked, tx_host_id, txdesc_free_idx, tp_fw, tp_up, tp_bad>>

Posted(r) == r.at = "posted" \/ r.copy = "posted"
\* aicwf_usb_tx_complete: the frame or its copy is freed, whatever became of
\* the transfer.  What arrived the firmware will confirm, under the index it
\* carries; a frame whose copy did not arrive stays in the ring for ever.
aicwf_usb_tx_complete(f) ==
    LET r == tp_frame[f] IN
    /\ Live /\ tp_up /\ Posted(r)
    /\ \E failed \in Fault :
          /\ Set(f, IF ~r.need_cfm THEN Free(r)
                    ELSE [r EXCEPT !.copy = "none", !.at = IF failed THEN "stuck" ELSE @])
          /\ tp_fw' = IF r.need_cfm /\ ~failed THEN tp_fw \cup {[index |-> r.index, frame |-> f]} ELSE tp_fw
    /\ UNCHANGED <<tp_in, tp_sta, tp_asked, tx_host_id, txdesc_free_idx, tp_up, tp_bad, tp_upset>>
\* A failed submission, and the buffers still posted when the device
\* resumes, are given to dev_kfree_skb: a copy is no sk_buff.
FreePosted(f) ==
    LET r == tp_frame[f] IN
    /\ Live /\ tp_in.faults /\ Posted(r)
    /\ IF r.need_cfm THEN tp_upset' = {"badfree"} /\ UNCHANGED tp_frame
       ELSE Set(f, Free(r)) /\ UNCHANGED tp_upset
    /\ UNCHANGED <<tp_in, tp_sta, tp_asked, tx_host_id, txdesc_free_idx, tp_fw, tp_up, tp_bad>>

(***************************************************************************)
(* The confirmation.                                                       *)
(***************************************************************************)
Mgmt(r) == r.e.kind \in {"action", "assoc", "auth"}
Again(r, status) == status = "retry" /\ ~Mgmt(r) /\ tp_sta[r.slot] # NULL
Told(r) == IF tp_up /\ Mgmt(r) THEN [r EXCEPT !.told = @ + 1] ELSE r
\* rwnx_txdatacfm: a frame that was not sent stays, one to be sent again goes
\* back to its queue, another one is told to cfg80211 if it asked for that,
\* and released.  A device that is down only releases.
rwnx_txdatacfm(f, status) ==
    LET r == tp_frame[f]
    IN IF status = "none" THEN r
       ELSE IF tp_up /\ Again(r, status) THEN [r EXCEPT !.at = "queued"]
       ELSE Free(Told(r))

\* The handler takes the slot the index names, whatever frame is there.
aicwf_usb_host_tx_cfm_handler(x, status) ==
    LET slot == x.index % USB_TXDESC_CNT
        f == tx_host_id[slot]
    IN /\ Live
       /\ tx_host_id' = IF status = "none" THEN tx_host_id ELSE [tx_host_id EXCEPT ![slot] = NULL]
       /\ tp_fw' = IF status = "none" THEN tp_fw ELSE tp_fw \ {x}
       /\ IF f = NULL THEN tp_bad' = tp_bad \cup {"nothing"} /\ UNCHANGED tp_frame
          ELSE /\ tp_bad' = tp_bad \cup (IF f # x.frame THEN {"other"} ELSE {})
                                   \cup (IF tp_frame[f].frees > 0 THEN {"freed"} ELSE {})
               /\ Set(f, rwnx_txdatacfm(f, status))
       /\ UNCHANGED <<tp_in, tp_sta, tp_asked, txdesc_free_idx, tp_up, tp_upset>>

(***************************************************************************)
(* What goes on around.                                                    *)
(***************************************************************************)
\* The station leaves: its queues are flushed and become inactive.
StaGone(s) ==
    /\ Live /\ tp_sta[s] # NULL /\ tp_in.comers # {}
    /\ tp_sta' = [tp_sta EXCEPT ![s] = NULL]
    /\ tp_frame' = [f \in Frames |-> IF tp_frame[f].at = "queued" /\ tp_frame[f].slot = s
                                     THEN Free(tp_frame[f]) ELSE tp_frame[f]]
    /\ UNCHANGED <<tp_in, tp_asked, tx_host_id, txdesc_free_idx, tp_fw, tp_up, tp_bad, tp_upset>>
\* Another station gets the slot.  Frames that were chosen for the slot, or
\* come back to it, now go to this one.
Chosen(r, s) == r.at \in {"chosen", "acks"} /\ r.map # NULL /\ r.map[1] = s
StaComes(s, new) ==
    /\ Live /\ tp_sta[s] = NULL /\ Here(new.mac) = {}
    /\ tp_sta' = [tp_sta EXCEPT ![s] = new]
    /\ tp_in' = [tp_in EXCEPT !.comers = @ \ {new}]
    /\ tp_frame' = [f \in Frames |->
          IF Chosen(tp_frame[f], s) \/ (tp_frame[f].at = "ring" /\ tp_frame[f].slot = s)
          THEN [tp_frame[f] EXCEPT !.moved = TRUE] ELSE tp_frame[f]]
    /\ UNCHANGED <<tp_asked, tx_host_id, txdesc_free_idx, tp_fw, tp_up, tp_bad, tp_upset>>
Power ==
    /\ Live /\ tp_in.faults /\ tp_up' = ~tp_up
    /\ UNCHANGED <<tp_in, tp_sta, tp_frame, tp_asked, tx_host_id, txdesc_free_idx, tp_fw, tp_bad, tp_upset>>

\* aicwf_usb_host_init empties the ring.
TpInit ==
    /\ tp_in \in TpScripts
    /\ tp_sta = tp_in.stas
    /\ tp_frame = [f \in {} |-> f] /\ tp_asked = {}
    /\ tx_host_id = [i \in Ring |-> NULL] /\ txdesc_free_idx = 0
    /\ tp_fw = {} /\ tp_up = TRUE /\ tp_bad = {} /\ tp_upset = {}

TpNext ==
    \/ \E e \in tp_in.offers : rwnx_select_txq(e) \/ rwnx_start_mgmt_xmit(e)
    \/ \E f \in Frames : \/ rwnx_start_xmit(f) \/ intf_tx(f) \/ DropAck(f)
                         \/ rwnx_tx_push(f) \/ CopyFails(f)
                         \/ aicwf_usb_tx_complete(f) \/ FreePosted(f)
    \/ \E x \in tp_fw, status \in {"none", "sent", "retry"} : aicwf_usb_host_tx_cfm_handler(x, status)
    \/ \E s \in Slots : StaGone(s) \/ \E new \in tp_in.comers : StaComes(s, new)
    \/ Power

Spec == TpInit /\ [][TpNext]_tpVars

-----------------------------------------------------------------------------
\* Every frame is released once, and nobody holds it afterwards.
ReleasedOnce == \A f \in Frames :
    /\ tp_frame[f].frees <= 1
    /\ tp_frame[f].frees = 1 <=> tp_frame[f].at = "done"
    /\ tp_frame[f].at = "done" => f \notin Awaited
\* A frame the firmware or the bus has a copy of is in the ring, under the
\* index that will be confirmed; so a confirmation finds its own frame, alive.
ConfirmsOwn ==
    /\ tp_bad = {}
    /\ \A x \in tp_fw : tx_host_id[x.index % USB_TXDESC_CNT] = x.frame
    /\ \A f \in Frames : tp_frame[f].at = "ring" => f \in Awaited
\* A frame is addressed to the station it was chosen for, on the queue that
\* the stack was told, in a class that asks for no admission: background is
\* the floor.  Exempt are frames whose slot changed hands, and those whose
\* background TID is raised to best effort.
Raised(r) == r.e.kind \in {"data", "eapol", "ack"} /\ r.map # NULL /\ r.map[2] \in {1, 2}
InPlace(r) == r.at = "queued" /\ ~r.moved
RightStation == \A f \in Frames :
    InPlace(tp_frame[f]) /\ tp_frame[f].slot # NULL => tp_sta[tp_frame[f].slot].mac = tp_frame[f].to
RightQueue == \A f \in Frames : \E r \in {tp_frame[f]} :
    InPlace(r) /\ ~Mgmt(r) /\ ~Raised(r) =>
        /\ Txq(r.slot, r.tid) = r.map
        /\ r.tid = NonQos \/ rwnx_tid2hwq(r.tid) \notin r.acm
\* A management frame is told to cfg80211 at most once, and when it was
\* confirmed by a device that is up.
ToldOnce == \A f \in Frames : tp_frame[f].told <= 1 /\ (tp_frame[f].told = 1 => tp_frame[f].at = "done")

\* A frame keeps to its station, queue and class on its way to the firmware,
\* its confirmation finds it, and it is released once: until the ring is
\* lapped by more frames than it has slots, a copy cannot be allocated, or a
\* copy is freed as if it were an sk_buff.
TxPathSound == Live => ReleasedOnce /\ ConfirmsOwn /\ RightStation /\ RightQueue /\ ToldOnce
=============================================================================
