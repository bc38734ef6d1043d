------------------------------ MODULE TxQueue ------------------------------
(***************************************************************************)
(* The software transmit queues of one station (struct rwnx_txq), the      *)
(* hardware queues that schedule them (struct rwnx_hwq), the power-save    *)
(* state of the station, and their life: a station is added and removed    *)
(* while frames are sent, the interface is stopped and started, the        *)
(* firmware asks for buffered frames and confirms pushed ones.             *)
(*                                                                         *)
(* tx_lock is held while a hardware queue is walked (walk # Idle); every   *)
(* other section under tx_lock is one step, enabled when the lock is free. *)
(* Frames are numbered in the order in which they are queued.              *)
(***************************************************************************)
EXTENDS Integers, Sequences, FiniteSets, FiniteSetsExt, SequencesExt

CONSTANTS
    Tids,        \* the station's queues in TID order (foreach_sta_txq)
    Prio,        \* its data queues by priority (foreach_sta_txq_prio)
    NoQ,
    PsIdMaps,    \* the kinds of station: queue -> "legacy" or "uapsd"
    HwqOf,       \* txq->hwq
    Senders,     \* contexts that send: rwnx_start_xmit, intf_tx, rwnx_start_mgmt_xmit
    Credits,     \* NX_TXQ_INITIAL_CREDITS
    CreditMax,   \* 2^7: credits is an s8
    Wrap,        \* 2^16: pkt_ready and sp_cnt are u16
    LimitWrap,   \* 2^8: push_limit is a u8
    FlowStop,    \* RWNX_NDEV_FLOW_CTRL_STOP
    FlowRestart, \* RWNX_NDEV_FLOW_CTRL_RESTART
    HwqSize,     \* hwq->size
    Requests,    \* pkt_req of the firmware's traffic requests; 0 asks for all
    MaxFrames,   \* bound: frames sent
    MaxRetry,    \* bound: frames of a queue sent again
    Scenarios    \* the sets of events looked at

\* What may happen: the station sleeps and wakes ("ps"), its service periods are
\* interrupted, the interface stops, switches channel (csa), the bus is busy, the
\* station goes and comes back ("life"), frames are confirmed and sent again, so
\* often that the credits wrap; and where the code leaves out a lock or a test
\* that its comments speak of: confirmations without tx_lock ("unlocked"), message
\* handlers without cb_lock ("nocb"), traffic requests for a station that is not
\* there yet ("early").
EventNames == {"ps", "interrupt", "stop", "csa", "busy", "life", "cfm", "retry", "wrap",
               "unlocked", "nocb", "early"}

Txqs == ToSet(Tids)
Data == ToSet(Prio)
Hwqs == {HwqOf[q] : q \in Txqs}
PsIds == {"legacy", "uapsd"}
VifReasons == {"chan", "vif_ps", "csa"}
Reasons == VifReasons \cup {"full", "sta_ps"}

ASSUME QueuesAssumption ==
    /\ Tids \in Seq(Txqs) /\ IsInjective(Tids) /\ Prio \in Seq(Data) /\ IsInjective(Prio)
    /\ Data \subseteq Txqs /\ NoQ \notin Txqs
    /\ PsIdMaps \subseteq [Txqs -> PsIds] /\ Scenarios \subseteq SUBSET EventNames /\ Hwqs \subseteq Nat \ {0}
ASSUME NumbersAssumption ==
    /\ CreditMax \in Nat /\ Credits \in 1 .. CreditMax - 1 /\ CreditMax <= LimitWrap
    /\ {Wrap, LimitWrap} \subseteq Nat /\ LimitWrap <= Wrap
    /\ {FlowStop, FlowRestart, HwqSize, MaxFrames, MaxRetry} \subseteq Nat /\ Requests \subseteq Nat
    /\ FlowRestart <= FlowStop /\ IsFiniteSet(Senders)
    /\ Len(Tids) * LimitWrap <= Wrap

VARIABLES
    ps_id,       \* txq->ps_id; it does not change
    events,      \* the events of this behaviour; never changes
    active,      \* queues whose idx is not TXQ_INACTIVE
    stop,        \* queue -> its RWNX_TXQ_STOP_ bits
    flagged,     \* queues with RWNX_TXQ_IN_HWQ_LIST
    list,        \* hwq->list
    need,        \* hardware queues with need_processing
    sk,          \* txq->sk_list
    nb_retry, last_retry,
    credits, limit, sent,   \* txq->credits, push_limit, pkt_sent
    flow,        \* queues with RWNX_TXQ_NDEV_FLOW_CTRL
    closed,      \* netdev queues that are stopped
    tbusy,       \* usbdev->tbusy
    psOn, ready, sp,        \* sta->ps: active, pkt_ready, sp_cnt
    tim,         \* PS ids for which the firmware was told that traffic waits
    valid,       \* sta->valid, and the station is on the list of its interface
    add,         \* rwnx_cfg80211_add_station: where it is
    vstop,       \* stop bits of the interface's own queue
    dq, flushing, \* removal: queues still to be deinitialised, the one to be flushed
    task,        \* rwnx_task is scheduled
    walk,        \* rwnx_hwq_process: hardware queue, next queue, hardware queues after it
    sender,      \* sender -> the queue it has found active
    cfm,         \* the queue an unlocked confirmation is about to link
    nf,          \* frames queued so far
    fw,          \* <<queue, frame>> pushed and not yet confirmed
    out          \* queue -> the last frame pushed for the first time

Idle == [h |-> 0, at |-> NoQ, rest |-> {}]

envVars   == <<ps_id, events>>
schedVars == <<flagged, list, need>>
queueVars == <<sk, nb_retry, last_retry, credits, limit, sent>>
flowVars  == <<flow, closed, tbusy>>
psVars    == <<psOn, ready, sp, tim>>
lifeVars  == <<valid, add, dq, flushing>>
histVars  == <<nf, fw, out>>
vars == <<envVars, active, stop, schedVars, queueVars, flowVars, psVars, lifeVars,
          vstop, task, walk, sender, cfm, histVars>>

TypeOK ==
    /\ ps_id \in PsIdMaps /\ events \in Scenarios
    /\ active \subseteq Txqs /\ flagged \subseteq Txqs /\ flow \subseteq Txqs
    /\ stop \in [Txqs -> SUBSET Reasons] /\ vstop \subseteq VifReasons
    /\ list \in [Hwqs -> Seq(Txqs)] /\ need \subseteq Hwqs
    /\ sk \in [Txqs -> Seq(1 .. MaxFrames)]
    /\ nb_retry \in [Txqs -> Nat] /\ last_retry \in [Txqs -> 0 .. MaxFrames]
    /\ credits \in [Txqs -> -CreditMax .. CreditMax - 1] /\ limit \in [Txqs -> 0 .. LimitWrap - 1]
    /\ sent \in [Txqs -> Nat]
    /\ closed \subseteq Data /\ tbusy \in BOOLEAN /\ task \in BOOLEAN
    /\ psOn \in BOOLEAN /\ tim \subseteq PsIds
    /\ ready \in [PsIds -> 0 .. Wrap - 1] /\ sp \in [PsIds -> 0 .. Wrap - 1]
    /\ valid \in BOOLEAN /\ add \in {"none", "asked", "init", "on", "off"}
    /\ dq \in Seq(Txqs) /\ flushing \in Txqs \cup {NoQ} /\ cfm \in Txqs \cup {NoQ}
    /\ walk \in [h : Hwqs \cup {0}, at : Txqs \cup {NoQ}, rest : SUBSET Hwqs]
    /\ sender \in [Senders -> Txqs \cup {NoQ}]
    /\ nf \in 0 .. MaxFrames /\ fw \subseteq Txqs \X (1 .. MaxFrames)
    /\ out \in [Txqs -> 0 .. MaxFrames]

\* The station was added (rwnx_txq_init of its queues) and is awake.
Init ==
    /\ ps_id \in PsIdMaps /\ events \in Scenarios
    /\ active = Txqs /\ stop = [q \in Txqs |-> {}] /\ vstop = {}
    /\ flagged = {} /\ list = [h \in Hwqs |-> <<>>] /\ need = {}
    /\ sk = [q \in Txqs |-> <<>>]
    /\ nb_retry = [q \in Txqs |-> 0] /\ last_retry = [q \in Txqs |-> 0]
    /\ credits = [q \in Txqs |-> Credits] /\ limit = [q \in Txqs |-> 0]
    /\ sent = [q \in Txqs |-> 0]
    /\ flow = {} /\ closed = {} /\ tbusy = FALSE
    /\ psOn = FALSE /\ ready = [i \in PsIds |-> 0] /\ sp = [i \in PsIds |-> 0] /\ tim = {}
    /\ valid = TRUE /\ add = "none" /\ dq = <<>> /\ flushing = NoQ
    /\ task = FALSE /\ walk = Idle /\ sender = [s \in Senders |-> NoQ] /\ cfm = NoQ
    /\ nf = 0 /\ fw = {} /\ out = [q \in Txqs |-> 0]

-----------------------------------------------------------------------------
(* The schedule lists                                                      *)

Free == walk = Idle

\* The elements of s that are in S, in their order.
OnlyIn(s, S) ==
    LET kept[i \in 0 .. Len(s)] ==
            IF i = 0 THEN <<>>
            ELSE IF s[i] \in S THEN Append(kept[i - 1], s[i]) ELSE kept[i - 1]
    IN  kept[Len(s)]

\* rwnx_txq_add_to_hw_list for the queues of the set S, as they come in order.
AddToHwList(S, order) ==
    /\ list' = [h \in Hwqs |-> list[h] \o OnlyIn(order, {q \in S \ flagged : HwqOf[q] = h})]
    /\ flagged' = flagged \cup S

\* The need_processing marks that come with it.
Marks(S) == {HwqOf[q] : q \in S \ flagged}

\* Mutant of DelFromHwList: the list entry stays.
DelFromHwListFlagOnly(S) ==
    /\ list' = list
    /\ flagged' = flagged \ S

\* rwnx_txq_del_from_hw_list for the queues of the set S.
DelFromHwList(S) ==
    /\ list' = [h \in Hwqs |-> OnlyIn(list[h], Txqs \ (S \cap flagged))]
    /\ flagged' = flagged \ S

\* rwnx_txq_stop of the station's queues.
StopQueues(r) ==
    /\ stop' = [q \in Txqs |-> IF q \in active THEN stop[q] \cup {r} ELSE stop[q]]
    /\ DelFromHwList(active)

\* Mutant of Started: the status is tested before the bit of r is cleared.
StartedEarly(r) == {q \in active : r \in stop[q] /\ stop[q] = {} /\ sk[q] # <<>>}

\* The queues that rwnx_txq_start links when reason r goes away.
Started(r) == {q \in active : r \in stop[q] /\ stop[q] \subseteq {r} /\ sk[q] # <<>>}

\* rwnx_txq_start of the station's queues.
StartQueues(r) ==
    /\ stop' = [q \in Txqs |-> IF q \in active THEN stop[q] \ {r} ELSE stop[q]]
    /\ AddToHwList(Started(r), Tids) /\ need' = need \cup Marks(Started(r))

-----------------------------------------------------------------------------
(* Queueing a frame                                                        *)

\* rwnx_txq_queue_skb, power-save part: one more frame is buffered.
CountReady(q) ==
    LET i == ps_id[q]  n == (ready[i] + 1) % Wrap IN
    IF psOn
    THEN /\ ready' = [ready EXCEPT ![i] = n]
         /\ tim' = IF n = 1 THEN tim \cup {i} ELSE tim
    ELSE UNCHANGED <<ready, tim>>

\* rwnx_txq_queue_skb, flow control: too many frames stop the netdev queue.
FlowStops(q) ==
    IF q \in Data /\ ~tbusy /\ Len(sk'[q]) > FlowStop
    THEN flow' = flow \cup {q} /\ closed' = closed \cup {q}
    ELSE UNCHANGED <<flow, closed>>

\* rwnx_start_xmit, intf_tx, rwnx_start_mgmt_xmit: the queue is found active,
\* before tx_lock is taken.
Xmit(s, q) ==
    /\ sender[s] = NoQ /\ q \in active /\ q \notin closed
    /\ nf + Cardinality({t \in Senders : sender[t] # NoQ}) < MaxFrames
    /\ sender' = [sender EXCEPT ![s] = q]
    /\ UNCHANGED <<envVars, active, stop, schedVars, queueVars, flowVars, psVars,
                   lifeVars, vstop, task, walk, cfm, histVars>>

\* The frame is queued and, if its queue is not stopped, the hardware queue is
\* walked before tx_lock is released.
QueueSkb(s) ==
    LET q == sender[s]  h == HwqOf[q] IN
    /\ Free /\ q # NoQ
    /\ sender' = [sender EXCEPT ![s] = NoQ] /\ nf' = nf + 1
    /\ sk' = [sk EXCEPT ![q] = Append(@, nf + 1)]
    /\ CountReady(q) /\ FlowStops(q)
    /\ IF stop[q] = {}
       THEN /\ AddToHwList({q}, Tids) /\ need' = need \ {h}
            /\ walk' = [h |-> h, at |-> Head(list'[h]), rest |-> {}]
       ELSE UNCHANGED <<schedVars, walk>>
    /\ UNCHANGED <<envVars, active, stop, nb_retry, last_retry, credits, limit, sent,
                   tbusy, psOn, sp, lifeVars, vstop, task, cfm, fw, out>>

-----------------------------------------------------------------------------
(* rwnx_hwq_process                                                        *)

\* The queue after q on its list.
After(l, q) ==
    LET i == CHOOSE i \in DOMAIN l : l[i] = q
    IN  IF i < Len(l) THEN l[i + 1] ELSE NoQ

\* Mutant of GetCredits: the push limit of a service period is not looked at.
GetCreditsAll(q) == credits[q]

\* rwnx_txq_get_credits.
GetCredits(q) == IF limit[q] > 0 /\ credits[q] > limit[q] THEN limit[q] ELSE credits[q]

\* rwnx_txq_get_skb_to_push: how many frames go, and whether q is done with.
NPush(q) == Min({GetCredits(q), Len(sk[q])})
Done(q) == \/ GetCredits(q) >= Len(sk[q])
           \/ limit[q] > 0 /\ GetCredits(q) = limit[q]

\* Mutant of PushPs: pkt_ready is not counted down.
PushPsNoReady(q, k, rest) ==
    LET i == ps_id[q] IN
    /\ UNCHANGED <<envVars, ready, tim>>
    /\ sp' = [sp EXCEPT ![i] = (@ - (IF psOn THEN k ELSE 0) - rest) % Wrap]

\* rwnx_set_more_data_flag for each of k frames, and the end of a legacy service
\* period that leaves rest frames of its request behind.
PushPs(q, k, rest) ==
    LET i == ps_id[q] IN
    /\ IF psOn
       THEN /\ ready' = [ready EXCEPT ![i] = (@ - k) % Wrap]
            /\ tim' = IF ready[i] \in 1 .. k THEN tim \ {i} ELSE tim
       ELSE UNCHANGED <<ready, tim>>
    /\ sp' = [sp EXCEPT ![i] = (@ - (IF psOn THEN k ELSE 0) - rest) % Wrap]

\* rwnx_tx_push of the first k frames of q: the retry count and the history.
PushFrames(q, k) ==
    LET pushed == SubSeq(sk[q], 1, k)
        r == Min({k, nb_retry[q]}) IN
    /\ sk' = [sk EXCEPT ![q] = SubSeq(@, k + 1, Len(@))]
    /\ nb_retry' = [nb_retry EXCEPT ![q] = @ - r]
    /\ last_retry' = [last_retry EXCEPT ![q] = IF nb_retry[q] = r THEN 0 ELSE @]
    /\ out' = [out EXCEPT ![q] = Max({@} \cup ToSet(pushed))]
    /\ fw' = IF "cfm" \in events THEN fw \cup {<<q, f>> : f \in ToSet(pushed)} ELSE fw

\* Mutant of FlowRestarts: the netdev queue waits until all frames are gone.
FlowRestartsEmpty(q) ==
    IF q \in flow /\ sk'[q] = <<>>
    THEN /\ flow' = flow \ {q}
         /\ closed' = IF tbusy THEN closed ELSE closed \ {q}
    ELSE UNCHANGED <<flow, closed>>

\* Below the threshold the netdev queue is woken, unless the bus is busy.
FlowRestarts(q) ==
    IF q \in flow /\ Len(sk'[q]) < FlowRestart
    THEN /\ flow' = flow \ {q}
         /\ closed' = IF tbusy THEN closed ELSE closed \ {q}
    ELSE UNCHANGED <<flow, closed>>

\* One round of the loop, for an active queue.  The guards are the BUG_ONs at its
\* top: where one fires, the walk ends for good.
WalkActive ==
    LET q == walk.at  h == walk.h  k == NPush(q)
        left == IF limit[q] > k THEN limit[q] - k ELSE 0
        abort == left > 0 /\ ps_id[q] = "legacy"
        n == sent[q] + k - Min({k, nb_retry[q]})
        turn == ~Done(q) /\ n > HwqSize IN
    /\ q \in flagged /\ q \in active /\ credits[q] > 0 /\ sk[q] # <<>>
    /\ PushFrames(q, k) /\ PushPs(q, k, IF abort THEN left ELSE 0)
    /\ limit' = [limit EXCEPT ![q] = IF abort THEN 0 ELSE left]
    /\ sent' = [sent EXCEPT ![q] = IF Done(q) \/ turn THEN 0 ELSE n]
    /\ IF Done(q) THEN DelFromHwList({q})
       ELSE /\ list' = IF turn THEN [list EXCEPT ![h] = Append(Tail(@), Head(@))] ELSE list
            /\ UNCHANGED flagged
    /\ FlowRestarts(q)
    /\ walk' = [walk EXCEPT !.at = After(list[h], q)]
    /\ UNCHANGED <<envVars, active, stop, need, credits, tbusy, psOn, lifeVars, vstop,
                   task, sender, cfm, nf>>

\* One round of the loop, for a queue that was deinitialised after the sender
\* had found it active: it is unlinked and flushed.
WalkInactive ==
    LET q == walk.at IN
    /\ q \in flagged /\ q \notin active
    /\ DelFromHwList({q}) /\ sk' = [sk EXCEPT ![q] = <<>>]
    /\ walk' = [walk EXCEPT !.at = After(list[walk.h], q)]
    /\ UNCHANGED <<envVars, active, stop, need, nb_retry, last_retry, credits, limit,
                   sent, flowVars, psVars, lifeVars, vstop, task, sender, cfm, histVars>>

\* rwnx_hwq_process_all goes on with the hardware queues of S, the last one first.
WalkOn(S) ==
    IF S = {} THEN walk' = Idle /\ UNCHANGED need
    ELSE LET h == Max(S) IN
         /\ walk' = [h |-> h, at |-> IF list[h] = <<>> THEN NoQ ELSE Head(list[h]),
                     rest |-> S \ {h}]
         /\ need' = need \ {h}

\* The end of a list: tx_lock is released after the last one.
WalkEnd ==
    /\ walk # Idle /\ walk.at = NoQ
    /\ WalkOn(walk.rest)
    /\ UNCHANGED <<envVars, active, stop, flagged, list, queueVars, flowVars, psVars,
                   lifeVars, vstop, task, sender, cfm, histVars>>

\* rwnx_task takes the hardware queues that need processing.
Task ==
    /\ task /\ Free
    /\ task' = FALSE /\ WalkOn(need)
    /\ UNCHANGED <<envVars, active, stop, flagged, list, queueVars, flowVars, psVars,
                   lifeVars, vstop, sender, cfm, histVars>>

-----------------------------------------------------------------------------
(* Power save of the station                                               *)

\* The sum of f over the first n queues of order.
SumOver(order, f, n) ==
    LET sum[m \in 0 .. Len(order)] == IF m = 0 THEN 0 ELSE sum[m - 1] + f[order[m]]
    IN  sum[n]

\* The sum of f over the station's queues of PS id i (foreach_sta_txq).
Total(f, i) == SumOver(Tids, [q \in Txqs |-> IF ps_id[q] = i THEN f[q] ELSE 0], Len(Tids))

Buffered(i) == Total([q \in Txqs |-> Len(sk[q])], i)

\* Mutant of PsEnable: frames queued before are not counted.
PsEnableNoCount ==
    /\ psOn' = TRUE /\ sp' = [i \in PsIds |-> 0]
    /\ StopQueues("sta_ps")
    /\ ready' = [i \in PsIds |-> 0]
    /\ UNCHANGED <<envVars, need, limit, tim, task>>

\* rwnx_ps_bh_enable(..., true).
PsEnable ==
    /\ psOn' = TRUE /\ sp' = [i \in PsIds |-> 0]
    /\ StopQueues("sta_ps")
    /\ ready' = [i \in PsIds |-> Buffered(i) % Wrap]
    /\ UNCHANGED <<envVars, need, limit, tim, task>>

\* Mutant of PsDisable: a service period under way keeps its push limit.
PsDisableKeepLimit ==
    /\ psOn' = FALSE /\ limit' = limit
    /\ StartQueues("sta_ps")
    /\ tim' = IF ready["legacy"] > 0 THEN tim \ {"legacy"} ELSE tim
    /\ task' = TRUE
    /\ UNCHANGED <<envVars, ready, sp>>

\* rwnx_ps_bh_enable(..., false).
PsDisable ==
    /\ psOn' = FALSE /\ limit' = [q \in Txqs |-> 0]
    /\ StartQueues("sta_ps")
    /\ tim' = IF ready["legacy"] > 0 THEN tim \ {"legacy"} ELSE tim
    /\ task' = TRUE
    /\ UNCHANGED <<envVars, ready, sp>>

\* Message handlers wait for rwnx_cfg80211_add_station if they take cb_lock.
Admitted == "nocb" \notin events => add \in {"none", "asked"}

\* rwnx_rx_ps_change_ind of a valid station, or of one that is being added.
PsInd(on) ==
    /\ "ps" \in events /\ on # psOn /\ Admitted
    /\ \/ /\ valid /\ Free
          /\ IF on THEN PsEnable ELSE PsDisable
       \/ /\ ~valid /\ add # "none"
          /\ psOn' = on
          /\ UNCHANGED <<stop, schedVars, limit, ready, sp, tim, task>>
    /\ UNCHANGED <<envVars, active, sk, nb_retry, last_retry, credits, sent, flowVars,
                   lifeVars, vstop, walk, sender, cfm, histVars>>

\* The firmware interrupts a U-APSD service period (PS_SP_INTERRUPTED).
Interrupt ==
    /\ "interrupt" \in events /\ psOn /\ Free
    /\ sp' = [sp EXCEPT !["uapsd"] = 0] /\ limit' = [q \in Txqs |-> 0]
    /\ UNCHANGED <<envVars, active, stop, schedVars, sk, nb_retry, last_retry, credits,
                   sent, flowVars, psOn, ready, tim, lifeVars, vstop, task, walk,
                   sender, cfm, histVars>>

\* What q can contribute to a request for frames of PS id i.
Offer(q, i) ==
    IF ps_id[q] # i THEN 0
    ELSE IF Len(sk[q]) > credits[q] THEN credits[q] % Wrap ELSE Len(sk[q])

\* What rwnx_ps_bh_traffic_req makes the n-th data queue push of a request for
\* req frames: the queues before it come first.
Share(n, i, req) ==
    LET before == SumOver(Prio, [q \in Data |-> Offer(q, i)], n - 1)
    IN  Max({0, Min({Offer(Prio[n], i), req - before})})

\* rwnx_ps_bh_traffic_req for req of the i frames buffered, outside a service
\* period and with frames ready.  The code tests ps.active and not sta->valid: a
\* firmware that asks before the station is added ("early") is served as well.
TrafficReq(pkt_req, i) ==
    LET all == ready[i] - sp[i]
        want == IF pkt_req = 0 \/ pkt_req > all THEN all ELSE pkt_req
        share == [q \in Txqs |->
            IF q \in Data THEN Share(CHOOSE n \in DOMAIN Prio : Prio[n] = q, i, want)
            ELSE 0]
        served == {q \in Data : share[q] \in 1 .. Offer(q, i)} IN
    /\ "ps" \in events /\ psOn /\ Free /\ Admitted
    /\ valid \/ "early" \in events
    /\ sp[i] = 0 /\ all > 0
    /\ limit' = [q \in Txqs |-> IF q \in served THEN share[q] % LimitWrap ELSE limit[q]]
    /\ sp' = [sp EXCEPT ![i] = Total(share, i) % Wrap]
    /\ AddToHwList(served, Prio) /\ need' = need \cup Marks(served)
    /\ task' = TRUE
    /\ UNCHANGED <<envVars, active, stop, sk, nb_retry, last_retry, credits, sent,
                   flowVars, psOn, ready, tim, lifeVars, vstop, walk, sender, cfm,
                   histVars>>

-----------------------------------------------------------------------------
(* The interface                                                           *)

\* rwnx_txq_vif_stop: channel switch, absence of the interface, or CSA.
VifStop(r) ==
    /\ (IF r = "csa" THEN "csa" ELSE "stop") \in events
    /\ Free /\ Admitted /\ r \notin vstop
    /\ vstop' = vstop \cup {r}
    /\ IF valid THEN StopQueues(r) ELSE UNCHANGED <<stop, flagged, list>>
    /\ UNCHANGED <<envVars, active, need, queueVars, flowVars, psVars, lifeVars, task,
                   walk, sender, cfm, histVars>>

\* rwnx_txq_vif_start.  Only the channel switch and the power-save handlers
\* schedule rwnx_task afterwards: kick.
VifStart(r, kick) ==
    /\ r \in vstop /\ Free /\ Admitted
    /\ vstop' = vstop \ {r}
    /\ IF valid THEN StartQueues(r) ELSE UNCHANGED <<stop, schedVars>>
    /\ task' = (task \/ kick)
    /\ UNCHANGED <<envVars, active, queueVars, flowVars, psVars, lifeVars, walk, sender,
                   cfm, histVars>>

\* rwnx_rx_chan_switch_ind and rwnx_rx_p2p_vif_ps_change_ind.
VifBack(r) == r # "csa" /\ VifStart(r, TRUE)

\* rwnx_rx_csa_traffic_ind.
CsaEnd == VifStart("csa", FALSE)

\* rwnx_csa_finish and rwnx_rx_csa_finish_ind.
CsaFinish == "csa" \in events /\ VifStart("chan", FALSE)

\* aicwf_usb_tx_flowctrl: the bus stops and wakes every netdev queue.
BusBusy(b) ==
    /\ "busy" \in events /\ b # tbusy
    /\ tbusy' = b /\ closed' = IF b THEN Data ELSE {}
    /\ UNCHANGED <<envVars, active, stop, schedVars, queueVars, flow, psVars, lifeVars,
                   vstop, task, walk, sender, cfm, histVars>>

-----------------------------------------------------------------------------
(* A station goes and comes back                                           *)

\* rwnx_cfg80211_del_station, the part under cb_lock.
DelStation ==
    /\ "life" \in events /\ valid /\ add = "none"
    /\ valid' = FALSE /\ psOn' = FALSE /\ dq' = Tids
    /\ UNCHANGED <<envVars, active, stop, schedVars, queueVars, flowVars, ready, sp,
                   tim, add, flushing, vstop, task, walk, sender, cfm, histVars>>

\* rwnx_txq_deinit of the next queue, the part under tx_lock.
Deinit ==
    LET q == Head(dq) IN
    /\ dq # <<>> /\ flushing = NoQ /\ Free
    /\ dq' = Tail(dq)
    /\ DelFromHwList({q}) /\ active' = active \ {q} /\ flushing' = q
    /\ UNCHANGED <<envVars, stop, need, queueVars, flowVars, psVars, valid, add, vstop,
                   task, walk, sender, cfm, histVars>>

\* rwnx_txq_flush, after tx_lock was released.
Flush ==
    /\ flushing # NoQ /\ flushing' = NoQ
    /\ sk' = [sk EXCEPT ![flushing] = <<>>]
    /\ UNCHANGED <<envVars, active, stop, schedVars, nb_retry, last_retry, credits,
                   limit, sent, flowVars, psVars, valid, add, dq, vstop, task, walk,
                   sender, cfm, histVars>>

\* rwnx_cfg80211_add_station asks the firmware; the round trip outlasts every
\* bottom half that found a queue active before the station was removed.
AddStation ==
    /\ ~valid /\ add = "none" /\ dq = <<>> /\ flushing = NoQ
    /\ Free /\ \A s \in Senders : sender[s] = NoQ
    /\ add' = "asked"
    /\ UNCHANGED <<envVars, active, stop, schedVars, queueVars, flowVars, psVars, valid,
                   dq, flushing, vstop, task, walk, sender, cfm, histVars>>

\* rwnx_txq_vif_get_status.
VifStatus == vstop \cap {"chan", "vif_ps"}

\* rwnx_txq_sta_init: every queue is set up with the stop bits of the interface.
StaInit ==
    /\ add = "asked" /\ add' = "init"
    /\ active' = Txqs
    /\ stop' = [q \in Txqs |-> VifStatus]
    /\ flagged' = {} /\ flow' = {}
    /\ sk' = [q \in Txqs |-> <<>>] /\ limit' = [q \in Txqs |-> 0]
    /\ nb_retry' = [q \in Txqs |-> 0] /\ last_retry' = [q \in Txqs |-> 0]
    /\ credits' = [q \in Txqs |-> Credits] /\ sent' = [q \in Txqs |-> 0]
    /\ UNCHANGED <<envVars, list, need, closed, tbusy, psVars, valid, dq, flushing,
                   vstop, task, walk, sender, cfm, nf, fw, out>>

\* The station is put on the list and made valid; then the argument of
\* rwnx_ps_bh_enable is evaluated.  pm is me_sta_add_cfm.pm_state.
LinkStation(pm) ==
    /\ add = "init" /\ valid' = TRUE
    /\ add' = IF psOn \/ pm THEN "on" ELSE "off"
    /\ UNCHANGED <<envVars, active, stop, schedVars, queueVars, flowVars, psVars, dq,
                   flushing, vstop, task, walk, sender, cfm, histVars>>

\* rwnx_ps_bh_enable at the end of rwnx_cfg80211_add_station.
Added ==
    /\ add \in {"on", "off"} /\ Free /\ add' = "none"
    /\ IF add = "on" THEN PsEnable ELSE PsDisable
    /\ UNCHANGED <<envVars, active, sk, nb_retry, last_retry, credits, sent, flowVars,
                   valid, dq, flushing, vstop, walk, sender, cfm, histVars>>

-----------------------------------------------------------------------------
(* rwnx_txdatacfm                                                          *)

\* rwnx_txq_add_to_hw_list by the confirmation, in one step with the lock held
\* and in two without it.
Link(q) ==
    IF "unlocked" \notin events THEN AddToHwList({q}, Tids) /\ UNCHANGED cfm
    ELSE cfm' = (IF q \in flagged THEN NoQ ELSE q) /\ UNCHANGED <<flagged, list>>

MayConfirm == cfm = NoQ /\ ("unlocked" \in events \/ Free)

\* The frame went out: a service period of its queue continues.
Confirm(q, f) ==
    /\ <<q, f>> \in fw /\ MayConfirm
    /\ fw' = fw \ {<<q, f>>} /\ need' = need \cup {HwqOf[q]}
    /\ IF q \in active /\ limit[q] > 0 /\ "full" \notin stop[q]
       THEN Link(q) ELSE UNCHANGED <<flagged, list, cfm>>
    /\ UNCHANGED <<envVars, active, stop, queueVars, flowVars, psVars, lifeVars, vstop,
                   task, walk, sender, nf, out>>

\* Mutant of MoreCredits: wider than an s8.
MoreCreditsWide(q) == credits[q] + 1

\* txq->credits++ on an s8.
MoreCredits(q) == IF credits[q] + 1 < CreditMax THEN credits[q] + 1 ELSE -CreditMax

\* Mutant of InsertRetry: a retried frame overtakes those queued for retry before it.
InsertRetryFirst(q, f) == <<f>> \o sk[q]

\* A retried frame is put behind the last frame queued for retry, or in front.
InsertRetry(q, f) ==
    LET i == IF last_retry[q] = 0 THEN 0 ELSE CHOOSE i \in DOMAIN sk[q] : sk[q][i] = last_retry[q]
    IN  SubSeq(sk[q], 1, i) \o <<f>> \o SubSeq(sk[q], i + 1, Len(sk[q]))

\* The firmware wants the frame again: rwnx_tx_retry.
Retry(q, f) ==
    /\ "retry" \in events /\ <<q, f>> \in fw /\ MayConfirm /\ q \in active \cap Data
    /\ credits[q] < Credits + MaxRetry /\ ("wrap" \in events \/ credits[q] + 1 < CreditMax)
    /\ fw' = fw \ {<<q, f>>} /\ need' = need \cup {HwqOf[q]}
    /\ credits' = [credits EXCEPT ![q] = MoreCredits(q)]
    /\ stop' = IF MoreCredits(q) > 0 THEN [stop EXCEPT ![q] = @ \ {"full"}] ELSE stop
    /\ sk' = [sk EXCEPT ![q] = InsertRetry(q, f)]
    /\ nb_retry' = [nb_retry EXCEPT ![q] = @ + 1] /\ last_retry' = [last_retry EXCEPT ![q] = f]
    /\ CountReady(q) /\ FlowStops(q)
    /\ IF stop'[q] = {} THEN Link(q) ELSE UNCHANGED <<flagged, list, cfm>>
    /\ UNCHANGED <<envVars, active, limit, sent, tbusy, psOn, sp, lifeVars, vstop, task,
                   walk, sender, nf, out>>

\* Without the lock: the list entry is added whatever happened since the test.
ConfirmLink ==
    /\ cfm # NoQ /\ cfm' = NoQ
    /\ list' = [list EXCEPT ![HwqOf[cfm]] = Append(@, cfm)]
    /\ flagged' = flagged \cup {cfm} /\ need' = need \cup {HwqOf[cfm]}
    /\ UNCHANGED <<envVars, active, stop, queueVars, flowVars, psVars, lifeVars, vstop,
                   task, walk, sender, histVars>>

\* rwnx_txq_credit_update: the credits decide whether the queue is full.
CreditUpdate(q) ==
    /\ "retry" \in events /\ Free /\ q \in active
    /\ IF credits[q] <= 0
       THEN /\ stop' = [stop EXCEPT ![q] = @ \cup {"full"}] /\ DelFromHwList({q})
            /\ UNCHANGED need
       ELSE IF "full" \in stop[q]
       THEN /\ stop' = [stop EXCEPT ![q] = @ \ {"full"}]
            /\ LET S == IF stop'[q] = {} /\ sk[q] # <<>> THEN {q} ELSE {} IN
               AddToHwList(S, Tids) /\ need' = need \cup Marks(S)
       ELSE UNCHANGED <<stop, schedVars>>
    /\ UNCHANGED <<envVars, active, queueVars, flowVars, psVars, lifeVars, vstop, task,
                   walk, sender, cfm, histVars>>

-----------------------------------------------------------------------------
Next ==
    \/ \E s \in Senders : QueueSkb(s) \/ \E q \in Txqs : Xmit(s, q)
    \/ WalkActive \/ WalkInactive \/ WalkEnd \/ Task
    \/ \E on \in BOOLEAN : PsInd(on)
    \/ Interrupt
    \/ \E n \in Requests, i \in PsIds : TrafficReq(n, i)
    \/ \E r \in VifReasons : VifStop(r) \/ VifBack(r)
    \/ CsaEnd \/ CsaFinish
    \/ \E b \in BOOLEAN : BusBusy(b)
    \/ DelStation \/ Deinit \/ Flush
    \/ AddStation \/ StaInit \/ Added \/ \E pm \in BOOLEAN : LinkStation(pm)
    \/ \E c \in fw : Confirm(c[1], c[2]) \/ Retry(c[1], c[2])
    \/ ConfirmLink
    \/ \E q \in Txqs : CreditUpdate(q)

Spec == Init /\ [][Next]_vars

\* The kernel runs a scheduled tasklet, a context that waits for a spin lock or
\* holds it goes on, and a station in power save polls as long as the TIM or
\* MORE_DATA tells it to.
Fairness ==
    /\ WF_vars(WalkActive \/ WalkInactive \/ WalkEnd) /\ WF_vars(Task)
    /\ \A s \in Senders : WF_vars(QueueSkb(s))
    /\ \A i \in PsIds : WF_vars(\E n \in Requests : TrafficReq(n, i))

FairSpec == Spec /\ Fairness

-----------------------------------------------------------------------------
(* Properties                                                              *)

\* None of the events E is part of this behaviour.
Without(E) == events \cap E = {}

Steady == valid /\ add = "none"

\* A hardware queue's list holds each queue that carries RWNX_TXQ_IN_HWQ_LIST
\* once, and no other: list_add_tail and list_del of rwnx_txq_add_to_hw_list and
\* rwnx_txq_del_from_hw_list never corrupt it.
OneEntry ==
    \A h \in Hwqs :
        /\ IsInjective(list[h])
        /\ ToSet(list[h]) = {q \in flagged : HwqOf[q] = h}

\* The schedule lists are sound in every order of starts, stops, power save,
\* confirmations and removals, as long as confirmations hold tx_lock and nobody
\* asks for the traffic of a station that is still being added.
ListSound == Without({"unlocked", "early"}) => OneEntry

\* The BUG_ONs of rwnx_hwq_process never fire: the queue it comes to carries the
\* flag and, if it is active, has credits and a frame.  On top of what ListSound
\* asks for, the credits must not have wrapped.
ProcessSafe ==
    Without({"unlocked", "early", "wrap"}) /\ walk.at # NoQ =>
        /\ walk.at \in flagged
        /\ walk.at \in active => credits[walk.at] > 0 /\ sk[walk.at] # <<>>

\* While a station sleeps, pkt_ready is the number of frames buffered for it:
\* on it depend the TIM, MORE_DATA and what a traffic request may ask for.
ReadyCounted == psOn /\ Steady => \A i \in PsIds : ready[i] = Buffered(i) % Wrap

\* While a station sleeps, sp_cnt is what its queues may still push in the
\* service period under way; 0 lets the next one begin.  An interrupted period
\* leaves its queue scheduled, one granted to a station that is being added outlives
\* the addition, a confirmation without the lock schedules a sleeping queue, and
\* credits that wrapped grant more than there is.
SpCounted ==
    Without({"interrupt", "nocb", "unlocked", "wrap"}) /\ psOn /\ Steady =>
        \A i \in PsIds : sp[i] = Total(limit, i)

\* No frame is left on a running queue that is not scheduled
\* (rwnx_txq_queue_skb, rwnx_txq_start): of several reasons to be stopped, the
\* one that goes away last links the queue.  A traffic request that is served
\* before rwnx_ps_bh_enable has stopped the queues of a sleeping station that is
\* being added ends with frames left on a running queue; rwnx_ps_bh_enable makes up
\* for it, unless the request came before the station was on the list.
NoStranded ==
    Without({"nocb"}) \/ (Without({"early"}) /\ add # "on") =>
        \A q \in active : stop[q] = {} /\ sk[q] # <<>> => q \in flagged \cup {cfm}

\* A scheduled queue is stopped for nothing, or its station sleeps and it has a
\* push limit: nothing else reaches a station that sleeps.  A queue scheduled for
\* a service period stays so when the period is interrupted, the interface stops, the
\* station goes or the credits wrap; a confirmation without the lock schedules a queue
\* that was stopped meanwhile.
ListedAllowed ==
    Without({"interrupt", "stop", "csa", "life", "wrap", "unlocked"}) =>
        \A q \in flagged \cap active : stop[q] # {} => psOn /\ limit[q] > 0

\* Frames of a queue leave in the order in which they were queued; those sent
\* again come first, in the order in which they came back, and nb_retry and
\* last_retry_skb describe them (the WARN of rwnx_tx_push).
InOrder ==
    \A q \in active :
        /\ nb_retry[q] <= Len(sk[q])
        /\ last_retry[q] = IF nb_retry[q] = 0 THEN 0 ELSE sk[q][nb_retry[q]]
        /\ \A i \in DOMAIN sk[q] : (i > nb_retry[q]) <=> (sk[q][i] > out[q])
        /\ \A i, j \in DOMAIN sk[q] : nb_retry[q] < i /\ i < j => sk[q][i] < sk[q][j]

\* A netdev queue that is stopped while the bus is not busy is one that
\* rwnx_hwq_process will wake: it carries RWNX_TXQ_NDEV_FLOW_CTRL and holds at
\* least as many frames as the restart threshold.  The removal of the station
\* forgets the flag.
ClosedIsKept ==
    Without({"life"}) /\ ~tbusy => \A q \in closed : q \in flow /\ Len(sk[q]) >= FlowRestart

\* The queues of a station are stopped for the channel of their interface exactly
\* when the interface is, after any channel switch during an addition too, if the
\* message handlers wait for cb_lock.
StopsAgree ==
    Without({"nocb"}) /\ Steady => \A q \in active : "chan" \in stop[q] <=> "chan" \in vstop

\* A frame queued for a station that goes on sleeping, and polls, reaches it.
PollDelivers ==
    <>[](psOn /\ Steady) =>
        \A q \in Txqs, f \in 1 .. MaxFrames :
            f \in ToSet(sk[q]) ~> f \notin ToSet(sk[q])

\* The schedule and its counters, whoever changes them: list and flag agree, the
\* assertions of rwnx_hwq_process hold, pkt_ready and sp_cnt count what is buffered
\* and granted.
QueuesSound == TypeOK /\ ListSound /\ ProcessSafe /\ ReadyCounted /\ SpCounted

\* The queues that may transmit are served, and no others: no frame waits on a running
\* queue that is not scheduled, no netdev queue stays closed without frames that will
\* open it again, only queues that may transmit are scheduled, and a station's queues are
\* stopped for the channel when their interface is (rwnx_txq_start, rwnx_txq_stop).
ServedRightly == NoStranded /\ ClosedIsKept /\ ListedAllowed /\ StopsAgree
=============================================================================
