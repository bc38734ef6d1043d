------------------------------- MODULE TcpAck -------------------------------
(***************************************************************************)
(* The TCP ACK filter (aicwf_tcp_ack.c): outgoing pure ACKs of a flow are  *)
(* held in one of a table of slots, replaced by the newer ones that follow *)
(* and let out after max_drop_cnt replacements, when a received segment    *)
(* with PSH asks for a quick ACK, or by a 5 ms timer.                      *)
(*                                                                         *)
(* The transmit path runs once at a time on each network queue; the slot   *)
(* timers, the receive thread and the removal of the driver run beside it. *)
(* What a seqlock or ack_m->lock makes atomic is one action.  ACK numbers  *)
(* are counted without wrapping in the model; the code sees Seq32(n).      *)
(* win_scale is left out: it only chooses the type of ACK that             *)
(* tcp_ack_handle_new is called with and does not look at.                 *)
(***************************************************************************)
EXTENDS Integers, FiniteSets, FiniteSetsExt

CONSTANTS
    Queues,     \* network transmit queues
    Flows,      \* TCP connections
    QueueOf,    \* the queue a flow's frames are sent on
    NSlots,     \* TCP_ACK_NUM
    MaxDrop,    \* TCP_ACK_DROP_CNT
    Half,       \* 2^31, half the space of ACK numbers
    MaxN,       \* bound: ACK numbers handed over are 0 .. MaxN
    Loads,      \* bound: how far the ACK numbers of each flow may go
    NMsgs,      \* bound: msg_bufs allocated at a time
    CntCap,     \* bound on drop_cnt
    Retries,    \* bound on the retries of a seqlock read, and on what they add up to
    MayAge,     \* four seconds may pass
    MayRemove   \* the driver may be removed

ASSUME SlotsAssumption == NSlots \in Nat \ {0} /\ MaxDrop \in Nat \ {0}
ASSUME QueueAssumption == QueueOf \in [Flows -> Queues]
ASSUME SeqAssumption ==
    Half \in Nat \ {0, 1} /\ MaxN \in Nat /\ Loads \subseteq [Flows -> 0 .. MaxN]
ASSUME MsgsAssumption == NMsgs \in Nat \ {0} /\ CntCap \in Nat /\ Retries \in Nat

VARIABLES
    last,       \* flow -> its last ACK number; it never changes
    stage,      \* "up", "unregistered" (no more frames), or "off"
    enable,     \* ack_m->enable
    todo,       \* slots tcp_ack_deinit has yet to see
    max_num, free_index,
    due,        \* ack_m->last_time is older than ack_m->timeout
    busy,       \* slots in use
    old,        \* slots whose last_time is older than their timeout
    key,        \* slot -> the flow of its addresses and ports
    seq,        \* slot -> ack_msg.seq
    drop_cnt,
    psh,        \* slot -> psh_seq, or NoPsh when psh_flag is 0
    msgbuf, in_send_msg,
    pend,       \* slots with a pending timer
    hpc, hmsg,  \* slot -> where tcp_ack_timeout is, the message it sends
    xpc, xmsg, xslot, \* queue -> where rwnx_start_xmit is, its message, the slot
    mem,        \* msg_buf -> the ACK in it, or NoAck when it is not allocated
    newest,     \* flow -> the highest ACK number handed over
    sent        \* flow -> the highest ACK number passed on

tableVars == <<max_num, free_index, due, busy, old, key>>
slotVars  == <<seq, drop_cnt, psh>>
handVars  == <<msgbuf, in_send_msg>>
timerVars == <<pend, hpc, hmsg>>
xmitVars  == <<xpc, xmsg, xslot>>
stageVars == <<stage, enable, todo>>
flowVars  == <<newest, sent>>
vars == <<last, stageVars, tableVars, slotVars, handVars, timerVars, xmitVars, mem,
          flowVars>>

Slots == 0 .. NSlots - 1
Msgs  == 1 .. NMsgs
Null  == 0
NoPsh == -1
NoAck == [flow |-> Null, n |-> 0]
Acks  == [flow : Flows, n : 0 .. MaxN]

TypeOK ==
    /\ last \in Loads
    /\ stage \in {"up", "unregistered", "off"} /\ enable \in BOOLEAN /\ todo \subseteq Slots
    /\ max_num \in Nat /\ free_index \in Slots \cup {-1} /\ due \in BOOLEAN
    /\ busy \subseteq Slots /\ old \subseteq Slots
    /\ key \in [Slots -> Flows \cup {Null}]
    /\ seq \in [Slots -> 0 .. 2 * Half - 1] /\ drop_cnt \in [Slots -> Nat]
    /\ psh \in [Slots -> (0 .. 2 * Half - 1) \cup {NoPsh}]
    /\ msgbuf \in [Slots -> Msgs \cup {Null}]
    /\ in_send_msg \in [Slots -> Msgs \cup {Null}]
    /\ pend \subseteq Slots /\ hpc \in [Slots -> {"idle", "lock", "move"}]
    /\ hmsg \in [Slots -> Msgs \cup {Null}]
    /\ xpc \in [Queues -> {"idle", "match", "handle", "alloc", "fill", "move"}]
    /\ xmsg \in [Queues -> Msgs \cup {Null}] /\ xslot \in [Queues -> Slots]
    /\ mem \in [Msgs -> Acks \cup {NoAck}]
    /\ newest \in [Flows -> 0 .. MaxN] /\ sent \in [Flows -> 0 .. MaxN]

\* tcp_ack_init; memset leaves free_index 0.
Init ==
    /\ last \in Loads
    /\ stage = "up" /\ enable = TRUE /\ todo = {}
    /\ max_num = 0 /\ free_index = 0 /\ due = FALSE
    /\ busy = {} /\ old = {} /\ key = [s \in Slots |-> Null]
    /\ seq = [s \in Slots |-> 0] /\ drop_cnt = [s \in Slots |-> 0]
    /\ psh = [s \in Slots |-> NoPsh]
    /\ msgbuf = [s \in Slots |-> Null] /\ in_send_msg = [s \in Slots |-> Null]
    /\ pend = {} /\ hpc = [s \in Slots |-> "idle"] /\ hmsg = [s \in Slots |-> Null]
    /\ xpc = [q \in Queues |-> "idle"] /\ xmsg = [q \in Queues |-> Null]
    /\ xslot = [q \in Queues |-> 0]
    /\ mem = [m \in Msgs |-> NoAck]
    /\ newest = [f \in Flows |-> 0] /\ sent = [f \in Flows |-> 0]

-----------------------------------------------------------------------------
Live == {m \in Msgs : mem[m] # NoAck}
Seq32(n) == n % (2 * Half)

\* Mutant of Before: the numbers are compared as they are.
BeforeUnsigned(a, b) == a <= b

\* U32_BEFORE(a, b): a is b or comes before it.
Before(a, b) == (b - a) % (2 * Half) <= Half

\* intf_tcp_drop_msg of every message in D.
Freed(D) == [m \in Msgs |-> IF m \in D THEN NoAck ELSE mem[m]]

\* Mutant of SendOn: move_tcpack_msg is not called.
SendOnNoMove(m) ==
    /\ sent' = [sent EXCEPT ![mem[m].flow] = Max({@, mem[m].n})]
    /\ mem' = Freed({m})
    /\ UNCHANGED in_send_msg

\* move_tcpack_msg, the kfree of the msg_buf and the way of its skb into the
\* transmit queue: in rwnx_start_xmit and, for the timer, in intf_tx.
SendOn(m) ==
    /\ in_send_msg' = [s \in Slots |-> IF enable /\ s \in busy /\ in_send_msg[s] = m
                                       THEN Null ELSE in_send_msg[s]]
    /\ sent' = [sent EXCEPT ![mem[m].flow] = Max({@, mem[m].n})]
    /\ mem' = Freed({m})

-----------------------------------------------------------------------------
(* Transmit path                                                           *)

\* Mutant of tcp_ack_update: slots that are not in use are freed again.
UpdateFree ==
    LET aged == IF due THEN old ELSE {}
    IN  /\ due' = FALSE
        /\ busy' = busy \ aged
        /\ max_num' = max_num - Cardinality(aged)
        /\ free_index' = IF aged = {} THEN free_index ELSE Min(aged)
        /\ UNCHANGED <<old, key>>

\* tcp_ack_update: free the slots nobody used for ACK_OLD_TIME, unless that
\* was done less than ACK_OLD_TIME ago.  The slot is freed as it is.
tcp_ack_update ==
    LET aged == IF due THEN busy \cap old ELSE {}
    IN  /\ due' = FALSE
        /\ busy' = busy \ aged
        /\ max_num' = max_num - Cardinality(aged)
        /\ free_index' = IF aged = {} THEN free_index ELSE Min(aged)
        /\ UNCHANGED <<old, key>>

\* rwnx_start_xmit with an ACK of flow f: intf_tcp_alloc_msg and the first part
\* of filter_send_tcp_ack.  Other frames only pass tcp_ack_update.
StartXmit(f, n) ==
    LET q == QueueOf[f] IN
    /\ stage = "up" /\ xpc[q] = "idle" /\ Live # Msgs
    /\ n \in 1 .. last[f] /\ \A s \in Slots : drop_cnt[s] < CntCap
    /\ tcp_ack_update
    /\ LET m == Min(Msgs \ Live) IN
       /\ mem' = [mem EXCEPT ![m] = [flow |-> f, n |-> n]]
       /\ xmsg' = [xmsg EXCEPT ![q] = m]
    /\ xpc' = [xpc EXCEPT ![q] = "match"]
    /\ newest' = [newest EXCEPT ![f] = Max({@, n})]
    /\ UNCHANGED <<last, stageVars, slotVars, handVars, timerVars, xslot, sent>>

\* tcp_ack_match: the first slot in use with the addresses and ports of flow f.
Matching(f) == {s \in busy : key[s] = f}

Match(q) ==
    LET found == Matching(mem[xmsg[q]].flow) IN
    /\ xpc[q] = "match"
    /\ IF found # {}
       THEN /\ xslot' = [xslot EXCEPT ![q] = Min(found)]
            /\ xpc' = [xpc EXCEPT ![q] = "handle"]
       ELSE xpc' = [xpc EXCEPT ![q] = "alloc"] /\ UNCHANGED xslot
    /\ UNCHANGED <<last, stageVars, tableVars, slotVars, handVars, timerVars, xmsg, mem,
                   flowVars>>

\* Somebody else is on the way into move_tcpack_msg, which takes the seqlock of
\* every slot and so makes a reader of any of them try again.
OtherMover(q) ==
    \/ \E s \in Slots : hpc[s] = "move"
    \/ \E p \in Queues \ {q} : xpc[p] = "move"

\* tcp_ack_alloc_index under ack_m->lock.  The scan counts inside the loop that
\* read_seqretry repeats.  The slot is marked busy later, in Fill.
Alloc(q) ==
    LET idle == Slots \ busy
        Give(s, k) ==
            /\ free_index' = -1 /\ max_num' = max_num + 1 + k
            /\ xslot' = [xslot EXCEPT ![q] = s]
            /\ xpc' = [xpc EXCEPT ![q] = "fill"]
        Refuse ==
            /\ xpc' = [xpc EXCEPT ![q] = "move"]
            /\ UNCHANGED <<max_num, free_index, xslot>>
    IN  /\ xpc[q] = "alloc"
        /\ \/ max_num = NSlots /\ Refuse
           \/ max_num # NSlots /\ free_index >= 0 /\ Give(free_index, 0)
           \/ /\ max_num # NSlots /\ free_index < 0 /\ idle # {}
              /\ \E k \in 0 .. Retries : (k > 0 => OtherMover(q) /\ max_num + k < NSlots + Retries)
                                         /\ Give(Min(idle), k)
           \/ max_num # NSlots /\ free_index < 0 /\ idle = {} /\ Refuse
        /\ UNCHANGED <<last, stageVars, due, busy, old, key, slotVars, handVars, timerVars,
                       xmsg, mem, flowVars>>

\* filter_send_tcp_ack sets up the slot; the ACK itself goes out.
Fill(q) ==
    LET s == xslot[q]  a == mem[xmsg[q]] IN
    /\ xpc[q] = "fill"
    /\ busy' = busy \cup {s} /\ old' = old \ {s} /\ key' = [key EXCEPT ![s] = a.flow]
    /\ psh' = [psh EXCEPT ![s] = NoPsh]
    /\ drop_cnt' = [drop_cnt EXCEPT ![s] = MaxDrop]
    /\ seq' = [seq EXCEPT ![s] = Seq32(a.n)]
    /\ xpc' = [xpc EXCEPT ![q] = "move"]
    /\ UNCHANGED <<last, stageVars, max_num, free_index, due, handVars, timerVars, xmsg, xslot,
                   mem, flowVars>>

\* rwnx_start_xmit returns.
Return(q) ==
    /\ xpc' = [xpc EXCEPT ![q] = "idle"] /\ xmsg' = [xmsg EXCEPT ![q] = Null]
    /\ xslot' = [xslot EXCEPT ![q] = 0]

\* tcp_ack_handle_new: what happens to message m in slot s of the table.
\* An ACK that is not before the last one replaces the one held.
Newer(q, s, m) ==
    LET n == Seq32(mem[m].n)
        quick == psh[s] # NoPsh /\ ~Before(n, psh[s])
        cnt == IF quick THEN drop_cnt[s] ELSE drop_cnt[s] + 1
        out == quick \/ (in_send_msg[s] = Null /\ cnt >= MaxDrop)
    IN  /\ mem' = Freed({msgbuf[s]} \ {Null})
        /\ psh' = [psh EXCEPT ![s] = IF quick THEN NoPsh ELSE @]
        /\ seq' = [seq EXCEPT ![s] = n]
        /\ drop_cnt' = [drop_cnt EXCEPT ![s] = IF out THEN 0 ELSE cnt]
        /\ msgbuf' = [msgbuf EXCEPT ![s] = IF out THEN Null ELSE m]
        /\ in_send_msg' = [in_send_msg EXCEPT ![s] = IF out THEN m ELSE @]
        /\ pend' = IF out THEN pend \ {s} ELSE pend \cup {s}
        /\ IF out
           THEN xpc' = [xpc EXCEPT ![q] = "move"] /\ UNCHANGED <<xmsg, xslot>>
           ELSE Return(q)

\* An ACK before the last one is dropped.
Older(q, m) ==
    /\ mem' = Freed({m})
    /\ Return(q)
    /\ UNCHANGED <<slotVars, handVars, pend>>

Handle(q) ==
    LET s == xslot[q]  m == xmsg[q] IN
    /\ xpc[q] = "handle"
    /\ IF Before(seq[s], Seq32(mem[m].n)) THEN Newer(q, s, m) ELSE Older(q, m)
    /\ old' = old \ {s}
    /\ UNCHANGED <<last, stageVars, max_num, free_index, due, busy, key, hpc, hmsg,
                   flowVars>>

\* rwnx_start_xmit goes on with a frame the filter let through.
Move(q) ==
    /\ xpc[q] = "move"
    /\ SendOn(xmsg[q])
    /\ Return(q)
    /\ UNCHANGED <<last, stageVars, tableVars, slotVars, msgbuf, timerVars, newest>>

-----------------------------------------------------------------------------
(* Timers, receive thread, removal                                         *)

TimerFire(s) ==
    /\ s \in pend /\ hpc[s] = "idle"
    /\ pend' = pend \ {s} /\ hpc' = [hpc EXCEPT ![s] = "lock"]
    /\ UNCHANGED <<last, stageVars, tableVars, slotVars, handVars, hmsg, xmitVars, mem,
                   flowVars>>

\* Mutant of TimerTake: the message stays in the slot.
TimerTakeKeep(s) ==
    /\ hpc[s] = "lock"
    /\ IF s \in busy /\ msgbuf[s] # Null /\ in_send_msg[s] = Null
       THEN /\ drop_cnt' = [drop_cnt EXCEPT ![s] = 0]
            /\ in_send_msg' = [in_send_msg EXCEPT ![s] = msgbuf[s]]
            /\ hmsg' = [hmsg EXCEPT ![s] = msgbuf[s]]
            /\ hpc' = [hpc EXCEPT ![s] = "move"]
            /\ UNCHANGED msgbuf
       ELSE hpc' = [hpc EXCEPT ![s] = "idle"] /\ UNCHANGED <<handVars, drop_cnt, hmsg>>
    /\ UNCHANGED <<last, stageVars, tableVars, seq, psh, pend, xmitVars, mem, flowVars>>

\* tcp_ack_timeout under the seqlock.
TimerTake(s) ==
    /\ hpc[s] = "lock"
    /\ IF s \in busy /\ msgbuf[s] # Null /\ in_send_msg[s] = Null
       THEN /\ msgbuf' = [msgbuf EXCEPT ![s] = Null]
            /\ drop_cnt' = [drop_cnt EXCEPT ![s] = 0]
            /\ in_send_msg' = [in_send_msg EXCEPT ![s] = msgbuf[s]]
            /\ hmsg' = [hmsg EXCEPT ![s] = msgbuf[s]]
            /\ hpc' = [hpc EXCEPT ![s] = "move"]
       ELSE hpc' = [hpc EXCEPT ![s] = "idle"] /\ UNCHANGED <<handVars, drop_cnt, hmsg>>
    /\ UNCHANGED <<last, stageVars, tableVars, seq, psh, pend, xmitVars, mem, flowVars>>

\* intf_tx of the message the timer took.
TimerSend(s) ==
    /\ hpc[s] = "move"
    /\ SendOn(hmsg[s])
    /\ hpc' = [hpc EXCEPT ![s] = "idle"] /\ hmsg' = [hmsg EXCEPT ![s] = Null]
    /\ UNCHANGED <<last, stageVars, tableVars, slotVars, msgbuf, pend, xmitVars, newest>>

\* filter_rx_tcp_ack: a segment of flow f with PSH came in; its first byte is the
\* next one expected, or one that was received before.
FilterRx(f, n) ==
    /\ enable /\ Matching(f) # {}
    /\ psh' = [psh EXCEPT ![Min(Matching(f))] = Seq32(n)]
    /\ UNCHANGED <<last, stageVars, tableVars, seq, drop_cnt, handVars, timerVars, xmitVars,
                   mem, flowVars>>

\* Four seconds pass for the slots in S: timers of 5 ms and the steps of a frame
\* through the filter take far less, so none of theirs is among them.
Elapse(S) ==
    /\ MayAge /\ ~(due /\ S \subseteq old)
    /\ \A s \in S : s \notin pend /\ hpc[s] = "idle"
    /\ \A q \in Queues : xpc[q] = "move" => xslot[q] \notin S
    /\ old' = old \cup S /\ due' = TRUE
    /\ UNCHANGED <<last, stageVars, max_num, free_index, busy, key, slotVars, handVars, timerVars,
                   xmitVars, mem, flowVars>>

\* rwnx_wdev_unregister: the network stack hands over no more frames.
Unregister ==
    /\ MayRemove /\ stage = "up" /\ \A q \in Queues : xpc[q] = "idle"
    /\ stage' = "unregistered"
    /\ UNCHANGED <<last, enable, todo, tableVars, slotVars, handVars, timerVars, xmitVars, mem,
                   flowVars>>

\* tcp_ack_deinit: the filter is disabled, then each slot in turn.  del_timer
\* does not wait for a handler that is running.
DeinitStart ==
    /\ stage = "unregistered" /\ enable
    /\ enable' = FALSE /\ todo' = Slots
    /\ UNCHANGED <<last, stage, tableVars, slotVars, handVars, timerVars, xmitVars, mem,
                   flowVars>>

\* Mutant of DeinitSlot: the timer is stopped, the message it would send is kept.
DeinitSlotKeep(s) ==
    /\ s \in todo /\ s = Min(todo)
    /\ todo' = todo \ {s}
    /\ stage' = IF todo' = {} THEN "off" ELSE stage
    /\ pend' = pend \ {s}
    /\ UNCHANGED <<last, enable, tableVars, slotVars, handVars, hpc, hmsg, xmitVars, mem,
                   flowVars>>

\* One slot of tcp_ack_deinit: its timer is deleted and its message dropped.
DeinitSlot(s) ==
    /\ s \in todo /\ s = Min(todo)
    /\ todo' = todo \ {s}
    /\ stage' = IF todo' = {} THEN "off" ELSE stage
    /\ pend' = pend \ {s}
    /\ msgbuf' = [msgbuf EXCEPT ![s] = Null]
    /\ mem' = Freed({msgbuf[s]} \ {Null})
    /\ UNCHANGED <<last, enable, tableVars, slotVars, in_send_msg, hpc, hmsg, xmitVars,
                   flowVars>>

-----------------------------------------------------------------------------
XmitStep(q) == Match(q) \/ Alloc(q) \/ Fill(q) \/ Handle(q) \/ Move(q)
TimerStep(s) == TimerFire(s) \/ TimerTake(s) \/ TimerSend(s)
RemoveStep == Unregister \/ DeinitStart \/ \E s \in Slots : DeinitSlot(s)

\* The acknowledgements a receiver sends: the next one, the same again, or one
\* that was overtaken on the way down.
Offer(f) == {newest[f] - 1, newest[f], newest[f] + 1}

Next ==
    \/ \E f \in Flows : \E n \in Offer(f) : StartXmit(f, n)
    \/ \E q \in Queues : XmitStep(q)
    \/ \E s \in Slots : TimerStep(s)
    \/ \E f \in Flows : \E n \in {newest[f] - 1, newest[f]} \cap Nat : FilterRx(f, n)
    \/ \E S \in SUBSET Slots : Elapse(S)
    \/ RemoveStep

Spec == Init /\ [][Next]_vars

\* The transmit path runs to its end, and a pending timer fires and its handler
\* runs to its end.
Fairness ==
    /\ \A q \in Queues : WF_vars(XmitStep(q))
    /\ \A s \in Slots : WF_vars(TimerStep(s))

LiveSpec == Spec /\ Fairness

-----------------------------------------------------------------------------
(* Properties                                                              *)

Holders(m) == {<<"slot", s>> : s \in {t \in Slots : msgbuf[t] = m}}
         \cup {<<"timer", s>> : s \in {t \in Slots : hmsg[t] = m}}
         \cup {<<"xmit", q>> : q \in {p \in Queues : xmsg[p] = m}}

\* Every allocated msg_buf has exactly one owner, a slot, a timer handler or the
\* transmit path, and nobody owns one that was freed: no ACK is leaked, freed
\* twice or sent twice, in whatever order the timer, the transmit path and the
\* removal reach it.
OneOwner ==
    \A m \in Msgs : Cardinality(Holders(m)) = IF mem[m] = NoAck THEN 0 ELSE 1

\* There is one network queue, so one frame at a time is on its way through the
\* filter.  With two, tcp_ack_alloc_index can hand one slot to two flows.
OneQueue == \A p, q \in Queues : p = q

\* The newest acknowledgement number of a flow has been passed on, or an ACK with
\* that number is still in the driver's hands: only ACKs that a later one of the
\* same flow makes superfluous are dropped.
NewestKept ==
    OneQueue /\ enable => \A f \in Flows : sent[f] = newest[f]
        \/ \E m \in Live : mem[m].flow = f /\ mem[m].n = newest[f]

\* Until the driver is removed, an acknowledgement number handed over is
\* eventually passed on, it or a higher one.
AckGetsOut ==
    \A f \in Flows : \A n \in 1 .. MaxN :
        (newest[f] = n) ~> (sent[f] >= n \/ ~enable)

\* tcp_ack_deinit leaves no timer pending and no ACK but those that a timer
\* handler had already taken.
AllReleased ==
    stage = "off" => pend = {} /\ \A m \in Live : \E s \in Slots : hmsg[s] = m

\* The held ACKs: each has one owner, the newest number is never dropped, and
\* tcp_ack_deinit leaves none behind (tcp_ack_update, tcp_ack_timeout).
AcksSound == TypeOK /\ OneOwner /\ NewestKept /\ AllReleased
=============================================================================
