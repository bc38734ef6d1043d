------------------------------ MODULE RxReorder ------------------------------
(***************************************************************************)
(* The receive reorder buffer of one station and one TID (struct           *)
(* reord_ctrl): reord_process_unit in the receive thread, the reorder      *)
(* timer and its worker, reord_flush_tid when the block-ack session ends,  *)
(* and reord_deinit_sta from the thread that handles the disconnection.    *)
(*                                                                         *)
(* A frame is known here by the number n its transmitter gave it; the code *)
(* sees only the sequence number Sn(n).  What reord_list_lock makes atomic *)
(* is one action.  EAPOL and multicast frames bypass the buffer and leave  *)
(* its state alone.                                                        *)
(***************************************************************************)
EXTENDS Integers, Sequences, SequencesExt, FiniteSetsExt

CONSTANTS
    Half,       \* 0x800: half the sequence number space
    W,          \* AICWF_REORDER_WINSIZE
    Pool,       \* MAX_REORD_RXFRAME
    Reach,      \* how late a frame can be, or how far ahead of the window
    MaxN,       \* bound: frames are numbered 0 .. MaxN
    MayFlush,   \* frames may come outside a block-ack session
    MayDeinit,  \* the station may leave
    MaySuspend  \* the device may go down and come up again

ASSUME HalfAssumption == Half \in Nat \ {0}
ASSUME WindowAssumption == W \in 1 .. Half - 1 /\ Reach \in 0 .. Half - W
ASSUME PoolAssumption == Pool \in Nat /\ MaxN \in Nat

VARIABLES
    alive,      \* a reord_ctrl_info of the station is on stas_reord_list
    enable,     \* preorder_ctrl->enable
    ind_sn,     \* preorder_ctrl->ind_sn
    list,       \* preorder_ctrl->reord_list
    free,       \* frames on rxframes_freequeue
    timer,      \* reord_timer is pending
    handler,    \* reord_timeout_handler is running
    work,       \* reord_timer_work is pending
    wpc,        \* reord_timeout_worker: where it is
    rpc, frame, \* the receive thread: where it is, the frame it holds
    dpc,        \* reord_deinit_sta: where it is
    down,       \* usbdev->state is USB_DOWN_ST
    skipped,    \* the handler found the device down and left the list alone
    base,       \* the number behind ind_sn
    passed,     \* the last number passed up in turn, or -1
    uaf         \* the reord_ctrl_info was freed while somebody may still use it

ctrlVars  == <<alive, enable, ind_sn, list, base, passed>>
timerVars == <<timer, handler, work, wpc, skipped>>
vars == <<ctrlVars, timerVars, free, rpc, frame, dpc, down, uaf>>

-----------------------------------------------------------------------------
(* Sequence number arithmetic                                              *)

M == 2 * Half
NoSn == 16 * M - 1
Sn(n) == n % M

\* How far b is ahead of a.
Ahead(a, b) == (b - a) % M

\* Mutant: numbers are compared without the wrap.
SN_LESS_flat(a, b) == a < b

\* ((a-b) & 0x800) != 0
SN_LESS(a, b) == Ahead(b, a) >= Half

wend(ind) == (ind + W - 1) % M

\* Mutant: the window moves without a wrap.
need_check_flat(ind, s) ==
    LET i == IF ind = NoSn THEN s ELSE ind
    IN  CASE SN_LESS(s, i)          -> -1
          [] s = i                  -> (i + 1) % M
          [] s # i /\ ~SN_LESS(s, i) /\ SN_LESS(wend(ind), s)
               -> s - (W - 1)
          [] OTHER                  -> i

\* reord_need_check: the frame is old (-1), or the new ind_sn.
need_check(ind, s) ==
    LET i == IF ind = NoSn THEN s ELSE ind
    IN  CASE SN_LESS(s, i)          -> -1
          [] s = i                  -> (i + 1) % M
          [] s # i /\ ~SN_LESS(s, i) /\ SN_LESS(wend(ind), s)
               -> IF s >= W - 1 THEN s - (W - 1) ELSE M - 1 - (W - (s + 1)) + 1
          [] OTHER                  -> i

\* reord_rxframe_enqueue: the place of s in the list q, from the head.
place(q, s) == Min({i \in 1 .. Len(q) + 1 : i <= Len(q) => ~SN_LESS(Sn(q[i]), s)})

\* reord_rxframes_process: ind_sn runs over the frames that follow on; the
\* loop stops at the first frame that is ahead of it.
process(ind, q) ==
    LET after[i \in 0 .. Len(q)] ==     \* the loop after i frames
          IF i = 0 THEN [ind |-> ind, stop |-> FALSE]
          ELSE LET r == after[i - 1] IN
               CASE r.stop \/ SN_LESS(r.ind, Sn(q[i])) -> [r EXCEPT !.stop = TRUE]
                 [] ~r.stop /\ r.ind = Sn(q[i])        -> [r EXCEPT !.ind = (r.ind + 1) % M]
                 [] OTHER                              -> r
    IN  after[Len(q)]

\* reord_rxframes_ind: how many frames leave at the head.
leaving(ind, q) == Min({i \in 0 .. Len(q) : i < Len(q) => SN_LESS(ind, Sn(q[i + 1]))})

-----------------------------------------------------------------------------
TypeOK ==
    /\ alive \in BOOLEAN /\ enable \in BOOLEAN
    /\ ind_sn \in 0 .. M - 1 \cup {NoSn}
    /\ list \in Seq(0 .. MaxN) /\ free \in 0 .. Pool
    /\ timer \in BOOLEAN /\ handler \in BOOLEAN /\ work \in BOOLEAN
    /\ wpc \in {"idle", "run"}
    /\ rpc \in {"idle", "unit", "cancel"} /\ frame \in -1 .. MaxN
    /\ dpc \in {"idle", "cancel", "drop", "free"}
    /\ down \in BOOLEAN /\ skipped \in BOOLEAN /\ uaf \in BOOLEAN
    /\ base \in Int /\ passed \in -1 .. MaxN

Init ==
    /\ alive = FALSE /\ enable = FALSE /\ ind_sn = NoSn /\ list = <<>>
    /\ base = 0 /\ passed = -1
    /\ timer = FALSE /\ handler = FALSE /\ work = FALSE /\ wpc = "idle" /\ skipped = FALSE
    /\ free = Pool /\ rpc = "idle" /\ frame = -1 /\ dpc = "idle"
    /\ down = FALSE /\ uaf = FALSE

-----------------------------------------------------------------------------
(* The receive thread                                                      *)

\* The transmitter's window of W frames and its retries keep a frame within
\* Reach of the window: it may be new, repeated, late or ahead.
Sendable(n) ==
    alive /\ enable /\ ind_sn # NoSn => n \in base - Reach .. base + W + Reach - 1

\* reord_process_unit up to the unlock of stas_reord_lock: the station is
\* found, or made by reord_init_sta, and a control that was flushed starts anew.
\* Its callers are the branches for stations and P2P clients and for access points and
\* group owners, so the return for other types of interface is never taken.
Arrive(n) ==
    /\ rpc = "idle" /\ free > 0 /\ ~uaf
    /\ Sendable(n) /\ (alive \/ ~down)
    /\ free' = free - 1
    /\ frame' = n /\ rpc' = "unit"
    /\ IF alive /\ enable
       THEN UNCHANGED ctrlVars
       ELSE /\ alive' = TRUE /\ enable' = TRUE /\ ind_sn' = NoSn
            /\ passed' = -1
            /\ list' = IF alive THEN list ELSE <<>>
            /\ base' = 0
    /\ UNCHANGED <<timerVars, dpc, down, uaf>>

\* The frames at the head leave for the network stack.
Release(ind, q) ==
    LET k == leaving(ind, q)
    IN  /\ list' = SubSeq(q, k + 1, Len(q))
        /\ passed' = IF k = 0 THEN passed ELSE q[k]
        /\ ind_sn' = ind

\* Mutant: an RTP frame that is dropped keeps its place in the pool.
OldLeak ==
    /\ rpc = "unit" /\ ~uaf /\ enable
    /\ need_check(ind_sn, Sn(frame)) = -1
    /\ free' \in {free, free + 1}
    /\ frame' = -1 /\ rpc' = "idle"
    /\ UNCHANGED <<ctrlVars, timerVars, dpc, down, uaf>>

\* An old frame is passed up out of turn, or dropped when it carries RTP.
Old ==
    /\ rpc = "unit" /\ ~uaf /\ enable
    /\ need_check(ind_sn, Sn(frame)) = -1
    /\ free' = free + 1
    /\ frame' = -1 /\ rpc' = "idle"
    /\ UNCHANGED <<ctrlVars, timerVars, dpc, down, uaf>>

\* The rest of reord_process_unit, under reord_list_lock.
Unit ==
    /\ rpc = "unit" /\ ~uaf /\ enable
    /\ \E ind \in {need_check(ind_sn, Sn(frame))} \ {-1}, p \in {place(list, Sn(frame))} :
         LET b == IF ind_sn = NoSn THEN frame + 1 ELSE base + Ahead(ind_sn, ind) IN
         IF p <= Len(list) /\ Sn(list[p]) = Sn(frame)
         THEN /\ ind_sn' = ind /\ base' = b
              /\ free' = free + 1
              /\ UNCHANGED <<list, passed, timerVars>>
         ELSE \E q \in {InsertAt(list, p, frame)} : \E r \in {process(ind, q)} :
              /\ timer' = r.stop
              /\ skipped' = (skipped /\ ~r.stop)
              /\ Release(r.ind, q)
              /\ base' = b + Ahead(ind, r.ind)
              /\ free' = free + leaving(r.ind, q)
              /\ UNCHANGED <<handler, work, wpc>>
    /\ frame' = -1 /\ rpc' = "idle"
    /\ UNCHANGED <<alive, enable, dpc, down, uaf>>

\* The control was disabled by reord_deinit_sta after the station was found.
UnitDisabled ==
    /\ rpc = "unit" /\ ~uaf /\ ~enable
    /\ ind_sn' = (Sn(frame) + 1) % M
    /\ base' = frame + 1
    /\ free' = free + 1
    /\ frame' = -1 /\ rpc' = "idle"
    /\ UNCHANGED <<alive, enable, list, passed, timerVars, dpc, down, uaf>>

\* reord_flush_tid: a frame outside the block-ack session; everything held is
\* passed up and the control is disabled.
FlushTid ==
    /\ MayFlush /\ rpc = "idle" /\ ~uaf
    /\ alive /\ enable
    /\ free' = free + Len(list)
    /\ list' = <<>> /\ enable' = FALSE
    /\ passed' = IF list = <<>> THEN passed ELSE Last(list)
    /\ rpc' = "cancel"
    /\ UNCHANGED <<alive, ind_sn, base, timerVars, frame, dpc, down, uaf>>

\* del_timer_sync if the timer is pending, then cancel_work_sync.
FlushCancel ==
    /\ rpc = "cancel" /\ ~uaf
    /\ timer => ~handler
    /\ wpc = "idle"
    /\ timer' = FALSE /\ work' = FALSE
    /\ rpc' = "idle"
    /\ UNCHANGED <<ctrlVars, handler, wpc, skipped, free, frame, dpc, down, uaf>>

-----------------------------------------------------------------------------
(* The timer and its worker                                                *)

TimerFires ==
    /\ timer /\ ~handler /\ ~uaf
    /\ timer' = FALSE /\ handler' = TRUE
    /\ UNCHANGED <<ctrlVars, work, wpc, skipped, free, rpc, frame, dpc, down, uaf>>

\* reord_timeout_handler
Handler ==
    /\ handler /\ ~uaf
    /\ handler' = FALSE
    /\ work' = IF down THEN work ELSE TRUE
    /\ skipped' = IF down THEN TRUE ELSE skipped
    /\ UNCHANGED <<ctrlVars, timer, wpc, free, rpc, frame, dpc, down, uaf>>

WorkStarts ==
    /\ work /\ wpc = "idle" /\ ~uaf
    /\ work' = FALSE /\ wpc' = "run"
    /\ UNCHANGED <<ctrlVars, timer, handler, skipped, free, rpc, frame, dpc, down, uaf>>

\* Mutant: the worker does not start the timer again.
WorkerOnce ==
    /\ wpc = "run" /\ ~uaf
    /\ IF list = <<>>
       THEN UNCHANGED <<ctrlVars, timer, skipped, free>>
       ELSE \E r \in {process(Sn(Head(list)), list)} :
                /\ UNCHANGED <<timer, skipped>>
                /\ Release(r.ind, list)
                /\ base' = Head(list) + Ahead(Sn(Head(list)), r.ind)
                /\ free' = free + leaving(r.ind, list)
                /\ UNCHANGED <<alive, enable>>
    /\ wpc' = "idle"
    /\ UNCHANGED <<handler, work, rpc, frame, dpc, down, uaf>>

\* reord_timeout_worker: ind_sn jumps to the first frame held.
Worker ==
    /\ wpc = "run" /\ ~uaf
    /\ IF list = <<>>
       THEN UNCHANGED <<ctrlVars, timer, skipped, free>>
       ELSE \E r \in {process(Sn(Head(list)), list)} :
                /\ timer' = IF r.stop THEN TRUE ELSE timer
                /\ skipped' = (skipped /\ ~r.stop)
                /\ Release(r.ind, list)
                /\ base' = Head(list) + Ahead(Sn(Head(list)), r.ind)
                /\ free' = free + leaving(r.ind, list)
                /\ UNCHANGED <<alive, enable>>
    /\ wpc' = "idle"
    /\ UNCHANGED <<handler, work, rpc, frame, dpc, down, uaf>>

-----------------------------------------------------------------------------
(* reord_deinit_sta, and the state of the device                           *)

\* An enabled control is disabled and its timer deleted, if it is pending.
Deinit ==
    /\ MayDeinit /\ dpc = "idle" /\ alive /\ ~uaf
    /\ IF enable
       THEN /\ timer => ~handler
            /\ enable' = FALSE /\ timer' = FALSE
            /\ dpc' = "cancel"
       ELSE /\ dpc' = "drop"
            /\ UNCHANGED <<enable, timer>>
    /\ UNCHANGED <<alive, ind_sn, list, base, passed, handler, work, wpc, skipped, free,
                   rpc, frame, down, uaf>>

\* cancel_work_sync
DeinitCancel ==
    /\ dpc = "cancel" /\ wpc = "idle" /\ ~uaf
    /\ work' = FALSE
    /\ dpc' = "drop"
    /\ UNCHANGED <<ctrlVars, timer, handler, wpc, skipped, free, rpc, frame, down, uaf>>

DeinitDrop ==
    /\ dpc = "drop" /\ ~uaf
    /\ list' = <<>>
    /\ free' = free + Len(list)
    /\ dpc' = "free"
    /\ UNCHANGED <<alive, enable, ind_sn, base, passed, timerVars, rpc, frame, down, uaf>>

\* list_del and kfree.
DeinitFree ==
    /\ dpc = "free" /\ ~uaf
    /\ alive' = FALSE /\ enable' = FALSE
    /\ uaf' = (timer \/ handler \/ work \/ wpc # "idle" \/ rpc # "idle" \/ list # <<>>)
    /\ dpc' = "idle"
    /\ UNCHANGED <<ind_sn, list, base, passed, timerVars, free, rpc, frame, down>>

DeviceState ==
    /\ MaySuspend /\ ~uaf
    /\ down' = ~down
    /\ UNCHANGED <<ctrlVars, timerVars, free, rpc, frame, dpc, uaf>>

-----------------------------------------------------------------------------
ReceiveStep == Old \/ Unit \/ UnitDisabled \/ FlushCancel

DeinitStep == DeinitCancel \/ DeinitDrop \/ DeinitFree

Next ==
    \/ \E n \in 0 .. MaxN : Arrive(n)
    \/ ReceiveStep \/ FlushTid
    \/ TimerFires \/ Handler \/ WorkStarts \/ Worker
    \/ Deinit \/ DeinitStep \/ DeviceState

Spec == Init /\ [][Next]_vars

\* The receive thread, the timer and the workqueue run when they can.
FairSpec ==
    /\ Spec
    /\ WF_vars(ReceiveStep) /\ WF_vars(TimerFires \/ Handler)
    /\ WF_vars(WorkStarts \/ Worker)

-----------------------------------------------------------------------------
(* Properties                                                              *)

\* Every recv_msdu is on the free queue, on the list or in the hands of the
\* receive thread: no path of reord_process_unit, of the worker or of the
\* teardown loses one of the MAX_REORD_RXFRAME frames.
PoolConserved == ~uaf => free + Len(list) + (IF rpc = "unit" THEN 1 ELSE 0) = Pool

\* A held frame always has somebody who will release it: a pending timer, its
\* handler or its worker, unless the handler gave up on a device that was down.
NoStranded ==
    list # <<>> /\ alive /\ enable /\ dpc = "idle"
      => timer \/ handler \/ work \/ wpc = "run" \/ skipped

\* The buffer in terms of the transmitter's own numbers.
Buffer == INSTANCE ReorderWindow WITH
    next <- IF enable /\ ind_sn # NoSn THEN base ELSE -1,
    held <- Range(list)

\* The code implements ReorderWindow: through wraps of the sequence number, jumps,
\* repeated frames, timeouts and ends of session, what is held lies in the window
\* and frames released by reord_rxframes_ind and reord_flush_tid go up in the order
\* in which the transmitter numbered them.
Promise == Buffer!Spec

\* Every held frame is released in the end.
HeldIsReleased ==
    \A n \in 0 .. MaxN : []<>(n \notin Range(list))

\* The frames of a control: none is left without somebody to release it, and none is
\* lost or returned twice (reord_process_unit, reord_deinit_sta).
HeldSound == TypeOK /\ NoStranded /\ PoolConserved
=============================================================================
