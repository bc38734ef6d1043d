------------------------------ MODULE LoadBus ------------------------------
(***************************************************************************
 What carries a command of the loader (aic_load_fw): one caller, the probe,
 queues a command, sends it over the one message URB and waits; the receive
 URBs bring the answer, their completion handler queues it and triggers the
 receive thread, which hands it to the command manager.  A work submits the
 receive URBs again.  A failed probe and disconnect take all of this down
 while URBs, work and thread are still there.

 A behaviour stops after one of these:
   "killed"   a fatal signal ends the wait: the command is freed while it is
              still on the list, so nobody may answer or drain it,
   "crossed"  the work submits a URB after the teardown has killed the others,
   "twice"    a frame without a packet makes the thread free the packet of the
              frame before it again,
   "late"     the thread hands an answer to a command manager that is gone,
   "starved"  no receive URB could be submitted and none is left to complete.
 ***************************************************************************)
EXTENDS Naturals, Sequences, FiniteSets, Null

CONSTANTS RxBufs,       \* the receive buffers (AICWF_USB_RX_URBS)
          MAX_RXQLEN,   \* the bound of the receive queue
          MaxTrgg,      \* a bound on the wake-ups of the thread that are under way
          MaxCmd        \* a bound on the commands of a behaviour

VARIABLES up,           \* usb_dev->state is USB_UP_ST
          app_cmp,
          rxbuf,        \* receive buffer -> "free", "work", "flying" or "lost"
          work,         \* rx_urb_work: "idle", "queued" or "loop"
          rxq,          \* frames that wait for the thread: the command answered, or 0
          busrx_trgg,   \* the count of the completion
          rxthread,     \* "wait", "work", "left" or "gone"
          inblock,      \* skb_inblock: "none", "live" or "freed"
          caller,       \* "idle", "send", "sent", "wait" or "down"
          cmd,          \* the number of the last command
          listed,       \* the commands on the list of the manager
          crashed,      \* the manager has timed out
          got,          \* the command and the answer that completed it
          msg_urb,      \* the message URB is with the controller: the command it carries, or NULL
          answers,      \* answers the device has still to send
          down,         \* how far the teardown is
          lbus_upset

busVars == <<up, app_cmp, rxbuf, work, rxq, busrx_trgg, rxthread, inblock, caller, cmd, listed, crashed, got,
             msg_urb, answers, down, lbus_upset>>

In(state) == {b \in RxBufs : rxbuf[b] = state}

BusInit ==
    /\ up = TRUE /\ app_cmp = FALSE                \* after aicwf_usb_bus_start
    /\ \E n \in SUBSET RxBufs : n # {} /\ rxbuf = [b \in RxBufs |-> IF b \in n THEN "flying" ELSE "free"]
    /\ work = "idle" /\ rxq = <<>> /\ busrx_trgg = 0 /\ rxthread = "wait" /\ inblock = "none"
    /\ caller = "idle" /\ cmd = 0 /\ listed = {} /\ crashed = FALSE /\ got = NULL
    /\ msg_urb = NULL /\ answers = {} /\ down = "no" /\ lbus_upset = {}

-----------------------------------------------------------------------------
\* The caller (cmd_mgr_queue, aicwf_set_cmd_tx, aicwf_usb_bus_txmsg).

\* A crashed manager refuses; the caller then gives up and the probe is unwound.
Queue ==
    /\ caller = "idle" /\ cmd < MaxCmd /\ ~crashed
    /\ cmd' = cmd + 1 /\ listed' = listed \cup {cmd + 1} /\ caller' = "send" /\ got' = NULL
    /\ UNCHANGED <<up, app_cmp, rxbuf, work, rxq, busrx_trgg, rxthread, inblock, crashed, msg_urb, answers, down, lbus_upset>>

\* usb_submit_urb of the message URB; a failure is not EIO and is not tried again.
Submit ==
    /\ caller = "send"
    /\ \/ msg_urb' = cmd /\ caller' = "sent"
       \/ UNCHANGED msg_urb /\ caller' = "wait"
    /\ UNCHANGED <<up, app_cmp, rxbuf, work, rxq, busrx_trgg, rxthread, inblock, cmd, listed, crashed, got, answers, down, lbus_upset>>

\* aicwf_usb_send_msg_complete: the device has the command and will answer it, or not.
MsgComplete ==
    /\ msg_urb # NULL /\ caller = "sent"
    /\ msg_urb' = NULL /\ caller' = "wait"
    /\ answers' \in {answers, answers \cup {msg_urb}}
    /\ UNCHANGED <<up, app_cmp, rxbuf, work, rxq, busrx_trgg, rxthread, inblock, cmd, listed, crashed, got, down, lbus_upset>>

\* wait_event_timeout: the URB is killed, and with -EIO the message is sent once more.
LeaveFlying == UNCHANGED msg_urb
KillMsgUrb == msg_urb' = NULL
MsgTimeout ==
    /\ caller = "sent" /\ KillMsgUrb
    /\ caller' \in {"send", "wait"}
    /\ UNCHANGED <<up, app_cmp, rxbuf, work, rxq, busrx_trgg, rxthread, inblock, cmd, listed, crashed, got, answers, down, lbus_upset>>

\* The answer has come.
Return ==
    /\ caller = "wait" /\ got # NULL /\ caller' = "idle"
    /\ UNCHANGED <<up, app_cmp, rxbuf, work, rxq, busrx_trgg, rxthread, inblock, cmd, listed, crashed, got, msg_urb, answers, down, lbus_upset>>

\* It has not: the command is taken off the list and the manager refuses from now on.
StaysUp == UNCHANGED crashed
Crash == crashed' = TRUE
Timeout ==
    /\ caller = "wait" /\ got = NULL
    /\ caller' = "idle" /\ listed' = listed \ {cmd} /\ Crash
    /\ UNCHANGED <<up, app_cmp, rxbuf, work, rxq, busrx_trgg, rxthread, inblock, cmd, got, msg_urb, answers, down, lbus_upset>>

Killed ==
    /\ caller = "wait" /\ got = NULL /\ lbus_upset' = {"killed"}
    /\ UNCHANGED <<up, app_cmp, rxbuf, work, rxq, busrx_trgg, rxthread, inblock, caller, cmd, listed, crashed, got, msg_urb, answers, down>>

-----------------------------------------------------------------------------
\* Reception.

PutOnly(b) == rxbuf' = [rxbuf EXCEPT ![b] = "free"] /\ UNCHANGED work
PutAndResubmit(b) == rxbuf' = [rxbuf EXCEPT ![b] = "free"] /\ work' = IF work = "idle" THEN "queued" ELSE work

\* aicwf_usb_rx_complete with a frame: an answer, or one without a packet.
RxComplete(b, a) ==
    /\ rxbuf[b] = "flying" /\ up /\ busrx_trgg < MaxTrgg
    /\ a \in answers \cup {0} /\ answers' = answers \ {a}
    /\ IF Len(rxq) < MAX_RXQLEN
       THEN /\ rxq' = Append(rxq, a)
            /\ busrx_trgg' = busrx_trgg + 1
            /\ PutAndResubmit(b)
       ELSE rxbuf' = [rxbuf EXCEPT ![b] = "lost"] /\ UNCHANGED <<rxq, busrx_trgg, work>>
    /\ UNCHANGED <<up, app_cmp, rxthread, inblock, caller, cmd, listed, crashed, got, msg_urb, down, lbus_upset>>

\* With an error or without data.
RxError(b) ==
    /\ rxbuf[b] = "flying" /\ up /\ PutAndResubmit(b)
    /\ UNCHANGED <<up, app_cmp, rxq, busrx_trgg, rxthread, inblock, caller, cmd, listed, crashed, got, msg_urb, answers, down, lbus_upset>>

\* aicwf_usb_rx_submit_all_urb, run by the work; it does nothing once the firmware is
\* started or the bus is down.
WorkStarts ==
    /\ work = "queued"
    /\ work' = IF up /\ ~app_cmp THEN "loop" ELSE "idle"
    /\ UNCHANGED <<up, app_cmp, rxbuf, rxq, busrx_trgg, rxthread, inblock, caller, cmd, listed, crashed, got, msg_urb, answers, down, lbus_upset>>
WorkGets ==
    /\ work = "loop" /\ In("work") = {}
    /\ IF In("free") = {} THEN work' = "idle" /\ UNCHANGED rxbuf
       ELSE \E b \in In("free") :
              IF up THEN rxbuf' = [rxbuf EXCEPT ![b] = "work"] /\ UNCHANGED work
              ELSE work' = "idle" /\ UNCHANGED rxbuf
    /\ UNCHANGED <<up, app_cmp, rxq, busrx_trgg, rxthread, inblock, caller, cmd, listed, crashed, got, msg_urb, answers, down, lbus_upset>>
WorkSubmits ==
    /\ work = "loop"
    /\ \E b \in In("work") :
         \/ /\ rxbuf' = [rxbuf EXCEPT ![b] = "flying"] /\ UNCHANGED work
            /\ lbus_upset' = IF down \in {"no", "state"} THEN {} ELSE {"crossed"}
         \/ /\ rxbuf' = [rxbuf EXCEPT ![b] = "free"] /\ work' = "idle"
            /\ lbus_upset' = IF In("flying") = {} THEN {"starved"} ELSE {}
    /\ UNCHANGED <<up, app_cmp, rxq, busrx_trgg, rxthread, inblock, caller, cmd, listed, crashed, got, msg_urb, answers, down>>

\* usb_busrx_thread.
ThreadWakes ==
    /\ rxthread = "wait" /\ busrx_trgg > 0
    /\ busrx_trgg' = busrx_trgg - 1 /\ rxthread' = "work"
    /\ UNCHANGED <<up, app_cmp, rxbuf, work, rxq, inblock, caller, cmd, listed, crashed, got, msg_urb, answers, down, lbus_upset>>

\* cmd_mgr_msgind: the first command that waits for this kind of answer.
cmd_mgr_msgind(a) ==
    IF listed = {} \/ got # NULL THEN UNCHANGED <<listed, got>>
    ELSE listed' = listed \ {cmd} /\ got' = <<cmd, a>>
\* aicwf_process_rxframes: one frame.
ThreadHandles ==
    /\ rxthread = "work" /\ rxq # <<>>
    /\ rxq' = Tail(rxq)
    /\ CASE Head(rxq) # 0 /\ down \in {"no", "state", "killed"} ->
              cmd_mgr_msgind(Head(rxq)) /\ inblock' = "freed" /\ UNCHANGED lbus_upset
         [] Head(rxq) # 0 /\ down \notin {"no", "state", "killed"} ->
              lbus_upset' = {"late"} /\ UNCHANGED <<listed, got, inblock>>
         [] Head(rxq) = 0 ->
              lbus_upset' = (IF inblock = "freed" THEN {"twice"} ELSE {}) /\ UNCHANGED <<listed, got, inblock>>
    /\ UNCHANGED <<up, app_cmp, rxbuf, work, busrx_trgg, rxthread, caller, cmd, crashed, msg_urb, answers, down>>
ThreadDone ==
    /\ rxthread = "work" /\ rxq = <<>>
    /\ rxthread' = IF up THEN "wait" ELSE "left"
    /\ inblock' = "none"
    /\ UNCHANGED <<up, app_cmp, rxbuf, work, rxq, busrx_trgg, caller, cmd, listed, crashed, got, msg_urb, answers, down, lbus_upset>>

-----------------------------------------------------------------------------
\* The end of the probe and the teardown.

\* The firmware is started: the URBs are not submitted any more.
Loaded ==
    /\ caller = "idle" /\ down = "no" /\ ~crashed /\ app_cmp' = TRUE
    /\ UNCHANGED <<up, rxbuf, work, rxq, busrx_trgg, rxthread, inblock, caller, cmd, listed, crashed, got, msg_urb, answers, down, lbus_upset>>

\* aicwf_bus_deinit, aicwf_usb_bus_stop: the state first, then the URBs.
StopState ==
    /\ down = "no" /\ caller = "idle" /\ down' = "state" /\ caller' = "down" /\ up' = FALSE
    /\ UNCHANGED <<app_cmp, rxbuf, work, rxq, busrx_trgg, rxthread, inblock, cmd, listed, crashed, got, msg_urb, answers, lbus_upset>>
StopUrbs ==
    /\ down = "state" /\ down' = "killed"
    /\ msg_urb' = NULL
    /\ rxbuf' = [b \in RxBufs |-> IF rxbuf[b] = "flying" THEN "free" ELSE rxbuf[b]]
    /\ work' = IF In("flying") # {} /\ work = "idle" THEN "queued" ELSE work
    /\ app_cmp' = FALSE
    /\ UNCHANGED <<up, rxq, busrx_trgg, rxthread, inblock, caller, cmd, listed, crashed, got, answers, lbus_upset>>
\* rwnx_cmd_mgr_deinit: the list is drained and the manager wiped.
Drain ==
    /\ down = "killed" /\ down' = "drained" /\ listed' = {}
    /\ UNCHANGED <<up, app_cmp, rxbuf, work, rxq, busrx_trgg, rxthread, inblock, caller, cmd, crashed, got, msg_urb, answers, lbus_upset>>
\* aicwf_rx_deinit: the queue is flushed and the thread triggered, signalled and waited for.
Flush ==
    /\ down = "drained" /\ down' = "flushed" /\ rxq' = <<>> /\ busrx_trgg' = busrx_trgg + 1
    /\ UNCHANGED <<up, app_cmp, rxbuf, work, rxthread, inblock, caller, cmd, listed, crashed, got, msg_urb, answers, lbus_upset>>
ThreadStops ==
    /\ down = "flushed" /\ rxthread = "left" /\ rxthread' = "gone" /\ down' = "stopped"
    /\ UNCHANGED <<up, app_cmp, rxbuf, work, rxq, busrx_trgg, inblock, caller, cmd, listed, crashed, got, msg_urb, answers, lbus_upset>>
\* aicwf_usb_deinit: the work is cancelled or waited for, then the URBs are freed.
FreesAtOnce == down = "stopped" /\ UNCHANGED work
CancelWork == down = "stopped" /\ work # "loop" /\ work' = "idle"
Deinit ==
    /\ CancelWork /\ down' = "gone"
    /\ UNCHANGED <<up, app_cmp, rxbuf, rxq, busrx_trgg, rxthread, inblock, caller, cmd, listed, crashed, got, msg_urb, answers, lbus_upset>>

BusNext ==
    /\ lbus_upset = {}
    /\ \/ Queue \/ Submit \/ MsgComplete \/ MsgTimeout \/ Return \/ Timeout \/ Killed
       \/ \E b \in RxBufs : RxError(b) \/ \E a \in 0 .. MaxCmd : RxComplete(b, a)
       \/ WorkStarts \/ WorkGets \/ WorkSubmits \/ ThreadWakes \/ ThreadHandles \/ ThreadDone
       \/ Loaded \/ StopState \/ StopUrbs \/ Drain \/ Flush \/ ThreadStops \/ Deinit

BusSpec == BusInit /\ [][BusNext]_busVars

-----------------------------------------------------------------------------
\* A command is completed by its own answer, although answers are matched by their
\* kind only: after a timeout no other command is queued (cmd_mgr_queue, cmd_mgr_msgind).
LoadAnswerIsOwn == got # NULL => got[1] = got[2]

\* The message URB and its buffer are not touched while the controller has them
\* (aicwf_usb_bus_txmsg).
MsgUrbIsFree == caller \in {"idle", "send", "wait"} => msg_urb = NULL

\* While the bus is up, the firmware not started and no buffer lost to a full queue, free
\* buffers mean that the work is still to run or that a URB is there to complete and
\* start it (aicwf_usb_rx_complete, rx_urb_work).
LoadNotStarved ==
    up /\ ~app_cmp /\ lbus_upset = {} /\ In("lost") = {} /\ In("free") # {} => work # "idle" \/ In("flying") # {}

\* When the URBs are freed nothing is left that would use them: no URB with the
\* controller, no work, no thread (aicwf_bus_deinit, aicwf_rx_deinit, aicwf_usb_deinit).
TornDown ==
    down = "gone" /\ lbus_upset = {} => In("flying") \cup In("work") = {} /\ work = "idle" /\ rxthread = "gone" /\ msg_urb = NULL

\* The loader's bus: its answers, the message URB, the buffers and the tear-down
\* (cmd_mgr_msgind, aicwf_usb_rx_complete, aicwf_bus_deinit).
LoadBusSound == LoadAnswerIsOwn /\ MsgUrbIsFree /\ LoadNotStarved /\ TornDown
=============================================================================
