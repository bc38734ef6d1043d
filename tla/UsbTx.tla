-------------------------------- MODULE UsbTx --------------------------------
(***************************************************************************)
(* The USB data transmit path of the fdrv driver: a pool of transfer       *)
(* buffers that travel from tx_free_list to tx_post_list                   *)
(* (aicwf_usb_bus_txdata), are submitted by usb_bustx_thread               *)
(* (aicwf_usb_tx_process) and come back from aicwf_usb_tx_complete, and    *)
(* the flow control that stops and wakes the network queues.               *)
(*                                                                         *)
(* rwnx_tx_push runs with tx_lock held, so there is one sender at a time;  *)
(* it interleaves with the thread, with the completion handler and with    *)
(* suspend and resume at every point where no lock of this path is held.   *)
(***************************************************************************)
EXTENDS Integers, Sequences, FiniteSets, SequencesExt

CONSTANTS
    Bufs,       \* usb_tx_buf, AICWF_USB_TX_URBS of them
    Low,        \* AICWF_USB_TX_LOW_WATER
    High,       \* AICWF_USB_TX_HIGH_WATER
    MaxFrames,  \* bound: frames pushed in a behaviour
    MaySuspend, \* the device may be suspended and resumed
    MayFail,    \* usb_submit_urb may fail
    NoBuf       \* a NULL usb_buf

ASSUME BufsAssumption == IsFiniteSet(Bufs)
ASSUME WaterAssumption == Low \in Nat /\ High \in Nat /\ Low <= High
ASSUME FramesAssumption == MaxFrames \in Nat
ASSUME SwitchAssumption == MaySuspend \in BOOLEAN /\ MayFail \in BOOLEAN
ASSUME NoBufAssumption == NoBuf \notin Bufs

VARIABLES
    tx_free,    \* tx_free_list
    tx_post,    \* tx_post_list
    flight,     \* submitted URBs that have not completed
    tbusy,      \* usb_dev->tbusy
    stopped,    \* the network queues are stopped
    usb,        \* usb_dev->state
    bus,        \* bus_if->state
    trgg,       \* the count of the completion bustx_trgg
    frame,      \* the number of the frame in each buffer
    pushed,     \* frames pushed so far
    wire,       \* number of the last frame submitted
    spc, sbuf,  \* the sender: where it is, its usb_buf
    tpc, tbuf,  \* usb_bustx_thread: where it is, its usb_buf
    cpc,        \* aicwf_usb_tx_complete: where it is
    ppc,        \* suspend and resume: where they are
    gone,       \* the device was unplugged: usb_submit_urb returns -ENODEV
    unseen      \* buffers came back on a path that does not look at the water marks

listVars   == <<tx_free, tx_post, flight>>
flowVars   == <<tbusy, stopped, unseen>>
stateVars  == <<usb, bus, gone>>
frameVars  == <<frame, pushed, wire>>
senderVars == <<spc, sbuf>>
threadVars == <<tpc, tbuf>>
vars == <<listVars, flowVars, stateVars, trgg, frameVars, senderVars, threadVars,
          cpc, ppc>>

Posted == {tx_post[i] : i \in 1 .. Len(tx_post)}

TypeOK ==
    /\ tx_free \in SUBSET Bufs
    /\ tx_post \in Seq(Bufs)
    /\ flight \in SUBSET Bufs
    /\ tbusy \in BOOLEAN /\ stopped \in BOOLEAN /\ unseen \in BOOLEAN
    /\ usb \in {"DOWN", "UP", "SLEEP"} /\ bus \in {"DOWN", "UP"}
    /\ gone \in BOOLEAN
    /\ trgg \in Nat
    /\ frame \in [Bufs -> Nat] /\ pushed \in 0 .. MaxFrames /\ wire \in Nat
    /\ spc \in {"idle", "down", "get", "post", "trigger", "flow"}
    /\ sbuf \in Bufs \cup {NoBuf}
    /\ tpc \in {"wait", "loop", "dequeue", "submit", "exit"}
    /\ tbuf \in Bufs \cup {NoBuf}
    /\ cpc \in {"idle", "flow"}
    /\ ppc \in {"up", "asleep", "down", "attached", "prepare", "dequeue", "wake", "oops"}

\* aicwf_usb_alloc_tx_urb: every buffer is free; aicwf_usb_bus_start has run.
Init ==
    /\ tx_free = Bufs /\ tx_post = <<>> /\ flight = {}
    /\ tbusy = FALSE /\ stopped = FALSE /\ unseen = FALSE
    /\ usb = "UP" /\ bus = "UP" /\ gone = FALSE /\ trgg = 0
    /\ frame = [b \in Bufs |-> 0] /\ pushed = 0 /\ wire = 0
    /\ spc = "idle" /\ sbuf = NoBuf
    /\ tpc = "wait" /\ tbuf = NoBuf
    /\ cpc = "idle" /\ ppc = "up"

-----------------------------------------------------------------------------
(* The sender: aicwf_frame_tx and aicwf_usb_bus_txdata                     *)

\* A frame may come whether the network queues run or not: management frames
\* and frames already on a txq are pushed all the same.
FrameTx ==
    /\ spc = "idle" /\ pushed < MaxFrames
    /\ usb = "UP"
    /\ pushed' = pushed + 1
    /\ spc' = "get"
    /\ UNCHANGED <<listVars, flowVars, stateVars, trgg, frame, wire, sbuf,
                   threadVars, cpc, ppc>>

\* aicwf_frame_tx finds the device down and frees the frame.
FrameTxDown ==
    /\ spc = "idle" /\ pushed < MaxFrames
    /\ usb = "DOWN"
    /\ pushed' = pushed + 1
    /\ spc' = "down"
    /\ UNCHANGED <<listVars, flowVars, stateVars, trgg, frame, wire, sbuf,
                   threadVars, cpc, ppc>>

\* Under tx_flow_lock; the device may be up again by now.
StopDown ==
    /\ spc = "down"
    /\ stopped' = IF tbusy THEN stopped ELSE TRUE
    /\ spc' = "idle"
    /\ UNCHANGED <<listVars, tbusy, unseen, stateVars, trgg, frameVars, sbuf,
                   threadVars, cpc, ppc>>

\* aicwf_usb_bus_txdata frees the frame of a device that is asleep, or went
\* down after aicwf_frame_tx had looked.
FrameTxDrop ==
    /\ spc = "idle" /\ pushed < MaxFrames
    /\ usb # "UP"
    /\ pushed' = pushed + 1
    /\ UNCHANGED <<listVars, flowVars, stateVars, trgg, frame, wire, senderVars,
                   threadVars, cpc, ppc>>

\* aicwf_usb_tx_dequeue(tx_free_list); without a buffer the frame is freed.
GetBuf ==
    /\ spc = "get"
    /\ IF tx_free = {}
       THEN /\ spc' = "flow"
            /\ UNCHANGED <<tx_free, sbuf, frame>>
       ELSE \E b \in tx_free :
              /\ tx_free' = tx_free \ {b}
              /\ sbuf' = b
              /\ frame' = [frame EXCEPT ![b] = pushed]
              /\ spc' = "post"
    /\ UNCHANGED <<tx_post, flight, flowVars, stateVars, trgg, pushed, wire,
                   threadVars, cpc, ppc>>

\* Mutant: the buffer goes to the head of the list.
PostHead ==
    /\ spc = "post"
    /\ tx_post' = <<sbuf>> \o tx_post
    /\ sbuf' = NoBuf
    /\ spc' = "trigger"
    /\ UNCHANGED <<tx_free, flight, flowVars, stateVars, trgg, frameVars,
                   threadVars, cpc, ppc>>

Post ==
    /\ spc = "post"
    /\ tx_post' = Append(tx_post, sbuf)
    /\ sbuf' = NoBuf
    /\ spc' = "trigger"
    /\ UNCHANGED <<tx_free, flight, flowVars, stateVars, trgg, frameVars,
                   threadVars, cpc, ppc>>

\* Mutant: the thread is woken only while no transfer is in flight.
TriggerIdle ==
    /\ spc = "trigger"
    /\ trgg' = IF flight = {} THEN trgg + 1 ELSE trgg
    /\ spc' = "flow"
    /\ UNCHANGED <<listVars, flowVars, stateVars, frameVars, sbuf, threadVars, cpc, ppc>>

\* complete(&bus_if->bustx_trgg)
Trigger ==
    /\ spc = "trigger"
    /\ trgg' = trgg + 1
    /\ spc' = "flow"
    /\ UNCHANGED <<listVars, flowVars, stateVars, frameVars, sbuf, threadVars, cpc, ppc>>

\* Under tx_flow_lock.
TxFlow ==
    /\ spc = "flow"
    /\ IF Cardinality(tx_free) < Low
       THEN tbusy' = TRUE /\ stopped' = TRUE /\ unseen' = FALSE
       ELSE UNCHANGED flowVars
    /\ spc' = "idle"
    /\ UNCHANGED <<listVars, stateVars, trgg, frameVars, sbuf, threadVars, cpc, ppc>>

-----------------------------------------------------------------------------
(* usb_bustx_thread and aicwf_usb_tx_process                               *)

\* Mutant: a wait that was interrupted counts as a trigger.
ThreadWakeAnyway ==
    /\ tpc = "wait"
    /\ trgg' = trgg - 1
    /\ tpc' = IF tx_post = <<>> THEN "wait" ELSE "loop"
    /\ UNCHANGED <<listVars, flowVars, stateVars, frameVars, senderVars, tbuf, cpc, ppc>>

\* wait_for_completion_interruptible, then the bus state and the post count.
ThreadWake ==
    /\ tpc = "wait" /\ trgg > 0
    /\ trgg' = trgg - 1
    /\ tpc' = CASE bus = "DOWN"  -> "exit"
                [] tx_post = <<>> -> "wait"
                [] OTHER          -> "loop"
    /\ UNCHANGED <<listVars, flowVars, stateVars, frameVars, senderVars, tbuf, cpc, ppc>>

ThreadLoop ==
    /\ tpc = "loop"
    /\ tpc' = IF tx_post = <<>> \/ usb # "UP" THEN "wait" ELSE "dequeue"
    /\ UNCHANGED <<listVars, flowVars, stateVars, trgg, frameVars, senderVars, tbuf,
                   cpc, ppc>>

ThreadDequeue ==
    /\ tpc = "dequeue"
    /\ IF tx_post = <<>>
       THEN /\ tpc' = "wait"
            /\ UNCHANGED <<tx_post, tbuf>>
       ELSE /\ tbuf' = tx_post[1]
            /\ tx_post' = Tail(tx_post)
            /\ tpc' = "submit"
    /\ UNCHANGED <<tx_free, flight, flowVars, stateVars, trgg, frameVars, senderVars,
                   cpc, ppc>>

ThreadSubmit ==
    /\ tpc = "submit" /\ ~gone
    /\ flight' = flight \cup {tbuf}
    /\ wire' = frame[tbuf]
    /\ tbuf' = NoBuf
    /\ tpc' = "loop"
    /\ UNCHANGED <<tx_free, tx_post, flowVars, stateVars, trgg, frame, pushed,
                   senderVars, cpc, ppc>>

\* Mutant: a buffer whose submission failed is not given back.
SubmitFailedLost ==
    /\ tpc = "submit" /\ MayFail
    /\ gone' \in {gone, TRUE}
    /\ tbuf' = NoBuf
    /\ tpc' = IF gone' THEN "wait" ELSE "loop"
    /\ UNCHANGED <<listVars, flowVars, usb, bus, trgg, frameVars, senderVars, cpc, ppc>>

\* The frame is lost and the buffer goes back without a look at the water
\* marks; -ENODEV also ends the loop.
SubmitFailed ==
    /\ tpc = "submit" /\ MayFail
    /\ gone' \in {gone, TRUE}
    /\ tx_free' = tx_free \cup {tbuf}
    /\ unseen' = TRUE
    /\ tbuf' = NoBuf
    /\ tpc' = IF gone' THEN "wait" ELSE "loop"
    /\ UNCHANGED <<tx_post, flight, tbusy, stopped, usb, bus, trgg, frameVars,
                   senderVars, cpc, ppc>>

-----------------------------------------------------------------------------
(* aicwf_usb_tx_complete                                                   *)

Complete(b) ==
    /\ cpc = "idle" /\ b \in flight
    /\ flight' = flight \ {b}
    /\ tx_free' = tx_free \cup {b}
    /\ cpc' = "flow"
    /\ UNCHANGED <<tx_post, flowVars, stateVars, trgg, frameVars, senderVars,
                   threadVars, ppc>>

\* Mutant: the count is read before the buffer is returned.
CompleteFlowEarly ==
    /\ cpc = "flow"
    /\ IF Cardinality(tx_free) - 1 > High /\ tbusy
       THEN tbusy' = FALSE /\ stopped' = FALSE
       ELSE UNCHANGED <<tbusy, stopped>>
    /\ cpc' = "idle"
    /\ UNCHANGED <<listVars, unseen, stateVars, trgg, frameVars, senderVars, threadVars, ppc>>

CompleteFlow ==
    /\ cpc = "flow"
    /\ IF Cardinality(tx_free) > High /\ tbusy
       THEN tbusy' = FALSE /\ stopped' = FALSE
       ELSE UNCHANGED <<tbusy, stopped>>
    /\ cpc' = "idle"
    /\ UNCHANGED <<listVars, unseen, stateVars, trgg, frameVars, senderVars, threadVars, ppc>>

-----------------------------------------------------------------------------
(* aicwf_usb_suspend and aicwf_usb_resume                                  *)

Suspend ==
    /\ MaySuspend /\ ppc = "up"
    /\ stopped' = TRUE
    /\ usb' = "SLEEP"
    /\ ppc' = "asleep"
    /\ UNCHANGED <<listVars, tbusy, unseen, bus, gone, trgg, frameVars, senderVars,
                   threadVars, cpc>>

\* aicwf_bus_stop, then netif_device_detach, which stops the queues.
BusStop ==
    /\ ppc = "asleep"
    /\ usb' = "DOWN" /\ bus' = "DOWN"
    /\ stopped' = TRUE
    /\ ppc' = "down"
    /\ UNCHANGED <<listVars, tbusy, unseen, gone, trgg, frameVars, senderVars,
                   threadVars, cpc>>

\* netif_device_attach wakes the queues before the bus is up.
Attach ==
    /\ ppc = "down"
    /\ stopped' = FALSE
    /\ ppc' = "attached"
    /\ UNCHANGED <<listVars, tbusy, unseen, stateVars, trgg, frameVars, senderVars,
                   threadVars, cpc>>

BusStart ==
    /\ ppc = "attached"
    /\ usb' = "UP" /\ bus' = "UP"
    /\ ppc' = "prepare"
    /\ UNCHANGED <<listVars, flowVars, gone, trgg, frameVars, senderVars, threadVars, cpc>>

\* aicwf_usb_tx_prepare: the test of the list and the removal take the lock
\* separately, and the result of the removal is not tested.
TxPrepare ==
    /\ ppc = "prepare"
    /\ ppc' = IF tx_post = <<>> THEN "wake" ELSE "dequeue"
    /\ UNCHANGED <<listVars, flowVars, stateVars, trgg, frameVars, senderVars,
                   threadVars, cpc>>

TxPrepareDequeue ==
    /\ ppc = "dequeue"
    /\ IF tx_post = <<>>
       THEN /\ ppc' = "oops"
            /\ UNCHANGED <<tx_free, tx_post, unseen>>
       ELSE /\ tx_free' = tx_free \cup {tx_post[1]}
            /\ tx_post' = Tail(tx_post)
            /\ unseen' = TRUE
            /\ ppc' = "prepare"
    /\ UNCHANGED <<flight, tbusy, stopped, stateVars, trgg, frameVars, senderVars,
                   threadVars, cpc>>

WakeQueues ==
    /\ ppc = "wake"
    /\ stopped' = FALSE
    /\ ppc' = "up"
    /\ UNCHANGED <<listVars, tbusy, unseen, stateVars, trgg, frameVars, senderVars,
                   threadVars, cpc>>

-----------------------------------------------------------------------------
SenderStep == StopDown \/ GetBuf \/ Post \/ Trigger \/ TxFlow

ThreadStep == ThreadWake \/ ThreadLoop \/ ThreadDequeue \/ ThreadSubmit \/ SubmitFailed

CompleteStep == (\E b \in Bufs : Complete(b)) \/ CompleteFlow

PowerStep == BusStop \/ Attach \/ BusStart \/ TxPrepare \/ TxPrepareDequeue \/ WakeQueues

Next ==
    \/ FrameTx \/ FrameTxDown \/ FrameTxDrop \/ SenderStep \/ ThreadStep \/ CompleteStep
    \/ Suspend \/ PowerStep

Spec == Init /\ [][Next]_vars

\* A thread that can run does, the USB core completes every URB it accepted,
\* and a suspended system is resumed.
FairSpec ==
    /\ Spec
    /\ WF_vars(SenderStep) /\ WF_vars(ThreadStep) /\ WF_vars(CompleteStep)
    /\ WF_vars(PowerStep)

-----------------------------------------------------------------------------
(* Properties                                                              *)

\* Where a buffer can be: on one of the lists, in flight, or in the hands of
\* the sender or of the thread.
Places == <<tx_free, Posted, flight, {sbuf} \ {NoBuf}, {tbuf} \ {NoBuf}>>

\* Every transfer buffer is in exactly one place and the post list holds it once:
\* none is lost on an error path and none is linked twice.
OnePlace ==
    /\ UNION {Places[i] : i \in 1 .. 5} = Bufs
    /\ \A i, j \in 1 .. 5 : i # j => Places[i] \cap Places[j] = {}
    /\ \A i, j \in 1 .. Len(tx_post) : tx_post[i] = tx_post[j] => i = j

\* Frames are submitted in the order in which they were pushed.
InOrder == [][wire' # wire => wire' > wire]_vars

\* Flow control that stopped the queues wakes them again, unless buffers came
\* back on a path that does not look at the water marks, or a suspend ended the
\* thread.
FlowReopens == (tbusy /\ ~unseen) ~> (~tbusy \/ unseen \/ tpc = "exit")

\* As long as usb_bustx_thread is there, a posted frame is submitted, or its buffer
\* returned, through submit failures, suspends and resumes.
ThreadServes ==
    \A b \in Bufs : (b \in Posted) ~> (b \notin Posted \/ gone \/ tpc = "exit")

\* A posted frame is submitted, or its buffer returned, unless the device is
\* unplugged.
PostIsServed == \A b \in Bufs : (b \in Posted) ~> (b \notin Posted \/ gone)
=============================================================================
