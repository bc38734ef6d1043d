-------------------------------- MODULE UsbRx --------------------------------
(***************************************************************************)
(* USB reception: the receive URBs of one bulk-in pipe, their completion   *)
(* handler, the queue it fills, the thread that empties the queue, and     *)
(* suspend and resume.  The data pipe (aicwf_usb_rx_complete and           *)
(* usb_busrx_thread) wakes its thread only when rx_cnt has become 1; the   *)
(* message pipe (aicwf_usb_msg_rx_complete and usb_msg_busrx_thread) wakes *)
(* it for every message.                                                   *)
(*                                                                         *)
(* The host controller gives URBs of a pipe back one after the other.      *)
(* Frames are numbered in the order in which they are queued.              *)
(***************************************************************************)
EXTENDS Integers, Sequences, FiniteSets

CONSTANTS
    Bufs,       \* struct aicwf_usb_buf of the pipe
    NoBuf,
    Pipes,      \* the pipes looked at: "data", "msg"
    QMax,       \* MAX_RXQLEN
    MaxFrames,  \* bound: frames received
    Faults      \* what may happen: a URB cannot be submitted ("submit"), the
                \* thread gets no memory for a frame ("memory"), "suspend"

ASSUME BufsAssumption == NoBuf \notin Bufs
ASSUME PipesAssumption == Pipes \subseteq {"data", "msg"}
ASSUME QMaxAssumption == QMax \in Nat \ {0} /\ MaxFrames \in Nat

VARIABLES
    pipe,       \* the pipe this is; it never changes
    faults,     \* the faults this behaviour may meet; never changes
    free,       \* rx_free_list
    flight,     \* URBs handed to the host controller
    rxq,        \* rx_priv->rxq
    rx_cnt,     \* rx_priv->rx_cnt
    trgg,       \* bus_if->busrx_trgg, a counting completion
    usb, bus,   \* usbdev->state, bus_if->state
    cpc, cbuf,  \* the completion handler: where it is, its buffer
    spc, sbuf,  \* context -> aicwf_usb_rx_submit_all_urb: where it is, its buffer
    tpc, tframe, \* the receive thread: where it is, the frame it works on
    ppc,        \* suspend and resume: where they are
    queued,     \* frames queued so far
    done,       \* the last frame the thread worked on
    lost        \* a buffer that no list and nobody holds any more

\* aicwf_usb_rx_submit_all_urb runs in the completion handler and in resume.
Contexts == {"irq", "pm"}

envVars    == <<pipe, faults>>
listVars   == <<free, flight>>
queueVars  == <<rxq, rx_cnt, trgg>>
handVars   == <<cpc, cbuf>>
submitVars == <<spc, sbuf>>
threadVars == <<tpc, tframe, done>>
powerVars  == <<usb, bus, ppc>>
vars == <<envVars, listVars, queueVars, handVars, submitVars, threadVars, powerVars, queued, lost>>

TypeOK ==
    /\ pipe \in Pipes /\ faults \subseteq Faults
    /\ free \subseteq Bufs /\ flight \subseteq Bufs /\ lost \subseteq Bufs
    /\ rxq \in Seq(1 .. MaxFrames) /\ rx_cnt \in Int /\ trgg \in Nat
    /\ usb \in {"UP", "SLEEP", "DOWN"} /\ bus \in {"UP", "DOWN"}
    /\ cpc \in {"idle", "count", "wake", "submit"} /\ cbuf \in Bufs \cup {NoBuf}
    /\ spc \in [Contexts -> {"idle", "check", "get", "submit"}]
    /\ sbuf \in [Contexts -> Bufs \cup {NoBuf}]
    /\ tpc \in {"wait", "loop", "work", "exit"} /\ tframe \in 0 .. MaxFrames
    /\ ppc \in {"up", "asleep", "down", "resumed"}
    /\ queued \in 0 .. MaxFrames /\ done \in 0 .. MaxFrames

\* aicwf_usb_alloc_rx_urb; the bus was started and the first
\* aicwf_usb_rx_prepare is about to run.
Init ==
    /\ pipe \in Pipes /\ faults \in SUBSET Faults
    /\ free = Bufs /\ flight = {} /\ lost = {}
    /\ rxq = <<>> /\ rx_cnt = 0 /\ trgg = 0
    /\ usb = "UP" /\ bus = "UP"
    /\ cpc = "idle" /\ cbuf = NoBuf
    /\ spc = [c \in Contexts |-> IF c = "pm" THEN "check" ELSE "idle"]
    /\ sbuf = [c \in Contexts |-> NoBuf]
    /\ tpc = "wait" /\ tframe = 0 /\ ppc = "up"
    /\ queued = 0 /\ done = 0

-----------------------------------------------------------------------------
(* aicwf_usb_rx_complete and aicwf_usb_msg_rx_complete                     *)

\* A URB came back with no data: it is put back and all are submitted.
CompleteEmpty(b) ==
    /\ b \in flight /\ cpc = "idle" /\ spc["irq"] = "idle"
    /\ flight' = flight \ {b} /\ free' = free \cup {b}
    /\ spc' = [spc EXCEPT !["irq"] = "check"]
    /\ UNCHANGED <<envVars, queueVars, handVars, sbuf, threadVars, powerVars, queued, lost>>

\* A frame came in and the device is up: it is queued under rxqlock.
CompleteFrame(b) ==
    /\ b \in flight /\ cpc = "idle" /\ spc["irq"] = "idle" /\ usb = "UP"
    /\ queued < MaxFrames /\ Len(rxq) < QMax
    /\ flight' = flight \ {b}
    /\ rxq' = Append(rxq, queued + 1) /\ queued' = queued + 1
    /\ cpc' = "count" /\ cbuf' = b
    /\ UNCHANGED <<envVars, free, rx_cnt, trgg, submitVars, threadVars, powerVars, lost>>

\* The queue is full: the frame is dropped.  The data pipe puts its buffer back
\* and submits; the message pipe returns with the buffer in nobody's hands.
CompleteFull(b) ==
    /\ b \in flight /\ cpc = "idle" /\ spc["irq"] = "idle" /\ usb = "UP"
    /\ Len(rxq) >= QMax
    /\ flight' = flight \ {b}
    /\ IF pipe = "data"
       THEN /\ free' = free \cup {b} /\ spc' = [spc EXCEPT !["irq"] = "check"]
            /\ UNCHANGED lost
       ELSE lost' = lost \cup {b} /\ UNCHANGED <<free, spc>>
    /\ UNCHANGED <<envVars, queueVars, handVars, sbuf, threadVars, powerVars, queued>>

\* The device is not up any more, or the URB came back with an error: it is put
\* back and not submitted again.  An error while the device is up means that it
\* was unplugged, which is not modelled here.
CompleteDown(b) ==
    /\ b \in flight /\ cpc = "idle" /\ spc["irq"] = "idle" /\ usb # "UP"
    /\ flight' = flight \ {b} /\ free' = free \cup {b}
    /\ UNCHANGED <<envVars, queueVars, handVars, submitVars, threadVars, powerVars,
                   queued, lost>>

\* atomic_inc(&rx_priv->rx_cnt).
Count ==
    /\ cpc = "count"
    /\ rx_cnt' = rx_cnt + 1 /\ cpc' = "wake"
    /\ UNCHANGED <<envVars, listVars, rxq, trgg, cbuf, submitVars, threadVars,
                   powerVars, queued, lost>>

\* Mutant of WakeNow: the message pipe saves wake-ups as the data pipe does.
WakeNowRarely == rx_cnt = 1

\* Is this the moment to wake the thread?
WakeNow == pipe = "msg" \/ rx_cnt = 1

Wake ==
    /\ cpc = "wake"
    /\ trgg' = IF WakeNow THEN trgg + 1 ELSE trgg
    /\ cpc' = "submit"
    /\ UNCHANGED <<envVars, listVars, rxq, rx_cnt, cbuf, submitVars, threadVars,
                   powerVars, queued, lost>>

\* The buffer is put back and all free ones are submitted.
PutBack ==
    /\ cpc = "submit"
    /\ free' = free \cup {cbuf}
    /\ cpc' = "idle" /\ cbuf' = NoBuf
    /\ spc' = [spc EXCEPT !["irq"] = "check"]
    /\ UNCHANGED <<envVars, flight, queueVars, sbuf, threadVars, powerVars, queued, lost>>

-----------------------------------------------------------------------------
(* aicwf_usb_rx_submit_all_urb and aicwf_usb_submit_rx_urb                 *)

SubmitCheck(c) ==
    /\ spc[c] = "check"
    /\ spc' = [spc EXCEPT ![c] = IF usb = "UP" THEN "get" ELSE "idle"]
    /\ UNCHANGED <<envVars, listVars, queueVars, handVars, sbuf, threadVars,
                   powerVars, queued, lost>>

SubmitGet(c) ==
    /\ spc[c] = "get"
    /\ \/ \E b \in free :
            /\ free' = free \ {b} /\ sbuf' = [sbuf EXCEPT ![c] = b]
            /\ spc' = [spc EXCEPT ![c] = "submit"]
       \/ free = {} /\ spc' = [spc EXCEPT ![c] = "idle"] /\ UNCHANGED <<free, sbuf>>
    /\ UNCHANGED <<envVars, flight, queueVars, handVars, threadVars, powerVars,
                   queued, lost>>

Submit(c) ==
    /\ spc[c] = "submit" /\ usb = "UP"
    /\ flight' = flight \cup {sbuf[c]}
    /\ sbuf' = [sbuf EXCEPT ![c] = NoBuf] /\ spc' = [spc EXCEPT ![c] = "get"]
    /\ UNCHANGED <<envVars, free, queueVars, handVars, threadVars, powerVars, queued, lost>>

\* Mutant of SubmitFails: the buffer is not put back.
SubmitFailsForget(c) ==
    /\ spc[c] = "submit" /\ (usb # "UP" \/ "submit" \in faults)
    /\ sbuf' = [sbuf EXCEPT ![c] = NoBuf] /\ lost' = lost \cup {sbuf[c]}
    /\ spc' = [spc EXCEPT ![c] = "idle"]
    /\ UNCHANGED <<envVars, free, flight, queueVars, handVars, threadVars, powerVars,
                   queued>>

\* The device is not up, there is no memory for the frame, or usb_submit_urb
\* fails: the buffer is put back.  The loop ends; on the message pipe it goes on
\* as long as the device is up.
SubmitFails(c) ==
    /\ spc[c] = "submit" /\ (usb # "UP" \/ "submit" \in faults)
    /\ free' = free \cup {sbuf[c]} /\ sbuf' = [sbuf EXCEPT ![c] = NoBuf]
    /\ spc' = [spc EXCEPT ![c] = IF pipe = "msg" /\ usb = "UP" THEN "get" ELSE "idle"]
    /\ UNCHANGED <<envVars, flight, queueVars, handVars, threadVars, powerVars,
                   queued, lost>>

-----------------------------------------------------------------------------
(* usb_busrx_thread, usb_msg_busrx_thread                                  *)

\* Mutant of ThreadWakes: an interrupted wait counts as a trigger.
ThreadWakesAnyway ==
    /\ tpc = "wait"
    /\ trgg' = trgg - 1
    /\ tpc' = IF bus = "DOWN" THEN "exit" ELSE "loop"
    /\ UNCHANGED <<envVars, listVars, rxq, rx_cnt, handVars, submitVars, tframe,
                   done, powerVars,
                   queued, lost>>

\* wait_for_completion returned; the thread leaves for good when the bus is down.
ThreadWakes ==
    /\ tpc = "wait" /\ trgg > 0
    /\ trgg' = trgg - 1
    /\ tpc' = IF bus = "DOWN" THEN "exit" ELSE "loop"
    /\ UNCHANGED <<envVars, listVars, rxq, rx_cnt, handVars, submitVars, tframe,
                   done, powerVars,
                   queued, lost>>

\* aicwf_process_rxframes: take the next frame, or return to the wait.
Dequeue ==
    /\ tpc = "loop"
    /\ IF rxq = <<>>
       THEN tpc' = "wait" /\ UNCHANGED <<rxq, tframe>>
       ELSE tpc' = "work" /\ tframe' = Head(rxq) /\ rxq' = Tail(rxq)
    /\ UNCHANGED <<envVars, listVars, rx_cnt, trgg, handVars, submitVars, done,
                   powerVars, queued, lost>>

\* Mutant of Work: rx_cnt is not counted down.
WorkNoCount ==
    /\ tpc = "work"
    /\ done' = tframe /\ tframe' = 0
    /\ tpc' = "loop"
    /\ UNCHANGED <<envVars, listVars, queueVars, handVars, submitVars, powerVars,
                   queued, lost>>

\* The frame was handled and freed, and rx_cnt counted down.
Work ==
    /\ tpc = "work"
    /\ done' = tframe /\ tframe' = 0
    /\ rx_cnt' = rx_cnt - 1
    /\ tpc' = "loop"
    /\ UNCHANGED <<envVars, listVars, rxq, trgg, handVars, submitVars, powerVars,
                   queued, lost>>

\* No memory for a message: the function returns at once, with rx_cnt as it is.
WorkRunsOut ==
    /\ tpc = "work" /\ "memory" \in faults
    /\ done' = tframe /\ tframe' = 0
    /\ tpc' = "wait"
    /\ UNCHANGED <<envVars, listVars, queueVars, handVars, submitVars, powerVars,
                   queued, lost>>

-----------------------------------------------------------------------------
(* Suspend and resume                                                      *)

Suspend ==
    /\ "suspend" \in faults /\ ppc = "up" /\ spc["pm"] = "idle"
    /\ usb' = "SLEEP" /\ ppc' = "asleep"
    /\ UNCHANGED <<envVars, listVars, queueVars, handVars, submitVars, threadVars,
                   bus, queued, lost>>

\* aicwf_usb_bus_stop.
BusStop ==
    /\ ppc = "asleep"
    /\ usb' = "DOWN" /\ bus' = "DOWN" /\ ppc' = "down"
    /\ UNCHANGED <<envVars, listVars, queueVars, handVars, submitVars, threadVars,
                   queued, lost>>

\* aicwf_usb_bus_start.  The USB core has taken all URBs back by then.
BusStart ==
    /\ ppc = "down" /\ flight = {} /\ cpc = "idle" /\ spc["irq"] = "idle"
    /\ usb' = "UP" /\ bus' = "UP" /\ ppc' = "resumed"
    /\ UNCHANGED <<envVars, listVars, queueVars, handVars, submitVars, threadVars,
                   queued, lost>>

\* Mutant of RxPrepare: the URBs are not submitted.
RxPrepareNot ==
    /\ ppc = "resumed" /\ ppc' = "up"
    /\ UNCHANGED <<envVars, listVars, queueVars, handVars, submitVars, threadVars,
                   usb, bus, queued, lost>>

\* The last step of aicwf_usb_resume: aicwf_usb_rx_prepare.
RxPrepare ==
    /\ ppc = "resumed"
    /\ ppc' = "up" /\ spc' = [spc EXCEPT !["pm"] = "check"]
    /\ UNCHANGED <<envVars, listVars, queueVars, handVars, sbuf, threadVars, usb,
                   bus, queued, lost>>

-----------------------------------------------------------------------------
CompleteStep == \E b \in Bufs : \/ CompleteEmpty(b) \/ CompleteFrame(b)
                                \/ CompleteFull(b) \/ CompleteDown(b)
HandlerStep == Count \/ Wake \/ PutBack
SubmitStep(c) == SubmitCheck(c) \/ SubmitGet(c) \/ Submit(c) \/ SubmitFails(c)
ThreadStep == ThreadWakes \/ Dequeue \/ Work \/ WorkRunsOut
PowerStep == Suspend \/ BusStop \/ BusStart \/ RxPrepare

Next ==
    \/ CompleteStep \/ HandlerStep
    \/ \E c \in Contexts : SubmitStep(c)
    \/ ThreadStep \/ PowerStep

Spec == Init /\ [][Next]_vars

\* An interrupt handler runs to its end and a thread that can run does.
Fairness ==
    /\ WF_vars(HandlerStep)
    /\ \A c \in Contexts : WF_vars(SubmitStep(c))
    /\ WF_vars(ThreadStep)

LiveSpec == Spec /\ Fairness

-----------------------------------------------------------------------------
(* Properties                                                              *)

\* Where a buffer is: on the free list, with the host controller, in the
\* completion handler, in one of the two submit loops, or lost.
Places(b) ==
    {p \in {"free", "flight", "handler", "irq", "pm", "lost"} :
        \/ p = "free" /\ b \in free
        \/ p = "flight" /\ b \in flight
        \/ p = "handler" /\ b = cbuf
        \/ p \in Contexts /\ b = sbuf[p]
        \/ p = "lost" /\ b \in lost}

\* Every receive buffer is in exactly one place, and on the data pipe none is ever
\* lost: with the submit loop of resume racing the one of a completion, no URB is
\* submitted twice and no way out of the completion handler, submissions that fail
\* included, forgets to put one back.  The message pipe loses a buffer whenever its
\* queue is full, and only then.
NoBufLost ==
    /\ \A b \in Bufs : Cardinality(Places(b)) = 1
    /\ pipe = "data" => lost = {}

\* What rx_cnt counts as long as the thread finds memory: the frames queued or in
\* work, less the one the completion handler has queued and not yet counted.
CountRight ==
    "memory" \notin faults =>
        rx_cnt = Len(rxq) + (IF tpc = "work" THEN 1 ELSE 0) - (IF cpc = "count" THEN 1 ELSE 0)

\* A frame in the queue of a thread that waits has a trigger on the way: the
\* thread that saw the queue empty, counting down, and the handler that fills it,
\* counting up and waking only at 1, never miss each other.  Out of memory the
\* thread returns with frames left; then only the message pipe, which triggers for
\* every message, still promises it.
NoLostWakeup ==
    "memory" \notin faults \/ pipe = "msg" =>
        (rxq # <<>> /\ tpc = "wait" => trgg > 0 \/ cpc \in {"count", "wake"})

\* When nothing is going on and the device is up, URBs are with the host
\* controller, unless a submission failed or every buffer was lost: reception does
\* not dry up by itself, after a resume included.
NotStarved ==
    ( /\ "submit" \notin faults /\ lost # Bufs
      /\ usb = "UP" /\ ppc = "up" /\ cpc = "idle" /\ \A c \in Contexts : spc[c] = "idle" )
        => flight # {}

\* Every frame queued is taken up by the thread, on the message pipe even when the
\* thread runs out of memory on the way, unless a suspend ended the thread.
AllHandled ==
    \A n \in 1 .. MaxFrames :
        queued >= n /\ ("memory" \notin faults \/ pipe = "msg") ~> done >= n \/ tpc = "exit"

\* The buffers of both pipes: none is lost, and URBs are out whenever the driver is
\* idle (aicwf_usb_rx_complete, aicwf_usb_rx_submit_all_urb_).
BuffersSound == TypeOK /\ NoBufLost /\ NotStarved
=============================================================================
