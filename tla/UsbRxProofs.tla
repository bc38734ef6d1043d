---------------------------- MODULE UsbRxProofs ----------------------------
(***************************************************************************)
(* The receive threads of UsbRx never sleep through a frame, for any number *)
(* of buffers and frames and any length of the queue.                       *)
(*                                                                         *)
(* NoLostWakeup is not inductive, and the two pipes keep it for different  *)
(* reasons.  Without memory faults, that the handler wakes a thread that   *)
(* waits rests on rx_cnt being 1, which CountRight turns into a statement  *)
(* about the length of the queue, and on Alone: the frame whose handler is *)
(* still on its way to the wake-up is the only one in the queue.  On the   *)
(* message pipe there is a trigger for every message (Triggered), which    *)
(* survives a thread that gives up half way.                               *)
(***************************************************************************)
EXTENDS UsbRx, SequenceTheorems, FiniteSetTheorems, TLAPS

\* What a waiting thread with no trigger can find: the one frame that the
\* completion handler has queued and for which it has yet to wake the thread.
Alone ==
    "memory" \notin faults =>
        (tpc = "wait" /\ trgg = 0 /\ cpc \in {"count", "wake"} => Len(rxq) <= 1)

\* The half of NoLostWakeup that CountRight and Alone carry.
Awake ==
    "memory" \notin faults =>
        (rxq # <<>> /\ tpc = "wait" => trgg > 0 \/ cpc \in {"count", "wake"})

\* 1 while the handler has queued a frame and not yet triggered the thread.
Coming == IF cpc \in {"count", "wake"} THEN 1 ELSE 0

\* A trigger for every message that the thread has not been woken for.
Triggered ==
    pipe = "msg" =>
        /\ tpc \in {"wait", "work"} => Len(rxq) <= trgg + Coming
        /\ tpc = "loop" => Len(rxq) <= trgg + Coming + 1

Types ==
    /\ rxq \in Seq(1 .. MaxFrames) /\ rx_cnt \in Int /\ trgg \in Nat
    /\ queued \in 0 .. MaxFrames
    /\ cpc \in {"idle", "count", "wake", "submit"}
    /\ tpc \in {"wait", "loop", "work", "exit"}

IInv == Types /\ CountRight /\ Alone /\ Awake /\ Triggered

\* Facts about sequences that the steps below need.
LEMMA SeqFacts ==
    ASSUME NEW S, NEW s \in Seq(S)
    PROVE  /\ Len(s) \in Nat
           /\ s = <<>> <=> Len(s) = 0
           /\ \A e \in S : /\ Append(s, e) \in Seq(S)
                           /\ Len(Append(s, e)) = Len(s) + 1
           /\ s # <<>> => /\ Tail(s) \in Seq(S)
                          /\ Len(Tail(s)) = Len(s) - 1
  <1>1. Len(s) \in Nat
    BY LenProperties
  <1>2. s = <<>> <=> Len(s) = 0
    BY EmptySeq
  <1>3. ASSUME NEW e \in S PROVE Append(s, e) \in Seq(S) /\ Len(Append(s, e)) = Len(s) + 1
    BY AppendProperties
  <1>4. ASSUME s # <<>> PROVE Tail(s) \in Seq(S) /\ Len(Tail(s)) = Len(s) - 1
    BY <1>4, HeadTailProperties
  <1> QED
    BY <1>1, <1>2, <1>3, <1>4

\* A thread that waits with no trigger pending finds at most the frame of a
\* handler that is still on its way, in every initial state.
LEMMA InitIInv == Init => IInv
  <1> SUFFICES ASSUME Init PROVE IInv
    OBVIOUS
  <1>1. rxq = <<>> /\ Len(rxq) = 0 /\ rxq \in Seq(1 .. MaxFrames)
    BY DEF Init
  <1> QED
    BY <1>1, QMaxAssumption DEF Init, IInv, Types, CountRight, Alone, Awake, Triggered, Coming

\* Steps that leave the queue, its count and trigger, the handler's place and the
\* thread's alone keep the invariant.
LEMMA Still ==
    ASSUME IInv, UNCHANGED <<envVars, rxq, rx_cnt, trgg, cpc, tpc, queued>>
    PROVE  IInv'
  BY DEF IInv, Types, CountRight, Alone, Awake, Triggered, Coming, envVars

\* Every step keeps the invariant.
LEMMA NextIInv ==
    ASSUME IInv, [Next]_vars
    PROVE  IInv'
  <1> USE DEF IInv, listVars, queueVars, handVars, submitVars, threadVars, powerVars
  <1>f. /\ Len(rxq) \in Nat
        /\ rxq = <<>> <=> Len(rxq) = 0
        /\ \A e \in 1 .. MaxFrames : /\ Append(rxq, e) \in Seq(1 .. MaxFrames)
                                     /\ Len(Append(rxq, e)) = Len(rxq) + 1
        /\ rxq # <<>> => /\ Tail(rxq) \in Seq(1 .. MaxFrames)
                         /\ Len(Tail(rxq)) = Len(rxq) - 1
    <2>1. rxq \in Seq(1 .. MaxFrames)
      BY DEF Types
    <2> QED
      BY <2>1, SeqFacts
  <1>1. ASSUME NEW b \in Bufs, CompleteEmpty(b) \/ CompleteFull(b) \/ CompleteDown(b)
        PROVE  IInv'
    <2>1. UNCHANGED <<envVars, rxq, rx_cnt, trgg, cpc, tpc, queued>>
      BY <1>1 DEF CompleteEmpty, CompleteFull, CompleteDown
    <2> QED
      BY <2>1, Still
  <1>2. ASSUME NEW b \in Bufs, CompleteFrame(b) PROVE IInv'
    <2>1. /\ cpc = "idle" /\ cpc' = "count" /\ queued < MaxFrames
          /\ rxq' = Append(rxq, queued + 1) /\ queued' = queued + 1
          /\ UNCHANGED <<pipe, faults, rx_cnt, trgg, tpc>>
      BY <1>2 DEF CompleteFrame, envVars
    <2>2. queued + 1 \in 1 .. MaxFrames /\ queued' \in 0 .. MaxFrames
      BY <2>1, QMaxAssumption DEF Types
    <2>3. rxq' \in Seq(1 .. MaxFrames) /\ Len(rxq') = Len(rxq) + 1
      BY <2>1, <2>2, <1>f
    <2>4. Types'
      BY <2>1, <2>2, <2>3 DEF Types
    <2>5. CountRight'
      BY <2>1, <2>3, <1>f DEF CountRight, Types
    <2>6. Alone'
      BY <2>1, <2>3, <1>f DEF Alone, Awake, Types
    <2>7. Awake'
      BY <2>1 DEF Awake
    <2>8. Triggered'
      BY <2>1, <2>3, <1>f DEF Triggered, Coming, Types
    <2> QED
      BY <2>4, <2>5, <2>6, <2>7, <2>8
  <1>3. CASE Count
    <2>1. /\ cpc = "count" /\ cpc' = "wake" /\ rx_cnt' = rx_cnt + 1
          /\ UNCHANGED <<pipe, faults, rxq, trgg, tpc, queued>>
      BY <1>3 DEF Count, envVars
    <2> QED
      BY <2>1, <1>f DEF Types, CountRight, Alone, Awake, Triggered, Coming
  <1>4. CASE Wake
    <2>1. /\ cpc = "wake" /\ cpc' = "submit"
          /\ trgg' = IF WakeNow THEN trgg + 1 ELSE trgg
          /\ UNCHANGED <<pipe, faults, rxq, rx_cnt, tpc, queued>>
      BY <1>4 DEF Wake, envVars
    <2>2. Types' /\ CountRight' /\ Alone'
      BY <2>1 DEF Types, CountRight, Alone
    <2>3. ASSUME rxq # <<>>, tpc = "wait", "memory" \notin faults PROVE trgg' > 0
      <3>1. CASE trgg > 0
        BY <2>1, <3>1 DEF Types
      <3>2. CASE trgg = 0
        <4>1. Len(rxq) = 1
          BY <2>1, <2>3, <3>2, <1>f DEF Alone
        <4>2. rx_cnt = 1
          BY <2>1, <2>3, <4>1 DEF CountRight, Types
        <4> QED
          BY <2>1, <3>2, <4>2 DEF WakeNow
      <3> QED
        BY <3>1, <3>2 DEF Types
    <2>4. Awake'
      BY <2>1, <2>3 DEF Awake
    <2>5. ASSUME pipe = "msg" PROVE trgg' = trgg + 1
      BY <2>1, <2>5 DEF WakeNow
    <2>6. Triggered'
      BY <2>1, <2>5, <1>f DEF Triggered, Coming, Types
    <2> QED
      BY <2>2, <2>4, <2>6
  <1>5. CASE PutBack
    <2>1. /\ cpc = "submit" /\ cpc' = "idle"
          /\ UNCHANGED <<pipe, faults, rxq, rx_cnt, trgg, tpc, queued>>
      BY <1>5 DEF PutBack, envVars
    <2> QED
      BY <2>1 DEF Types, CountRight, Alone, Awake, Triggered, Coming
  <1>6. ASSUME NEW c \in Contexts, SubmitStep(c) PROVE IInv'
    <2>1. UNCHANGED <<envVars, rxq, rx_cnt, trgg, cpc, tpc, queued>>
      BY <1>6 DEF SubmitStep, SubmitCheck, SubmitGet, Submit, SubmitFails
    <2> QED
      BY <2>1, Still
  <1>7. CASE ThreadWakes
    <2>1. /\ tpc = "wait" /\ tpc' \in {"exit", "loop"} /\ trgg > 0 /\ trgg' = trgg - 1
          /\ UNCHANGED <<pipe, faults, rxq, rx_cnt, cpc, queued>>
      BY <1>7 DEF ThreadWakes, envVars
    <2> QED
      BY <2>1, <1>f DEF Types, CountRight, Alone, Awake, Triggered, Coming
  <1>8. CASE Dequeue
    <2>1. CASE rxq = <<>>
      <3>1. /\ tpc = "loop" /\ tpc' = "wait" /\ Len(rxq) = 0 /\ Len(rxq') = 0
            /\ UNCHANGED <<pipe, faults, rxq, rx_cnt, trgg, cpc, queued>>
        BY <1>8, <2>1, <1>f DEF Dequeue, envVars
      <3> QED
        BY <3>1, <2>1 DEF Types, CountRight, Alone, Awake, Triggered, Coming
    <2>2. CASE rxq # <<>>
      <3>1. /\ tpc = "loop" /\ tpc' = "work" /\ rxq' = Tail(rxq)
            /\ UNCHANGED <<pipe, faults, rx_cnt, trgg, cpc, queued>>
        BY <1>8, <2>2 DEF Dequeue, envVars
      <3>2. rxq' \in Seq(1 .. MaxFrames) /\ Len(rxq') = Len(rxq) - 1
        BY <2>2, <3>1, <1>f
      <3>3. Len(rxq) \in Nat /\ rx_cnt \in Int /\ trgg \in Nat
        BY <1>f DEF Types
      <3>4. CountRight'
        <4>1. CASE cpc = "count"
          BY <4>1, <3>1, <3>2, <3>3 DEF CountRight
        <4>2. CASE cpc # "count"
          BY <4>2, <3>1, <3>2, <3>3 DEF CountRight
        <4> QED
          BY <4>1, <4>2
      <3>5. Triggered'
        BY <3>1, <3>2, <3>3 DEF Triggered, Coming
      <3> QED
        BY <3>1, <3>2, <3>4, <3>5 DEF Types, Alone, Awake
    <2> QED
      BY <2>1, <2>2
  <1>9. CASE Work
    <2>1. /\ tpc = "work" /\ tpc' = "loop" /\ rx_cnt' = rx_cnt - 1
          /\ UNCHANGED <<pipe, faults, rxq, trgg, cpc, queued>>
      BY <1>9 DEF Work, envVars
    <2> QED
      BY <2>1, <1>f DEF Types, CountRight, Alone, Awake, Triggered, Coming
  <1>10. CASE WorkRunsOut
    <2>1. /\ tpc = "work" /\ tpc' = "wait" /\ "memory" \in faults
          /\ UNCHANGED <<pipe, faults, rxq, rx_cnt, trgg, cpc, queued>>
      BY <1>10 DEF WorkRunsOut, envVars
    <2> QED
      BY <2>1, <1>f DEF Types, CountRight, Alone, Awake, Triggered, Coming
  <1>11. CASE PowerStep
    <2>1. UNCHANGED <<envVars, rxq, rx_cnt, trgg, cpc, tpc, queued>>
      BY <1>11 DEF PowerStep, Suspend, BusStop, BusStart, RxPrepare
    <2> QED
      BY <2>1, Still
  <1>12. CASE UNCHANGED vars
    <2>1. UNCHANGED <<envVars, rxq, rx_cnt, trgg, cpc, tpc, queued>>
      BY <1>12 DEF vars
    <2> QED
      BY <2>1, Still
  <1> QED
    BY <1>1, <1>2, <1>3, <1>4, <1>5, <1>6, <1>7, <1>8, <1>9, <1>10, <1>11, <1>12
       DEF Next, CompleteStep, HandlerStep, ThreadStep

\* rx_cnt counts the frames queued or in work as long as the thread finds memory,
\* for any number of buffers and frames: what makes the test for 1 in
\* aicwf_usb_rx_complete mean "the queue was empty".
THEOREM CountTheorem == Spec => []CountRight
  <1>1. IInv /\ [Next]_vars => IInv'
    BY NextIInv
  <1>2. IInv => CountRight
    BY DEF IInv
  <1> QED
    BY <1>1, <1>2, InitIInv, PTL DEF Spec

\* The receive thread never waits with a frame in its queue and nobody about to
\* wake it: on the message pipe even when it runs out of memory on the way, on the
\* data pipe as long as it does not.
THEOREM WakeupTheorem == Spec => []NoLostWakeup
  <1>1. IInv /\ [Next]_vars => IInv'
    BY NextIInv
  <1>2. IInv => NoLostWakeup
    <2> SUFFICES ASSUME IInv PROVE NoLostWakeup
      OBVIOUS
    <2>1. Len(rxq) \in Nat /\ (rxq = <<>> <=> Len(rxq) = 0) /\ trgg \in Nat
      <3>1. rxq \in Seq(1 .. MaxFrames) /\ trgg \in Nat
        BY DEF IInv, Types
      <3> QED
        BY <3>1, SeqFacts
    <2> QED
      BY <2>1 DEF IInv, Awake, Triggered, Coming, NoLostWakeup
  <1> QED
    BY <1>1, <1>2, InitIInv, PTL DEF Spec

-----------------------------------------------------------------------------
(* The receive buffers.  The submit loop of the completion handler and the  *)
(* one of resume run side by side, so who holds what at each of their steps *)
(* is the invariant; that URBs are out follows from FreeOut, that only a    *)
(* loop which saw the free list empty or the device down stops.             *)

Held == {cbuf, sbuf["irq"], sbuf["pm"]}

Somewhere == \A b \in Bufs : b \in free \cup flight \cup lost \cup Held

Apart ==
    /\ free \cap flight = {} /\ free \cap lost = {} /\ flight \cap lost = {}
    /\ \A b \in Held : b \notin free \cup flight \cup lost
    /\ cbuf # NoBuf => cbuf # sbuf["irq"] /\ cbuf # sbuf["pm"]
    /\ sbuf["irq"] # NoBuf => sbuf["irq"] # sbuf["pm"]

\* Who is at which step has a buffer in hand, and the interrupt handler is in
\* one of its two functions only; a suspended driver is not in the resume loop.
Hands ==
    /\ cpc = "idle" <=> cbuf = NoBuf
    /\ \A c \in Contexts : spc[c] = "submit" <=> sbuf[c] # NoBuf
    /\ cpc # "idle" => spc["irq"] = "idle"
    /\ ppc # "up" => spc["pm"] = "idle"

\* Only the message pipe loses buffers.
DataKept == pipe = "data" => lost = {}

FreeOut ==
    ( /\ "submit" \notin faults /\ usb = "UP" /\ ppc = "up"
      /\ cpc = "idle" /\ \A c \in Contexts : spc[c] = "idle" )
        => free = {}

BufInv == TypeOK /\ Somewhere /\ Apart /\ Hands /\ DataKept /\ FreeOut

\* Every buffer is free and nobody holds one in every initial state.
LEMMA InitBufInv == Init => BufInv
  <1> SUFFICES ASSUME Init PROVE BufInv
    OBVIOUS
  <1> USE DEF Contexts
  <1>1. TypeOK
    <2>1. rxq \in Seq(1 .. MaxFrames)
      BY DEF Init
    <2>2. 0 \in 0 .. MaxFrames
      BY QMaxAssumption
    <2> QED
      BY <2>1, <2>2 DEF Init, TypeOK
  <1>2. Somewhere /\ Apart /\ Hands /\ DataKept /\ FreeOut
    BY BufsAssumption DEF Init, Somewhere, Apart, Held, Hands, DataKept, FreeOut
  <1> QED
    BY <1>1, <1>2 DEF BufInv

\* Every step keeps the types.
LEMMA NextTypeOK ==
    ASSUME TypeOK, Hands, [Next]_vars
    PROVE  TypeOK'
  <1> USE DEF envVars, listVars, queueVars, handVars, submitVars, threadVars, powerVars
  <1>1. CASE CompleteStep
    <2>1. PICK d \in Bufs : \/ CompleteEmpty(d) \/ CompleteFrame(d)
                            \/ CompleteFull(d) \/ CompleteDown(d)
      BY <1>1 DEF CompleteStep
    <2>2. CASE CompleteFrame(d)
      <3>1. queued + 1 \in 1 .. MaxFrames /\ queued' \in 0 .. MaxFrames
        BY <2>2, QMaxAssumption DEF CompleteFrame, TypeOK
      <3>2. rxq' \in Seq(1 .. MaxFrames)
        BY <2>2, <3>1, AppendProperties DEF CompleteFrame, TypeOK
      <3> QED
        BY <2>2, <3>1, <3>2 DEF CompleteFrame, TypeOK
    <2>3. CASE CompleteEmpty(d) \/ CompleteFull(d) \/ CompleteDown(d)
      BY <2>3 DEF CompleteEmpty, CompleteFull, CompleteDown, TypeOK, Contexts
    <2> QED
      BY <2>1, <2>2, <2>3
  <1>2. CASE HandlerStep
    <2>1. CASE Count \/ Wake
      BY <2>1 DEF Count, Wake, TypeOK
    <2>2. CASE PutBack
      <3>1. cbuf \in Bufs
        BY <2>2 DEF PutBack, Hands, TypeOK
      <3> QED
        BY <2>2, <3>1 DEF PutBack, TypeOK, Contexts
    <2> QED
      BY <1>2, <2>1, <2>2 DEF HandlerStep
  <1>3. ASSUME NEW c \in Contexts, SubmitStep(c) PROVE TypeOK'
    <2>1. CASE SubmitCheck(c) \/ SubmitGet(c)
      BY <2>1 DEF SubmitCheck, SubmitGet, TypeOK
    <2>2. CASE Submit(c) \/ SubmitFails(c)
      <3>1. sbuf[c] \in Bufs
        BY <2>2 DEF Submit, SubmitFails, Hands, TypeOK
      <3> QED
        BY <2>2, <3>1 DEF Submit, SubmitFails, TypeOK
    <2> QED
      BY <1>3, <2>1, <2>2 DEF SubmitStep
  <1>4. CASE ThreadStep
    <2>1. CASE Dequeue
      <3>1. rxq # <<>> => Head(rxq) \in 1 .. MaxFrames /\ Tail(rxq) \in Seq(1 .. MaxFrames)
        BY HeadTailProperties DEF TypeOK
      <3>2. CASE rxq = <<>>
        BY <2>1, <3>2 DEF Dequeue, TypeOK
      <3>3. CASE rxq # <<>>
        <4>1. rxq' = Tail(rxq) /\ tframe' = Head(rxq) /\ tpc' = "work"
          BY <2>1, <3>3 DEF Dequeue
        <4>2. rxq' \in Seq(1 .. MaxFrames) /\ tframe' \in 0 .. MaxFrames
          BY <3>1, <3>3, <4>1, QMaxAssumption
        <4> QED
          BY <2>1, <4>1, <4>2 DEF Dequeue, TypeOK
      <3> QED
        BY <3>2, <3>3
    <2>2. CASE ThreadWakes
      BY <2>2 DEF ThreadWakes, TypeOK
    <2>3. CASE Work \/ WorkRunsOut
      BY <2>3, QMaxAssumption DEF Work, WorkRunsOut, TypeOK
    <2> QED
      BY <1>4, <2>1, <2>2, <2>3 DEF ThreadStep
  <1>5. CASE PowerStep
    BY <1>5 DEF PowerStep, Suspend, BusStop, BusStart, RxPrepare, TypeOK, Contexts
  <1>6. CASE UNCHANGED vars
    BY <1>6 DEF vars, TypeOK
  <1> QED
    BY <1>1, <1>2, <1>3, <1>4, <1>5, <1>6 DEF Next, CompleteStep

\* What the buffer invariant reads besides the types.
BufPart == Somewhere /\ Apart /\ Hands /\ DataKept /\ FreeOut

\* Every step keeps each buffer in one pair of hands.
LEMMA NextBufPart ==
    ASSUME BufInv, [Next]_vars
    PROVE  BufPart'
  <1> USE BufsAssumption DEF BufInv, BufPart, Held, Contexts, envVars, listVars,
          queueVars, handVars, submitVars, threadVars, powerVars
  <1>t. /\ free \subseteq Bufs /\ flight \subseteq Bufs /\ lost \subseteq Bufs
        /\ cbuf \in Bufs \cup {NoBuf} /\ sbuf \in [Contexts -> Bufs \cup {NoBuf}]
        /\ spc \in [Contexts -> {"idle", "check", "get", "submit"}]
    BY DEF TypeOK
  <1>1. ASSUME NEW b \in Bufs, CompleteEmpty(b) PROVE BufPart'
    BY <1>t, <1>1 DEF CompleteEmpty, Somewhere, Apart, Hands, DataKept, FreeOut
  <1>2. ASSUME NEW b \in Bufs, CompleteFrame(b) PROVE BufPart'
    BY <1>t, <1>2 DEF CompleteFrame, Somewhere, Apart, Hands, DataKept, FreeOut
  <1>3. ASSUME NEW b \in Bufs, CompleteFull(b) PROVE BufPart'
    BY <1>t, <1>3 DEF CompleteFull, Somewhere, Apart, Hands, DataKept, FreeOut
  <1>4. ASSUME NEW b \in Bufs, CompleteDown(b) PROVE BufPart'
    BY <1>t, <1>4 DEF CompleteDown, Somewhere, Apart, Hands, DataKept, FreeOut
  <1>5. CASE Count \/ Wake
    BY <1>t, <1>5 DEF Count, Wake, Somewhere, Apart, Hands, DataKept, FreeOut
  <1>6. CASE PutBack
    BY <1>t, <1>6 DEF PutBack, Somewhere, Apart, Hands, DataKept, FreeOut
  <1>7. ASSUME NEW c \in Contexts, SubmitCheck(c) PROVE BufPart'
    BY <1>t, <1>7 DEF SubmitCheck, Somewhere, Apart, Hands, DataKept, FreeOut
  <1>8. ASSUME NEW c \in Contexts, SubmitGet(c) PROVE BufPart'
    BY <1>t, <1>8 DEF SubmitGet, Somewhere, Apart, Hands, DataKept, FreeOut
  <1>9. ASSUME NEW c \in Contexts, Submit(c) PROVE BufPart'
    BY <1>t, <1>9 DEF Submit, Somewhere, Apart, Hands, DataKept, FreeOut
  <1>10. ASSUME NEW c \in Contexts, SubmitFails(c) PROVE BufPart'
    BY <1>t, <1>10 DEF SubmitFails, Somewhere, Apart, Hands, DataKept, FreeOut
  <1>11. CASE ThreadStep
    BY <1>t, <1>11 DEF ThreadStep, ThreadWakes, Dequeue, Work, WorkRunsOut,
       Somewhere, Apart, Hands, DataKept, FreeOut
  <1>12. CASE PowerStep
    BY <1>t, <1>12 DEF PowerStep, Suspend, BusStop, BusStart, RxPrepare,
       Somewhere, Apart, Hands, DataKept, FreeOut
  <1>13. CASE UNCHANGED vars
    BY <1>t, <1>13 DEF vars, Somewhere, Apart, Hands, DataKept, FreeOut
  <1> QED
    BY <1>1, <1>2, <1>3, <1>4, <1>5, <1>6, <1>7, <1>8, <1>9, <1>10, <1>11, <1>12, <1>13
       DEF Next, CompleteStep, HandlerStep, SubmitStep

\* In a state of the invariant a buffer has one place.
LEMMA OnePlace ==
    ASSUME BufInv, NEW b \in Bufs
    PROVE  \E p : Places(b) = {p}
  <1> USE BufsAssumption DEF BufInv, Held, Somewhere, Apart, Contexts, Places
  <1>1. CASE b \in free
    <2>1. Places(b) = {"free"}
      BY <1>1
    <2> QED
      BY <2>1
  <1>2. CASE b \in flight
    <2>1. Places(b) = {"flight"}
      BY <1>2
    <2> QED
      BY <2>1
  <1>3. CASE b \in lost
    <2>1. Places(b) = {"lost"}
      BY <1>3
    <2> QED
      BY <2>1
  <1>4. CASE b = cbuf
    <2>1. Places(b) = {"handler"}
      BY <1>4
    <2> QED
      BY <2>1
  <1>5. CASE b = sbuf["irq"]
    <2>1. Places(b) = {"irq"}
      BY <1>5
    <2> QED
      BY <2>1
  <1>6. CASE b = sbuf["pm"]
    <2>1. Places(b) = {"pm"}
      BY <1>6
    <2> QED
      BY <2>1
  <1> QED
    BY <1>1, <1>2, <1>3, <1>4, <1>5, <1>6

\* Every receive buffer is in exactly one place whatever the completions, the
\* failing submissions and the two submit loops of aicwf_usb_rx_submit_all_urb do,
\* the data pipe loses none, and when nothing goes on URBs are out, for any number
\* of buffers and frames.
THEOREM BuffersTheorem == Spec => []BuffersSound
  <1>1. BufInv /\ [Next]_vars => BufInv'
    BY NextTypeOK, NextBufPart DEF BufInv, BufPart
  <1>2. BufInv => BuffersSound
    <2> SUFFICES ASSUME BufInv PROVE BuffersSound
      OBVIOUS
    <2>1. \A b \in Bufs : Cardinality(Places(b)) = 1
      BY OnePlace, FS_Singleton
    <2>2. NoBufLost
      BY <2>1 DEF NoBufLost, BufInv, DataKept
    <2>3. NotStarved
      <3> SUFFICES ASSUME "submit" \notin faults, lost # Bufs, usb = "UP", ppc = "up",
                          cpc = "idle", \A c \in Contexts : spc[c] = "idle"
                   PROVE  flight # {}
        BY DEF NotStarved
      <3>1. free = {}
        BY DEF BufInv, FreeOut
      <3>2. cbuf = NoBuf /\ sbuf["irq"] = NoBuf /\ sbuf["pm"] = NoBuf
        BY DEF BufInv, Hands, Contexts
      <3>3. \A b \in Bufs : b \in flight \cup lost
        BY <3>1, <3>2, BufsAssumption DEF BufInv, Somewhere, Held
      <3>4. lost \subseteq Bufs
        BY DEF BufInv, TypeOK
      <3> QED
        BY <3>3, <3>4
    <2> QED
      BY <2>2, <2>3 DEF BufInv, BuffersSound
  <1> QED
    BY <1>1, <1>2, InitBufInv, PTL DEF Spec

=============================================================================
