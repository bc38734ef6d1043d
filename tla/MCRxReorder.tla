----------------------------- MODULE MCRxReorder -----------------------------
(* Two instances of RxReorder in one run: "window", with a pool that       *)
(* suffices and room for two wraps, and "teardown", with a small pool, a   *)
(* device that goes down and a station that leaves.                        *)
EXTENDS RxReorder

CONSTANTS TearHalf, TearReach, TearPool, TearMaxN

VARIABLE which    \* the instance this behaviour follows

Tear == INSTANCE RxReorder WITH Half <- TearHalf, Reach <- TearReach, Pool <- TearPool,
                                MaxN <- TearMaxN, MayDeinit <- TRUE, MaySuspend <- TRUE

WindowInit == which = "window" /\ Init
TearInit   == which = "teardown" /\ Tear!Init

MCNext ==
    \/ which = "window" /\ Next /\ UNCHANGED which
    \/ which = "teardown" /\ Tear!Next /\ UNCHANGED which

InWindow(A) == which = "window" /\ A /\ UNCHANGED which

\* The receive thread, the timer and the workqueue run when they can (FairSpec).
MCSpec ==
    /\ WindowInit \/ TearInit
    /\ [][MCNext]_<<vars, which>>
    /\ WF_vars(InWindow(ReceiveStep)) /\ WF_vars(InWindow(TimerFires \/ Handler))
    /\ WF_vars(InWindow(WorkStarts \/ Worker))

\* The buffer of the "window" instance in the transmitter's numbers; the other one,
\* where a control may be freed and its numbers start again, maps to the first state.
Mapped == INSTANCE ReorderWindow WITH
    next <- IF which = "window" /\ enable /\ ind_sn # NoSn THEN base ELSE -1,
    held <- IF which = "window" THEN Range(list) ELSE {},
    passed <- IF which = "window" THEN passed ELSE -1

\* RxReorder!Promise of the "window" instance: reord_process_unit, the worker and
\* reord_flush_tid implement ReorderWindow.
Promise_w == Mapped!Spec

\* RxReorder!HeldIsReleased of the "window" instance: every held frame is released in
\* the end, by the receive thread, the worker or the end of the session.
Released_w == \A n \in 0 .. MaxN : []<>(which = "window" => n \notin Range(list))

\* RxReorder!HeldSound of both: no frame is left without somebody to release it, none
\* is lost or returned twice (reord_process_unit, reord_deinit_sta).
HeldSound_wt == IF which = "window" THEN HeldSound ELSE Tear!HeldSound
=============================================================================
