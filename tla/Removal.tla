------------------------------- MODULE Removal -------------------------------
(***************************************************************************
 Three contexts may want to tear the driver down or know that somebody does:
 the completion handler of a receive URB that fails (interrupt context), the
 disconnect callback of the USB core, and the module's exit, which ends by
 disconnecting what is still bound.  They agree through aicwf_deinit_sem, a
 counter that says whether it is free (aicwf_deinit_atomic), and the flags
 wait_disconnect_cb and enabled of g_rwnx_plat.  The handler takes the
 semaphore for the disconnect that it expects, and disconnect releases it
 then; suspend goes through the same aicwf_usb_bus_stop.

 A behaviour stops when the agreement has broken down:
   "overlap" exit got the semaphore that disconnect released for the handler
             before its own tear-down ("early") and starts a second one,
   "gaveup"  exit did not get the semaphore in time and goes on without it,
   "crossed" the handler found the semaphore free before somebody else took it,
             and now waits in interrupt context while disconnect waits for it; or
             disconnect, suspend or exit used a flag that it had not decided on yet,
   "robbed"  disconnect found that no handler expects it, and the handler took the
             semaphore before disconnect did, for this very disconnect: only the bus
             stop behind its down() would give it back,
   "stale"   disconnect waited behind exit, which set the counter to 1 when it was done:
             disconnect takes the semaphore and a handler takes it to be free,
   "slept"   the handler took it around a suspend: suspend gave it back and
             disconnect will again, or neither does since the bus is down.
 ***************************************************************************)
EXTENDS Naturals, FiniteSets

VARIABLES sem, deinit_atomic, wait_cb, enabled,
          usb_state,    \* usbdev->state
          bound_to,     \* the interface has its driver
          urbs,         \* receive URBs are with the controller
          cb,           \* the completion handler
          disc, disc_holds,
          exit,
          tearing,      \* the contexts inside rwnx_platform_deinit
          rem_upset

remVars == <<sem, deinit_atomic, wait_cb, enabled, usb_state, bound_to, urbs, cb, disc, disc_holds, exit, tearing, rem_upset>>

RemInit ==
    /\ sem = 1 /\ deinit_atomic = 1 /\ wait_cb = FALSE /\ enabled = FALSE
    /\ usb_state = "down" /\ bound_to = FALSE /\ urbs = FALSE
    /\ cb = "idle" /\ disc = "idle" /\ disc_holds = FALSE /\ exit = "idle" /\ tearing = {} /\ rem_upset = {}

\* aicwf_usb_probe has succeeded (Bringup): a new rwnx_plat, enabled.
Probed ==
    /\ ~bound_to /\ disc = "idle" /\ exit = "idle" /\ cb = "idle"
    /\ bound_to' = TRUE /\ enabled' = TRUE /\ wait_cb' = FALSE /\ usb_state' = "up" /\ urbs' = TRUE
    /\ rem_upset' = {}
    /\ UNCHANGED <<sem, deinit_atomic, cb, disc, disc_holds, exit, tearing>>

-----------------------------------------------------------------------------
\* aicwf_usb_rx_complete and aicwf_usb_msg_rx_complete, for a URB that failed.

CbSees ==
    /\ cb = "idle" /\ urbs /\ ~wait_cb
    /\ wait_cb' = TRUE /\ cb' = "read"
    /\ UNCHANGED <<sem, deinit_atomic, enabled, usb_state, bound_to, urbs, disc, disc_holds, exit, tearing, rem_upset>>
CbReads ==
    /\ cb = "read"
    /\ IF deinit_atomic > 0 THEN cb' = "set" /\ UNCHANGED wait_cb ELSE cb' = "idle" /\ wait_cb' = FALSE
    /\ UNCHANGED <<sem, deinit_atomic, enabled, usb_state, bound_to, urbs, disc, disc_holds, exit, tearing, rem_upset>>
CbSets ==
    /\ cb = "set" /\ deinit_atomic' = 0 /\ cb' = "take"
    /\ UNCHANGED <<sem, wait_cb, enabled, usb_state, bound_to, urbs, disc, disc_holds, exit, tearing, rem_upset>>
CbTakes ==
    /\ cb = "take" /\ sem > 0 /\ sem' = sem - 1 /\ cb' = "idle"
    /\ IF disc \in {"set", "down"} THEN rem_upset' = {"robbed"} ELSE UNCHANGED rem_upset
    /\ UNCHANGED <<deinit_atomic, wait_cb, enabled, usb_state, bound_to, urbs, disc, disc_holds, exit, tearing>>

\* Somebody else takes what the handler is about to take.
CbWants == cb \in {"set", "take"}
Crossed == IF CbWants THEN rem_upset' = {"crossed"} ELSE UNCHANGED rem_upset

-----------------------------------------------------------------------------
\* aicwf_usb_disconnect; it also runs inside usb_deregister.

DiscNever == FALSE
DiscNeeds == ~wait_cb
DiscBegins ==
    /\ disc = "idle" /\ bound_to /\ exit \in {"idle", "wait", "down", "check", "deinit", "up", "deregister"}
    /\ disc' = IF DiscNeeds THEN "set" ELSE "stop"
    /\ IF wait_cb /\ cb # "idle" THEN rem_upset' = {"crossed"} ELSE UNCHANGED rem_upset
    /\ UNCHANGED <<sem, deinit_atomic, wait_cb, enabled, usb_state, bound_to, urbs, cb, disc_holds, exit, tearing>>
DiscSets ==
    /\ disc = "set" /\ deinit_atomic' = 0 /\ disc' = "down"
    /\ UNCHANGED <<sem, wait_cb, enabled, usb_state, bound_to, urbs, cb, disc_holds, exit, tearing, rem_upset>>
DiscTakes ==
    /\ disc = "down" /\ sem > 0
    /\ sem' = sem - 1 /\ disc_holds' = TRUE /\ disc' = "stop"
    /\ rem_upset' = IF CbWants THEN {"crossed"} ELSE IF deinit_atomic = 1 THEN {"stale"} ELSE rem_upset
    /\ UNCHANGED <<deinit_atomic, wait_cb, enabled, usb_state, bound_to, urbs, cb, exit, tearing>>

\* aicwf_usb_bus_stop: what the handler took is given back.
aicwf_usb_bus_stop(event) ==
    IF usb_state # "down" /\ wait_cb
    THEN deinit_atomic' = 1 /\ sem' = sem + 1 /\ rem_upset' = IF cb = "idle" THEN {event} ELSE {"crossed"}
    ELSE /\ UNCHANGED <<deinit_atomic, sem>>
         /\ rem_upset' = IF wait_cb /\ ~disc_holds THEN {"slept"} ELSE rem_upset
DiscStops ==
    /\ disc = "stop" /\ aicwf_usb_bus_stop("early") /\ usb_state' = "down" /\ disc' = "kill"
    /\ UNCHANGED <<wait_cb, enabled, bound_to, urbs, cb, disc_holds, exit, tearing>>
\* aicwf_usb_cancel_all_urbs returns when no completion handler runs any more.
DiscKills ==
    /\ disc = "kill" /\ cb = "idle" /\ urbs' = FALSE /\ disc' = "check"
    /\ UNCHANGED <<sem, deinit_atomic, wait_cb, enabled, usb_state, bound_to, cb, disc_holds, exit, tearing, rem_upset>>
DiscChecks ==
    /\ disc = "check"
    /\ IF enabled THEN disc' = "deinit" /\ tearing' = tearing \cup {"disc"} ELSE disc' = "free" /\ UNCHANGED tearing
    /\ UNCHANGED <<sem, deinit_atomic, wait_cb, enabled, usb_state, bound_to, urbs, cb, disc_holds, exit, rem_upset>>
\* rwnx_cfg80211_deinit ends with rwnx_platform_off.
DiscDeinit ==
    /\ disc = "deinit" /\ enabled' = FALSE /\ tearing' = tearing \ {"disc"} /\ disc' = "free"
    /\ UNCHANGED <<sem, deinit_atomic, wait_cb, usb_state, bound_to, urbs, cb, disc_holds, exit, rem_upset>>
KeepSem == UNCHANGED sem
DiscGives == sem' = IF disc_holds THEN sem + 1 ELSE sem
DiscFrees ==
    /\ disc = "free" /\ DiscGives /\ deinit_atomic' = 1 /\ disc_holds' = FALSE
    /\ bound_to' = FALSE /\ disc' = "idle"
    /\ UNCHANGED <<wait_cb, enabled, usb_state, urbs, cb, exit, tearing, rem_upset>>

-----------------------------------------------------------------------------
\* aicwf_usb_suspend and aicwf_usb_resume: the USB core does not suspend an
\* interface that it disconnects.

Suspend ==
    /\ bound_to /\ disc = "idle" /\ usb_state = "up" /\ exit = "idle"
    /\ aicwf_usb_bus_stop("slept") /\ usb_state' = "down"
    /\ UNCHANGED <<wait_cb, enabled, bound_to, urbs, cb, disc, disc_holds, exit, tearing>>
Resume ==
    /\ bound_to /\ disc = "idle" /\ usb_state = "down"
    /\ usb_state' = "up" /\ urbs' = TRUE
    /\ UNCHANGED <<sem, deinit_atomic, wait_cb, enabled, bound_to, cb, disc, disc_holds, exit, tearing, rem_upset>>

-----------------------------------------------------------------------------
\* aicwf_usb_exit.

ExitBegins ==
    /\ exit = "idle" /\ exit' = "wait"
    /\ UNCHANGED <<sem, deinit_atomic, wait_cb, enabled, usb_state, bound_to, urbs, cb, disc, disc_holds, tearing, rem_upset>>
\* It waits for the counter, at most five times 500 ms, and sets it to 0.
ExitWaits ==
    /\ exit = "wait" /\ deinit_atomic' = 0 /\ exit' = "down" /\ Crossed
    /\ UNCHANGED <<sem, wait_cb, enabled, usb_state, bound_to, urbs, cb, disc, disc_holds, tearing>>
ExitTakes ==
    /\ exit = "down" /\ sem > 0 /\ sem' = sem - 1 /\ exit' = "check"
    /\ rem_upset' = CASE CbWants -> {"crossed"}
                      [] ~CbWants /\ "early" \in rem_upset /\ disc # "idle" -> {"overlap"}
                      [] OTHER -> rem_upset
    /\ UNCHANGED <<deinit_atomic, wait_cb, enabled, usb_state, bound_to, urbs, cb, disc, disc_holds, tearing>>
\* down_timeout gives up; its result is not used.
ExitGivesUp ==
    /\ exit = "down" /\ sem = 0 /\ exit' = "check" /\ rem_upset' = {"gaveup"}
    /\ UNCHANGED <<sem, deinit_atomic, wait_cb, enabled, usb_state, bound_to, urbs, cb, disc, disc_holds, tearing>>
ExitChecks ==
    /\ exit = "check" /\ wait_cb' = FALSE
    /\ IF enabled THEN exit' = "deinit" /\ tearing' = tearing \cup {"exit"} ELSE exit' = "up" /\ UNCHANGED tearing
    /\ IF cb # "idle" THEN rem_upset' = {"crossed"} ELSE UNCHANGED rem_upset
    /\ UNCHANGED <<sem, deinit_atomic, enabled, usb_state, bound_to, urbs, cb, disc, disc_holds>>
ExitDeinit ==
    /\ exit = "deinit" /\ enabled' = FALSE /\ tearing' = tearing \ {"exit"} /\ exit' = "up"
    /\ UNCHANGED <<sem, deinit_atomic, wait_cb, usb_state, bound_to, urbs, cb, disc, disc_holds, rem_upset>>
ExitGives ==
    /\ exit = "up" /\ sem' = sem + 1 /\ deinit_atomic' = 1 /\ exit' = "deregister"
    /\ UNCHANGED <<wait_cb, enabled, usb_state, bound_to, urbs, cb, disc, disc_holds, tearing, rem_upset>>
\* usb_deregister returns when the interface has been disconnected.
ExitEnds ==
    /\ exit = "deregister" /\ ~bound_to /\ disc = "idle" /\ exit' = "gone"
    /\ UNCHANGED <<sem, deinit_atomic, wait_cb, enabled, usb_state, bound_to, urbs, cb, disc, disc_holds, tearing, rem_upset>>

CbSteps == CbSees \/ CbReads \/ CbSets \/ CbTakes
DiscSteps == DiscSets \/ DiscTakes \/ DiscStops \/ DiscKills \/ DiscChecks \/ DiscDeinit \/ DiscFrees
ExitSteps == ExitWaits \/ ExitTakes \/ ExitGivesUp \/ ExitChecks \/ ExitDeinit \/ ExitGives \/ ExitEnds
RemNext ==
    /\ rem_upset \subseteq {"early"}
    /\ Probed \/ CbSteps \/ DiscBegins \/ DiscSteps \/ Suspend \/ Resume \/ ExitBegins \/ ExitSteps

RemSpec == RemInit /\ [][RemNext]_remVars

-----------------------------------------------------------------------------
\* rwnx_platform_deinit is entered by one context at a time, so the interfaces,
\* the wiphy and the caches are freed once (aicwf_bus_deinit, aicwf_usb_exit).
DeinitOnce == rem_upset \subseteq {"early"} => Cardinality(tearing) <= 1

\* The semaphore never counts above one, and is free, with its counter saying
\* so, whenever nobody is at work and no failed URB has taken it for a disconnect
\* to come (aicwf_usb_disconnect, aicwf_usb_exit).
SemRestored ==
    rem_upset \subseteq {"early"} =>
    /\ sem <= 1
    /\ (cb = "idle" /\ disc = "idle" /\ exit \in {"idle", "deregister", "gone"}) =>
          (sem = 1) = (deinit_atomic = 1) /\ (sem = 0 => wait_cb)

\* Nobody waits for ever: a context waits for the semaphore only while another
\* one holds it that will give it back without waiting for the first.
NoneStuck ==
    rem_upset \subseteq {"early"} =>
        /\ ~(cb = "take" /\ sem = 0 /\ disc = "kill")
        /\ (disc = "down" /\ sem = 0) => exit \in {"check", "deinit", "up"}

\* All three (aicwf_usb_disconnect, aicwf_usb_exit, aicwf_usb_rx_complete).
RemovalSound == DeinitOnce /\ SemRestored /\ NoneStuck
=============================================================================
