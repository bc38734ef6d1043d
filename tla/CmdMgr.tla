------------------------------- MODULE CmdMgr -------------------------------
(***************************************************************************)
(* The command manager of the fdrv driver: the pool of command descriptors *)
(* (cmd_array), rwnx_send_msg/rwnx_send_msg1, cmd_mgr_queue and            *)
(* cmd_mgr_queue_force_defer, the single-threaded work cmd_mgr_task_process*)
(* that pushes deferred commands, the confirmation handler cmd_mgr_msgind, *)
(* and cmd_mgr_drain/rwnx_cmd_mgr_deinit.                                  *)
(*                                                                         *)
(* A section of the code that runs under cmd_mgr->lock (or cmd_array_lock) *)
(* is one action; what the code does between two such sections is an       *)
(* action of its own, so that every thread interleaves where it really     *)
(* can.  A push to the bus either reaches the firmware or is lost:         *)
(* aicwf_set_cmd_tx ignores every failure of the transfer.                 *)
(***************************************************************************)
EXTENDS Integers, Sequences, FiniteSets, SequencesExt

CONSTANTS
    Callers,    \* kernel threads that call rwnx_send_msg
    PoolSize,   \* RWNX_CMD_ARRAY_SIZE
    MaxQueued,  \* RWNX_CMD_MAX_QUEUED
    ReqIds,     \* confirmation identifiers
    Kinds,      \* the kinds of send the callers may make, a subset of AllKinds
    MaxSends,   \* bound: sends made in a behaviour
    MayKill,    \* a waiting caller may be hit by a fatal signal
    MayStop,    \* the bus may go down and come back (suspend, resume)
    MayDeinit,  \* the bus may be deinitialised (disconnect)
    NoOne       \* "no caller's buffer": a NULL e2a_msg

\* "data":    reqcfm = 1 and the caller passes a buffer for the confirmation
\* "plain":   reqcfm = 1, no buffer
\* "traffic": reqcfm = 1, no buffer, ME_TRAFFIC_IND_REQ or MM_SET_ARPOFFLOAD_REQ
\* "defer":   rwnx_send_msg1(..., defer = true)
\* "nocfm":   reqcfm = 0
AllKinds == {"data", "plain", "traffic", "defer", "nocfm"}

ASSUME PoolAssumption == PoolSize \in Nat \ {0}
ASSUME QueuedAssumption == MaxQueued \in Nat \ {0}
ASSUME KindsAssumption == Kinds \subseteq AllKinds
ASSUME SendsAssumption == MaxSends \in Nat
ASSUME SwitchAssumption ==
    MayKill \in BOOLEAN /\ MayStop \in BOOLEAN /\ MayDeinit \in BOOLEAN
ASSUME NoOneAssumption == NoOne \notin Callers

Slots == 0 .. PoolSize - 1

Flags == {"REQ_CFM", "WAIT_PUSH", "WAIT_CFM", "DONE"}

VARIABLES
    state,      \* cmd_mgr->state
    cmds,       \* cmd_mgr->cmds, a list of slots
    queue_sz,   \* cmd_mgr->queue_sz
    next_tkn,   \* cmd_mgr->next_tkn
    ws_tx,      \* the TX wake lock is held
    drained,    \* cmd_mgr_drain has run
    used,       \* the slots s with cmd_array[s].used
    flags,      \* cmd_array[s].flags
    reqid,      \* cmd_array[s].reqid
    e2a_msg,    \* cmd_array[s].e2a_msg: the caller whose buffer it is, or NoOne
    tkn,        \* cmd_array[s].tkn
    complete,   \* the slots s whose completion has been signalled
    pc,         \* where each caller is in rwnx_send_msg
    kind,       \* what each caller is sending
    cmd,        \* the caller's local variable cmd
    buf,        \* the caller's confirmation buffer: the token answered, or -1
    work,       \* cmdWork is pending on the workqueue
    wpc,        \* where cmd_mgr_task_process is
    next,       \* its local variable next
    wflags,     \* the flags it has loaded and will store back
    usb,        \* usbdev->state
    fw,         \* requests the firmware has received and not yet confirmed
    sends       \* sends made so far (bound)

mgrVars  == <<state, cmds, queue_sz, next_tkn, ws_tx, drained>>
slotVars == <<used, flags, reqid, e2a_msg, tkn, complete>>
callVars == <<pc, kind, cmd, buf>>
workVars == <<work, wpc, next, wflags>>
envVars  == <<usb, fw, sends>>
vars     == <<mgrVars, slotVars, callVars, workVars, envVars>>

WaitFlags == {"WAIT_PUSH", "WAIT_CFM"}

Listed == {cmds[i] : i \in 1 .. Len(cmds)}

PC == {"idle", "queue", "wake", "push", "wait", "remove", "free", "next",
       "fail", "oops"}

WPC == {"idle", "look", "clear", "push", "wait", "remove", "free", "oops"}

TypeOK ==
    /\ state \in {"INITED", "CRASHED", "DEINIT"}
    /\ cmds \in Seq(Slots)
    /\ queue_sz \in Nat
    /\ next_tkn \in Nat
    /\ ws_tx \in BOOLEAN
    /\ drained \in BOOLEAN
    /\ used \in SUBSET Slots
    /\ flags \in [Slots -> SUBSET Flags]
    /\ reqid \in [Slots -> ReqIds \cup {NoOne}]
    /\ e2a_msg \in [Slots -> Callers \cup {NoOne}]
    /\ tkn \in [Slots -> Nat]
    /\ complete \in SUBSET Slots
    /\ pc \in [Callers -> PC]
    /\ kind \in [Callers -> AllKinds]
    /\ cmd \in [Callers -> Slots]
    /\ buf \in [Callers -> Int]
    /\ work \in BOOLEAN
    /\ wpc \in WPC
    /\ next \in Slots
    /\ wflags \in SUBSET Flags
    /\ usb \in {"UP", "DOWN"}
    /\ fw \in SUBSET [id : ReqIds \cup {NoOne}, tkn : Nat]
    /\ sends \in 0 .. MaxSends

\* rwnx_init_cmd_array, rwnx_cmd_mgr_init and a bus that is up.
Init ==
    /\ state = "INITED" /\ cmds = <<>> /\ queue_sz = 0 /\ next_tkn = 0
    /\ ws_tx = FALSE /\ drained = FALSE
    /\ used = {}
    /\ flags = [s \in Slots |-> {}]
    /\ reqid = [s \in Slots |-> NoOne]
    /\ e2a_msg = [s \in Slots |-> NoOne]
    /\ tkn = [s \in Slots |-> 0]
    /\ complete = {}
    /\ pc = [t \in Callers |-> "idle"]
    /\ kind = [t \in Callers |-> "plain"]
    /\ cmd = [t \in Callers |-> 0]
    /\ buf = [t \in Callers |-> -1]
    /\ work = FALSE /\ wpc = "idle" /\ next = 0 /\ wflags = {}
    /\ usb = "UP" /\ fw = {} /\ sends = 0

-----------------------------------------------------------------------------
(* rwnx_send_msg and rwnx_send_msg1 up to the call of cmd_mgr->queue       *)

\* rwnx_cmd_malloc: the first free descriptor.
FirstFree(s) == s \notin used /\ \A r \in Slots : r < s => r \in used

Send(t) ==
    /\ pc[t] = "idle" /\ sends < MaxSends /\ usb # "DOWN"
    /\ \E s \in Slots, k \in Kinds, r \in ReqIds :
         /\ FirstFree(s)
         /\ used' = used \cup {s}
         /\ reqid' = [reqid EXCEPT ![s] = IF k = "nocfm" THEN NoOne ELSE r]
         /\ e2a_msg' = [e2a_msg EXCEPT ![s] = IF k = "data" THEN t ELSE NoOne]
         /\ flags' = [flags EXCEPT
                        ![s] = IF k = "nocfm" THEN @ ELSE @ \cup {"REQ_CFM"}]
         /\ cmd' = [cmd EXCEPT ![t] = s]
         /\ kind' = [kind EXCEPT ![t] = k]
         /\ pc' = [pc EXCEPT ![t] = IF k = "nocfm" THEN "push" ELSE "queue"]
    /\ sends' = sends + 1
    /\ UNCHANGED <<mgrVars, tkn, complete, buf, workVars, usb, fw>>

\* The pool is exhausted: rwnx_cmd_malloc returns NULL, which is dereferenced.
SendNoCmd(t) ==
    /\ pc[t] = "idle" /\ sends < MaxSends /\ usb # "DOWN"
    /\ Slots \subseteq used
    /\ pc' = [pc EXCEPT ![t] = "oops"]
    /\ sends' = sends + 1
    /\ UNCHANGED <<mgrVars, slotVars, kind, cmd, buf, workVars, usb, fw>>

-----------------------------------------------------------------------------
(* cmd_mgr_queue and cmd_mgr_queue_force_defer                             *)

\* Mutant: the caller with a buffer does not wait for the list to be empty.
MayQueueAlways(t) == TRUE

\* A caller with a buffer polls until the list is empty or the manager has
\* crashed; the lock it then holds is the one the rest of the call runs under.
MayQueue(t) == kind[t] # "data" \/ cmds = <<>> \/ state = "CRASHED"

\* A caller with a buffer that the crash takes out of the poll has not taken the lock,
\* and yet unlocks it: here it just returns, and the lock is taken to exclude others
\* afterwards as before.
QueueCrashed(t) ==
    /\ pc[t] = "queue" /\ MayQueue(t)
    /\ state = "CRASHED"
    /\ pc' = [pc EXCEPT ![t] = "fail"]
    /\ UNCHANGED <<mgrVars, slotVars, kind, cmd, buf, workVars, envVars>>

QueueFull(t) ==
    /\ pc[t] = "queue" /\ MayQueue(t)
    /\ state = "INITED"
    /\ cmds # <<>> /\ queue_sz = MaxQueued
    /\ pc' = [pc EXCEPT ![t] = "fail"]
    /\ UNCHANGED <<mgrVars, slotVars, kind, cmd, buf, workVars, envVars>>

\* cmd_mgr_queue_force_defer, which rwnx_send_msg1 calls instead of
\* cmd_mgr_queue: the same steps, but the push is always left to the work, which
\* is always woken.
ForceDefer(t) == kind[t] = "defer"

\* Mutant: a command that waits for its confirmation does not hold the next back.
DeferPushUnpushed(t) ==
    \/ ForceDefer(t) \/ kind[t] = "traffic"
    \/ cmds # <<>> /\ "WAIT_PUSH" \in flags[cmds[Len(cmds)]]

\* The command must wait for its turn: the last one queued is not yet pushed
\* or not yet confirmed, or the message is of a kind that is always deferred.
DeferPush(t) ==
    \/ ForceDefer(t) \/ kind[t] = "traffic"
    \/ cmds # <<>> /\ flags[cmds[Len(cmds)]] \cap WaitFlags # {}

Enqueue(t) ==
    /\ pc[t] = "queue" /\ MayQueue(t)
    /\ state = "INITED"
    /\ cmds = <<>> \/ queue_sz # MaxQueued
    /\ flags' = [flags EXCEPT
                   ![cmd[t]] = @ \cup {"WAIT_CFM"}
                                 \cup (IF DeferPush(t) THEN {"WAIT_PUSH"} ELSE {})]
    /\ tkn' = [tkn EXCEPT ![cmd[t]] = next_tkn]
    /\ next_tkn' = next_tkn + 1
    /\ complete' = complete \ {cmd[t]}
    /\ cmds' = Append(cmds, cmd[t])
    /\ ws_tx' = IF queue_sz = 0 THEN TRUE ELSE ws_tx
    /\ queue_sz' = queue_sz + 1
    /\ pc' = [pc EXCEPT ![t] = IF DeferPush(t) THEN "wake" ELSE "push"]
    /\ UNCHANGED <<state, drained, used, reqid, e2a_msg, kind, cmd, buf, workVars,
                   envVars>>

\* The call returns: its locals are gone.
Leave(t) ==
    /\ pc' = [pc EXCEPT ![t] = "idle"]
    /\ kind' = [kind EXCEPT ![t] = "plain"]
    /\ cmd' = [cmd EXCEPT ![t] = 0]
    /\ buf' = [buf EXCEPT ![t] = -1]

\* After the unlock a deferring caller wakes the work (only if it reads a
\* queue_sz of at most one, except in force_defer) and returns 0.
Wake(t) ==
    /\ pc[t] = "wake" /\ state # "DEINIT"
    /\ work' = IF ForceDefer(t) \/ queue_sz <= 1 THEN TRUE ELSE work
    /\ Leave(t)
    /\ UNCHANGED <<mgrVars, slotVars, wpc, next, wflags, envVars>>

\* aicwf_set_cmd_tx: dropped when the bus is down; a failed transfer is
\* not reported.  Only a request that asks for a confirmation gets one.
Transmit(s) ==
    \/ /\ usb = "UP"
       /\ fw' = fw \cup {[id |-> reqid[s], tkn |-> tkn[s]]}
    \/ fw' = fw

Push(t) ==
    /\ pc[t] = "push" /\ kind[t] # "nocfm"
    /\ Transmit(cmd[t])
    /\ pc' = [pc EXCEPT ![t] = "wait"]
    /\ UNCHANGED <<mgrVars, slotVars, kind, cmd, buf, workVars, usb, sends>>

PushNoCfm(t) ==
    /\ pc[t] = "push" /\ kind[t] = "nocfm"
    /\ pc' = [pc EXCEPT ![t] = "fail"]
    /\ UNCHANGED <<mgrVars, slotVars, kind, cmd, buf, workVars, envVars>>

\* wait_for_completion_killable_timeout returns non-zero: the completion was
\* signalled, or the thread is being killed, which the code does not tell apart.
Completed(t) ==
    /\ pc[t] = "wait"
    /\ cmd[t] \in complete \/ MayKill
    /\ complete' = complete \ {cmd[t]}
    /\ pc' = [pc EXCEPT ![t] = "remove"]
    /\ UNCHANGED <<mgrVars, used, flags, reqid, e2a_msg, tkn, kind, cmd, buf,
                   workVars, envVars>>

\* The wait returns zero.  A confirmation may come in before the lock is taken,
\* so the step is possible whatever the completion says by then.
CrashOn(s) ==
    /\ state' = "CRASHED"
    /\ flags' = [flags EXCEPT ![s] = @ \cup {"DONE"}]
    /\ complete' = IF flags[s] \cap {"DONE", "WAIT_CFM"} = {}
                   THEN complete \cup {s} ELSE complete

TimedOut(t) ==
    /\ pc[t] = "wait"
    /\ state # "DEINIT"
    /\ CrashOn(cmd[t])
    /\ pc' = [pc EXCEPT ![t] = "fail"]
    /\ UNCHANGED <<cmds, queue_sz, next_tkn, ws_tx, drained, used, reqid, e2a_msg, tkn,
                   kind, cmd, buf, workVars, envVars>>

\* Mutant: queue_sz is not decremented.
ListDelUncounted(s) ==
    \E i \in 1 .. Len(cmds) :
      /\ cmds[i] = s
      /\ cmds' = RemoveAt(cmds, i)
      /\ UNCHANGED <<queue_sz, ws_tx>>

\* list_del, queue_sz-- and the wake lock, under the lock.
ListDel(s) ==
    \E i \in 1 .. Len(cmds) :
      /\ cmds[i] = s
      /\ cmds' = RemoveAt(cmds, i)
      /\ queue_sz' = queue_sz - 1
      /\ ws_tx' = IF queue_sz = 1 THEN FALSE ELSE ws_tx

Unlink(t) ==
    /\ pc[t] = "remove"
    /\ ListDel(cmd[t])
    /\ pc' = [pc EXCEPT ![t] = "free"]
    /\ UNCHANGED <<state, next_tkn, drained, slotVars, kind, cmd, buf, workVars, envVars>>

\* list_del of an entry cmd_mgr_drain has already unlinked.
UnlinkAgain(t) ==
    /\ pc[t] = "remove"
    /\ cmd[t] \notin Listed
    /\ pc' = [pc EXCEPT ![t] = "oops"]
    /\ UNCHANGED <<mgrVars, slotVars, kind, cmd, buf, workVars, envVars>>

\* rwnx_cmd_free on the successful path ...
Free(t) ==
    /\ pc[t] = "free"
    /\ used' = used \ {cmd[t]}
    /\ pc' = [pc EXCEPT ![t] = "next"]
    /\ UNCHANGED <<mgrVars, flags, reqid, e2a_msg, tkn, complete, kind, cmd, buf,
                   workVars, envVars>>

\* Mutant: the look for a successor is left out.
WakeNextNever(t) ==
    /\ pc[t] = "next"
    /\ Leave(t)
    /\ UNCHANGED <<mgrVars, slotVars, workVars, envVars>>

\* ... then the look, without the lock, for a deferred successor.
WakeNext(t) ==
    /\ pc[t] = "next" /\ state # "DEINIT"
    /\ work' = IF cmds # <<>> /\ usb = "UP" THEN TRUE ELSE work
    /\ Leave(t)
    /\ UNCHANGED <<mgrVars, slotVars, wpc, next, wflags, envVars>>

\* Mutant: the descriptor is not given back when the queue was full.
FreeFailedLeak(t) ==
    /\ pc[t] = "fail"
    /\ Leave(t)
    /\ UNCHANGED <<mgrVars, slotVars, workVars, envVars>>

\* rwnx_send_msg frees the descriptor when queue failed or no confirmation
\* was asked for.
FreeFailed(t) ==
    /\ pc[t] = "fail"
    /\ used' = used \ {cmd[t]}
    /\ Leave(t)
    /\ UNCHANGED <<mgrVars, flags, reqid, e2a_msg, tkn, complete,
                   workVars, envVars>>

-----------------------------------------------------------------------------
(* cmd_mgr_task_process, on the single-threaded workqueue                  *)

WorkStart ==
    /\ wpc = "idle" /\ work
    /\ work' = FALSE
    /\ wpc' = "look"
    /\ UNCHANGED <<mgrVars, slotVars, callVars, next, wflags, envVars>>

\* Only the first command of the list is looked at.  Its flags are loaded
\* here and stored back by WorkClear, without the lock.
WorkLook ==
    /\ wpc = "look"
    /\ IF cmds # <<>> /\ "WAIT_PUSH" \in flags[cmds[1]]
       THEN /\ next' = cmds[1]
            /\ wflags' = flags[cmds[1]]
            /\ wpc' = "clear"
       ELSE /\ wpc' = "idle"
            /\ UNCHANGED <<next, wflags>>
    /\ UNCHANGED <<mgrVars, slotVars, callVars, work, envVars>>

WorkClear ==
    /\ wpc = "clear"
    /\ flags' = [flags EXCEPT ![next] = wflags \ {"WAIT_PUSH"}]
    /\ wpc' = "push"
    /\ UNCHANGED <<mgrVars, used, reqid, e2a_msg, tkn, complete, callVars,
                   work, next, wflags, envVars>>

WorkPush ==
    /\ wpc = "push"
    /\ Transmit(next)
    /\ wpc' = "wait"
    /\ UNCHANGED <<mgrVars, slotVars, callVars, work, next, wflags, usb, sends>>

WorkCompleted ==
    /\ wpc = "wait" /\ next \in complete
    /\ complete' = complete \ {next}
    /\ wpc' = "remove"
    /\ UNCHANGED <<mgrVars, used, flags, reqid, e2a_msg, tkn, callVars,
                   work, next, wflags, envVars>>

\* The command stays on the list and its descriptor stays allocated.
WorkTimedOut ==
    /\ wpc = "wait"
    /\ state # "DEINIT"
    /\ CrashOn(next)
    /\ wpc' = "look"
    /\ UNCHANGED <<cmds, queue_sz, next_tkn, ws_tx, drained, used, reqid, e2a_msg, tkn,
                   callVars, work, next, wflags, envVars>>

WorkUnlink ==
    /\ wpc = "remove"
    /\ ListDel(next)
    /\ wpc' = "free"
    /\ UNCHANGED <<state, next_tkn, drained, slotVars, callVars, work, next, wflags, envVars>>

WorkUnlinkAgain ==
    /\ wpc = "remove"
    /\ next \notin Listed
    /\ wpc' = "oops"
    /\ UNCHANGED <<mgrVars, slotVars, callVars, work, next, wflags, envVars>>

WorkFree ==
    /\ wpc = "free"
    /\ used' = used \ {next}
    /\ wpc' = "look"
    /\ UNCHANGED <<mgrVars, flags, reqid, e2a_msg, tkn, complete, callVars,
                   work, next, wflags, envVars>>

-----------------------------------------------------------------------------
(* cmd_mgr_msgind: a confirmation from the firmware                        *)

Matches(i, id) == reqid[cmds[i]] = id /\ "WAIT_CFM" \in flags[cmds[i]]

\* Mutant: cmd_complete counts the command out of the queue, which the caller
\* does again when it unlinks it.
ConfirmCounted(m) ==
    /\ m \in fw
    /\ fw' = fw \ {m}
    /\ \E i \in 1 .. Len(cmds) :
         /\ Matches(i, m.id)
         /\ flags' = [flags EXCEPT ![cmds[i]] = (@ \ {"WAIT_CFM"}) \cup {"DONE"}]
         /\ complete' = complete \cup {cmds[i]}
    /\ queue_sz' = queue_sz - 1
    /\ UNCHANGED <<state, cmds, next_tkn, ws_tx, drained, used, reqid, e2a_msg, tkn,
                   callVars, workVars, usb, sends>>

\* The first command waiting for this identifier takes the confirmation,
\* whether it has been pushed yet or not.
Confirm(m) ==
    /\ m \in fw
    /\ fw' = fw \ {m}
    /\ \E i \in 1 .. Len(cmds) :
         /\ Matches(i, m.id)
         /\ \A j \in 1 .. i - 1 : ~Matches(j, m.id)
         /\ flags' = [flags EXCEPT ![cmds[i]] = (@ \ {"WAIT_CFM"}) \cup {"DONE"}]
         /\ complete' = complete \cup {cmds[i]}
         /\ buf' = [t \in Callers |->
                      IF e2a_msg[cmds[i]] = t THEN m.tkn ELSE buf[t]]
    /\ UNCHANGED <<mgrVars, used, reqid, e2a_msg, tkn, pc, kind, cmd, workVars,
                   usb, sends>>

ConfirmUnmatched(m) ==
    /\ m \in fw
    /\ fw' = fw \ {m}
    /\ \A i \in 1 .. Len(cmds) : ~Matches(i, m.id)
    /\ UNCHANGED <<mgrVars, slotVars, callVars, workVars, usb, sends>>

-----------------------------------------------------------------------------
(* The bus: suspend/resume, and rwnx_cmd_mgr_deinit on disconnect          *)

BusDown ==
    /\ MayStop \/ MayDeinit
    /\ usb = "UP"
    /\ usb' = "DOWN"
    /\ UNCHANGED <<mgrVars, slotVars, callVars, workVars, fw, sends>>

BusUp ==
    /\ MayStop
    /\ usb = "DOWN" /\ state \in {"INITED", "CRASHED"}
    /\ usb' = "UP"
    /\ UNCHANGED <<mgrVars, slotVars, callVars, workVars, fw, sends>>

\* cmd_mgr_drain unlinks and completes everything, leaving queue_sz alone.
Drain ==
    /\ MayDeinit
    /\ usb = "DOWN" /\ ~drained
    /\ drained' = TRUE
    /\ cmds' = <<>>
    /\ complete' = complete \cup Listed
    /\ UNCHANGED <<state, queue_sz, next_tkn, ws_tx, used, flags, reqid, e2a_msg,
                   tkn, callVars, workVars, envVars>>

\* flush_workqueue, destroy_workqueue, memset; the manager is freed next.
Deinit ==
    /\ drained /\ state # "DEINIT"
    /\ wpc = "idle" /\ ~work
    /\ state' = "DEINIT"
    /\ cmds' = <<>> /\ queue_sz' = 0 /\ next_tkn' = 0
    /\ UNCHANGED <<ws_tx, drained, slotVars, callVars, workVars, envVars>>

\* A caller that was still inside cmd_mgr_queue touches the freed manager.
Gone(t) ==
    /\ state = "DEINIT"
    /\ pc[t] \in {"queue", "wake", "wait", "next"}
    /\ pc' = [pc EXCEPT ![t] = "oops"]
    /\ UNCHANGED <<mgrVars, slotVars, kind, cmd, buf, workVars, envVars>>

-----------------------------------------------------------------------------
CallerStep(t) ==
    \/ QueueCrashed(t) \/ QueueFull(t) \/ Enqueue(t) \/ Wake(t)
    \/ Push(t) \/ PushNoCfm(t) \/ Completed(t) \/ TimedOut(t)
    \/ Unlink(t) \/ UnlinkAgain(t) \/ Free(t) \/ WakeNext(t)
    \/ FreeFailed(t) \/ Gone(t)

WorkStep ==
    \/ WorkStart \/ WorkLook \/ WorkClear \/ WorkPush \/ WorkCompleted
    \/ WorkTimedOut \/ WorkUnlink \/ WorkUnlinkAgain \/ WorkFree

BusStep == BusDown \/ BusUp \/ Drain \/ Deinit

Next ==
    \/ \E t \in Callers : Send(t) \/ SendNoCmd(t) \/ CallerStep(t)
    \/ WorkStep
    \/ \E m \in fw : Confirm(m) \/ ConfirmUnmatched(m)
    \/ BusStep

Spec == Init /\ [][Next]_vars

\* Kernel threads and the workqueue are scheduled, and every wait for a
\* completion has a timeout.  Nothing is assumed of the firmware.
FairSpec ==
    /\ Spec
    /\ \A t \in Callers : WF_vars(CallerStep(t))
    /\ WF_vars(WorkStep)

-----------------------------------------------------------------------------
(* Properties                                                              *)

Up == state = "INITED" /\ ~drained

\* Who has to free a descriptor: a caller inside rwnx_send_msg that has not
\* handed it over to the work.
HeldBy(t, s) == cmd[t] = s /\ pc[t] \notin {"idle", "wake", "next", "oops"}

Deferred(s) == s \in Listed /\ "WAIT_PUSH" \in flags[s]

HeldByWork(s) == next = s /\ wpc \in {"clear", "push", "wait", "remove", "free"}

\* Until a timeout or a disconnect, every allocated descriptor has exactly one
\* party that will free it: the caller of rwnx_send_msg, the work that is
\* processing it, or the list entry whose push was deferred.  No path of
\* cmd_mgr_queue leaks a descriptor or frees one twice.
OneOwner ==
    Up => \A s \in used :
              /\ \/ \E t \in Callers : HeldBy(t, s)
                 \/ HeldByWork(s)
                 \/ Deferred(s)
              /\ \A t, u \in Callers : HeldBy(t, s) /\ HeldBy(u, s) => t = u
              /\ ~\E t \in Callers : HeldBy(t, s) /\ (HeldByWork(s) \/ Deferred(s))

\* A descriptor on the list is an allocated one, listed once, until a timeout
\* leaves a freed one behind; queue_sz counts the list until it is drained.
ListSound ==
    /\ ~drained => queue_sz = Len(cmds) /\ (queue_sz > 0 <=> ws_tx)
    /\ Up => /\ \A i, j \in 1 .. Len(cmds) : cmds[i] = cmds[j] => i = j
             /\ Listed \subseteq used

\* Behind a command that is not pushed or not confirmed nothing is pushed: queued
\* commands reach the firmware in the order in which they were queued and one at a
\* time, whoever pushes them (cmd_mgr_queue, cmd_mgr_task_process).
OneInFlight ==
    Up => \A i, j \in 1 .. Len(cmds) :
            i < j /\ flags[cmds[i]] \cap WaitFlags # {} => "WAIT_PUSH" \in flags[cmds[j]]

\* The callers inside aicwf_set_cmd_tx for a queued command.
Pushing == {t \in Callers : pc[t] = "push" /\ kind[t] # "nocfm"}

\* aicwf_set_cmd_tx formats into the one bus->cmd_buf without a lock: callers and
\* work never do so for two queued commands at once, as long as no wait is ended
\* by a fatal signal.
OnePusher ==
    Up => /\ \A t, u \in Pushing : t = u
          /\ wpc = "push" => Pushing = {}

\* cmd_mgr_msgind copies a confirmation only into the buffer of a caller that
\* is still inside cmd_mgr_queue for that very command.
CopyToLive ==
    Up => \A s \in Listed :
            /\ "WAIT_CFM" \in flags[s] /\ e2a_msg[s] # NoOne
            => cmd[e2a_msg[s]] = s /\ pc[e2a_msg[s]] \in {"push", "wait", "remove"}

\* A call that ends successfully has in its buffer the answer to its own
\* request, not the late answer to another one with the same identifier.
AnswerIsOwn ==
    Up => \A t \in Callers :
            /\ pc[t] \in {"remove", "free"} /\ kind[t] = "data"
            => buf[t] = tkn[cmd[t]]

\* Every call of rwnx_send_msg returns.
SendReturns == \A t \in Callers : (pc[t] # "idle") ~> (pc[t] = "idle")

\* A deferred command is pushed, unless the manager crashes first.
DeferredIsPushed ==
    \A s \in Slots : Deferred(s) ~> (~Deferred(s) \/ state = "CRASHED")

\* The descriptors of cmd_mgr_queue, cmd_mgr_task_process and cmd_mgr_msgind: their
\* types, the list with its count and its wake lock, and one owner for each.
DescriptorsSound == TypeOK /\ ListSound /\ OneOwner

\* One context at a time pushes into bus->cmd_buf, and a call that ends successfully
\* has its own answer (aicwf_set_cmd_tx, cmd_mgr_msgind).
AnswersSound == OnePusher /\ AnswerIsOwn
=============================================================================
