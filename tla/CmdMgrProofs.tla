---------------------------- MODULE CmdMgrProofs ----------------------------
(***************************************************************************)
(* Theorems about CmdMgr for any number of callers, any size of the pool   *)
(* and of the queue, with kills, timeouts, suspends and a disconnect.      *)
(*                                                                         *)
(* The safety properties follow from the inductive invariant IInv, which   *)
(* says where every descriptor is for each place a caller and the work can *)
(* be at, and that a listed command with a wait flag is followed only by   *)
(* commands that are not yet pushed.  What the answers need on top of it   *)
(* (AnsInv: at most one answer is owed, to a command somebody waits for)   *)
(* holds as long as no wait is ended by a fatal signal.                    *)
(***************************************************************************)
EXTENDS CmdMgr, SequenceTheorems, TLAPS

-----------------------------------------------------------------------------
(* The inductive invariant                                                 *)

\* The caller's command is on the list / is allocated and not on the list.
OnList(t)  == pc[t] \in {"wait", "remove"} \/ (pc[t] = "push" /\ kind[t] # "nocfm")
OffList(t) == pc[t] \in {"queue", "free", "fail"} \/ (pc[t] = "push" /\ kind[t] = "nocfm")

WorkBusy == wpc \in {"push", "wait", "remove"}

\* queue_sz never underflows; it is exact until the list is drained.
SizeInv ==
    /\ Len(cmds) <= queue_sz
    /\ ~drained => queue_sz = Len(cmds) /\ (ws_tx <=> queue_sz > 0)

NoDup == \A i, j \in 1 .. Len(cmds) : cmds[i] = cmds[j] => i = j

CallerInv ==
    \A t \in Callers :
      /\ OnList(t) => cmd[t] \in Listed /\ "WAIT_PUSH" \notin flags[cmd[t]]
      /\ OffList(t) => cmd[t] \notin Listed /\ cmd[t] \in used

\* No two callers share a descriptor.
CallersApart ==
    \A t, u \in Callers :
      (OnList(t) \/ OffList(t)) /\ (OnList(u) \/ OffList(u)) /\ cmd[t] = cmd[u] => t = u

WorkInv ==
    /\ wpc \in {"clear", "push", "wait", "remove"} => cmds # <<>> /\ next = cmds[1]
    /\ wpc = "clear" => "WAIT_PUSH" \in flags[next]
    /\ WorkBusy => "WAIT_PUSH" \notin flags[next]
    /\ wpc = "free" => next \notin Listed /\ next \in used
    /\ WorkBusy \/ wpc = "free" =>
         \A t \in Callers : OnList(t) \/ OffList(t) => cmd[t] # next

\* Every listed command is allocated and has somebody to remove it.
ListedInv ==
    \A s \in Listed :
      /\ s \in used
      /\ \/ "WAIT_PUSH" \in flags[s]
         \/ \E t \in Callers : OnList(t) /\ cmd[t] = s
         \/ WorkBusy /\ next = s

\* Every allocated descriptor is listed or held.
UsedInv ==
    \A s \in used :
      \/ s \in Listed
      \/ \E t \in Callers : OffList(t) /\ cmd[t] = s
      \/ wpc = "free" /\ next = s

\* flags is never reset when a descriptor is reused, but a descriptor leaves the
\* list only after its WAIT_PUSH has been cleared.
CleanInv ==
    /\ \A s \in Slots : s \notin Listed => "WAIT_PUSH" \notin flags[s]
    /\ \A t \in Callers : pc[t] = "queue" => kind[t] # "nocfm"

\* Behind a command that is not pushed or not confirmed, nothing is pushed.
OrderInv ==
    \A i, j \in 1 .. Len(cmds) :
      i < j /\ flags[cmds[i]] \cap WaitFlags # {} => "WAIT_PUSH" \in flags[cmds[j]]

\* A confirmation buffer belongs to a caller that waits for this command.
BufferInv ==
    /\ \A t \in Callers :
         pc[t] = "queue" => e2a_msg[cmd[t]] = (IF kind[t] = "data" THEN t ELSE NoOne)
    /\ \A s \in Listed : e2a_msg[s] # NoOne => OnList(e2a_msg[s]) /\ cmd[e2a_msg[s]] = s

UpInv ==
    /\ NoDup /\ CallerInv /\ CallersApart /\ WorkInv /\ ListedInv /\ UsedInv
    /\ CleanInv /\ OrderInv /\ BufferInv

IInv == TypeOK /\ SizeInv /\ (Up => UpInv)

-----------------------------------------------------------------------------
(* Helpers                                                                 *)

\* list_del at position i: one entry fewer, the later ones move up.
LEMMA RemoveAtFacts ==
    ASSUME NEW S, NEW q \in Seq(S), NEW i \in 1 .. Len(q)
    PROVE  /\ RemoveAt(q, i) \in Seq(S)
           /\ Len(RemoveAt(q, i)) = Len(q) - 1
           /\ \A j \in 1 .. Len(q) - 1 :
                RemoveAt(q, i)[j] = IF j < i THEN q[j] ELSE q[j + 1]
  <1> DEFINE a == SubSeq(q, 1, i - 1)
             b == SubSeq(q, i + 1, Len(q))
  <1>1. a \in Seq(S) /\ Len(a) = i - 1 /\ \A j \in 1 .. i - 1 : a[j] = q[j]
    OBVIOUS
  <1>2. b \in Seq(S) /\ Len(b) = Len(q) - i /\ \A j \in 1 .. Len(q) - i : b[j] = q[j + i]
    OBVIOUS
  <1>3. RemoveAt(q, i) = a \o b
    BY DEF RemoveAt
  <1> HIDE DEF a, b
  <1>4. /\ a \o b \in Seq(S)
        /\ Len(a \o b) = Len(a) + Len(b)
        /\ \A j \in 1 .. Len(a) + Len(b) :
             (a \o b)[j] = IF j <= Len(a) THEN a[j] ELSE b[j - Len(a)]
    BY <1>1, <1>2, ConcatProperties, Zenon
  <1>5. Len(q) \in Nat /\ Len(a) + Len(b) = Len(q) - 1
    BY <1>1, <1>2
  <1>6. ASSUME NEW j \in 1 .. Len(q) - 1
        PROVE (a \o b)[j] = IF j < i THEN q[j] ELSE q[j + 1]
    <2> DEFINE c == a \o b
    <2>1. c[j] = IF j <= i - 1 THEN a[j] ELSE b[j - (i - 1)]
      BY <1>1, <1>4, <1>5
    <2> HIDE DEF c
    <2>2. CASE j < i
      BY <1>1, <2>1, <2>2, <1>5
    <2>3. CASE ~(j < i)
      <3>1. j - (i - 1) \in 1 .. Len(q) - i /\ (j - (i - 1)) + i = j + 1
        BY <2>3, <1>5
      <3> QED
        BY <1>2, <2>1, <2>3, <3>1, <1>5
    <2> QED
      BY <2>2, <2>3 DEF c
  <1> QED
    BY <1>3, <1>4, <1>5, <1>6

LEMMA ZeroSlot == 0 \in Slots
  BY PoolAssumption DEF Slots
-----------------------------------------------------------------------------
(* Type correctness                                                        *)

LEMMA ListDelType ==
    ASSUME TypeOK, SizeInv, NEW s, ListDel(s)
    PROVE  /\ cmds' \in Seq(Slots) /\ queue_sz' \in Nat /\ ws_tx' \in BOOLEAN
           /\ Len(cmds') = Len(cmds) - 1 /\ queue_sz' = queue_sz - 1
  <1>1. PICK i \in 1 .. Len(cmds) : cmds' = RemoveAt(cmds, i)
    BY DEF ListDel
  <1>2. cmds \in Seq(Slots) /\ Len(cmds) \in Nat /\ queue_sz \in Nat /\ ws_tx \in BOOLEAN
    BY DEF TypeOK
  <1>3. cmds' \in Seq(Slots) /\ Len(cmds') = Len(cmds) - 1
    BY <1>1, <1>2, RemoveAtFacts
  <1>4. queue_sz' = queue_sz - 1 /\ ws_tx' = IF queue_sz = 1 THEN FALSE ELSE ws_tx
    BY DEF ListDel
  <1>5. queue_sz' \in Nat
    BY <1>1, <1>2, <1>4 DEF SizeInv
  <1>6. ws_tx' \in BOOLEAN
    BY <1>2, <1>4
  <1> QED
    BY <1>3, <1>4, <1>5, <1>6

LEMMA EnqueueType ==
    ASSUME TypeOK, NEW t \in Callers, Enqueue(t)
    PROVE  TypeOK'
  <1>1. cmds' \in Seq(Slots)
    BY DEF Enqueue, TypeOK
  <1>2. flags' \in [Slots -> SUBSET Flags]
    BY DEF Enqueue, TypeOK, Flags
  <1>3. pc' \in [Callers -> PC]
    <2>1. pc' = [pc EXCEPT ![t] = IF DeferPush(t) THEN "wake" ELSE "push"]
      BY DEF Enqueue
    <2>2. "wake" \in PC /\ "push" \in PC /\ pc \in [Callers -> PC]
      BY DEF PC, TypeOK
    <2> QED
      BY <2>1, <2>2
  <1>4. queue_sz' \in Nat /\ next_tkn' \in Nat
    BY DEF Enqueue, TypeOK
  <1>6. ws_tx' \in BOOLEAN
    BY DEF Enqueue, TypeOK
  <1>5. complete' \in SUBSET Slots /\ tkn' \in [Slots -> Nat]
    BY DEF Enqueue, TypeOK
  <1> QED
    BY <1>1, <1>2, <1>3, <1>4, <1>5, <1>6 DEF Enqueue, TypeOK, workVars, envVars

LEMMA LeaveType ==
    ASSUME TypeOK, NEW t \in Callers, Leave(t)
    PROVE  /\ pc' \in [Callers -> PC] /\ kind' \in [Callers -> AllKinds]
           /\ cmd' \in [Callers -> Slots] /\ buf' \in [Callers -> Int]
  BY ZeroSlot DEF Leave, TypeOK, PC, AllKinds

LEMMA TypeStep == TypeOK /\ SizeInv /\ [Next]_vars => TypeOK'
  <1> SUFFICES ASSUME TypeOK, SizeInv, [Next]_vars PROVE TypeOK'
    OBVIOUS
  <1> USE DEF mgrVars, slotVars, callVars, workVars, envVars
  <1>1. ASSUME NEW t \in Callers, Send(t) PROVE TypeOK'
    BY <1>1, KindsAssumption, SendsAssumption DEF Send, TypeOK, Flags, PC, AllKinds
  <1>2. ASSUME NEW t \in Callers, SendNoCmd(t) PROVE TypeOK'
    BY <1>2, SendsAssumption DEF SendNoCmd, TypeOK, PC
  <1>3. ASSUME NEW t \in Callers, QueueCrashed(t) PROVE TypeOK'
    BY <1>3 DEF QueueCrashed, TypeOK, PC
  <1>4. ASSUME NEW t \in Callers, QueueFull(t) PROVE TypeOK'
    BY <1>4 DEF QueueFull, TypeOK, PC
  <1>5. ASSUME NEW t \in Callers, Enqueue(t) PROVE TypeOK'
    BY <1>5, EnqueueType
  <1>6. ASSUME NEW t \in Callers, Wake(t) PROVE TypeOK'
    BY <1>6, LeaveType DEF Wake, TypeOK
  <1>7. ASSUME NEW t \in Callers, Push(t) PROVE TypeOK'
    BY <1>7 DEF Push, Transmit, TypeOK, PC
  <1>8. ASSUME NEW t \in Callers, PushNoCfm(t) PROVE TypeOK'
    BY <1>8 DEF PushNoCfm, TypeOK, PC
  <1>9. ASSUME NEW t \in Callers, Completed(t) PROVE TypeOK'
    BY <1>9 DEF Completed, TypeOK, PC
  <1>10. ASSUME NEW t \in Callers, TimedOut(t) PROVE TypeOK'
    BY <1>10 DEF TimedOut, CrashOn, TypeOK, PC, Flags
  <1>11. ASSUME NEW t \in Callers, Unlink(t) PROVE TypeOK'
    BY <1>11, ListDelType DEF Unlink, TypeOK, PC
  <1>12. ASSUME NEW t \in Callers, UnlinkAgain(t) PROVE TypeOK'
    BY <1>12 DEF UnlinkAgain, TypeOK, PC
  <1>13. ASSUME NEW t \in Callers, Free(t) PROVE TypeOK'
    BY <1>13 DEF Free, TypeOK, PC
  <1>14. ASSUME NEW t \in Callers, WakeNext(t) PROVE TypeOK'
    BY <1>14, LeaveType DEF WakeNext, TypeOK
  <1>15. ASSUME NEW t \in Callers, FreeFailed(t) PROVE TypeOK'
    BY <1>15, LeaveType DEF FreeFailed, TypeOK
  <1>16. ASSUME NEW t \in Callers, Gone(t) PROVE TypeOK'
    BY <1>16 DEF Gone, TypeOK, PC
  <1>17. CASE WorkStart
    BY <1>17 DEF WorkStart, TypeOK, WPC
  <1>18. CASE WorkLook
    BY <1>18 DEF WorkLook, TypeOK, WPC
  <1>19. CASE WorkClear
    BY <1>19 DEF WorkClear, TypeOK, WPC
  <1>20. CASE WorkPush
    BY <1>20 DEF WorkPush, Transmit, TypeOK, WPC
  <1>21. CASE WorkCompleted
    BY <1>21 DEF WorkCompleted, TypeOK, WPC
  <1>22. CASE WorkTimedOut
    BY <1>22 DEF WorkTimedOut, CrashOn, TypeOK, WPC, Flags
  <1>23. CASE WorkUnlink
    BY <1>23, ListDelType DEF WorkUnlink, TypeOK, WPC
  <1>24. CASE WorkUnlinkAgain
    BY <1>24 DEF WorkUnlinkAgain, TypeOK, WPC
  <1>25. CASE WorkFree
    BY <1>25 DEF WorkFree, TypeOK, WPC
  <1>26. ASSUME NEW m \in fw, Confirm(m) PROVE TypeOK'
    BY <1>26 DEF Confirm, TypeOK, Flags
  <1>27. ASSUME NEW m \in fw, ConfirmUnmatched(m) PROVE TypeOK'
    BY <1>27 DEF ConfirmUnmatched, TypeOK
  <1>28. CASE BusDown \/ BusUp
    BY <1>28 DEF BusDown, BusUp, TypeOK
  <1>29. CASE Drain
    BY <1>29 DEF Drain, Listed, TypeOK
  <1>30. CASE Deinit
    BY <1>30 DEF Deinit, TypeOK
  <1>31. CASE UNCHANGED vars
    BY <1>31 DEF vars, TypeOK
  <1> QED
    BY <1>1, <1>2, <1>3, <1>4, <1>5, <1>6, <1>7, <1>8, <1>9, <1>10, <1>11, <1>12,
       <1>13, <1>14, <1>15, <1>16, <1>17, <1>18, <1>19, <1>20, <1>21, <1>22, <1>23,
       <1>24, <1>25, <1>26, <1>27, <1>28, <1>29, <1>30, <1>31
    DEF Next, CallerStep, WorkStep, BusStep
-----------------------------------------------------------------------------
(* The queue's size                                                        *)

LEMMA SizeStep == TypeOK /\ SizeInv /\ [Next]_vars => SizeInv'
  <1> SUFFICES ASSUME TypeOK, SizeInv, [Next]_vars PROVE SizeInv'
    OBVIOUS
  <1>1. ASSUME NEW t \in Callers, Enqueue(t) PROVE SizeInv'
    BY <1>1 DEF Enqueue, SizeInv, TypeOK
  <1>2. ASSUME NEW s, ListDel(s), UNCHANGED drained PROVE SizeInv'
    <2>1. Len(cmds) \in Nat /\ queue_sz \in Nat /\ Len(cmds') = Len(cmds) - 1
      BY <1>2, ListDelType DEF TypeOK
    <2>2. queue_sz' = queue_sz - 1 /\ ws_tx' = IF queue_sz = 1 THEN FALSE ELSE ws_tx
      BY <1>2 DEF ListDel
    <2>3. Len(cmds) >= 1
      BY <1>2, <2>1 DEF ListDel
    <2> QED
      BY <1>2, <2>1, <2>2, <2>3 DEF SizeInv
  <1>3. CASE Drain
    BY <1>3 DEF Drain, SizeInv, TypeOK
  <1>4. CASE Deinit
    BY <1>4 DEF Deinit, SizeInv, TypeOK
  <1>5. CASE UNCHANGED <<cmds, queue_sz, ws_tx, drained>>
    BY <1>5 DEF SizeInv
  <1>6. \/ \E t \in Callers : Enqueue(t) \/ Unlink(t)
        \/ WorkUnlink \/ Drain \/ Deinit
        \/ UNCHANGED <<cmds, queue_sz, ws_tx, drained>>
    BY ZenonT(40) DEF Next, CallerStep, WorkStep, BusStep, vars, mgrVars, Send, SendNoCmd,
       QueueCrashed, QueueFull, Wake, Push, PushNoCfm, Completed, TimedOut,
       UnlinkAgain, Free, WakeNext, FreeFailed, Gone, WorkStart, WorkLook, WorkClear,
       WorkPush, WorkCompleted, WorkTimedOut, WorkUnlinkAgain, WorkFree, Confirm,
       ConfirmUnmatched, BusDown, BusUp
  <1> QED
    BY <1>1, <1>2, <1>3, <1>4, <1>5, <1>6 DEF Unlink, WorkUnlink
-----------------------------------------------------------------------------
(* Ownership and order                                                     *)

Held(t) == OnList(t) \/ OffList(t)

\* A caller's step that keeps its command where it is.
LEMMA CallerMove ==
    ASSUME TypeOK, UpInv, NEW t \in Callers,
           UNCHANGED <<cmds, flags, used, e2a_msg, next, wpc>>,
           \A u \in Callers : u # t =>
             /\ OnList(u)' <=> OnList(u)
             /\ OffList(u)' <=> OffList(u)
             /\ cmd'[u] = cmd[u] /\ pc'[u] = pc[u] /\ kind'[u] = kind[u],
           OnList(t)' <=> OnList(t),
           OffList(t)' <=> OffList(t),
           Held(t) => cmd'[t] = cmd[t],
           pc'[t] # "queue"
    PROVE  UpInv'
  <1>1. Listed' = Listed /\ (WorkBusy' <=> WorkBusy)
    BY DEF Listed, WorkBusy
  <1>2. NoDup' /\ OrderInv'
    BY DEF UpInv, NoDup, OrderInv
  <1>3. CallerInv'
    BY <1>1 DEF UpInv, CallerInv, Held
  <1>4. CallersApart'
    BY DEF UpInv, CallersApart, Held
  <1>5. WorkInv'
    BY <1>1 DEF UpInv, WorkInv, Held
  <1>6. ListedInv'
    BY <1>1 DEF UpInv, ListedInv, Held
  <1>7. UsedInv'
    BY <1>1 DEF UpInv, UsedInv, Held
  <1>9. CleanInv'
    BY <1>1 DEF UpInv, CleanInv
  <1>8. BufferInv'
    <2>1. \A u \in Callers :
            pc'[u] = "queue" => e2a_msg'[cmd'[u]] = (IF kind'[u] = "data" THEN u ELSE NoOne)
      BY DEF UpInv, BufferInv
    <2>2. ASSUME NEW s \in Listed', e2a_msg'[s] # NoOne
          PROVE OnList(e2a_msg[s])' /\ cmd'[e2a_msg'[s]] = s
      <3>1. s \in Slots /\ e2a_msg[s] \in Callers
        BY <1>1, <2>2 DEF TypeOK, Listed
      <3>2. OnList(e2a_msg[s]) /\ cmd[e2a_msg[s]] = s
        BY <1>1, <2>2 DEF UpInv, BufferInv
      <3> QED
        BY <3>1, <3>2 DEF Held
    <2> QED
      BY <2>1, <2>2 DEF BufferInv
  <1> QED
    BY <1>2, <1>3, <1>4, <1>5, <1>6, <1>7, <1>8, <1>9 DEF UpInv

\* The steps of a caller that CallerMove covers.
LEMMA UpSimple ==
    ASSUME TypeOK, Up, UpInv, NEW t \in Callers,
           \/ SendNoCmd(t) \/ QueueCrashed(t) \/ QueueFull(t) \/ Wake(t) \/ Push(t)
           \/ PushNoCfm(t) \/ Completed(t) \/ UnlinkAgain(t) \/ WakeNext(t) \/ Gone(t)
    PROVE  UpInv'
  <1> USE DEF mgrVars, slotVars, callVars, workVars, envVars, OnList, OffList, Held, TypeOK
  <1>1. CASE SendNoCmd(t)
    BY <1>1, CallerMove DEF SendNoCmd
  <1>2. CASE QueueCrashed(t)
    BY <1>2 DEF QueueCrashed, Up
  <1>3. CASE QueueFull(t)
    BY <1>3, CallerMove DEF QueueFull
  <1>4. CASE Wake(t)
    BY <1>4, CallerMove DEF Wake, Leave
  <1>5. CASE Push(t)
    BY <1>5, CallerMove DEF Push
  <1>6. CASE PushNoCfm(t)
    BY <1>6, CallerMove DEF PushNoCfm
  <1>7. CASE Completed(t)
    BY <1>7, CallerMove DEF Completed
  <1>8. CASE UnlinkAgain(t)
    BY <1>8 DEF UnlinkAgain, UpInv, CallerInv
  <1>9. CASE WakeNext(t)
    BY <1>9, CallerMove DEF WakeNext, Leave
  <1>10. CASE Gone(t)
    BY <1>10 DEF Gone, Up
  <1> QED
    BY <1>1, <1>2, <1>3, <1>4, <1>5, <1>6, <1>7, <1>8, <1>9, <1>10

\* A step of the work that moves no command.
LEMMA WorkMove ==
    ASSUME TypeOK, UpInv, UNCHANGED <<cmds, flags, used, e2a_msg, callVars>>,
           WorkInv', WorkBusy' <=> WorkBusy,
           WorkBusy => next' = next,
           wpc = "free" <=> wpc' = "free",
           wpc = "free" => next' = next
    PROVE  UpInv'
  <1>1. Listed' = Listed
    BY DEF Listed
  <1>2. \A t \in Callers : (OnList(t)' <=> OnList(t)) /\ (OffList(t)' <=> OffList(t))
    BY DEF OnList, OffList, callVars
  <1>3. pc' = pc /\ cmd' = cmd /\ kind' = kind
    BY DEF callVars
  <1>4. NoDup' /\ OrderInv'
    BY DEF UpInv, NoDup, OrderInv
  <1>5. CallerInv' /\ CallersApart'
    BY <1>1, <1>2, <1>3 DEF UpInv, CallerInv, CallersApart
  <1>6. ListedInv'
    BY <1>1, <1>2, <1>3 DEF UpInv, ListedInv
  <1>7. UsedInv'
    BY <1>1, <1>2, <1>3 DEF UpInv, UsedInv
  <1>9. CleanInv'
    BY <1>1, <1>3 DEF UpInv, CleanInv
  <1>8. BufferInv'
    <2>1. \A s \in Listed : s \in Slots
      BY DEF Listed, TypeOK
    <2>2. \A s \in Listed : e2a_msg[s] # NoOne => e2a_msg[s] \in Callers
      BY <2>1 DEF TypeOK
    <2> QED
      BY <1>1, <1>2, <1>3, <2>2 DEF UpInv, BufferInv
  <1> QED
    BY <1>4, <1>5, <1>6, <1>7, <1>8, <1>9 DEF UpInv

LEMMA UpWork ==
    ASSUME TypeOK, UpInv, WorkStart \/ WorkLook \/ WorkPush \/ WorkCompleted \/ WorkUnlinkAgain
    PROVE  UpInv'
  <1> USE DEF mgrVars, slotVars, callVars, workVars, envVars, WorkBusy, TypeOK, UpInv
  <1>1. CASE WorkStart
    <2>1. WorkInv'
      BY <1>1 DEF WorkStart, WorkInv
    <2> QED
      BY <1>1, <2>1, WorkMove DEF WorkStart
  <1>2. CASE WorkLook
    <2>1. WorkInv'
      BY <1>2 DEF WorkLook, WorkInv
    <2> QED
      BY <1>2, <2>1, WorkMove DEF WorkLook
  <1>3. CASE WorkPush
    <2>1. WorkInv'
      BY <1>3 DEF WorkPush, WorkInv, OnList, OffList, Listed
    <2> QED
      BY <1>3, <2>1, WorkMove DEF WorkPush
  <1>4. CASE WorkCompleted
    <2>1. WorkInv'
      BY <1>4 DEF WorkCompleted, WorkInv, OnList, OffList, Listed
    <2> QED
      BY <1>4, <2>1, WorkMove DEF WorkCompleted
  <1>5. CASE WorkUnlinkAgain
    BY <1>5 DEF WorkUnlinkAgain, WorkInv, Listed
  <1> QED
    BY <1>1, <1>2, <1>3, <1>4, <1>5

\* The descriptor rwnx_cmd_malloc returns is nobody's.
LEMMA UpSend ==
    ASSUME TypeOK, UpInv, NEW t \in Callers, Send(t)
    PROVE  UpInv'
  <1>1. PICK s \in Slots, k \in Kinds, r \in ReqIds :
          /\ FirstFree(s)
          /\ used' = used \cup {s}
          /\ reqid' = [reqid EXCEPT ![s] = IF k = "nocfm" THEN NoOne ELSE r]
          /\ e2a_msg' = [e2a_msg EXCEPT ![s] = IF k = "data" THEN t ELSE NoOne]
          /\ flags' = [flags EXCEPT
                        ![s] = IF k = "nocfm" THEN @ ELSE @ \cup {"REQ_CFM"}]
          /\ cmd' = [cmd EXCEPT ![t] = s]
          /\ kind' = [kind EXCEPT ![t] = k]
          /\ pc' = [pc EXCEPT ![t] = IF k = "nocfm" THEN "push" ELSE "queue"]
    BY DEF Send
  <1>2. pc[t] = "idle" /\ UNCHANGED <<cmds, wpc, next>>
    BY DEF Send, mgrVars, workVars
  <1>3. s \notin used /\ s \notin Listed
    BY <1>1 DEF FirstFree, UpInv, ListedInv
  <1>4. Listed' = Listed /\ (WorkBusy' <=> WorkBusy)
    BY <1>2 DEF Listed, WorkBusy
  <1>5. \A u \in Callers : u # t =>
          /\ OnList(u)' <=> OnList(u)
          /\ OffList(u)' <=> OffList(u)
          /\ cmd'[u] = cmd[u] /\ pc'[u] = pc[u] /\ kind'[u] = kind[u]
    BY <1>1 DEF OnList, OffList, TypeOK
  <1>6. ~OnList(t) /\ ~OffList(t) /\ ~OnList(t)' /\ OffList(t)' /\ cmd'[t] = s
    BY <1>1, <1>2 DEF OnList, OffList, TypeOK
  <1>7. \A u \in Callers : Held(u) => cmd[u] # s
    BY <1>3 DEF UpInv, CallerInv, Held
  <1>8. \A q \in Listed : q \in Slots /\ q # s
    BY <1>3 DEF Listed, TypeOK
  <1>9. \A q \in Listed : flags'[q] = flags[q] /\ e2a_msg'[q] = e2a_msg[q]
    BY <1>1, <1>8 DEF TypeOK
  <1>10. \A i \in 1 .. Len(cmds) : cmds[i] \in Listed
    BY DEF Listed
  <1>11. NoDup' /\ OrderInv'
    BY <1>2, <1>9, <1>10 DEF UpInv, NoDup, OrderInv
  <1>12. CallerInv'
    BY <1>1, <1>3, <1>4, <1>5, <1>6, <1>9 DEF UpInv, CallerInv
  <1>13. CallersApart'
    BY <1>5, <1>6, <1>7 DEF UpInv, CallersApart, Held
  <1>14. WorkInv'
    <2>1. wpc \in {"clear", "push", "wait", "remove"} => next \in Listed
      BY <1>10 DEF UpInv, WorkInv, TypeOK
    <2>2. wpc = "free" => next # s
      BY <1>3 DEF UpInv, WorkInv
    <2> QED
      BY <1>1, <1>2, <1>4, <1>5, <1>6, <1>8, <1>9, <2>1, <2>2
      DEF UpInv, WorkInv, WorkBusy
  <1>15. ListedInv'
    BY <1>1, <1>2, <1>4, <1>5, <1>6, <1>9 DEF UpInv, ListedInv
  <1>16. UsedInv'
    BY <1>1, <1>2, <1>4, <1>5, <1>6 DEF UpInv, UsedInv
  <1>17. BufferInv'
    <2>1. \A u \in Callers :
            pc'[u] = "queue" => e2a_msg'[cmd'[u]] = (IF kind'[u] = "data" THEN u ELSE NoOne)
      <3>1. ASSUME NEW u \in Callers, u # t, pc[u] = "queue"
            PROVE e2a_msg'[cmd[u]] = e2a_msg[cmd[u]]
        BY <1>1, <1>7, <3>1 DEF Held, OffList, TypeOK
      <3>2. pc'[t] = "queue" => e2a_msg'[s] = (IF kind'[t] = "data" THEN t ELSE NoOne)
        BY <1>1 DEF TypeOK
      <3> QED
        BY <1>5, <1>6, <3>1, <3>2 DEF UpInv, BufferInv
    <2>2. ASSUME NEW q \in Listed, e2a_msg[q] # NoOne
          PROVE OnList(e2a_msg[q])' /\ cmd'[e2a_msg'[q]] = q
      <3>1. e2a_msg[q] \in Callers /\ OnList(e2a_msg[q]) /\ cmd[e2a_msg[q]] = q
        BY <1>8, <2>2 DEF TypeOK, UpInv, BufferInv
      <3>2. e2a_msg[q] # t /\ e2a_msg'[q] = e2a_msg[q]
        BY <1>6, <1>9, <3>1
      <3> QED
        BY <1>5, <3>1, <3>2
    <2> QED
      BY <1>4, <1>9, <2>1, <2>2 DEF BufferInv
  <1>18. CleanInv'
    BY <1>1, <1>4, <1>5 DEF UpInv, CleanInv, TypeOK
  <1> QED
    BY <1>11, <1>12, <1>13, <1>14, <1>15, <1>16, <1>17, <1>18 DEF UpInv

\* A command is pushed at once only when the last one queued has no wait flag,
\* and then no earlier one has either.
LEMMA UpEnqueue ==
    ASSUME TypeOK, UpInv, NEW t \in Callers, Enqueue(t)
    PROVE  UpInv'
  <1> DEFINE s == cmd[t]
             n == Len(cmds)
  <1>1. /\ pc[t] = "queue" /\ MayQueue(t) /\ state = "INITED"
        /\ flags' = [flags EXCEPT
                       ![s] = @ \cup {"WAIT_CFM"}
                                \cup (IF DeferPush(t) THEN {"WAIT_PUSH"} ELSE {})]
        /\ cmds' = Append(cmds, s)
        /\ pc' = [pc EXCEPT ![t] = IF DeferPush(t) THEN "wake" ELSE "push"]
        /\ UNCHANGED <<used, e2a_msg, kind, cmd, wpc, next>>
    BY DEF Enqueue, workVars
  <1>2. s \in Slots /\ OffList(t) /\ s \notin Listed /\ s \in used
    BY <1>1 DEF OffList, UpInv, CallerInv, TypeOK
  <1>3. /\ n \in Nat /\ Len(cmds') = n + 1 /\ cmds'[n + 1] = s
        /\ \A i \in 1 .. n : cmds'[i] = cmds[i]
    BY <1>1, <1>2 DEF TypeOK
  <1>4. \A i \in 1 .. n : cmds[i] \in Listed /\ cmds[i] \in Slots
    BY DEF Listed, TypeOK
  <1>5. Listed' = Listed \cup {s}
    BY <1>3 DEF Listed
  <1>6. \A q \in Slots : q # s => flags'[q] = flags[q]
    BY <1>1 DEF TypeOK
  <1>7. flags'[s] = flags[s] \cup {"WAIT_CFM"}
                             \cup (IF DeferPush(t) THEN {"WAIT_PUSH"} ELSE {})
    BY <1>1, <1>2 DEF TypeOK
  <1>8. \A u \in Callers : u # t =>
          /\ OnList(u)' <=> OnList(u)
          /\ OffList(u)' <=> OffList(u)
          /\ pc'[u] = pc[u]
    BY <1>1 DEF OnList, OffList, TypeOK
  <1>9. kind[t] # "nocfm" /\ "WAIT_PUSH" \notin flags[s]
    BY <1>1, <1>2 DEF UpInv, CleanInv
  <1>10. ~OffList(t)' /\ (OnList(t)' <=> ~DeferPush(t))
    BY <1>1, <1>9 DEF OnList, OffList, TypeOK
  <1>11. Listed \subseteq Slots
    BY DEF Listed, TypeOK
  <1>12. NoDup'
    BY <1>2, <1>3, <1>4 DEF UpInv, NoDup
  <1>13. CallerInv'
    BY <1>1, <1>2, <1>5, <1>6, <1>7, <1>8, <1>9, <1>10, <1>11 DEF UpInv, CallerInv, CallersApart, TypeOK
  <1>14. CallersApart'
    BY <1>1, <1>2, <1>8, <1>10 DEF UpInv, CallersApart
  <1>15. WorkInv'
    BY <1>1, <1>2, <1>3, <1>4, <1>5, <1>6, <1>8, <1>10 DEF UpInv, WorkInv, WorkBusy, TypeOK
  <1>16. ListedInv'
    BY <1>1, <1>2, <1>5, <1>6, <1>7, <1>8, <1>10, <1>11 DEF UpInv, ListedInv, WorkBusy
  <1>17. UsedInv'
    BY <1>1, <1>2, <1>5, <1>8 DEF UpInv, UsedInv
  <1>18. OrderInv'
    <2> SUFFICES ASSUME NEW i \in 1 .. n + 1, NEW j \in 1 .. n + 1, i < j,
                        flags'[cmds'[i]] \cap WaitFlags # {}
                 PROVE  "WAIT_PUSH" \in flags'[cmds'[j]]
      BY <1>3 DEF OrderInv
    <2>1. i \in 1 .. n /\ cmds'[i] = cmds[i] /\ flags'[cmds[i]] = flags[cmds[i]]
      BY <1>2, <1>3, <1>4, <1>6
    <2>2. CASE j \in 1 .. n
      <3>1. cmds'[j] = cmds[j] /\ flags'[cmds[j]] = flags[cmds[j]]
        BY <1>2, <1>3, <1>4, <1>6, <2>2
      <3> QED
        BY <2>1, <2>2, <3>1 DEF UpInv, OrderInv
    <2>3. CASE j = n + 1
      <3>1. cmds'[j] = s
        BY <1>3, <2>3
      <3>2. n \in 1 .. n /\ cmds # <<>>
        BY <1>3, <2>1
      <3>3. CASE i = n
        <4>1. DeferPush(t)
          BY <2>1, <3>2, <3>3 DEF DeferPush
        <4> QED
          BY <1>7, <3>1, <4>1
      <3>4. CASE i < n
        <4>1. "WAIT_PUSH" \in flags[cmds[n]]
          BY <2>1, <3>2, <3>4 DEF UpInv, OrderInv
        <4>2. DeferPush(t)
          BY <3>2, <4>1 DEF DeferPush, WaitFlags
        <4> QED
          BY <1>7, <3>1, <4>2
      <3> QED
        BY <1>3, <2>1, <3>3, <3>4
    <2> QED
      BY <1>3, <2>2, <2>3
  <1>19. BufferInv'
    BY <1>1, <1>2, <1>5, <1>8, <1>10, <1>11 DEF UpInv, BufferInv, MayQueue, DeferPush, ForceDefer, TypeOK
  <1>20. CleanInv'
    BY <1>1, <1>2, <1>5, <1>6, <1>8 DEF UpInv, CleanInv, TypeOK
  <1> QED
    BY <1>12, <1>13, <1>14, <1>15, <1>16, <1>17, <1>18, <1>19, <1>20 DEF UpInv

\* What list_del does to a list without duplicates.
LEMMA ListDelFacts ==
    ASSUME TypeOK, UpInv, NEW s, ListDel(s)
    PROVE  /\ s \in Listed
           /\ Listed' = Listed \ {s}
           /\ NoDup'
           /\ Len(cmds') = Len(cmds) - 1
           /\ \E i \in 1 .. Len(cmds) :
                \A j \in 1 .. Len(cmds') : cmds'[j] = IF j < i THEN cmds[j] ELSE cmds[j + 1]
           /\ cmds[1] # s => cmds' # <<>> /\ cmds'[1] = cmds[1]
  <1>1. PICK i \in 1 .. Len(cmds) : cmds[i] = s /\ cmds' = RemoveAt(cmds, i)
    BY DEF ListDel
  <1>2. Len(cmds) \in Nat /\ cmds \in Seq(Slots) /\ NoDup
    BY DEF TypeOK, UpInv
  <1>3. /\ cmds' \in Seq(Slots) /\ Len(cmds') = Len(cmds) - 1
        /\ \A j \in 1 .. Len(cmds) - 1 :
             cmds'[j] = IF j < i THEN cmds[j] ELSE cmds[j + 1]
    BY <1>1, <1>2, RemoveAtFacts
  <1>4. s \in Listed
    BY <1>1 DEF Listed
  <1>5. Listed' = Listed \ {s}
    <2>1. ASSUME NEW q \in Listed' PROVE q \in Listed \ {s}
      <3>1. PICK j \in 1 .. Len(cmds') : q = cmds'[j]
        BY DEF Listed
      <3>2. CASE j < i
        <4>1. j \in 1 .. Len(cmds) /\ j # i /\ q = cmds[j]
          BY <1>1, <1>2, <1>3, <3>1, <3>2
        <4>2. q # s
          BY <1>1, <1>2, <4>1 DEF NoDup
        <4> QED
          BY <4>1, <4>2 DEF Listed
      <3>3. CASE ~(j < i)
        <4>1. j + 1 \in 1 .. Len(cmds) /\ j + 1 # i /\ q = cmds[j + 1]
          BY <1>1, <1>2, <1>3, <3>1, <3>3
        <4> QED
          BY <1>1, <1>2, <4>1 DEF Listed, NoDup
      <3> QED
        BY <3>2, <3>3
    <2>2. ASSUME NEW q \in Listed, q # s PROVE q \in Listed'
      <3>1. PICK j \in 1 .. Len(cmds) : q = cmds[j]
        BY DEF Listed
      <3>2. CASE j < i
        <4>1. j \in 1 .. Len(cmds') /\ cmds'[j] = q
          BY <1>1, <1>2, <1>3, <3>1, <3>2
        <4> QED
          BY <4>1 DEF Listed
      <3>3. CASE j > i
        <4>1. j - 1 \in 1 .. Len(cmds') /\ cmds'[j - 1] = q
          BY <1>1, <1>2, <1>3, <3>1, <3>3
        <4> QED
          BY <4>1 DEF Listed
      <3> QED
        BY <1>1, <2>2, <3>1, <3>2, <3>3
    <2> QED
      BY <2>1, <2>2
  <1>6. NoDup'
    BY <1>1, <1>2, <1>3 DEF NoDup
  <1>7. cmds[1] # s => cmds' # <<>> /\ cmds'[1] = cmds[1]
    BY <1>1, <1>2, <1>3
  <1> QED
    BY <1>1, <1>2, <1>3, <1>4, <1>5, <1>6, <1>7

\* Order is kept by list_del when the flags stay.
LEMMA ListDelOrder ==
    ASSUME TypeOK, UpInv, NEW s, ListDel(s), UNCHANGED flags
    PROVE  OrderInv'
  <1>1. PICK i \in 1 .. Len(cmds) :
          \A j \in 1 .. Len(cmds') : cmds'[j] = IF j < i THEN cmds[j] ELSE cmds[j + 1]
    BY ListDelFacts
  <1>2. Len(cmds) \in Nat /\ Len(cmds') = Len(cmds) - 1
    BY ListDelFacts DEF TypeOK
  <1> SUFFICES ASSUME NEW a \in 1 .. Len(cmds'), NEW b \in 1 .. Len(cmds'), a < b,
                      flags[cmds'[a]] \cap WaitFlags # {}
               PROVE  "WAIT_PUSH" \in flags[cmds'[b]]
    BY DEF OrderInv
  <1> DEFINE f(j) == IF j < i THEN j ELSE j + 1
  <1>3. /\ f(a) \in 1 .. Len(cmds) /\ f(b) \in 1 .. Len(cmds) /\ f(a) < f(b)
        /\ cmds'[a] = cmds[f(a)] /\ cmds'[b] = cmds[f(b)]
    BY <1>1, <1>2
  <1> QED
    BY <1>3 DEF UpInv, OrderInv

\* Buffers of listed commands, when the list only shrinks and the callers that
\* stay on it do not move.
LEMMA BufferKept ==
    ASSUME TypeOK, UpInv, Listed' \subseteq Listed, UNCHANGED <<e2a_msg, kind>>,
           \A u \in Callers :
             /\ OnList(u) /\ cmd[u] \in Listed' => OnList(u)' /\ cmd'[u] = cmd[u]
             /\ pc'[u] = "queue" => pc[u] = "queue" /\ cmd'[u] = cmd[u]
    PROVE  BufferInv'
  <1>1. \A q \in Listed : q \in Slots
    BY DEF Listed, TypeOK
  <1>2. ASSUME NEW q \in Listed', e2a_msg[q] # NoOne
        PROVE OnList(e2a_msg[q])' /\ cmd'[e2a_msg[q]] = q
    <2>1. q \in Listed /\ e2a_msg[q] \in Callers
      BY <1>1, <1>2 DEF TypeOK
    <2>2. OnList(e2a_msg[q]) /\ cmd[e2a_msg[q]] = q
      BY <1>2, <2>1 DEF UpInv, BufferInv
    <2> QED
      BY <2>1, <2>2
  <1> QED
    BY <1>2 DEF UpInv, BufferInv

LEMMA UpUnlink ==
    ASSUME TypeOK, UpInv, NEW t \in Callers, Unlink(t)
    PROVE  UpInv'
  <1> DEFINE s == cmd[t]
  <1>1. /\ pc[t] = "remove" /\ ListDel(s) /\ pc' = [pc EXCEPT ![t] = "free"]
        /\ UNCHANGED <<used, flags, e2a_msg, kind, cmd, wpc, next>>
    BY DEF Unlink, slotVars, workVars
  <1>2. OnList(t) /\ s \in Listed /\ "WAIT_PUSH" \notin flags[s] /\ s \in used /\ s \in Slots
    BY <1>1 DEF OnList, UpInv, CallerInv, ListedInv, TypeOK
  <1>3. Listed' = Listed \ {s} /\ NoDup' /\ OrderInv'
    BY <1>1, ListDelFacts, ListDelOrder
  <1>4. \A u \in Callers : u # t =>
          /\ OnList(u)' <=> OnList(u)
          /\ OffList(u)' <=> OffList(u)
          /\ pc'[u] = pc[u]
          /\ OnList(u) \/ OffList(u) => cmd[u] # s
    BY <1>1, <1>2 DEF OnList, OffList, TypeOK, UpInv, CallersApart
  <1>5. ~OnList(t)' /\ OffList(t)' /\ pc'[t] = "free"
    BY <1>1 DEF OnList, OffList, TypeOK
  <1>6. CallerInv'
    BY <1>1, <1>2, <1>3, <1>4, <1>5 DEF UpInv, CallerInv
  <1>7. CallersApart'
    BY <1>1, <1>2, <1>4, <1>5 DEF UpInv, CallersApart
  <1>8. WorkInv'
    <2>1. wpc \in {"clear", "push", "wait", "remove"} => next = cmds[1] /\ next # s
      BY <1>2 DEF UpInv, WorkInv, WorkBusy
    <2>2. wpc \in {"clear", "push", "wait", "remove"} => cmds' # <<>> /\ cmds'[1] = next
      BY <1>1, <2>1, ListDelFacts
    <2> QED
      BY <1>1, <1>2, <1>3, <1>4, <1>5, <2>2 DEF UpInv, WorkInv, WorkBusy
  <1>9. ListedInv'
    BY <1>1, <1>3, <1>4 DEF UpInv, ListedInv, WorkBusy
  <1>10. UsedInv'
    BY <1>1, <1>3, <1>4, <1>5 DEF UpInv, UsedInv
  <1>11. CleanInv'
    BY <1>1, <1>2, <1>3, <1>4, <1>5 DEF UpInv, CleanInv
  <1>12. BufferInv'
    BY <1>1, <1>3, <1>4, <1>5, BufferKept
  <1> QED
    BY <1>3, <1>6, <1>7, <1>8, <1>9, <1>10, <1>11, <1>12 DEF UpInv

LEMMA UpWorkUnlink ==
    ASSUME TypeOK, UpInv, WorkUnlink
    PROVE  UpInv'
  <1>1. /\ wpc = "remove" /\ ListDel(next) /\ wpc' = "free"
        /\ UNCHANGED <<used, flags, e2a_msg, pc, kind, cmd, next>>
    BY DEF WorkUnlink, slotVars, callVars
  <1>2. next \in Listed /\ "WAIT_PUSH" \notin flags[next] /\ next \in used
    BY <1>1, ListDelFacts DEF UpInv, WorkInv, WorkBusy, ListedInv
  <1>3. Listed' = Listed \ {next} /\ NoDup' /\ OrderInv'
    BY <1>1, ListDelFacts, ListDelOrder
  <1>4. \A u \in Callers : (OnList(u)' <=> OnList(u)) /\ (OffList(u)' <=> OffList(u))
    BY <1>1 DEF OnList, OffList
  <1>5. \A u \in Callers : OnList(u) \/ OffList(u) => cmd[u] # next
    BY <1>1 DEF UpInv, WorkInv, WorkBusy
  <1>6. CallerInv' /\ CallersApart'
    BY <1>1, <1>3, <1>4, <1>5 DEF UpInv, CallerInv, CallersApart
  <1>7. WorkInv'
    BY <1>1, <1>2, <1>3, <1>4, <1>5 DEF WorkInv, WorkBusy
  <1>8. ListedInv'
    BY <1>1, <1>3, <1>4 DEF UpInv, ListedInv, WorkBusy
  <1>9. UsedInv'
    BY <1>1, <1>3, <1>4 DEF UpInv, UsedInv
  <1>10. CleanInv'
    BY <1>1, <1>2, <1>3 DEF UpInv, CleanInv
  <1>11. BufferInv'
    BY <1>1, <1>3, <1>4, BufferKept
  <1> QED
    BY <1>3, <1>6, <1>7, <1>8, <1>9, <1>10, <1>11 DEF UpInv

\* rwnx_cmd_free by a caller that holds an unlisted descriptor.
LEMMA UpFree ==
    ASSUME TypeOK, UpInv, NEW t \in Callers, Free(t) \/ FreeFailed(t)
    PROVE  UpInv'
  <1> DEFINE s == cmd[t]
  <1>1. /\ pc[t] \in {"free", "fail"} /\ used' = used \ {s}
        /\ pc'[t] \in {"next", "idle"}
        /\ UNCHANGED <<cmds, flags, e2a_msg, wpc, next>>
        /\ \A u \in Callers : u # t =>
             pc'[u] = pc[u] /\ kind'[u] = kind[u] /\ cmd'[u] = cmd[u]
    BY DEF Free, FreeFailed, Leave, mgrVars, workVars, TypeOK
  <1>2. OffList(t) /\ s \notin Listed
    BY <1>1 DEF OffList, UpInv, CallerInv
  <1>3. \A u \in Callers : u # t =>
          /\ OnList(u)' <=> OnList(u)
          /\ OffList(u)' <=> OffList(u)
          /\ OnList(u) \/ OffList(u) => cmd[u] # s
    BY <1>1, <1>2 DEF OnList, OffList, TypeOK, UpInv, CallersApart
  <1>4. ~OnList(t)' /\ ~OffList(t)' /\ pc'[t] # "queue"
    BY <1>1 DEF OnList, OffList
  <1>5. Listed' = Listed /\ (WorkBusy' <=> WorkBusy)
    BY <1>1 DEF Listed, WorkBusy
  <1>6. NoDup' /\ OrderInv'
    BY <1>1 DEF UpInv, NoDup, OrderInv
  <1>7. CallerInv'
    BY <1>1, <1>3, <1>4, <1>5 DEF UpInv, CallerInv
  <1>8. CallersApart'
    BY <1>1, <1>3, <1>4 DEF UpInv, CallersApart
  <1>9. WorkInv'
    BY <1>1, <1>2, <1>3, <1>4, <1>5 DEF UpInv, WorkInv
  <1>10. ListedInv'
    <2>1. ~OnList(t)
      BY <1>1 DEF OnList
    <2> QED
      BY <1>1, <1>2, <1>3, <1>5, <2>1 DEF UpInv, ListedInv
  <1>11. UsedInv'
    BY <1>1, <1>3, <1>5 DEF UpInv, UsedInv
  <1>12. CleanInv'
    BY <1>1, <1>4, <1>5 DEF UpInv, CleanInv
  <1>13. BufferInv'
    <2>1. ~OnList(t)
      BY <1>1 DEF OnList
    <2>2. ASSUME NEW q \in Listed, e2a_msg[q] # NoOne
          PROVE OnList(e2a_msg[q])' /\ cmd'[e2a_msg[q]] = q
      <3>1. e2a_msg[q] \in Callers /\ OnList(e2a_msg[q]) /\ cmd[e2a_msg[q]] = q
        BY <2>2 DEF Listed, TypeOK, UpInv, BufferInv
      <3> QED
        BY <1>1, <1>3, <2>1, <3>1
    <2> QED
      BY <1>1, <1>4, <1>5, <2>2 DEF UpInv, BufferInv
  <1> QED
    BY <1>6, <1>7, <1>8, <1>9, <1>10, <1>11, <1>12, <1>13 DEF UpInv

LEMMA UpWorkFree ==
    ASSUME TypeOK, UpInv, WorkFree
    PROVE  UpInv'
  <1>1. /\ wpc = "free" /\ used' = used \ {next} /\ wpc' = "look"
        /\ UNCHANGED <<cmds, flags, e2a_msg, pc, kind, cmd, next>>
    BY DEF WorkFree, mgrVars, callVars
  <1>2. next \notin Listed /\ \A u \in Callers : OnList(u) \/ OffList(u) => cmd[u] # next
    BY <1>1 DEF UpInv, WorkInv
  <1>3. Listed' = Listed /\ ~WorkBusy /\ ~WorkBusy'
    BY <1>1 DEF Listed, WorkBusy
  <1>4. \A u \in Callers : (OnList(u)' <=> OnList(u)) /\ (OffList(u)' <=> OffList(u))
    BY <1>1 DEF OnList, OffList
  <1>5. NoDup' /\ OrderInv' /\ CallersApart'
    BY <1>1, <1>4 DEF UpInv, NoDup, OrderInv, CallersApart
  <1>6. CallerInv' /\ WorkInv'
    BY <1>1, <1>2, <1>3, <1>4 DEF UpInv, CallerInv, WorkInv
  <1>7. ListedInv' /\ UsedInv'
    BY <1>1, <1>2, <1>3, <1>4 DEF UpInv, ListedInv, UsedInv
  <1>8. CleanInv'
    BY <1>1, <1>3 DEF UpInv, CleanInv
  <1>9. BufferInv'
    BY <1>1, <1>3, <1>4, BufferKept
  <1> QED
    BY <1>5, <1>6, <1>7, <1>8, <1>9 DEF UpInv

\* The work takes the first command over; the rest of the list is not pushed.
LEMMA UpWorkClear ==
    ASSUME TypeOK, UpInv, WorkClear
    PROVE  UpInv'
  <1>1. /\ wpc = "clear" /\ flags' = [flags EXCEPT ![next] = wflags \ {"WAIT_PUSH"}]
        /\ wpc' = "push"
        /\ UNCHANGED <<cmds, used, e2a_msg, pc, kind, cmd, next>>
    BY DEF WorkClear, mgrVars, callVars
  <1>2. /\ cmds # <<>> /\ next = cmds[1] /\ "WAIT_PUSH" \in flags[next]
        /\ Len(cmds) \in Nat /\ 1 \in 1 .. Len(cmds) /\ next \in Slots
    BY <1>1 DEF UpInv, WorkInv, TypeOK
  <1>3. /\ \A q \in Slots : q # next => flags'[q] = flags[q]
        /\ flags'[next] = wflags \ {"WAIT_PUSH"}
    BY <1>1, <1>2 DEF TypeOK
  <1>4. Listed' = Listed /\ next \in Listed /\ Listed \subseteq Slots
    BY <1>1, <1>2 DEF Listed, TypeOK
  <1>5. \A u \in Callers : (OnList(u)' <=> OnList(u)) /\ (OffList(u)' <=> OffList(u))
    BY <1>1 DEF OnList, OffList
  <1>6. \A u \in Callers : OnList(u) \/ OffList(u) => cmd[u] # next
    BY <1>2, <1>4 DEF UpInv, CallerInv
  <1>7. NoDup' /\ CallersApart'
    BY <1>1, <1>5 DEF UpInv, NoDup, CallersApart
  <1>8. CallerInv'
    BY <1>1, <1>3, <1>4, <1>5, <1>6 DEF UpInv, CallerInv, TypeOK
  <1>9. WorkInv'
    BY <1>1, <1>2, <1>3, <1>5, <1>6 DEF WorkInv, WorkBusy
  <1>10. ListedInv'
    BY <1>1, <1>3, <1>4, <1>5 DEF UpInv, ListedInv, WorkBusy
  <1>11. UsedInv'
    BY <1>1, <1>4, <1>5 DEF UpInv, UsedInv
  <1>12. CleanInv'
    BY <1>1, <1>3, <1>4 DEF UpInv, CleanInv
  <1>13. OrderInv'
    <2>1. \A j \in 1 .. Len(cmds) : j > 1 =>
            cmds[j] # next /\ cmds[j] \in Slots /\ "WAIT_PUSH" \in flags[cmds[j]]
      <3> SUFFICES ASSUME NEW j \in 1 .. Len(cmds), j > 1
                   PROVE  cmds[j] # next /\ cmds[j] \in Slots /\ "WAIT_PUSH" \in flags[cmds[j]]
        OBVIOUS
      <3>1. cmds[j] # next /\ cmds[j] \in Slots
        BY <1>2 DEF UpInv, NoDup, TypeOK
      <3>2. flags[cmds[1]] \cap WaitFlags # {}
        BY <1>2 DEF WaitFlags
      <3> QED
        BY <1>2, <3>1, <3>2 DEF UpInv, OrderInv
    <2> QED
      BY <1>1, <1>2, <1>3, <2>1 DEF OrderInv
  <1>14. BufferInv'
    BY <1>1, <1>4, <1>5, BufferKept
  <1> QED
    BY <1>7, <1>8, <1>9, <1>10, <1>11, <1>12, <1>13, <1>14 DEF UpInv

\* A confirmation only removes WAIT_CFM from a listed command.
LEMMA UpConfirm ==
    ASSUME TypeOK, UpInv, NEW m \in fw, Confirm(m)
    PROVE  UpInv'
  <1>1. PICK i \in 1 .. Len(cmds) :
          flags' = [flags EXCEPT ![cmds[i]] = (@ \ {"WAIT_CFM"}) \cup {"DONE"}]
    BY DEF Confirm
  <1>2. UNCHANGED <<cmds, used, e2a_msg, pc, kind, cmd, wpc, next>>
    BY DEF Confirm, mgrVars, workVars
  <1>3. \A q \in Slots : /\ "WAIT_PUSH" \in flags'[q] <=> "WAIT_PUSH" \in flags[q]
                         /\ flags'[q] \cap WaitFlags \subseteq flags[q] \cap WaitFlags
    BY <1>1 DEF TypeOK, WaitFlags
  <1>4. Listed' = Listed /\ Listed \subseteq Slots /\ (WorkBusy' <=> WorkBusy)
    BY <1>2 DEF Listed, WorkBusy, TypeOK
  <1>5. \A u \in Callers : (OnList(u)' <=> OnList(u)) /\ (OffList(u)' <=> OffList(u))
    BY <1>2 DEF OnList, OffList
  <1>6. NoDup' /\ CallersApart'
    BY <1>2, <1>5 DEF UpInv, NoDup, CallersApart
  <1>7. CallerInv' /\ WorkInv'
    BY <1>2, <1>3, <1>4, <1>5 DEF UpInv, CallerInv, WorkInv, TypeOK
  <1>8. ListedInv' /\ UsedInv'
    BY <1>2, <1>3, <1>4, <1>5 DEF UpInv, ListedInv, UsedInv
  <1>9. CleanInv'
    BY <1>2, <1>3, <1>4 DEF UpInv, CleanInv
  <1>10. OrderInv'
    <2>1. \A j \in 1 .. Len(cmds) : cmds[j] \in Slots
      BY DEF TypeOK
    <2> QED
      BY <1>2, <1>3, <2>1 DEF UpInv, OrderInv
  <1>11. BufferInv'
    BY <1>2, <1>4, <1>5, BufferKept
  <1> QED
    BY <1>6, <1>7, <1>8, <1>9, <1>10, <1>11 DEF UpInv

LEMMA UpStep == TypeOK /\ (Up => UpInv) /\ [Next]_vars => (Up => UpInv)'
  <1> SUFFICES ASSUME TypeOK, Up => UpInv, [Next]_vars, Up' PROVE UpInv'
    OBVIOUS
  <1>1. Up /\ UpInv
    <2>1. \/ UNCHANGED <<state, drained>>
          \/ state' \in {"CRASHED", "DEINIT"}
          \/ drained' = TRUE
      BY ZenonT(40) DEF Next, CallerStep, WorkStep, BusStep, vars, mgrVars, Send, SendNoCmd,
         QueueCrashed, QueueFull, Enqueue, Wake, Push, PushNoCfm, Completed, TimedOut,
         CrashOn, Unlink, UnlinkAgain, Free, WakeNext, FreeFailed, Gone, WorkStart,
         WorkLook, WorkClear, WorkPush, WorkCompleted, WorkTimedOut, WorkUnlink,
         WorkUnlinkAgain, WorkFree, Confirm, ConfirmUnmatched, BusDown, BusUp, Drain, Deinit
    <2> QED
      BY <2>1 DEF Up
  <1>2. ASSUME UNCHANGED <<cmds, flags, used, e2a_msg, callVars, next, wpc>> PROVE UpInv'
    <2>1. WorkInv' /\ (WorkBusy' <=> WorkBusy)
      BY <1>1, <1>2 DEF UpInv, WorkInv, WorkBusy, Listed, OnList, OffList, callVars
    <2> QED
      BY <1>1, <1>2, <2>1, WorkMove
  <1>3. CASE BusDown \/ BusUp \/ \E m \in fw : ConfirmUnmatched(m)
    BY <1>2, <1>3 DEF BusDown, BusUp, ConfirmUnmatched, mgrVars, slotVars, workVars
  <1>4. CASE UNCHANGED vars
    BY <1>2, <1>4 DEF vars, mgrVars, slotVars, workVars
  <1>5. ~(\E t \in Callers : TimedOut(t)) /\ ~WorkTimedOut /\ ~Drain /\ ~Deinit
    BY DEF Up, TimedOut, WorkTimedOut, CrashOn, Drain, Deinit
  <1>6. ASSUME NEW t \in Callers, Send(t) \/ SendNoCmd(t) \/ CallerStep(t) PROVE UpInv'
    BY <1>1, <1>5, <1>6, UpSend, UpSimple, UpEnqueue, UpUnlink, UpFree DEF CallerStep
  <1>7. CASE WorkStep
    BY <1>1, <1>5, <1>7, UpWork, UpWorkClear, UpWorkUnlink, UpWorkFree DEF WorkStep
  <1>8. ASSUME NEW m \in fw, Confirm(m) PROVE UpInv'
    BY <1>1, <1>8, UpConfirm
  <1> QED
    BY <1>3, <1>4, <1>5, <1>6, <1>7, <1>8 DEF Next, BusStep

LEMMA InitInv == Init => IInv
  <1> SUFFICES ASSUME Init PROVE IInv
    OBVIOUS
  <1>1. TypeOK
    <2>1. cmds \in Seq(Slots) /\ sends \in 0 .. MaxSends
      BY SendsAssumption DEF Init
    <2>2. /\ flags \in [Slots -> SUBSET Flags] /\ reqid \in [Slots -> ReqIds \cup {NoOne}]
          /\ e2a_msg \in [Slots -> Callers \cup {NoOne}] /\ tkn \in [Slots -> Nat]
      BY DEF Init
    <2>3. /\ pc \in [Callers -> PC] /\ kind \in [Callers -> AllKinds]
          /\ cmd \in [Callers -> Slots] /\ buf \in [Callers -> Int]
      BY ZeroSlot DEF Init, PC, AllKinds
    <2> QED
      BY <2>1, <2>2, <2>3, ZeroSlot DEF Init, TypeOK, WPC
  <1>2. SizeInv
    BY DEF Init, SizeInv
  <1>3. UpInv
    BY DEF Init, UpInv, NoDup, CallerInv, CallersApart, WorkInv, ListedInv, UsedInv,
       CleanInv, OrderInv, BufferInv, OnList, OffList, WorkBusy, Listed
  <1> QED
    BY <1>1, <1>2, <1>3 DEF IInv

\* The inductive invariant holds throughout.
THEOREM Invariant == Spec => []IInv
  <1>1. IInv /\ [Next]_vars => IInv'
    BY TypeStep, SizeStep, UpStep DEF IInv
  <1> QED
    BY <1>1, InitInv, PTL DEF Spec
-----------------------------------------------------------------------------
(* What follows from it                                                    *)

\* The state of the manager keeps its type; queue_sz never underflows.
THEOREM TypeCorrect == Spec => []TypeOK
  BY Invariant, PTL DEF IInv

\* queue_sz counts the list, the wake lock is held exactly while commands are
\* queued, and no descriptor is listed twice or listed while free.
THEOREM ListIsSound == Spec => []ListSound
  <1>1. IInv => ListSound
    BY DEF IInv, SizeInv, UpInv, NoDup, ListedInv, ListSound
  <1> QED
    BY <1>1, Invariant, PTL

\* Every allocated descriptor has exactly one party that frees it.
THEOREM OwnersAreUnique == Spec => []OneOwner
  <1>1. IInv => OneOwner
    <2> SUFFICES ASSUME TypeOK, UpInv, NEW s \in used
                 PROVE  /\ \/ \E t \in Callers : HeldBy(t, s)
                           \/ HeldByWork(s)
                           \/ Deferred(s)
                        /\ \A t, u \in Callers : HeldBy(t, s) /\ HeldBy(u, s) => t = u
                        /\ ~\E t \in Callers : HeldBy(t, s) /\ (HeldByWork(s) \/ Deferred(s))
      BY DEF IInv, OneOwner
    <2>1. \A t \in Callers : HeldBy(t, s) <=> (OnList(t) \/ OffList(t)) /\ cmd[t] = s
      BY DEF HeldBy, OnList, OffList, TypeOK, PC
    <2>2. (\E t \in Callers : HeldBy(t, s)) \/ HeldByWork(s) \/ Deferred(s)
      BY <2>1 DEF UpInv, UsedInv, ListedInv, Deferred, HeldByWork, WorkBusy
    <2>3. \A t, u \in Callers : HeldBy(t, s) /\ HeldBy(u, s) => t = u
      BY <2>1 DEF UpInv, CallersApart
    <2>4. \A t \in Callers : HeldBy(t, s) => ~Deferred(s)
      BY <2>1 DEF UpInv, CallerInv, Deferred
    <2>5. HeldByWork(s) /\ wpc = "clear" => Deferred(s)
      BY DEF UpInv, WorkInv, HeldByWork, Deferred, Listed, TypeOK
    <2>6. \A t \in Callers : HeldBy(t, s) => ~HeldByWork(s)
      BY <2>1, <2>4, <2>5 DEF UpInv, WorkInv, HeldByWork, WorkBusy
    <2> QED
      BY <2>2, <2>3, <2>4, <2>6
  <1> QED
    BY <1>1, Invariant, PTL

\* Commands are pushed in the order they were queued, and none before the one ahead
\* of it is confirmed.
THEOREM OneInFlightAlways == Spec => []OneInFlight
  <1>1. IInv => OneInFlight
    BY DEF IInv, UpInv, OrderInv, OneInFlight
  <1> QED
    BY <1>1, Invariant, PTL

\* A confirmation is never copied into the buffer of a call that has returned.
THEOREM CopiesAreLive == Spec => []CopyToLive
  <1>1. IInv => CopyToLive
    BY DEF IInv, UpInv, BufferInv, CopyToLive, OnList
  <1> QED
    BY <1>1, Invariant, PTL

\* Types, list and owners together: what cmd_mgr_queue, the work and the confirmation
\* handler keep of the descriptors.
THEOREM DescriptorsAreSound == Spec => []DescriptorsSound
  <1>1. TypeOK /\ ListSound /\ OneOwner => DescriptorsSound
    BY DEF DescriptorsSound
  <1> QED
    BY <1>1, TypeCorrect, ListIsSound, OwnersAreUnique, PTL

-----------------------------------------------------------------------------
(* Answers.  As long as no wait is ended by a fatal signal, the firmware    *)
(* owes at most one answer, to the command somebody waits for.  That is why *)
(* the answer is the caller's own although cmd_mgr_msgind looks only at the *)
(* identifier, and why a command that is still to be pushed is never         *)
(* confirmed.                                                               *)

Waiting(s) ==
    \/ \E t \in Callers : pc[t] = "wait" /\ cmd[t] = s
    \/ wpc = "wait" /\ next = s

\* What the firmware has to answer is a command that somebody waits for.
FlightInv ==
    \A m \in fw : \E s \in Listed :
      /\ Waiting(s) /\ reqid[s] = m.id /\ tkn[s] = m.tkn
      /\ "WAIT_CFM" \in flags[s]

\* A command that is not pushed yet has no confirmation.
FreshInv ==
    /\ \A t \in Pushing : "WAIT_CFM" \in flags[cmd[t]]
    /\ \A s \in Listed : "WAIT_PUSH" \in flags[s] => "WAIT_CFM" \in flags[s]
    /\ wpc = "clear" => "WAIT_CFM" \in wflags
    /\ wpc = "push" => "WAIT_CFM" \in flags[next]

\* A completion is signalled only for what is confirmed.
SignalInv == \A s \in Listed : s \in complete => "WAIT_CFM" \notin flags[s]

\* From the confirmation to the return the buffer of a caller has its answer.
OwnInv ==
    \A t \in Callers : kind[t] = "data" =>
      /\ OnList(t) => e2a_msg[cmd[t]] = t
      /\ pc[t] = "wait" /\ "WAIT_CFM" \notin flags[cmd[t]] => buf[t] = tkn[cmd[t]]
      /\ pc[t] \in {"remove", "free"} => buf[t] = tkn[cmd[t]]

AnsInv == FlightInv /\ FreshInv /\ SignalInv /\ OwnInv

AnswersInv == ~MayKill /\ Up => AnsInv

\* A caller's step that neither enters nor leaves the part between the push and the
\* end of the wait.
LEMMA AnsCaller ==
    ASSUME TypeOK, UpInv, AnsInv, NEW t \in Callers,
           UNCHANGED <<cmds, flags, reqid, e2a_msg, tkn, complete, fw, next, wpc, wflags>>,
           \A u \in Callers : u # t =>
             pc'[u] = pc[u] /\ kind'[u] = kind[u] /\ cmd'[u] = cmd[u] /\ buf'[u] = buf[u],
           pc[t] # "wait",
           pc'[t] \notin {"push", "wait", "remove", "free"}
    PROVE  AnsInv'
  <1>1. Listed' = Listed
    BY DEF Listed
  <1>2. \A s \in Slots : Waiting(s) => Waiting(s)'
    BY DEF Waiting
  <1>3. Listed \subseteq Slots
    BY DEF Listed, TypeOK
  <1>4. FlightInv'
    BY <1>1, <1>2, <1>3 DEF AnsInv, FlightInv
  <1>5. FreshInv'
    BY <1>1 DEF AnsInv, FreshInv, Pushing
  <1>6. SignalInv'
    BY <1>1 DEF AnsInv, SignalInv
  <1>7. OwnInv'
    BY DEF AnsInv, OwnInv, OnList
  <1> QED
    BY <1>4, <1>5, <1>6, <1>7 DEF AnsInv

LEMMA AnsSimple ==
    ASSUME TypeOK, UpInv, AnsInv, Up, NEW t \in Callers,
           \/ SendNoCmd(t) \/ QueueCrashed(t) \/ QueueFull(t) \/ Wake(t) \/ PushNoCfm(t)
           \/ UnlinkAgain(t) \/ Free(t) \/ WakeNext(t) \/ FreeFailed(t) \/ Gone(t)
    PROVE  AnsInv'
  <1> USE DEF mgrVars, slotVars, callVars, workVars, envVars, TypeOK
  <1>1. CASE SendNoCmd(t)
    BY <1>1, AnsCaller DEF SendNoCmd
  <1>2. CASE QueueCrashed(t) \/ QueueFull(t)
    BY <1>2, AnsCaller DEF QueueCrashed, QueueFull
  <1>3. CASE Wake(t)
    BY <1>3, AnsCaller DEF Wake, Leave
  <1>4. CASE PushNoCfm(t)
    BY <1>4, AnsCaller DEF PushNoCfm
  <1>5. CASE UnlinkAgain(t)
    BY <1>5, AnsCaller DEF UnlinkAgain
  <1>6. CASE Free(t)
    BY <1>6, AnsCaller DEF Free
  <1>7. CASE WakeNext(t)
    BY <1>7, AnsCaller DEF WakeNext, Leave
  <1>8. CASE FreeFailed(t)
    BY <1>8, AnsCaller DEF FreeFailed, Leave
  <1>9. CASE Gone(t)
    BY <1>9 DEF Gone, Up
  <1> QED
    BY <1>1, <1>2, <1>3, <1>4, <1>5, <1>6, <1>7, <1>8, <1>9

\* A new descriptor is not on the list, so no answer is about it.
LEMMA AnsSend ==
    ASSUME TypeOK, UpInv, AnsInv, NEW t \in Callers, Send(t)
    PROVE  AnsInv'
  <1>1. PICK s \in Slots, k \in Kinds, r \in ReqIds :
          /\ FirstFree(s)
          /\ reqid' = [reqid EXCEPT ![s] = IF k = "nocfm" THEN NoOne ELSE r]
          /\ e2a_msg' = [e2a_msg EXCEPT ![s] = IF k = "data" THEN t ELSE NoOne]
          /\ flags' = [flags EXCEPT
                        ![s] = IF k = "nocfm" THEN @ ELSE @ \cup {"REQ_CFM"}]
          /\ cmd' = [cmd EXCEPT ![t] = s]
          /\ kind' = [kind EXCEPT ![t] = k]
          /\ pc' = [pc EXCEPT ![t] = IF k = "nocfm" THEN "push" ELSE "queue"]
    BY DEF Send
  <1>2. pc[t] = "idle" /\ UNCHANGED <<cmds, tkn, complete, buf, wpc, next, wflags, fw>>
    BY DEF Send, mgrVars, workVars
  <1>3. s \notin used /\ s \notin Listed
    BY <1>1 DEF FirstFree, UpInv, ListedInv
  <1>4. Listed' = Listed /\ Listed \subseteq Slots
    BY <1>2 DEF Listed, TypeOK
  <1>5. \A q \in Slots : q # s =>
          reqid'[q] = reqid[q] /\ e2a_msg'[q] = e2a_msg[q] /\ flags'[q] = flags[q]
    BY <1>1 DEF TypeOK
  <1>6. \A u \in Callers : u # t =>
          cmd'[u] = cmd[u] /\ pc'[u] = pc[u] /\ kind'[u] = kind[u]
    BY <1>1 DEF TypeOK
  <1>7. /\ pc'[t] \in {"push", "queue"}
        /\ pc'[t] = "push" => kind'[t] = "nocfm"
    BY <1>1 DEF TypeOK
  <1>8. \A u \in Callers : Held(u) => cmd[u] # s /\ cmd[u] \in Slots
    BY <1>3 DEF UpInv, CallerInv, Held, TypeOK
  <1>9. \A q \in Listed : Waiting(q) => Waiting(q)'
    BY <1>2, <1>6 DEF Waiting
  <1>10. FlightInv'
    <2> SUFFICES ASSUME NEW m \in fw
                 PROVE  \E q \in Listed : /\ Waiting(q)' /\ reqid'[q] = m.id /\ tkn[q] = m.tkn
                                          /\ "WAIT_CFM" \in flags'[q]
      BY <1>2, <1>4 DEF FlightInv
    <2>1. PICK q \in Listed : /\ Waiting(q) /\ reqid[q] = m.id /\ tkn[q] = m.tkn
                              /\ "WAIT_CFM" \in flags[q]
      BY DEF AnsInv, FlightInv
    <2> QED
      BY <1>3, <1>4, <1>5, <1>9, <2>1
  <1>11. FreshInv'
    <2>1. ASSUME NEW u \in Callers, (u \in Pushing)' PROVE "WAIT_CFM" \in flags'[cmd'[u]]
      <3>1. u # t /\ u \in Pushing
        BY <1>6, <1>7, <2>1 DEF Pushing
      <3>2. Held(u)
        BY <3>1 DEF Pushing, Held, OnList
      <3> QED
        BY <1>5, <1>6, <1>8, <3>1, <3>2 DEF AnsInv, FreshInv
    <2>2. wpc = "push" => next # s /\ next \in Slots
      BY <1>3 DEF UpInv, WorkInv, WorkBusy, Listed, TypeOK
    <2> QED
      BY <1>2, <1>3, <1>4, <1>5, <2>1, <2>2 DEF AnsInv, FreshInv, Pushing
  <1>12. SignalInv'
    BY <1>2, <1>3, <1>4, <1>5 DEF AnsInv, SignalInv
  <1>13. OwnInv'
    <2> SUFFICES ASSUME NEW u \in Callers, kind'[u] = "data"
                 PROVE  /\ OnList(u)' => e2a_msg'[cmd'[u]] = u
                        /\ pc'[u] = "wait" /\ "WAIT_CFM" \notin flags'[cmd'[u]]
                             => buf'[u] = tkn'[cmd'[u]]
                        /\ pc'[u] \in {"remove", "free"} => buf'[u] = tkn'[cmd'[u]]
      BY DEF OwnInv
    <2>1. CASE u = t
      BY <1>7, <2>1 DEF OnList
    <2>2. CASE u # t
      <3>1. /\ cmd'[u] = cmd[u] /\ pc'[u] = pc[u] /\ kind[u] = "data"
            /\ buf'[u] = buf[u] /\ tkn' = tkn
        BY <1>2, <1>6, <2>2
      <3>2. OnList(u) \/ pc[u] \in {"wait", "remove", "free"} =>
              e2a_msg'[cmd[u]] = e2a_msg[cmd[u]] /\ flags'[cmd[u]] = flags[cmd[u]]
        BY <1>5, <1>8 DEF Held, OnList, OffList
      <3>3. OnList(u)' <=> OnList(u)
        BY <1>6, <2>2 DEF OnList
      <3> QED
        BY <3>1, <3>2, <3>3 DEF AnsInv, OwnInv
    <2> QED
      BY <2>1, <2>2
  <1> QED
    BY <1>10, <1>11, <1>12, <1>13 DEF AnsInv

\* A command enters the list unconfirmed, with a new token and no completion.
LEMMA AnsEnqueue ==
    ASSUME TypeOK, UpInv, AnsInv, NEW t \in Callers, Enqueue(t)
    PROVE  AnsInv'
  <1> DEFINE s == cmd[t]
  <1>1. /\ pc[t] = "queue"
        /\ flags' = [flags EXCEPT
                       ![s] = @ \cup {"WAIT_CFM"}
                                \cup (IF DeferPush(t) THEN {"WAIT_PUSH"} ELSE {})]
        /\ tkn' = [tkn EXCEPT ![s] = next_tkn]
        /\ complete' = complete \ {s}
        /\ cmds' = Append(cmds, s)
        /\ pc' = [pc EXCEPT ![t] = IF DeferPush(t) THEN "wake" ELSE "push"]
        /\ UNCHANGED <<reqid, e2a_msg, kind, cmd, buf, wpc, next, wflags, fw>>
    BY DEF Enqueue, workVars, envVars
  <1>2. s \in Slots /\ OffList(t) /\ s \notin Listed
    BY <1>1 DEF OffList, UpInv, CallerInv, TypeOK
  <1>3. /\ Len(cmds) \in Nat /\ Len(cmds') = Len(cmds) + 1 /\ cmds'[Len(cmds) + 1] = s
        /\ \A i \in 1 .. Len(cmds) : cmds'[i] = cmds[i]
    BY <1>1, <1>2 DEF TypeOK
  <1>4. Listed' = Listed \cup {s} /\ Listed \subseteq Slots
    <2>1. Listed' = Listed \cup {s}
      BY <1>3 DEF Listed
    <2>2. Listed \subseteq Slots
      BY DEF Listed, TypeOK
    <2> QED
      BY <2>1, <2>2
  <1>5. /\ \A q \in Slots : q # s => flags'[q] = flags[q] /\ tkn'[q] = tkn[q]
        /\ "WAIT_CFM" \in flags'[s]
    BY <1>1, <1>2 DEF TypeOK
  <1>6. \A u \in Callers : u # t => pc'[u] = pc[u]
    BY <1>1 DEF TypeOK
  <1>7. pc'[t] \in {"wake", "push"}
    BY <1>1 DEF TypeOK
  <1>8. \A u \in Callers : Held(u) /\ u # t => cmd[u] # s /\ cmd[u] \in Slots
    BY <1>2 DEF UpInv, CallersApart, Held, TypeOK
  <1>9. \A q \in Listed : Waiting(q) => Waiting(q)'
    BY <1>1, <1>6 DEF Waiting
  <1>10. FlightInv'
    <2> SUFFICES ASSUME NEW m \in fw
                 PROVE  \E q \in Listed' : /\ Waiting(q)' /\ reqid[q] = m.id /\ tkn'[q] = m.tkn
                                           /\ "WAIT_CFM" \in flags'[q]
      BY <1>1 DEF FlightInv
    <2>1. PICK q \in Listed : /\ Waiting(q) /\ reqid[q] = m.id /\ tkn[q] = m.tkn
                              /\ "WAIT_CFM" \in flags[q]
      BY DEF AnsInv, FlightInv
    <2> QED
      BY <1>2, <1>4, <1>5, <1>9, <2>1
  <1>11. FreshInv'
    <2>1. ASSUME NEW u \in Callers, (u \in Pushing)' PROVE "WAIT_CFM" \in flags'[cmd[u]]
      <3>1. CASE u = t
        BY <1>5, <3>1
      <3>2. CASE u # t
        <4>1. u \in Pushing /\ Held(u)
          BY <1>1, <1>6, <2>1, <3>2 DEF Pushing, Held, OnList
        <4> QED
          BY <1>5, <1>8, <3>2, <4>1 DEF AnsInv, FreshInv
      <3> QED
        BY <3>1, <3>2
    <2>2. wpc = "push" => next # s /\ next \in Slots
      BY <1>2 DEF UpInv, WorkInv, WorkBusy, Listed, TypeOK
    <2>3. \A q \in Listed' : "WAIT_PUSH" \in flags'[q] => "WAIT_CFM" \in flags'[q]
      BY <1>2, <1>4, <1>5 DEF AnsInv, FreshInv
    <2> QED
      BY <1>1, <1>5, <2>1, <2>2, <2>3 DEF AnsInv, FreshInv, Pushing
  <1>12. SignalInv'
    BY <1>1, <1>4, <1>5 DEF AnsInv, SignalInv
  <1>13. OwnInv'
    <2> SUFFICES ASSUME NEW u \in Callers, kind[u] = "data"
                 PROVE  /\ OnList(u)' => e2a_msg[cmd[u]] = u
                        /\ pc'[u] = "wait" /\ "WAIT_CFM" \notin flags'[cmd[u]]
                             => buf[u] = tkn'[cmd[u]]
                        /\ pc'[u] \in {"remove", "free"} => buf[u] = tkn'[cmd[u]]
      BY <1>1 DEF OwnInv
    <2>1. CASE u = t
      BY <1>1, <1>7, <2>1 DEF UpInv, BufferInv
    <2>2. CASE u # t
      <3>1. pc'[u] = pc[u] /\ (OnList(u)' <=> OnList(u))
        BY <1>1, <1>6, <2>2 DEF OnList
      <3>2. OnList(u) \/ pc[u] \in {"wait", "remove", "free"} =>
              tkn'[cmd[u]] = tkn[cmd[u]] /\ flags'[cmd[u]] = flags[cmd[u]]
        BY <1>5, <1>8, <2>2 DEF Held, OnList, OffList
      <3> QED
        BY <3>1, <3>2 DEF AnsInv, OwnInv
    <2> QED
      BY <2>1, <2>2
  <1> QED
    BY <1>10, <1>11, <1>12, <1>13 DEF AnsInv

\* The push makes the answer owed; whoever pushed it waits for it.
LEMMA AnsPush ==
    ASSUME TypeOK, UpInv, AnsInv, NEW t \in Callers, Push(t)
    PROVE  AnsInv'
  <1> DEFINE s == cmd[t]
  <1>1. /\ pc[t] = "push" /\ kind[t] # "nocfm"
        /\ pc' = [pc EXCEPT ![t] = "wait"]
        /\ fw' = fw \cup {[id |-> reqid[s], tkn |-> tkn[s]]} \/ fw' = fw
        /\ UNCHANGED <<cmds, flags, reqid, e2a_msg, tkn, complete, kind, cmd, buf,
                       wpc, next, wflags>>
    BY DEF Push, Transmit, mgrVars, slotVars, workVars
  <1>2. t \in Pushing /\ OnList(t) /\ s \in Listed /\ "WAIT_CFM" \in flags[s]
    BY <1>1 DEF Pushing, OnList, UpInv, CallerInv, AnsInv, FreshInv
  <1>3. /\ pc'[t] = "wait"
        /\ \A u \in Callers : u # t => pc'[u] = pc[u]
    BY <1>1 DEF TypeOK
  <1>4. Listed' = Listed
    BY <1>1 DEF Listed
  <1>5. \A q \in Listed : Waiting(q) => Waiting(q)'
    BY <1>1, <1>3 DEF Waiting
  <1>6. \A q \in Slots : q = s => Waiting(q)'
    BY <1>1, <1>3 DEF Waiting
  <1>0. Listed \subseteq Slots
    BY DEF Listed, TypeOK
  <1>7. FlightInv'
    <2> SUFFICES ASSUME NEW m \in fw'
                 PROVE  \E q \in Listed : /\ Waiting(q)' /\ reqid[q] = m.id /\ tkn[q] = m.tkn
                                          /\ "WAIT_CFM" \in flags[q]
      BY <1>1, <1>4 DEF FlightInv
    <2>1. CASE m \in fw
      BY <1>5, <2>1 DEF AnsInv, FlightInv
    <2>2. CASE m = [id |-> reqid[s], tkn |-> tkn[s]]
      <3>1. m.id = reqid[s] /\ m.tkn = tkn[s]
        BY <2>2
      <3> QED
        BY <1>0, <1>2, <1>6, <3>1
    <2> QED
      BY <1>1, <2>1, <2>2
  <1>8. FreshInv'
    BY <1>1, <1>3, <1>4 DEF AnsInv, FreshInv, Pushing
  <1>9. SignalInv'
    BY <1>1, <1>4 DEF AnsInv, SignalInv
  <1>10. OwnInv'
    BY <1>1, <1>2, <1>3 DEF AnsInv, OwnInv, OnList
  <1> QED
    BY <1>7, <1>8, <1>9, <1>10 DEF AnsInv

\* The wait ends with a completion, so the command is confirmed and no answer to it
\* is owed.
LEMMA AnsCompleted ==
    ASSUME TypeOK, UpInv, AnsInv, ~MayKill, NEW t \in Callers, Completed(t)
    PROVE  AnsInv'
  <1> DEFINE s == cmd[t]
  <1>1. /\ pc[t] = "wait" /\ s \in complete /\ complete' = complete \ {s}
        /\ pc' = [pc EXCEPT ![t] = "remove"]
        /\ UNCHANGED <<cmds, flags, reqid, e2a_msg, tkn, kind, cmd, buf,
                       wpc, next, wflags, fw>>
    BY DEF Completed, mgrVars, workVars, envVars
  <1>2. OnList(t) /\ s \in Listed /\ "WAIT_CFM" \notin flags[s]
    BY <1>1 DEF OnList, UpInv, CallerInv, AnsInv, SignalInv
  <1>3. /\ pc'[t] = "remove"
        /\ \A u \in Callers : u # t => pc'[u] = pc[u]
    BY <1>1 DEF TypeOK
  <1>4. Listed' = Listed
    BY <1>1 DEF Listed
  <1>5. \A q \in Listed : Waiting(q) /\ q # s => Waiting(q)'
    BY <1>1, <1>3 DEF Waiting
  <1>6. FlightInv'
    BY <1>1, <1>2, <1>4, <1>5 DEF AnsInv, FlightInv
  <1>7. FreshInv'
    BY <1>1, <1>3, <1>4 DEF AnsInv, FreshInv, Pushing
  <1>8. SignalInv'
    BY <1>1, <1>4 DEF AnsInv, SignalInv
  <1>9. OwnInv'
    BY <1>1, <1>2, <1>3 DEF AnsInv, OwnInv, OnList
  <1> QED
    BY <1>6, <1>7, <1>8, <1>9 DEF AnsInv

\* What list_del takes off the list is confirmed, or nobody waits for it any more.
LEMMA AnsListDel ==
    ASSUME TypeOK, UpInv, AnsInv, NEW s, ListDel(s), ~Waiting(s),
           UNCHANGED <<flags, reqid, e2a_msg, tkn, complete, kind, cmd, buf, next, wflags, fw>>,
           \A q \in Slots : Waiting(q) => Waiting(q)',
           \A u \in Callers :
             /\ pc'[u] \in {"push", "wait"} <=> pc[u] \in {"push", "wait"}
             /\ pc'[u] = "push" <=> pc[u] = "push"
             /\ pc'[u] \in {"remove", "free"} <=> pc[u] \in {"remove", "free"}
             /\ pc'[u] = "remove" => pc[u] = "remove",
           wpc' \in {"clear", "push"} => wpc' = wpc
    PROVE  AnsInv'
  <1>1. Listed' = Listed \ {s} /\ Listed \subseteq Slots
    <2>1. Listed' = Listed \ {s}
      BY ListDelFacts
    <2>2. Listed \subseteq Slots
      BY DEF Listed, TypeOK
    <2> QED
      BY <2>1, <2>2
  <1>2. FlightInv'
    BY <1>1 DEF AnsInv, FlightInv
  <1>3. FreshInv'
    BY <1>1 DEF AnsInv, FreshInv, Pushing
  <1>4. SignalInv'
    BY <1>1 DEF AnsInv, SignalInv
  <1>5. OwnInv'
    BY DEF AnsInv, OwnInv, OnList
  <1> QED
    BY <1>2, <1>3, <1>4, <1>5 DEF AnsInv

LEMMA AnsUnlink ==
    ASSUME TypeOK, UpInv, AnsInv, NEW t \in Callers, Unlink(t)
    PROVE  AnsInv'
  <1>1. /\ pc[t] = "remove" /\ ListDel(cmd[t]) /\ pc' = [pc EXCEPT ![t] = "free"]
        /\ UNCHANGED <<flags, reqid, e2a_msg, tkn, complete, kind, cmd, buf,
                       wpc, next, wflags, fw>>
    BY DEF Unlink, slotVars, workVars, envVars
  <1>2. pc'[t] = "free" /\ \A u \in Callers : u # t => pc'[u] = pc[u]
    BY <1>1 DEF TypeOK
  <1>3. ~Waiting(cmd[t])
    BY <1>1 DEF Waiting, UpInv, CallersApart, WorkInv, WorkBusy, OnList
  <1>4. \A q \in Slots : Waiting(q) => Waiting(q)'
    BY <1>1, <1>2 DEF Waiting
  <1>5. \A u \in Callers :
             /\ pc'[u] \in {"push", "wait"} <=> pc[u] \in {"push", "wait"}
             /\ pc'[u] = "push" <=> pc[u] = "push"
             /\ pc'[u] \in {"remove", "free"} <=> pc[u] \in {"remove", "free"}
             /\ pc'[u] = "remove" => pc[u] = "remove"
    BY <1>1, <1>2
  <1> QED
    BY <1>1, <1>3, <1>4, <1>5, AnsListDel

LEMMA AnsWorkUnlink ==
    ASSUME TypeOK, UpInv, AnsInv, WorkUnlink
    PROVE  AnsInv'
  <1>1. /\ wpc = "remove" /\ ListDel(next) /\ wpc' = "free"
        /\ UNCHANGED <<flags, reqid, e2a_msg, tkn, complete, pc, kind, cmd, buf,
                       next, wflags, fw>>
    BY DEF WorkUnlink, slotVars, callVars, envVars
  <1>2. ~Waiting(next)
    BY <1>1 DEF Waiting, UpInv, WorkInv, WorkBusy, OnList
  <1>3. \A q \in Slots : Waiting(q) => Waiting(q)'
    BY <1>1 DEF Waiting
  <1> QED
    BY <1>1, <1>2, <1>3, AnsListDel

\* The work between the look at the first command and the end of its wait.
LEMMA AnsWork ==
    ASSUME TypeOK, UpInv, AnsInv,
           \/ WorkStart \/ WorkLook \/ WorkPush \/ WorkCompleted \/ WorkUnlinkAgain \/ WorkFree
    PROVE  AnsInv'
  <1> USE DEF mgrVars, slotVars, callVars, envVars
  <1>1. /\ UNCHANGED <<cmds, flags, reqid, e2a_msg, tkn, pc, kind, cmd, buf>>
        /\ complete' \subseteq complete
    BY DEF WorkStart, WorkLook, WorkPush, WorkCompleted, WorkUnlinkAgain, WorkFree
  <1>2. Listed' = Listed /\ Listed \subseteq Slots
    BY <1>1 DEF Listed, TypeOK
  <1>3. SignalInv' /\ OwnInv'
    BY <1>1, <1>2 DEF AnsInv, SignalInv, OwnInv, OnList
  <1>4. cmds # <<>> => cmds[1] \in Listed
    BY DEF Listed, TypeOK
  <1>5. ASSUME fw' = fw, wpc # "wait", wpc' \notin {"clear", "push"} PROVE AnsInv'
    <2>1. FlightInv'
      BY <1>1, <1>2, <1>5 DEF AnsInv, FlightInv, Waiting
    <2>2. FreshInv'
      BY <1>1, <1>2, <1>5 DEF AnsInv, FreshInv, Pushing
    <2> QED
      BY <1>3, <2>1, <2>2 DEF AnsInv
  <1>6. CASE WorkStart \/ WorkUnlinkAgain \/ WorkFree
    BY <1>5, <1>6 DEF WorkStart, WorkUnlinkAgain, WorkFree
  <1>7. CASE WorkLook
    <2>1. FlightInv'
      BY <1>1, <1>2, <1>7 DEF WorkLook, AnsInv, FlightInv, Waiting
    <2>2. FreshInv'
      BY <1>1, <1>2, <1>4, <1>7 DEF WorkLook, AnsInv, FreshInv, Pushing
    <2> QED
      BY <1>3, <2>1, <2>2 DEF AnsInv
  <1>8. CASE WorkPush
    <2>1. /\ wpc = "push" /\ wpc' = "wait" /\ next' = next /\ wflags' = wflags
          /\ fw' = fw \cup {[id |-> reqid[next], tkn |-> tkn[next]]} \/ fw' = fw
      BY <1>8 DEF WorkPush, Transmit
    <2>2. next \in Listed /\ "WAIT_CFM" \in flags[next]
      BY <1>4, <2>1 DEF UpInv, WorkInv, AnsInv, FreshInv
    <2>3. \A q \in Listed : Waiting(q) => Waiting(q)'
      BY <1>1, <2>1 DEF Waiting
    <2>4. Waiting(next)'
      BY <2>1 DEF Waiting
    <2>5. FlightInv'
      <3> SUFFICES ASSUME NEW m \in fw'
                   PROVE  \E q \in Listed : /\ Waiting(q)' /\ reqid[q] = m.id
                                            /\ tkn[q] = m.tkn /\ "WAIT_CFM" \in flags[q]
        BY <1>1, <1>2 DEF FlightInv
      <3>1. CASE m \in fw
        BY <2>3, <3>1 DEF AnsInv, FlightInv
      <3>2. CASE m = [id |-> reqid[next], tkn |-> tkn[next]]
        <4>1. m.id = reqid[next] /\ m.tkn = tkn[next]
          BY <3>2
        <4> QED
          BY <2>1, <2>2, <2>4, <4>1
      <3> QED
        BY <2>1, <3>1, <3>2
    <2>6. FreshInv'
      BY <1>1, <1>2, <2>1 DEF AnsInv, FreshInv, Pushing
    <2> QED
      BY <1>3, <2>5, <2>6 DEF AnsInv
  <1>9. CASE WorkCompleted
    <2>1. wpc = "wait" /\ wpc' = "remove" /\ next \in complete /\ next' = next /\ fw' = fw
      BY <1>9 DEF WorkCompleted
    <2>2. next \in Listed /\ "WAIT_CFM" \notin flags[next]
      BY <1>4, <2>1 DEF UpInv, WorkInv, AnsInv, SignalInv
    <2>3. \A q \in Listed : Waiting(q) /\ q # next => Waiting(q)'
      BY <1>1, <2>1 DEF Waiting
    <2>4. FlightInv'
      BY <1>1, <1>2, <2>1, <2>2, <2>3 DEF AnsInv, FlightInv
    <2>5. FreshInv'
      BY <1>1, <1>2, <2>1 DEF AnsInv, FreshInv, Pushing
    <2> QED
      BY <1>3, <2>4, <2>5 DEF AnsInv
  <1> QED
    BY <1>6, <1>7, <1>8, <1>9

\* The work stores back the flags it loaded; WAIT_CFM was in them.
LEMMA AnsWorkClear ==
    ASSUME TypeOK, UpInv, AnsInv, WorkClear
    PROVE  AnsInv'
  <1>1. /\ wpc = "clear" /\ wpc' = "push"
        /\ flags' = [flags EXCEPT ![next] = wflags \ {"WAIT_PUSH"}]
        /\ UNCHANGED <<cmds, reqid, e2a_msg, tkn, complete, pc, kind, cmd, buf, next,
                       wflags, fw>>
    BY DEF WorkClear, mgrVars, callVars, envVars
  <1>2. /\ next \in Listed /\ "WAIT_PUSH" \in flags[next] /\ "WAIT_CFM" \in flags[next]
        /\ "WAIT_CFM" \in wflags
    BY <1>1 DEF UpInv, WorkInv, AnsInv, FreshInv, Listed, TypeOK
  <1>3. Listed' = Listed /\ Listed \subseteq Slots
    BY <1>1 DEF Listed, TypeOK
  <1>4. /\ \A q \in Slots : q # next => flags'[q] = flags[q]
        /\ flags'[next] = wflags \ {"WAIT_PUSH"}
    BY <1>1, <1>2, <1>3 DEF TypeOK
  <1>5. \A q \in Slots : "WAIT_CFM" \in flags[q] <=> "WAIT_CFM" \in flags'[q]
    BY <1>2, <1>4
  <1>6. FlightInv'
    <2>1. \A q \in Listed : Waiting(q) => Waiting(q)'
      BY <1>1 DEF Waiting
    <2> QED
      BY <1>1, <1>3, <1>5, <2>1 DEF AnsInv, FlightInv
  <1>7. FreshInv'
    <2>1. \A u \in Callers : cmd[u] \in Slots
      BY DEF TypeOK
    <2> QED
      BY <1>1, <1>2, <1>3, <1>4, <1>5, <2>1 DEF AnsInv, FreshInv, Pushing
  <1>8. SignalInv'
    BY <1>1, <1>3, <1>5 DEF AnsInv, SignalInv
  <1>9. OwnInv'
    <2>1. \A u \in Callers : cmd[u] \in Slots
      BY DEF TypeOK
    <2> QED
      BY <1>1, <1>5, <2>1 DEF AnsInv, OwnInv, OnList
  <1> QED
    BY <1>6, <1>7, <1>8, <1>9 DEF AnsInv

\* Nobody pushes what somebody waits for.
LEMMA WaitingNotPushed ==
    ASSUME TypeOK, UpInv, NEW s \in Listed, Waiting(s)
    PROVE  /\ "WAIT_PUSH" \notin flags[s]
           /\ \A t \in Pushing : cmd[t] # s
           /\ wpc \in {"clear", "push"} => next # s
           /\ \A t \in Callers : pc[t] \in {"remove", "free"} => cmd[t] # s
  <1>1. CASE wpc = "wait" /\ next = s
    BY <1>1 DEF UpInv, WorkInv, WorkBusy, Pushing, OnList, OffList
  <1>2. ASSUME NEW u \in Callers, pc[u] = "wait", cmd[u] = s
        PROVE  /\ "WAIT_PUSH" \notin flags[s]
               /\ \A t \in Pushing : cmd[t] # s
               /\ wpc \in {"clear", "push"} => next # s
               /\ \A t \in Callers : pc[t] \in {"remove", "free"} => cmd[t] # s
    <2>1. OnList(u)
      BY <1>2 DEF OnList
    <2>2. "WAIT_PUSH" \notin flags[s]
      BY <1>2, <2>1 DEF UpInv, CallerInv
    <2>3. wpc \in {"clear", "push"} => next # s
      BY <1>2, <2>1, <2>2 DEF UpInv, WorkInv, WorkBusy
    <2>4. ASSUME NEW t \in Callers, t \in Pushing \/ pc[t] \in {"remove", "free"}
          PROVE cmd[t] # s
      <3>1. (OnList(t) \/ OffList(t)) /\ t # u
        BY <1>2, <2>4 DEF OnList, OffList, Pushing
      <3> QED
        BY <1>2, <2>1, <3>1 DEF UpInv, CallersApart
    <2>5. Pushing \subseteq Callers
      BY DEF Pushing
    <2> QED
      BY <2>2, <2>3, <2>4, <2>5
  <1> QED
    BY <1>1, <1>2 DEF Waiting

\* The first command with the identifier and a wait flag is the one the answer is
\* for, and then no answer is owed any more.
LEMMA AnsConfirm ==
    ASSUME TypeOK, UpInv, AnsInv, NEW m \in fw, Confirm(m)
    PROVE  AnsInv'
  <1>1. PICK i \in 1 .. Len(cmds) :
          /\ Matches(i, m.id)
          /\ \A j \in 1 .. i - 1 : ~Matches(j, m.id)
          /\ flags' = [flags EXCEPT ![cmds[i]] = (@ \ {"WAIT_CFM"}) \cup {"DONE"}]
          /\ complete' = complete \cup {cmds[i]}
          /\ buf' = [t \in Callers |->
                       IF e2a_msg[cmds[i]] = t THEN m.tkn ELSE buf[t]]
    BY DEF Confirm
  <1>2. /\ fw' = fw \ {m}
        /\ UNCHANGED <<cmds, reqid, e2a_msg, tkn, pc, kind, cmd, wpc, next, wflags>>
    BY DEF Confirm, mgrVars, workVars
  <1>3. Listed' = Listed /\ Listed \subseteq Slots
    BY <1>2 DEF Listed, TypeOK
  <1>4. \A j \in 1 .. Len(cmds) : cmds[j] \in Listed /\ cmds[j] \in Slots
    BY <1>3 DEF Listed
  <1> DEFINE s == cmds[i]
  <1>5. s \in Listed /\ reqid[s] = m.id /\ "WAIT_CFM" \in flags[s]
    BY <1>1, <1>4 DEF Matches
  <1>6. \A n \in fw : \E q \in Listed : /\ Waiting(q) /\ reqid[q] = n.id /\ tkn[q] = n.tkn
                                         /\ "WAIT_CFM" \in flags[q]
    BY DEF AnsInv, FlightInv
  <1>7. ASSUME NEW q \in Listed, Waiting(q), reqid[q] = m.id, "WAIT_CFM" \in flags[q]
        PROVE  q = s
    <2>1. PICK k \in 1 .. Len(cmds) : cmds[k] = q
      BY DEF Listed
    <2>2. "WAIT_PUSH" \notin flags[q]
      BY <1>7, WaitingNotPushed
    <2>3. ~(k < i)
      BY <1>1, <1>7, <2>1 DEF Matches
    <2>4. ~(i < k)
      BY <1>1, <2>1, <2>2 DEF UpInv, OrderInv, Matches, WaitFlags
    <2> QED
      BY <2>1, <2>3, <2>4
  <1>8. Waiting(s) /\ tkn[s] = m.tkn
    BY <1>6, <1>7
  <1>9. ASSUME NEW n \in fw PROVE n = m
    <2>1. PICK q \in Listed : /\ Waiting(q) /\ reqid[q] = n.id /\ tkn[q] = n.tkn
                              /\ "WAIT_CFM" \in flags[q]
      BY <1>6
    <2>2. PICK k \in 1 .. Len(cmds) : cmds[k] = q
      BY DEF Listed
    <2>3. "WAIT_PUSH" \notin flags[q] /\ "WAIT_PUSH" \notin flags[s]
      BY <1>5, <1>8, <2>1, WaitingNotPushed
    <2>4. ~(k < i) /\ ~(i < k)
      BY <1>5, <2>1, <2>2, <2>3 DEF UpInv, OrderInv, WaitFlags
    <2>5. q = s
      BY <2>2, <2>4
    <2>6. n.id = m.id /\ n.tkn = m.tkn
      BY <1>5, <1>8, <2>1, <2>5
    <2>7. /\ n \in [id : ReqIds \cup {NoOne}, tkn : Nat]
          /\ m \in [id : ReqIds \cup {NoOne}, tkn : Nat]
      BY DEF TypeOK
    <2> QED
      BY <2>6, <2>7
  <1>10. FlightInv'
    BY <1>2, <1>9 DEF FlightInv
  <1>11. /\ \A q \in Slots : q # s => flags'[q] = flags[q]
         /\ "WAIT_CFM" \notin flags'[s]
         /\ "WAIT_PUSH" \in flags'[s] <=> "WAIT_PUSH" \in flags[s]
    BY <1>1, <1>4 DEF TypeOK
  <1>12. /\ "WAIT_PUSH" \notin flags[s]
         /\ \A t \in Pushing : cmd[t] # s
         /\ wpc \in {"clear", "push"} => next # s
         /\ \A t \in Callers : pc[t] \in {"remove", "free"} => cmd[t] # s
    BY <1>5, <1>8, WaitingNotPushed
  <1>13. \A u \in Callers : cmd[u] \in Slots /\ next \in Slots
    BY DEF TypeOK
  <1>14. FreshInv'
    <2>1. Pushing' = Pushing
      BY <1>2 DEF Pushing
    <2>2. \A t \in Pushing : t \in Callers
      BY DEF Pushing
    <2>3. wpc = "push" => "WAIT_CFM" \in flags'[next]
      <3>1. next \in Slots
        BY DEF TypeOK
      <3> QED
        BY <1>11, <1>12, <3>1 DEF AnsInv, FreshInv
    <2> QED
      BY <1>2, <1>3, <1>11, <1>12, <1>13, <2>1, <2>2, <2>3 DEF AnsInv, FreshInv
  <1>15. SignalInv'
    BY <1>1, <1>3, <1>11 DEF AnsInv, SignalInv
  <1>16. OwnInv'
    <2> SUFFICES ASSUME NEW u \in Callers, kind[u] = "data"
                 PROVE  /\ OnList(u)' => e2a_msg[cmd[u]] = u
                        /\ pc[u] = "wait" /\ "WAIT_CFM" \notin flags'[cmd[u]]
                             => buf'[u] = tkn[cmd[u]]
                        /\ pc[u] \in {"remove", "free"} => buf'[u] = tkn[cmd[u]]
      BY <1>2 DEF OwnInv
    <2>1. OnList(u)' => e2a_msg[cmd[u]] = u
      BY <1>2 DEF OnList, AnsInv, OwnInv
    <2>2. buf'[u] = IF e2a_msg[s] = u THEN m.tkn ELSE buf[u]
      BY <1>1
    <2>3. CASE cmd[u] = s
      <3>1. pc[u] = "wait" => e2a_msg[s] = u
        BY <2>3 DEF AnsInv, OwnInv, OnList
      <3> QED
        BY <1>8, <1>12, <2>1, <2>2, <2>3, <3>1
    <2>4. CASE cmd[u] # s
      <3>1. e2a_msg[s] # u
        BY <1>5, <2>4, NoOneAssumption DEF UpInv, BufferInv
      <3>2. buf'[u] = buf[u] /\ flags'[cmd[u]] = flags[cmd[u]]
        BY <1>11, <1>13, <2>2, <2>4, <3>1
      <3> QED
        BY <2>1, <3>2 DEF AnsInv, OwnInv
    <2> QED
      BY <2>3, <2>4
  <1> QED
    BY <1>10, <1>14, <1>15, <1>16 DEF AnsInv

\* Every step keeps what is owed, as long as nobody is killed.
LEMMA AnswersStep ==
    TypeOK /\ (Up => UpInv) /\ AnswersInv /\ [Next]_vars => AnswersInv'
  <1> SUFFICES ASSUME TypeOK, Up => UpInv, AnswersInv, [Next]_vars, ~MayKill, Up'
               PROVE  AnsInv'
    BY DEF AnswersInv
  <1>1. Up /\ UpInv /\ AnsInv
    <2>1. \/ UNCHANGED <<state, drained>>
          \/ state' \in {"CRASHED", "DEINIT"}
          \/ drained' = TRUE
      BY ZenonT(40) DEF Next, CallerStep, WorkStep, BusStep, vars, mgrVars, Send, SendNoCmd,
         QueueCrashed, QueueFull, Enqueue, Wake, Push, PushNoCfm, Completed, TimedOut,
         CrashOn, Unlink, UnlinkAgain, Free, WakeNext, FreeFailed, Gone, WorkStart,
         WorkLook, WorkClear, WorkPush, WorkCompleted, WorkTimedOut, WorkUnlink,
         WorkUnlinkAgain, WorkFree, Confirm, ConfirmUnmatched, BusDown, BusUp, Drain, Deinit
    <2> QED
      BY <2>1 DEF Up, AnswersInv
  <1>2. ASSUME fw' \subseteq fw,
               UNCHANGED <<cmds, flags, reqid, e2a_msg, tkn, complete, callVars, next, wpc, wflags>>
        PROVE  AnsInv'
    <2>1. Listed' = Listed
      BY <1>2 DEF Listed
    <2>2. \A s \in Listed : Waiting(s) => Waiting(s)'
      BY <1>2 DEF Waiting, callVars
    <2>3. FlightInv'
      BY <1>1, <1>2, <2>1, <2>2 DEF AnsInv, FlightInv
    <2>4. FreshInv' /\ SignalInv' /\ OwnInv'
      BY <1>1, <1>2, <2>1 DEF AnsInv, FreshInv, SignalInv, OwnInv, Pushing, OnList, callVars
    <2> QED
      BY <2>3, <2>4 DEF AnsInv
  <1>3. CASE BusDown \/ BusUp \/ \E m \in fw : ConfirmUnmatched(m)
    BY <1>2, <1>3 DEF BusDown, BusUp, ConfirmUnmatched, mgrVars, slotVars, workVars
  <1>4. CASE UNCHANGED vars
    BY <1>2, <1>4 DEF vars, mgrVars, slotVars, workVars, envVars
  <1>5. ~(\E t \in Callers : TimedOut(t)) /\ ~WorkTimedOut /\ ~Drain /\ ~Deinit
    BY DEF Up, TimedOut, WorkTimedOut, CrashOn, Drain, Deinit
  <1>6. ASSUME NEW t \in Callers, Send(t) \/ SendNoCmd(t) \/ CallerStep(t) PROVE AnsInv'
    BY <1>1, <1>5, <1>6, AnsSend, AnsSimple, AnsEnqueue, AnsPush, AnsCompleted, AnsUnlink
       DEF CallerStep
  <1>7. CASE WorkStep
    BY <1>1, <1>5, <1>7, AnsWork, AnsWorkClear, AnsWorkUnlink DEF WorkStep
  <1>8. ASSUME NEW m \in fw, Confirm(m) PROVE AnsInv'
    BY <1>1, <1>8, AnsConfirm
  <1> QED
    BY <1>3, <1>4, <1>5, <1>6, <1>7, <1>8 DEF Next, BusStep

\* As long as no wait is ended by a fatal signal, one context at a time formats into
\* the one bus->cmd_buf, and a call that ends successfully has in its buffer the answer
\* to its own request, with any number of callers and any reuse of identifiers.
THEOREM AnswersAreOwn == Spec => [](~MayKill => AnswersSound)
  <1>1. Init => AnswersInv
    BY DEF Init, AnswersInv, AnsInv, FlightInv, FreshInv, SignalInv, OwnInv, Pushing,
       OnList, Listed
  <1>2. IInv /\ AnswersInv /\ [Next]_vars => AnswersInv'
    BY AnswersStep DEF IInv
  <1>3. IInv /\ AnswersInv => (~MayKill => AnswersSound)
    <2> SUFFICES ASSUME TypeOK, Up, UpInv, AnsInv
                 PROVE  /\ \A t, u \in Pushing : t = u
                        /\ wpc = "push" => Pushing = {}
                        /\ \A t \in Callers : /\ pc[t] \in {"remove", "free"} /\ kind[t] = "data"
                                              => buf[t] = tkn[cmd[t]]
      BY DEF IInv, AnswersInv, AnswersSound, OnePusher, AnswerIsOwn
    <2>1. ASSUME NEW t \in Pushing
          PROVE  /\ t \in Callers /\ OnList(t) /\ cmd[t] \in Listed
                 /\ "WAIT_PUSH" \notin flags[cmd[t]] /\ "WAIT_CFM" \in flags[cmd[t]]
      BY DEF Pushing, OnList, UpInv, CallerInv, AnsInv, FreshInv
    <2>2. ASSUME NEW s \in Listed, NEW q \in Listed,
                 "WAIT_PUSH" \notin flags[s], "WAIT_CFM" \in flags[s],
                 "WAIT_PUSH" \notin flags[q], "WAIT_CFM" \in flags[q]
          PROVE  s = q
      <3>1. PICK i \in 1 .. Len(cmds) : cmds[i] = s
        BY DEF Listed
      <3>2. PICK j \in 1 .. Len(cmds) : cmds[j] = q
        BY DEF Listed
      <3>3. ~(i < j) /\ ~(j < i)
        BY <2>2, <3>1, <3>2 DEF UpInv, OrderInv, WaitFlags
      <3> QED
        BY <3>1, <3>2, <3>3
    <2>3. \A t, u \in Pushing : t = u
      BY <2>1, <2>2 DEF UpInv, CallersApart
    <2>4. ASSUME wpc = "push", NEW t \in Pushing PROVE FALSE
      <3>1. /\ next \in Listed /\ "WAIT_PUSH" \notin flags[next] /\ "WAIT_CFM" \in flags[next]
        BY <2>4 DEF UpInv, WorkInv, WorkBusy, AnsInv, FreshInv, Listed, TypeOK
      <3>2. cmd[t] = next
        BY <2>1, <2>2, <3>1
      <3> QED
        BY <2>1, <2>4, <3>2 DEF UpInv, WorkInv, WorkBusy
    <2>5. \A t \in Callers : /\ pc[t] \in {"remove", "free"} /\ kind[t] = "data"
                             => buf[t] = tkn[cmd[t]]
      BY DEF AnsInv, OwnInv
    <2> QED
      BY <2>3, <2>4, <2>5
  <1> QED
    BY <1>1, <1>2, <1>3, Invariant, PTL DEF Spec
=============================================================================
