---------------------------- MODULE TcpAckProofs ----------------------------
(***************************************************************************)
(* The ACK filter of TcpAck for any flows, queues, slots, message buffers, *)
(* sequence spaces and load: AcksSound is an invariant.                    *)
(*                                                                         *)
(* One owner per message rests on the places a message can be (Own), and   *)
(* holds for any number of network queues.  That the newest number is kept *)
(* rests on what a slot in use knows (Single): its seq lags at most one    *)
(* number behind its flow, two while that flow's frame is on its way, so   *)
(* that 32-bit comparison is right; a message it holds is of its flow and  *)
(* has a timer that will send it, so that a slot with a message is never   *)
(* freed for age; and a message being sent is forgotten when it was sent.  *)
(***************************************************************************)
EXTENDS TcpAck, FiniteSetTheorems, WellFoundedInduction, TLAPS

\* What is in a queue's hands, and in a timer handler's.
Own ==
    /\ \A q \in Queues : xmsg[q] # Null <=> xpc[q] # "idle"
    /\ \A s \in Slots : hmsg[s] # Null <=> hpc[s] = "move"
    /\ \A s, t \in Slots : msgbuf[s] # Null /\ msgbuf[s] = msgbuf[t] => s = t
    /\ \A s, t \in Slots : hmsg[s] # Null /\ hmsg[s] = hmsg[t] => s = t
    /\ \A p, q \in Queues : xmsg[p] # Null /\ xmsg[p] = xmsg[q] => p = q
    /\ \A s, t \in Slots : msgbuf[s] # Null => msgbuf[s] # hmsg[t]
    /\ \A s \in Slots, q \in Queues : xmsg[q] # Null => xmsg[q] # msgbuf[s] /\ xmsg[q] # hmsg[s]
    /\ \A m \in Msgs : mem[m] # NoAck <=> \/ \E s \in Slots : msgbuf[s] = m \/ hmsg[s] = m
                                          \/ \E q \in Queues : xmsg[q] = m
    /\ \A m \in Msgs : mem[m] # NoAck => mem[m].n >= 1

\* The slots in use and those being given out are counted.
Filling == {q \in Queues : xpc[q] = "fill"}
Counted == IsFiniteSet(Filling) /\ Cardinality(busy) + Cardinality(Filling) <= max_num

\* tcp_ack_deinit: what it has seen stays empty, as no frame comes any more.
Released ==
    /\ stage # "up" => \A q \in Queues : xpc[q] = "idle"
    /\ ~enable => stage # "up"
    /\ enable => todo = {}
    /\ stage = "off" => ~enable /\ todo = {}
    /\ ~enable => \A s \in Slots \ todo : s \notin pend /\ msgbuf[s] = Null

\* How far the seq of a slot of flow f may lag behind newest[f].
Lag(f) == IF \E q \in Queues : /\ xpc[q] \in {"match", "handle"} /\ mem[xmsg[q]].flow = f
                               /\ mem[xmsg[q]].n = newest[f]
          THEN 2 ELSE 1

\* The numbers of the messages and of the flows.
Numbers ==
    /\ \A f \in Flows : sent[f] <= newest[f]
    /\ \A m \in Msgs : mem[m] # NoAck => mem[m].n <= newest[mem[m].flow]
    /\ \A q \in Queues : xpc[q] # "idle" => mem[xmsg[q]].n >= newest[mem[xmsg[q]].flow] - 1

\* The slot that the frame under way is matched with, or will get.
Path ==
    /\ \A q \in Queues : xpc[q] \in {"alloc", "fill"} => \A s \in busy : key[s] # mem[xmsg[q]].flow
    /\ \A q \in Queues : xpc[q] = "handle" => xslot[q] \in busy /\ key[xslot[q]] = mem[xmsg[q]].flow
    /\ \A q \in Queues : xpc[q] = "fill" => xslot[q] \notin busy /\ free_index = -1
    /\ free_index \notin busy

\* A slot in use is of one flow, whose numbers it knows.
Known ==
    /\ \A s \in busy : key[s] \in Flows
    /\ \A s, t \in busy : key[s] = key[t] => s = t
    /\ \A s \in busy : \E b \in newest[key[s]] - Lag(key[s]) .. newest[key[s]] : seq[s] = Seq32(b)

\* A message that waits in a slot, and one that a slot knows to be under way.
Timed ==
    /\ \A s \in Slots : msgbuf[s] # Null =>
          /\ s \in busy /\ mem[msgbuf[s]].flow = key[s] /\ seq[s] = Seq32(mem[msgbuf[s]].n)
          /\ s \in pend \/ hpc[s] = "lock"
    /\ \A s \in old : s \notin pend /\ hpc[s] = "idle" /\ in_send_msg[s] = Null
    /\ \A s \in Slots : in_send_msg[s] # Null =>
          /\ s \in busy
          /\ \/ hpc[s] = "move" /\ in_send_msg[s] = hmsg[s]
             \/ \E q \in Queues : /\ xpc[q] = "move" /\ xslot[q] = s /\ in_send_msg[s] = xmsg[q]
                                  /\ msgbuf[s] = Null

Kept == \A f \in Flows : sent[f] = newest[f] \/ \E m \in Live : mem[m].flow = f /\ mem[m].n = newest[f]

Tracked == Numbers /\ Path /\ Known /\ Timed /\ Kept
Single == OneQueue /\ enable => Tracked

IInv == TypeOK /\ Own /\ Counted /\ Released /\ Single

-----------------------------------------------------------------------------
(* Facts about the operators                                               *)

LEMMA MinNat ==
    ASSUME NEW S, S \subseteq Nat, S # {}
    PROVE  Min(S) \in S /\ \A x \in S : Min(S) <= x
  <1>1. IsWellFoundedOn(OpToRel(<, Nat), Nat)
    BY NatLessThanWellFounded
  <1>2. PICK R : R = OpToRel(<, Nat)
    OBVIOUS
  <1>3. IsWellFoundedOn(R, Nat)
    BY <1>1, <1>2
  <1>4. PICK x \in S : \A y \in S : <<y, x>> \notin R
    BY <1>3, WFMin
  <1>5. \A y \in S : ~(y < x)
    BY <1>2, <1>4 DEF OpToRel
  <1>6. \A y \in S : x <= y
    BY <1>5
  <1> QED
    BY <1>6 DEF Min

LEMMA MaxOfTwo ==
    ASSUME NEW a \in Int, NEW b \in Int
    PROVE  Max({a, b}) = IF a >= b THEN a ELSE b
  BY DEF Max

LEMMA Modulus == 2 * Half \in Nat /\ 2 * Half >= 4
  BY SeqAssumption

\* Numbers that differ by at most two compare as they are.
LEMMA SeqFacts ==
    /\ \A n \in Int : Seq32(n) \in 0 .. 2 * Half - 1
    /\ \A b, n \in Int : b <= n /\ n <= b + 2 => Before(Seq32(b), Seq32(n))
    /\ \A n \in Int : ~Before(Seq32(n), Seq32(n - 1))
  <1>1. PICK M \in Nat : M = 2 * Half /\ M >= 4 /\ Half >= 2 /\ Half \in Nat
    BY Modulus, SeqAssumption
  <1>2. \A n \in Int : n % M \in 0 .. M - 1
    BY <1>1
  <1>3. \A n \in Int : (n + 1) % M = IF n % M = M - 1 THEN 0 ELSE (n % M) + 1
    BY <1>1, SMTT(30)
  <1>4. \A x \in 0 .. M - 1 : x % M = x /\ (x - M) % M = x
    BY <1>1, SMTT(30)
  <1>5. ASSUME NEW b \in Int PROVE /\ (((b + 1) % M) - (b % M)) % M = 1
                                   /\ (((b + 2) % M) - (b % M)) % M = 2
                                   /\ ((b % M) - (b % M)) % M = 0
                                   /\ ((b % M) - ((b + 1) % M)) % M = M - 1
    <2>1. PICK x \in 0 .. M - 1 : x = b % M
      BY <1>2
    <2>2. PICK y : y = (b + 1) % M
      OBVIOUS
    <2>3. y \in 0 .. M - 1 /\ y = IF x = M - 1 THEN 0 ELSE x + 1
      <3>1. b + 1 \in Int
        OBVIOUS
      <3>2. (b + 1) % M \in 0 .. M - 1 /\ (b + 1) % M = IF b % M = M - 1 THEN 0 ELSE (b % M) + 1
        BY <1>2, <1>3, <3>1, Zenon
      <3> QED
        BY <3>2, <2>1, <2>2
    <2>4. PICK z : /\ z = (b + 2) % M /\ z \in 0 .. M - 1
                   /\ z = IF y = M - 1 THEN 0 ELSE y + 1
      <3>1. PICK c \in Int : c = b + 1
        OBVIOUS
      <3>2. c + 1 = b + 2 /\ c + 1 \in Int
        BY <3>1
      <3>3. (c + 1) % M \in 0 .. M - 1 /\ (c + 1) % M = IF c % M = M - 1 THEN 0 ELSE (c % M) + 1
        BY <1>2, <1>3, <3>2, Zenon
      <3> QED
        BY <3>1, <3>2, <3>3, <2>2
    <2>5. \A d \in 0 .. M - 1 : d % M = d /\ (d - M) % M = d
      BY <1>4
    <2>6. /\ y - x = 1 \/ y - x = 1 - M
          /\ z - x = 2 \/ z - x = 2 - M
          /\ x - y = M - 1 \/ x - y = (M - 1) - M
          /\ 1 \in 0 .. M - 1 /\ 2 \in 0 .. M - 1 /\ 0 \in 0 .. M - 1 /\ M - 1 \in 0 .. M - 1
      BY <1>1, <2>1, <2>3, <2>4
    <2>7. (y - x) % M = 1 /\ (z - x) % M = 2 /\ (x - x) % M = 0 /\ (x - y) % M = M - 1
      BY <2>5, <2>6
    <2> QED
      BY <2>1, <2>2, <2>4, <2>7
  <1>6. ASSUME NEW b \in Int, NEW n \in Int, b <= n, n <= b + 2 PROVE Before(Seq32(b), Seq32(n))
    <2>1. n = b \/ n = b + 1 \/ n = b + 2
      BY <1>6
    <2> QED
      BY <2>1, <1>1, <1>5 DEF Before, Seq32
  <1>7. ASSUME NEW n \in Int PROVE ~Before(Seq32(n), Seq32(n - 1))
    <2>1. n - 1 \in Int /\ (n - 1) + 1 = n
      OBVIOUS
    <2>2. PICK b \in Int : b = n - 1 /\ b + 1 = n
      BY <2>1
    <2>3. ((b % M) - ((b + 1) % M)) % M = M - 1
      BY <1>5
    <2> QED
      BY <1>1, <2>2, <2>3 DEF Before, Seq32
  <1> QED
    BY <1>1, <1>2, <1>6, <1>7 DEF Seq32

LEMMA SlotFacts ==
    /\ 0 \in Slots /\ Slots \subseteq Nat /\ Msgs \subseteq Nat \ {0}
    /\ Null \notin Msgs /\ \A q \in Flows : QueueOf[q] \in Queues
    /\ \A S \in SUBSET Slots : S # {} => Min(S) \in S
    /\ \A S \in SUBSET Msgs : S # {} => Min(S) \in S
  <1>1. NSlots \in Nat \ {0} /\ NMsgs \in Nat \ {0}
    BY SlotsAssumption, MsgsAssumption
  <1>2. 0 \in Slots /\ Slots \subseteq Nat /\ Msgs \subseteq Nat \ {0} /\ Null \notin Msgs
    BY <1>1 DEF Slots, Msgs, Null
  <1>3. \A S \in SUBSET Nat : S # {} => Min(S) \in S
    BY MinNat
  <1> QED
    BY <1>2, <1>3, QueueAssumption

-----------------------------------------------------------------------------
(* Types                                                                   *)

LEMMA TypeInit == Init => TypeOK
  <1> SUFFICES ASSUME Init PROVE TypeOK
    OBVIOUS
  <1>1. 0 \in 0 .. 2 * Half - 1 /\ 0 \in 0 .. MaxN /\ 0 \in Slots
    BY SlotFacts, SeqAssumption, Modulus
  <1> QED
    BY <1>1 DEF Init, TypeOK

LEMMA TypeXmit ==
    ASSUME TypeOK, Own, NEW q \in Queues, xpc[q] # "idle"
    PROVE  xmsg[q] \in Msgs /\ mem[xmsg[q]] \in Acks /\ mem[xmsg[q]] # NoAck
           /\ mem[xmsg[q]].flow \in Flows /\ mem[xmsg[q]].n \in 0 .. MaxN
  <1>1. xmsg[q] \in Msgs /\ mem[xmsg[q]] # NoAck
    BY DEF TypeOK, Own
  <1>2. mem[xmsg[q]] \in Acks
    BY <1>1 DEF TypeOK
  <1> QED
    BY <1>1, <1>2 DEF Acks

LEMMA TypeStartXmit ==
    ASSUME TypeOK, Counted, NEW f \in Flows, NEW n \in Offer(f), StartXmit(f, n)
    PROVE  TypeOK' /\ Counted'
  <1>1. PICK q \in Queues : q = QueueOf[f]
    BY SlotFacts
  <1>2. last[f] \in 0 .. MaxN /\ n \in 0 .. MaxN /\ newest[f] \in 0 .. MaxN /\ MaxN \in Nat
    BY SeqAssumption DEF TypeOK, StartXmit
  <1>3. newest' \in [Flows -> 0 .. MaxN]
    <2>1. Max({newest[f], n}) \in 0 .. MaxN
      BY <1>2, MaxOfTwo
    <2> QED
      BY <2>1 DEF TypeOK, StartXmit
  <1>4. PICK aged \in SUBSET busy :
           /\ busy' = busy \ aged /\ max_num' = max_num - Cardinality(aged)
           /\ free_index' = IF aged = {} THEN free_index ELSE Min(aged)
    BY DEF StartXmit, tcp_ack_update
  <1>5. /\ IsFiniteSet(busy) /\ IsFiniteSet(aged)
        /\ Cardinality(busy') = Cardinality(busy) - Cardinality(aged)
        /\ Cardinality(busy) \in Nat /\ Cardinality(aged) \in Nat /\ Cardinality(busy') \in Nat
    <2>1. IsFiniteSet(Slots)
      BY SlotsAssumption, FS_Interval DEF Slots
    <2>2. IsFiniteSet(busy)
      BY <2>1, FS_Subset DEF TypeOK
    <2>3. IsFiniteSet(aged)
      BY <2>2, FS_Subset
    <2>4. busy \cap aged = aged
      OBVIOUS
    <2>5. IsFiniteSet(busy \ aged) /\ Cardinality(busy \ aged) = Cardinality(busy) - Cardinality(aged)
      BY <2>2, <2>4, FS_Difference
    <2> QED
      BY <1>4, <2>2, <2>3, <2>5, FS_CardinalityType
  <1>6. Filling' = Filling
    BY <1>1 DEF StartXmit, Filling, TypeOK
  <1>7. Counted' /\ max_num' \in Nat
    <2>1. Cardinality(Filling) \in Nat /\ max_num \in Nat /\ IsFiniteSet(Filling)
          /\ Cardinality(busy) + Cardinality(Filling) <= max_num
      BY FS_CardinalityType DEF Counted, TypeOK
    <2>2. PICK a, b, c \in Nat : a = Cardinality(busy) /\ b = Cardinality(aged) /\ c = Cardinality(Filling)
      BY <1>5, <2>1
    <2>3. Cardinality(busy') = a - b /\ max_num' = max_num - b /\ Cardinality(Filling') = c
      BY <1>4, <1>5, <1>6, <2>2
    <2> QED
      BY <1>5, <1>6, <2>1, <2>2, <2>3 DEF Counted
  <1>8. free_index' \in Slots \cup {-1}
    BY <1>4, SlotFacts DEF TypeOK
  <1>9. PICK m \in Msgs : /\ mem' = [mem EXCEPT ![m] = [flow |-> f, n |-> n]]
                          /\ xmsg' = [xmsg EXCEPT ![q] = m]
    <2>1. Msgs \ Live # {}
      BY DEF StartXmit, Live
    <2>2. Min(Msgs \ Live) \in Msgs
      BY <2>1, SlotFacts
    <2> QED
      BY <2>2, <1>1 DEF StartXmit
  <1>10. mem' \in [Msgs -> Acks \cup {NoAck}] /\ xmsg' \in [Queues -> Msgs \cup {Null}]
    BY <1>2, <1>9 DEF TypeOK, Acks
  <1>11. /\ xpc' = [xpc EXCEPT ![q] = "match"] /\ due' = FALSE
         /\ UNCHANGED <<last, stage, enable, todo, old, key, seq, drop_cnt, psh, msgbuf, in_send_msg,
                        pend, hpc, hmsg, xslot, sent>>
    BY <1>1 DEF StartXmit, tcp_ack_update, stageVars, slotVars, handVars, timerVars
  <1>12. TypeOK'
    BY <1>3, <1>4, <1>7, <1>8, <1>10, <1>11 DEF TypeOK
  <1> QED
    BY <1>7, <1>12

LEMMA TypeAlloc ==
    ASSUME TypeOK, Counted, NEW q \in Queues, Alloc(q)
    PROVE  TypeOK' /\ Counted'
  <1>1. /\ xpc[q] = "alloc" /\ busy' = busy
        /\ UNCHANGED <<last, stage, enable, todo, due, busy, old, key, seq, drop_cnt, psh, msgbuf,
                       in_send_msg, pend, hpc, hmsg, xmsg, mem, newest, sent>>
    BY DEF Alloc, stageVars, slotVars, handVars, timerVars, flowVars
  <1>2. \/ /\ xpc' = [xpc EXCEPT ![q] = "move"] /\ UNCHANGED <<max_num, free_index, xslot>>
        \/ /\ xpc' = [xpc EXCEPT ![q] = "fill"] /\ free_index' = -1
           /\ \E k \in Nat : max_num' = max_num + 1 + k
           /\ \E s \in Slots : xslot' = [xslot EXCEPT ![q] = s]
    <2>1. free_index >= 0 => free_index \in Slots
      BY DEF TypeOK
    <2>2. Slots \ busy # {} => Min(Slots \ busy) \in Slots
      BY SlotFacts
    <2>3. 0 .. Retries \subseteq Nat /\ 0 \in Nat
      OBVIOUS
    <2> QED
      BY <2>1, <2>2, <2>3 DEF Alloc
  <1>3. /\ IsFiniteSet(Filling) /\ Cardinality(Filling) \in Nat /\ max_num \in Nat
        /\ Cardinality(busy) + Cardinality(Filling) <= max_num
    BY FS_CardinalityType DEF Counted, TypeOK
  <1>4. Cardinality(busy) \in Nat
    <2>1. IsFiniteSet(Slots)
      BY SlotsAssumption, FS_Interval DEF Slots
    <2> QED
      BY <2>1, FS_Subset, FS_CardinalityType DEF TypeOK
  <1>5. CASE xpc' = [xpc EXCEPT ![q] = "move"] /\ UNCHANGED <<max_num, free_index, xslot>>
    <2>1. Filling' = Filling
      BY <1>1, <1>5 DEF Filling, TypeOK
    <2> QED
      BY <1>1, <1>5, <2>1 DEF TypeOK, Counted
  <1>6. CASE /\ xpc' = [xpc EXCEPT ![q] = "fill"] /\ free_index' = -1
             /\ \E k \in Nat : max_num' = max_num + 1 + k
             /\ \E s \in Slots : xslot' = [xslot EXCEPT ![q] = s]
    <2>1. Filling' = Filling \cup {q} /\ q \notin Filling
      BY <1>1, <1>6 DEF Filling, TypeOK
    <2>2. IsFiniteSet(Filling') /\ Cardinality(Filling') = Cardinality(Filling) + 1
      BY <1>3, <2>1, FS_AddElement
    <2>3. max_num' \in Nat /\ max_num' >= max_num + 1
      BY <1>3, <1>6
    <2>4. Counted'
      BY <1>1, <1>3, <1>4, <2>2, <2>3 DEF Counted
    <2>5. TypeOK'
      BY <1>1, <1>6, <2>3 DEF TypeOK
    <2> QED
      BY <2>4, <2>5
  <1> QED
    BY <1>2, <1>5, <1>6

LEMMA TypeFill ==
    ASSUME TypeOK, Own, Counted, NEW q \in Queues, Fill(q)
    PROVE  TypeOK' /\ Counted'
  <1>1. PICK s \in Slots : s = xslot[q]
    BY DEF TypeOK
  <1>2. mem[xmsg[q]].flow \in Flows /\ mem[xmsg[q]].n \in 0 .. MaxN
    BY TypeXmit DEF Fill
  <1>3. Seq32(mem[xmsg[q]].n) \in 0 .. 2 * Half - 1
    BY <1>2, SeqFacts
  <1>4. IsFiniteSet(busy) /\ Cardinality(busy) \in Nat
    <2>1. IsFiniteSet(Slots)
      BY SlotsAssumption, FS_Interval DEF Slots
    <2> QED
      BY <2>1, FS_Subset, FS_CardinalityType DEF TypeOK
  <1>5. Filling' = Filling \ {q} /\ q \in Filling
    BY DEF Fill, Filling, TypeOK
  <1>6. /\ IsFiniteSet(Filling) /\ IsFiniteSet(Filling') /\ Cardinality(Filling) \in Nat
        /\ Cardinality(Filling') = Cardinality(Filling) - 1
    BY <1>5, FS_RemoveElement, FS_CardinalityType DEF Counted
  <1>7. busy' = busy \cup {s} /\ Cardinality(busy') \in Nat /\ Cardinality(busy') <= Cardinality(busy) + 1
    <2>1. busy' = busy \cup {s}
      BY <1>1 DEF Fill
    <2>2. Cardinality(busy \cup {s}) = IF s \in busy THEN Cardinality(busy) ELSE Cardinality(busy) + 1
      BY <1>4, FS_AddElement
    <2>3. PICK c \in Nat : c = Cardinality(busy)
      BY <1>4
    <2>4. Cardinality(busy \cup {s}) = c \/ Cardinality(busy \cup {s}) = c + 1
      BY <2>2, <2>3
    <2> QED
      BY <2>1, <2>3, <2>4
  <1>8. Counted'
    <2>1. max_num' = max_num /\ max_num \in Nat
      BY DEF Fill, TypeOK
    <2> QED
      BY <1>4, <1>6, <1>7, <2>1 DEF Counted
  <1>9. TypeOK'
    BY <1>1, <1>2, <1>3, SlotsAssumption DEF Fill, TypeOK, stageVars, handVars, timerVars, flowVars
  <1> QED
    BY <1>8, <1>9

LEMMA CountedSame ==
    ASSUME Counted, UNCHANGED <<busy, max_num, Filling>>
    PROVE  Counted'
  BY DEF Counted

LEMMA FreedType ==
    ASSUME TypeOK, NEW D
    PROVE  Freed(D) \in [Msgs -> Acks \cup {NoAck}]
  BY DEF Freed, TypeOK

LEMMA TypeMatch ==
    ASSUME TypeOK, NEW q \in Queues, Match(q)
    PROVE  TypeOK' /\ Filling' = Filling
  <1>1. /\ xslot' \in [Queues -> Slots]
        /\ xpc' = [xpc EXCEPT ![q] = "handle"] \/ xpc' = [xpc EXCEPT ![q] = "alloc"]
    <2>1. \A S \in SUBSET Slots : S # {} => Min(S) \in Slots
      BY SlotFacts
    <2>2. Matching(mem[xmsg[q]].flow) \in SUBSET Slots
      BY DEF Matching, TypeOK
    <2> QED
      BY <2>1, <2>2 DEF Match, TypeOK
  <1>2. TypeOK'
    BY <1>1 DEF Match, TypeOK, stageVars, tableVars, slotVars, handVars, timerVars, flowVars
  <1>3. Filling' = Filling
    BY <1>1 DEF Match, Filling, TypeOK
  <1> QED
    BY <1>2, <1>3

LEMMA TypeHandle ==
    ASSUME TypeOK, Own, NEW q \in Queues, Handle(q)
    PROVE  TypeOK' /\ Filling' = Filling
  <1>1. PICK s \in Slots, m \in Msgs : s = xslot[q] /\ m = xmsg[q]
    BY TypeXmit DEF Handle, TypeOK
  <1>2. /\ m \in Msgs /\ mem[m].n \in 0 .. MaxN /\ xpc[q] = "handle"
        /\ Seq32(mem[m].n) \in 0 .. 2 * Half - 1
    <2>1. m \in Msgs /\ mem[m].n \in 0 .. MaxN /\ xpc[q] = "handle"
      BY <1>1, TypeXmit DEF Handle
    <2> QED
      BY <2>1, SeqFacts
  <1>3. UNCHANGED <<last, stage, enable, todo, max_num, free_index, due, busy, key, hpc, hmsg, newest, sent>>
    BY DEF Handle, stageVars, flowVars
  <1>4. CASE Newer(q, s, m)
    <2>1. /\ mem' = Freed({msgbuf[s]} \ {Null})
          /\ psh' \in [Slots -> (0 .. 2 * Half - 1) \cup {NoPsh}]
          /\ seq' \in [Slots -> 0 .. 2 * Half - 1]
          /\ drop_cnt' \in [Slots -> Nat]
          /\ msgbuf' \in [Slots -> Msgs \cup {Null}]
          /\ in_send_msg' \in [Slots -> Msgs \cup {Null}]
          /\ pend' \subseteq Slots
      BY <1>2, <1>4 DEF Newer, TypeOK
    <2>2. \/ xpc' = [xpc EXCEPT ![q] = "move"] /\ UNCHANGED <<xmsg, xslot>>
          \/ Return(q)
      BY <1>4 DEF Newer
    <2>3. /\ xpc' \in [Queues -> {"idle", "match", "handle", "alloc", "fill", "move"}]
          /\ xmsg' \in [Queues -> Msgs \cup {Null}] /\ xslot' \in [Queues -> Slots]
          /\ Filling' = Filling
      BY <1>2, <2>2, SlotFacts DEF Return, TypeOK, Filling
    <2>4. mem' \in [Msgs -> Acks \cup {NoAck}]
      BY <2>1, FreedType
    <2>5. old' \subseteq Slots
      BY DEF Handle, TypeOK
    <2> QED
      BY <1>3, <2>1, <2>3, <2>4, <2>5 DEF TypeOK
  <1>5. CASE Older(q, m)
    <2>1. /\ xpc' \in [Queues -> {"idle", "match", "handle", "alloc", "fill", "move"}]
          /\ xmsg' \in [Queues -> Msgs \cup {Null}] /\ xslot' \in [Queues -> Slots]
          /\ Filling' = Filling
      BY <1>2, <1>5, SlotFacts DEF Older, Return, TypeOK, Filling
    <2>2. mem' \in [Msgs -> Acks \cup {NoAck}]
      BY <1>5, FreedType DEF Older
    <2>3. old' \subseteq Slots
      BY DEF Handle, TypeOK
    <2> QED
      BY <1>3, <1>5, <2>1, <2>2, <2>3 DEF Older, slotVars, handVars, TypeOK
  <1> QED
    BY <1>1, <1>4, <1>5 DEF Handle

LEMMA TypeSendOn ==
    ASSUME TypeOK, NEW m \in Msgs, mem[m].flow \in Flows, mem[m].n \in 0 .. MaxN, SendOn(m)
    PROVE  /\ in_send_msg' \in [Slots -> Msgs \cup {Null}] /\ sent' \in [Flows -> 0 .. MaxN]
           /\ mem' \in [Msgs -> Acks \cup {NoAck}]
  <1>1. Max({sent[mem[m].flow], mem[m].n}) \in 0 .. MaxN
    <2>1. sent[mem[m].flow] \in 0 .. MaxN
      BY DEF TypeOK
    <2> QED
      BY <2>1, MaxOfTwo
  <1>2. mem' \in [Msgs -> Acks \cup {NoAck}]
    BY FreedType DEF SendOn
  <1> QED
    BY <1>1, <1>2 DEF SendOn, TypeOK

LEMMA TypeMove ==
    ASSUME TypeOK, Own, NEW q \in Queues, Move(q)
    PROVE  TypeOK' /\ Filling' = Filling
  <1>1. xmsg[q] \in Msgs /\ mem[xmsg[q]].flow \in Flows /\ mem[xmsg[q]].n \in 0 .. MaxN
    BY TypeXmit DEF Move
  <1>2. /\ in_send_msg' \in [Slots -> Msgs \cup {Null}] /\ sent' \in [Flows -> 0 .. MaxN]
        /\ mem' \in [Msgs -> Acks \cup {NoAck}]
    BY <1>1, TypeSendOn DEF Move
  <1>3. /\ xpc' \in [Queues -> {"idle", "match", "handle", "alloc", "fill", "move"}]
        /\ xmsg' \in [Queues -> Msgs \cup {Null}] /\ xslot' \in [Queues -> Slots]
        /\ Filling' = Filling
    BY SlotFacts DEF Move, Return, TypeOK, Filling
  <1> QED
    BY <1>2, <1>3 DEF Move, TypeOK, stageVars, tableVars, slotVars, timerVars

LEMMA TypeTimer ==
    ASSUME TypeOK, Own, NEW s \in Slots, TimerStep(s)
    PROVE  TypeOK' /\ Filling' = Filling
  <1>1. CASE TimerFire(s)
    BY <1>1 DEF TimerFire, Filling, TypeOK, stageVars, tableVars, slotVars, handVars, timerVars,
                xmitVars, flowVars
  <1>2. CASE TimerTake(s)
    BY <1>2 DEF TimerTake, Filling, TypeOK, stageVars, tableVars, slotVars, handVars, timerVars,
                xmitVars, flowVars
  <1>3. CASE TimerSend(s)
    <2>1. hmsg[s] \in Msgs /\ mem[hmsg[s]] # NoAck
      BY <1>3 DEF TimerSend, Own, TypeOK
    <2>2. mem[hmsg[s]] \in Acks
      BY <2>1 DEF TypeOK
    <2>3. mem[hmsg[s]].flow \in Flows /\ mem[hmsg[s]].n \in 0 .. MaxN
      BY <2>2 DEF Acks
    <2>4. /\ in_send_msg' \in [Slots -> Msgs \cup {Null}] /\ sent' \in [Flows -> 0 .. MaxN]
          /\ mem' \in [Msgs -> Acks \cup {NoAck}]
      BY <1>3, <2>1, <2>3, TypeSendOn DEF TimerSend
    <2>5. /\ UNCHANGED <<last, stageVars, tableVars, slotVars, msgbuf, pend, xmitVars, newest>>
          /\ hpc' = [hpc EXCEPT ![s] = "idle"] /\ hmsg' = [hmsg EXCEPT ![s] = Null]
      BY <1>3 DEF TimerSend
    <2>6. Filling' = Filling
      BY <2>5 DEF Filling, xmitVars
    <2> QED
      BY <2>4, <2>5, <2>6 DEF TypeOK, stageVars, tableVars, slotVars, xmitVars
  <1> QED
    BY <1>1, <1>2, <1>3 DEF TimerStep

LEMMA TypeRest ==
    ASSUME TypeOK,
           \/ \E f \in Flows : \E n \in {newest[f] - 1, newest[f]} \cap Nat : FilterRx(f, n)
           \/ \E S \in SUBSET Slots : Elapse(S)
           \/ RemoveStep
           \/ UNCHANGED vars
    PROVE  TypeOK' /\ Filling' = Filling
  <1> USE DEF stageVars, tableVars, slotVars, handVars, timerVars, xmitVars, flowVars
  <1>1. ASSUME NEW f \in Flows, NEW n \in Nat, FilterRx(f, n) PROVE TypeOK' /\ Filling' = Filling
    <2>1. Seq32(n) \in 0 .. 2 * Half - 1
      BY SeqFacts
    <2> QED
      BY <1>1, <2>1 DEF FilterRx, TypeOK, Filling
  <1>2. ASSUME NEW S \in SUBSET Slots, Elapse(S) PROVE TypeOK' /\ Filling' = Filling
    BY <1>2 DEF Elapse, TypeOK, Filling
  <1>3. CASE Unregister
    BY <1>3 DEF Unregister, TypeOK, Filling
  <1>4. CASE DeinitStart
    BY <1>4 DEF DeinitStart, TypeOK, Filling
  <1>5. ASSUME NEW s \in Slots, DeinitSlot(s) PROVE TypeOK' /\ Filling' = Filling
    <2>1. mem' \in [Msgs -> Acks \cup {NoAck}]
      BY <1>5, FreedType DEF DeinitSlot
    <2> QED
      BY <1>5, <2>1 DEF DeinitSlot, TypeOK, Filling
  <1>6. CASE UNCHANGED vars
    BY <1>6 DEF vars, TypeOK, Filling
  <1> QED
    BY <1>1, <1>2, <1>3, <1>4, <1>5, <1>6 DEF RemoveStep

LEMMA TypeStep ==
    ASSUME TypeOK, Own, Counted, [Next]_vars
    PROVE  TypeOK' /\ Counted'
  <1>1. ASSUME NEW f \in Flows, NEW n \in Offer(f), StartXmit(f, n) PROVE TypeOK' /\ Counted'
    BY <1>1, TypeStartXmit
  <1>2. ASSUME NEW q \in Queues, XmitStep(q) PROVE TypeOK' /\ Counted'
    <2>1. CASE Match(q)
      <3>1. TypeOK' /\ Filling' = Filling /\ UNCHANGED <<busy, max_num>>
        BY <2>1, TypeMatch DEF Match, tableVars
      <3> QED
        BY <3>1, CountedSame
    <2>2. CASE Alloc(q)
      BY <2>2, TypeAlloc
    <2>3. CASE Fill(q)
      BY <2>3, TypeFill
    <2>4. CASE Handle(q)
      <3>1. TypeOK' /\ Filling' = Filling /\ UNCHANGED <<busy, max_num>>
        BY <2>4, TypeHandle DEF Handle
      <3> QED
        BY <3>1, CountedSame
    <2>5. CASE Move(q)
      <3>1. TypeOK' /\ Filling' = Filling /\ UNCHANGED <<busy, max_num>>
        BY <2>5, TypeMove DEF Move, tableVars
      <3> QED
        BY <3>1, CountedSame
    <2> QED
      BY <1>2, <2>1, <2>2, <2>3, <2>4, <2>5 DEF XmitStep
  <1>3. ASSUME NEW s \in Slots, TimerStep(s) PROVE TypeOK' /\ Counted'
    <2>1. TypeOK' /\ Filling' = Filling
      BY <1>3, TypeTimer
    <2>2. UNCHANGED <<busy, max_num>>
      BY <1>3 DEF TimerStep, TimerFire, TimerTake, TimerSend, tableVars
    <2> QED
      BY <2>1, <2>2, CountedSame
  <1>4. CASE \/ \E f \in Flows : \E n \in {newest[f] - 1, newest[f]} \cap Nat : FilterRx(f, n)
             \/ \E S \in SUBSET Slots : Elapse(S)
             \/ RemoveStep
             \/ UNCHANGED vars
    <2>1. TypeOK' /\ Filling' = Filling
      BY <1>4, TypeRest
    <2>2. UNCHANGED <<busy, max_num>>
      BY <1>4 DEF FilterRx, Elapse, RemoveStep, Unregister, DeinitStart, DeinitSlot, tableVars, vars
    <2> QED
      BY <2>1, <2>2, CountedSame
  <1> QED
    BY <1>1, <1>2, <1>3, <1>4 DEF Next

-----------------------------------------------------------------------------
(* Every message has one owner                                             *)

LEMMA OwnInit == Init => Own
  BY SlotFacts DEF Init, Own

LEMMA NotNoAck == ASSUME NEW a, a.n >= 1 PROVE a # NoAck
  BY DEF NoAck

LEMMA OwnSame ==
    ASSUME Own, UNCHANGED <<xmsg, hmsg, msgbuf, mem>>,
           \A q \in Queues : xpc'[q] = "idle" <=> xpc[q] = "idle",
           \A s \in Slots : hpc'[s] = "move" <=> hpc[s] = "move"
    PROVE  Own'
  BY DEF Own

LEMMA OwnStartXmit ==
    ASSUME TypeOK, Own, NEW f \in Flows, NEW n \in Offer(f), StartXmit(f, n)
    PROVE  Own'
  <1>1. PICK q \in Queues : q = QueueOf[f]
    BY SlotFacts
  <1>2. PICK m \in Msgs : mem[m] = NoAck /\ m = Min(Msgs \ Live)
    <2>1. Msgs \ Live # {}
      BY DEF StartXmit, Live
    <2>2. Min(Msgs \ Live) \in Msgs \ Live
      <3>1. Msgs \ Live \subseteq Nat
        BY SlotFacts
      <3> QED
        BY <2>1, <3>1, MinNat
    <2> QED
      BY <2>2 DEF Live
  <1>3. /\ xpc[q] = "idle" /\ xpc' = [xpc EXCEPT ![q] = "match"] /\ m # Null
        /\ xmsg' = [xmsg EXCEPT ![q] = m] /\ mem' = [mem EXCEPT ![m] = [flow |-> f, n |-> n]]
        /\ UNCHANGED <<hmsg, hpc, msgbuf>> /\ n >= 1
    BY <1>1, <1>2, SlotFacts, SeqAssumption DEF StartXmit, handVars, timerVars, TypeOK
  <1>4. /\ mem'[m] # NoAck /\ mem'[m].n >= 1 /\ \A k \in Msgs \ {m} : mem'[k] = mem[k]
    BY <1>3 DEF TypeOK, NoAck
  <1>5. /\ \A s \in Slots : msgbuf[s] # m /\ hmsg[s] # m
        /\ \A p \in Queues : xmsg[p] # m
    BY <1>2 DEF Own
  <1>6. /\ xmsg'[q] = m /\ xpc'[q] = "match" /\ \A p \in Queues \ {q} : xmsg'[p] = xmsg[p] /\ xpc'[p] = xpc[p]
        /\ xmsg[q] = Null
    BY <1>3 DEF TypeOK, Own
  <1>7. ASSUME NEW k \in Msgs
        PROVE  /\ mem'[k] # NoAck <=> \/ \E s \in Slots : msgbuf'[s] = k \/ hmsg'[s] = k
                                      \/ \E p \in Queues : xmsg'[p] = k
               /\ mem'[k] # NoAck => mem'[k].n >= 1
    <2>1. k # m => xmsg[q] # k /\ xmsg'[q] # k
      BY <1>6, SlotFacts
    <2>2. CASE k = m
      BY <1>4, <1>6, <2>2
    <2>3. CASE k # m
      BY <1>3, <1>4, <1>6, <2>1, <2>3 DEF Own
    <2> QED
      BY <2>2, <2>3
  <1>8. \A p, t \in Queues : xmsg'[p] # Null /\ xmsg'[p] = xmsg'[t] => p = t
    BY <1>3, <1>5, <1>6 DEF Own
  <1>9. \A s \in Slots, p \in Queues : xmsg'[p] # Null => xmsg'[p] # msgbuf'[s] /\ xmsg'[p] # hmsg'[s]
    BY <1>3, <1>5, <1>6 DEF Own
  <1> QED
    BY <1>3, <1>6, <1>7, <1>8, <1>9 DEF Own

\* A message that one owner gives up is freed.
LEMMA FreedFacts ==
    ASSUME TypeOK, NEW D
    PROVE  \A k \in Msgs : Freed(D)[k] = IF k \in D THEN NoAck ELSE mem[k]
  BY DEF Freed

LEMMA OwnXmitDone ==
    ASSUME TypeOK, Own, NEW q \in Queues, xpc[q] # "idle", Return(q), mem' = Freed({xmsg[q]}),
           UNCHANGED <<hmsg, hpc, msgbuf>>
    PROVE  Own'
  <1>1. PICK m \in Msgs : m = xmsg[q] /\ m # Null
    BY TypeXmit, SlotFacts
  <1>2. \A k \in Msgs : mem'[k] = IF k = m THEN NoAck ELSE mem[k]
    BY <1>1, FreedFacts
  <1>3. /\ xmsg'[q] = Null /\ xpc'[q] = "idle"
        /\ \A p \in Queues \ {q} : xmsg'[p] = xmsg[p] /\ xpc'[p] = xpc[p]
    BY DEF Return, TypeOK
  <1>4. /\ \A s \in Slots : msgbuf[s] # m /\ hmsg[s] # m
        /\ \A p \in Queues \ {q} : xmsg[p] # m
    BY <1>1 DEF Own
  <1>5. ASSUME NEW k \in Msgs
        PROVE  /\ mem'[k] # NoAck <=> \/ \E s \in Slots : msgbuf'[s] = k \/ hmsg'[s] = k
                                      \/ \E p \in Queues : xmsg'[p] = k
               /\ mem'[k] # NoAck => mem'[k].n >= 1
    <2>1. xmsg'[q] # k
      BY <1>3, SlotFacts
    <2>2. CASE k = m
      BY <1>2, <1>3, <1>4, <2>1, <2>2
    <2>3. CASE k # m
      BY <1>1, <1>2, <1>3, <2>1, <2>3 DEF Own
    <2> QED
      BY <2>2, <2>3
  <1>6. \A p, t \in Queues : xmsg'[p] # Null /\ xmsg'[p] = xmsg'[t] => p = t
    BY <1>3 DEF Own
  <1> QED
    BY <1>3, <1>5, <1>6, SMTT(30) DEF Own

LEMMA OwnNewer ==
    ASSUME TypeOK, Own, NEW q \in Queues, NEW s \in Slots, NEW m \in Msgs, m = xmsg[q],
           xpc[q] = "handle", Newer(q, s, m), UNCHANGED <<hmsg, hpc>>
    PROVE  Own'
  <1>1. PICK old_msg \in Msgs \cup {Null} : old_msg = msgbuf[s]
    BY DEF TypeOK
  <1>2. \A k \in Msgs : mem'[k] = IF k = old_msg THEN NoAck ELSE mem[k]
    <2>1. mem' = Freed({old_msg} \ {Null})
      BY <1>1 DEF Newer
    <2> QED
      BY <2>1, FreedFacts, SlotFacts
  <1>3. /\ m # Null /\ mem[m] # NoAck
        /\ \A t \in Slots : msgbuf[t] # m /\ hmsg[t] # m
        /\ \A p \in Queues \ {q} : xmsg[p] # m
    BY SlotFacts DEF Own
  <1>4. old_msg # Null => /\ \A t \in Slots \ {s} : msgbuf[t] # old_msg
                          /\ \A t \in Slots : hmsg[t] # old_msg
                          /\ \A p \in Queues : xmsg[p] # old_msg
    BY <1>1 DEF Own
  <1>5. /\ \A t \in Slots \ {s} : msgbuf'[t] = msgbuf[t]
        /\ \/ /\ msgbuf'[s] = Null /\ xpc' = [xpc EXCEPT ![q] = "move"] /\ xmsg' = xmsg
           \/ msgbuf'[s] = m /\ Return(q)
    BY DEF Newer, TypeOK
  <1>6. CASE msgbuf'[s] = Null /\ xpc' = [xpc EXCEPT ![q] = "move"] /\ xmsg' = xmsg
    <2>1. \A p \in Queues : xpc'[p] = "idle" <=> xpc[p] = "idle"
      BY <1>6 DEF TypeOK
    <2> QED
      BY <1>1, <1>2, <1>3, <1>4, <1>5, <1>6, <2>1, SlotFacts DEF Own
  <1>7. CASE msgbuf'[s] = m /\ Return(q)
    <2>1. /\ xmsg'[q] = Null /\ xpc'[q] = "idle"
          /\ \A p \in Queues \ {q} : xmsg'[p] = xmsg[p] /\ xpc'[p] = xpc[p]
      BY <1>7 DEF Return, TypeOK
    <2> QED
      BY <1>1, <1>2, <1>3, <1>4, <1>5, <1>7, <2>1, SlotFacts DEF Own
  <1> QED
    BY <1>5, <1>6, <1>7

LEMMA OwnTimerTake ==
    ASSUME TypeOK, Own, NEW s \in Slots, TimerTake(s)
    PROVE  Own'
  <1>1. UNCHANGED <<mem, xpc, xmsg>> /\ hpc[s] = "lock"
    BY DEF TimerTake, xmitVars
  <1>2. CASE s \in busy /\ msgbuf[s] # Null /\ in_send_msg[s] = Null
    <2>1. PICK m \in Msgs : m = msgbuf[s] /\ m # Null
      BY <1>2 DEF TypeOK
    <2>2. /\ msgbuf'[s] = Null /\ hmsg'[s] = m /\ hpc'[s] = "move"
          /\ \A t \in Slots \ {s} : msgbuf'[t] = msgbuf[t] /\ hmsg'[t] = hmsg[t] /\ hpc'[t] = hpc[t]
      BY <1>2, <2>1 DEF TimerTake, TypeOK
    <2>3. /\ \A t \in Slots \ {s} : msgbuf[t] # m
          /\ \A t \in Slots : hmsg[t] # m
          /\ \A p \in Queues : xmsg[p] # m
      BY <2>1 DEF Own
    <2>4. hmsg[s] = Null
      BY <1>1 DEF Own
    <2> QED
      BY <1>1, <2>1, <2>2, <2>3, <2>4 DEF Own
  <1>3. CASE ~(s \in busy /\ msgbuf[s] # Null /\ in_send_msg[s] = Null)
    <2>1. hpc' = [hpc EXCEPT ![s] = "idle"] /\ UNCHANGED <<msgbuf, hmsg>>
      BY <1>3 DEF TimerTake, handVars
    <2>2. \A t \in Slots : hpc'[t] = "move" <=> hpc[t] = "move"
      BY <1>1, <2>1 DEF TypeOK
    <2> QED
      BY <1>1, <2>1, <2>2, OwnSame
  <1> QED
    BY <1>2, <1>3

LEMMA OwnTimerSend ==
    ASSUME TypeOK, Own, NEW s \in Slots, TimerSend(s)
    PROVE  Own'
  <1>1. UNCHANGED <<msgbuf, xpc, xmsg>> /\ hpc[s] = "move"
    BY DEF TimerSend, xmitVars
  <1>2. PICK m \in Msgs : m = hmsg[s] /\ m # Null
    BY <1>1 DEF Own, TypeOK
  <1>3. \A k \in Msgs : mem'[k] = IF k = m THEN NoAck ELSE mem[k]
    <2>1. mem' = Freed({m})
      BY <1>2 DEF TimerSend, SendOn
    <2> QED
      BY <2>1, FreedFacts
  <1>4. /\ hmsg'[s] = Null /\ hpc'[s] = "idle"
        /\ \A t \in Slots \ {s} : hmsg'[t] = hmsg[t] /\ hpc'[t] = hpc[t]
    BY DEF TimerSend, TypeOK
  <1>5. /\ \A t \in Slots : msgbuf[t] # m
        /\ \A t \in Slots \ {s} : hmsg[t] # m
        /\ \A p \in Queues : xmsg[p] # m
    BY <1>2 DEF Own
  <1> QED
    BY <1>1, <1>2, <1>3, <1>4, <1>5, SlotFacts DEF Own

LEMMA OwnDeinitSlot ==
    ASSUME TypeOK, Own, NEW s \in Slots, DeinitSlot(s)
    PROVE  Own'
  <1>1. UNCHANGED <<hpc, hmsg, xpc, xmsg>>
    BY DEF DeinitSlot, xmitVars
  <1>2. PICK m \in Msgs \cup {Null} : m = msgbuf[s]
    BY DEF TypeOK
  <1>3. \A k \in Msgs : mem'[k] = IF k = m THEN NoAck ELSE mem[k]
    <2>1. mem' = Freed({m} \ {Null})
      BY <1>2 DEF DeinitSlot
    <2>2. \A k \in Msgs : Freed({m} \ {Null})[k] = IF k \in {m} \ {Null} THEN NoAck ELSE mem[k]
      BY FreedFacts
    <2>3. Null \notin Msgs
      BY SlotFacts
    <2> QED
      BY <2>1, <2>2, <2>3
  <1>4. msgbuf'[s] = Null /\ \A t \in Slots \ {s} : msgbuf'[t] = msgbuf[t]
    BY DEF DeinitSlot, TypeOK
  <1>5. m # Null => /\ \A t \in Slots \ {s} : msgbuf[t] # m
                    /\ \A t \in Slots : hmsg[t] # m
                    /\ \A p \in Queues : xmsg[p] # m
    BY <1>2 DEF Own
  <1> QED
    BY <1>1, <1>2, <1>3, <1>4, <1>5, SlotFacts DEF Own

LEMMA OwnStep ==
    ASSUME TypeOK, Own, [Next]_vars
    PROVE  Own'
  <1> USE DEF stageVars, tableVars, slotVars, handVars, timerVars, xmitVars, flowVars
  <1>1. ASSUME NEW f \in Flows, NEW n \in Offer(f), StartXmit(f, n) PROVE Own'
    BY <1>1, OwnStartXmit
  <1>2. ASSUME NEW q \in Queues, Match(q) PROVE Own'
    BY <1>2, OwnSame DEF Match, TypeOK
  <1>3. ASSUME NEW q \in Queues, Alloc(q) PROVE Own'
    <2>1. /\ UNCHANGED <<xmsg, hmsg, msgbuf, mem, hpc>> /\ xpc[q] = "alloc"
          /\ (xpc' = [xpc EXCEPT ![q] = "move"] \/ xpc' = [xpc EXCEPT ![q] = "fill"])
      BY <1>3 DEF Alloc
    <2> QED
      BY <2>1, OwnSame DEF TypeOK
  <1>4. ASSUME NEW q \in Queues, Fill(q) PROVE Own'
    BY <1>4, OwnSame DEF Fill, TypeOK
  <1>5. ASSUME NEW q \in Queues, Handle(q) PROVE Own'
    <2>1. PICK s \in Slots, m \in Msgs : s = xslot[q] /\ m = xmsg[q]
      BY <1>5, TypeXmit DEF Handle, TypeOK
    <2>2. xpc[q] = "handle" /\ UNCHANGED <<hpc, hmsg>>
      BY <1>5 DEF Handle
    <2>3. CASE Newer(q, s, m)
      BY <2>1, <2>2, <2>3, OwnNewer
    <2>4. CASE Older(q, m)
      <3>1. Return(q) /\ mem' = Freed({xmsg[q]}) /\ msgbuf' = msgbuf
        BY <2>1, <2>4 DEF Older
      <3> QED
        BY <2>2, <3>1, OwnXmitDone
    <2> QED
      BY <1>5, <2>1, <2>3, <2>4 DEF Handle
  <1>6. ASSUME NEW q \in Queues, Move(q) PROVE Own'
    <2>1. xpc[q] # "idle" /\ Return(q) /\ mem' = Freed({xmsg[q]}) /\ UNCHANGED <<hmsg, hpc, msgbuf>>
      BY <1>6 DEF Move, SendOn
    <2> QED
      BY <2>1, OwnXmitDone
  <1>7. ASSUME NEW s \in Slots, TimerFire(s) PROVE Own'
    BY <1>7, OwnSame DEF TimerFire, TypeOK
  <1>8. ASSUME NEW s \in Slots, TimerTake(s) \/ TimerSend(s) PROVE Own'
    BY <1>8, OwnTimerTake, OwnTimerSend
  <1>9. ASSUME NEW f \in Flows, NEW n, FilterRx(f, n) PROVE Own'
    BY <1>9, OwnSame DEF FilterRx
  <1>10. ASSUME NEW S \in SUBSET Slots, Elapse(S) PROVE Own'
    BY <1>10, OwnSame DEF Elapse
  <1>11. CASE Unregister \/ DeinitStart
    BY <1>11, OwnSame DEF Unregister, DeinitStart
  <1>12. ASSUME NEW s \in Slots, DeinitSlot(s) PROVE Own'
    BY <1>12, OwnDeinitSlot
  <1>13. CASE UNCHANGED vars
    BY <1>13, OwnSame DEF vars
  <1> QED
    BY <1>1, <1>2, <1>3, <1>4, <1>5, <1>6, <1>7, <1>8, <1>9, <1>10, <1>11, <1>12, <1>13
       DEF Next, XmitStep, TimerStep, RemoveStep

-----------------------------------------------------------------------------
(* Removal leaves nothing behind                                           *)

LEMMA ReleasedInit == Init => Released
  BY DEF Init, Released

LEMMA ReleasedStep ==
    ASSUME TypeOK, Own, Released, [Next]_vars
    PROVE  Released'
  <1> USE DEF stageVars, tableVars, slotVars, handVars, timerVars, xmitVars, flowVars
  <1>1. ASSUME NEW f \in Flows, NEW n, StartXmit(f, n) PROVE Released'
    BY <1>1 DEF StartXmit, Released
  <1>2. ASSUME NEW q \in Queues, XmitStep(q) PROVE Released'
    <2>1. xpc[q] # "idle" /\ UNCHANGED <<stage, enable, todo>>
      BY <1>2 DEF XmitStep, Match, Alloc, Fill, Handle, Move
    <2>2. stage = "up" /\ enable
      BY <2>1 DEF Released, TypeOK
    <2> QED
      BY <2>1, <2>2 DEF Released
  <1>3. ASSUME NEW s \in Slots, TimerStep(s) PROVE Released'
    <2>1. UNCHANGED <<stage, enable, todo, xpc>> /\ pend' \subseteq pend
      BY <1>3 DEF TimerStep, TimerFire, TimerTake, TimerSend
    <2>2. \A t \in Slots : msgbuf[t] = Null => msgbuf'[t] = Null
      BY <1>3 DEF TimerStep, TimerFire, TimerTake, TimerSend, TypeOK
    <2> QED
      BY <2>1, <2>2 DEF Released
  <1>4. ASSUME NEW f \in Flows, NEW n, FilterRx(f, n) PROVE Released'
    BY <1>4 DEF FilterRx, Released
  <1>5. ASSUME NEW S \in SUBSET Slots, Elapse(S) PROVE Released'
    BY <1>5 DEF Elapse, Released
  <1>6. CASE Unregister
    BY <1>6 DEF Unregister, Released
  <1>7. CASE DeinitStart
    BY <1>7 DEF DeinitStart, Released
  <1>8. ASSUME NEW s \in Slots, DeinitSlot(s) PROVE Released'
    <2>1. /\ s \in todo /\ todo' = todo \ {s} /\ stage' = (IF todo' = {} THEN "off" ELSE stage)
          /\ pend' = pend \ {s} /\ msgbuf' = [msgbuf EXCEPT ![s] = Null] /\ UNCHANGED <<enable, xpc>>
      BY <1>8 DEF DeinitSlot
    <2>2. ~enable /\ stage # "up" /\ \A q \in Queues : xpc[q] = "idle"
      BY <2>1 DEF Released, TypeOK
    <2>3. \A t \in Slots \ todo' : t \notin pend' /\ msgbuf'[t] = Null
      BY <2>1, <2>2 DEF Released, TypeOK
    <2> QED
      BY <2>1, <2>2, <2>3 DEF Released
  <1>9. CASE UNCHANGED vars
    BY <1>9 DEF vars, Released
  <1> QED
    BY <1>1, <1>2, <1>3, <1>4, <1>5, <1>6, <1>7, <1>8, <1>9 DEF Next, RemoveStep

-----------------------------------------------------------------------------
(* One network queue: what slots and messages know of their flows          *)

LEMMA SingleInit == Init => Single
  <1> SUFFICES ASSUME Init PROVE Numbers /\ Path /\ Known /\ Timed /\ Kept
    BY DEF Single, Tracked
  <1>1. 0 <= 0 /\ busy = {} /\ old = {} /\ pend = {}
    BY DEF Init
  <1> QED
    BY <1>1 DEF Init, Numbers, Path, Known, Timed, Kept

\* Messages and flows are as they were, and newest is sent or at hand.
LEMMA KeptSame ==
    ASSUME Kept, UNCHANGED <<mem, newest, sent>>
    PROVE  Kept'
  BY DEF Kept, Live

LEMMA NumbersSame ==
    ASSUME Numbers, UNCHANGED <<mem, newest, sent>>,
           \A q \in Queues : xpc'[q] # "idle" => xpc[q] # "idle" /\ xmsg'[q] = xmsg[q]
    PROVE  Numbers'
  BY DEF Numbers

LEMMA KnownSame ==
    ASSUME Known, UNCHANGED <<mem, newest, busy, key, seq, xmsg, xpc>>
    PROVE  Known'
  BY DEF Known, Lag

LEMMA PathSame ==
    ASSUME Path, UNCHANGED <<mem, busy, key, xpc, xmsg, xslot, free_index>>
    PROVE  Path'
  BY DEF Path

\* What TrackedX lemmas start from: the one queue q, the filter enabled.
At(q) == TypeOK /\ Own /\ Tracked /\ (\A p \in Queues : p = q)

LEMMA AtFacts ==
    ASSUME NEW q \in Queues, At(q), xpc[q] # "idle"
    PROVE  /\ xmsg[q] \in Msgs /\ mem[xmsg[q]] # NoAck /\ mem[xmsg[q]].flow \in Flows
           /\ mem[xmsg[q]].n \in Nat /\ newest[mem[xmsg[q]].flow] \in Nat
           /\ \/ mem[xmsg[q]].n = newest[mem[xmsg[q]].flow]
              \/ mem[xmsg[q]].n = newest[mem[xmsg[q]].flow] - 1
  <1>1. /\ xmsg[q] \in Msgs /\ mem[xmsg[q]] # NoAck /\ mem[xmsg[q]].flow \in Flows
        /\ mem[xmsg[q]].n \in 0 .. MaxN
    BY TypeXmit DEF At
  <1>2. newest[mem[xmsg[q]].flow] \in 0 .. MaxN
    BY <1>1 DEF At, TypeOK
  <1>3. /\ mem[xmsg[q]].n <= newest[mem[xmsg[q]].flow]
        /\ mem[xmsg[q]].n >= newest[mem[xmsg[q]].flow] - 1
    BY <1>1 DEF At, Tracked, Numbers
  <1> QED
    BY <1>1, <1>2, <1>3

LEMMA TrackedStartXmit ==
    ASSUME NEW f \in Flows, NEW n \in Offer(f), StartXmit(f, n), At(QueueOf[f])
    PROVE  Tracked'
  <1>1. PICK q \in Queues : q = QueueOf[f] /\ At(q) /\ \A p \in Queues : p = q
    BY SlotFacts DEF At
  <1>2. PICK m \in Msgs : mem[m] = NoAck /\ m = Min(Msgs \ Live)
    <2>1. Msgs \ Live # {}
      BY DEF StartXmit, Live
    <2>2. Min(Msgs \ Live) \in Msgs \ Live
      <3>1. Msgs \ Live \subseteq Nat
        BY SlotFacts
      <3> QED
        BY <2>1, <3>1, MinNat
    <2> QED
      BY <2>2 DEF Live
  <1>3. /\ xpc[q] = "idle" /\ xpc' = [xpc EXCEPT ![q] = "match"]
        /\ xmsg' = [xmsg EXCEPT ![q] = m] /\ mem' = [mem EXCEPT ![m] = [flow |-> f, n |-> n]]
        /\ newest' = [newest EXCEPT ![f] = Max({@, n})]
        /\ UNCHANGED <<hmsg, hpc, msgbuf, in_send_msg, pend, key, seq, old, sent, xslot>>
        /\ n \in 1 .. last[f] /\ last[f] \in Nat
    BY <1>1, <1>2, SeqAssumption DEF StartXmit, tcp_ack_update, slotVars, handVars, timerVars, TypeOK, At
  <1>4. PICK aged \in SUBSET (busy \cap old) :
           /\ busy' = busy \ aged /\ free_index' = IF aged = {} THEN free_index ELSE Min(aged)
    BY DEF StartXmit, tcp_ack_update
  <1>5. /\ mem'[m] = [flow |-> f, n |-> n] /\ mem'[m] # NoAck /\ \A k \in Msgs \ {m} : mem'[k] = mem[k]
        /\ xmsg'[q] = m /\ xpc'[q] = "match"
    BY <1>1, <1>3 DEF TypeOK, NoAck, At
  <1>6. /\ \A g \in Flows \ {f} : newest'[g] = newest[g]
        /\ newest[f] \in Nat /\ ((n = newest[f] + 1 /\ newest'[f] = n) \/ newest'[f] = newest[f])
        /\ newest'[f] >= n /\ n >= newest'[f] - 1 /\ newest'[f] >= newest[f] /\ newest'[f] \in Nat
        /\ \A g \in Flows : newest[g] \in Nat /\ newest'[g] \in Nat /\ newest'[g] >= newest[g]
    <2>1. newest \in [Flows -> 0 .. MaxN] /\ n \in Nat /\ n \in {newest[f] - 1, newest[f], newest[f] + 1}
      BY <1>1, <1>3 DEF At, TypeOK, Offer
    <2>2. Max({newest[f], n}) = IF newest[f] >= n THEN newest[f] ELSE n
      BY <2>1, MaxOfTwo
    <2>3. /\ newest'[f] = IF newest[f] >= n THEN newest[f] ELSE n
          /\ \A g \in Flows \ {f} : newest'[g] = newest[g]
      BY <1>3, <2>1, <2>2
    <2>4. /\ newest[f] \in Nat
          /\ n = newest[f] - 1 \/ n = newest[f] \/ n = newest[f] + 1
          /\ \A g \in Flows : newest[g] \in Nat
      BY <2>1
    <2>5. PICK a \in Nat, b \in {newest'[f]} : a = newest[f] /\ b = IF a >= n THEN a ELSE n
      BY <2>3, <2>4
    <2>6. /\ (n = a + 1 /\ b = n) \/ b = a
          /\ b >= n /\ n >= b - 1 /\ b >= a /\ b \in Nat
      BY <2>1, <2>4, <2>5
    <2> QED
      BY <2>3, <2>4, <2>5, <2>6
  <1>7. Numbers'
    <2>1. ASSUME NEW k \in Msgs, mem'[k] # NoAck PROVE mem'[k].n <= newest'[mem'[k].flow]
      <3>1. CASE k = m
        BY <1>5, <1>6, <3>1
      <3>2. CASE k # m
        <4>1. mem'[k] = mem[k] /\ mem[k] # NoAck /\ mem[k].n <= newest[mem[k].flow]
          BY <2>1, <3>2, <1>1, <1>5 DEF At, Tracked, Numbers
        <4>2. mem[k].flow \in Flows /\ mem[k].n \in Nat
          BY <4>1, <1>1 DEF At, TypeOK, Acks
        <4> QED
          BY <4>1, <4>2, <1>6
      <3> QED
        BY <3>1, <3>2
    <2>2. ASSUME NEW g \in Flows PROVE sent'[g] <= newest'[g]
      <3>1. sent[g] <= newest[g] /\ sent[g] \in 0 .. MaxN
        BY <1>1 DEF At, Tracked, Numbers, TypeOK
      <3>2. sent[g] \in Int /\ newest[g] \in Nat /\ newest'[g] \in Nat /\ newest'[g] >= newest[g]
        BY <3>1, <1>6
      <3> QED
        BY <3>1, <3>2, <1>3
    <2> QED
      BY <1>1, <1>5, <1>6, <2>1, <2>2 DEF Numbers
  <1>8. Path'
    <2>1. free_index' \notin busy'
      <3>1. aged \subseteq Nat
        BY <1>1, SlotFacts DEF At, TypeOK
      <3>2. aged # {} => Min(aged) \in aged
        BY <3>1, MinNat
      <3> QED
        BY <3>2, <1>1, <1>4 DEF At, Tracked, Path
    <2> QED
      BY <2>1, <1>1, <1>5 DEF Path
  <1>9. Known'
    <2>1. ASSUME NEW s \in busy'
          PROVE  \E b \in newest'[key'[s]] - (Lag(key[s]))' .. newest'[key'[s]] : seq'[s] = Seq32(b)
      <3>1. s \in busy /\ key[s] \in Flows /\ s \in Slots
        BY <1>1, <1>4 DEF At, Tracked, Known, TypeOK
      <3>2. Lag(key[s]) = 1
        BY <1>1, <1>3 DEF Lag
      <3>3. PICK b \in newest[key[s]] - 1 .. newest[key[s]] : seq[s] = Seq32(b)
        BY <1>1, <3>1, <3>2 DEF At, Tracked, Known
      <3>4. /\ (Lag(key[s]))' \in {1, 2}
            /\ key[s] = f /\ newest'[f] # newest[f] => (Lag(key[s]))' = 2
        <4>1. mem'[xmsg'[q]].flow = f /\ mem'[xmsg'[q]].n = n
          BY <1>5
        <4>2. newest'[f] # newest[f] => n = newest'[f]
          BY <1>6
        <4> QED
          BY <1>3, <1>5, <4>1, <4>2 DEF Lag
      <3>5. b \in newest'[key[s]] - (Lag(key[s]))' .. newest'[key[s]]
        BY <3>1, <3>3, <3>4, <1>6
      <3> QED
        BY <3>3, <3>5, <1>3
    <2> QED
      BY <2>1, <1>1, <1>3, <1>4 DEF At, Tracked, Known
  <1>10. Timed'
    <2>1. \A s \in Slots : msgbuf[s] # m
      BY <1>1, <1>2 DEF At, Own
    <2>2. ASSUME NEW s \in Slots, msgbuf[s] # Null PROVE s \in busy' /\ mem'[msgbuf[s]] = mem[msgbuf[s]]
      <3>1. s \in busy /\ s \notin old
        BY <1>1, <2>2 DEF At, Tracked, Timed
      <3>2. msgbuf[s] \in Msgs
        BY <1>1, <2>2 DEF At, TypeOK
      <3> QED
        BY <1>4, <1>5, <2>1, <3>1, <3>2
    <2>3. \A s \in Slots : in_send_msg[s] # Null =>
             s \in busy' /\ hpc[s] = "move" /\ in_send_msg[s] = hmsg[s]
      BY <1>1, <1>3, <1>4 DEF At, Tracked, Timed
    <2> QED
      BY <1>1, <1>3, <2>2, <2>3 DEF At, Tracked, Timed
  <1>11. Kept'
    <2> SUFFICES ASSUME NEW g \in Flows
                 PROVE  sent[g] = newest'[g] \/ \E k \in Live' : mem'[k].flow = g /\ mem'[k].n = newest'[g]
      BY <1>3 DEF Kept
    <2>1. CASE g = f /\ newest'[f] # newest[f]
      BY <2>1, <1>5, <1>6 DEF Live
    <2>2. CASE newest'[g] = newest[g]
      <3>1. CASE sent[g] = newest[g]
        BY <2>2, <3>1
      <3>2. CASE \E k \in Live : mem[k].flow = g /\ mem[k].n = newest[g]
        BY <2>2, <3>2, <1>2, <1>5 DEF Live
      <3> QED
        BY <3>1, <3>2, <1>1 DEF At, Tracked, Kept
    <2> QED
      BY <2>1, <2>2, <1>6
  <1> QED
    BY <1>7, <1>8, <1>9, <1>10, <1>11 DEF Tracked

\* Lag is two at most for the flow of the frame that is being matched.
LEMMA LagFacts ==
    ASSUME NEW q \in Queues, \A p \in Queues : p = q, NEW g
    PROVE  Lag(g) = IF /\ xpc[q] \in {"match", "handle"} /\ mem[xmsg[q]].flow = g
                       /\ mem[xmsg[q]].n = newest[g]
                    THEN 2 ELSE 1
  BY DEF Lag

LEMMA TrackedMatch ==
    ASSUME NEW q \in Queues, Match(q), At(q)
    PROVE  Tracked'
  <1>1. PICK m \in Msgs, f \in Flows : m = xmsg[q] /\ f = mem[m].flow
    BY AtFacts DEF Match
  <1>2. /\ xpc[q] = "match"
        /\ \/ /\ Matching(f) # {} /\ xslot' = [xslot EXCEPT ![q] = Min(Matching(f))]
              /\ xpc' = [xpc EXCEPT ![q] = "handle"]
           \/ Matching(f) = {} /\ xpc' = [xpc EXCEPT ![q] = "alloc"] /\ xslot' = xslot
        /\ UNCHANGED <<busy, old, key, seq, free_index, msgbuf, in_send_msg, pend, hpc, hmsg, xmsg, mem,
                       newest, sent>>
    BY <1>1 DEF Match, tableVars, slotVars, handVars, timerVars, flowVars
  <1>3. Numbers'
    BY <1>2 DEF At, Tracked, Numbers, TypeOK
  <1>4. Path'
    <2>1. CASE Matching(f) # {} /\ xslot' = [xslot EXCEPT ![q] = Min(Matching(f))]
               /\ xpc' = [xpc EXCEPT ![q] = "handle"]
      <3>1. Min(Matching(f)) \in Matching(f)
        <4>1. Matching(f) \subseteq Nat
          BY SlotFacts DEF Matching, At, TypeOK
        <4> QED
          BY <2>1, <4>1, MinNat
      <3>2. xpc'[q] = "handle" /\ xslot'[q] \in busy /\ key[xslot'[q]] = f
        BY <2>1, <3>1 DEF Matching, At, TypeOK
      <3> QED
        BY <1>1, <1>2, <3>2 DEF At, Tracked, Path
    <2>2. CASE Matching(f) = {} /\ xpc' = [xpc EXCEPT ![q] = "alloc"] /\ xslot' = xslot
      <3>1. xpc'[q] = "alloc" /\ \A s \in busy : key[s] # f
        BY <2>2 DEF Matching, At, TypeOK
      <3> QED
        BY <1>1, <1>2, <3>1 DEF At, Tracked, Path
    <2> QED
      BY <1>2, <2>1, <2>2
  <1>5. Known'
    <2>1. ASSUME NEW s \in busy PROVE (Lag(key[s]))' = Lag(key[s])
      <3>1. CASE Matching(f) = {}
        <4>1. key[s] # f
          BY <3>1 DEF Matching
        <4> QED
          BY <4>1, <1>1, <1>2, LagFacts DEF At, Lag
      <3>2. CASE xpc' = [xpc EXCEPT ![q] = "handle"]
        BY <3>2, <1>2 DEF At, Lag, TypeOK
      <3> QED
        BY <1>2, <3>1, <3>2
    <2> QED
      BY <1>2, <2>1 DEF At, Tracked, Known
  <1>6. Timed'
    BY <1>2 DEF At, Tracked, Timed
  <1>7. Kept'
    BY <1>2, KeptSame DEF At, Tracked
  <1> QED
    BY <1>3, <1>4, <1>5, <1>6, <1>7 DEF Tracked

LEMMA TrackedAlloc ==
    ASSUME NEW q \in Queues, Alloc(q), At(q)
    PROVE  Tracked'
  <1>1. /\ xpc[q] = "alloc"
        /\ UNCHANGED <<busy, old, key, seq, msgbuf, in_send_msg, pend, hpc, hmsg, xmsg, mem,
                       newest, sent>>
    BY DEF Alloc, tableVars, slotVars, handVars, timerVars, flowVars
  <1>2. \/ xpc' = [xpc EXCEPT ![q] = "move"] /\ UNCHANGED <<free_index, xslot>>
        \/ /\ xpc' = [xpc EXCEPT ![q] = "fill"] /\ free_index' = -1
           /\ \E s \in Slots \ busy : xslot' = [xslot EXCEPT ![q] = s]
    <2>1. free_index >= 0 => free_index \in Slots \ busy
      BY DEF At, TypeOK, Tracked, Path
    <2>2. Slots \ busy # {} => Min(Slots \ busy) \in Slots \ busy
      <3>1. Slots \ busy \subseteq Nat
        BY SlotFacts
      <3> QED
        BY <3>1, MinNat
    <2> QED
      BY <2>1, <2>2 DEF Alloc
  <1>3. -1 \notin busy
    BY SlotFacts DEF At, TypeOK
  <1>4. xpc'[q] \in {"move", "fill"} /\ \A p \in Queues : p = q
    BY <1>2 DEF At, TypeOK
  <1>5. Numbers'
    BY <1>1, <1>4 DEF At, Tracked, Numbers
  <1>6. Path'
    <2>1. xpc'[q] = "fill" => xslot'[q] \notin busy /\ free_index' = -1
      BY <1>2 DEF At, TypeOK
    <2>2. free_index' \notin busy
      BY <1>2, <1>3 DEF At, Tracked, Path
    <2> QED
      BY <1>1, <1>4, <2>1, <2>2 DEF At, Tracked, Path
  <1>7. Known'
    <2>1. \A g : Lag(g) = 1 /\ (Lag(g))' = 1
      BY <1>1, <1>4 DEF Lag
    <2> QED
      BY <1>1, <2>1 DEF At, Tracked, Known
  <1>8. Timed'
    <2>1. \A s \in Slots : in_send_msg[s] # Null => s \in busy /\ hpc[s] = "move" /\ in_send_msg[s] = hmsg[s]
      BY <1>1, <1>4 DEF At, Tracked, Timed
    <2> QED
      BY <1>1, <2>1 DEF At, Tracked, Timed
  <1>9. Kept'
    BY <1>1, KeptSame DEF At, Tracked
  <1> QED
    BY <1>5, <1>6, <1>7, <1>8, <1>9 DEF Tracked

LEMMA TrackedFill ==
    ASSUME NEW q \in Queues, Fill(q), At(q)
    PROVE  Tracked'
  <1>1. PICK m \in Msgs, f \in Flows, n \in Nat, s \in Slots :
           m = xmsg[q] /\ f = mem[m].flow /\ n = mem[m].n /\ s = xslot[q]
    BY AtFacts DEF Fill, At, TypeOK
  <1>2. /\ newest[f] \in Nat /\ (n = newest[f] \/ n = newest[f] - 1)
        /\ \A p \in Queues : p = q
    BY <1>1, AtFacts DEF Fill, At
  <1>3. /\ xpc[q] = "fill" /\ xpc' = [xpc EXCEPT ![q] = "move"]
        /\ busy' = busy \cup {s} /\ old' = old \ {s} /\ key' = [key EXCEPT ![s] = f]
        /\ seq' = [seq EXCEPT ![s] = Seq32(n)]
        /\ UNCHANGED <<free_index, msgbuf, in_send_msg, pend, hpc, hmsg, xmsg, xslot, mem, newest, sent>>
    BY <1>1 DEF Fill, handVars, timerVars, flowVars
  <1>4. /\ s \notin busy /\ free_index = -1 /\ \A t \in busy : key[t] # f
        /\ msgbuf[s] = Null /\ in_send_msg[s] = Null /\ xpc'[q] = "move"
    BY <1>1, <1>2, <1>3 DEF At, Tracked, Path, Timed, TypeOK
  <1>5. /\ key'[s] = f /\ seq'[s] = Seq32(n)
        /\ \A t \in Slots \ {s} : key'[t] = key[t] /\ seq'[t] = seq[t]
    BY <1>3 DEF At, TypeOK
  <1>6. Numbers'
    BY <1>2, <1>3, <1>4 DEF At, Tracked, Numbers
  <1>7. Path'
    <2>1. s # -1
      BY SlotFacts
    <2> QED
      BY <1>2, <1>3, <1>4, <2>1 DEF At, Tracked, Path
  <1>8. Known'
    <2>1. \A g : Lag(g) = 1 /\ (Lag(g))' = 1
      BY <1>2, <1>3, <1>4 DEF Lag
    <2>2. n \in newest[f] - 1 .. newest[f]
      BY <1>2
    <2>3. busy \subseteq Slots
      BY DEF At, TypeOK
    <2>4. ASSUME NEW t \in busy'
          PROVE  \E b \in newest[key'[t]] - 1 .. newest[key'[t]] : seq'[t] = Seq32(b)
      <3>1. CASE t = s
        BY <1>5, <2>2, <3>1
      <3>2. CASE t # s
        <4>1. t \in busy /\ key'[t] = key[t] /\ seq'[t] = seq[t]
          BY <1>3, <1>5, <2>3, <3>2
        <4> QED
          BY <2>1, <4>1 DEF At, Tracked, Known
      <3> QED
        BY <3>1, <3>2
    <2>5. \A t \in busy' : key'[t] \in Flows
      BY <1>3, <1>5, <2>3 DEF At, Tracked, Known
    <2>6. \A t, u \in busy' : key'[t] = key'[u] => t = u
      BY <1>3, <1>4, <1>5, <2>3 DEF At, Tracked, Known
    <2> QED
      BY <1>3, <2>1, <2>4, <2>5, <2>6 DEF Known
  <1>9. Timed'
    <2>1. \A t \in Slots : in_send_msg[t] # Null => t \in busy /\ hpc[t] = "move" /\ in_send_msg[t] = hmsg[t]
      BY <1>2, <1>3 DEF At, Tracked, Timed
    <2>2. \A t \in Slots : msgbuf[t] # Null => t # s
      BY <1>4
    <2> QED
      BY <1>3, <1>5, <2>1, <2>2 DEF At, Tracked, Timed
  <1>10. Kept'
    BY <1>3, KeptSame DEF At, Tracked
  <1> QED
    BY <1>6, <1>7, <1>8, <1>9, <1>10 DEF Tracked

LEMMA TrackedOlder ==
    ASSUME NEW q \in Queues, xpc[q] = "handle", Older(q, xmsg[q]), At(q), old' = old \ {xslot[q]},
           ~Before(seq[xslot[q]], Seq32(mem[xmsg[q]].n)),
           UNCHANGED <<busy, key, free_index, hpc, hmsg, newest, sent>>
    PROVE  Tracked'
  <1>1. PICK m \in Msgs, f \in Flows, n \in Nat, s \in Slots :
           m = xmsg[q] /\ f = mem[m].flow /\ n = mem[m].n /\ s = xslot[q]
    BY AtFacts DEF At, TypeOK
  <1>2. /\ newest[f] \in Nat /\ (n = newest[f] \/ n = newest[f] - 1)
        /\ \A p \in Queues : p = q
    BY <1>1, AtFacts DEF At
  <1>3. /\ mem' = Freed({m}) /\ xpc'[q] = "idle"
        /\ UNCHANGED <<seq, msgbuf, in_send_msg, pend>>
    BY <1>1 DEF Older, Return, slotVars, handVars, At, TypeOK
  <1>4. \A k \in Msgs : mem'[k] = IF k = m THEN NoAck ELSE mem[k]
    BY <1>3, FreedFacts DEF At
  <1>5. s \in busy /\ key[s] = f
    BY <1>1 DEF At, Tracked, Path
  <1>6. n = newest[f] - 1
    <2> SUFFICES ASSUME n = newest[f] PROVE FALSE
      BY <1>2
    <2>1. Lag(f) \in {1, 2}
      BY DEF Lag
    <2>2. PICK b \in newest[f] - Lag(f) .. newest[f] : seq[s] = Seq32(b)
      BY <1>5 DEF At, Tracked, Known
    <2>3. b \in Int /\ b <= n /\ n <= b + 2
      BY <1>2, <2>1, <2>2
    <2>4. Before(Seq32(b), Seq32(n))
      <3>1. n \in Int
        OBVIOUS
      <3> QED
        BY <2>3, <3>1, SeqFacts, Zenon
    <2>5. seq[xslot[q]] = Seq32(b) /\ Seq32(mem[xmsg[q]].n) = Seq32(n)
      BY <1>1, <2>2
    <2> QED
      BY <2>4, <2>5
  <1>7. Numbers'
    BY <1>2, <1>3, <1>4 DEF At, Tracked, Numbers
  <1>8. Path'
    BY <1>2, <1>3 DEF At, Tracked, Path
  <1>9. Known'
    <2>1. ASSUME NEW g PROVE Lag(g) = 1 /\ (Lag(g))' = 1
      <3>1. \A p \in Queues : xpc'[p] \notin {"match", "handle"}
        BY <1>2, <1>3
      <3>2. \A p \in Queues : mem[xmsg[p]].flow = f /\ mem[xmsg[p]].n # newest[f]
        <4>1. n # newest[f]
          BY <1>2, <1>6
        <4> QED
          BY <4>1, <1>1, <1>2, Zenon
      <3> QED
        BY <3>1, <3>2 DEF Lag
    <2> QED
      BY <1>3, <2>1 DEF At, Tracked, Known
  <1>10. Timed'
    <2>1. \A t \in Slots : in_send_msg[t] # Null => t \in busy /\ hpc[t] = "move" /\ in_send_msg[t] = hmsg[t]
      BY <1>2 DEF At, Tracked, Timed
    <2>2. ASSUME NEW t \in Slots, msgbuf[t] # Null PROVE mem'[msgbuf[t]] = mem[msgbuf[t]]
      <3>1. msgbuf[t] \in Msgs /\ msgbuf[t] # m
        BY <2>2, <1>1, SlotFacts DEF At, TypeOK, Own
      <3> QED
        BY <3>1, <1>4
    <2>3. ASSUME NEW t \in Slots, msgbuf[t] # Null
          PROVE  /\ t \in busy /\ mem'[msgbuf[t]].flow = key[t] /\ seq[t] = Seq32(mem'[msgbuf[t]].n)
                 /\ t \in pend \/ hpc[t] = "lock"
      BY <2>2, <2>3 DEF At, Tracked, Timed
    <2>4. \A t \in old' : t \notin pend /\ hpc[t] = "idle" /\ in_send_msg[t] = Null
      BY DEF At, Tracked, Timed
    <2> QED
      BY <1>3, <2>1, <2>3, <2>4 DEF Timed
  <1>11. Kept'
    <2> SUFFICES ASSUME NEW g \in Flows, sent[g] # newest[g]
                 PROVE  \E k \in Live' : mem'[k].flow = g /\ mem'[k].n = newest[g]
      BY DEF Kept
    <2>1. PICK k \in Live : mem[k].flow = g /\ mem[k].n = newest[g]
      BY DEF At, Tracked, Kept
    <2>2. k # m
      <3>1. k = m => newest[f] = n
        BY <1>1, <2>1
      <3> QED
        BY <3>1, <1>2, <1>6
    <2> QED
      BY <1>4, <2>1, <2>2 DEF Live
  <1> QED
    BY <1>7, <1>8, <1>9, <1>10, <1>11 DEF Tracked

LEMMA TrackedNewer ==
    ASSUME NEW q \in Queues, NEW s \in Slots, s = xslot[q], xpc[q] = "handle", Newer(q, s, xmsg[q]),
           At(q), old' = old \ {s}, Before(seq[s], Seq32(mem[xmsg[q]].n)),
           UNCHANGED <<busy, key, free_index, hpc, hmsg, newest, sent>>
    PROVE  Tracked'
  <1>1. PICK m \in Msgs, f \in Flows, n \in Nat :
           m = xmsg[q] /\ f = mem[m].flow /\ n = mem[m].n /\ mem[m] # NoAck
    BY AtFacts
  <1>2. /\ newest[f] \in Nat /\ (n = newest[f] \/ n = newest[f] - 1)
        /\ \A p \in Queues : p = q
    BY <1>1, AtFacts DEF At
  <1>3. PICK o \in Msgs \cup {Null} : o = msgbuf[s]
    BY DEF At, TypeOK
  <1>4. /\ seq' = [seq EXCEPT ![s] = Seq32(n)]
        /\ \/ /\ xpc' = [xpc EXCEPT ![q] = "move"] /\ UNCHANGED <<xmsg, xslot>>
              /\ msgbuf' = [msgbuf EXCEPT ![s] = Null] /\ in_send_msg' = [in_send_msg EXCEPT ![s] = m]
              /\ pend' = pend \ {s}
           \/ /\ Return(q) /\ msgbuf' = [msgbuf EXCEPT ![s] = m]
              /\ in_send_msg' = [in_send_msg EXCEPT ![s] = @] /\ pend' = pend \cup {s}
    BY <1>1 DEF Newer
  <1>5. \A k \in Msgs : mem'[k] = IF k = o THEN NoAck ELSE mem[k]
    <2>1. mem' = Freed({o} \ {Null})
      BY <1>3 DEF Newer
    <2>2. \A k \in Msgs : Freed({o} \ {Null})[k] = IF k \in {o} \ {Null} THEN NoAck ELSE mem[k]
      BY FreedFacts DEF At
    <2>3. Null \notin Msgs
      BY SlotFacts
    <2> QED
      BY <2>1, <2>2, <2>3
  <1>6. /\ s \in busy /\ key[s] = f /\ m # o /\ m # Null
        /\ \A t \in Slots \ {s} : msgbuf[t] # Null => msgbuf[t] # o
    BY <1>1, <1>3, SlotFacts DEF At, Tracked, Path, Own
  <1>7. mem'[m] = mem[m]
    BY <1>5, <1>6
  <1>8. xpc'[q] = "idle" \/ (xpc'[q] = "move" /\ xmsg' = xmsg /\ xslot' = xslot)
    BY <1>4 DEF Return, At, TypeOK
  <1>9. Numbers'
    <2>1. \A k \in Msgs : mem'[k] # NoAck => mem[k] # NoAck /\ mem'[k] = mem[k]
      BY <1>5
    <2>2. \A p \in Queues : xpc'[p] # "idle" => xmsg'[p] = m /\ mem'[m] = mem[m]
      BY <1>1, <1>2, <1>7, <1>8
    <2> QED
      BY <1>1, <1>2, <2>1, <2>2 DEF At, Tracked, Numbers
  <1>10. Path'
    BY <1>2, <1>8 DEF At, Tracked, Path
  <1>11. Known'
    <2>1. \A g : (Lag(g))' = 1 /\ Lag(g) \in {1, 2} /\ (g # f => Lag(g) = 1)
      BY <1>1, <1>2, <1>8 DEF Lag
    <2>2. ASSUME NEW t \in busy
          PROVE  \E b \in newest[key[t]] - 1 .. newest[key[t]] : seq'[t] = Seq32(b)
      <3>1. t \in Slots /\ key[t] \in Flows
        BY DEF At, TypeOK, Tracked, Known
      <3>2. CASE t = s
        <4>1. seq'[t] = Seq32(n) /\ n \in newest[f] - 1 .. newest[f]
          BY <1>2, <1>4, <3>2 DEF At, TypeOK
        <4> QED
          BY <4>1, <1>6, <3>2
      <3>3. CASE t # s
        <4>1. key[t] # f /\ seq'[t] = seq[t]
          BY <1>4, <1>6, <3>1, <3>3 DEF At, TypeOK, Tracked, Known
        <4> QED
          BY <2>1, <4>1 DEF At, Tracked, Known
      <3> QED
        BY <3>2, <3>3
    <2> QED
      BY <2>1, <2>2 DEF At, Tracked, Known
  <1>12. Timed'
    <2>1. ASSUME NEW t \in Slots, msgbuf'[t] # Null
          PROVE  /\ t \in busy /\ mem'[msgbuf'[t]].flow = key[t] /\ seq'[t] = Seq32(mem'[msgbuf'[t]].n)
                 /\ t \in pend' \/ hpc[t] = "lock"
      <3>1. CASE t = s
        <4>1. msgbuf'[s] = m /\ s \in pend' /\ seq'[s] = Seq32(n)
          BY <1>4, <2>1, <3>1 DEF At, TypeOK
        <4> QED
          BY <4>1, <3>1, <1>1, <1>6, <1>7
      <3>2. CASE t # s
        <4>1. msgbuf'[t] = msgbuf[t] /\ seq'[t] = seq[t] /\ (t \in pend => t \in pend')
          BY <1>4, <3>2 DEF At, TypeOK
        <4>2. msgbuf[t] \in Msgs /\ mem'[msgbuf[t]] = mem[msgbuf[t]]
          BY <1>5, <1>6, <2>1, <3>2, <4>1 DEF At, TypeOK
        <4> QED
          BY <2>1, <4>1, <4>2 DEF At, Tracked, Timed
      <3> QED
        BY <3>1, <3>2
    <2>2. ASSUME NEW t \in old'
          PROVE  t \notin pend' /\ hpc[t] = "idle" /\ in_send_msg'[t] = Null
      <3>1. t \in Slots /\ t # s /\ t \in old
        BY <2>2 DEF At, TypeOK
      <3>2. t \notin pend /\ hpc[t] = "idle" /\ in_send_msg[t] = Null
        BY <3>1 DEF At, Tracked, Timed
      <3> QED
        BY <1>4, <3>1, <3>2 DEF At, TypeOK
    <2>3. \A t \in Slots : in_send_msg[t] # Null => t \in busy /\ hpc[t] = "move" /\ in_send_msg[t] = hmsg[t]
      BY <1>2 DEF At, Tracked, Timed
    <2>4. ASSUME NEW t \in Slots, in_send_msg'[t] # Null
          PROVE  /\ t \in busy
                 /\ \/ hpc[t] = "move" /\ in_send_msg'[t] = hmsg[t]
                    \/ \E p \in Queues : /\ xpc'[p] = "move" /\ xslot'[p] = t /\ in_send_msg'[t] = xmsg'[p]
                                         /\ msgbuf'[t] = Null
      <3>1. CASE in_send_msg'[t] = in_send_msg[t]
        BY <2>3, <2>4, <3>1
      <3>2. CASE in_send_msg'[t] # in_send_msg[t]
        <4>1. /\ t = s /\ xpc'[q] = "move" /\ xslot' = xslot /\ xmsg' = xmsg /\ in_send_msg'[s] = m
              /\ msgbuf'[s] = Null
          BY <1>4, <3>2 DEF At, TypeOK
        <4> QED
          BY <4>1, <1>1, <1>6
      <3> QED
        BY <3>1, <3>2
    <2> QED
      BY <2>1, <2>2, <2>4 DEF Timed
  <1>13. Kept'
    <2> SUFFICES ASSUME NEW g \in Flows, sent[g] # newest[g]
                 PROVE  \E k \in Live' : mem'[k].flow = g /\ mem'[k].n = newest[g]
      BY DEF Kept
    <2>1. PICK k \in Live : mem[k].flow = g /\ mem[k].n = newest[g]
      BY DEF At, Tracked, Kept
    <2>2. CASE k # o
      BY <1>5, <2>1, <2>2 DEF Live
    <2>3. CASE k = o
      <3>1. g = f /\ seq[s] = Seq32(newest[f])
        BY <1>3, <1>6, <2>1, <2>3, SlotFacts DEF At, Tracked, Timed, Live
      <3>2. n = newest[f]
        <4> SUFFICES ASSUME n = newest[f] - 1 PROVE FALSE
          BY <1>2
        <4>1. ~Before(Seq32(newest[f]), Seq32(newest[f] - 1))
          BY <1>2, SeqFacts
        <4> QED
          BY <4>1, <3>1, <1>1
      <3> QED
        BY <3>1, <3>2, <1>1, <1>7 DEF Live
    <2> QED
      BY <2>2, <2>3
  <1> QED
    BY <1>9, <1>10, <1>11, <1>12, <1>13 DEF Tracked

LEMMA TrackedHandle ==
    ASSUME NEW q \in Queues, Handle(q), At(q)
    PROVE  Tracked'
  <1>1. PICK s \in Slots : s = xslot[q]
    BY DEF At, TypeOK
  <1>2. /\ xpc[q] = "handle" /\ old' = old \ {s}
        /\ UNCHANGED <<busy, key, free_index, hpc, hmsg, newest, sent>>
    BY <1>1 DEF Handle, flowVars
  <1>3. CASE Before(seq[s], Seq32(mem[xmsg[q]].n))
    <2>1. Newer(q, s, xmsg[q])
      BY <1>1, <1>3 DEF Handle
    <2> QED
      BY <2>1, <1>1, <1>2, <1>3, TrackedNewer
  <1>4. CASE ~Before(seq[s], Seq32(mem[xmsg[q]].n))
    <2>1. Older(q, xmsg[q])
      BY <1>1, <1>4 DEF Handle
    <2> QED
      BY <2>1, <1>1, <1>2, <1>4, TrackedOlder
  <1> QED
    BY <1>3, <1>4

\* A message that is passed on is no longer held, and its number counts as sent.
LEMMA SendOnFacts ==
    ASSUME TypeOK, Tracked, enable, NEW m \in Msgs, mem[m] # NoAck, SendOn(m), newest' = newest
    PROVE  /\ \A k \in Msgs : mem'[k] = IF k = m THEN NoAck ELSE mem[k]
           /\ \A t \in Slots : in_send_msg'[t] # Null => in_send_msg'[t] = in_send_msg[t]
                                                         /\ in_send_msg[t] # m
           /\ \A g \in Flows : sent'[g] <= newest[g]
           /\ Kept'
  <1>1. PICK f \in Flows, n \in Nat : f = mem[m].flow /\ n = mem[m].n
    BY DEF TypeOK, Acks
  <1>2. \A k \in Msgs : mem'[k] = IF k = m THEN NoAck ELSE mem[k]
    BY FreedFacts DEF SendOn
  <1>3. \A t \in Slots : in_send_msg'[t] # Null => in_send_msg'[t] = in_send_msg[t] /\ in_send_msg[t] # m
    BY DEF SendOn, Tracked, Timed
  <1>4. \A g \in Flows : newest[g] \in Nat /\ sent[g] \in Nat /\ sent[g] <= newest[g]
    BY DEF TypeOK, Tracked, Numbers
  <1>5. n <= newest[f]
    BY <1>1 DEF Tracked, Numbers
  <1>6. /\ sent'[f] = IF sent[f] >= n THEN sent[f] ELSE n
        /\ \A g \in Flows \ {f} : sent'[g] = sent[g]
    <2>1. Max({sent[f], n}) = IF sent[f] >= n THEN sent[f] ELSE n
      BY <1>4, MaxOfTwo
    <2> QED
      BY <1>1, <2>1 DEF SendOn, TypeOK
  <1>7. \A g \in Flows : sent'[g] <= newest[g]
    BY <1>4, <1>5, <1>6
  <1>8. Kept'
    <2> SUFFICES ASSUME NEW g \in Flows, sent'[g] # newest[g]
                 PROVE  \E k \in Live' : mem'[k].flow = g /\ mem'[k].n = newest[g]
      BY DEF Kept
    <2>1. sent[g] # newest[g] /\ ~(g = f /\ n = newest[f])
      <3>1. sent[g] \in Nat /\ newest[g] \in Nat /\ sent[g] <= newest[g]
        BY <1>4
      <3>2. CASE g = f
        BY <3>1, <3>2, <1>5, <1>6
      <3>3. CASE g # f
        BY <3>3, <1>6
      <3> QED
        BY <3>2, <3>3
    <2>2. PICK k \in Live : mem[k].flow = g /\ mem[k].n = newest[g]
      BY <2>1 DEF Tracked, Kept
    <2>3. k # m
      BY <1>1, <2>1, <2>2
    <2> QED
      BY <1>2, <2>2, <2>3 DEF Live
  <1> QED
    BY <1>2, <1>3, <1>7, <1>8

LEMMA TrackedMove ==
    ASSUME NEW q \in Queues, Move(q), At(q), enable
    PROVE  Tracked'
  <1>1. PICK m \in Msgs : m = xmsg[q] /\ mem[m] # NoAck
    BY AtFacts DEF Move
  <1>2. /\ xpc[q] = "move" /\ SendOn(m) /\ xpc'[q] = "idle" /\ \A p \in Queues : p = q
        /\ UNCHANGED <<busy, old, key, seq, free_index, msgbuf, pend, hpc, hmsg, newest>>
    BY <1>1 DEF Move, Return, At, TypeOK, tableVars, slotVars, timerVars
  <1>3. /\ \A k \in Msgs : mem'[k] = IF k = m THEN NoAck ELSE mem[k]
        /\ \A t \in Slots : in_send_msg'[t] # Null => in_send_msg'[t] = in_send_msg[t]
                                                      /\ in_send_msg[t] # m
        /\ \A g \in Flows : sent'[g] <= newest[g]
        /\ Kept'
    BY <1>1, <1>2, SendOnFacts DEF At
  <1>4. Numbers'
    BY <1>2, <1>3 DEF At, Tracked, Numbers
  <1>5. Path'
    BY <1>2 DEF At, Tracked, Path
  <1>6. Known'
    <2>1. \A g : Lag(g) = 1 /\ (Lag(g))' = 1
      BY <1>2 DEF Lag
    <2> QED
      BY <1>2, <2>1 DEF At, Tracked, Known
  <1>7. Timed'
    <2>1. ASSUME NEW t \in Slots, msgbuf[t] # Null
          PROVE  /\ t \in busy /\ mem'[msgbuf[t]].flow = key[t] /\ seq[t] = Seq32(mem'[msgbuf[t]].n)
                 /\ t \in pend \/ hpc[t] = "lock"
      <3>1. msgbuf[t] \in Msgs /\ msgbuf[t] # m
        BY <2>1, <1>1, SlotFacts DEF At, TypeOK, Own
      <3>2. mem'[msgbuf[t]] = mem[msgbuf[t]]
        BY <3>1, <1>3
      <3> QED
        BY <2>1, <3>2 DEF At, Tracked, Timed
    <2>2. ASSUME NEW t \in old PROVE t \notin pend /\ hpc[t] = "idle" /\ in_send_msg'[t] = Null
      <3>1. t \in Slots /\ t \notin pend /\ hpc[t] = "idle" /\ in_send_msg[t] = Null
        BY <2>2 DEF At, TypeOK, Tracked, Timed
      <3> QED
        BY <3>1, <1>3
    <2>3. ASSUME NEW t \in Slots, in_send_msg'[t] # Null
          PROVE  t \in busy /\ hpc[t] = "move" /\ in_send_msg'[t] = hmsg[t]
      BY <2>3, <1>1, <1>2, <1>3 DEF At, Tracked, Timed
    <2> QED
      BY <1>2, <2>1, <2>2, <2>3 DEF Timed
  <1> QED
    BY <1>3, <1>4, <1>5, <1>6, <1>7 DEF Tracked

LEMMA TrackedTimerSend ==
    ASSUME NEW q, NEW s \in Slots, TimerSend(s), At(q), enable
    PROVE  Tracked'
  <1>1. PICK m \in Msgs : m = hmsg[s] /\ mem[m] # NoAck /\ m # Null
    BY DEF TimerSend, At, TypeOK, Own
  <1>2. /\ hpc[s] = "move" /\ SendOn(m) /\ hpc' = [hpc EXCEPT ![s] = "idle"]
        /\ hmsg' = [hmsg EXCEPT ![s] = Null]
        /\ UNCHANGED <<busy, old, key, seq, free_index, msgbuf, pend, xpc, xmsg, xslot, newest>>
    BY <1>1 DEF TimerSend, tableVars, slotVars, xmitVars
  <1>3. /\ \A k \in Msgs : mem'[k] = IF k = m THEN NoAck ELSE mem[k]
        /\ \A t \in Slots : in_send_msg'[t] # Null => in_send_msg'[t] = in_send_msg[t]
                                                      /\ in_send_msg[t] # m
        /\ \A g \in Flows : sent'[g] <= newest[g]
        /\ Kept'
    BY <1>1, <1>2, SendOnFacts DEF At
  <1>4. \A p \in Queues : xpc[p] # "idle" => xmsg[p] \in Msgs /\ mem'[xmsg[p]] = mem[xmsg[p]]
    <2>1. ASSUME NEW p \in Queues, xpc[p] # "idle" PROVE xmsg[p] \in Msgs /\ xmsg[p] # m
      BY <2>1, <1>1, SlotFacts DEF At, Own, TypeOK
    <2> QED
      BY <1>3, <2>1
  <1>5. Numbers'
    BY <1>2, <1>3, <1>4 DEF At, Tracked, Numbers
  <1>6. Path'
    BY <1>2, <1>4 DEF At, Tracked, Path
  <1>7. Known'
    <2>1. ASSUME NEW g PROVE (Lag(g))' = Lag(g)
      <3>1. \A p \in Queues : xpc[p] \in {"match", "handle"} => mem'[xmsg[p]] = mem[xmsg[p]]
        BY <1>4
      <3> QED
        BY <1>2, <3>1 DEF Lag
    <2> QED
      BY <1>2, <2>1 DEF At, Tracked, Known
  <1>8. Timed'
    <2>1. ASSUME NEW t \in Slots, msgbuf[t] # Null
          PROVE  /\ t \in busy /\ mem'[msgbuf[t]].flow = key[t] /\ seq[t] = Seq32(mem'[msgbuf[t]].n)
                 /\ t \in pend \/ hpc'[t] = "lock"
      <3>1. msgbuf[t] \in Msgs /\ msgbuf[t] # m
        BY <2>1, <1>1, SlotFacts DEF At, TypeOK, Own
      <3>2. mem'[msgbuf[t]] = mem[msgbuf[t]]
        BY <3>1, <1>3
      <3>3. hpc[t] = "lock" => hpc'[t] = "lock"
        BY <1>2 DEF At, TypeOK
      <3> QED
        BY <2>1, <3>2, <3>3 DEF At, Tracked, Timed
    <2>2. ASSUME NEW t \in old PROVE t \notin pend /\ hpc'[t] = "idle" /\ in_send_msg'[t] = Null
      <3>1. t \in Slots /\ t \notin pend /\ hpc[t] = "idle" /\ in_send_msg[t] = Null
        BY <2>2 DEF At, TypeOK, Tracked, Timed
      <3> QED
        BY <3>1, <1>2, <1>3 DEF At, TypeOK
    <2>3. ASSUME NEW t \in Slots, in_send_msg'[t] # Null
          PROVE  /\ t \in busy
                 /\ \/ hpc'[t] = "move" /\ in_send_msg'[t] = hmsg'[t]
                    \/ \E p \in Queues : /\ xpc[p] = "move" /\ xslot[p] = t /\ in_send_msg'[t] = xmsg[p]
                                         /\ msgbuf[t] = Null
      <3>1. in_send_msg'[t] = in_send_msg[t] /\ in_send_msg[t] # m
        BY <2>3, <1>3
      <3>2. in_send_msg[t] = hmsg[t] => t # s
        BY <3>1, <1>1
      <3>3. t # s => hpc'[t] = hpc[t] /\ hmsg'[t] = hmsg[t]
        BY <1>2 DEF At, TypeOK
      <3> QED
        BY <2>3, <3>1, <3>2, <3>3 DEF At, Tracked, Timed
    <2> QED
      BY <1>2, <2>1, <2>2, <2>3 DEF Timed
  <1> QED
    BY <1>3, <1>5, <1>6, <1>7, <1>8 DEF Tracked

LEMMA TrackedTimerFire ==
    ASSUME NEW q, NEW s \in Slots, TimerFire(s), At(q)
    PROVE  Tracked'
  <1>1. /\ s \in pend /\ hpc[s] = "idle" /\ pend' = pend \ {s} /\ hpc' = [hpc EXCEPT ![s] = "lock"]
        /\ UNCHANGED <<busy, old, key, seq, free_index, msgbuf, in_send_msg, hmsg, xpc, xmsg, xslot, mem,
                       newest, sent>>
    BY DEF TimerFire, tableVars, slotVars, handVars, xmitVars, flowVars
  <1>2. Numbers' /\ Path' /\ Known' /\ Kept'
    BY <1>1, NumbersSame, PathSame, KnownSame, KeptSame DEF At, Tracked
  <1>3. hpc'[s] = "lock" /\ \A t \in Slots \ {s} : hpc'[t] = hpc[t]
    BY <1>1 DEF At, TypeOK
  <1>4. Timed'
    <2>1. \A t \in Slots : t \in pend \/ hpc[t] = "lock" => t \in pend' \/ hpc'[t] = "lock"
      BY <1>1, <1>3
    <2>2. \A t \in old : t \in Slots /\ t # s
      BY <1>1 DEF At, TypeOK, Tracked, Timed
    <2>3. \A t \in Slots : hpc[t] = "move" => hpc'[t] = "move"
      BY <1>1, <1>3
    <2> QED
      BY <1>1, <1>3, <2>1, <2>2, <2>3 DEF At, Tracked, Timed
  <1> QED
    BY <1>2, <1>4 DEF Tracked

LEMMA TrackedTimerTake ==
    ASSUME NEW q, NEW s \in Slots, TimerTake(s), At(q)
    PROVE  Tracked'
  <1>1. /\ hpc[s] = "lock" /\ UNCHANGED <<busy, old, key, seq, free_index, pend, xpc, xmsg, xslot, mem,
                                          newest, sent>>
    BY DEF TimerTake, tableVars, xmitVars, flowVars
  <1>2. Numbers' /\ Path' /\ Known' /\ Kept'
    BY <1>1, NumbersSame, PathSame, KnownSame, KeptSame DEF At, Tracked
  <1>3. \A t \in old : t \in Slots /\ t # s
    BY <1>1 DEF At, TypeOK, Tracked, Timed
  <1>4. CASE s \in busy /\ msgbuf[s] # Null /\ in_send_msg[s] = Null
    <2>1. /\ msgbuf'[s] = Null /\ in_send_msg'[s] = msgbuf[s] /\ hmsg'[s] = msgbuf[s] /\ hpc'[s] = "move"
          /\ \A t \in Slots \ {s} : /\ msgbuf'[t] = msgbuf[t] /\ in_send_msg'[t] = in_send_msg[t]
                                    /\ hmsg'[t] = hmsg[t] /\ hpc'[t] = hpc[t]
      BY <1>4 DEF TimerTake, At, TypeOK
    <2>2. ASSUME NEW t \in Slots, msgbuf'[t] # Null
          PROVE  /\ t \in busy /\ mem[msgbuf'[t]].flow = key[t] /\ seq[t] = Seq32(mem[msgbuf'[t]].n)
                 /\ t \in pend \/ hpc'[t] = "lock"
      BY <2>1, <2>2 DEF At, Tracked, Timed
    <2>3. \A t \in old : t \notin pend /\ hpc'[t] = "idle" /\ in_send_msg'[t] = Null
      BY <2>1, <1>3 DEF At, Tracked, Timed
    <2>4. ASSUME NEW t \in Slots, in_send_msg'[t] # Null
          PROVE  /\ t \in busy
                 /\ \/ hpc'[t] = "move" /\ in_send_msg'[t] = hmsg'[t]
                    \/ \E p \in Queues : /\ xpc[p] = "move" /\ xslot[p] = t /\ in_send_msg'[t] = xmsg[p]
                                         /\ msgbuf'[t] = Null
      <3>1. CASE t = s
        BY <1>4, <2>1, <3>1
      <3>2. CASE t # s
        BY <2>1, <2>4, <3>2 DEF At, Tracked, Timed
      <3> QED
        BY <3>1, <3>2
    <2>5. Timed'
      BY <1>1, <2>2, <2>3, <2>4 DEF Timed
    <2> QED
      BY <1>2, <2>5 DEF Tracked
  <1>5. CASE ~(s \in busy /\ msgbuf[s] # Null /\ in_send_msg[s] = Null)
    <2>1. hpc' = [hpc EXCEPT ![s] = "idle"] /\ UNCHANGED <<msgbuf, in_send_msg, hmsg>>
      BY <1>5 DEF TimerTake, handVars
    <2>2. msgbuf[s] = Null
      <3> SUFFICES ASSUME msgbuf[s] # Null PROVE FALSE
        OBVIOUS
      <3>1. s \in busy
        BY DEF At, Tracked, Timed
      <3>2. in_send_msg[s] # Null
        BY <1>5, <3>1
      <3> QED
        BY <1>1, <3>2 DEF At, Tracked, Timed
    <2>3. hpc'[s] = "idle" /\ \A t \in Slots \ {s} : hpc'[t] = hpc[t]
      BY <2>1 DEF At, TypeOK
    <2>4. \A t \in Slots : hpc[t] = "move" => hpc'[t] = "move"
      BY <1>1, <2>3
    <2>5. \A t \in Slots : msgbuf[t] # Null => t # s
      BY <2>2
    <2>6. Timed'
      BY <1>1, <1>3, <2>1, <2>3, <2>4, <2>5 DEF At, Tracked, Timed
    <2> QED
      BY <1>2, <2>6 DEF Tracked
  <1> QED
    BY <1>4, <1>5

LEMMA TrackedElapse ==
    ASSUME NEW q, NEW S \in SUBSET Slots, Elapse(S), At(q)
    PROVE  Tracked'
  <1>1. /\ old' = old \cup S /\ \A s \in S : s \notin pend /\ hpc[s] = "idle"
        /\ \A p \in Queues : xpc[p] = "move" => xslot[p] \notin S
        /\ UNCHANGED <<busy, key, seq, free_index, msgbuf, in_send_msg, pend, hpc, hmsg, xpc, xmsg, xslot,
                       mem, newest, sent>>
    BY DEF Elapse, slotVars, handVars, timerVars, xmitVars, flowVars
  <1>2. Numbers' /\ Path' /\ Known' /\ Kept'
    BY <1>1, NumbersSame, PathSame, KnownSame, KeptSame DEF At, Tracked
  <1>3. \A s \in S : in_send_msg[s] = Null
    BY <1>1 DEF At, Tracked, Timed
  <1>4. Timed'
    BY <1>1, <1>3 DEF At, Tracked, Timed
  <1> QED
    BY <1>2, <1>4 DEF Tracked

\* Steps that touch nothing that is tracked.
LEMMA TrackedSame ==
    ASSUME Tracked, UNCHANGED <<tableVars, seq, handVars, timerVars, xmitVars, mem, flowVars>>
    PROVE  Tracked'
  <1>1. UNCHANGED <<busy, old, key, seq, free_index, msgbuf, in_send_msg, pend, hpc, hmsg, xpc, xmsg, xslot,
                    mem, newest, sent>>
    BY DEF tableVars, handVars, timerVars, xmitVars, flowVars
  <1>2. Numbers' /\ Path' /\ Known' /\ Kept'
    BY <1>1, NumbersSame, PathSame, KnownSame, KeptSame DEF Tracked
  <1>3. Timed'
    BY <1>1 DEF Tracked, Timed
  <1> QED
    BY <1>2, <1>3 DEF Tracked

LEMMA SingleStep ==
    ASSUME TypeOK, Own, Released, Single, [Next]_vars
    PROVE  Single'
  <1> SUFFICES ASSUME OneQueue, enable' PROVE Tracked'
    BY DEF Single, OneQueue
  <1>1. enable
    BY DEF Next, XmitStep, TimerStep, RemoveStep, StartXmit, Match, Alloc, Fill, Handle, Move,
           TimerFire, TimerTake, TimerSend, FilterRx, Elapse, Unregister, DeinitStart, DeinitSlot,
           stageVars, vars, TypeOK
  <1>2. PICK q0 : \A p \in Queues : p = q0
    BY DEF OneQueue
  <1>3. At(q0) /\ \A q \in Queues : At(q)
    BY <1>1, <1>2 DEF At, Single
  <1>4. ASSUME NEW f \in Flows, NEW n \in Offer(f), StartXmit(f, n) PROVE Tracked'
    BY <1>3, <1>4, SlotFacts, TrackedStartXmit
  <1>5. ASSUME NEW q \in Queues, XmitStep(q) PROVE Tracked'
    BY <1>1, <1>3, <1>5, TrackedMatch, TrackedAlloc, TrackedFill, TrackedHandle, TrackedMove DEF XmitStep
  <1>6. ASSUME NEW s \in Slots, TimerStep(s) PROVE Tracked'
    BY <1>1, <1>3, <1>6, TrackedTimerFire, TrackedTimerTake, TrackedTimerSend DEF TimerStep
  <1>7. ASSUME NEW f \in Flows, NEW n, FilterRx(f, n) PROVE Tracked'
    BY <1>3, <1>7, TrackedSame DEF FilterRx, At
  <1>8. ASSUME NEW S \in SUBSET Slots, Elapse(S) PROVE Tracked'
    BY <1>3, <1>8, TrackedElapse
  <1>9. CASE Unregister \/ UNCHANGED vars
    BY <1>3, <1>9, TrackedSame DEF Unregister, vars, slotVars, At
  <1>10. CASE DeinitStart
    BY <1>10 DEF DeinitStart
  <1>11. ASSUME NEW s \in Slots, DeinitSlot(s) PROVE Tracked'
    BY <1>1, <1>11 DEF DeinitSlot, Released
  <1> QED
    BY <1>4, <1>5, <1>6, <1>7, <1>8, <1>9, <1>10, <1>11 DEF Next, RemoveStep

-----------------------------------------------------------------------------
(* The theorems                                                            *)

\* The invariant of the ACK filter: where every message is, and with one network
\* queue what each slot in use knows of its flow (tcp_ack_handle_new,
\* tcp_ack_timeout, tcp_ack_update).
THEOREM Invariant == Spec => []IInv
  <1>1. Init => IInv
    <2> SUFFICES ASSUME Init PROVE IInv
      OBVIOUS
    <2>1. Counted
      <3>1. busy = {} /\ Filling = {} /\ max_num = 0
        BY DEF Init, Filling
      <3> QED
        BY <3>1, FS_EmptySet DEF Counted
    <2> QED
      BY <2>1, TypeInit, OwnInit, ReleasedInit, SingleInit DEF IInv
  <1>2. IInv /\ [Next]_vars => IInv'
    BY TypeStep, OwnStep, ReleasedStep, SingleStep DEF IInv
  <1> QED
    BY <1>1, <1>2, PTL DEF Spec

LEMMA OwnerFacts ==
    ASSUME TypeOK, Own
    PROVE  OneOwner
  <1> SUFFICES ASSUME NEW m \in Msgs
               PROVE  Cardinality(Holders(m)) = IF mem[m] = NoAck THEN 0 ELSE 1
    BY DEF OneOwner
  <1>1. CASE mem[m] = NoAck
    <2>1. /\ \A s \in Slots : msgbuf[s] # m /\ hmsg[s] # m
          /\ \A q \in Queues : xmsg[q] # m
      BY <1>1 DEF Own
    <2>2. Holders(m) = {}
      BY <2>1 DEF Holders
    <2> QED
      BY <1>1, <2>2, FS_EmptySet
  <1>2. CASE mem[m] # NoAck
    <2> SUFFICES \E h : Holders(m) = {h}
      BY <1>2, FS_Singleton
    <2>1. \/ \E s \in Slots : msgbuf[s] = m \/ hmsg[s] = m
          \/ \E q \in Queues : xmsg[q] = m
      BY <1>2 DEF Own
    <2>2. m # Null
      BY SlotFacts
    <2>3. ASSUME NEW s \in Slots, msgbuf[s] = m PROVE Holders(m) = {<<"slot", s>>}
      <3>1. /\ \A t \in Slots : msgbuf[t] = m => t = s
            /\ \A t \in Slots : hmsg[t] # m
            /\ \A q \in Queues : xmsg[q] # m
        BY <2>2, <2>3 DEF Own
      <3> QED
        BY <2>3, <3>1 DEF Holders
    <2>4. ASSUME NEW s \in Slots, hmsg[s] = m PROVE Holders(m) = {<<"timer", s>>}
      <3>1. /\ \A t \in Slots : hmsg[t] = m => t = s
            /\ \A t \in Slots : msgbuf[t] # m
            /\ \A q \in Queues : xmsg[q] # m
        BY <2>2, <2>4 DEF Own
      <3> QED
        BY <2>4, <3>1 DEF Holders
    <2>5. ASSUME NEW q \in Queues, xmsg[q] = m PROVE Holders(m) = {<<"xmit", q>>}
      <3>1. /\ \A t \in Slots : msgbuf[t] # m /\ hmsg[t] # m
            /\ \A p \in Queues : xmsg[p] = m => p = q
        BY <2>2, <2>5 DEF Own
      <3> QED
        BY <2>5, <3>1 DEF Holders
    <2> QED
      BY <2>1, <2>3, <2>4, <2>5
  <1> QED
    BY <1>1, <1>2

\* The held ACKs (tcp_ack_handle_new, tcp_ack_timeout, tcp_ack_update,
\* tcp_ack_deinit): each has one owner, with one network queue the newest number
\* is never dropped, and tcp_ack_deinit leaves none behind.
THEOREM AcksTheorem == Spec => []AcksSound
  <1>1. IInv => AcksSound
    <2> SUFFICES ASSUME IInv PROVE AcksSound
      OBVIOUS
    <2>1. OneOwner
      BY OwnerFacts DEF IInv
    <2>2. NewestKept
      BY DEF IInv, Single, Tracked, Kept, NewestKept
    <2>3. AllReleased
      <3> SUFFICES ASSUME stage = "off" PROVE pend = {} /\ \A m \in Live : \E s \in Slots : hmsg[s] = m
        BY DEF AllReleased
      <3>1. /\ \A s \in Slots : s \notin pend /\ msgbuf[s] = Null
            /\ \A q \in Queues : xpc[q] = "idle"
        BY DEF IInv, Released
      <3>2. pend = {}
        BY <3>1 DEF IInv, TypeOK
      <3>3. ASSUME NEW m \in Live PROVE \E s \in Slots : hmsg[s] = m
        <4>1. m \in Msgs /\ mem[m] # NoAck /\ m # Null
          BY SlotFacts DEF Live
        <4>2. /\ \A s \in Slots : msgbuf[s] # m
              /\ \A q \in Queues : xmsg[q] # m
          BY <3>1, <4>1 DEF IInv, Own
        <4> QED
          BY <4>1, <4>2 DEF IInv, Own
      <3> QED
        BY <3>2, <3>3
    <2> QED
      BY <2>1, <2>2, <2>3 DEF IInv, AcksSound
  <1> QED
    BY <1>1, Invariant, PTL
=============================================================================
