--------------------------- MODULE TxQueueProofs ---------------------------
(***************************************************************************)
(* No frame of TxQueue waits on a queue that nobody serves, and the frames *)
(* of a queue leave in the order in which they were queued, for any queues,*)
(* senders and hardware queues, any number of frames and any events.       *)
(*                                                                         *)
(* ServedRightly rests on the life of the station: a push limit, which is  *)
(* what makes rwnx_hwq_process unlink a queue with frames on it, is only   *)
(* given to a queue that is stopped for power save (Granted), because a    *)
(* station that sleeps has had all its queues stopped (Asleep), because a  *)
(* station that is gone has no active queues (Life).  InOrder rests on the *)
(* frames at the firmware: what may come back for another attempt was      *)
(* pushed before, and is not on its queue (Pushed).                        *)
(*                                                                         *)
(* QueuesSound rests on the walk of rwnx_hwq_process: a queue that was     *)
(* removed while it was scheduled is one the walk under way still comes to *)
(* (Listed), so that a station is added to empty lists (Asked); a push     *)
(* limit is covered by the credits and the frames of its queue (Covered),  *)
(* so one round ends a service period, and only those of a sleeping        *)
(* station are under way (Periods); what a request grants fits into        *)
(* push_limit and sp_cnt (Counters, Narrow).                               *)
(***************************************************************************)
EXTENDS TxQueue, SequenceTheorems, FiniteSetTheorems, WellFoundedInduction, TLAPS

Types ==
    /\ active \subseteq Txqs /\ flagged \subseteq Txqs /\ closed \subseteq Txqs /\ flow \subseteq Txqs
    /\ stop \in [Txqs -> SUBSET Reasons]
    /\ sk \in [Txqs -> Seq(Nat)]
    /\ nb_retry \in [Txqs -> Nat] /\ last_retry \in [Txqs -> Nat]
    /\ limit \in [Txqs -> Nat] /\ credits \in [Txqs -> Int]
    /\ psOn \in BOOLEAN /\ valid \in BOOLEAN /\ tbusy \in BOOLEAN
    /\ add \in {"none", "asked", "init", "on", "off"}
    /\ dq \in Seq(Txqs) /\ flushing \in Txqs \cup {NoQ} /\ cfm \in Txqs \cup {NoQ}
    /\ sender \in [Senders -> Txqs \cup {NoQ}]
    /\ nf \in Nat /\ fw \subseteq Txqs \X Nat

\* A station that is away has no active queues but those still to be deinitialised,
\* and none while it is being added again; what is flushed is not active.
Life ==
    /\ add # "none" => dq = <<>> /\ flushing = NoQ
    /\ add \in {"asked", "init"} => ~valid
    /\ add \in {"on", "off"} => valid
    /\ add = "asked" => active = {}
    /\ ~valid /\ add = "none" => ~psOn /\ active \subseteq ToSet(dq)
    /\ flushing \notin active
    /\ "life" \notin events => active = Txqs /\ valid /\ add = "none" /\ dq = <<>> /\ flushing = NoQ

\* When NoStranded speaks.
Orderly == Without({"nocb"}) \/ (Without({"early"}) /\ add # "on")

\* A sleeping station's queues are stopped for power save.
Asleep ==
    Orderly /\ psOn /\ valid /\ add # "on" => \A q \in active : "sta_ps" \in stop[q]

\* Only queues that are stopped for power save have a push limit.
Granted == Orderly => \A q \in active : limit[q] > 0 => "sta_ps" \in stop[q]

\* InOrder for the queue s of which the first n frames, the last of them l, are sent
\* again and o was the last to go out; no two of the n are the same.
Ordered(s, n, l, o) ==
    /\ n <= Len(s)
    /\ l = IF n = 0 THEN 0 ELSE s[n]
    /\ \A i \in 1 .. Len(s) : s[i] > 0 /\ ((i > n) <=> (s[i] > o))
    /\ \A i, j \in 1 .. Len(s) : n < i /\ i < j => s[i] < s[j]
    /\ \A i, j \in 1 .. Len(s) : i <= n /\ j <= n /\ s[i] = s[j] => i = j

AllOrdered == \A q \in active : Ordered(sk[q], nb_retry[q], last_retry[q], out[q])

\* Frames are numbered up to nf, and what is at the firmware was pushed and is not
\* on its queue.
Pushed ==
    /\ out \in [Txqs -> Nat]
    /\ \A q \in Txqs : out[q] <= nf /\ \A i \in 1 .. Len(sk[q]) : sk[q][i] <= nf
    /\ \A c \in fw : /\ c[2] > 0 /\ c[2] <= out[c[1]]
                     /\ \A i \in 1 .. Len(sk[c[1]]) : sk[c[1]][i] # c[2]

NoneForgotten == NoStranded /\ ClosedIsKept

Base == Types /\ Life /\ Asleep /\ Granted /\ NoneForgotten

\* A station's queues are stopped for the channel when their interface is, from the
\* moment they are set up: nobody stops the channel while a station is being added.
Agree ==
    Without({"nocb"}) /\ (valid \/ add = "init") =>
        \A q \in active : "chan" \in stop[q] <=> "chan" \in vstop

\* While nothing but power save stops queues, a sleeping station's queue is scheduled
\* for a service period, whose push limit the credits cover, or not at all.
Quiet ==
    Without({"interrupt", "stop", "csa", "life", "wrap", "unlocked"}) =>
        /\ vstop = {}
        /\ \A q \in Txqs :
              /\ stop[q] \subseteq {"sta_ps"}
              /\ credits[q] > 0 /\ credits[q] < CreditMax /\ limit[q] <= credits[q]
              /\ limit[q] > 0 => psOn
              /\ q \in flagged /\ stop[q] # {} => limit[q] > 0

StopInv == Agree /\ Quiet

\* With tx_lock held, a confirmation links its queue at once.
Locked == "unlocked" \notin events => cfm = NoQ

IInv == Base /\ AllOrdered /\ Pushed /\ StopInv /\ Locked

-----------------------------------------------------------------------------
(* Facts about the operators                                               *)

LEMMA Constants ==
    /\ NoQ \notin Txqs /\ Data \subseteq Txqs /\ Txqs = ToSet(Tids) /\ Tids \in Seq(Txqs)
    /\ Credits \in 1 .. CreditMax - 1 /\ CreditMax \in Nat /\ FlowRestart <= FlowStop
    /\ FlowRestart \in Nat /\ FlowStop \in Nat
  BY QueuesAssumption, NumbersAssumption DEF Txqs

\* Numbers that fit into a push_limit are kept.
LEMMA Widths ==
    /\ \A n \in Int : n % LimitWrap \in Nat
    /\ \A n \in Nat : n < CreditMax => n % LimitWrap = n /\ n % Wrap = n
  <1>1. /\ CreditMax \in Nat /\ CreditMax <= LimitWrap /\ LimitWrap <= Wrap
        /\ LimitWrap \in Nat \ {0} /\ Wrap \in Nat \ {0}
    BY NumbersAssumption
  <1>2. \A n \in Int : n % LimitWrap \in Nat
    BY <1>1
  <1>3. ASSUME NEW n \in Nat, NEW w \in Nat \ {0}, n < w PROVE n % w = n
    BY <1>3, SMTT(30)
  <1>4. ASSUME NEW n \in Nat, n < CreditMax PROVE n < LimitWrap /\ n < Wrap
    BY <1>1, <1>4
  <1> QED
    BY <1>1, <1>2, <1>3, <1>4

LEMMA MinOfTwo ==
    ASSUME NEW a \in Int, NEW b \in Int
    PROVE  Min({a, b}) = IF a <= b THEN a ELSE b
  BY DEF Min

LEMMA MaxIs ==
    ASSUME NEW S, S \subseteq Int, NEW m \in S, \A x \in S : x <= m
    PROVE  Max(S) = m
  <1>1. \A x \in S : (\A y \in S : x >= y) => x = m
    OBVIOUS
  <1>2. \A y \in S : m >= y
    OBVIOUS
  <1> QED
    BY <1>1, <1>2 DEF Max

\* SubSeq, Append and concatenation of sequences of numbers.
LEMMA Rest ==
    ASSUME NEW s \in Seq(Nat), NEW k \in 0 .. Len(s)
    PROVE  /\ SubSeq(s, k + 1, Len(s)) \in Seq(Nat)
           /\ Len(SubSeq(s, k + 1, Len(s))) = Len(s) - k
           /\ \A i \in 1 .. Len(s) - k : SubSeq(s, k + 1, Len(s))[i] = s[k + i]
           /\ k = Len(s) <=> SubSeq(s, k + 1, Len(s)) = <<>>
  <1>1. Len(s) \in Nat /\ \A i \in 1 .. Len(s) : s[i] \in Nat
    BY LenProperties, ElementOfSeq
  <1>2. k + 1 \in Int /\ Len(s) \in Int /\ \A i \in k + 1 .. Len(s) : s[i] \in Nat
    BY <1>1
  <1>3. PICK r : r = SubSeq(s, k + 1, Len(s))
    OBVIOUS
  <1>4. /\ r \in Seq(Nat)
        /\ Len(r) = IF k + 1 <= Len(s) THEN Len(s) - (k + 1) + 1 ELSE 0
        /\ \A i \in 1 .. Len(s) - (k + 1) + 1 : r[i] = s[(k + 1) + i - 1]
    BY <1>2, <1>3, SubSeqProperties, SMTT(30)
  <1>5. Len(r) = Len(s) - k /\ \A i \in 1 .. Len(s) - k : r[i] = s[k + i]
    BY <1>1, <1>4
  <1>6. Len(<<>>) = 0 /\ (r # <<>> => Len(r) \in Nat \ {0})
    BY <1>4, EmptySeq
  <1>7. k = Len(s) <=> r = <<>>
    BY <1>1, <1>5, <1>6
  <1> QED
    BY <1>3, <1>4, <1>5, <1>7

LEMMA Prefix ==
    ASSUME NEW s \in Seq(Nat), NEW k \in 0 .. Len(s)
    PROVE  /\ SubSeq(s, 1, k) \in Seq(Nat)
           /\ Len(SubSeq(s, 1, k)) = k
           /\ \A i \in 1 .. k : SubSeq(s, 1, k)[i] = s[i]
           /\ ToSet(SubSeq(s, 1, k)) = {s[i] : i \in 1 .. k}
  <1>1. Len(s) \in Nat /\ \A i \in 1 .. Len(s) : s[i] \in Nat
    BY LenProperties, ElementOfSeq
  <1>2. 1 \in Int /\ k \in Int /\ \A i \in 1 .. k : s[i] \in Nat
    BY <1>1
  <1>3. /\ SubSeq(s, 1, k) \in Seq(Nat)
        /\ Len(SubSeq(s, 1, k)) = IF 1 <= k THEN k - 1 + 1 ELSE 0
        /\ \A i \in 1 .. k - 1 + 1 : SubSeq(s, 1, k)[i] = s[1 + i - 1]
    BY <1>2, SubSeqProperties
  <1>4. Len(SubSeq(s, 1, k)) = k /\ \A i \in 1 .. k : SubSeq(s, 1, k)[i] = s[i]
    BY <1>1, <1>3
  <1>5. DOMAIN SubSeq(s, 1, k) = 1 .. k
    BY <1>3, <1>4, LenProperties
  <1> QED
    BY <1>3, <1>4, <1>5 DEF ToSet

LEMMA AppendFacts ==
    ASSUME NEW s \in Seq(Nat), NEW e \in Nat
    PROVE  /\ Append(s, e) \in Seq(Nat) /\ Append(s, e) # <<>>
           /\ Len(Append(s, e)) = Len(s) + 1 /\ Append(s, e)[Len(s) + 1] = e
           /\ \A i \in 1 .. Len(s) : Append(s, e)[i] = s[i]
  BY AppendProperties

\* f is put behind the first k elements of s.
Inserted(s, k, f) == SubSeq(s, 1, k) \o <<f>> \o SubSeq(s, k + 1, Len(s))

LEMMA InsertFacts ==
    ASSUME NEW s \in Seq(Nat), NEW k \in 0 .. Len(s), NEW f \in Nat
    PROVE  /\ Inserted(s, k, f) \in Seq(Nat)
           /\ Len(Inserted(s, k, f)) = Len(s) + 1
           /\ \A i \in 1 .. Len(s) + 1 :
                 Inserted(s, k, f)[i] = IF i <= k THEN s[i] ELSE IF i = k + 1 THEN f ELSE s[i - 1]
  <1> DEFINE a == SubSeq(s, 1, k)
             b == SubSeq(s, k + 1, Len(s))
             c == a \o <<f>>
  <1>1. a \in Seq(Nat) /\ Len(a) = k /\ \A i \in 1 .. k : a[i] = s[i]
    BY Prefix
  <1>2. b \in Seq(Nat) /\ Len(b) = Len(s) - k /\ \A i \in 1 .. Len(s) - k : b[i] = s[k + i]
    BY Rest
  <1>3. <<f>> \in Seq(Nat) /\ Len(<<f>>) = 1 /\ <<f>>[1] = f
    OBVIOUS
  <1>4. Len(s) \in Nat
    BY LenProperties
  <1> HIDE DEF a, b
  <1>5. /\ c \in Seq(Nat) /\ Len(c) = k + 1
        /\ \A i \in 1 .. k + 1 : c[i] = IF i <= k THEN s[i] ELSE f
    <2>1. /\ c \in Seq(Nat) /\ Len(c) = Len(a) + Len(<<f>>)
          /\ \A i \in 1 .. Len(a) + Len(<<f>>) :
                c[i] = IF i <= Len(a) THEN a[i] ELSE <<f>>[i - Len(a)]
      BY <1>1, <1>3, ConcatProperties
    <2> QED
      BY <2>1, <1>1, <1>3
  <1>6. PICK r : r = Inserted(s, k, f)
    OBVIOUS
  <1>7. r = c \o b
    BY <1>6 DEF Inserted, a, b
  <1> HIDE DEF c
  <1>8. /\ r \in Seq(Nat) /\ Len(r) = Len(c) + Len(b)
        /\ \A i \in 1 .. Len(c) + Len(b) : r[i] = IF i <= Len(c) THEN c[i] ELSE b[i - Len(c)]
    BY <1>2, <1>5, <1>7, ConcatProperties
  <1>9. Len(r) = Len(s) + 1
    BY <1>2, <1>4, <1>5, <1>8
  <1>10. ASSUME NEW i \in 1 .. Len(s) + 1
         PROVE  r[i] = IF i <= k THEN s[i] ELSE IF i = k + 1 THEN f ELSE s[i - 1]
    <2>1. r[i] = IF i <= k + 1 THEN c[i] ELSE b[i - (k + 1)]
      BY <1>2, <1>4, <1>5, <1>8
    <2>2. CASE i <= k + 1
      BY <2>1, <2>2, <1>5
    <2>3. CASE i > k + 1
      <3>1. i - (k + 1) \in 1 .. Len(s) - k /\ k + (i - (k + 1)) = i - 1
        BY <1>4, <2>3
      <3>2. b[i - (k + 1)] = s[i - 1]
        BY <3>1, <1>2
      <3> QED
        BY <3>2, <2>1, <2>3
    <2> QED
      BY <1>4, <2>2, <2>3
  <1> QED
    BY <1>6, <1>8, <1>9, <1>10

\* rwnx_txq_get_skb_to_push: the frames to push are a prefix of the queue, and a queue
\* that is done with frames left has a push limit.
LEMMA PushFacts ==
    ASSUME Types, NEW q \in Txqs, credits[q] > 0
    PROVE  /\ GetCredits(q) \in Nat
           /\ NPush(q) \in 0 .. Len(sk[q])
           /\ Done(q) => NPush(q) = Len(sk[q]) \/ limit[q] > 0
  <1>1. GetCredits(q) \in Nat /\ Len(sk[q]) \in Nat
    BY LenProperties DEF Types, GetCredits
  <1>2. NPush(q) = IF GetCredits(q) <= Len(sk[q]) THEN GetCredits(q) ELSE Len(sk[q])
    BY <1>1, MinOfTwo DEF NPush
  <1> QED
    BY <1>1, <1>2 DEF Done
-----------------------------------------------------------------------------
(* What keeps a frame from being forgotten                                 *)

LEMMA BaseInit == Init => Base
  <1> SUFFICES ASSUME Init PROVE Base
    OBVIOUS
  <1>1. <<>> \in Seq(Nat) /\ <<>> \in Seq(Txqs)
    BY EmptySeq
  <1>2. Types
    <2>1. active \subseteq Txqs /\ flagged \subseteq Txqs /\ closed \subseteq Txqs /\ flow \subseteq Txqs
      BY DEF Init
    <2>2. stop \in [Txqs -> SUBSET Reasons] /\ sk \in [Txqs -> Seq(Nat)]
      BY <1>1 DEF Init
    <2>3. /\ nb_retry \in [Txqs -> Nat] /\ last_retry \in [Txqs -> Nat]
          /\ limit \in [Txqs -> Nat] /\ credits \in [Txqs -> Int]
      BY Constants DEF Init
    <2>4. fw \subseteq Txqs \X Nat /\ nf \in Nat /\ dq \in Seq(Txqs)
      BY <1>1 DEF Init
    <2>5. sender \in [Senders -> Txqs \cup {NoQ}] /\ flushing \in Txqs \cup {NoQ} /\ cfm \in Txqs \cup {NoQ}
      BY DEF Init
    <2> QED
      BY <2>1, <2>2, <2>3, <2>4, <2>5 DEF Init, Types
  <1>3. Life
    BY Constants DEF Init, Life
  <1>4. Asleep /\ Granted /\ NoStranded /\ ClosedIsKept
    BY DEF Init, Asleep, Granted, NoStranded, ClosedIsKept
  <1> QED
    BY <1>2, <1>3, <1>4 DEF Base, NoneForgotten

LEMMA BaseXmit ==
    ASSUME Base, NEW s \in Senders, NEW q \in Txqs, Xmit(s, q)
    PROVE  Base'
  BY Constants
     DEF Xmit, envVars, schedVars, queueVars, flowVars, psVars, lifeVars, histVars,
         Base, Types, Life, Orderly, Without, Asleep, Granted, NoneForgotten, NoStranded, ClosedIsKept

\* rwnx_txq_queue_skb keeps its promise to the netdev queues when q grows.
LEMMA FlowStopsKeeps ==
    ASSUME Types, Types', ClosedIsKept, NEW q \in Txqs, FlowStops(q), tbusy' = tbusy, events' = events,
           Len(sk'[q]) = Len(sk[q]) + 1, \A p \in Txqs : p # q => sk'[p] = sk[p]
    PROVE  ClosedIsKept'
  <1> SUFFICES ASSUME Without({"life"}), ~tbusy, NEW p \in closed'
               PROVE  p \in flow' /\ Len(sk'[p]) >= FlowRestart
    BY DEF ClosedIsKept, Without
  <1>1. p \in closed => p \in flow /\ Len(sk[p]) >= FlowRestart
    BY DEF ClosedIsKept
  <1>2. p \in Txqs /\ Len(sk[p]) \in Nat
    BY LenProperties DEF Types
  <1>3. Len(sk'[p]) \in Nat /\ Len(sk'[p]) >= Len(sk[p])
    BY <1>2
  <1>4. FlowRestart <= FlowStop /\ FlowRestart \in Nat /\ FlowStop \in Nat
    BY Constants
  <1> QED
    BY <1>1, <1>2, <1>3, <1>4 DEF FlowStops

LEMMA BaseQueueSkb ==
    ASSUME Base, NEW s \in Senders, QueueSkb(s)
    PROVE  Base'
  <1> USE DEF QueueSkb, envVars, schedVars, queueVars, flowVars, psVars, lifeVars, histVars
  <1> DEFINE q == sender[s]
  <1>1. q \in Txqs /\ nf + 1 \in Nat
    BY DEF Base, Types
  <1>2. /\ sk' = [sk EXCEPT ![q] = Append(sk[q], nf + 1)]
        /\ Append(sk[q], nf + 1) \in Seq(Nat) /\ Len(Append(sk[q], nf + 1)) = Len(sk[q]) + 1
        /\ Len(sk[q]) \in Nat
    BY <1>1, AppendFacts, LenProperties DEF Base, Types
  <1>3. flagged \subseteq flagged' /\ flagged' \subseteq Txqs /\ (stop[q] = {} => q \in flagged')
    BY <1>1 DEF Base, Types, AddToHwList
  <1>4. Types'
    <2>1. sk' \in [Txqs -> Seq(Nat)] /\ sender' \in [Senders -> Txqs \cup {NoQ}]
      BY <1>1, <1>2 DEF Base, Types
    <2>2. flow' \subseteq Txqs /\ closed' \subseteq Txqs
      BY <1>1, Constants DEF Base, Types, FlowStops
    <2> QED
      BY <2>1, <2>2, <1>1, <1>3 DEF Base, Types
  <1>5. Life' /\ Asleep' /\ Granted'
    BY DEF Base, Life, Orderly, Without, Asleep, Granted
  <1>6. NoStranded'
    BY <1>1, <1>2, <1>3 DEF Base, Types, NoneForgotten, NoStranded, Without
  <1>7. ClosedIsKept'
    <2>1. \A p \in Txqs : p # q => sk'[p] = sk[p]
      BY <1>2 DEF Base, Types
    <2>2. sk'[q] = Append(sk[q], nf + 1)
      BY <1>1, <1>2 DEF Base, Types
    <2>3. FlowStops(q) /\ tbusy' = tbusy /\ events' = events
      OBVIOUS
    <2> QED
      BY <1>1, <1>2, <1>4, <2>1, <2>2, <2>3, FlowStopsKeeps DEF Base, NoneForgotten
  <1> QED
    BY <1>4, <1>5, <1>6, <1>7 DEF Base, NoneForgotten

LEMMA StopFacts ==
    ASSUME Types, NEW r \in Reasons, StopQueues(r)
    PROVE  /\ stop' \in [Txqs -> SUBSET Reasons] /\ flagged' \subseteq flagged
           /\ \A q \in active : stop'[q] = stop[q] \cup {r}
  BY DEF Types, StopQueues, DelFromHwList

\* Of several reasons to be stopped, the one that goes away last links the queue.
LEMMA StartFacts ==
    ASSUME Types, NEW r \in Reasons, StartQueues(r)
    PROVE  /\ stop' \in [Txqs -> SUBSET Reasons]
           /\ flagged \subseteq flagged' /\ flagged' \subseteq Txqs
           /\ \A q \in active : stop'[q] = stop[q] \ {r}
           /\ \A q \in active : stop'[q] = {} /\ stop[q] # {} /\ sk[q] # <<>> => q \in flagged'
  <1>1. Started(r) \subseteq Txqs /\ flagged' = flagged \cup Started(r)
    BY DEF Types, StartQueues, Started, AddToHwList
  <1>2. stop' = [q \in Txqs |-> IF q \in active THEN stop[q] \ {r} ELSE stop[q]]
    BY DEF StartQueues
  <1>3. \A q \in active : stop'[q] = {} /\ stop[q] # {} /\ sk[q] # <<>> => q \in Started(r)
    BY <1>2 DEF Types, Started
  <1> QED
    BY <1>1, <1>2, <1>3 DEF Types

\* rwnx_hwq_process wakes a netdev queue as soon as it is short enough.
LEMMA FlowRestartsKeeps ==
    ASSUME Types, Types', ClosedIsKept, NEW q \in Txqs, FlowRestarts(q), tbusy' = tbusy,
           events' = events, \A p \in Txqs : p # q => sk'[p] = sk[p]
    PROVE  ClosedIsKept'
  <1> SUFFICES ASSUME Without({"life"}), ~tbusy, NEW p \in closed'
               PROVE  p \in flow' /\ Len(sk'[p]) >= FlowRestart
    BY DEF ClosedIsKept, Without
  <1>1. p \in closed => p \in flow /\ Len(sk[p]) >= FlowRestart
    BY DEF ClosedIsKept
  <1>2. p \in Txqs /\ Len(sk'[p]) \in Nat /\ FlowRestart \in Nat
    BY Constants, LenProperties DEF Types
  <1> QED
    BY <1>1, <1>2 DEF FlowRestarts

LEMMA BaseWalkActive ==
    ASSUME Base, WalkActive
    PROVE  Base'
  <1>0. PICK q : q = walk.at
    OBVIOUS
  <1> DEFINE k == NPush(q)
  <1>1. q \in Txqs /\ q \in active /\ credits[q] > 0
    BY <1>0 DEF WalkActive, Base, Types
  <1>2. /\ GetCredits(q) \in Nat /\ k \in 0 .. Len(sk[q]) /\ Len(sk[q]) \in Nat
        /\ Done(q) => k = Len(sk[q]) \/ limit[q] > 0
    BY <1>1, PushFacts, LenProperties DEF Base, Types
  <1>3. /\ sk' = [sk EXCEPT ![q] = SubSeq(sk[q], k + 1, Len(sk[q]))]
        /\ PushFrames(q, k) /\ FlowRestarts(q) /\ tbusy' = tbusy /\ events' = events
    BY <1>0 DEF WalkActive, PushFrames, envVars
  <1>4. /\ SubSeq(sk[q], k + 1, Len(sk[q])) \in Seq(Nat)
        /\ k = Len(sk[q]) => SubSeq(sk[q], k + 1, Len(sk[q])) = <<>>
    BY <1>1, <1>2, Rest DEF Base, Types
  <1>5. /\ flagged' = IF Done(q) THEN flagged \ {q} ELSE flagged
        /\ \E a \in BOOLEAN :
              limit' = [limit EXCEPT ![q] = IF a \/ ~(limit[q] > k) THEN 0 ELSE limit[q] - k]
    BY <1>0 DEF WalkActive, DelFromHwList, Base, Types
  <1>6. UNCHANGED <<active, stop, valid, add, dq, flushing, psOn, sender, cfm, nf, credits, events,
                    tbusy>>
    BY DEF WalkActive, envVars, lifeVars
  <1>7. /\ nb_retry' \in [Txqs -> Nat] /\ last_retry' \in [Txqs -> Nat]
        /\ fw' \subseteq Txqs \X Nat
    <2>1. Min({k, nb_retry[q]}) \in 0 .. nb_retry[q]
      <3>1. nb_retry[q] \in Nat /\ k \in Nat
        BY <1>1, <1>2 DEF Base, Types
      <3> QED
        BY <3>1, MinOfTwo
    <2>2. nb_retry' \in [Txqs -> Nat] /\ last_retry' \in [Txqs -> Nat]
      BY <2>1, <1>1, <1>3 DEF Base, Types, PushFrames
    <2>3. ToSet(SubSeq(sk[q], 1, k)) \subseteq Nat
      <3>1. sk[q] \in Seq(Nat)
        BY <1>1 DEF Base, Types
      <3>2. ToSet(SubSeq(sk[q], 1, k)) = {sk[q][i] : i \in 1 .. k}
        BY <3>1, <1>2, Prefix
      <3>3. \A i \in 1 .. Len(sk[q]) : sk[q][i] \in Nat
        BY <3>1, ElementOfSeq
      <3> QED
        BY <3>2, <3>3, <1>2
    <2> QED
      BY <2>2, <2>3, <1>1, <1>3 DEF Base, Types, PushFrames
  <1> HIDE DEF k
  <1>8. limit' \in [Txqs -> Nat] /\ \A p \in Txqs : limit'[p] > 0 => limit[p] > 0
    BY <1>1, <1>2, <1>5 DEF Base, Types
  <1>9. Types'
    <2>1. sk' \in [Txqs -> Seq(Nat)]
      BY <1>1, <1>3, <1>4 DEF Base, Types
    <2>2. flow' \subseteq Txqs /\ closed' \subseteq Txqs /\ flagged' \subseteq Txqs
      BY <1>3, <1>5 DEF Base, Types, FlowRestarts
    <2> QED
      BY <2>1, <2>2, <1>6, <1>7, <1>8 DEF Base, Types
  <1>10. Life' /\ Asleep' /\ Granted'
    BY <1>1, <1>6, <1>8 DEF Base, Types, Life, Orderly, Without, Asleep, Granted
  <1>11. NoStranded'
    <2> SUFFICES ASSUME Orderly, NEW p \in active, stop[p] = {}, sk'[p] # <<>>
                 PROVE  p \in flagged' \cup {cfm}
      BY <1>6 DEF NoStranded, Orderly, Without
    <2>1. CASE p # q
      BY <2>1, <1>1, <1>3, <1>5 DEF Base, Types, NoneForgotten, NoStranded, Orderly
    <2>2. CASE p = q
      <3>1. limit[q] = 0
        <4>1. ~(limit[q] > 0)
          BY <2>2, <1>1 DEF Base, Granted
        <4>2. limit[q] \in Nat
          BY <1>1 DEF Base, Types
        <4> QED
          BY <4>1, <4>2
      <3>2. ~Done(q)
        BY <3>1, <2>2, <1>1, <1>2, <1>3, <1>4 DEF Base, Types
      <3>3. q \in flagged
        BY <1>0 DEF WalkActive
      <3> QED
        BY <2>2, <3>2, <3>3, <1>5
    <2> QED
      BY <2>1, <2>2
  <1>12. ClosedIsKept'
    <2>1. \A p \in Txqs : p # q => sk'[p] = sk[p]
      BY <1>3 DEF Base, Types
    <2> QED
      BY <2>1, <1>1, <1>3, <1>9, FlowRestartsKeeps DEF Base, NoneForgotten
  <1> QED
    BY <1>9, <1>10, <1>11, <1>12 DEF Base, NoneForgotten

LEMMA BaseWalkInactive ==
    ASSUME Base, WalkInactive
    PROVE  Base'
  <1>0. PICK q : q = walk.at
    OBVIOUS
  <1>1. q \in Txqs /\ q \notin active /\ <<>> \in Seq(Nat)
    BY <1>0, EmptySeq DEF WalkInactive, Base, Types
  <1>2. /\ sk' = [sk EXCEPT ![q] = <<>>] /\ flagged' = flagged \ {q}
        /\ UNCHANGED <<active, stop, valid, add, dq, flushing, psOn, sender, cfm, nf, fw, credits, limit,
                       events, tbusy, flow, closed, nb_retry, last_retry>>
    BY <1>0 DEF WalkInactive, DelFromHwList, envVars, lifeVars, flowVars, psVars, histVars
  <1>3. Types'
    BY <1>1, <1>2 DEF Base, Types
  <1>4. Life' /\ Asleep' /\ Granted' /\ NoStranded'
    BY <1>1, <1>2 DEF Base, Types, Life, Orderly, Without, Asleep, Granted, NoneForgotten, NoStranded
  <1>5. ClosedIsKept'
    BY <1>1, <1>2 DEF Base, Life, Types, Without, NoneForgotten, ClosedIsKept
  <1> QED
    BY <1>3, <1>4, <1>5 DEF Base, NoneForgotten

\* The variables that Base speaks of.
baseVars == <<active, flagged, closed, flow, stop, sk, nb_retry, last_retry, limit, credits, psOn, valid,
              tbusy, add, dq, flushing, cfm, sender, nf, fw, events>>

LEMMA BaseSame ==
    ASSUME Base, UNCHANGED baseVars
    PROVE  Base'
  <1>1. Types' /\ Life'
    BY DEF Base, baseVars, Types, Life
  <1>2. Asleep' /\ Granted' /\ NoStranded' /\ ClosedIsKept'
    BY DEF Base, baseVars, Orderly, Without, Asleep, Granted, NoneForgotten, NoStranded, ClosedIsKept
  <1> QED
    BY <1>1, <1>2 DEF Base, NoneForgotten

\* The walk goes on, or its task starts it: no queue is touched.
LEMMA BaseWalkOn ==
    ASSUME Base, WalkEnd \/ Task
    PROVE  Base'
  <1>1. UNCHANGED baseVars
    BY DEF WalkEnd, Task, envVars, queueVars, lifeVars, flowVars, psVars, histVars, baseVars
  <1> QED
    BY <1>1, BaseSame

LEMMA BasePsEnable ==
    ASSUME Base, PsEnable,
           UNCHANGED <<active, sk, nb_retry, last_retry, credits, flow, closed, tbusy, valid,
                       dq, flushing, sender, cfm, nf, fw>>,
           add' = add \/ (add = "on" /\ add' = "none"), valid
    PROVE  Base'
  <1>1. /\ stop' \in [Txqs -> SUBSET Reasons] /\ flagged' \subseteq flagged
        /\ \A q \in active : "sta_ps" \in stop'[q]
    BY StopFacts DEF PsEnable, Base, Reasons
  <1>2. psOn' = TRUE /\ limit' = limit /\ events' = events
    BY DEF PsEnable, envVars
  <1>3. Types' /\ Life'
    BY <1>1, <1>2 DEF Base, Types, Life
  <1>4. Asleep' /\ Granted' /\ NoStranded'
    BY <1>1, <1>2 DEF Asleep, Granted, NoStranded
  <1>5. ClosedIsKept'
    BY <1>1, <1>2 DEF Base, Without, NoneForgotten, ClosedIsKept
  <1> QED
    BY <1>3, <1>4, <1>5 DEF Base, NoneForgotten

LEMMA BasePsDisable ==
    ASSUME Base, PsDisable,
           UNCHANGED <<active, sk, nb_retry, last_retry, credits, flow, closed, tbusy, valid,
                       dq, flushing, sender, cfm, nf, fw>>,
           add' = add \/ (add = "off" /\ add' = "none"), valid
    PROVE  Base'
  <1>1. /\ stop' \in [Txqs -> SUBSET Reasons] /\ flagged \subseteq flagged' /\ flagged' \subseteq Txqs
        /\ \A q \in active : stop'[q] = stop[q] \ {"sta_ps"}
        /\ \A q \in active : stop'[q] = {} /\ stop[q] # {} /\ sk[q] # <<>> => q \in flagged'
    BY StartFacts DEF PsDisable, Base, Reasons
  <1>2. psOn' = FALSE /\ limit' = [q \in Txqs |-> 0] /\ events' = events
    BY DEF PsDisable, envVars
  <1>3. Types' /\ Life'
    BY <1>1, <1>2 DEF Base, Types, Life
  <1>4. Asleep' /\ Granted'
    BY <1>2, <1>3 DEF Asleep, Granted, Types
  <1>5. NoStranded'
    BY <1>1, <1>2 DEF Base, NoneForgotten, NoStranded, Orderly, Without
  <1>6. ClosedIsKept'
    BY <1>1, <1>2 DEF Base, Without, NoneForgotten, ClosedIsKept
  <1> QED
    BY <1>3, <1>4, <1>5, <1>6 DEF Base, NoneForgotten

LEMMA BasePsInd ==
    ASSUME Base, NEW on \in BOOLEAN, PsInd(on)
    PROVE  Base'
  <1>1. UNCHANGED <<active, sk, nb_retry, last_retry, credits, flow, closed, tbusy, valid, add,
                    dq, flushing, sender, cfm, nf, fw, events>>
    BY DEF PsInd, envVars, flowVars, lifeVars, histVars
  <1>2. CASE valid /\ Free /\ (IF on THEN PsEnable ELSE PsDisable)
    BY <1>1, <1>2, BasePsEnable, BasePsDisable
  <1>3. CASE ~valid /\ add # "none" /\ psOn' = on /\ UNCHANGED <<stop, schedVars, limit, ready, sp, tim, task>>
    BY <1>1, <1>3 DEF schedVars, Base, Types, Life, Orderly, Without, Asleep, Granted, NoneForgotten,
                      NoStranded, ClosedIsKept
  <1> QED
    BY <1>2, <1>3 DEF PsInd

LEMMA BaseInterrupt ==
    ASSUME Base, Interrupt
    PROVE  Base'
  <1>1. /\ limit' = [q \in Txqs |-> 0]
        /\ UNCHANGED <<active, flagged, closed, flow, stop, sk, nb_retry, last_retry, credits, psOn, valid,
                       tbusy, add, dq, flushing, cfm, sender, nf, fw, events>>
    BY DEF Interrupt, envVars, schedVars, flowVars, lifeVars, histVars
  <1>2. Types' /\ Life'
    BY <1>1 DEF Base, Types, Life
  <1>3. Asleep' /\ Granted' /\ NoStranded' /\ ClosedIsKept'
    BY <1>1, <1>2 DEF Base, Types, Orderly, Without, Asleep, Granted, NoneForgotten, NoStranded, ClosedIsKept
  <1> QED
    BY <1>2, <1>3 DEF Base, NoneForgotten

\* A service period is only granted to a station whose queues are stopped, or that has
\* no active queues yet.
LEMMA BaseTrafficReq ==
    ASSUME Base, NEW n \in Requests, NEW i \in PsIds, TrafficReq(n, i)
    PROVE  Base'
  <1>1. /\ \E S \in SUBSET Data : flagged' = flagged \cup S
        /\ UNCHANGED <<active, closed, flow, stop, sk, nb_retry, last_retry, credits, psOn, valid,
                       tbusy, add, dq, flushing, cfm, sender, nf, fw, events>>
    BY DEF TrafficReq, AddToHwList, envVars, flowVars, lifeVars, histVars
  <1>2. limit' \in [Txqs -> Nat]
    <2>1. \A q \in Txqs : \A x \in 1 .. Offer(q, i) : x % LimitWrap \in Nat
      BY Widths
    <2> QED
      BY <2>1, Constants DEF TrafficReq, Base, Types
  <1>3. flagged \subseteq flagged' /\ flagged' \subseteq Txqs
    BY <1>1, Constants DEF Base, Types
  <1>4. Types' /\ Life'
    BY <1>1, <1>2, <1>3 DEF Base, Types, Life
  <1>5. Orderly => \A q \in active : "sta_ps" \in stop[q]
    <2>1. psOn /\ Admitted /\ (valid \/ "early" \in events)
      BY DEF TrafficReq
    <2> QED
      BY <2>1 DEF Base, Life, Asleep, Orderly, Without, Admitted
  <1>6. Asleep' /\ Granted' /\ NoStranded' /\ ClosedIsKept'
    BY <1>1, <1>3, <1>5 DEF Base, Orderly, Without, Asleep, Granted, NoneForgotten, NoStranded, ClosedIsKept
  <1> QED
    BY <1>4, <1>6 DEF Base, NoneForgotten

LEMMA BaseVifStop ==
    ASSUME Base, NEW r \in VifReasons, VifStop(r)
    PROVE  Base'
  <1>1. UNCHANGED <<active, closed, flow, sk, nb_retry, last_retry, limit, credits, psOn, valid,
                    tbusy, add, dq, flushing, cfm, sender, nf, fw, events>>
    BY DEF VifStop, envVars, queueVars, psVars, flowVars, lifeVars, histVars
  <1>2. CASE ~valid
    BY <1>1, <1>2, BaseSame DEF VifStop, baseVars
  <1>3. CASE valid
    <2>1. /\ stop' \in [Txqs -> SUBSET Reasons] /\ flagged' \subseteq flagged
          /\ \A q \in active : stop'[q] = stop[q] \cup {r}
      BY <1>3, StopFacts DEF VifStop, Base, Reasons
    <2>2. Types' /\ Life'
      BY <1>1, <2>1 DEF Base, Types, Life
    <2>3. Asleep' /\ Granted' /\ NoStranded'
      BY <1>1, <2>1 DEF Base, Orderly, Without, Asleep, Granted, NoStranded
    <2>4. ClosedIsKept'
      BY <1>1 DEF Base, Without, NoneForgotten, ClosedIsKept
    <2> QED
      BY <2>2, <2>3, <2>4 DEF Base, NoneForgotten
  <1> QED
    BY <1>2, <1>3

LEMMA BaseVifStart ==
    ASSUME Base, NEW r \in VifReasons, NEW kick \in BOOLEAN, VifStart(r, kick)
    PROVE  Base'
  <1>1. UNCHANGED <<active, closed, flow, sk, nb_retry, last_retry, limit, credits, psOn, valid,
                    tbusy, add, dq, flushing, cfm, sender, nf, fw, events>>
    BY DEF VifStart, envVars, queueVars, psVars, flowVars, lifeVars, histVars
  <1>2. CASE ~valid
    BY <1>1, <1>2, BaseSame DEF VifStart, schedVars, baseVars
  <1>3. CASE valid
    <2>1. /\ stop' \in [Txqs -> SUBSET Reasons] /\ flagged \subseteq flagged' /\ flagged' \subseteq Txqs
          /\ \A q \in active : stop'[q] = stop[q] \ {r}
          /\ \A q \in active : stop'[q] = {} /\ stop[q] # {} /\ sk[q] # <<>> => q \in flagged'
      BY <1>3, StartFacts DEF VifStart, Base, Reasons
    <2>2. Types' /\ Life'
      BY <1>1, <2>1 DEF Base, Types, Life
    <2>3. Asleep' /\ Granted'
      BY <1>1, <2>1 DEF Base, Orderly, Without, Asleep, Granted, VifReasons
    <2>4. NoStranded'
      BY <1>1, <2>1 DEF Base, Orderly, Without, NoneForgotten, NoStranded
    <2>5. ClosedIsKept'
      BY <1>1 DEF Base, Without, NoneForgotten, ClosedIsKept
    <2> QED
      BY <2>2, <2>3, <2>4, <2>5 DEF Base, NoneForgotten
  <1> QED
    BY <1>2, <1>3

LEMMA BaseBusBusy ==
    ASSUME Base, NEW b \in BOOLEAN, BusBusy(b)
    PROVE  Base'
  <1>1. /\ closed' \in {Data, {}} /\ tbusy' = b /\ (~b => closed' = {})
        /\ UNCHANGED <<active, flagged, flow, stop, sk, nb_retry, last_retry, limit, credits, psOn, valid,
                       add, dq, flushing, cfm, sender, nf, fw, events>>
    BY DEF BusBusy, envVars, schedVars, queueVars, psVars, lifeVars, histVars
  <1>2. Types' /\ Life'
    BY <1>1, Constants DEF Base, Types, Life
  <1>3. Asleep' /\ Granted' /\ NoStranded' /\ ClosedIsKept'
    BY <1>1 DEF Base, Orderly, Without, Asleep, Granted, NoneForgotten, NoStranded, ClosedIsKept
  <1> QED
    BY <1>2, <1>3 DEF Base, NoneForgotten

LEMMA BaseDelStation ==
    ASSUME Base, DelStation
    PROVE  Base'
  <1>1. /\ valid /\ add = "none" /\ "life" \in events
        /\ valid' = FALSE /\ psOn' = FALSE /\ dq' = Tids
        /\ UNCHANGED <<active, flagged, closed, flow, stop, sk, nb_retry, last_retry, limit, credits,
                       tbusy, add, flushing, cfm, sender, nf, fw, events>>
    BY DEF DelStation, envVars, schedVars, queueVars, flowVars, histVars
  <1>2. Types'
    BY <1>1, Constants DEF Base, Types
  <1>3. Life'
    BY <1>1, Constants DEF Base, Types, Life
  <1>4. Asleep' /\ Granted' /\ NoStranded' /\ ClosedIsKept'
    BY <1>1 DEF Base, Orderly, Without, Asleep, Granted, NoneForgotten, NoStranded, ClosedIsKept
  <1> QED
    BY <1>2, <1>3, <1>4 DEF Base, NoneForgotten

LEMMA BaseDeinit ==
    ASSUME Base, Deinit
    PROVE  Base'
  <1>0. PICK q : q = Head(dq)
    OBVIOUS
  <1>1. /\ dq # <<>> /\ flushing = NoQ /\ dq' = Tail(dq) /\ active' = active \ {q} /\ flushing' = q
        /\ flagged' = flagged \ {q}
        /\ UNCHANGED <<closed, flow, stop, sk, nb_retry, last_retry, limit, credits, psOn, valid,
                       tbusy, add, cfm, sender, nf, fw, events>>
    BY <1>0 DEF Deinit, DelFromHwList, envVars, queueVars, flowVars, psVars, histVars
  <1>2. q \in Txqs /\ Tail(dq) \in Seq(Txqs) /\ ToSet(dq) \subseteq {q} \cup ToSet(Tail(dq))
    <2>1. dq \in Seq(Txqs) /\ dq # <<>>
      BY <1>1 DEF Base, Types
    <2>2. Head(dq) \in Txqs /\ Tail(dq) \in Seq(Txqs) /\ Len(Tail(dq)) = Len(dq) - 1
      BY <2>1, HeadTailProperties
    <2>3. \A i \in 1 .. Len(Tail(dq)) : Tail(dq)[i] = dq[i + 1]
      BY <2>1, HeadTailProperties
    <2>4. Len(dq) \in Nat /\ DOMAIN dq = 1 .. Len(dq) /\ DOMAIN Tail(dq) = 1 .. Len(Tail(dq))
      BY <2>1, <2>2, LenProperties
    <2>5. dq[1] = Head(dq)
      BY <2>1
    <2>6. ASSUME NEW i \in 1 .. Len(dq), i # 1
          PROVE  dq[i] \in ToSet(Tail(dq))
      <3>1. i - 1 \in 1 .. Len(Tail(dq)) /\ dq[i] = Tail(dq)[i - 1]
        BY <2>2, <2>3, <2>4, <2>6
      <3> QED
        BY <3>1, <2>4 DEF ToSet
    <2>7. ToSet(dq) = {dq[i] : i \in 1 .. Len(dq)}
      BY <2>4 DEF ToSet
    <2> QED
      BY <1>0, <2>2, <2>5, <2>6, <2>7
  <1>3. Types'
    BY <1>1, <1>2 DEF Base, Types
  <1>4. Life'
    BY <1>1, <1>2 DEF Base, Types, Life
  <1>5. Asleep' /\ Granted' /\ NoStranded' /\ ClosedIsKept'
    BY <1>1 DEF Base, Orderly, Without, Asleep, Granted, NoneForgotten, NoStranded, ClosedIsKept
  <1> QED
    BY <1>3, <1>4, <1>5 DEF Base, NoneForgotten

LEMMA BaseFlush ==
    ASSUME Base, Flush
    PROVE  Base'
  <1>1. /\ flushing \in Txqs /\ flushing # NoQ /\ flushing' = NoQ /\ <<>> \in Seq(Nat)
        /\ sk' = [sk EXCEPT ![flushing] = <<>>]
        /\ UNCHANGED <<active, flagged, closed, flow, stop, nb_retry, last_retry, limit, credits, psOn, valid,
                       tbusy, add, dq, cfm, sender, nf, fw, events>>
    BY EmptySeq DEF Flush, envVars, schedVars, flowVars, psVars, histVars, Base, Types
  <1>2. Types'
    BY <1>1 DEF Base, Types
  <1>3. Life'
    BY <1>1, Constants DEF Base, Types, Life
  <1>4. Asleep' /\ Granted' /\ NoStranded'
    BY <1>1 DEF Base, Types, Orderly, Without, Asleep, Granted, NoneForgotten, NoStranded
  <1>5. ClosedIsKept'
    BY <1>1 DEF Base, Without, Life, NoneForgotten, ClosedIsKept
  <1> QED
    BY <1>2, <1>3, <1>4, <1>5 DEF Base, NoneForgotten

LEMMA BaseAddStation ==
    ASSUME Base, AddStation
    PROVE  Base'
  <1>1. /\ ~valid /\ add = "none" /\ dq = <<>> /\ flushing = NoQ /\ add' = "asked"
        /\ UNCHANGED <<active, flagged, closed, flow, stop, sk, nb_retry, last_retry, limit, credits, psOn, valid,
                       tbusy, dq, flushing, cfm, sender, nf, fw, events>>
    BY DEF AddStation, envVars, schedVars, queueVars, flowVars, psVars, histVars
  <1>2. ToSet(<<>>) = {}
    BY DEF ToSet
  <1>3. Types' /\ Life'
    BY <1>1, <1>2 DEF Base, Types, Life
  <1>4. Asleep' /\ Granted' /\ NoStranded' /\ ClosedIsKept'
    BY <1>1 DEF Base, Orderly, Without, Asleep, Granted, NoneForgotten, NoStranded, ClosedIsKept
  <1> QED
    BY <1>3, <1>4 DEF Base, NoneForgotten

LEMMA BaseStaInit ==
    ASSUME Base, StaInit
    PROVE  Base'
  <1>1. /\ add = "asked" /\ add' = "init" /\ active' = Txqs /\ flagged' = {} /\ flow' = {}
        /\ stop' = [q \in Txqs |-> VifStatus] /\ sk' = [q \in Txqs |-> <<>>]
        /\ limit' = [q \in Txqs |-> 0] /\ credits' = [q \in Txqs |-> Credits]
        /\ nb_retry' = [q \in Txqs |-> 0] /\ last_retry' = [q \in Txqs |-> 0]
        /\ UNCHANGED <<closed, psOn, valid, tbusy, dq, flushing, cfm, sender, nf, fw, events>>
    BY DEF StaInit, envVars, psVars
  <1>2. VifStatus \subseteq Reasons /\ <<>> \in Seq(Nat) /\ Credits \in Int
    BY EmptySeq, Constants DEF VifStatus, Reasons, VifReasons
  <1>3. Types'
    <2>1. stop' \in [Txqs -> SUBSET Reasons] /\ sk' \in [Txqs -> Seq(Nat)]
      BY <1>1, <1>2
    <2>2. /\ nb_retry' \in [Txqs -> Nat] /\ last_retry' \in [Txqs -> Nat]
          /\ limit' \in [Txqs -> Nat] /\ credits' \in [Txqs -> Int]
      BY <1>1, <1>2
    <2> QED
      BY <1>1, <2>1, <2>2 DEF Base, Types
  <1>4. Life'
    BY <1>1, Constants DEF Base, Types, Life
  <1>5. Asleep' /\ Granted' /\ NoStranded' /\ ClosedIsKept'
    BY <1>1 DEF Base, Life, Orderly, Without, Asleep, Granted, NoneForgotten, NoStranded, ClosedIsKept
  <1> QED
    BY <1>3, <1>4, <1>5 DEF Base, NoneForgotten

LEMMA BaseLinkStation ==
    ASSUME Base, NEW pm \in BOOLEAN, LinkStation(pm)
    PROVE  Base'
  <1>1. /\ add = "init" /\ valid' = TRUE /\ add' = IF psOn \/ pm THEN "on" ELSE "off"
        /\ UNCHANGED <<active, flagged, closed, flow, stop, sk, nb_retry, last_retry, limit, credits, psOn,
                       tbusy, dq, flushing, cfm, sender, nf, fw, events>>
    BY DEF LinkStation, envVars, schedVars, queueVars, flowVars, psVars, histVars
  <1>2. Types' /\ Life'
    BY <1>1 DEF Base, Types, Life
  <1>3. Asleep' /\ Granted' /\ NoStranded' /\ ClosedIsKept'
    BY <1>1 DEF Base, Orderly, Without, Asleep, Granted, NoneForgotten, NoStranded, ClosedIsKept
  <1> QED
    BY <1>2, <1>3 DEF Base, NoneForgotten

LEMMA BaseAdded ==
    ASSUME Base, Added
    PROVE  Base'
  <1>1. /\ UNCHANGED <<active, sk, nb_retry, last_retry, credits, flow, closed, tbusy, valid,
                       dq, flushing, sender, cfm, nf, fw>>
        /\ add' = "none" /\ valid
    BY DEF Added, flowVars, histVars, Base, Life
  <1>2. CASE add = "on"
    BY <1>1, <1>2, BasePsEnable DEF Added
  <1>3. CASE add = "off"
    BY <1>1, <1>3, BasePsDisable DEF Added
  <1> QED
    BY <1>2, <1>3 DEF Added

\* A confirmation links a queue at once, or remembers it.
LEMMA LinkFacts ==
    ASSUME Types, NEW q \in Txqs, Link(q), cfm = NoQ
    PROVE  /\ flagged \subseteq flagged' /\ flagged' \subseteq Txqs
           /\ cfm' \in Txqs \cup {NoQ} /\ q \in flagged' \cup {cfm'}
  BY DEF Types, Link, AddToHwList

LEMMA BaseConfirm ==
    ASSUME Base, NEW q, NEW f, <<q, f>> \in fw, Confirm(q, f)
    PROVE  Base'
  <1>1. /\ q \in Txqs /\ cfm = NoQ /\ fw' = fw \ {<<q, f>>}
        /\ Link(q) \/ UNCHANGED <<flagged, list, cfm>>
        /\ UNCHANGED <<active, closed, flow, stop, sk, nb_retry, last_retry, limit, credits, psOn, valid,
                       tbusy, add, dq, flushing, sender, nf, events>>
    BY DEF Confirm, MayConfirm, Base, Types, envVars, queueVars, flowVars, psVars, lifeVars
  <1>2. flagged \subseteq flagged' /\ flagged' \subseteq Txqs /\ cfm' \in Txqs \cup {NoQ}
    BY <1>1, LinkFacts DEF Base, Types
  <1>3. Types' /\ Life'
    BY <1>1, <1>2 DEF Base, Types, Life
  <1>4. \A p \in active : p \in flagged \cup {cfm} => p \in flagged' \cup {cfm'}
    BY <1>1, <1>2, Constants DEF Base, Types
  <1>5. Asleep' /\ Granted' /\ NoStranded' /\ ClosedIsKept'
    BY <1>1, <1>4 DEF Base, Orderly, Without, Asleep, Granted, NoneForgotten, NoStranded, ClosedIsKept
  <1> QED
    BY <1>3, <1>5 DEF Base, NoneForgotten

LEMMA BaseConfirmLink ==
    ASSUME Base, ConfirmLink
    PROVE  Base'
  <1>1. /\ cfm \in Txqs /\ cfm' = NoQ /\ flagged' = flagged \cup {cfm}
        /\ UNCHANGED <<active, closed, flow, stop, sk, nb_retry, last_retry, limit, credits, psOn, valid,
                       tbusy, add, dq, flushing, sender, nf, fw, events>>
    BY DEF ConfirmLink, Base, Types, envVars, queueVars, flowVars, psVars, lifeVars, histVars
  <1>2. Types' /\ Life'
    BY <1>1 DEF Base, Types, Life
  <1>3. Asleep' /\ Granted' /\ NoStranded' /\ ClosedIsKept'
    BY <1>1 DEF Base, Orderly, Without, Asleep, Granted, NoneForgotten, NoStranded, ClosedIsKept
  <1> QED
    BY <1>2, <1>3 DEF Base, NoneForgotten

LEMMA BaseCreditUpdate ==
    ASSUME Base, NEW q \in Txqs, CreditUpdate(q)
    PROVE  Base'
  <1>0. UNCHANGED <<active, closed, flow, sk, nb_retry, last_retry, limit, credits, psOn, valid,
                    tbusy, add, dq, flushing, cfm, sender, nf, fw, events>>
    BY DEF CreditUpdate, envVars, queueVars, flowVars, psVars, lifeVars, histVars
  <1>1. /\ flagged' \subseteq Txqs
        /\ stop' \in {stop, [stop EXCEPT ![q] = @ \cup {"full"}], [stop EXCEPT ![q] = @ \ {"full"}]}
        /\ \A p \in Txqs : p # q /\ p \in flagged => p \in flagged'
        /\ stop'[q] = {} /\ sk[q] # <<>> => q \in flagged' \/ (stop[q] = {} /\ flagged' = flagged)
    <2>1. CASE credits[q] <= 0
      <3>1. stop' = [stop EXCEPT ![q] = @ \cup {"full"}] /\ flagged' = flagged \ {q}
        BY <2>1 DEF CreditUpdate, DelFromHwList
      <3>2. "full" \in stop'[q]
        BY <3>1 DEF Base, Types
      <3> QED
        BY <3>1, <3>2 DEF Base, Types
    <2>2. CASE ~(credits[q] <= 0) /\ "full" \in stop[q]
      BY <2>2 DEF CreditUpdate, AddToHwList, Base, Types
    <2>3. CASE ~(credits[q] <= 0) /\ "full" \notin stop[q]
      BY <2>3 DEF CreditUpdate, schedVars, Base, Types
    <2> QED
      BY <2>1, <2>2, <2>3
  <1>2. Types' /\ Life'
    BY <1>0, <1>1, ZenonT(40) DEF Base, Types, Life, Reasons
  <1>3. \A p \in Txqs : "sta_ps" \in stop[p] => "sta_ps" \in stop'[p]
    BY <1>1 DEF Base, Types
  <1>4. Asleep' /\ Granted' /\ ClosedIsKept'
    BY <1>0, <1>1, <1>3 DEF Base, Types, Orderly, Without, Asleep, Granted, NoneForgotten, ClosedIsKept
  <1>5. NoStranded'
    BY <1>0, <1>1 DEF Base, Types, Orderly, Without, NoneForgotten, NoStranded
  <1> QED
    BY <1>2, <1>4, <1>5 DEF Base, NoneForgotten

\* Where a retried frame goes: behind the last frame queued for retry, if there is one.
Behind(q) ==
    IF last_retry[q] = 0 THEN 0 ELSE CHOOSE i \in DOMAIN sk[q] : sk[q][i] = last_retry[q]

LEMMA BehindFacts ==
    ASSUME Types, AllOrdered, NEW q \in active
    PROVE  Behind(q) = nb_retry[q] /\ nb_retry[q] \in 0 .. Len(sk[q])
  <1>1. PICK s, n, l, o : s = sk[q] /\ n = nb_retry[q] /\ l = last_retry[q] /\ o = out[q]
    OBVIOUS
  <1>2. s \in Seq(Nat) /\ n \in Nat /\ Len(s) \in Nat /\ DOMAIN s = 1 .. Len(s)
    BY <1>1, LenProperties DEF Types
  <1>3. Ordered(s, n, l, o)
    BY <1>1 DEF AllOrdered
  <1>4. CASE n = 0
    BY <1>1, <1>2, <1>3, <1>4 DEF Ordered, Behind
  <1>5. CASE n # 0
    <2>1. n \in 1 .. Len(s) /\ l = s[n] /\ l # 0
      BY <1>2, <1>3, <1>5 DEF Ordered
    <2>2. \A i \in 1 .. Len(s) : s[i] = s[n] => i = n
      BY <1>2, <1>3, <2>1 DEF Ordered
    <2>3. (CHOOSE i \in 1 .. Len(s) : s[i] = l) = n
      BY <2>1, <2>2
    <2> QED
      BY <1>1, <1>2, <2>1, <2>3 DEF Behind
  <1> QED
    BY <1>4, <1>5

LEMMA BaseRetry ==
    ASSUME Base, AllOrdered, NEW q, NEW f, <<q, f>> \in fw, Retry(q, f)
    PROVE  Base'
  <1>1. /\ q \in active /\ q \in Txqs /\ f \in Nat /\ cfm = NoQ /\ fw' = fw \ {<<q, f>>}
        /\ FlowStops(q)
        /\ stop' \in {stop, [stop EXCEPT ![q] = @ \ {"full"}]}
        /\ IF stop'[q] = {} THEN Link(q) ELSE UNCHANGED <<flagged, list, cfm>>
        /\ UNCHANGED <<active, limit, psOn, valid, tbusy, add, dq, flushing, sender, nf, events>>
    BY DEF Retry, MayConfirm, Base, Types, envVars, lifeVars
  <1>2. /\ sk' = [sk EXCEPT ![q] = Inserted(sk[q], nb_retry[q], f)]
        /\ Inserted(sk[q], nb_retry[q], f) \in Seq(Nat)
        /\ Len(Inserted(sk[q], nb_retry[q], f)) = Len(sk[q]) + 1
    <2>1. sk' = [sk EXCEPT ![q] = InsertRetry(q, f)]
      BY DEF Retry
    <2>2. InsertRetry(q, f) = Inserted(sk[q], Behind(q), f)
      BY DEF InsertRetry, Inserted, Behind
    <2>3. Behind(q) = nb_retry[q] /\ nb_retry[q] \in 0 .. Len(sk[q]) /\ sk[q] \in Seq(Nat)
      BY <1>1, BehindFacts DEF Base, Types
    <2>4. /\ Inserted(sk[q], nb_retry[q], f) \in Seq(Nat)
          /\ Len(Inserted(sk[q], nb_retry[q], f)) = Len(sk[q]) + 1
      BY <1>1, <2>3, InsertFacts, ZenonT(40)
    <2> QED
      BY <2>1, <2>2, <2>3, <2>4, Zenon
  <1>3. credits' \in [Txqs -> Int]
    <2>1. MoreCredits(q) \in Int
      BY <1>1, Constants DEF MoreCredits, Base, Types
    <2> QED
      BY <2>1, <1>1 DEF Retry, Base, Types
  <1>4. nb_retry' \in [Txqs -> Nat] /\ last_retry' \in [Txqs -> Nat]
    BY <1>1 DEF Retry, Base, Types
  <1>5. flagged \subseteq flagged' /\ flagged' \subseteq Txqs /\ cfm' \in Txqs \cup {NoQ}
    BY <1>1, LinkFacts DEF Base, Types
  <1>6. Types'
    <2>1. sk' \in [Txqs -> Seq(Nat)] /\ stop' \in [Txqs -> SUBSET Reasons]
      BY <1>1, <1>2, ZenonT(40) DEF Base, Types
    <2>2. flow' \subseteq Txqs /\ closed' \subseteq Txqs
      BY <1>1 DEF Base, Types, FlowStops
    <2> QED
      BY <1>1, <1>3, <1>4, <1>5, <2>1, <2>2 DEF Base, Types
  <1>7. Life' /\ Asleep' /\ Granted'
    <2>1. \A p \in Txqs : "sta_ps" \in stop[p] => "sta_ps" \in stop'[p]
      BY <1>1 DEF Base, Types
    <2> QED
      BY <1>1, <2>1 DEF Base, Types, Life, Orderly, Without, Asleep, Granted
  <1>8. NoStranded'
    <2> SUFFICES ASSUME Orderly, NEW p \in active, stop'[p] = {}, sk'[p] # <<>>
                 PROVE  p \in flagged' \cup {cfm'}
      BY <1>1 DEF NoStranded, Orderly, Without
    <2>1. CASE p = q
      BY <1>1, <2>1, LinkFacts DEF Base
    <2>2. CASE p # q
      <3>1. stop[p] = {} /\ sk[p] # <<>>
        BY <1>1, <1>2, <2>2 DEF Base, Types
      <3>2. p \in flagged
        BY <3>1, <1>1, Constants, ZenonT(40) DEF Base, Types, NoneForgotten, NoStranded, Orderly
      <3> QED
        BY <3>2, <1>5
    <2> QED
      BY <2>1, <2>2
  <1>9. ClosedIsKept'
    <2>1. Len(sk'[q]) = Len(sk[q]) + 1 /\ \A p \in Txqs : p # q => sk'[p] = sk[p]
      BY <1>1, <1>2 DEF Base, Types
    <2> QED
      BY <2>1, <1>1, <1>6, FlowStopsKeeps DEF Base, NoneForgotten
  <1> QED
    BY <1>6, <1>7, <1>8, <1>9 DEF Base, NoneForgotten

LEMMA BaseStep ==
    ASSUME Base, AllOrdered, [Next]_vars
    PROVE  Base'
  <1>1. ASSUME NEW s \in Senders, QueueSkb(s) \/ \E q \in Txqs : Xmit(s, q) PROVE Base'
    BY <1>1, BaseQueueSkb, BaseXmit
  <1>2. CASE WalkActive \/ WalkInactive \/ WalkEnd \/ Task
    BY <1>2, BaseWalkActive, BaseWalkInactive, BaseWalkOn
  <1>3. CASE Interrupt \/ \E on \in BOOLEAN : PsInd(on)
    BY <1>3, BaseInterrupt, BasePsInd
  <1>4. ASSUME NEW n \in Requests, NEW i \in PsIds, TrafficReq(n, i) PROVE Base'
    BY <1>4, BaseTrafficReq
  <1>5. ASSUME NEW r \in VifReasons, VifStop(r) \/ VifBack(r) PROVE Base'
    BY <1>5, BaseVifStop, BaseVifStart DEF VifBack
  <1>6. CASE CsaEnd \/ CsaFinish
    BY <1>6, BaseVifStart DEF CsaEnd, CsaFinish, VifReasons
  <1>7. CASE DelStation \/ Deinit \/ Flush \/ AddStation \/ StaInit \/ Added
    BY <1>7, BaseDelStation, BaseDeinit, BaseFlush, BaseAddStation, BaseStaInit, BaseAdded
  <1>8. CASE \/ \E b \in BOOLEAN : BusBusy(b)
             \/ \E pm \in BOOLEAN : LinkStation(pm)
    BY <1>8, BaseBusBusy, BaseLinkStation
  <1>9. ASSUME NEW c \in fw, Confirm(c[1], c[2]) \/ Retry(c[1], c[2]) PROVE Base'
    <2>1. c = <<c[1], c[2]>>
      BY SMTT(30) DEF Base, Types
    <2> QED
      BY <1>9, <2>1, BaseConfirm, BaseRetry
  <1>10. CASE ConfirmLink \/ \E q \in Txqs : CreditUpdate(q)
    BY <1>10, BaseConfirmLink, BaseCreditUpdate
  <1>11. CASE UNCHANGED vars
    BY <1>11, BaseSame DEF vars, envVars, schedVars, queueVars, flowVars, psVars, lifeVars, histVars, baseVars
  <1> QED
    BY <1>1, <1>2, <1>3, <1>4, <1>5, <1>6, <1>7, <1>8, <1>9, <1>10, <1>11 DEF Next

-----------------------------------------------------------------------------
(* The order of a queue                                                    *)

\* A new frame goes to the end.
LEMMA OrderedAppend ==
    ASSUME NEW s \in Seq(Nat), NEW n \in Nat, NEW l \in Nat, NEW o \in Nat, NEW m \in Nat,
           Ordered(s, n, l, o), o <= m, \A i \in 1 .. Len(s) : s[i] <= m
    PROVE  Ordered(Append(s, m + 1), n, l, o)
  <1>1. PICK t : t = Append(s, m + 1)
    OBVIOUS
  <1>2. Len(s) \in Nat /\ \A i \in 1 .. Len(s) : s[i] \in Nat
    BY LenProperties, ElementOfSeq
  <1>3. /\ Len(t) = Len(s) + 1 /\ t[Len(s) + 1] = m + 1
        /\ \A i \in 1 .. Len(s) : t[i] = s[i]
    BY <1>1, AppendFacts
  <1>4. \A i \in 1 .. Len(t) : i \in 1 .. Len(s) \/ i = Len(s) + 1
    BY <1>2, <1>3
  <1>5. n <= Len(t) /\ l = IF n = 0 THEN 0 ELSE t[n]
    BY <1>2, <1>3 DEF Ordered
  <1>6. ASSUME NEW i \in 1 .. Len(t) PROVE t[i] > 0 /\ ((i > n) <=> (t[i] > o))
    <2>1. CASE i \in 1 .. Len(s)
      BY <2>1, <1>3 DEF Ordered
    <2>2. CASE i = Len(s) + 1
      BY <2>2, <1>2, <1>3 DEF Ordered
    <2> QED
      BY <1>4, <2>1, <2>2
  <1>7. \A i, j \in 1 .. Len(t) : n < i /\ i < j => t[i] < t[j]
    BY <1>2, <1>3, <1>4 DEF Ordered
  <1>8. ASSUME NEW i \in 1 .. Len(t), NEW j \in 1 .. Len(t), i <= n, j <= n, t[i] = t[j]
        PROVE  i = j
    <2>1. i \in 1 .. Len(s) /\ j \in 1 .. Len(s)
      BY <1>2, <1>3, <1>8 DEF Ordered
    <2> QED
      BY <2>1, <1>3, <1>8 DEF Ordered
  <1> QED
    BY <1>1, <1>5, <1>6, <1>7, <1>8 DEF Ordered

\* A frame that was pushed and is not on the queue goes behind those to be sent again.
LEMMA OrderedInsert ==
    ASSUME NEW s \in Seq(Nat), NEW n \in Nat, NEW l \in Nat, NEW o \in Nat, NEW f \in Nat,
           Ordered(s, n, l, o), f > 0, f <= o, \A i \in 1 .. Len(s) : s[i] # f
    PROVE  Ordered(Inserted(s, n, f), n + 1, f, o)
  <1>1. PICK t : t = Inserted(s, n, f)
    OBVIOUS
  <1>2. Len(s) \in Nat /\ n \in 0 .. Len(s) /\ \A i \in 1 .. Len(s) : s[i] \in Nat
    BY LenProperties, ElementOfSeq DEF Ordered
  <1>3. /\ Len(t) = Len(s) + 1
        /\ \A i \in 1 .. Len(s) + 1 :
              t[i] = IF i <= n THEN s[i] ELSE IF i = n + 1 THEN f ELSE s[i - 1]
    <2>1. /\ Inserted(s, n, f) \in Seq(Nat)
          /\ Len(Inserted(s, n, f)) = Len(s) + 1
          /\ \A i \in 1 .. Len(s) + 1 :
                Inserted(s, n, f)[i] = IF i <= n THEN s[i] ELSE IF i = n + 1 THEN f ELSE s[i - 1]
      <3>1. s \in Seq(Nat) /\ n \in 0 .. Len(s) /\ f \in Nat
        BY <1>2
      <3> QED
        BY <3>1, InsertFacts, ZenonT(40)
    <2> QED
      BY <1>1, <2>1
  <1>4. n + 1 <= Len(t) /\ f = t[n + 1]
    BY <1>2, <1>3
  <1>5. ASSUME NEW i \in 1 .. Len(t)
        PROVE  t[i] > 0 /\ ((i > n + 1) <=> (t[i] > o))
    <2>1. CASE i <= n
      BY <2>1, <1>2, <1>3 DEF Ordered
    <2>2. CASE i = n + 1
      <3>1. t[i] = f /\ o \in Nat /\ f \in Nat
        BY <2>2, <1>4
      <3> QED
        BY <2>2, <3>1
    <2>3. CASE i > n + 1
      <3>1. i - 1 \in 1 .. Len(s) /\ i - 1 > n /\ t[i] = s[i - 1]
        BY <2>3, <1>2, <1>3
      <3> QED
        BY <2>3, <3>1 DEF Ordered
    <2> QED
      BY <1>2, <2>1, <2>2, <2>3
  <1>6. ASSUME NEW i \in 1 .. Len(t), NEW j \in 1 .. Len(t), n + 1 < i, i < j
        PROVE  t[i] < t[j]
    <2>1. i - 1 \in 1 .. Len(s) /\ j - 1 \in 1 .. Len(s) /\ n < i - 1 /\ i - 1 < j - 1
      BY <1>2, <1>3, <1>6
    <2>2. t[i] = s[i - 1] /\ t[j] = s[j - 1]
      BY <1>2, <1>3, <1>6
    <2> QED
      BY <2>1, <2>2 DEF Ordered
  <1>7. ASSUME NEW i \in 1 .. Len(t), NEW j \in 1 .. Len(t), i <= n + 1, j <= n + 1, t[i] = t[j]
        PROVE  i = j
    <2>0. /\ i \in 1 .. Len(s) \/ i = n + 1
          /\ j \in 1 .. Len(s) \/ j = n + 1
          /\ i # n + 1 => i <= n /\ t[i] = s[i] /\ s[i] # f
          /\ j # n + 1 => j <= n /\ t[j] = s[j] /\ s[j] # f
      <3>1. i # n + 1 => i <= n /\ i \in 1 .. Len(s)
        BY <1>2, <1>7
      <3>2. j # n + 1 => j <= n /\ j \in 1 .. Len(s)
        BY <1>2, <1>7
      <3> QED
        BY <3>1, <3>2, <1>3
    <2>1. CASE i = n + 1
      BY <2>0, <2>1, <1>4, <1>7
    <2>2. CASE j = n + 1
      BY <2>0, <2>2, <1>4, <1>7
    <2>3. CASE i # n + 1 /\ j # n + 1
      BY <2>0, <2>3, <1>7 DEF Ordered
    <2> QED
      BY <2>1, <2>2, <2>3
  <1> QED
    BY <1>1, <1>4, <1>5, <1>6, <1>7 DEF Ordered

\* What the last frame to go out is after the first k of s.
LastOut(s, n, o, k) == IF k <= n THEN o ELSE s[k]

LEMMA LastIsMax ==
    ASSUME NEW s \in Seq(Nat), NEW n \in Nat, NEW l \in Nat, NEW o \in Nat, NEW k \in 0 .. Len(s),
           Ordered(s, n, l, o)
    PROVE  Max({o} \cup ToSet(SubSeq(s, 1, k))) = LastOut(s, n, o, k)
  <1>1. Len(s) \in Nat /\ \A i \in 1 .. Len(s) : s[i] \in Nat
    BY LenProperties, ElementOfSeq
  <1>2. ToSet(SubSeq(s, 1, k)) = {s[i] : i \in 1 .. k}
    BY Prefix
  <1> DEFINE S == {o} \cup {s[i] : i \in 1 .. k}
  <1>3. S \subseteq Int
    BY <1>1
  <1>4. LastOut(s, n, o, k) \in S /\ \A x \in S : x <= LastOut(s, n, o, k)
    <2>0. \A i \in 1 .. k : s[i] \in Nat /\ ((i > n) <=> (s[i] > o)) /\ (n < i /\ i < k => s[i] < s[k])
      <3>1. 1 .. k \subseteq 1 .. Len(s)
        BY <1>1
      <3>2. k > 0 => k \in 1 .. Len(s)
        BY <1>1
      <3> QED
        BY <1>1, <3>1, <3>2 DEF Ordered
    <2>1. CASE k <= n
      <3>1. \A i \in 1 .. k : s[i] <= o
        BY <2>0, <2>1
      <3> QED
        BY <2>1, <3>1 DEF LastOut
    <2>2. CASE k > n
      <3>1. k \in 1 .. k /\ s[k] \in Nat /\ s[k] > o
        BY <2>0, <2>2
      <3>2. \A i \in 1 .. k : s[i] <= s[k]
        <4>1. ASSUME NEW i \in 1 .. k PROVE s[i] <= s[k]
          <5>1. CASE i <= n
            BY <2>0, <3>1, <5>1
          <5>2. CASE i > n /\ i # k
            BY <2>0, <3>1, <5>2
          <5> QED
            BY <3>1, <5>1, <5>2
        <4> QED
          BY <4>1
      <3>3. LastOut(s, n, o, k) = s[k]
        BY <2>2 DEF LastOut
      <3> QED
        BY <3>1, <3>2, <3>3
    <2> QED
      BY <2>1, <2>2, SMTT(30)
  <1>5. Max(S) = LastOut(s, n, o, k)
    BY <1>3, <1>4, MaxIs
  <1> QED
    BY <1>2, <1>5

\* The first k frames leave.
LEMMA OrderedPush ==
    ASSUME NEW s \in Seq(Nat), NEW n \in Nat, NEW l \in Nat, NEW o \in Nat, NEW k \in 0 .. Len(s),
           Ordered(s, n, l, o),
           NEW r, r = IF k <= n THEN k ELSE n
    PROVE  Ordered(SubSeq(s, k + 1, Len(s)), n - r, IF n = r THEN 0 ELSE l, LastOut(s, n, o, k))
  <1>1. PICK t : t = SubSeq(s, k + 1, Len(s))
    OBVIOUS
  <1>2. Len(s) \in Nat /\ \A i \in 1 .. Len(s) : s[i] \in Nat
    BY LenProperties, ElementOfSeq
  <1>3. Len(t) = Len(s) - k /\ \A i \in 1 .. Len(s) - k : t[i] = s[k + i]
    BY <1>1, Rest
  <1>4. \A i \in 1 .. Len(t) : t[i] = s[k + i] /\ k + i \in 1 .. Len(s)
    BY <1>2, <1>3
  <1>5. PICK m : m = n - r
    OBVIOUS
  <1>6. r \in Nat /\ m \in Nat /\ m <= Len(t) /\ (n = r <=> m = 0)
    BY <1>2, <1>3, <1>5 DEF Ordered
  <1>7. (IF n = r THEN 0 ELSE l) = IF m = 0 THEN 0 ELSE t[m]
    BY <1>2, <1>3, <1>5, <1>6, SMTT(30) DEF Ordered
  <1>8. ASSUME NEW i \in 1 .. Len(t)
        PROVE  t[i] > 0 /\ ((i > m) <=> (t[i] > LastOut(s, n, o, k)))
    <2>1. t[i] = s[k + i] /\ k + i \in 1 .. Len(s) /\ s[k + i] > 0 /\ s[k + i] \in Nat
          /\ ((k + i > n) <=> (s[k + i] > o))
      BY <1>2, <1>4 DEF Ordered
    <2>2. CASE k <= n
      BY <2>1, <2>2, <1>5 DEF LastOut
    <2>3. CASE k > n
      <3>1. k \in 1 .. Len(s) /\ k < k + i /\ n < k
        BY <1>2, <2>3
      <3>2. s[k] < s[k + i]
        BY <2>1, <3>1 DEF Ordered
      <3> QED
        BY <2>1, <2>3, <3>2, <1>5 DEF LastOut
    <2> QED
      BY <2>2, <2>3
  <1>9. ASSUME NEW i \in 1 .. Len(t), NEW j \in 1 .. Len(t), m < i, i < j
        PROVE  t[i] < t[j]
    <2>1. n < k + i /\ k + i < k + j
      BY <1>5, <1>6, <1>9
    <2> QED
      BY <1>4, <2>1 DEF Ordered
  <1>10. ASSUME NEW i \in 1 .. Len(t), NEW j \in 1 .. Len(t), i <= m, j <= m, t[i] = t[j]
         PROVE  i = j
    <2>1. k + i <= n /\ k + j <= n
      BY <1>5, <1>6, <1>10
    <2>2. k + i = k + j
      BY <1>4, <1>10, <2>1 DEF Ordered
    <2> QED
      BY <2>2
  <1> QED
    BY <1>1, <1>5, <1>6, <1>7, <1>8, <1>9, <1>10 DEF Ordered

\* The variables that InOrder speaks of.
orderVars == <<active, sk, nb_retry, last_retry, out, nf, fw>>

OrderInv == AllOrdered /\ Pushed

LEMMA OrderInit == Init => OrderInv
  <1> SUFFICES ASSUME Init PROVE OrderInv
    OBVIOUS
  <1>1. Len(<<>>) = 0
    BY EmptySeq
  <1>2. out \in [Txqs -> Nat]
    BY DEF Init
  <1> QED
    BY <1>1, <1>2 DEF Init, OrderInv, AllOrdered, Ordered, Pushed

LEMMA OrderSame ==
    ASSUME OrderInv, UNCHANGED orderVars
    PROVE  OrderInv'
  BY DEF OrderInv, orderVars, AllOrdered, Pushed

LEMMA OrderQueueSkb ==
    ASSUME Types, OrderInv, NEW s \in Senders, QueueSkb(s)
    PROVE  OrderInv'
  <1>0. PICK q : q = sender[s]
    OBVIOUS
  <1>1. /\ q \in Txqs /\ nf \in Nat /\ nf' = nf + 1
        /\ sk' = [sk EXCEPT ![q] = Append(sk[q], nf + 1)]
        /\ UNCHANGED <<active, nb_retry, last_retry, out, fw>>
    BY <1>0 DEF QueueSkb, Types
  <1>2. PICK t : t = Append(sk[q], nf + 1)
    OBVIOUS
  <1>3. /\ sk[q] \in Seq(Nat) /\ Len(sk[q]) \in Nat /\ \A i \in 1 .. Len(sk[q]) : sk[q][i] \in Nat
        /\ Len(t) = Len(sk[q]) + 1 /\ t[Len(sk[q]) + 1] = nf + 1
        /\ \A i \in 1 .. Len(sk[q]) : t[i] = sk[q][i]
    BY <1>1, <1>2, AppendFacts, LenProperties, ElementOfSeq DEF Types
  <1>4. /\ sk'[q] = t /\ \A p \in Txqs : p # q => sk'[p] = sk[p]
    BY <1>1, <1>2 DEF Types
  <1>5. AllOrdered'
    <2> SUFFICES ASSUME NEW p \in active
                 PROVE  Ordered(sk'[p], nb_retry[p], last_retry[p], out[p])
      BY <1>1 DEF AllOrdered
    <2>1. p \in Txqs /\ Ordered(sk[p], nb_retry[p], last_retry[p], out[p])
      BY DEF Types, OrderInv, AllOrdered
    <2>2. CASE p # q
      BY <2>1, <2>2, <1>4
    <2>3. CASE p = q
      <3>1. nb_retry[q] \in Nat /\ last_retry[q] \in Nat /\ out[q] \in Nat /\ out[q] <= nf
        BY <1>1 DEF Types, OrderInv, Pushed
      <3>2. \A i \in 1 .. Len(sk[q]) : sk[q][i] <= nf
        BY <1>1 DEF OrderInv, Pushed
      <3>3. Ordered(sk[q], nb_retry[q], last_retry[q], out[q])
        BY <2>1, <2>3
      <3>4. Ordered(Append(sk[q], nf + 1), nb_retry[q], last_retry[q], out[q])
        BY <3>1, <3>2, <3>3, <1>1, <1>3, OrderedAppend
      <3> QED
        BY <2>3, <3>4, <1>2, <1>4
    <2> QED
      BY <2>2, <2>3
  <1>6. \A p \in Txqs : out'[p] <= nf' /\ \A i \in 1 .. Len(sk'[p]) : sk'[p][i] <= nf'
    <2> SUFFICES ASSUME NEW p \in Txqs
                 PROVE  out[p] <= nf + 1 /\ \A i \in 1 .. Len(sk'[p]) : sk'[p][i] <= nf + 1
      BY <1>1
    <2>1. /\ out[p] \in Nat /\ out[p] <= nf /\ sk[p] \in Seq(Nat)
          /\ \A i \in 1 .. Len(sk[p]) : sk[p][i] \in Nat /\ sk[p][i] <= nf
      BY ElementOfSeq DEF Types, OrderInv, Pushed
    <2>2. CASE p = q
      BY <2>1, <2>2, <1>1, <1>3, <1>4
    <2>3. CASE p # q
      BY <2>1, <2>3, <1>1, <1>4
    <2> QED
      BY <2>2, <2>3
  <1>7. ASSUME NEW c \in fw
        PROVE  /\ c[2] > 0 /\ c[2] <= out[c[1]]
               /\ \A i \in 1 .. Len(sk'[c[1]]) : sk'[c[1]][i] # c[2]
    <2>1. /\ c[1] \in Txqs /\ c[2] \in Nat /\ c[2] > 0 /\ c[2] <= out[c[1]]
          /\ out[c[1]] \in Nat /\ out[c[1]] <= nf
          /\ \A i \in 1 .. Len(sk[c[1]]) : sk[c[1]][i] # c[2]
      BY DEF Types, OrderInv, Pushed
    <2>2. CASE c[1] = q
      BY <2>1, <2>2, <1>1, <1>3, <1>4
    <2>3. CASE c[1] # q
      BY <2>1, <2>3, <1>4
    <2> QED
      BY <2>1, <2>2, <2>3
  <1> QED
    BY <1>1, <1>5, <1>6, <1>7 DEF OrderInv, Pushed

LEMMA OrderRetry ==
    ASSUME Types, OrderInv, NEW q, NEW f, <<q, f>> \in fw, Retry(q, f)
    PROVE  OrderInv'
  <1>1. /\ q \in active /\ q \in Txqs /\ f \in Nat /\ f > 0 /\ f <= out[q]
        /\ \A i \in 1 .. Len(sk[q]) : sk[q][i] # f
        /\ Ordered(sk[q], nb_retry[q], last_retry[q], out[q])
    BY DEF Retry, Types, OrderInv, Pushed, AllOrdered
  <1>2. /\ nb_retry' = [nb_retry EXCEPT ![q] = @ + 1] /\ last_retry' = [last_retry EXCEPT ![q] = f]
        /\ fw' = fw \ {<<q, f>>} /\ UNCHANGED <<active, out, nf>>
    BY DEF Retry
  <1>3. PICK n, t : n = nb_retry[q] /\ t = Inserted(sk[q], n, f)
    OBVIOUS
  <1>4. sk' = [sk EXCEPT ![q] = t] /\ n \in 0 .. Len(sk[q]) /\ n \in Nat /\ sk[q] \in Seq(Nat)
    <2>1. sk' = [sk EXCEPT ![q] = InsertRetry(q, f)]
      BY DEF Retry
    <2>2. InsertRetry(q, f) = Inserted(sk[q], Behind(q), f)
      BY DEF InsertRetry, Inserted, Behind
    <2> QED
      BY <1>1, <1>3, <2>1, <2>2, BehindFacts DEF OrderInv, Types
  <1>5. /\ t \in Seq(Nat) /\ Len(t) = Len(sk[q]) + 1 /\ Len(sk[q]) \in Nat
        /\ \A i \in 1 .. Len(sk[q]) + 1 :
              t[i] = IF i <= n THEN sk[q][i] ELSE IF i = n + 1 THEN f ELSE sk[q][i - 1]
    <2>1. Len(sk[q]) \in Nat
      BY <1>4, LenProperties
    <2>2. /\ Inserted(sk[q], n, f) \in Seq(Nat)
          /\ Len(Inserted(sk[q], n, f)) = Len(sk[q]) + 1
          /\ \A i \in 1 .. Len(sk[q]) + 1 :
                Inserted(sk[q], n, f)[i] =
                    IF i <= n THEN sk[q][i] ELSE IF i = n + 1 THEN f ELSE sk[q][i - 1]
      <3>1. PICK s : s = sk[q]
        OBVIOUS
      <3>2. s \in Seq(Nat) /\ n \in 0 .. Len(s) /\ f \in Nat
        BY <3>1, <1>1, <1>4
      <3>3. /\ Inserted(s, n, f) \in Seq(Nat)
            /\ Len(Inserted(s, n, f)) = Len(s) + 1
            /\ \A i \in 1 .. Len(s) + 1 :
                  Inserted(s, n, f)[i] = IF i <= n THEN s[i] ELSE IF i = n + 1 THEN f ELSE s[i - 1]
        BY <3>2, InsertFacts, ZenonT(40)
      <3> QED
        BY <3>1, <3>3, Zenon
    <2> QED
      BY <2>1, <2>2, <1>3
  <1>6. /\ sk'[q] = t /\ \A p \in Txqs : p # q => sk'[p] = sk[p]
        /\ nb_retry'[q] = n + 1 /\ \A p \in Txqs : p # q => nb_retry'[p] = nb_retry[p]
        /\ last_retry'[q] = f /\ \A p \in Txqs : p # q => last_retry'[p] = last_retry[p]
    BY <1>1, <1>2, <1>3, <1>4 DEF Types
  <1>7. \A i \in 1 .. Len(t) : t[i] = f \/ \E j \in 1 .. Len(sk[q]) : t[i] = sk[q][j]
    <2> SUFFICES ASSUME NEW i \in 1 .. Len(t), t[i] # f
                 PROVE  \E j \in 1 .. Len(sk[q]) : t[i] = sk[q][j]
      OBVIOUS
    <2>1. CASE i <= n
      BY <2>1, <1>4, <1>5
    <2>2. CASE i > n
      <3>1. i # n + 1 /\ i - 1 \in 1 .. Len(sk[q]) /\ t[i] = sk[q][i - 1]
        BY <2>2, <1>4, <1>5
      <3> QED
        BY <3>1
    <2> QED
      BY <1>4, <1>5, <2>1, <2>2
  <1>8. AllOrdered'
    <2> SUFFICES ASSUME NEW p \in active
                 PROVE  Ordered(sk'[p], nb_retry'[p], last_retry'[p], out[p])
      BY <1>2 DEF AllOrdered
    <2>1. p \in Txqs /\ Ordered(sk[p], nb_retry[p], last_retry[p], out[p])
      BY DEF Types, OrderInv, AllOrdered
    <2>2. CASE p # q
      BY <2>1, <2>2, <1>6
    <2>3. CASE p = q
      <3>1. last_retry[q] \in Nat /\ out[q] \in Nat
        BY <1>1 DEF Types, OrderInv, Pushed
      <3>2. Ordered(t, n + 1, f, out[q])
        BY <3>1, <1>1, <1>3, <1>4, OrderedInsert
      <3> QED
        BY <2>3, <3>2, <1>6
    <2> QED
      BY <2>2, <2>3
  <1>9. \A p \in Txqs : out'[p] <= nf' /\ \A i \in 1 .. Len(sk'[p]) : sk'[p][i] <= nf'
    <2> SUFFICES ASSUME NEW p \in Txqs
                 PROVE  out[p] <= nf /\ \A i \in 1 .. Len(sk'[p]) : sk'[p][i] <= nf
      BY <1>2
    <2>1. out[p] <= nf /\ out[p] \in Nat /\ nf \in Nat /\ \A i \in 1 .. Len(sk[p]) : sk[p][i] <= nf
      BY DEF OrderInv, Pushed, Types
    <2>2. CASE p = q
      BY <2>1, <2>2, <1>1, <1>6, <1>7
    <2>3. CASE p # q
      BY <2>1, <2>3, <1>6
    <2> QED
      BY <2>2, <2>3
  <1>10. ASSUME NEW c \in fw'
         PROVE  /\ c[2] > 0 /\ c[2] <= out[c[1]]
                /\ \A i \in 1 .. Len(sk'[c[1]]) : sk'[c[1]][i] # c[2]
    <2>1. /\ c \in fw /\ c[1] \in Txqs /\ c[2] \in Nat /\ c[2] > 0 /\ c[2] <= out[c[1]]
          /\ \A i \in 1 .. Len(sk[c[1]]) : sk[c[1]][i] # c[2]
          /\ c[1] = q => c[2] # f
      BY <1>2, SMTT(30) DEF Types, OrderInv, Pushed
    <2>2. CASE c[1] = q
      BY <2>1, <2>2, <1>6, <1>7
    <2>3. CASE c[1] # q
      BY <2>1, <2>3, <1>6
    <2> QED
      BY <2>1, <2>2, <2>3
  <1> QED
    BY <1>2, <1>8, <1>9, <1>10 DEF OrderInv, Pushed

LEMMA OrderWalkActive ==
    ASSUME Types, OrderInv, WalkActive
    PROVE  OrderInv'
  <1>0. PICK q : q = walk.at
    OBVIOUS
  <1>1. q \in Txqs /\ q \in active /\ credits[q] > 0
    BY <1>0 DEF WalkActive, Types
  <1>2. PICK k : k = NPush(q)
    OBVIOUS
  <1>3. PushFrames(q, k) /\ UNCHANGED <<active, nf>>
    BY <1>0, <1>2 DEF WalkActive
  <1>4. PICK s, n, l, o : s = sk[q] /\ n = nb_retry[q] /\ l = last_retry[q] /\ o = out[q]
    OBVIOUS
  <1>5. /\ s \in Seq(Nat) /\ Len(s) \in Nat /\ n \in Nat /\ l \in Nat /\ o \in Nat
        /\ Ordered(s, n, l, o) /\ o <= nf /\ nf \in Nat
        /\ \A i \in 1 .. Len(s) : s[i] \in Nat /\ s[i] <= nf
    BY <1>1, <1>4, LenProperties, ElementOfSeq DEF Types, OrderInv, AllOrdered, Pushed
  <1>6. k \in 0 .. Len(s)
    BY <1>1, <1>2, <1>4, PushFacts
  <1>7. PICK t, r : t = SubSeq(s, k + 1, Len(s)) /\ r = IF k <= n THEN k ELSE n
    OBVIOUS
  <1>8. Min({k, n}) = r
    BY <1>5, <1>6, <1>7, MinOfTwo
  <1>9. Max({o} \cup ToSet(SubSeq(s, 1, k))) = LastOut(s, n, o, k)
    BY <1>5, <1>6, LastIsMax
  <1>10. ToSet(SubSeq(s, 1, k)) = {s[i] : i \in 1 .. k}
    BY <1>5, <1>6, Prefix
  <1>11. /\ sk' = [sk EXCEPT ![q] = t] /\ nb_retry' = [nb_retry EXCEPT ![q] = n - r]
         /\ last_retry' = [last_retry EXCEPT ![q] = IF n = r THEN 0 ELSE l]
         /\ out' = [out EXCEPT ![q] = LastOut(s, n, o, k)]
         /\ fw' \subseteq fw \cup {<<q, f>> : f \in {s[i] : i \in 1 .. k}}
    BY <1>3, <1>4, <1>7, <1>8, <1>9, <1>10 DEF PushFrames
  <1>12. /\ sk'[q] = t /\ \A p \in Txqs : p # q => sk'[p] = sk[p]
         /\ nb_retry'[q] = n - r /\ \A p \in Txqs : p # q => nb_retry'[p] = nb_retry[p]
         /\ last_retry'[q] = (IF n = r THEN 0 ELSE l)
         /\ \A p \in Txqs : p # q => last_retry'[p] = last_retry[p]
         /\ out'[q] = LastOut(s, n, o, k) /\ \A p \in Txqs : p # q => out'[p] = out[p]
    BY <1>1, <1>11 DEF Types, OrderInv, Pushed
  <1>13. /\ t \in Seq(Nat) /\ Len(t) = Len(s) - k
         /\ \A i \in 1 .. Len(s) - k : t[i] = s[k + i]
    BY <1>5, <1>6, <1>7, Rest
  <1>14. \A i \in 1 .. Len(t) : t[i] = s[k + i] /\ k + i \in 1 .. Len(s)
    BY <1>5, <1>6, <1>13
  <1>15. /\ LastOut(s, n, o, k) \in Nat /\ LastOut(s, n, o, k) <= nf /\ o <= LastOut(s, n, o, k)
         /\ \A i \in 1 .. k : s[i] > 0 /\ s[i] <= LastOut(s, n, o, k)
    <2>1. CASE k <= n
      BY <2>1, <1>5, <1>6 DEF LastOut, Ordered
    <2>2. CASE k > n
      <3>1. k \in 1 .. Len(s) /\ s[k] > o /\ s[k] \in Nat /\ s[k] <= nf
        BY <2>2, <1>5, <1>6 DEF Ordered
      <3>2. ASSUME NEW i \in 1 .. k PROVE s[i] > 0 /\ s[i] <= s[k]
        <4>1. i \in 1 .. Len(s) /\ s[i] > 0 /\ s[i] \in Nat
          BY <1>5, <1>6 DEF Ordered
        <4>2. CASE i <= n
          BY <4>1, <4>2, <3>1, <1>5 DEF Ordered
        <4>3. CASE i > n /\ i # k
          BY <4>1, <4>3, <3>1, <1>5 DEF Ordered
        <4>4. CASE i = k
          BY <4>1, <4>4, <3>1
        <4> QED
          BY <4>1, <4>2, <4>3, <4>4, <1>5
      <3> QED
        BY <2>2, <3>1, <3>2, <1>5 DEF LastOut
    <2> QED
      BY <2>1, <2>2, <1>5, <1>6
  \* What leaves is not on the rest of the queue.
  <1>16. ASSUME NEW i \in 1 .. k, NEW j \in 1 .. Len(t) PROVE t[j] # s[i]
    <2>1. /\ i \in 1 .. Len(s) /\ k + j \in 1 .. Len(s) /\ i < k + j /\ t[j] = s[k + j]
          /\ s[i] \in Nat /\ s[k + j] \in Nat
      BY <1>5, <1>6, <1>14, SMTT(30)
    <2>2. CASE k + j <= n
      BY <2>1, <2>2, <1>5, SMTT(30) DEF Ordered
    <2>3. CASE i > n
      BY <2>1, <2>3, <1>5 DEF Ordered
    <2>4. CASE i <= n /\ k + j > n
      <3>1. s[k + j] > o /\ ~(s[i] > o)
        BY <2>1, <2>4, <1>5, SMTT(30) DEF Ordered
      <3> QED
        BY <2>1, <3>1
    <2> QED
      BY <2>1, <2>2, <2>3, <2>4, <1>5
  <1>17. AllOrdered'
    <2> SUFFICES ASSUME NEW p \in active
                 PROVE  Ordered(sk'[p], nb_retry'[p], last_retry'[p], out'[p])
      BY <1>3 DEF AllOrdered
    <2>1. p \in Txqs /\ Ordered(sk[p], nb_retry[p], last_retry[p], out[p])
      BY DEF Types, OrderInv, AllOrdered
    <2>2. CASE p # q
      BY <2>1, <2>2, <1>12
    <2>3. CASE p = q
      <3>1. Ordered(SubSeq(s, k + 1, Len(s)), n - r, IF n = r THEN 0 ELSE l, LastOut(s, n, o, k))
        BY <1>5, <1>6, <1>7, OrderedPush
      <3> QED
        BY <2>3, <3>1, <1>7, <1>12
    <2> QED
      BY <2>2, <2>3
  <1>18. \A p \in Txqs : out'[p] <= nf' /\ \A i \in 1 .. Len(sk'[p]) : sk'[p][i] <= nf'
    <2> SUFFICES ASSUME NEW p \in Txqs
                 PROVE  out'[p] <= nf /\ \A i \in 1 .. Len(sk'[p]) : sk'[p][i] <= nf
      BY <1>3
    <2>1. CASE p = q
      BY <2>1, <1>5, <1>12, <1>14, <1>15
    <2>2. CASE p # q
      BY <2>2, <1>12 DEF OrderInv, Pushed
    <2> QED
      BY <2>1, <2>2
  <1>19. ASSUME NEW c \in fw'
         PROVE  /\ c[2] > 0 /\ c[2] <= out'[c[1]]
                /\ \A i \in 1 .. Len(sk'[c[1]]) : sk'[c[1]][i] # c[2]
    <2>1. CASE c \in fw
      <3>1. /\ c[1] \in Txqs /\ c[2] \in Nat /\ c[2] > 0 /\ c[2] <= out[c[1]]
            /\ \A i \in 1 .. Len(sk[c[1]]) : sk[c[1]][i] # c[2]
        BY <2>1 DEF Types, OrderInv, Pushed
      <3>2. CASE c[1] = q
        <4>1. c[2] <= o /\ o <= LastOut(s, n, o, k) /\ LastOut(s, n, o, k) \in Nat
          BY <3>1, <3>2, <1>4, <1>15
        <4>2. \A i \in 1 .. Len(t) : t[i] # c[2]
          BY <3>1, <3>2, <1>4, <1>14
        <4> QED
          BY <3>1, <3>2, <4>1, <4>2, <1>5, <1>12
      <3>3. CASE c[1] # q
        BY <3>1, <3>3, <1>12
      <3> QED
        BY <3>2, <3>3
    <2>2. CASE c \notin fw
      <3>1. PICK i \in 1 .. k : c = <<q, s[i]>>
        BY <2>2, <1>11
      <3> QED
        BY <3>1, <1>12, <1>15, <1>16
    <2> QED
      BY <2>1, <2>2
  <1>20. out' \in [Txqs -> Nat]
    BY <1>1, <1>11, <1>15 DEF OrderInv, Pushed
  <1> QED
    BY <1>17, <1>18, <1>19, <1>20 DEF OrderInv, Pushed

\* A queue that is not active is emptied.
LEMMA OrderEmptied ==
    ASSUME Types, OrderInv, NEW q \in Txqs, q \notin active, sk' = [sk EXCEPT ![q] = <<>>],
           UNCHANGED <<active, nb_retry, last_retry, out, nf, fw>>
    PROVE  OrderInv'
  <1>1. Len(<<>>) = 0
    BY EmptySeq
  <1>2. sk'[q] = <<>> /\ \A p \in Txqs : p # q => sk'[p] = sk[p]
    BY DEF Types
  <1>3. AllOrdered'
    BY <1>2 DEF Types, OrderInv, AllOrdered
  <1>4. Pushed'
    BY <1>1, <1>2, SMTT(30) DEF Types, OrderInv, Pushed
  <1> QED
    BY <1>3, <1>4 DEF OrderInv

LEMMA OrderStaInit ==
    ASSUME Types, OrderInv, StaInit
    PROVE  OrderInv'
  <1>1. Len(<<>>) = 0
    BY EmptySeq
  <1>2. /\ active' = Txqs /\ sk' = [q \in Txqs |-> <<>>]
        /\ nb_retry' = [q \in Txqs |-> 0] /\ last_retry' = [q \in Txqs |-> 0]
        /\ UNCHANGED <<out, nf, fw>>
    BY DEF StaInit
  <1>3. AllOrdered'
    BY <1>1, <1>2 DEF AllOrdered, Ordered
  <1>4. Pushed'
    BY <1>1, <1>2 DEF Types, OrderInv, Pushed
  <1> QED
    BY <1>3, <1>4 DEF OrderInv

\* Queues are deinitialised, frames are confirmed: less to be said.
LEMMA OrderLess ==
    ASSUME OrderInv, active' \subseteq active, fw' \subseteq fw,
           UNCHANGED <<sk, nb_retry, last_retry, out, nf>>
    PROVE  OrderInv'
  BY DEF OrderInv, AllOrdered, Pushed

LEMMA OrderStep ==
    ASSUME Base, OrderInv, [Next]_vars
    PROVE  OrderInv'
  <1> USE DEF orderVars, envVars, schedVars, queueVars, flowVars, psVars, lifeVars, histVars
  <1>1. ASSUME NEW s \in Senders, QueueSkb(s) PROVE OrderInv'
    BY <1>1, OrderQueueSkb DEF Base
  <1>2. ASSUME NEW s \in Senders, NEW q \in Txqs, Xmit(s, q) PROVE OrderInv'
    BY <1>2, OrderSame DEF Xmit
  <1>3. CASE WalkActive
    BY <1>3, OrderWalkActive DEF Base
  <1>4. CASE WalkInactive
    BY <1>4, OrderEmptied DEF WalkInactive, Base, Types
  <1>5. CASE WalkEnd \/ Task \/ Interrupt
    BY <1>5, OrderSame DEF WalkEnd, Task, Interrupt
  <1>6. ASSUME NEW on \in BOOLEAN, PsInd(on) PROVE OrderInv'
    BY <1>6, OrderSame DEF PsInd
  <1>7. ASSUME NEW n \in Requests, NEW i \in PsIds, TrafficReq(n, i) PROVE OrderInv'
    BY <1>7, OrderSame DEF TrafficReq
  <1>8. ASSUME NEW r, VifStop(r) PROVE OrderInv'
    BY <1>8, OrderSame DEF VifStop
  <1>9. ASSUME NEW r, NEW kick, VifStart(r, kick) PROVE OrderInv'
    BY <1>9, OrderSame DEF VifStart
  <1>10. ASSUME NEW b \in BOOLEAN, BusBusy(b) PROVE OrderInv'
    BY <1>10, OrderSame DEF BusBusy
  <1>11. CASE DelStation \/ AddStation \/ Added
    BY <1>11, OrderSame DEF DelStation, AddStation, Added
  <1>12. CASE Deinit
    BY <1>12, OrderLess DEF Deinit
  <1>13. CASE Flush
    <2>1. flushing \in Txqs /\ flushing \notin active
      BY <1>13 DEF Flush, Base, Types, Life
    <2> QED
      BY <1>13, <2>1, OrderEmptied DEF Flush, Base
  <1>14. CASE StaInit
    BY <1>14, OrderStaInit DEF Base
  <1>15. ASSUME NEW pm \in BOOLEAN, LinkStation(pm) PROVE OrderInv'
    BY <1>15, OrderSame DEF LinkStation
  <1>16. ASSUME NEW c \in fw, Confirm(c[1], c[2]) PROVE OrderInv'
    BY <1>16, OrderLess DEF Confirm
  <1>17. ASSUME NEW c \in fw, Retry(c[1], c[2]) PROVE OrderInv'
    <2>1. c = <<c[1], c[2]>>
      BY SMTT(30) DEF Base, Types
    <2> QED
      BY <1>17, <2>1, OrderRetry DEF Base
  <1>18. CASE ConfirmLink \/ \E q \in Txqs : CreditUpdate(q)
    BY <1>18, OrderSame DEF ConfirmLink, CreditUpdate
  <1>19. CASE UNCHANGED vars
    BY <1>19, OrderSame DEF vars
  <1> QED
    BY <1>1, <1>2, <1>3, <1>4, <1>5, <1>6, <1>7, <1>8, <1>9, <1>10, <1>11, <1>12, <1>13, <1>14, <1>15,
       <1>16, <1>17, <1>18, <1>19 DEF Next, VifBack, CsaEnd, CsaFinish

-----------------------------------------------------------------------------
(* Only queues that may transmit are scheduled                             *)

LEMMA StopInit == Init => StopInv
  <1> SUFFICES ASSUME Init PROVE StopInv
    OBVIOUS
  <1>1. Credits > 0 /\ Credits < CreditMax /\ 0 <= Credits
    BY Constants
  <1> QED
    BY <1>1 DEF Init, StopInv, Agree, Quiet

\* The variables that StopInv speaks of.
stopVars == <<events, vstop, active, stop, credits, limit, flagged, psOn, valid, add>>

LEMMA StopSame ==
    ASSUME StopInv, UNCHANGED stopVars
    PROVE  StopInv'
  <1>1. Agree'
    BY DEF StopInv, stopVars, Agree, Without
  <1>2. Quiet'
    BY DEF StopInv, stopVars, Quiet, Without
  <1> QED
    BY <1>1, <1>2 DEF StopInv

LEMMA StopQueueSkb ==
    ASSUME Base, StopInv, NEW s \in Senders, QueueSkb(s)
    PROVE  StopInv'
  <1>1. PICK q : q = sender[s]
    OBVIOUS
  <1>2. /\ q \in Txqs /\ flagged' \subseteq flagged \cup {q} /\ (stop[q] # {} => flagged' = flagged)
        /\ UNCHANGED <<events, vstop, active, stop, credits, limit, psOn, valid, add>>
    BY <1>1 DEF QueueSkb, AddToHwList, envVars, schedVars, lifeVars, Base, Types
  <1>3. Agree'
    BY <1>2 DEF StopInv, Agree, Without
  <1>4. Quiet'
    BY <1>2 DEF StopInv, Quiet, Without
  <1> QED
    BY <1>3, <1>4 DEF StopInv

LEMMA StopWalkActive ==
    ASSUME Base, StopInv, WalkActive
    PROVE  StopInv'
  <1>1. PICK q, k : q = walk.at /\ k = NPush(q)
    OBVIOUS
  <1>2. /\ q \in Txqs /\ q \in active /\ credits[q] > 0 /\ k \in Nat
        /\ credits[q] \in Int /\ limit[q] \in Nat /\ Len(sk[q]) \in Nat
    <2>1. q \in Txqs /\ q \in active /\ credits[q] > 0
      BY <1>1 DEF WalkActive, Base, Types
    <2>2. credits[q] \in Int /\ limit[q] \in Nat /\ Len(sk[q]) \in Nat
      BY <2>1, LenProperties DEF Base, Types
    <2> QED
      BY <2>1, <2>2, <1>1, PushFacts DEF Base
  <1>3. /\ flagged' = IF Done(q) THEN flagged \ {q} ELSE flagged
        /\ \E a \in BOOLEAN :
              limit' = [limit EXCEPT ![q] = IF a \/ ~(limit[q] > k) THEN 0 ELSE limit[q] - k]
        /\ UNCHANGED <<events, vstop, active, stop, credits, psOn, valid, add>>
    BY <1>1 DEF WalkActive, DelFromHwList, envVars, lifeVars, Base, Types
  <1>4. limit' \in [Txqs -> Nat] /\ \A p \in Txqs : limit'[p] <= limit[p] /\ (p # q => limit'[p] = limit[p])
    BY <1>2, <1>3 DEF Base, Types
  <1>5. Agree'
    BY <1>3 DEF StopInv, Agree, Without
  <1>6. Quiet'
    <2> SUFFICES ASSUME Without({"interrupt", "stop", "csa", "life", "wrap", "unlocked"}), NEW p \in Txqs
                 PROVE  /\ stop[p] \subseteq {"sta_ps"}
                        /\ credits[p] > 0 /\ credits[p] < CreditMax /\ limit'[p] <= credits[p]
                        /\ limit'[p] > 0 => psOn
                        /\ p \in flagged' /\ stop[p] # {} => limit'[p] > 0
      BY <1>3 DEF StopInv, Quiet, Without
    <2>1. /\ vstop = {} /\ stop[p] \subseteq {"sta_ps"}
          /\ credits[p] > 0 /\ credits[p] < CreditMax /\ limit[p] <= credits[p]
          /\ limit[p] > 0 => psOn
          /\ p \in flagged /\ stop[p] # {} => limit[p] > 0
          /\ limit[p] \in Nat /\ limit'[p] \in Nat /\ credits[p] \in Int
      BY <1>4 DEF StopInv, Quiet, Base, Types
    <2>2. limit'[p] <= limit[p] /\ (p # q => limit'[p] = limit[p])
      BY <1>4
    <2>3. limit'[p] <= credits[p] /\ (limit'[p] > 0 => psOn)
      BY <2>1, <2>2
    <2>4. CASE p # q
      BY <2>1, <2>2, <2>3, <2>4, <1>3
    <2>5. CASE p = q
      <3>1. limit[q] > 0 => Done(q)
        BY <2>1, <2>5, <1>2 DEF Done, GetCredits
      <3> QED
        BY <2>1, <2>3, <2>5, <3>1, <1>3
    <2> QED
      BY <2>4, <2>5
  <1> QED
    BY <1>5, <1>6 DEF StopInv

LEMMA StopWalkInactive ==
    ASSUME StopInv, WalkInactive
    PROVE  StopInv'
  <1>1. /\ flagged' \subseteq flagged
        /\ UNCHANGED <<events, vstop, active, stop, credits, limit, psOn, valid, add>>
    BY DEF WalkInactive, DelFromHwList, envVars, lifeVars, psVars
  <1>2. Agree'
    BY <1>1 DEF StopInv, Agree, Without
  <1>3. Quiet'
    BY <1>1 DEF StopInv, Quiet, Without
  <1> QED
    BY <1>2, <1>3 DEF StopInv

LEMMA StopPsEnable ==
    ASSUME Base, StopInv, PsEnable, UNCHANGED <<events, vstop, active, credits, valid>>, valid
    PROVE  StopInv'
  <1>1. /\ \A q \in active : stop'[q] = stop[q] \cup {"sta_ps"}
        /\ flagged' = flagged \ active /\ limit' = limit /\ psOn' = TRUE
    BY DEF PsEnable, StopQueues, DelFromHwList, Base, Types
  <1>2. Agree'
    BY <1>1 DEF StopInv, Agree, Without
  <1>3. Quiet'
    BY <1>1 DEF StopInv, Quiet, Without, Base, Life
  <1> QED
    BY <1>2, <1>3 DEF StopInv

LEMMA StopPsDisable ==
    ASSUME Base, StopInv, PsDisable, UNCHANGED <<events, vstop, active, credits, valid>>, valid
    PROVE  StopInv'
  <1>1. /\ \A q \in active : stop'[q] = stop[q] \ {"sta_ps"}
        /\ limit' = [q \in Txqs |-> 0] /\ psOn' = FALSE
    BY DEF PsDisable, StartQueues, Base, Types
  <1>2. Agree'
    BY <1>1 DEF StopInv, Agree, Without
  <1>3. Quiet'
    BY <1>1 DEF StopInv, Quiet, Without, Base, Life, Types
  <1> QED
    BY <1>2, <1>3 DEF StopInv

LEMMA StopPsInd ==
    ASSUME Base, StopInv, NEW on \in BOOLEAN, PsInd(on)
    PROVE  StopInv'
  <1>1. UNCHANGED <<events, vstop, active, credits, valid, add>>
    BY DEF PsInd, envVars, lifeVars
  <1>2. CASE valid /\ (IF on THEN PsEnable ELSE PsDisable)
    BY <1>1, <1>2, StopPsEnable, StopPsDisable
  <1>3. CASE ~valid /\ UNCHANGED <<stop, schedVars, limit, ready, sp, tim, task>>
    <2>1. Agree'
      BY <1>1, <1>3 DEF StopInv, Agree, Without
    <2>2. Quiet'
      BY <1>1, <1>3 DEF Base, Life, Quiet, Without
    <2> QED
      BY <2>1, <2>2 DEF StopInv
  <1> QED
    BY <1>2, <1>3 DEF PsInd

LEMMA StopInterrupt ==
    ASSUME StopInv, Interrupt
    PROVE  StopInv'
  <1>1. "interrupt" \in events /\ UNCHANGED <<events, vstop, active, stop, valid, add>>
    BY DEF Interrupt, envVars, lifeVars
  <1>2. Agree'
    BY <1>1 DEF StopInv, Agree, Without
  <1>3. Quiet'
    BY <1>1 DEF Quiet, Without
  <1> QED
    BY <1>2, <1>3 DEF StopInv

\* What a traffic request grants is covered by the credits and fits into push_limit.
LEMMA OfferFacts ==
    ASSUME Base, NEW q \in Txqs, NEW i, credits[q] > 0, credits[q] < CreditMax
    PROVE  /\ Offer(q, i) \in Int /\ Offer(q, i) <= credits[q]
           /\ \A n \in 1 .. Offer(q, i) : n % LimitWrap = n /\ n <= credits[q]
  <1>1. /\ credits[q] \in Nat /\ Len(sk[q]) \in Nat
        /\ credits[q] % Wrap = credits[q]
    <2>1. credits[q] \in Int /\ Len(sk[q]) \in Nat
      BY LenProperties DEF Base, Types
    <2> QED
      BY <2>1, Widths
  <1>2. Offer(q, i) \in Int /\ Offer(q, i) <= credits[q]
    BY <1>1 DEF Offer
  <1>3. ASSUME NEW n \in 1 .. Offer(q, i) PROVE n % LimitWrap = n /\ n <= credits[q]
    <2>1. n \in Nat /\ n <= credits[q] /\ n < CreditMax
      BY <1>1, <1>2, Constants
    <2> QED
      BY <2>1, Widths
  <1> QED
    BY <1>2, <1>3

LEMMA StopTrafficReq ==
    ASSUME Base, StopInv, NEW n \in Requests, NEW i \in PsIds, TrafficReq(n, i)
    PROVE  StopInv'
  <1>1. /\ psOn
        /\ UNCHANGED <<events, vstop, active, stop, credits, psOn, valid, add>>
    BY DEF TrafficReq, envVars, lifeVars
  <1>2. PICK S \in SUBSET Data :
           /\ flagged' = flagged \cup S
           /\ \A q \in Txqs : q \notin S => limit'[q] = limit[q]
           /\ \A q \in S : \E x \in 1 .. Offer(q, i) : limit'[q] = x % LimitWrap
    BY Constants DEF TrafficReq, AddToHwList
  <1>3. Agree'
    BY <1>1 DEF StopInv, Agree, Without
  <1>4. Quiet'
    <2> SUFFICES ASSUME Without({"interrupt", "stop", "csa", "life", "wrap", "unlocked"}), NEW p \in Txqs
                 PROVE  /\ limit'[p] <= credits[p]
                        /\ p \in flagged' /\ stop[p] # {} => limit'[p] > 0
      BY <1>1 DEF StopInv, Quiet, Without
    <2>1. /\ credits[p] > 0 /\ credits[p] < CreditMax /\ limit[p] <= credits[p]
          /\ p \in flagged /\ stop[p] # {} => limit[p] > 0
      BY DEF StopInv, Quiet
    <2>2. CASE p \notin S
      BY <2>1, <2>2, <1>2
    <2>3. CASE p \in S
      <3>1. PICK x \in 1 .. Offer(p, i) : limit'[p] = x % LimitWrap
        BY <2>3, <1>2
      <3>2. x > 0 /\ limit'[p] = x /\ x <= credits[p]
        BY <2>1, <3>1, OfferFacts
      <3> QED
        BY <3>2
    <2> QED
      BY <2>2, <2>3
  <1> QED
    BY <1>3, <1>4 DEF StopInv

LEMMA StopVifStop ==
    ASSUME Base, StopInv, NEW r \in VifReasons, VifStop(r)
    PROVE  StopInv'
  <1>1. /\ r \notin vstop /\ vstop' = vstop \cup {r} /\ Admitted
        /\ {"stop", "csa"} \cap events # {}
        /\ UNCHANGED <<events, active, valid, add>>
        /\ valid => \A q \in active : stop'[q] = stop[q] \cup {r}
    BY DEF VifStop, StopQueues, envVars, lifeVars, Base, Types
  <1>2. Agree'
    BY <1>1 DEF StopInv, Agree, Without, Admitted, Base, Life
  <1>3. Quiet'
    BY <1>1 DEF Quiet, Without
  <1> QED
    BY <1>2, <1>3 DEF StopInv

LEMMA StopVifStart ==
    ASSUME Base, StopInv, NEW r \in VifReasons, NEW kick, VifStart(r, kick)
    PROVE  StopInv'
  <1>1. /\ r \in vstop /\ vstop' = vstop \ {r} /\ Admitted
        /\ UNCHANGED <<events, active, valid, add>>
        /\ valid => \A q \in active : stop'[q] = stop[q] \ {r}
    BY DEF VifStart, StartQueues, envVars, lifeVars, Base, Types
  <1>2. Agree'
    BY <1>1 DEF StopInv, Agree, Without, Admitted, Base, Life
  <1>3. Quiet'
    BY <1>1 DEF StopInv, Quiet, Without
  <1> QED
    BY <1>2, <1>3 DEF StopInv

\* What stops the queues of a station that stays is unchanged, and no queue that is
\* stopped gets scheduled.
LEMMA StopLinked ==
    ASSUME StopInv, UNCHANGED <<events, vstop, active, stop, credits, limit, psOn, valid, add>>,
           \A q \in Txqs : q \in flagged' \ flagged => stop[q] = {} \/ limit[q] > 0
    PROVE  StopInv'
  <1>1. Agree'
    BY DEF StopInv, Agree, Without
  <1>2. Quiet'
    BY DEF StopInv, Quiet, Without
  <1> QED
    BY <1>1, <1>2 DEF StopInv

LEMMA StopDelStation ==
    ASSUME Base, StopInv, DelStation
    PROVE  StopInv'
  <1>1. "life" \in events /\ valid' = FALSE /\ add' = "none" /\ events' = events
    BY DEF DelStation, envVars
  <1> QED
    BY <1>1 DEF StopInv, Agree, Quiet, Without

LEMMA StopDeinit ==
    ASSUME Base, StopInv, Deinit
    PROVE  StopInv'
  <1>1. /\ active' \subseteq active /\ flagged' \subseteq flagged
        /\ UNCHANGED <<events, vstop, stop, credits, limit, psOn, valid, add>>
    BY DEF Deinit, DelFromHwList, envVars, queueVars, psVars
  <1>2. Agree'
    BY <1>1 DEF StopInv, Agree, Without
  <1>3. Quiet'
    BY <1>1 DEF StopInv, Quiet, Without
  <1> QED
    BY <1>2, <1>3 DEF StopInv

LEMMA StopAddStation ==
    ASSUME Base, StopInv, AddStation
    PROVE  StopInv'
  <1>1. /\ ~valid /\ add' = "asked"
        /\ UNCHANGED <<events, vstop, active, stop, credits, limit, flagged, psOn, valid>>
    BY DEF AddStation, envVars, schedVars, queueVars, psVars
  <1>2. Agree'
    BY <1>1 DEF Agree
  <1>3. Quiet'
    BY <1>1 DEF StopInv, Quiet, Without
  <1> QED
    BY <1>2, <1>3 DEF StopInv

LEMMA StopStaInit ==
    ASSUME Base, StopInv, StaInit
    PROVE  StopInv'
  <1>1. /\ add = "asked" /\ active' = Txqs /\ UNCHANGED <<events, vstop>>
        /\ stop' = [q \in Txqs |-> vstop \cap {"chan", "vif_ps"}]
    BY DEF StaInit, envVars, VifStatus
  <1>2. Agree'
    BY <1>1 DEF Agree
  <1>3. "life" \in events
    BY <1>1 DEF Base, Life
  <1>4. Quiet'
    BY <1>1, <1>3 DEF Quiet, Without
  <1> QED
    BY <1>2, <1>4 DEF StopInv

LEMMA StopLinkStation ==
    ASSUME Base, StopInv, NEW pm \in BOOLEAN, LinkStation(pm)
    PROVE  StopInv'
  <1>1. /\ add = "init" /\ UNCHANGED <<events, vstop, active, stop, credits, limit, flagged, psOn>>
    BY DEF LinkStation, envVars, schedVars, queueVars, psVars
  <1>2. Agree'
    BY <1>1 DEF StopInv, Agree, Without
  <1>3. Quiet'
    BY <1>1 DEF StopInv, Quiet, Without
  <1> QED
    BY <1>2, <1>3 DEF StopInv

LEMMA StopAdded ==
    ASSUME Base, StopInv, Added
    PROVE  StopInv'
  <1>1. /\ add \in {"on", "off"} /\ (PsEnable \/ PsDisable)
        /\ UNCHANGED <<events, vstop, active, credits, valid>>
    BY DEF Added, envVars
  <1>2. valid
    BY <1>1 DEF Base, Life
  <1> QED
    BY <1>1, <1>2, StopPsEnable, StopPsDisable

LEMMA StopConfirm ==
    ASSUME Base, StopInv, NEW q \in Txqs, NEW f, Confirm(q, f)
    PROVE  StopInv'
  <1>1. UNCHANGED <<events, vstop, active, stop, credits, limit, psOn, valid, add>>
    BY DEF Confirm, envVars, queueVars, psVars, lifeVars
  <1>2. \A p \in Txqs : p \in flagged' \ flagged => limit[p] > 0
    BY DEF Confirm, Link, AddToHwList
  <1> QED
    BY <1>1, <1>2, StopLinked

LEMMA StopRetry ==
    ASSUME Base, StopInv, NEW q \in Txqs, NEW f, Retry(q, f)
    PROVE  StopInv'
  <1>1. /\ UNCHANGED <<events, vstop, active, limit, psOn, valid, add>>
        /\ "wrap" \in events \/ credits[q] + 1 < CreditMax
        /\ credits' = [credits EXCEPT ![q] = MoreCredits(q)]
        /\ \A p \in Txqs : /\ stop'[p] \subseteq stop[p]
                           /\ stop[p] \subseteq stop'[p] \cup {"full"}
        /\ \A p \in Txqs : p \in flagged' \ flagged => stop'[p] = {}
    <2>1. /\ UNCHANGED <<events, vstop, active, limit, psOn, valid, add>>
          /\ "wrap" \in events \/ credits[q] + 1 < CreditMax
          /\ credits' = [credits EXCEPT ![q] = MoreCredits(q)]
      BY DEF Retry, envVars, lifeVars
    <2>2. stop' = stop \/ stop' = [stop EXCEPT ![q] = @ \ {"full"}]
      BY DEF Retry
    <2>3. \A p \in Txqs : stop'[p] \subseteq stop[p] /\ stop[p] \subseteq stop'[p] \cup {"full"}
      BY <2>2 DEF Base, Types
    <2>4. \A p \in Txqs : p \in flagged' \ flagged => stop'[p] = {}
      BY DEF Retry, Link, AddToHwList
    <2> QED
      BY <2>1, <2>3, <2>4
  <1>2. Agree'
    <2>1. active \subseteq Txqs /\ \A p \in Txqs : "chan" \in stop'[p] <=> "chan" \in stop[p]
      BY <1>1 DEF Base, Types
    <2> QED
      BY <1>1, <2>1 DEF StopInv, Agree, Without
  <1>3. Quiet'
    <2> SUFFICES ASSUME Without({"interrupt", "stop", "csa", "life", "wrap", "unlocked"}), NEW p \in Txqs
                 PROVE  /\ stop'[p] \subseteq {"sta_ps"}
                        /\ credits'[p] > 0 /\ credits'[p] < CreditMax /\ limit[p] <= credits'[p]
                        /\ p \in flagged' /\ stop'[p] # {} => limit[p] > 0
      BY <1>1 DEF StopInv, Quiet, Without
    <2>1. /\ stop[p] \subseteq {"sta_ps"}
          /\ credits[p] > 0 /\ credits[p] < CreditMax /\ limit[p] <= credits[p]
          /\ p \in flagged /\ stop[p] # {} => limit[p] > 0
          /\ credits[p] \in Int /\ limit[p] \in Nat /\ CreditMax \in Nat
      BY Constants DEF StopInv, Quiet, Base, Types
    <2>2. /\ stop'[p] \subseteq {"sta_ps"}
          /\ p \in flagged' /\ stop'[p] # {} => limit[p] > 0
      BY <2>1, <1>1
    <2>3. credits'[p] = credits[p] \/ (credits'[p] = credits[p] + 1 /\ credits[p] + 1 < CreditMax)
      BY <1>1 DEF MoreCredits, Without, Base, Types
    <2> QED
      BY <2>1, <2>2, <2>3
  <1> QED
    BY <1>2, <1>3 DEF StopInv

LEMMA StopConfirmLink ==
    ASSUME Base, StopInv, Locked, ConfirmLink
    PROVE  StopInv'
  <1>1. /\ "unlocked" \in events
        /\ UNCHANGED <<events, vstop, active, stop, credits, limit, psOn, valid, add>>
    BY DEF ConfirmLink, Locked, envVars, queueVars, psVars, lifeVars
  <1> QED
    BY <1>1 DEF StopInv, Agree, Quiet, Without

LEMMA StopCreditUpdate ==
    ASSUME Base, StopInv, NEW q \in Txqs, CreditUpdate(q)
    PROVE  StopInv'
  <1>1. /\ UNCHANGED <<events, vstop, active, credits, limit, psOn, valid, add>>
        /\ \A p \in Txqs : stop'[p] \ {"full"} = stop[p] \ {"full"}
        /\ credits[q] > 0 /\ "full" \notin stop[q] => UNCHANGED <<stop, flagged>>
    <2>1. UNCHANGED <<events, vstop, active, credits, limit, psOn, valid, add>>
      BY DEF CreditUpdate, envVars, queueVars, psVars, lifeVars
    <2>2. \/ stop' = stop
          \/ stop' = [stop EXCEPT ![q] = @ \ {"full"}] \/ stop' = [stop EXCEPT ![q] = @ \cup {"full"}]
      BY DEF CreditUpdate
    <2>3. \A p \in Txqs : stop'[p] \ {"full"} = stop[p] \ {"full"}
      BY <2>2 DEF Base, Types
    <2>4. credits[q] > 0 /\ "full" \notin stop[q] => UNCHANGED <<stop, flagged>>
      BY DEF CreditUpdate, schedVars, Base, Types
    <2> QED
      BY <2>1, <2>3, <2>4
  <1>2. Agree'
    <2>1. "chan" # "full"
      OBVIOUS
    <2>2. active \subseteq Txqs /\ \A p \in Txqs : "chan" \in stop'[p] <=> "chan" \in stop[p]
      BY <1>1, <2>1 DEF Base, Types
    <2> QED
      BY <1>1, <2>2 DEF StopInv, Agree, Without
  <1>3. Quiet'
    BY <1>1 DEF StopInv, Quiet, Without
  <1> QED
    BY <1>2, <1>3 DEF StopInv

LEMMA StopStep ==
    ASSUME Base, StopInv, Locked, [Next]_vars
    PROVE  StopInv'
  <1> USE DEF stopVars, envVars, schedVars, queueVars, flowVars, psVars, lifeVars, histVars
  <1>1. ASSUME NEW s \in Senders, QueueSkb(s) PROVE StopInv'
    BY <1>1, StopQueueSkb
  <1>2. ASSUME NEW s \in Senders, NEW q \in Txqs, Xmit(s, q) PROVE StopInv'
    BY <1>2, StopSame DEF Xmit
  <1>3. CASE WalkActive
    BY <1>3, StopWalkActive
  <1>4. CASE WalkInactive
    BY <1>4, StopWalkInactive
  <1>5. CASE WalkEnd \/ Task
    BY <1>5, StopSame DEF WalkEnd, Task
  <1>6. CASE Interrupt
    BY <1>6, StopInterrupt
  <1>7. ASSUME NEW on \in BOOLEAN, PsInd(on) PROVE StopInv'
    BY <1>7, StopPsInd
  <1>8. ASSUME NEW n \in Requests, NEW i \in PsIds, TrafficReq(n, i) PROVE StopInv'
    BY <1>8, StopTrafficReq
  <1>9. ASSUME NEW r \in VifReasons, VifStop(r) PROVE StopInv'
    BY <1>9, StopVifStop
  <1>10. ASSUME NEW r \in VifReasons, NEW kick, VifStart(r, kick) PROVE StopInv'
    BY <1>10, StopVifStart
  <1>11. ASSUME NEW b \in BOOLEAN, BusBusy(b) PROVE StopInv'
    BY <1>11, StopSame DEF BusBusy
  <1>12. CASE DelStation
    BY <1>12, StopDelStation
  <1>13. CASE Deinit
    BY <1>13, StopDeinit
  <1>14. CASE Flush
    BY <1>14, StopSame DEF Flush
  <1>15. CASE AddStation
    BY <1>15, StopAddStation
  <1>16. CASE StaInit
    BY <1>16, StopStaInit
  <1>17. CASE Added
    BY <1>17, StopAdded
  <1>18. ASSUME NEW pm \in BOOLEAN, LinkStation(pm) PROVE StopInv'
    BY <1>18, StopLinkStation
  <1>19. ASSUME NEW c \in fw, Confirm(c[1], c[2]) \/ Retry(c[1], c[2]) PROVE StopInv'
    <2>1. c[1] \in Txqs
      BY DEF Base, Types
    <2> QED
      BY <1>19, <2>1, StopConfirm, StopRetry
  <1>20. CASE ConfirmLink
    BY <1>20, StopConfirmLink
  <1>21. ASSUME NEW q \in Txqs, CreditUpdate(q) PROVE StopInv'
    BY <1>21, StopCreditUpdate
  <1>22. CASE UNCHANGED vars
    BY <1>22, StopSame DEF vars
  <1>23. "csa" \in VifReasons /\ "chan" \in VifReasons
    BY DEF VifReasons
  <1> QED
    BY <1>1, <1>2, <1>3, <1>4, <1>5, <1>6, <1>7, <1>8, <1>9, <1>10, <1>11, <1>12, <1>13, <1>14, <1>15,
       <1>16, <1>17, <1>18, <1>19, <1>20, <1>21, <1>22, <1>23 DEF Next, VifBack, CsaEnd, CsaFinish

LEMMA LockedStep ==
    ASSUME Locked, [Next]_vars
    PROVE  Locked'
  <1>1. events' = events /\ ("unlocked" \notin events /\ cfm = NoQ => cfm' = NoQ)
    BY ZenonT(40) DEF Next, vars, envVars, QueueSkb, Xmit, WalkActive, WalkInactive, WalkEnd, Task, PsInd, PushPs,
           Interrupt, TrafficReq, VifStop, VifBack, CsaEnd, CsaFinish, VifStart, BusBusy, DelStation,
           Deinit, Flush, AddStation, StaInit, Added, LinkStation, Confirm, Retry, Link, ConfirmLink,
           CreditUpdate
  <1> QED
    BY <1>1 DEF Locked

-----------------------------------------------------------------------------
\* What the service of the queues and the order of their frames rest on, in every step of
\* the code.
THEOREM Invariant == Spec => []IInv
  <1>1. Init => IInv
    BY BaseInit, OrderInit, StopInit DEF IInv, OrderInv, Init, Locked
  <1>2. IInv /\ [Next]_vars => IInv'
    BY BaseStep, OrderStep, StopStep, LockedStep DEF IInv, OrderInv
  <1> QED
    BY <1>1, <1>2, PTL DEF Spec

\* The queues that may transmit are served, and no others: rwnx_txq_start,
\* rwnx_txq_stop, rwnx_txq_queue_skb, rwnx_ps_bh_enable, rwnx_ps_bh_traffic_req and
\* rwnx_hwq_process together, in any order of their callers.
THEOREM ServedTheorem == Spec => []ServedRightly
  <1>1. ASSUME IInv PROVE ServedRightly
    <2>1. NoStranded /\ ClosedIsKept
      BY <1>1 DEF IInv, Base, NoneForgotten
    <2>2. ListedAllowed
      BY <1>1 DEF IInv, Base, Types, StopInv, Quiet, ListedAllowed, Without
    <2>3. StopsAgree
      BY <1>1 DEF IInv, StopInv, Agree, StopsAgree, Steady, Without
    <2> QED
      BY <2>1, <2>2, <2>3 DEF ServedRightly
  <1> QED
    BY <1>1, Invariant, PTL

\* The frames of a queue leave in the order in which they were queued, those sent again
\* first, and nb_retry and last_retry_skb describe them: the WARN of rwnx_tx_push never
\* comes.
THEOREM FramesInOrder == Spec => []InOrder
  <1>1. IInv => InOrder
    <2> SUFFICES ASSUME IInv, NEW q \in active PROVE
                   /\ nb_retry[q] <= Len(sk[q])
                   /\ last_retry[q] = IF nb_retry[q] = 0 THEN 0 ELSE sk[q][nb_retry[q]]
                   /\ \A i \in DOMAIN sk[q] : (i > nb_retry[q]) <=> (sk[q][i] > out[q])
                   /\ \A i, j \in DOMAIN sk[q] : nb_retry[q] < i /\ i < j => sk[q][i] < sk[q][j]
      BY DEF InOrder
    <2>1. DOMAIN sk[q] = 1 .. Len(sk[q])
      BY LenProperties DEF IInv, Base, Types
    <2>2. Ordered(sk[q], nb_retry[q], last_retry[q], out[q])
      BY DEF IInv, AllOrdered
    <2> QED
      BY <2>1, <2>2 DEF Ordered
  <1> QED
    BY <1>1, Invariant, PTL

-----------------------------------------------------------------------------
(* Loops along the queues                                                  *)

\* Induction over the members of a set.
LEMMA SetInduction ==
    ASSUME NEW S, 0 \in S, \A n \in Nat : n \in S => n + 1 \in S
    PROVE  \A n \in Nat : n \in S
  <1> SUFFICES ASSUME NEW m \in Nat, m \notin S PROVE FALSE
    OBVIOUS
  <1> DEFINE T == {n \in Nat : n \notin S}
  <1>1. PICK R : R = OpToRel(<, Nat)
    OBVIOUS
  <1>2. IsWellFoundedOn(R, Nat)
    BY <1>1, NatLessThanWellFounded
  <1>3. T \subseteq Nat /\ T # {}
    OBVIOUS
  <1>4. PICK x \in T : \A y \in T : <<y, x>> \notin R
    BY <1>2, <1>3, WFMin
  <1>5. \A y \in T : ~(y < x)
    BY <1>1, <1>4 DEF OpToRel
  <1>6. x # 0 /\ x - 1 \in Nat /\ x - 1 < x /\ (x - 1) + 1 = x
    BY <1>4
  <1>7. x - 1 \in S
    BY <1>5, <1>6
  <1> QED
    BY <1>4, <1>6, <1>7

\* g is the sum of f over the first members of s, up to the k-th.
IsSum(g, s, f, k) == g = [m \in 0 .. k |-> IF m = 0 THEN 0 ELSE g[m - 1] + f[s[m]]]

LEMMA SumExists ==
    ASSUME NEW s, NEW f
    PROVE  \A k \in Nat : \E g : IsSum(g, s, f, k)
  <1> DEFINE S == {k \in Nat : \E g : IsSum(g, s, f, k)}
  <1>1. 0 \in S
    <2> DEFINE g == [m \in 0 .. 0 |-> 0]
    <2>1. IsSum(g, s, f, 0)
      BY DEF IsSum
    <2> QED
      BY <2>1
  <1>2. ASSUME NEW k \in Nat, k \in S PROVE k + 1 \in S
    <2>1. PICK g : IsSum(g, s, f, k)
      BY <1>2
    <2> DEFINE e == [m \in 0 .. k + 1 |-> IF m <= k THEN g[m] ELSE g[k] + f[s[k + 1]]]
               E(m) == IF m = 0 THEN 0 ELSE e[m - 1] + f[s[m]]
               G(m) == IF m = 0 THEN 0 ELSE g[m - 1] + f[s[m]]
    <2>2. \A m \in 0 .. k : g[m] = G(m)
      BY <2>1, Zenon DEF IsSum
    <2>3. \A m \in 0 .. k : e[m] = g[m]
      OBVIOUS
    <2>4. e[k + 1] = g[k] + f[s[k + 1]]
      BY k + 1 \in 0 .. k + 1 /\ ~(k + 1 <= k)
    <2>5. e = [m \in 0 .. k + 1 |-> e[m]]
      OBVIOUS
    <2> HIDE DEF e
    <2>6. ASSUME NEW m \in 0 .. k + 1 PROVE e[m] = E(m)
      <3>1. CASE m = 0
        BY <2>2, <2>3, <3>1
      <3>2. CASE m \in 1 .. k
        <4>1. m \in 0 .. k /\ m - 1 \in 0 .. k /\ m # 0
          BY <3>2
        <4>2. e[m] = g[m] /\ e[m - 1] = g[m - 1]
          BY <4>1, <2>3
        <4> QED
          BY <4>1, <4>2, <2>2, Zenon
      <3>3. CASE m = k + 1
        <4>1. m # 0 /\ m - 1 = k /\ k \in 0 .. k
          BY <3>3
        <4>2. e[m - 1] = g[k]
          BY <4>1, <2>3, Zenon
        <4> QED
          BY <4>1, <4>2, <2>4, <3>3, Zenon
      <3> QED
        BY <3>1, <3>2, <3>3
    <2>7. e = [m \in 0 .. k + 1 |-> E(m)]
      BY <2>5, <2>6, Zenon
    <2>8. IsSum(e, s, f, k + 1)
      BY <2>7, Zenon DEF IsSum
    <2> QED
      BY <2>8
  <1>3. \A k \in Nat : k \in S
    <2> HIDE DEF S
    <2> QED
      BY <1>1, <1>2, SetInduction
  <1> QED
    BY <1>3

\* The sum begins with 0 and takes in one queue after the other.
LEMMA SumIs ==
    ASSUME NEW s, NEW f, Len(s) \in Nat
    PROVE  /\ SumOver(s, f, 0) = 0
           /\ \A m \in 1 .. Len(s) : SumOver(s, f, m) = SumOver(s, f, m - 1) + f[s[m]]
  <1> DEFINE g == CHOOSE g : IsSum(g, s, f, Len(s))
             G(m) == IF m = 0 THEN 0 ELSE g[m - 1] + f[s[m]]
  <1>1. \A n : SumOver(s, f, n) = g[n]
    BY Zenon DEF SumOver, IsSum
  <1>2. IsSum(g, s, f, Len(s))
    BY SumExists, Zenon
  <1> HIDE DEF g
  <1>3. g = [m \in 0 .. Len(s) |-> G(m)]
    BY <1>2, Zenon DEF IsSum
  <1>4. \A m \in 0 .. Len(s) : g[m] = G(m)
    BY <1>3, Zenon
  <1>5. 0 \in 0 .. Len(s) /\ \A m \in 1 .. Len(s) : m \in 0 .. Len(s) /\ m # 0
    OBVIOUS
  <1> QED
    BY <1>1, <1>4, <1>5, Zenon

\* Sums of natural numbers: their type, and that they are 0 only if all are.
LEMMA SumNat ==
    ASSUME NEW s, NEW f, Len(s) \in Nat, \A m \in 1 .. Len(s) : f[s[m]] \in Nat
    PROVE  \A n \in 0 .. Len(s) :
              /\ SumOver(s, f, n) \in Nat
              /\ SumOver(s, f, n) = 0 => \A m \in 1 .. n : f[s[m]] = 0
  <1> DEFINE P(n) == /\ SumOver(s, f, n) \in Nat
                     /\ SumOver(s, f, n) = 0 => \A m \in 1 .. n : f[s[m]] = 0
             S == {n \in Nat : n <= Len(s) => P(n)}
  <1>1. 0 \in S
    BY SumIs
  <1>2. ASSUME NEW n \in Nat, n \in S PROVE n + 1 \in S
    <2> SUFFICES ASSUME n + 1 <= Len(s) PROVE P(n + 1)
      OBVIOUS
    <2>1. n + 1 \in 1 .. Len(s) /\ (n + 1) - 1 = n /\ P(n)
      BY <1>2
    <2>2. SumOver(s, f, n + 1) = SumOver(s, f, n) + f[s[n + 1]] /\ f[s[n + 1]] \in Nat
      BY <2>1, SumIs
    <2>3. SumOver(s, f, n + 1) \in Nat
      BY <2>1, <2>2
    <2>4. ASSUME SumOver(s, f, n + 1) = 0, NEW m \in 1 .. n + 1 PROVE f[s[m]] = 0
      <3>1. SumOver(s, f, n) = 0 /\ f[s[n + 1]] = 0
        BY <2>1, <2>2, <2>4
      <3>2. m \in 1 .. n \/ m = n + 1
        BY <2>4
      <3> QED
        BY <2>1, <3>1, <3>2
    <2> QED
      BY <2>3, <2>4
  <1>3. \A n \in Nat : n \in S
    <2> HIDE DEF S
    <2> QED
      BY <1>1, <1>2, SetInduction
  <1> QED
    BY <1>3

\* A sum of numbers below b.
LEMMA SumBound ==
    ASSUME NEW s, NEW f, Len(s) \in Nat, NEW b \in Nat,
           \A m \in 1 .. Len(s) : f[s[m]] \in Nat /\ f[s[m]] < b
    PROVE  \A n \in 1 .. Len(s) : SumOver(s, f, n) < n * b
  <1> DEFINE S == {n \in Nat : n + 1 <= Len(s) => SumOver(s, f, n + 1) < (n + 1) * b}
  <1>0. \A n \in 0 .. Len(s) : SumOver(s, f, n) \in Nat
    BY SumNat
  <1>1. 0 \in S
    <2> SUFFICES ASSUME 0 + 1 <= Len(s) PROVE SumOver(s, f, 1) < 1 * b
      OBVIOUS
    <2>1. SumOver(s, f, 1) = SumOver(s, f, 1 - 1) + f[s[1]] /\ f[s[1]] \in Nat /\ f[s[1]] < b
      BY SumIs
    <2>2. 1 - 1 = 0 /\ SumOver(s, f, 0) = 0
      BY SumIs
    <2> QED
      BY <2>1, <2>2
  <1>2. ASSUME NEW n \in Nat, n \in S PROVE n + 1 \in S
    <2> SUFFICES ASSUME (n + 1) + 1 <= Len(s) PROVE SumOver(s, f, (n + 1) + 1) < ((n + 1) + 1) * b
      OBVIOUS
    <2>1. PICK k \in Nat : k = n + 1
      OBVIOUS
    <2>2. k + 1 \in 1 .. Len(s) /\ (k + 1) - 1 = k /\ k \in 0 .. Len(s) /\ SumOver(s, f, k) < k * b
      BY <1>2, <2>1
    <2>3. /\ SumOver(s, f, k + 1) = SumOver(s, f, k) + f[s[k + 1]]
          /\ f[s[k + 1]] \in Nat /\ f[s[k + 1]] < b /\ SumOver(s, f, k) \in Nat
      BY <2>2, <1>0, SumIs
    <2>4. (k + 1) * b = k * b + b /\ k * b \in Nat
      OBVIOUS
    <2>5. PICK x \in Nat : x = k * b
      BY <2>4
    <2>6. SumOver(s, f, k + 1) < x + b
      BY <2>2, <2>3, <2>5
    <2> QED
      BY <2>1, <2>4, <2>5, <2>6
  <1>3. \A n \in Nat : n \in S
    <2> HIDE DEF S
    <2> QED
      BY <1>1, <1>2, SetInduction
  <1>4. ASSUME NEW n \in 1 .. Len(s) PROVE SumOver(s, f, n) < n * b
    <2>1. n - 1 \in Nat /\ (n - 1) + 1 = n /\ n <= Len(s)
      BY <1>4
    <2>2. n - 1 \in S
      BY <1>3, <2>1
    <2>3. SumOver(s, f, (n - 1) + 1) < ((n - 1) + 1) * b
      BY <2>1, <2>2
    <2> QED
      BY <2>1, <2>3
  <1> QED
    BY <1>4

\* Equal summands have equal sums.
LEMMA SumSame ==
    ASSUME NEW s, NEW f, NEW g, Len(s) \in Nat, \A m \in 1 .. Len(s) : f[s[m]] = g[s[m]]
    PROVE  \A n \in 0 .. Len(s) : SumOver(s, f, n) = SumOver(s, g, n)
  <1> DEFINE S == {n \in Nat : n <= Len(s) => SumOver(s, f, n) = SumOver(s, g, n)}
  <1>1. 0 \in S
    BY SumIs
  <1>2. ASSUME NEW n \in Nat, n \in S PROVE n + 1 \in S
    <2> SUFFICES ASSUME n + 1 <= Len(s) PROVE SumOver(s, f, n + 1) = SumOver(s, g, n + 1)
      OBVIOUS
    <2>1. n + 1 \in 1 .. Len(s) /\ (n + 1) - 1 = n /\ SumOver(s, f, n) = SumOver(s, g, n)
      BY <1>2
    <2>2. SumOver(s, f, n + 1) = SumOver(s, f, n) + f[s[n + 1]]
      BY <2>1, SumIs
    <2>3. SumOver(s, g, n + 1) = SumOver(s, g, n) + g[s[n + 1]]
      BY <2>1, SumIs
    <2> QED
      BY <2>1, <2>2, <2>3
  <1>3. \A n \in Nat : n \in S
    <2> HIDE DEF S
    <2> QED
      BY <1>1, <1>2, SetInduction
  <1> QED
    BY <1>3

\* f and g differ at most in the p-th queue of s.
DifferAt(s, f, g, p) ==
    /\ Len(s) \in Nat /\ p \in 1 .. Len(s)
    /\ \A m \in 1 .. Len(s) : f[s[m]] \in Int /\ g[s[m]] \in Int
    /\ \A m \in 1 .. Len(s) : m # p => f[s[m]] = g[s[m]]
    /\ \A n \in 0 .. Len(s) : SumOver(s, f, n) \in Int

LEMMA SumChanges ==
    ASSUME NEW s, NEW f, NEW g, NEW p, DifferAt(s, f, g, p)
    PROVE  SumOver(s, g, Len(s)) = SumOver(s, f, Len(s)) + (g[s[p]] - f[s[p]])
  <1> DEFINE d(n) == IF n < p THEN 0 ELSE g[s[p]] - f[s[p]]
             S == {n \in Nat : n <= Len(s) => SumOver(s, g, n) = SumOver(s, f, n) + d(n)}
  <1> USE DEF DifferAt
  <1>1. 0 \in S
    BY SumIs
  <1>2. ASSUME NEW n \in Nat, n \in S PROVE n + 1 \in S
    <2> SUFFICES ASSUME n + 1 <= Len(s) PROVE SumOver(s, g, n + 1) = SumOver(s, f, n + 1) + d(n + 1)
      OBVIOUS
    <2>1. n + 1 \in 1 .. Len(s) /\ (n + 1) - 1 = n /\ n \in 0 .. Len(s)
          /\ SumOver(s, g, n) = SumOver(s, f, n) + d(n)
      BY <1>2
    <2>2. SumOver(s, f, n + 1) = SumOver(s, f, n) + f[s[n + 1]]
      BY <2>1, SumIs
    <2>3. SumOver(s, g, n + 1) = SumOver(s, g, n) + g[s[n + 1]]
      BY <2>1, SumIs
    <2>4. SumOver(s, f, n) \in Int /\ f[s[n + 1]] \in Int /\ g[s[n + 1]] \in Int
      BY <2>1
    <2>5. CASE n + 1 = p
      BY <2>1, <2>2, <2>3, <2>4, <2>5
    <2>6. CASE n + 1 # p
      <3>1. f[s[n + 1]] = g[s[n + 1]]
        BY <2>1, <2>6
      <3>2. d(n) = d(n + 1) /\ d(n) \in Int
        BY <2>6
      <3> HIDE DEF d
      <3> QED
        BY <2>1, <2>2, <2>3, <2>4, <3>1, <3>2
    <2> QED
      BY <2>5, <2>6
  <1>3. \A n \in Nat : n \in S
    <2> HIDE DEF S
    <2> QED
      BY <1>1, <1>2, SetInduction
  <1>4. d(Len(s)) = g[s[p]] - f[s[p]]
    OBVIOUS
  <1> HIDE DEF d
  <1> QED
    BY <1>3, <1>4

\* The queues in TID order are the station's queues, each once.
LEMMA TidFacts ==
    /\ Len(Tids) \in Nat
    /\ \A m \in 1 .. Len(Tids) : Tids[m] \in Txqs
    /\ \A q \in Txqs : \E m \in 1 .. Len(Tids) : Tids[m] = q
    /\ \A m, n \in 1 .. Len(Tids) : Tids[m] = Tids[n] => m = n
  <1>1. Tids \in Seq(Txqs) /\ IsInjective(Tids)
    BY QueuesAssumption
  <1>2. Len(Tids) \in Nat /\ DOMAIN Tids = 1 .. Len(Tids)
    BY <1>1, LenProperties
  <1> QED
    BY <1>1, <1>2 DEF Txqs, ToSet, IsInjective

LEMMA PrioFacts ==
    /\ Len(Prio) \in Nat
    /\ \A m \in 1 .. Len(Prio) : Prio[m] \in Data
    /\ \A q \in Data : \E m \in 1 .. Len(Prio) : Prio[m] = q
    /\ DOMAIN Prio = 1 .. Len(Prio)
  <1>1. Prio \in Seq(Data)
    BY QueuesAssumption
  <1>2. Len(Prio) \in Nat /\ DOMAIN Prio = 1 .. Len(Prio)
    BY <1>1, LenProperties
  <1> QED
    BY <1>1, <1>2 DEF Data, ToSet

\* What Total adds up.
Part(f, i) == [q \in Txqs |-> IF ps_id[q] = i THEN f[q] ELSE 0]

LEMMA TotalNat ==
    ASSUME NEW f, \A q \in Txqs : f[q] \in Nat, NEW i
    PROVE  /\ Total(f, i) \in Nat
           /\ Total(f, i) = 0 => \A q \in Txqs : ps_id[q] = i => f[q] = 0
  <1>1. \A m \in 1 .. Len(Tids) : Part(f, i)[Tids[m]] \in Nat
    BY TidFacts DEF Part
  <1>2. Len(Tids) \in Nat /\ Len(Tids) \in 0 .. Len(Tids)
    BY TidFacts
  <1>3. /\ SumOver(Tids, Part(f, i), Len(Tids)) \in Nat
        /\ SumOver(Tids, Part(f, i), Len(Tids)) = 0 => \A m \in 1 .. Len(Tids) : Part(f, i)[Tids[m]] = 0
    BY <1>1, <1>2, SumNat
  <1>4. Total(f, i) = SumOver(Tids, Part(f, i), Len(Tids))
    BY DEF Total, Part
  <1>5. ASSUME Total(f, i) = 0, NEW q \in Txqs, ps_id[q] = i PROVE f[q] = 0
    <2>1. PICK m \in 1 .. Len(Tids) : Tids[m] = q
      BY TidFacts
    <2>2. Part(f, i)[q] = 0
      BY <1>3, <1>4, <1>5, <2>1
    <2> QED
      BY <1>5, <2>2 DEF Part
  <1> QED
    BY <1>3, <1>4, <1>5

LEMMA TotalSame ==
    ASSUME NEW f, NEW g, NEW i, \A q \in Txqs : ps_id[q] = i => f[q] = g[q]
    PROVE  Total(f, i) = Total(g, i)
  <1>1. Part(f, i) = Part(g, i)
    BY DEF Part
  <1> QED
    BY <1>1 DEF Total, Part

\* The summand of one queue changes.
LEMMA TotalChanges ==
    ASSUME NEW f, NEW g, NEW q \in Txqs, NEW i,
           \A p \in Txqs : f[p] \in Nat /\ g[p] \in Nat,
           \A p \in Txqs : p # q => g[p] = f[p]
    PROVE  Total(g, i) = Total(f, i) + (IF ps_id[q] = i THEN g[q] - f[q] ELSE 0)
  <1>0. PICK F, G : F = Part(f, i) /\ G = Part(g, i)
    OBVIOUS
  <1>1. PICK m \in 1 .. Len(Tids) : Tids[m] = q
    BY TidFacts
  <1>2. \A n \in 1 .. Len(Tids) : F[Tids[n]] \in Nat /\ G[Tids[n]] \in Nat
    BY <1>0, TidFacts DEF Part
  <1>3. \A n \in 1 .. Len(Tids) : n # m => F[Tids[n]] = G[Tids[n]]
    BY <1>0, <1>1, TidFacts DEF Part
  <1>4. F[q] = (IF ps_id[q] = i THEN f[q] ELSE 0) /\ G[q] = (IF ps_id[q] = i THEN g[q] ELSE 0)
    BY <1>0 DEF Part
  <1>5. Total(f, i) = SumOver(Tids, F, Len(Tids)) /\ Total(g, i) = SumOver(Tids, G, Len(Tids))
    BY <1>0 DEF Total, Part
  <1>6. Len(Tids) \in Nat
    BY TidFacts
  <1>7. \A n \in 0 .. Len(Tids) : SumOver(Tids, F, n) \in Int
    <2>1. \A n \in 0 .. Len(Tids) : SumOver(Tids, F, n) \in Nat
      BY <1>2, <1>6, SumNat
    <2> QED
      BY <2>1
  <1>8. \A n \in 1 .. Len(Tids) : F[Tids[n]] \in Int /\ G[Tids[n]] \in Int
    BY <1>2
  <1>9. SumOver(Tids, G, Len(Tids)) = SumOver(Tids, F, Len(Tids)) + (G[Tids[m]] - F[Tids[m]])
    <2>1. DifferAt(Tids, F, G, m)
      BY <1>1, <1>3, <1>6, <1>7, <1>8 DEF DifferAt
    <2> QED
      BY <2>1, SumChanges, SMT
  <1>10. G[q] - F[q] = (IF ps_id[q] = i THEN g[q] - f[q] ELSE 0)
    BY <1>4
  <1> QED
    BY <1>1, <1>5, <1>9, <1>10

\* A sum of push limits fits into sp_cnt.
LEMMA TotalFits ==
    ASSUME NEW f, NEW i, \A q \in Txqs : f[q] \in 0 .. LimitWrap - 1
    PROVE  Total(f, i) \in 0 .. Wrap - 1
  <1>1. LimitWrap \in Nat \ {0} /\ Wrap \in Nat \ {0} /\ Len(Tids) * LimitWrap <= Wrap
    BY NumbersAssumption
  <1>2. Total(f, i) = SumOver(Tids, Part(f, i), Len(Tids))
    BY DEF Total, Part
  <1>3. \A m \in 1 .. Len(Tids) : Part(f, i)[Tids[m]] \in Nat /\ Part(f, i)[Tids[m]] < LimitWrap
    BY <1>1, TidFacts DEF Part
  <1>4. Len(Tids) \in Nat
    BY TidFacts
  <1>5. Total(f, i) \in Nat
    BY <1>1, TotalNat
  <1>6. CASE Len(Tids) = 0
    BY <1>1, <1>2, <1>6, SumIs
  <1>7. CASE Len(Tids) # 0
    <2>1. Len(Tids) \in 1 .. Len(Tids)
      BY <1>4, <1>7
    <2>2. SumOver(Tids, Part(f, i), Len(Tids)) < Len(Tids) * LimitWrap
      BY <1>1, <1>3, <1>4, <2>1, SumBound
    <2>3. Len(Tids) * LimitWrap \in Nat
      BY <1>1, <1>4
    <2> QED
      BY <1>1, <1>2, <1>5, <2>2, <2>3
  <1> QED
    BY <1>6, <1>7

\* The remainder of a division by a product steps by one and wraps.
LEMMA ModStepOfProduct ==
    ASSUME NEW m \in Nat, m >= 1, NEW h \in Nat, NEW k \in Nat, m = k * h
    PROVE  \A n \in Int : (n + 1) % m = IF n % m = m - 1 THEN 0 ELSE (n % m) + 1
  BY SMTT(60)

\* The remainder steps by one and wraps.
LEMMA ModStep ==
    ASSUME NEW w \in Nat \ {0}
    PROVE  /\ \A n \in Int : n % w \in 0 .. w - 1
           /\ \A n \in Int : (n + 1) % w = IF n % w = w - 1 THEN 0 ELSE (n % w) + 1
           /\ \A n \in 0 .. w - 1 : n % w = n
  <1>1. \A n \in Int : n % w \in 0 .. w - 1
    OBVIOUS
  <1>2. \A n \in Int : (n + 1) % w = IF n % w = w - 1 THEN 0 ELSE (n % w) + 1
    <2>1. w \in Nat /\ w >= 1 /\ 1 \in Nat /\ w = 1 * w
      OBVIOUS
    <2> QED
      BY <2>1, ModStepOfProduct, Zenon
  <1>3. \A n \in 0 .. w - 1 : n % w = n
    BY SMTT(60)
  <1> QED
    BY <1>1, <1>2, <1>3

\* Numbers with the same remainder have successors and predecessors with the same.
LEMMA ModNext ==
    ASSUME NEW w \in Nat \ {0}, NEW a \in Int, NEW b \in Int, a % w = b % w
    PROVE  (a + 1) % w = (b + 1) % w /\ (a - 1) % w = (b - 1) % w
  <1>1. PICK c \in Int, d \in Int : c = a - 1 /\ d = b - 1 /\ c + 1 = a /\ d + 1 = b
    OBVIOUS
  <1>2. /\ (a + 1) % w = IF a % w = w - 1 THEN 0 ELSE (a % w) + 1
        /\ (b + 1) % w = IF b % w = w - 1 THEN 0 ELSE (b % w) + 1
    BY ModStep, Zenon
  <1>3. /\ (c + 1) % w = IF c % w = w - 1 THEN 0 ELSE (c % w) + 1
        /\ (d + 1) % w = IF d % w = w - 1 THEN 0 ELSE (d % w) + 1
        /\ c % w \in 0 .. w - 1 /\ d % w \in 0 .. w - 1
    BY ModStep, Zenon
  <1>4. c % w = d % w
    BY <1>1, <1>3
  <1> QED
    BY <1>1, <1>2, <1>4

\* Counting on modulo w.
LEMMA ModPlus ==
    ASSUME NEW w \in Nat \ {0}, NEW a \in Int, NEW k \in Int
    PROVE  ((a % w) + k) % w = (a + k) % w
  <1> DEFINE b == a % w
             S == {n \in Nat : (b + n) % w = (a + n) % w /\ (b - n) % w = (a - n) % w}
  <1>0. b \in 0 .. w - 1 /\ b \in Int /\ b % w = b
    <2>1. b \in 0 .. w - 1
      BY ModStep, Zenon
    <2> HIDE DEF b
    <2>2. b % w = b
      BY <2>1, ModStep, Zenon
    <2> QED
      BY <2>1, <2>2
  <1>1. 0 \in S
    <2>1. b + 0 = b /\ b - 0 = b /\ a + 0 = a /\ a - 0 = a
      BY <1>0
    <2> QED
      BY <1>0, <2>1, Zenon
  <1>2. ASSUME NEW n \in Nat, n \in S PROVE n + 1 \in S
    <2> HIDE DEF b
    <2>1. (b + n) % w = (a + n) % w /\ (b - n) % w = (a - n) % w
      BY <1>2, Zenon
    <2>2. b + n \in Int /\ a + n \in Int /\ b - n \in Int /\ a - n \in Int /\ n + 1 \in Nat
      BY <1>0
    <2>3. /\ ((b + n) + 1) % w = ((a + n) + 1) % w
          /\ ((b - n) - 1) % w = ((a - n) - 1) % w
      BY <2>1, <2>2, ModNext
    <2>4. /\ (b + n) + 1 = b + (n + 1) /\ (a + n) + 1 = a + (n + 1)
          /\ (b - n) - 1 = b - (n + 1) /\ (a - n) - 1 = a - (n + 1)
      BY <1>0
    <2> QED
      BY <2>2, <2>3, <2>4, Zenon
  <1>3. \A n \in Nat : n \in S
    <2> HIDE DEF S
    <2> QED
      BY <1>1, <1>2, SetInduction
  <1> HIDE DEF b
  <1>4. CASE k >= 0
    <2>1. k \in S
      BY <1>3, <1>4
    <2> QED
      BY <2>1, Zenon DEF b
  <1>5. CASE k < 0
    <2>1. PICK n \in Nat : n = -k
      BY <1>5
    <2>2. (b - n) % w = (a - n) % w
      BY <1>3, Zenon
    <2>3. b - n = b + k /\ a - n = a + k
      BY <1>0, <2>1
    <2> QED
      BY <2>2, <2>3, Zenon DEF b
  <1> QED
    BY <1>4, <1>5

LEMMA ModFacts ==
    /\ \A a \in Int : a % Wrap \in 0 .. Wrap - 1
    /\ \A a, k \in Int : ((a % Wrap) + k) % Wrap = (a + k) % Wrap
    /\ \A a \in 0 .. Wrap - 1 : a % Wrap = a
  <1>1. Wrap \in Nat \ {0}
    BY NumbersAssumption
  <1> QED
    BY <1>1, ModStep, ModPlus

-----------------------------------------------------------------------------
(* The schedule lists                                                      *)

\* What the loop of OnlyIn has kept of s after one more of its members, e.
Keep(t, e, S) == IF e \in S THEN Append(t, e) ELSE t

\* g is what the loop has kept of s after each of its first k members.
IsKept(g, s, S, k) == g = [i \in 0 .. k |-> IF i = 0 THEN <<>> ELSE Keep(g[i - 1], s[i], S)]

LEMMA KeptExists ==
    ASSUME NEW s, NEW T
    PROVE  \A k \in Nat : \E g : IsKept(g, s, T, k)
  <1> DEFINE S == {k \in Nat : \E g : IsKept(g, s, T, k)}
  <1>1. 0 \in S
    <2> DEFINE g == [i \in 0 .. 0 |-> <<>>]
    <2>1. IsKept(g, s, T, 0)
      BY DEF IsKept
    <2> QED
      BY <2>1
  <1>2. ASSUME NEW k \in Nat, k \in S PROVE k + 1 \in S
    <2>1. PICK g : IsKept(g, s, T, k)
      BY <1>2
    <2> DEFINE e == [i \in 0 .. k + 1 |-> IF i <= k THEN g[i] ELSE Keep(g[k], s[k + 1], T)]
               E(i) == IF i = 0 THEN <<>> ELSE Keep(e[i - 1], s[i], T)
               G(i) == IF i = 0 THEN <<>> ELSE Keep(g[i - 1], s[i], T)
    <2>2. \A i \in 0 .. k : g[i] = G(i)
      BY <2>1, Zenon DEF IsKept
    <2>3. \A i \in 0 .. k : e[i] = g[i]
      OBVIOUS
    <2>4. e[k + 1] = Keep(g[k], s[k + 1], T)
      BY k + 1 \in 0 .. k + 1 /\ ~(k + 1 <= k)
    <2>5. e = [i \in 0 .. k + 1 |-> e[i]]
      OBVIOUS
    <2> HIDE DEF e
    <2>6. ASSUME NEW i \in 0 .. k + 1 PROVE e[i] = E(i)
      <3>1. CASE i = 0
        BY <2>2, <2>3, <3>1
      <3>2. CASE i \in 1 .. k
        <4>1. i \in 0 .. k /\ i - 1 \in 0 .. k /\ i # 0
          BY <3>2
        <4>2. e[i] = g[i] /\ e[i - 1] = g[i - 1]
          BY <4>1, <2>3
        <4> QED
          BY <4>1, <4>2, <2>2, Zenon
      <3>3. CASE i = k + 1
        <4>1. i # 0 /\ i - 1 = k /\ k \in 0 .. k
          BY <3>3
        <4>2. e[i - 1] = g[k]
          BY <4>1, <2>3, Zenon
        <4> QED
          BY <4>1, <4>2, <2>4, <3>3, Zenon
      <3> QED
        BY <3>1, <3>2, <3>3
    <2>7. e = [i \in 0 .. k + 1 |-> E(i)]
      BY <2>5, <2>6, Zenon
    <2>8. IsKept(e, s, T, k + 1)
      BY <2>7, Zenon DEF IsKept
    <2> QED
      BY <2>8
  <1>3. \A k \in Nat : k \in S
    <2> HIDE DEF S
    <2> QED
      BY <1>1, <1>2, SetInduction
  <1> QED
    BY <1>3

\* The loop keeps the members of S, one after the other.
LEMMA OnlyInIs ==
    ASSUME NEW s, NEW S, Len(s) \in Nat
    PROVE  \E g : /\ g[0] = <<>>
                  /\ \A i \in 1 .. Len(s) : g[i] = Keep(g[i - 1], s[i], S)
                  /\ OnlyIn(s, S) = g[Len(s)]
  <1> DEFINE g == CHOOSE g : IsKept(g, s, S, Len(s))
             G(i) == IF i = 0 THEN <<>> ELSE Keep(g[i - 1], s[i], S)
  <1>1. OnlyIn(s, S) = g[Len(s)]
    BY Zenon DEF OnlyIn, IsKept, Keep
  <1>2. IsKept(g, s, S, Len(s))
    BY KeptExists, Zenon
  <1> HIDE DEF g
  <1>3. g = [i \in 0 .. Len(s) |-> G(i)]
    BY <1>2, Zenon DEF IsKept
  <1>4. \A i \in 0 .. Len(s) : g[i] = G(i)
    BY <1>3, Zenon
  <1>5. 0 \in 0 .. Len(s) /\ \A i \in 1 .. Len(s) : i \in 0 .. Len(s) /\ i # 0
    OBVIOUS
  <1> QED
    BY <1>1, <1>4, <1>5, Zenon

\* t holds the members of S among the first n of s, in their order.
Holds(t, s, S, n) ==
    /\ t \in Seq(Txqs)
    /\ \A c \in 1 .. Len(t) : t[c] \in S /\ \E a \in 1 .. n : s[a] = t[c]
    /\ \A a \in 1 .. n : s[a] \in S => \E c \in 1 .. Len(t) : t[c] = s[a]
    /\ \A a, b \in 1 .. n : a <= b /\ s[a] \in S /\ s[b] \in S =>
          \E c, d \in 1 .. Len(t) : c <= d /\ t[c] = s[a] /\ t[d] = s[b]
    /\ (\A a, b \in 1 .. n : s[a] = s[b] => a = b) =>
          \A c, d \in 1 .. Len(t) : t[c] = t[d] => c = d

LEMMA HoldsStep ==
    ASSUME NEW s, NEW S, NEW n \in Nat, NEW t, Holds(t, s, S, n), s[n + 1] \in Txqs
    PROVE  Holds(Keep(t, s[n + 1], S), s, S, n + 1)
  <1>1. PICK e \in Txqs : e = s[n + 1]
    OBVIOUS
  <1>2. t \in Seq(Txqs) /\ Len(t) \in Nat
    BY LenProperties DEF Holds
  <1>3. \A a \in 1 .. n + 1 : a \in 1 .. n \/ a = n + 1
    OBVIOUS
  <1>4. \A a \in 1 .. n : a \in 1 .. n + 1
    OBVIOUS
  <1>5. CASE e \notin S
    <2>1. Keep(t, s[n + 1], S) = t
      BY <1>1, <1>5 DEF Keep
    <2>2. \A c \in 1 .. Len(t) : t[c] \in S /\ \E a \in 1 .. n + 1 : s[a] = t[c]
      BY <1>4 DEF Holds
    <2>3. \A a \in 1 .. n + 1 : s[a] \in S => a \in 1 .. n
      BY <1>1, <1>3, <1>5
    <2>4. (\A a, b \in 1 .. n + 1 : s[a] = s[b] => a = b) => (\A a, b \in 1 .. n : s[a] = s[b] => a = b)
      BY <1>4
    <2> QED
      <3>1. \A a \in 1 .. n + 1 : s[a] \in S => \E c \in 1 .. Len(t) : t[c] = s[a]
        BY <2>3, Zenon DEF Holds
      <3>2. \A a, b \in 1 .. n + 1 : a <= b /\ s[a] \in S /\ s[b] \in S =>
               \E c, d \in 1 .. Len(t) : c <= d /\ t[c] = s[a] /\ t[d] = s[b]
        BY <2>3, Zenon DEF Holds
      <3>3. (\A a, b \in 1 .. n + 1 : s[a] = s[b] => a = b) =>
               \A c, d \in 1 .. Len(t) : t[c] = t[d] => c = d
        BY <2>4, Zenon DEF Holds
      <3> QED
        BY <1>2, <2>1, <2>2, <3>1, <3>2, <3>3 DEF Holds
  <1>6. CASE e \in S
    <2>1. PICK r : r = Append(t, e)
      OBVIOUS
    <2>2. /\ r \in Seq(Txqs) /\ Len(r) = Len(t) + 1 /\ r[Len(t) + 1] = e
          /\ \A c \in 1 .. Len(t) : r[c] = t[c]
      BY <1>2, <2>1, AppendProperties
    <2>3. Keep(t, s[n + 1], S) = r
      BY <1>1, <1>6, <2>1 DEF Keep
    <2>4. \A c \in 1 .. Len(r) : c \in 1 .. Len(t) \/ c = Len(t) + 1
      BY <1>2, <2>2
    <2>5. \A c \in 1 .. Len(t) : c \in 1 .. Len(r) /\ c <= Len(t) + 1
      BY <1>2, <2>2
    <2>6. Len(t) + 1 \in 1 .. Len(r) /\ n + 1 \in 1 .. n + 1 /\ Len(t) + 1 <= Len(t) + 1
      BY <1>2, <2>2
    <2>7. ASSUME NEW c \in 1 .. Len(r) PROVE r[c] \in S /\ \E a \in 1 .. n + 1 : s[a] = r[c]
      <3>1. CASE c \in 1 .. Len(t)
        <4>1. t[c] \in S /\ \E a \in 1 .. n : s[a] = t[c]
          BY <3>1 DEF Holds
        <4> QED
          BY <3>1, <4>1, <2>2, <1>4, Zenon
      <3>2. CASE c = Len(t) + 1
        BY <3>2, <1>1, <1>6, <2>2, <2>6, Zenon
      <3> QED
        BY <2>4, <3>1, <3>2
    <2>8. ASSUME NEW a \in 1 .. n + 1, s[a] \in S PROVE \E c \in 1 .. Len(r) : r[c] = s[a]
      <3>1. CASE a \in 1 .. n
        <4>1. \E c \in 1 .. Len(t) : t[c] = s[a]
          BY <3>1, <2>8 DEF Holds
        <4> QED
          BY <4>1, <2>2, <2>5, Zenon
      <3>2. CASE a = n + 1
        BY <3>2, <1>1, <2>2, <2>6, Zenon
      <3> QED
        BY <1>3, <3>1, <3>2
    <2>9. ASSUME NEW a \in 1 .. n + 1, NEW b \in 1 .. n + 1, a <= b, s[a] \in S, s[b] \in S
          PROVE  \E c, d \in 1 .. Len(r) : c <= d /\ r[c] = s[a] /\ r[d] = s[b]
      <3>1. CASE b \in 1 .. n
        <4>1. a \in 1 .. n
          BY <3>1, <2>9
        <4>2. \E c, d \in 1 .. Len(t) : c <= d /\ t[c] = s[a] /\ t[d] = s[b]
          BY <3>1, <4>1, <2>9 DEF Holds
        <4> QED
          BY <4>2, <2>2, <2>5, Zenon
      <3>2. CASE b = n + 1
        <4>1. PICK c \in 1 .. Len(r) : r[c] = s[a]
          BY <2>8, <2>9, Zenon
        <4>2. c <= Len(t) + 1
          BY <2>4, <2>5, <2>6
        <4>3. r[Len(t) + 1] = s[b]
          BY <3>2, <1>1, <2>2
        <4> QED
          BY <4>1, <4>2, <4>3, <2>6, Zenon
      <3> QED
        BY <1>3, <3>1, <3>2
    <2>10. ASSUME \A a, b \in 1 .. n + 1 : s[a] = s[b] => a = b
           PROVE  \A c, d \in 1 .. Len(r) : r[c] = r[d] => c = d
      <3>1. \A c, d \in 1 .. Len(t) : t[c] = t[d] => c = d
        BY <2>10, <1>4, Zenon DEF Holds
      <3>2. \A c \in 1 .. Len(t) : t[c] # e
        <4> SUFFICES ASSUME NEW c \in 1 .. Len(t), t[c] = e PROVE FALSE
          OBVIOUS
        <4>1. PICK a \in 1 .. n : s[a] = t[c]
          BY DEF Holds
        <4>2. a = n + 1
          BY <4>1, <1>1, <1>4, <2>6, <2>10, Zenon
        <4> QED
          BY <4>1, <4>2
      <3> QED
        BY <3>1, <3>2, <2>2, <2>4, Zenon
    <2> QED
      <3>1. \A c \in 1 .. Len(r) : r[c] \in S /\ \E a \in 1 .. n + 1 : s[a] = r[c]
        BY <2>7, Zenon
      <3>2. \A a \in 1 .. n + 1 : s[a] \in S => \E c \in 1 .. Len(r) : r[c] = s[a]
        BY <2>8, Zenon
      <3>3. \A a, b \in 1 .. n + 1 : a <= b /\ s[a] \in S /\ s[b] \in S =>
               \E c, d \in 1 .. Len(r) : c <= d /\ r[c] = s[a] /\ r[d] = s[b]
        BY <2>9, Zenon
      <3>4. (\A a, b \in 1 .. n + 1 : s[a] = s[b] => a = b) =>
               \A c, d \in 1 .. Len(r) : r[c] = r[d] => c = d
        BY <2>10, Zenon
      <3>5. Holds(r, s, S, n + 1)
        BY <2>2, <3>1, <3>2, <3>3, <3>4, Zenon DEF Holds
      <3> QED
        BY <2>3, <3>5, Zenon
  <1> QED
    BY <1>5, <1>6

LEMMA OnlyInHolds ==
    ASSUME NEW s \in Seq(Txqs), NEW S
    PROVE  Holds(OnlyIn(s, S), s, S, Len(s))
  <1>1. Len(s) \in Nat /\ \A i \in 1 .. Len(s) : s[i] \in Txqs
    BY LenProperties, ElementOfSeq
  <1>2. PICK g : /\ g[0] = <<>>
                 /\ \A i \in 1 .. Len(s) : g[i] = Keep(g[i - 1], s[i], S)
                 /\ OnlyIn(s, S) = g[Len(s)]
    BY <1>1, OnlyInIs
  <1> DEFINE T == {n \in Nat : n <= Len(s) => Holds(g[n], s, S, n)}
  <1>3. 0 \in T
    <2>1. PICK t : t = <<>>
      OBVIOUS
    <2>2. t \in Seq(Txqs) /\ Len(t) = 0
      BY <2>1, EmptySeq
    <2>3. Holds(t, s, S, 0)
      BY <2>2 DEF Holds
    <2> QED
      BY <1>2, <2>1, <2>3
  <1>4. ASSUME NEW n \in Nat, n \in T PROVE n + 1 \in T
    <2> SUFFICES ASSUME n + 1 <= Len(s) PROVE Holds(g[n + 1], s, S, n + 1)
      OBVIOUS
    <2>1. n + 1 \in 1 .. Len(s) /\ (n + 1) - 1 = n /\ Holds(g[n], s, S, n)
      BY <1>1, <1>4
    <2>2. g[n + 1] = Keep(g[n], s[n + 1], S) /\ s[n + 1] \in Txqs
      BY <1>1, <1>2, <2>1, Zenon
    <2> QED
      BY <2>1, <2>2, HoldsStep, Zenon
  <1>5. \A n \in Nat : n \in T
    <2> HIDE DEF T
    <2> QED
      BY <1>3, <1>4, SetInduction
  <1> QED
    BY <1>1, <1>2, <1>5

\* p comes after q on l, or is q.
Reach(l, q, p) == \E i, j \in 1 .. Len(l) : i <= j /\ l[i] = q /\ l[j] = p

LEMMA SetOf ==
    ASSUME NEW l \in Seq(Txqs)
    PROVE  /\ Len(l) \in Nat /\ DOMAIN l = 1 .. Len(l) /\ \A i \in 1 .. Len(l) : l[i] \in Txqs
           /\ ToSet(l) = {l[i] : i \in 1 .. Len(l)} /\ ToSet(l) \subseteq Txqs
           /\ IsInjective(l) <=> \A i, j \in 1 .. Len(l) : l[i] = l[j] => i = j
  <1>1. Len(l) \in Nat /\ DOMAIN l = 1 .. Len(l) /\ \A i \in 1 .. Len(l) : l[i] \in Txqs
    BY LenProperties, ElementOfSeq
  <1> QED
    BY <1>1 DEF ToSet, IsInjective

LEMMA OnlyInFacts ==
    ASSUME NEW s \in Seq(Txqs), NEW S
    PROVE  /\ OnlyIn(s, S) \in Seq(Txqs)
           /\ ToSet(OnlyIn(s, S)) = ToSet(s) \cap S
           /\ IsInjective(s) => IsInjective(OnlyIn(s, S))
           /\ \A p, q \in S : Reach(s, q, p) => Reach(OnlyIn(s, S), q, p)
  <1>1. PICK r : r = OnlyIn(s, S)
    OBVIOUS
  <1>0. Holds(r, s, S, Len(s))
    BY <1>1, OnlyInHolds, Zenon
  <1>2. r \in Seq(Txqs)
    BY <1>0, Zenon DEF Holds
  <1>21. \A c \in 1 .. Len(r) : r[c] \in S /\ \E a \in 1 .. Len(s) : s[a] = r[c]
    BY <1>0, Zenon DEF Holds
  <1>22. \A a \in 1 .. Len(s) : s[a] \in S => \E c \in 1 .. Len(r) : r[c] = s[a]
    BY <1>0, Zenon DEF Holds
  <1>23. \A a, b \in 1 .. Len(s) : a <= b /\ s[a] \in S /\ s[b] \in S =>
            \E c, d \in 1 .. Len(r) : c <= d /\ r[c] = s[a] /\ r[d] = s[b]
    BY <1>0, Zenon DEF Holds
  <1>24. (\A a, b \in 1 .. Len(s) : s[a] = s[b] => a = b) =>
            \A c, d \in 1 .. Len(r) : r[c] = r[d] => c = d
    BY <1>0, Zenon DEF Holds
  <1>3. ToSet(r) = {r[c] : c \in 1 .. Len(r)} /\ ToSet(s) = {s[a] : a \in 1 .. Len(s)}
    BY <1>2, SetOf
  <1>4. ToSet(r) \subseteq ToSet(s) \cap S
    BY <1>3, <1>21, Zenon
  <1>5. ToSet(s) \cap S \subseteq ToSet(r)
    BY <1>3, <1>22, Zenon
  <1>6. IsInjective(s) => IsInjective(r)
    BY <1>2, <1>24, SetOf, Zenon
  <1>7. ASSUME NEW p \in S, NEW q \in S, Reach(s, q, p) PROVE Reach(r, q, p)
    <2>1. PICK a \in 1 .. Len(s), b \in 1 .. Len(s) : a <= b /\ s[a] = q /\ s[b] = p
      BY <1>7, Zenon DEF Reach
    <2>2. \E c, d \in 1 .. Len(r) : c <= d /\ r[c] = q /\ r[d] = p
      BY <2>1, <1>23, Zenon
    <2> QED
      BY <2>2, Zenon DEF Reach
  <1> QED
    BY <1>1, <1>2, <1>4, <1>5, <1>6, <1>7, Zenon

LEMMA ConcatFacts ==
    ASSUME NEW s \in Seq(Txqs), NEW t \in Seq(Txqs)
    PROVE  /\ s \o t \in Seq(Txqs)
           /\ ToSet(s \o t) = ToSet(s) \cup ToSet(t)
           /\ IsInjective(s) /\ IsInjective(t) /\ ToSet(s) \cap ToSet(t) = {} => IsInjective(s \o t)
  <1>1. PICK r : r = s \o t
    OBVIOUS
  <1>2. Len(s) \in Nat /\ Len(t) \in Nat
    BY SetOf
  <1>3. /\ r \in Seq(Txqs) /\ Len(r) = Len(s) + Len(t)
        /\ \A i \in 1 .. Len(s) + Len(t) : r[i] = IF i <= Len(s) THEN s[i] ELSE t[i - Len(s)]
    BY <1>1, ConcatProperties
  <1>4. \A i \in 1 .. Len(s) : i \in 1 .. Len(r) /\ r[i] = s[i]
    BY <1>2, <1>3
  <1>5. \A i \in 1 .. Len(t) : i + Len(s) \in 1 .. Len(r) /\ r[i + Len(s)] = t[i]
    <2> SUFFICES ASSUME NEW i \in 1 .. Len(t) PROVE i + Len(s) \in 1 .. Len(r) /\ r[i + Len(s)] = t[i]
      OBVIOUS
    <2>1. i + Len(s) \in 1 .. Len(s) + Len(t) /\ ~(i + Len(s) <= Len(s)) /\ (i + Len(s)) - Len(s) = i
      BY <1>2
    <2> QED
      BY <1>3, <2>1
  <1>6. \A k \in 1 .. Len(r) : k \in 1 .. Len(s) \/ \E i \in 1 .. Len(t) : k = i + Len(s)
    <2> SUFFICES ASSUME NEW k \in 1 .. Len(r), k \notin 1 .. Len(s) PROVE \E i \in 1 .. Len(t) : k = i + Len(s)
      OBVIOUS
    <2>1. k - Len(s) \in 1 .. Len(t) /\ k = (k - Len(s)) + Len(s)
      BY <1>2, <1>3
    <2> QED
      BY <2>1
  <1>7. /\ ToSet(r) = {r[i] : i \in 1 .. Len(r)} /\ ToSet(s) = {s[i] : i \in 1 .. Len(s)}
        /\ ToSet(t) = {t[i] : i \in 1 .. Len(t)}
    BY <1>3, SetOf
  <1>8. ToSet(r) \subseteq ToSet(s) \cup ToSet(t)
    <2> SUFFICES ASSUME NEW k \in 1 .. Len(r) PROVE r[k] \in ToSet(s) \cup ToSet(t)
      BY <1>7
    <2>1. CASE k \in 1 .. Len(s)
      BY <2>1, <1>4, <1>7
    <2>2. ASSUME NEW i \in 1 .. Len(t), k = i + Len(s) PROVE r[k] \in ToSet(t)
      BY <2>2, <1>5, <1>7
    <2> QED
      BY <2>1, <2>2, <1>6
  <1>9. ToSet(s) \cup ToSet(t) \subseteq ToSet(r)
    <2>1. ASSUME NEW i \in 1 .. Len(s) PROVE s[i] \in ToSet(r)
      BY <1>4, <1>7
    <2>2. ASSUME NEW i \in 1 .. Len(t) PROVE t[i] \in ToSet(r)
      BY <1>5, <1>7
    <2> QED
      BY <1>7, <2>1, <2>2
  <1>10. ASSUME IsInjective(s), IsInjective(t), ToSet(s) \cap ToSet(t) = {} PROVE IsInjective(r)
    <2>1. /\ \A i, j \in 1 .. Len(s) : s[i] = s[j] => i = j
          /\ \A i, j \in 1 .. Len(t) : t[i] = t[j] => i = j
      BY <1>10, SetOf
    <2>2. \A i \in 1 .. Len(s), j \in 1 .. Len(t) : s[i] # t[j]
      <3> SUFFICES ASSUME NEW i \in 1 .. Len(s), NEW j \in 1 .. Len(t), s[i] = t[j] PROVE FALSE
        OBVIOUS
      <3>1. s[i] \in ToSet(s) /\ s[i] \in ToSet(t)
        BY <1>7
      <3> QED
        BY <3>1, <1>10
    <2>3. ASSUME NEW i \in 1 .. Len(r), NEW j \in 1 .. Len(r), r[i] = r[j] PROVE i = j
      <3>1. CASE i \in 1 .. Len(s) /\ j \in 1 .. Len(s)
        BY <3>1, <2>1, <2>3, <1>4
      <3>2. ASSUME i \in 1 .. Len(s), NEW b \in 1 .. Len(t), j = b + Len(s) PROVE FALSE
        BY <3>2, <2>2, <2>3, <1>4, <1>5
      <3>3. ASSUME j \in 1 .. Len(s), NEW a \in 1 .. Len(t), i = a + Len(s) PROVE FALSE
        BY <3>3, <2>2, <2>3, <1>4, <1>5
      <3>4. ASSUME NEW a \in 1 .. Len(t), i = a + Len(s), NEW b \in 1 .. Len(t), j = b + Len(s) PROVE i = j
        <4>1. t[a] = t[b]
          BY <3>4, <2>3, <1>5
        <4> QED
          BY <3>4, <4>1, <2>1
      <3> QED
        BY <3>1, <3>2, <3>3, <3>4, <1>6
    <2> QED
      BY <2>3, <1>3, SetOf
  <1> QED
    BY <1>1, <1>3, <1>8, <1>9, <1>10

\* The queue after q on its list.
LEMMA AfterType ==
    ASSUME NEW l \in Seq(Txqs), NEW q \in ToSet(l)
    PROVE  After(l, q) \in ToSet(l) \cup {NoQ}
  <1>1. Len(l) \in Nat /\ DOMAIN l = 1 .. Len(l) /\ ToSet(l) = {l[i] : i \in 1 .. Len(l)}
    BY SetOf
  <1>2. PICK i : i = CHOOSE j \in DOMAIN l : l[j] = q
    OBVIOUS
  <1>3. i \in 1 .. Len(l)
    BY <1>1, <1>2
  <1>4. After(l, q) = IF i < Len(l) THEN l[i + 1] ELSE NoQ
    BY <1>2 DEF After
  <1>5. i < Len(l) => i + 1 \in 1 .. Len(l)
    BY <1>1, <1>3
  <1> QED
    BY <1>1, <1>4, <1>5

\* What comes after q on a list of different queues comes after the next one too, or is it.
LEMMA AfterFacts ==
    ASSUME NEW l \in Seq(Txqs), IsInjective(l), NEW q \in ToSet(l)
    PROVE  /\ After(l, q) # q
           /\ \A p \in Txqs : p # q /\ Reach(l, q, p) =>
                 /\ After(l, q) # NoQ
                 /\ \E i, j \in 2 .. Len(l) : i <= j /\ l[i] = After(l, q) /\ l[j] = p
  <1>1. /\ Len(l) \in Nat /\ DOMAIN l = 1 .. Len(l) /\ ToSet(l) = {l[i] : i \in 1 .. Len(l)}
        /\ \A i, j \in 1 .. Len(l) : l[i] = l[j] => i = j
        /\ \A i \in 1 .. Len(l) : l[i] \in Txqs
    BY SetOf
  <1>2. PICK k : k = CHOOSE i \in DOMAIN l : l[i] = q
    OBVIOUS
  <1>3. k \in 1 .. Len(l) /\ l[k] = q
    BY <1>1, <1>2
  <1>4. After(l, q) = IF k < Len(l) THEN l[k + 1] ELSE NoQ
    BY <1>2 DEF After
  <1>5. k < Len(l) => k + 1 \in 2 .. Len(l) /\ k + 1 \in 1 .. Len(l) /\ k + 1 # k
    BY <1>1, <1>3
  <1>6. After(l, q) # q
    BY <1>1, <1>3, <1>4, <1>5, Constants
  <1>7. ASSUME NEW p \in Txqs, p # q, Reach(l, q, p)
        PROVE  /\ After(l, q) # NoQ
               /\ \E i, j \in 2 .. Len(l) : i <= j /\ l[i] = After(l, q) /\ l[j] = p
    <2>1. PICK i \in 1 .. Len(l), j \in 1 .. Len(l) : i <= j /\ l[i] = q /\ l[j] = p
      BY <1>7 DEF Reach
    <2>2. i = k /\ j # k
      BY <1>1, <1>3, <1>7, <2>1
    <2>3. k < Len(l) /\ k + 1 <= j /\ j \in 2 .. Len(l)
      BY <1>1, <1>3, <2>1, <2>2
    <2>4. After(l, q) = l[k + 1] /\ l[k + 1] \in Txqs
      BY <1>1, <1>4, <1>5, <2>3
    <2> QED
      BY <1>5, <2>1, <2>3, <2>4, Constants
  <1> QED
    BY <1>6, <1>7

\* list_rotate_left
LEMMA RotateFacts ==
    ASSUME NEW l \in Seq(Txqs), l # <<>>
    PROVE  /\ Append(Tail(l), Head(l)) \in Seq(Txqs)
           /\ ToSet(Append(Tail(l), Head(l))) = ToSet(l)
           /\ IsInjective(l) => IsInjective(Append(Tail(l), Head(l)))
           /\ \A i, j \in 2 .. Len(l) : i <= j => Reach(Append(Tail(l), Head(l)), l[i], l[j])
  <1>1. PICK t, e, r : t = Tail(l) /\ e = Head(l) /\ r = Append(t, e)
    OBVIOUS
  <1>2. /\ Len(l) \in Nat \ {0} /\ t \in Seq(Txqs) /\ Len(t) = Len(l) - 1 /\ e \in Txqs /\ e = l[1]
        /\ \A i \in 1 .. Len(t) : t[i] = l[i + 1]
    BY <1>1, HeadTailProperties, SetOf, EmptySeq
  <1>3. /\ r \in Seq(Txqs) /\ Len(r) = Len(t) + 1 /\ r[Len(t) + 1] = e
        /\ \A i \in 1 .. Len(t) : r[i] = t[i]
    BY <1>1, <1>2, AppendProperties
  <1>4. Len(r) = Len(l) /\ r[Len(l)] = l[1] /\ \A i \in 1 .. Len(l) : i # Len(l) => r[i] = l[i + 1]
    BY <1>2, <1>3
  <1>5. /\ ToSet(r) = {r[i] : i \in 1 .. Len(r)} /\ ToSet(l) = {l[i] : i \in 1 .. Len(l)}
    BY <1>3, SetOf
  <1>6. 1 \in 1 .. Len(l) /\ Len(l) \in 1 .. Len(l) /\ \A i \in 1 .. Len(l) : i # Len(l) => i + 1 \in 1 .. Len(l)
    BY <1>2
  <1>7. \A i \in 1 .. Len(l) : i # 1 => i - 1 \in 1 .. Len(l) /\ i - 1 # Len(l) /\ (i - 1) + 1 = i
    BY <1>2
  <1>8. ToSet(r) = ToSet(l)
    <2>1. ASSUME NEW i \in 1 .. Len(l) PROVE r[i] \in ToSet(l)
      BY <1>4, <1>5, <1>6
    <2>2. ASSUME NEW i \in 1 .. Len(l) PROVE l[i] \in ToSet(r)
      <3>1. CASE i = 1
        BY <3>1, <1>4, <1>5, <1>6
      <3>2. CASE i # 1
        <4>1. r[i - 1] = l[i]
          BY <3>2, <1>4, <1>7
        <4> QED
          BY <4>1, <3>2, <1>4, <1>5, <1>7
      <3> QED
        BY <3>1, <3>2
    <2> QED
      BY <2>1, <2>2, <1>4, <1>5
  <1>9. ASSUME IsInjective(l) PROVE IsInjective(r)
    <2>1. \A i, j \in 1 .. Len(l) : l[i] = l[j] => i = j
      BY <1>9, SetOf
    <2>2. ASSUME NEW i \in 1 .. Len(l), NEW j \in 1 .. Len(l), r[i] = r[j] PROVE i = j
      <3>1. CASE i = Len(l) /\ j # Len(l)
        <4>1. l[1] = l[j + 1]
          BY <2>2, <3>1, <1>4
        <4>2. j + 1 # 1
          BY <1>2
        <4> QED
          BY <4>1, <4>2, <2>1, <1>6, <3>1
      <3>2. CASE j = Len(l) /\ i # Len(l)
        <4>1. l[1] = l[i + 1]
          BY <2>2, <3>2, <1>4
        <4>2. i + 1 # 1
          BY <1>2
        <4> QED
          BY <4>1, <4>2, <2>1, <1>6, <3>2
      <3>3. CASE i # Len(l) /\ j # Len(l)
        <4>1. l[i + 1] = l[j + 1]
          BY <2>2, <3>3, <1>4
        <4>2. i + 1 = j + 1
          BY <4>1, <3>3, <2>1, <1>6
        <4> QED
          BY <4>2
      <3> QED
        BY <3>1, <3>2, <3>3
    <2> QED
      BY <2>2, <1>3, <1>4, SetOf
  <1>10. ASSUME NEW i \in 2 .. Len(l), NEW j \in 2 .. Len(l), i <= j PROVE Reach(r, l[i], l[j])
    <2>1. i - 1 \in 1 .. Len(r) /\ j - 1 \in 1 .. Len(r) /\ i - 1 <= j - 1
      BY <1>2, <1>4, <1>10
    <2>2. r[i - 1] = l[i] /\ r[j - 1] = l[j]
      BY <1>2, <1>4, <1>7
    <2> QED
      BY <2>1, <2>2, Zenon DEF Reach
  <1> QED
    BY <1>1, <1>3, <1>8, <1>9, <1>10

-----------------------------------------------------------------------------
(* The schedule lists and the walk                                         *)

\* What the lists are in every behaviour: a queue is on the list of its hardware queue
\* only, and on it if it carries the flag.
Linked ==
    /\ list \in [Hwqs -> Seq(Txqs)] /\ flagged \subseteq Txqs
    /\ \A h \in Hwqs : \A q \in ToSet(list[h]) : HwqOf[q] = h
    /\ \A q \in flagged : q \in ToSet(list[HwqOf[q]])

\* The walk is at a queue of the hardware queue it is about.
Walking ==
    /\ walk \in [h : Hwqs \cup {0}, at : Txqs \cup {NoQ}, rest : SUBSET Hwqs] /\ need \subseteq Hwqs
    /\ walk # Idle => walk.h \in Hwqs
    /\ walk.at # NoQ => HwqOf[walk.at] = walk.h

\* A list of different queues that can be linked.
Order(S, order) == order \in Seq(Txqs) /\ IsInjective(order) /\ S \subseteq ToSet(order) /\ S \subseteq Txqs

LEMMA AddFacts ==
    ASSUME Linked, NEW S, NEW order, Order(S, order), AddToHwList(S, order)
    PROVE  /\ Linked' /\ flagged' = flagged \cup S
           /\ OneEntry => OneEntry'
           /\ \A h \in Hwqs : ToSet(list'[h]) = ToSet(list[h]) \cup {q \in S \ flagged : HwqOf[q] = h}
  <1> DEFINE New(h) == {q \in S \ flagged : HwqOf[q] = h}
             News(h) == OnlyIn(order, New(h))
  <1>1. flagged' = flagged \cup S /\ list' = [h \in Hwqs |-> list[h] \o News(h)]
    BY DEF AddToHwList
  <1>2. ASSUME NEW h \in Hwqs
        PROVE  /\ News(h) \in Seq(Txqs) /\ ToSet(News(h)) = New(h) /\ IsInjective(News(h))
               /\ list[h] \in Seq(Txqs)
    <2>1. order \in Seq(Txqs) /\ IsInjective(order) /\ New(h) \subseteq ToSet(order)
      BY DEF Order
    <2> HIDE DEF New
    <2>2. ToSet(order) \cap New(h) = New(h)
      BY <2>1
    <2> QED
      BY <2>1, <2>2, OnlyInFacts DEF Linked
  <1>3. ASSUME NEW h \in Hwqs
        PROVE  /\ list'[h] \in Seq(Txqs) /\ ToSet(list'[h]) = ToSet(list[h]) \cup New(h)
               /\ IsInjective(list[h]) /\ ToSet(list[h]) \cap New(h) = {} => IsInjective(list'[h])
    <2>1. list'[h] = list[h] \o News(h)
      BY <1>1
    <2> HIDE DEF New, News
    <2> QED
      BY <2>1, <1>2, ConcatFacts
  <1>4. list' \in [Hwqs -> Seq(Txqs)]
    <2> HIDE DEF News
    <2>1. list' = [h \in Hwqs |-> list'[h]]
      BY <1>1
    <2> QED
      BY <2>1, <1>3
  <1>5. Linked'
    <2>1. flagged' \subseteq Txqs
      BY <1>1 DEF Linked, Order
    <2>2. ASSUME NEW h \in Hwqs, NEW q \in ToSet(list'[h]) PROVE HwqOf[q] = h
      BY <2>2, <1>3 DEF Linked
    <2>3. ASSUME NEW q \in flagged' PROVE q \in ToSet(list'[HwqOf[q]])
      <3>1. HwqOf[q] \in Hwqs
        BY <2>1 DEF Hwqs
      <3>2. ToSet(list'[HwqOf[q]]) = ToSet(list[HwqOf[q]]) \cup New(HwqOf[q])
        BY <3>1, <1>3
      <3>3. q \in flagged => q \in ToSet(list[HwqOf[q]])
        BY DEF Linked
      <3> QED
        BY <3>2, <3>3, <2>3, <1>1
    <2> QED
      BY <1>4, <2>1, <2>2, <2>3 DEF Linked
  <1>6. ASSUME OneEntry PROVE OneEntry'
    <2> SUFFICES ASSUME NEW h \in Hwqs
                 PROVE  IsInjective(list'[h]) /\ ToSet(list'[h]) = {q \in flagged' : HwqOf[q] = h}
      BY DEF OneEntry
    <2>1. IsInjective(list[h]) /\ ToSet(list[h]) = {q \in flagged : HwqOf[q] = h}
      BY <1>6 DEF OneEntry
    <2> QED
      BY <2>1, <1>1, <1>3
  <1> QED
    BY <1>1, <1>3, <1>5, <1>6

LEMMA DelFacts ==
    ASSUME Linked, NEW S, DelFromHwList(S)
    PROVE  /\ Linked' /\ flagged' = flagged \ S
           /\ OneEntry => OneEntry'
           /\ \A h \in Hwqs : /\ ToSet(list'[h]) = ToSet(list[h]) \ (S \cap flagged)
                              /\ \A p, q \in Txqs \ S : Reach(list[h], q, p) => Reach(list'[h], q, p)
  <1> DEFINE Stay == Txqs \ (S \cap flagged)
  <1>1. flagged' = flagged \ S /\ list' = [h \in Hwqs |-> OnlyIn(list[h], Stay)]
    BY DEF DelFromHwList
  <1>2. ASSUME NEW h \in Hwqs
        PROVE  /\ list'[h] \in Seq(Txqs) /\ ToSet(list'[h]) = ToSet(list[h]) \cap Stay
               /\ IsInjective(list[h]) => IsInjective(list'[h])
               /\ \A p, q \in Stay : Reach(list[h], q, p) => Reach(list'[h], q, p)
               /\ ToSet(list[h]) \subseteq Txqs
    <2>1. list[h] \in Seq(Txqs) /\ list'[h] = OnlyIn(list[h], Stay)
      BY <1>1 DEF Linked
    <2> HIDE DEF Stay
    <2> QED
      BY <2>1, OnlyInFacts, SetOf
  <1>3. list' \in [Hwqs -> Seq(Txqs)]
    <2> HIDE DEF Stay
    <2>1. list' = [h \in Hwqs |-> list'[h]]
      BY <1>1
    <2> QED
      BY <2>1, <1>2
  <1>4. Linked'
    <2>1. flagged' \subseteq Txqs
      BY <1>1 DEF Linked
    <2>2. ASSUME NEW h \in Hwqs, NEW q \in ToSet(list'[h]) PROVE HwqOf[q] = h
      BY <2>2, <1>2 DEF Linked
    <2>3. ASSUME NEW q \in flagged' PROVE q \in ToSet(list'[HwqOf[q]])
      <3>1. HwqOf[q] \in Hwqs /\ q \in Stay
        BY <2>1, <2>3, <1>1 DEF Hwqs
      <3>2. q \in ToSet(list[HwqOf[q]])
        BY <2>3, <1>1 DEF Linked
      <3> QED
        BY <3>1, <3>2, <1>2
    <2> QED
      BY <1>3, <2>1, <2>2, <2>3 DEF Linked
  <1>5. ASSUME OneEntry PROVE OneEntry'
    <2> SUFFICES ASSUME NEW h \in Hwqs
                 PROVE  IsInjective(list'[h]) /\ ToSet(list'[h]) = {q \in flagged' : HwqOf[q] = h}
      BY DEF OneEntry
    <2>1. IsInjective(list[h]) /\ ToSet(list[h]) = {q \in flagged : HwqOf[q] = h}
      BY <1>5 DEF OneEntry
    <2> QED
      BY <2>1, <1>1, <1>2
  <1>6. ASSUME NEW h \in Hwqs, NEW p \in Txqs \ S, NEW q \in Txqs \ S, Reach(list[h], q, p)
        PROVE  Reach(list'[h], q, p)
    <2>1. p \in Stay /\ q \in Stay
      OBVIOUS
    <2> HIDE DEF Stay
    <2> QED
      BY <2>1, <1>2, <1>6
  <1> QED
    BY <1>1, <1>2, <1>4, <1>5, <1>6

\* The first of a list, and the queues that come after it.
LEMMA HeadFacts ==
    ASSUME NEW l \in Seq(Txqs), l # <<>>
    PROVE  Head(l) \in ToSet(l) /\ \A p \in ToSet(l) : Reach(l, Head(l), p)
  <1>1. Len(l) \in Nat \ {0} /\ Head(l) = l[1] /\ ToSet(l) = {l[i] : i \in 1 .. Len(l)}
    BY SetOf, EmptySeq, HeadTailProperties
  <1>2. 1 \in 1 .. Len(l) /\ \A i \in 1 .. Len(l) : 1 <= i
    BY <1>1
  <1> QED
    BY <1>1, <1>2 DEF Reach

LEMMA ListEmpty ==
    ASSUME NEW l \in Seq(Txqs)
    PROVE  l = <<>> <=> ToSet(l) = {}
  <1>1. Len(l) \in Nat /\ ToSet(l) = {l[i] : i \in 1 .. Len(l)}
    BY SetOf
  <1>2. CASE l = <<>>
    <2>1. Len(l) = 0
      BY <1>2, EmptySeq
    <2> QED
      BY <1>1, <1>2, <2>1
  <1>3. CASE l # <<>>
    BY <1>3, HeadFacts
  <1> QED
    BY <1>2, <1>3

\* A set of hardware queues has a last one.
LEMMA MaxHwq ==
    ASSUME NEW S \in SUBSET Hwqs, S # {}
    PROVE  Max(S) \in S
  <1> DEFINE Below(n, b) == \A m \in 1 .. n : HwqOf[Tids[m]] <= b
             T == {n \in Nat : n <= Len(Tids) => \E b \in Nat : Below(n, b)}
  <1>0. Hwqs \subseteq Nat \ {0} /\ Len(Tids) \in Nat /\ \A m \in 1 .. Len(Tids) : HwqOf[Tids[m]] \in Hwqs
    BY QueuesAssumption, TidFacts DEF Hwqs
  <1>1. 0 \in T
    OBVIOUS
  <1>2. ASSUME NEW n \in Nat, n \in T PROVE n + 1 \in T
    <2> SUFFICES ASSUME n + 1 <= Len(Tids)
                 PROVE  \E b \in Nat : Below(n + 1, b)
      OBVIOUS
    <2>0. n <= Len(Tids)
      BY <1>0
    <2>1. PICK b \in Nat : Below(n, b)
      BY <1>2, <2>0, Zenon
    <2>2. n + 1 \in 1 .. Len(Tids)
      BY <1>0
    <2>3. PICK h \in Nat : h = HwqOf[Tids[n + 1]]
      BY <1>0, <2>2
    <2>4. ASSUME NEW m \in 1 .. n + 1 PROVE HwqOf[Tids[m]] <= b + h
      <3>1. CASE m = n + 1
        BY <3>1, <2>3
      <3>2. CASE m # n + 1
        <4>1. m \in 1 .. n /\ m \in 1 .. Len(Tids)
          BY <3>2, <2>2, <1>0
        <4>2. HwqOf[Tids[m]] <= b /\ HwqOf[Tids[m]] \in Nat
          BY <4>1, <2>1, <1>0
        <4> QED
          BY <4>2
      <3> QED
        BY <3>1, <3>2
    <2>5. Below(n + 1, b + h) /\ b + h \in Nat
      BY <2>4
    <2> QED
      BY <2>5, Zenon
  <1>3. \A n \in Nat : n \in T
    <2> HIDE DEF T
    <2> QED
      BY <1>1, <1>2, SetInduction
  <1>4. PICK b \in Nat : Below(Len(Tids), b)
    <2>1. Len(Tids) \in Nat /\ Len(Tids) <= Len(Tids)
      BY <1>0
    <2> QED
      BY <2>1, <1>3, Zenon
  <1>5. \A h \in S : h \in Nat /\ h # 0 /\ h <= b
    <2> SUFFICES ASSUME NEW h \in S PROVE h <= b
      BY <1>0
    <2>1. PICK q \in Txqs : h = HwqOf[q]
      BY DEF Hwqs
    <2>2. PICK m \in 1 .. Len(Tids) : Tids[m] = q
      BY TidFacts
    <2> QED
      BY <2>1, <2>2, <1>4
  <1>6. SUFFICES ASSUME Max(S) \notin S PROVE FALSE
    OBVIOUS
  <1>7. \A m \in S : \E x \in S : ~(x <= m)
    <2> SUFFICES ASSUME NEW m \in S, \A x \in S : x <= m PROVE FALSE
      OBVIOUS
    <2>1. S \subseteq Int
      BY <1>5
    <2>2. Max(S) = m
      BY <2>1, MaxIs
    <2> QED
      BY <1>6, <2>2
  <1> DEFINE U == {n \in Nat : \A x \in S : x + n <= b}
  <1>8. 0 \in U
    BY <1>5
  <1>9. ASSUME NEW n \in Nat, n \in U PROVE n + 1 \in U
    <2> SUFFICES ASSUME NEW x \in S PROVE x + (n + 1) <= b
      OBVIOUS
    <2>1. PICK y \in S : ~(y <= x)
      BY <1>7
    <2>2. y + n <= b /\ x \in Nat /\ y \in Nat
      BY <1>5, <1>9
    <2> QED
      BY <2>1, <2>2
  <1>10. \A n \in Nat : n \in U
    <2> HIDE DEF U
    <2> QED
      BY <1>8, <1>9, SetInduction
  <1>11. PICK x \in S : TRUE
    OBVIOUS
  <1>12. x + b <= b
    BY <1>10
  <1> QED
    BY <1>5, <1>12

LEMMA WalkOnFacts ==
    ASSUME Linked, NEW S \in SUBSET Hwqs, need \subseteq Hwqs, WalkOn(S)
    PROVE  /\ walk' \in [h : Hwqs \cup {0}, at : Txqs \cup {NoQ}, rest : SUBSET Hwqs] /\ need' \subseteq Hwqs
           /\ walk' # Idle => walk'.h \in Hwqs
           /\ walk'.at # NoQ => walk'.h \in Hwqs /\ walk'.at \in ToSet(list[walk'.h])
  <1>1. CASE S = {}
    BY <1>1 DEF WalkOn, Idle
  <1>2. CASE S # {}
    <2>1. PICK h \in Hwqs : h = Max(S)
      BY <1>2, MaxHwq
    <2>2. /\ walk' = [h |-> h, at |-> IF list[h] = <<>> THEN NoQ ELSE Head(list[h]), rest |-> S \ {h}]
          /\ need' = need \ {h}
      BY <1>2, <2>1 DEF WalkOn
    <2>3. list[h] \in Seq(Txqs)
      BY DEF Linked
    <2>4. list[h] # <<>> => Head(list[h]) \in ToSet(list[h]) /\ Head(list[h]) \in Txqs
      BY <2>3, HeadFacts, SetOf
    <2> QED
      BY <2>2, <2>4
  <1> QED
    BY <1>1, <1>2

\* A station that is valid, or set up, has all its queues.
Whole == valid \/ add = "init" => active = Txqs /\ dq = <<>> /\ flushing = NoQ

\* What a step does to the lists: nothing, it links queues, or unlinks some, under
\* tx_lock; or it is one of those that walk, queue a frame or set up a station, or
\* links without the lock.
Keeps == UNCHANGED <<flagged, list, walk, active>> /\ need' \subseteq need \cup Hwqs

\* Queues of S are linked under tx_lock, in the order of a loop along order.
Adds ==
    /\ \E S, order : /\ Order(S, order) /\ AddToHwList(S, order)
                     /\ Without({"early"}) => S \subseteq active
    /\ Free /\ UNCHANGED <<walk, active>> /\ need' \subseteq need \cup Hwqs

\* Queues of S are unlinked under tx_lock; none but they may be removed.
Dels ==
    /\ \E S : DelFromHwList(S) /\ active \ S \subseteq active'
    /\ Free /\ UNCHANGED <<walk, need>>

LEMMA Orders ==
    /\ \A S \in SUBSET Txqs : Order(S, Tids) /\ Marks(S) \subseteq Hwqs
    /\ \A S \in SUBSET Data : Order(S, Prio) /\ Marks(S) \subseteq Hwqs
  <1>1. /\ Tids \in Seq(Txqs) /\ IsInjective(Tids) /\ Txqs = ToSet(Tids)
        /\ Prio \in Seq(Data) /\ IsInjective(Prio) /\ Data = ToSet(Prio) /\ Data \subseteq Txqs
    BY QueuesAssumption DEF Txqs, Data
  <1>2. Prio \in Seq(Txqs)
    BY <1>1
  <1> QED
    BY <1>1, <1>2 DEF Order, Marks, Hwqs

LEMMA AddsTids ==
    ASSUME NEW S \in SUBSET active, active \subseteq Txqs, AddToHwList(S, Tids), Free, UNCHANGED <<walk, active>>,
           need' \subseteq need \cup Hwqs
    PROVE  Adds
  <1>1. Order(S, Tids)
    BY Orders
  <1> QED
    BY <1>1 DEF Adds

LEMMA KindStart ==
    ASSUME Types, NEW r, StartQueues(r), Free, UNCHANGED <<walk, active>>
    PROVE  Adds
  <1>1. Started(r) \in SUBSET active /\ active \subseteq Txqs
    BY DEF Started, Types
  <1>2. AddToHwList(Started(r), Tids) /\ need' = need \cup Marks(Started(r))
    BY DEF StartQueues
  <1>3. Marks(Started(r)) \subseteq Hwqs
    BY <1>1, Orders
  <1> QED
    BY <1>1, <1>2, <1>3, AddsTids

LEMMA KindStop ==
    ASSUME NEW r, StopQueues(r), Free, UNCHANGED <<walk, active, need>>
    PROVE  Dels
  BY DEF StopQueues, Dels

LEMMA KindPs ==
    ASSUME Types, PsEnable \/ PsDisable, Free, UNCHANGED <<walk, active>>
    PROVE  Adds \/ Dels
  <1>1. CASE PsEnable
    BY <1>1, KindStop DEF PsEnable
  <1>2. CASE PsDisable
    BY <1>2, KindStart DEF PsDisable
  <1> QED
    BY <1>1, <1>2

LEMMA KindTrafficReq ==
    ASSUME Types, Whole, NEW n \in Requests, NEW i \in PsIds, TrafficReq(n, i)
    PROVE  Adds
  <1>1. PICK S \in SUBSET Data : AddToHwList(S, Prio) /\ need' = need \cup Marks(S)
    BY DEF TrafficReq
  <1>2. Free /\ UNCHANGED <<walk, active>> /\ (valid \/ "early" \in events)
    BY DEF TrafficReq
  <1>3. Without({"early"}) => S \subseteq active
    BY <1>2, Constants DEF Whole, Without
  <1>4. Order(S, Prio) /\ Marks(S) \subseteq Hwqs
    BY Orders
  <1> QED
    BY <1>1, <1>2, <1>3, <1>4 DEF Adds

LEMMA KindLink ==
    ASSUME Types, NEW q \in active, Link(q), MayConfirm, UNCHANGED <<walk, active>>, need' = need \cup {HwqOf[q]}
    PROVE  Keeps \/ Adds
  <1>1. HwqOf[q] \in Hwqs /\ {q} \in SUBSET active /\ active \subseteq Txqs
    BY DEF Types, Hwqs
  <1>2. CASE "unlocked" \in events
    BY <1>1, <1>2 DEF Link, Keeps
  <1>3. CASE "unlocked" \notin events
    BY <1>1, <1>3, AddsTids DEF Link, MayConfirm
  <1> QED
    BY <1>2, <1>3

LEMMA KindConfirm ==
    ASSUME Types, NEW q \in Txqs, NEW f, Confirm(q, f) \/ Retry(q, f)
    PROVE  Keeps \/ Adds
  <1>1. /\ MayConfirm /\ UNCHANGED <<walk, active>> /\ need' = need \cup {HwqOf[q]}
        /\ UNCHANGED <<flagged, list>> \/ (q \in active /\ Link(q))
    BY DEF Confirm, Retry
  <1>2. HwqOf[q] \in Hwqs
    BY DEF Hwqs
  <1> QED
    BY <1>1, <1>2, KindLink DEF Keeps

LEMMA KindCreditUpdate ==
    ASSUME Types, NEW q \in Txqs, CreditUpdate(q)
    PROVE  Keeps \/ Adds \/ Dels
  <1>1. q \in active /\ Free /\ UNCHANGED <<walk, active>> /\ active \subseteq Txqs
    BY DEF CreditUpdate, Types
  <1>2. \/ DelFromHwList({q}) /\ need' = need
        \/ UNCHANGED schedVars
        \/ \E S \in SUBSET {q} : AddToHwList(S, Tids) /\ need' = need \cup Marks(S)
    BY DEF CreditUpdate
  <1>3. CASE DelFromHwList({q}) /\ need' = need
    BY <1>1, <1>3 DEF Dels
  <1>4. CASE UNCHANGED schedVars
    BY <1>1, <1>4 DEF Keeps, schedVars
  <1>5. ASSUME NEW S \in SUBSET {q}, AddToHwList(S, Tids), need' = need \cup Marks(S) PROVE Adds
    <2>1. S \in SUBSET active /\ Marks(S) \subseteq Hwqs
      BY <1>1, Orders
    <2> QED
      BY <2>1, <1>1, <1>5, AddsTids
  <1> QED
    BY <1>2, <1>3, <1>4, <1>5

LEMMA Kinds ==
    ASSUME Types, Whole, [Next]_vars
    PROVE  \/ Keeps \/ Adds \/ Dels \/ WalkActive \/ WalkInactive \/ WalkEnd \/ Task \/ StaInit \/ ConfirmLink
           \/ \E s \in Senders : QueueSkb(s)
  <1> DEFINE Goal == \/ Keeps \/ Adds \/ Dels \/ WalkActive \/ WalkInactive \/ WalkEnd \/ Task
                     \/ StaInit \/ ConfirmLink \/ \E s \in Senders : QueueSkb(s)
  <1>0. ASSUME UNCHANGED <<flagged, list, walk, active, need>> PROVE Keeps
    BY <1>0 DEF Keeps
  <1> USE DEF envVars, schedVars, queueVars, flowVars, psVars, lifeVars, histVars
  <1>1. ASSUME NEW s \in Senders, NEW q \in Txqs, Xmit(s, q) PROVE Keeps
    BY <1>1, <1>0 DEF Xmit
  <1>2. ASSUME NEW on \in BOOLEAN, PsInd(on) PROVE Keeps \/ Adds \/ Dels
    BY <1>2, <1>0, KindPs DEF PsInd
  <1>3. CASE Interrupt
    BY <1>3, <1>0 DEF Interrupt
  <1>4. ASSUME NEW n \in Requests, NEW i \in PsIds, TrafficReq(n, i) PROVE Adds
    BY <1>4, KindTrafficReq
  <1>5. ASSUME NEW r \in VifReasons, VifStop(r) PROVE Keeps \/ Dels
    BY <1>5, <1>0, KindStop DEF VifStop
  <1>6. ASSUME NEW r, NEW kick, VifStart(r, kick) PROVE Keeps \/ Adds
    BY <1>6, <1>0, KindStart DEF VifStart
  <1>7. ASSUME NEW b \in BOOLEAN, BusBusy(b) PROVE Keeps
    BY <1>7, <1>0 DEF BusBusy
  <1>8. CASE DelStation \/ Flush \/ AddStation
    BY <1>8, <1>0 DEF DelStation, Flush, AddStation
  <1>9. CASE Deinit
    <2>1. PICK q : DelFromHwList({q}) /\ active' = active \ {q} /\ Free /\ UNCHANGED <<walk, need>>
      BY <1>9 DEF Deinit
    <2> QED
      BY <2>1 DEF Dels
  <1>10. CASE Added
    BY <1>10, KindPs DEF Added
  <1>11. ASSUME NEW pm \in BOOLEAN, LinkStation(pm) PROVE Keeps
    BY <1>11, <1>0 DEF LinkStation
  <1>12. ASSUME NEW c \in fw, Confirm(c[1], c[2]) \/ Retry(c[1], c[2]) PROVE Keeps \/ Adds
    <2>1. c[1] \in Txqs
      BY DEF Types
    <2> QED
      BY <1>12, <2>1, KindConfirm
  <1>13. ASSUME NEW q \in Txqs, CreditUpdate(q) PROVE Keeps \/ Adds \/ Dels
    BY <1>13, KindCreditUpdate
  <1>14. CASE UNCHANGED vars
    BY <1>14, <1>0 DEF vars
  <1> QED
    BY <1>1, <1>2, <1>3, <1>4, <1>5, <1>6, <1>7, <1>8, <1>9, <1>10, <1>11, <1>12, <1>13, <1>14
       DEF Next, VifBack, CsaEnd, CsaFinish

\* A queue is linked without the lock.
LEMMA AppendSet ==
    ASSUME NEW l \in Seq(Txqs), NEW e \in Txqs
    PROVE  Append(l, e) \in Seq(Txqs) /\ ToSet(Append(l, e)) = ToSet(l) \cup {e}
  <1>1. PICK r : r = Append(l, e)
    OBVIOUS
  <1>2. /\ r \in Seq(Txqs) /\ Len(r) = Len(l) + 1 /\ r[Len(l) + 1] = e
        /\ \A i \in 1 .. Len(l) : r[i] = l[i]
    BY <1>1, AppendProperties
  <1>3. /\ Len(l) \in Nat /\ ToSet(l) = {l[i] : i \in 1 .. Len(l)} /\ ToSet(r) = {r[i] : i \in 1 .. Len(r)}
    BY <1>2, SetOf
  <1>4. \A i : i \in 1 .. Len(r) <=> (i \in 1 .. Len(l) \/ i = Len(l) + 1)
    BY <1>2, <1>3
  <1> QED
    BY <1>1, <1>2, <1>3, <1>4

LEMMA ConfirmLinkFacts ==
    ASSUME Linked, cfm \in Txqs \cup {NoQ}, ConfirmLink
    PROVE  Linked'
  <1>1. PICK q \in Txqs : q = cfm
    BY DEF ConfirmLink
  <1>2. PICK h \in Hwqs : h = HwqOf[q]
    BY DEF Hwqs
  <1>3. /\ list' = [list EXCEPT ![h] = Append(list[h], q)] /\ flagged' = flagged \cup {q}
        /\ list[h] \in Seq(Txqs)
    BY <1>1, <1>2 DEF ConfirmLink, Linked
  <1>4. Append(list[h], q) \in Seq(Txqs) /\ ToSet(Append(list[h], q)) = ToSet(list[h]) \cup {q}
    BY <1>3, AppendSet
  <1>5. /\ list' \in [Hwqs -> Seq(Txqs)] /\ ToSet(list'[h]) = ToSet(list[h]) \cup {q}
        /\ \A g \in Hwqs : g # h => list'[g] = list[g]
    BY <1>3, <1>4 DEF Linked
  <1>6. ASSUME NEW g \in Hwqs, NEW p \in ToSet(list'[g]) PROVE HwqOf[p] = g
    BY <1>2, <1>5, <1>6 DEF Linked
  <1>7. ASSUME NEW p \in flagged' PROVE p \in ToSet(list'[HwqOf[p]])
    <2>1. p \in flagged => p \in ToSet(list[HwqOf[p]])
      BY DEF Linked
    <2>2. HwqOf[p] \in Hwqs
      BY <1>3 DEF Linked, Hwqs
    <2> QED
      BY <1>2, <1>3, <1>5, <2>1, <2>2
  <1> QED
    BY <1>3, <1>5, <1>6, <1>7 DEF Linked

LEMMA RotateLists ==
    ASSUME Linked, NEW h \in Hwqs, list[h] # <<>>, flagged' = flagged,
           list' = [list EXCEPT ![h] = Append(Tail(@), Head(@))]
    PROVE  /\ Linked' /\ (OneEntry => OneEntry') /\ ToSet(list'[h]) = ToSet(list[h])
           /\ \A i, j \in 2 .. Len(list[h]) : i <= j => Reach(list'[h], list[h][i], list[h][j])
  <1>1. PICK l, r : l = list[h] /\ r = Append(Tail(l), Head(l))
    OBVIOUS
  <1>2. l \in Seq(Txqs) /\ l # <<>>
    BY <1>1 DEF Linked
  <1>3. /\ r \in Seq(Txqs) /\ ToSet(r) = ToSet(l) /\ (IsInjective(l) => IsInjective(r))
        /\ \A i, j \in 2 .. Len(l) : i <= j => Reach(r, l[i], l[j])
    BY <1>1, <1>2, RotateFacts
  <1>4. /\ list' \in [Hwqs -> Seq(Txqs)] /\ list'[h] = r /\ \A g \in Hwqs : g # h => list'[g] = list[g]
    BY <1>1, <1>3 DEF Linked
  <1>5. \A g \in Hwqs : ToSet(list'[g]) = ToSet(list[g]) /\ (IsInjective(list[g]) => IsInjective(list'[g]))
    BY <1>1, <1>3, <1>4
  <1>6. Linked'
    <2>1. \A q \in flagged : HwqOf[q] \in Hwqs
      BY DEF Linked, Hwqs
    <2> QED
      BY <1>4, <1>5, <2>1 DEF Linked
  <1>7. OneEntry => OneEntry'
    BY <1>5 DEF OneEntry
  <1> QED
    BY <1>1, <1>3, <1>4, <1>6, <1>7

\* Where the walk is, and where it goes.
LEMMA WalkAt ==
    ASSUME Linked, Walking, walk.at \in flagged
    PROVE  /\ walk.h \in Hwqs /\ walk.at \in ToSet(list[walk.h]) /\ walk.at \in Txqs
           /\ list[walk.h] \in Seq(Txqs) /\ list[walk.h] # <<>>
           /\ After(list[walk.h], walk.at) \in ToSet(list[walk.h]) \cup {NoQ}
           /\ ToSet(list[walk.h]) \subseteq Txqs
  <1>1. walk.at \in Txqs /\ walk.at # NoQ
    BY Constants DEF Linked
  <1>2. HwqOf[walk.at] = walk.h /\ walk.h \in Hwqs
    BY <1>1 DEF Walking, Hwqs
  <1>3. list[walk.h] \in Seq(Txqs) /\ walk.at \in ToSet(list[walk.h])
    BY <1>2 DEF Linked
  <1>4. list[walk.h] # <<>> /\ ToSet(list[walk.h]) \subseteq Txqs
    BY <1>3, ListEmpty, SetOf
  <1> QED
    BY <1>1, <1>2, <1>3, <1>4, AfterType

LEMMA WalkMoves ==
    ASSUME Linked, Walking, walk.at \in flagged,
           walk' = [walk EXCEPT !.at = After(list[walk.h], walk.at)], need' = need
    PROVE  Walking' /\ walk'.h = walk.h /\ walk'.at = After(list[walk.h], walk.at)
  <1>1. PICK n : n = After(list[walk.h], walk.at)
    OBVIOUS
  <1>2. n \in ToSet(list[walk.h]) \cup {NoQ} /\ walk.h \in Hwqs /\ n \in Txqs \cup {NoQ}
    BY <1>1, WalkAt
  <1>3. walk' = [walk EXCEPT !.at = n]
    BY <1>1
  <1>4. /\ walk' \in [h : Hwqs \cup {0}, at : Txqs \cup {NoQ}, rest : SUBSET Hwqs]
        /\ walk'.h = walk.h /\ walk'.at = n
    BY <1>2, <1>3 DEF Walking
  <1>5. walk'.at # NoQ => HwqOf[walk'.at] = walk'.h
    BY <1>2, <1>4 DEF Linked
  <1> QED
    BY <1>1, <1>2, <1>4, <1>5 DEF Walking

LEMMA WalkActiveLists ==
    ASSUME Linked, Walking, WalkActive
    PROVE  \/ DelFromHwList({walk.at})
           \/ UNCHANGED <<list, flagged>>
           \/ /\ flagged' = flagged
              /\ list' = [list EXCEPT ![walk.h] = Append(Tail(@), Head(@))]
  BY DEF WalkActive

\* The list that a queue joins is not empty.
LEMMA QueueSkbFacts ==
    ASSUME Types, Linked, Walking, NEW s \in Senders, QueueSkb(s), stop[sender[s]] = {}
    PROVE  /\ sender[s] \in Txqs /\ Order({sender[s]}, Tids) /\ AddToHwList({sender[s]}, Tids)
           /\ HwqOf[sender[s]] \in Hwqs
           /\ walk' = [h |-> HwqOf[sender[s]], at |-> Head(list'[HwqOf[sender[s]]]), rest |-> {}]
           /\ Head(list'[HwqOf[sender[s]]]) \in ToSet(list'[HwqOf[sender[s]]])
           /\ Reach(list'[HwqOf[sender[s]]], Head(list'[HwqOf[sender[s]]]), sender[s])
           /\ Walking' /\ Free
  <1>1. PICK q, h : q = sender[s] /\ h = HwqOf[q]
    OBVIOUS
  <1>2. q \in Txqs /\ h \in Hwqs
    BY <1>1 DEF QueueSkb, Types, Hwqs
  <1>3. /\ AddToHwList({q}, Tids) /\ need' = need \ {h} /\ Free
        /\ walk' = [h |-> h, at |-> Head(list'[h]), rest |-> {}]
    BY <1>1 DEF QueueSkb
  <1>4. Order({q}, Tids)
    BY <1>2, Orders
  <1>5. Linked' /\ flagged' = flagged \cup {q}
    BY <1>3, <1>4, AddFacts
  <1>6. q \in ToSet(list'[h]) /\ list'[h] \in Seq(Txqs)
    BY <1>1, <1>2, <1>5 DEF Linked
  <1>7. list'[h] # <<>>
    BY <1>6, ListEmpty
  <1>8. Head(list'[h]) \in ToSet(list'[h]) /\ Reach(list'[h], Head(list'[h]), q)
    BY <1>6, <1>7, HeadFacts
  <1>9. Head(list'[h]) \in Txqs /\ HwqOf[Head(list'[h])] = h
    BY <1>2, <1>5, <1>6, <1>8, SetOf DEF Linked
  <1>10. Walking'
    <2>1. walk' \in [h : Hwqs \cup {0}, at : Txqs \cup {NoQ}, rest : SUBSET Hwqs]
      BY <1>2, <1>3, <1>9
    <2>2. need' \subseteq Hwqs
      BY <1>3 DEF Walking
    <2>3. walk'.h = h /\ walk'.at = Head(list'[h])
      BY <1>3
    <2> QED
      BY <2>1, <2>2, <2>3, <1>2, <1>9 DEF Walking
  <1> QED
    BY <1>1, <1>2, <1>3, <1>4, <1>8, <1>10

Shape == Linked /\ Walking

LEMMA ShapeStep ==
    ASSUME Types, Whole, Shape, [Next]_vars
    PROVE  Shape'
  <1> USE DEF Shape
  <1>0. ASSUME UNCHANGED walk, need' \subseteq need \cup Hwqs PROVE Walking'
    BY <1>0 DEF Walking
  <1>1. CASE Keeps
    <2>1. Linked'
      BY <1>1 DEF Keeps, Linked
    <2> QED
      BY <2>1, <1>0, <1>1 DEF Keeps
  <1>2. CASE Adds
    <2>1. Linked'
      BY <1>2, AddFacts DEF Adds
    <2> QED
      BY <2>1, <1>0, <1>2 DEF Adds
  <1>3. CASE Dels
    <2>1. Linked'
      BY <1>3, DelFacts DEF Dels
    <2> QED
      BY <2>1, <1>0, <1>3 DEF Dels
  <1>4. CASE WalkActive
    <2>1. /\ walk.at \in flagged /\ need' = need
          /\ walk' = [walk EXCEPT !.at = After(list[walk.h], walk.at)]
      BY <1>4 DEF WalkActive
    <2>2. Walking'
      BY <2>1, WalkMoves
    <2>3. walk.h \in Hwqs /\ list[walk.h] # <<>>
      BY <2>1, WalkAt
    <2>4. Linked'
      <3>1. CASE DelFromHwList({walk.at})
        BY <3>1, DelFacts
      <3>2. CASE UNCHANGED <<list, flagged>>
        BY <3>2 DEF Linked
      <3>3. CASE flagged' = flagged /\ list' = [list EXCEPT ![walk.h] = Append(Tail(@), Head(@))]
        BY <3>3, <2>3, RotateLists
      <3> QED
        BY <1>4, <3>1, <3>2, <3>3, WalkActiveLists
    <2> QED
      BY <2>2, <2>4
  <1>5. CASE WalkInactive
    <2>1. /\ walk.at \in flagged /\ need' = need /\ DelFromHwList({walk.at})
          /\ walk' = [walk EXCEPT !.at = After(list[walk.h], walk.at)]
      BY <1>5 DEF WalkInactive
    <2> QED
      BY <2>1, WalkMoves, DelFacts
  <1>6. CASE WalkEnd \/ Task
    <2>1. /\ WalkOn(walk.rest) \/ WalkOn(need)
          /\ UNCHANGED <<flagged, list>>
      BY <1>6 DEF WalkEnd, Task
    <2>2. walk.rest \in SUBSET Hwqs /\ need \in SUBSET Hwqs
      BY DEF Walking
    <2>3. Linked'
      BY <2>1 DEF Linked
    <2>4. /\ walk' \in [h : Hwqs \cup {0}, at : Txqs \cup {NoQ}, rest : SUBSET Hwqs] /\ need' \subseteq Hwqs
          /\ walk' # Idle => walk'.h \in Hwqs
          /\ walk'.at # NoQ => walk'.h \in Hwqs /\ walk'.at \in ToSet(list[walk'.h])
      BY <2>1, <2>2, WalkOnFacts
    <2>5. Walking'
      BY <2>4 DEF Walking, Linked
    <2> QED
      BY <2>3, <2>5
  <1>7. CASE StaInit
    <2>1. flagged' = {} /\ UNCHANGED <<list, need, walk>>
      BY <1>7 DEF StaInit
    <2> QED
      BY <2>1, <1>0 DEF Linked
  <1>8. CASE ConfirmLink
    <2>1. walk' = walk /\ need' = need \cup {HwqOf[cfm]} /\ HwqOf[cfm] \in Hwqs
      BY <1>8 DEF ConfirmLink, Types, Hwqs
    <2>2. Linked'
      BY <1>8, ConfirmLinkFacts DEF Types
    <2> QED
      BY <2>1, <2>2, <1>0
  <1>9. ASSUME NEW s \in Senders, QueueSkb(s) PROVE Shape'
    <2>1. CASE stop[sender[s]] = {}
      <3>1. Walking'
        BY <1>9, <2>1, QueueSkbFacts
      <3>2. Linked'
        BY <1>9, <2>1, QueueSkbFacts, AddFacts
      <3> QED
        BY <3>1, <3>2
    <2>2. CASE stop[sender[s]] # {}
      <3>1. UNCHANGED <<flagged, list, need, walk>>
        BY <1>9, <2>2 DEF QueueSkb, schedVars
      <3> QED
        BY <3>1, <1>0 DEF Linked
    <2> QED
      BY <2>1, <2>2
  <1> QED
    BY <1>1, <1>2, <1>3, <1>4, <1>5, <1>6, <1>7, <1>8, <1>9, Kinds

LEMMA WholeStep ==
    ASSUME Types, Life, Whole, [Next]_vars
    PROVE  Whole'
  <1> USE DEF envVars, schedVars, queueVars, flowVars, psVars, lifeVars, histVars
  <1>0. ASSUME UNCHANGED <<valid, add, active, dq, flushing>> PROVE Whole'
    BY <1>0 DEF Whole
  <1>1. ASSUME NEW s \in Senders, QueueSkb(s) \/ (\E q \in Txqs : Xmit(s, q)) PROVE Whole'
    BY <1>1, <1>0 DEF QueueSkb, Xmit
  <1>2. CASE WalkActive \/ WalkInactive \/ WalkEnd \/ Task
    BY <1>2, <1>0 DEF WalkActive, WalkInactive, WalkEnd, Task
  <1>3. ASSUME NEW on \in BOOLEAN, PsInd(on) PROVE Whole'
    BY <1>3, <1>0 DEF PsInd
  <1>4. CASE Interrupt \/ (\E b \in BOOLEAN : BusBusy(b)) \/ ConfirmLink
    BY <1>4, <1>0 DEF Interrupt, BusBusy, ConfirmLink
  <1>5. ASSUME NEW n \in Requests, NEW i \in PsIds, TrafficReq(n, i) PROVE Whole'
    BY <1>5, <1>0 DEF TrafficReq
  <1>6. ASSUME NEW r, VifStop(r) \/ \E kick \in BOOLEAN : VifStart(r, kick) PROVE Whole'
    BY <1>6, <1>0 DEF VifStop, VifStart
  <1>7. CASE DelStation
    BY <1>7 DEF DelStation, Whole
  <1>8. CASE Deinit
    BY <1>8 DEF Deinit, Whole
  <1>9. CASE Flush
    BY <1>9 DEF Flush, Whole
  <1>10. CASE AddStation
    BY <1>10 DEF AddStation, Whole
  <1>11. CASE StaInit
    BY <1>11 DEF StaInit, Whole, Life
  <1>12. CASE Added
    BY <1>12 DEF Added, Whole
  <1>13. ASSUME NEW pm \in BOOLEAN, LinkStation(pm) PROVE Whole'
    BY <1>13 DEF LinkStation, Whole
  <1>14. ASSUME NEW c \in fw, Confirm(c[1], c[2]) \/ Retry(c[1], c[2]) PROVE Whole'
    BY <1>14, <1>0 DEF Confirm, Retry
  <1>15. ASSUME NEW q \in Txqs, CreditUpdate(q) PROVE Whole'
    BY <1>15, <1>0 DEF CreditUpdate
  <1>16. CASE UNCHANGED vars
    BY <1>16, <1>0 DEF vars
  <1> QED
    BY <1>1, <1>2, <1>3, <1>4, <1>5, <1>6, <1>7, <1>8, <1>9, <1>10, <1>11, <1>12, <1>13, <1>14, <1>15, <1>16
       DEF Next, VifBack, CsaEnd, CsaFinish

\* Who sends, and who asks the firmware for a station.
Moves ==
    /\ UNCHANGED <<events, ps_id>>
    /\ add' = "asked" => add = "asked" \/ AddStation
    /\ \A s \in Senders : sender'[s] = sender[s] \/ sender'[s] = NoQ \/ sender'[s] \in active

LEMMA MovesStep ==
    ASSUME Types, [Next]_vars
    PROVE  Moves
  <1> USE DEF envVars, lifeVars
  <1>0. ASSUME UNCHANGED <<events, ps_id, add, sender>> PROVE Moves
    BY <1>0 DEF Moves
  <1>1. ASSUME NEW s \in Senders, QueueSkb(s) PROVE Moves
    BY <1>1 DEF QueueSkb, Moves, Types
  <1>2. ASSUME NEW s \in Senders, NEW q \in Txqs, Xmit(s, q) PROVE Moves
    BY <1>2 DEF Xmit, Moves, Types
  <1>3. CASE WalkActive \/ WalkInactive \/ WalkEnd \/ Task
    BY <1>3, <1>0 DEF WalkActive, WalkInactive, WalkEnd, Task
  <1>4. ASSUME NEW on \in BOOLEAN, PsInd(on) PROVE Moves
    BY <1>4, <1>0 DEF PsInd
  <1>5. CASE Interrupt \/ (\E b \in BOOLEAN : BusBusy(b)) \/ ConfirmLink
    BY <1>5, <1>0 DEF Interrupt, BusBusy, ConfirmLink
  <1>6. ASSUME NEW n \in Requests, NEW i \in PsIds, TrafficReq(n, i) PROVE Moves
    BY <1>6, <1>0 DEF TrafficReq
  <1>7. ASSUME NEW r, VifStop(r) \/ \E kick \in BOOLEAN : VifStart(r, kick) PROVE Moves
    BY <1>7, <1>0 DEF VifStop, VifStart
  <1>8. CASE DelStation \/ Deinit \/ Flush
    BY <1>8, <1>0 DEF DelStation, Deinit, Flush
  <1>9. CASE AddStation
    BY <1>9 DEF AddStation, Moves
  <1>10. CASE StaInit
    BY <1>10 DEF StaInit, Moves
  <1>11. CASE Added
    BY <1>11 DEF Added, Moves
  <1>12. ASSUME NEW pm \in BOOLEAN, LinkStation(pm) PROVE Moves
    BY <1>12 DEF LinkStation, Moves
  <1>13. ASSUME NEW c \in fw, Confirm(c[1], c[2]) \/ Retry(c[1], c[2]) PROVE Moves
    BY <1>13, <1>0 DEF Confirm, Retry
  <1>14. ASSUME NEW q \in Txqs, CreditUpdate(q) PROVE Moves
    BY <1>14, <1>0 DEF CreditUpdate
  <1>15. CASE UNCHANGED vars
    BY <1>15, <1>0 DEF vars
  <1> QED
    BY <1>1, <1>2, <1>3, <1>4, <1>5, <1>6, <1>7, <1>8, <1>9, <1>10, <1>11, <1>12, <1>13, <1>14, <1>15
       DEF Next, VifBack, CsaEnd, CsaFinish

\* A queue that is scheduled is active, or the walk under way will come to it.
InTurn == \A q \in flagged \ active : walk.at # NoQ /\ Reach(list[walk.h], walk.at, q)

\* The lists are sound and the walk is at a queue that is scheduled.
Listed ==
    /\ OneEntry /\ InTurn
    /\ walk.at # NoQ => walk.at \in flagged

\* While the firmware is asked for the station nobody sends and nothing is scheduled.
Asked == add = "asked" => flagged = {} /\ \A s \in Senders : sender[s] = NoQ

\* What holds of the schedule while confirmations hold tx_lock and nobody asks for the
\* traffic of a station that is still being added.
Scheduled == Without({"unlocked", "early"}) => Listed /\ Asked

LEMMA FreeFacts ==
    ASSUME Free, Listed
    PROVE  walk.at = NoQ /\ flagged \subseteq active
  BY DEF Free, Idle, Listed, InTurn

\* The walk goes on from a queue that leaves the list, or is active.
LEMMA WalkListed ==
    ASSUME Shape, Listed, walk.at \in flagged, walk'.h = walk.h,
           walk'.at = After(list[walk.h], walk.at), active' = active,
           OneEntry', flagged \ {walk.at} \subseteq flagged', flagged' \subseteq flagged,
           walk.at \in active \/ walk.at \notin flagged',
           \A p \in Txqs : p # walk.at /\ Reach(list[walk.h], walk.at, p) =>
              (After(list[walk.h], walk.at) # NoQ => Reach(list'[walk.h], After(list[walk.h], walk.at), p))
    PROVE  Listed'
  <1>1. PICK q, h, n : q = walk.at /\ h = walk.h /\ n = After(list[h], q)
    OBVIOUS
  <1>2. h \in Hwqs /\ q \in ToSet(list[h]) /\ q \in Txqs /\ list[h] \in Seq(Txqs)
        /\ n \in ToSet(list[h]) \cup {NoQ} /\ IsInjective(list[h])
        /\ ToSet(list[h]) = {p \in flagged : HwqOf[p] = h}
    BY <1>1, WalkAt DEF Shape, Listed, OneEntry
  <1>3. n # q /\ \A p \in Txqs : p # q /\ Reach(list[h], q, p) => n # NoQ
    BY <1>1, <1>2, AfterFacts
  <1>4. n # NoQ => n \in flagged'
    BY <1>1, <1>2, <1>3
  <1>5. ASSUME NEW p \in flagged', p \notin active PROVE n # NoQ /\ Reach(list'[h], n, p)
    <2>1. p # q /\ p \in flagged /\ p \in Txqs
      BY <1>1, <1>5 DEF Shape, Linked
    <2>2. Reach(list[h], q, p)
      BY <1>1, <1>5, <2>1 DEF Listed, InTurn
    <2>3. n # NoQ
      BY <2>1, <2>2, <1>3
    <2> QED
      BY <2>1, <2>2, <2>3, <1>1
  <1> QED
    BY <1>1, <1>4, <1>5 DEF Listed, InTurn

LEMMA ListedWalkActive ==
    ASSUME Types, Shape, Listed, WalkActive
    PROVE  Listed'
  <1>1. PICK q, h, n : q = walk.at /\ h = walk.h /\ n = After(list[h], q)
    OBVIOUS
  <1>2. /\ walk.at \in flagged /\ walk.at \in active /\ need' = need /\ active' = active
        /\ walk' = [walk EXCEPT !.at = After(list[walk.h], walk.at)]
    BY DEF WalkActive
  <1>3. walk'.h = h /\ walk'.at = n
    BY <1>1, <1>2, WalkMoves DEF Shape
  <1>4. h \in Hwqs /\ q \in ToSet(list[h]) /\ q \in Txqs /\ list[h] \in Seq(Txqs) /\ list[h] # <<>>
        /\ IsInjective(list[h]) /\ n \in Txqs \cup {NoQ}
    BY <1>1, <1>2, WalkAt DEF Shape, Listed, OneEntry
  <1>5. /\ n # q
        /\ \A p \in Txqs : p # q /\ Reach(list[h], q, p) =>
              \E i, j \in 2 .. Len(list[h]) : i <= j /\ list[h][i] = n /\ list[h][j] = p
    BY <1>1, <1>4, AfterFacts
  <1>6. \A i \in 2 .. Len(list[h]) : i \in 1 .. Len(list[h])
    OBVIOUS
  <1>7. \A p \in Txqs : p # q /\ Reach(list[h], q, p) => Reach(list[h], n, p)
    BY <1>5, <1>6, Zenon DEF Reach
  <1>8. /\ OneEntry' /\ flagged \ {q} \subseteq flagged' /\ flagged' \subseteq flagged
        /\ \A p \in Txqs : p # q /\ Reach(list[h], q, p) /\ n # NoQ => Reach(list'[h], n, p)
    <2>1. CASE DelFromHwList({walk.at})
      <3>1. /\ flagged' = flagged \ {q} /\ (OneEntry => OneEntry')
            /\ \A p, m \in Txqs \ {q} : Reach(list[h], m, p) => Reach(list'[h], m, p)
        BY <2>1, <1>1, <1>4, DelFacts DEF Shape
      <3> QED
        BY <3>1, <1>4, <1>5, <1>7 DEF Listed
    <2>2. CASE UNCHANGED <<list, flagged>>
      BY <2>2, <1>7 DEF Listed, OneEntry
    <2>3. CASE flagged' = flagged /\ list' = [list EXCEPT ![walk.h] = Append(Tail(@), Head(@))]
      <3>1. /\ OneEntry => OneEntry'
            /\ \A i, j \in 2 .. Len(list[h]) : i <= j => Reach(list'[h], list[h][i], list[h][j])
        BY <2>3, <1>1, <1>4, RotateLists DEF Shape
      <3>2. \A p \in Txqs : p # q /\ Reach(list[h], q, p) => Reach(list'[h], n, p)
        BY <3>1, <1>5, Zenon
      <3> QED
        BY <3>1, <3>2, <2>3 DEF Listed
    <2> QED
      BY <2>1, <2>2, <2>3, WalkActiveLists DEF Shape
  <1> QED
    BY <1>1, <1>2, <1>3, <1>8, WalkListed

LEMMA ListedWalkInactive ==
    ASSUME Types, Shape, Listed, WalkInactive
    PROVE  Listed'
  <1>1. PICK q, h, n : q = walk.at /\ h = walk.h /\ n = After(list[h], q)
    OBVIOUS
  <1>2. /\ walk.at \in flagged /\ need' = need /\ active' = active /\ DelFromHwList({walk.at})
        /\ walk' = [walk EXCEPT !.at = After(list[walk.h], walk.at)]
    BY DEF WalkInactive
  <1>3. walk'.h = h /\ walk'.at = n
    BY <1>1, <1>2, WalkMoves DEF Shape
  <1>4. h \in Hwqs /\ q \in ToSet(list[h]) /\ q \in Txqs /\ list[h] \in Seq(Txqs)
        /\ IsInjective(list[h]) /\ n \in Txqs \cup {NoQ}
    BY <1>1, <1>2, WalkAt DEF Shape, Listed, OneEntry
  <1>5. /\ n # q
        /\ \A p \in Txqs : p # q /\ Reach(list[h], q, p) =>
              \E i, j \in 2 .. Len(list[h]) : i <= j /\ list[h][i] = n /\ list[h][j] = p
    BY <1>1, <1>4, AfterFacts
  <1>6. \A i \in 2 .. Len(list[h]) : i \in 1 .. Len(list[h])
    OBVIOUS
  <1>7. \A p \in Txqs : p # q /\ Reach(list[h], q, p) => Reach(list[h], n, p)
    BY <1>5, <1>6, Zenon DEF Reach
  <1>8. /\ flagged' = flagged \ {q} /\ (OneEntry => OneEntry')
        /\ \A p, m \in Txqs \ {q} : Reach(list[h], m, p) => Reach(list'[h], m, p)
    BY <1>1, <1>2, <1>4, DelFacts DEF Shape
  <1>9. \A p \in Txqs : p # q /\ Reach(list[h], q, p) /\ n # NoQ => Reach(list'[h], n, p)
    BY <1>4, <1>5, <1>7, <1>8
  <1>10. OneEntry'
    BY <1>8 DEF Listed
  <1> QED
    BY <1>1, <1>2, <1>3, <1>8, <1>9, <1>10, WalkListed

LEMMA ListedQueueSkb ==
    ASSUME Types, Shape, Listed, NEW s \in Senders, QueueSkb(s)
    PROVE  Listed'
  <1>1. PICK q, h : q = sender[s] /\ h = HwqOf[q]
    OBVIOUS
  <1>2. active' = active
    BY DEF QueueSkb
  <1>3. CASE stop[q] # {}
    <2>1. UNCHANGED <<flagged, list, walk>>
      BY <1>1, <1>3 DEF QueueSkb, schedVars
    <2> QED
      BY <2>1, <1>2 DEF Listed, OneEntry, InTurn
  <1>4. CASE stop[q] = {}
    <2>1. /\ q \in Txqs /\ h \in Hwqs /\ Order({q}, Tids) /\ AddToHwList({q}, Tids) /\ Free
          /\ walk' = [h |-> h, at |-> Head(list'[h]), rest |-> {}]
          /\ Head(list'[h]) \in ToSet(list'[h]) /\ Reach(list'[h], Head(list'[h]), q)
      BY <1>1, <1>4, QueueSkbFacts DEF Shape
    <2>2. /\ Linked' /\ flagged' = flagged \cup {q} /\ OneEntry'
      BY <2>1, AddFacts DEF Shape, Listed
    <2>3. list'[h] \in Seq(Txqs) /\ ToSet(list'[h]) \subseteq flagged'
      BY <2>1, <2>2 DEF Linked, OneEntry
    <2>4. walk'.h = h /\ walk'.at = Head(list'[h]) /\ Head(list'[h]) # NoQ
      BY <2>1, <2>3, Constants, SetOf
    <2>5. flagged \subseteq active
      BY <2>1, FreeFacts
    <2>6. ASSUME NEW p \in flagged', p \notin active PROVE p = q
      BY <2>2, <2>5, <2>6
    <2> QED
      BY <1>2, <2>1, <2>2, <2>3, <2>4, <2>6 DEF Listed, InTurn
  <1> QED
    BY <1>3, <1>4

LEMMA ListedStep ==
    ASSUME Types, Life, Whole, Shape, Locked, Without({"unlocked", "early"}), Listed, Asked, [Next]_vars
    PROVE  Listed'
  <1>1. CASE Keeps
    BY <1>1 DEF Keeps, Listed, OneEntry, InTurn
  <1>2. CASE Adds
    <2>1. PICK S, order : Order(S, order) /\ AddToHwList(S, order) /\ (Without({"early"}) => S \subseteq active)
      BY <1>2 DEF Adds
    <2>2. flagged' = flagged \cup S /\ OneEntry'
      BY <2>1, AddFacts DEF Shape, Listed
    <2>3. S \subseteq active
      BY <2>1 DEF Without
    <2>4. walk.at = NoQ /\ flagged \subseteq active /\ UNCHANGED <<walk, active>>
      BY <1>2, FreeFacts DEF Adds
    <2> QED
      BY <2>2, <2>3, <2>4 DEF Listed, InTurn
  <1>3. CASE Dels
    <2>1. PICK S : DelFromHwList(S) /\ active \ S \subseteq active'
      BY <1>3 DEF Dels
    <2>2. flagged' = flagged \ S /\ OneEntry'
      BY <2>1, DelFacts DEF Shape, Listed
    <2>3. walk.at = NoQ /\ flagged \subseteq active /\ UNCHANGED walk
      BY <1>3, FreeFacts DEF Dels
    <2> QED
      BY <2>1, <2>2, <2>3 DEF Listed, InTurn
  <1>4. CASE WalkActive
    BY <1>4, ListedWalkActive
  <1>5. CASE WalkInactive
    BY <1>5, ListedWalkInactive
  <1>6. CASE WalkEnd \/ Task
    <2>1. /\ walk.at = NoQ /\ UNCHANGED <<active, flagged, list>>
          /\ WalkOn(walk.rest) \/ WalkOn(need)
      BY <1>6 DEF WalkEnd, Task, Free, Idle
    <2>2. walk.rest \in SUBSET Hwqs /\ need \in SUBSET Hwqs
      BY DEF Shape, Walking
    <2>3. walk'.at # NoQ => walk'.h \in Hwqs /\ walk'.at \in ToSet(list[walk'.h])
      BY <2>1, <2>2, WalkOnFacts DEF Shape
    <2>4. walk'.at # NoQ => walk'.at \in flagged
      BY <2>3 DEF Listed, OneEntry
    <2>5. flagged \subseteq active
      BY <2>1 DEF Listed, InTurn
    <2> QED
      BY <2>1, <2>4, <2>5 DEF Listed, InTurn, OneEntry
  <1>7. CASE StaInit
    <2>1. flagged' = {} /\ UNCHANGED <<list, walk>> /\ flagged = {}
      BY <1>7 DEF StaInit, Asked
    <2> QED
      BY <2>1 DEF Listed, OneEntry, InTurn
  <1>8. ~ConfirmLink
    BY DEF ConfirmLink, Locked, Without
  <1>9. ASSUME NEW s \in Senders, QueueSkb(s) PROVE Listed'
    BY <1>9, ListedQueueSkb
  <1> QED
    BY <1>1, <1>2, <1>3, <1>4, <1>5, <1>6, <1>7, <1>8, <1>9, Kinds

LEMMA AskedStep ==
    ASSUME Types, Life, Whole, Shape, Locked, Without({"unlocked", "early"}), Listed, Asked, [Next]_vars
    PROVE  Asked'
  <1> SUFFICES ASSUME add' = "asked" PROVE flagged' = {} /\ \A s \in Senders : sender'[s] = NoQ
    BY DEF Asked
  <1>1. Moves
    BY MovesStep
  <1>2. CASE AddStation
    <2>1. /\ ~valid /\ add = "none" /\ dq = <<>> /\ Free /\ UNCHANGED <<sender, flagged>>
          /\ \A s \in Senders : sender[s] = NoQ
      BY <1>2 DEF AddStation, schedVars
    <2>2. ToSet(dq) = {}
      BY <2>1, EmptySeq, ListEmpty
    <2>3. active = {}
      BY <2>1, <2>2 DEF Life
    <2> QED
      BY <2>1, <2>3, FreeFacts
  <1>3. CASE add = "asked"
    <2>1. /\ active = {} /\ flagged = {} /\ \A s \in Senders : sender[s] = NoQ
      BY <1>3 DEF Life, Asked
    <2>2. \A s \in Senders : sender'[s] = NoQ
      BY <1>1, <2>1 DEF Moves
    <2>3. CASE Keeps
      BY <2>1, <2>2, <2>3 DEF Keeps
    <2>4. CASE Adds
      <3>1. PICK S, order : Order(S, order) /\ AddToHwList(S, order) /\ (Without({"early"}) => S \subseteq active)
        BY <2>4 DEF Adds
      <3> QED
        BY <3>1, <2>1, <2>2 DEF Without, AddToHwList
    <2>5. CASE Dels
      BY <2>1, <2>2, <2>5 DEF Dels, DelFromHwList
    <2>6. ~WalkActive /\ ~WalkInactive /\ ~ConfirmLink /\ \A s \in Senders : ~QueueSkb(s)
      BY <2>1 DEF WalkActive, WalkInactive, QueueSkb, ConfirmLink, Locked, Without
    <2>7. WalkEnd \/ Task => flagged' = flagged
      BY DEF WalkEnd, Task
    <2>8. ~StaInit
      BY DEF StaInit
    <2> QED
      BY <2>1, <2>2, <2>3, <2>4, <2>5, <2>6, <2>7, <2>8, Kinds
  <1> QED
    BY <1>1, <1>2, <1>3 DEF Moves

LEMMA ScheduledStep ==
    ASSUME Types, Life, Whole, Shape, Locked, Scheduled, [Next]_vars
    PROVE  Scheduled'
  <1> SUFFICES ASSUME Without({"unlocked", "early"})' PROVE Listed' /\ Asked'
    BY DEF Scheduled
  <1>1. Without({"unlocked", "early"})
    BY MovesStep DEF Moves, Without
  <1> QED
    BY <1>1, ListedStep, AskedStep DEF Scheduled

-----------------------------------------------------------------------------
(* What a traffic request grants and a round of the walk pushes             *)

LEMMA MaxOfTwo ==
    ASSUME NEW a \in Int, NEW b \in Int
    PROVE  Max({a, b}) = IF a >= b THEN a ELSE b
  BY DEF Max

LEMMA OfferNat ==
    ASSUME Types, NEW q \in Txqs, NEW i
    PROVE  Offer(q, i) \in Nat
  <1>1. credits[q] \in Int /\ Len(sk[q]) \in Nat
    BY LenProperties DEF Types
  <1>2. Wrap \in Nat \ {0}
    BY NumbersAssumption
  <1>3. credits[q] % Wrap \in Nat
    BY <1>1, <1>2
  <1> QED
    BY <1>1, <1>3 DEF Offer

LEMMA ShareNat ==
    ASSUME Types, NEW n \in 1 .. Len(Prio), NEW i, NEW req \in Int
    PROVE  Share(n, i, req) \in Nat /\ Share(n, i, req) <= Offer(Prio[n], i)
  <1> DEFINE f == [q \in Data |-> Offer(q, i)]
  <1>1. \A m \in 1 .. Len(Prio) : f[Prio[m]] \in Nat /\ f[Prio[m]] = Offer(Prio[m], i)
    BY PrioFacts, Constants, OfferNat
  <1>2. PICK b : b = SumOver(Prio, f, n - 1)
    OBVIOUS
  <1> HIDE DEF f
  <1>3. b \in Nat
    <2>1. n - 1 \in 0 .. Len(Prio) /\ Len(Prio) \in Nat
      BY PrioFacts
    <2> QED
      BY <1>1, <1>2, <2>1, SumNat
  <1>4. PICK o \in Nat : o = Offer(Prio[n], i)
    BY <1>1
  <1>5. Share(n, i, req) = Max({0, Min({o, req - b})})
    BY <1>2, <1>4, Zenon DEF Share, f
  <1>6. PICK m \in Int : m = req - b
    BY <1>3
  <1>7. Min({o, m}) = IF o <= m THEN o ELSE m
    BY <1>4, MinOfTwo
  <1>8. PICK x \in Int : x = Min({o, m}) /\ x <= o
    BY <1>4, <1>7
  <1>9. Max({0, x}) = IF 0 >= x THEN 0 ELSE x
    BY MaxOfTwo
  <1> QED
    BY <1>4, <1>5, <1>6, <1>8, <1>9

\* A traffic request grants each queue its share of the frames of PS id i.
Grants(share, i) ==
    /\ share \in [Txqs -> Nat] /\ \A q \in Txqs : share[q] <= Offer(q, i)
    /\ limit' = [q \in Txqs |-> IF share[q] > 0 THEN share[q] % LimitWrap ELSE limit[q]]
    /\ sp' = [sp EXCEPT ![i] = Total(share, i) % Wrap] /\ sp[i] = 0
    /\ flagged' = flagged \cup {q \in Txqs : share[q] > 0}

LEMMA TrafficGrants ==
    ASSUME Types, \A i \in PsIds : ready[i] \in Int /\ sp[i] \in Int,
           NEW n \in Requests, NEW i \in PsIds, TrafficReq(n, i)
    PROVE  \E share : Grants(share, i)
  <1> DEFINE all == ready[i] - sp[i]
             want == IF n = 0 \/ n > all THEN all ELSE n
             share == [q \in Txqs |->
                 IF q \in Data THEN Share(CHOOSE m \in DOMAIN Prio : Prio[m] = q, i, want) ELSE 0]
             served == {q \in Data : share[q] \in 1 .. Offer(q, i)}
  <1>1. /\ limit' = [q \in Txqs |-> IF q \in served THEN share[q] % LimitWrap ELSE limit[q]]
        /\ sp' = [sp EXCEPT ![i] = Total(share, i) % Wrap] /\ sp[i] = 0
        /\ AddToHwList(served, Prio)
    BY Zenon DEF TrafficReq
  <1>2. want \in Int
    BY NumbersAssumption
  <1> HIDE DEF want
  <1>3. ASSUME NEW q \in Data
        PROVE  Share(CHOOSE m \in DOMAIN Prio : Prio[m] = q, i, want) \in 0 .. Offer(q, i)
    <2>1. PICK k : k = CHOOSE m \in DOMAIN Prio : Prio[m] = q
      OBVIOUS
    <2>2. k \in 1 .. Len(Prio) /\ Prio[k] = q
      BY <2>1, PrioFacts
    <2>3. Share(k, i, want) \in Nat /\ Share(k, i, want) <= Offer(Prio[k], i)
      BY <2>2, <1>2, ShareNat
    <2>4. Offer(q, i) \in Nat
      BY OfferNat, Constants
    <2> QED
      BY <2>1, <2>2, <2>3, <2>4
  <1>4. ASSUME NEW q \in Txqs PROVE share[q] \in Nat /\ share[q] <= Offer(q, i) /\ (share[q] > 0 <=> q \in served)
    <2>1. Offer(q, i) \in Nat
      BY OfferNat
    <2> QED
      BY <1>3, <2>1
  <1>5. share \in [Txqs -> Nat] /\ \A q \in Txqs : share[q] <= Offer(q, i)
    <2>1. share = [q \in Txqs |-> share[q]]
      OBVIOUS
    <2> HIDE DEF share, served
    <2> QED
      BY <2>1, <1>4
  <1>6. served \subseteq Txqs
    BY Constants
  <1> HIDE DEF share, served
  <1>7. limit' = [q \in Txqs |-> IF share[q] > 0 THEN share[q] % LimitWrap ELSE limit[q]]
    BY <1>1, <1>4
  <1>8. flagged' = flagged \cup {q \in Txqs : share[q] > 0}
    BY <1>1, <1>4, <1>6 DEF AddToHwList
  <1>9. Grants(share, i)
    BY <1>1, <1>5, <1>7, <1>8, Zenon DEF Grants
  <1> QED
    BY <1>9

\* A round of the walk pushes k frames of q, leaves l of its push limit and takes what is
\* left of the request from sp_cnt.
Pushes(q, k, rest, l) ==
    /\ q = walk.at /\ q \in Txqs /\ q \in active /\ q \in flagged
    /\ credits[q] > 0 /\ sk[q] # <<>> /\ k = NPush(q) /\ k \in 0 .. Len(sk[q])
    /\ PushFrames(q, k) /\ PushPs(q, k, rest)
    /\ limit' = [limit EXCEPT ![q] = l] /\ {l, rest} \subseteq Nat /\ l <= limit[q]
    /\ limit[q] <= k => l = 0 /\ rest = 0
    /\ flagged' = IF Done(q) THEN flagged \ {q} ELSE flagged

LEMMA PushStep ==
    ASSUME Types, WalkActive
    PROVE  \E q, k, rest, l : Pushes(q, k, rest, l)
  <1>1. PICK q, k : q = walk.at /\ k = NPush(q)
    OBVIOUS
  <1>2. /\ q \in flagged /\ q \in active /\ q \in Txqs /\ credits[q] > 0 /\ sk[q] # <<>>
    BY <1>1 DEF WalkActive, Types
  <1>3. k \in 0 .. Len(sk[q]) /\ limit[q] \in Nat /\ Len(sk[q]) \in Nat
    BY <1>1, <1>2, PushFacts, LenProperties DEF Types
  <1>4. PICK left \in Nat : left = (IF limit[q] > k THEN limit[q] - k ELSE 0)
    BY <1>3
  <1>5. PICK abort : abort = (left > 0 /\ ps_id[q] = "legacy")
    OBVIOUS
  <1>6. /\ PushFrames(q, k) /\ PushPs(q, k, IF abort THEN left ELSE 0)
        /\ limit' = [limit EXCEPT ![q] = IF abort THEN 0 ELSE left]
    BY <1>1, <1>4, <1>5, Zenon DEF WalkActive
  <1>7. flagged' = IF Done(q) THEN flagged \ {q} ELSE flagged
    BY <1>1 DEF WalkActive, DelFromHwList
  <1>8. PICK rest : rest = IF abort THEN left ELSE 0
    OBVIOUS
  <1>9. PICK l : l = IF abort THEN 0 ELSE left
    OBVIOUS
  <1>10. rest \in Nat /\ l \in Nat /\ l <= limit[q] /\ (limit[q] <= k => l = 0 /\ rest = 0)
    BY <1>3, <1>4, <1>8, <1>9
  <1>11. {l, rest} \subseteq Nat
    BY <1>10
  <1>12. PushPs(q, k, rest) /\ limit' = [limit EXCEPT ![q] = l]
    BY <1>6, <1>8, <1>9
  <1>13. Pushes(q, k, rest, l)
    BY <1>1, <1>2, <1>3, <1>6, <1>7, <1>10, <1>11, <1>12 DEF Pushes
  <1> QED
    BY <1>13

\* pkt_ready and sp_cnt are 16 bits wide.
Counters ==
    /\ ps_id \in [Txqs -> PsIds]
    /\ ready \in [PsIds -> 0 .. Wrap - 1] /\ sp \in [PsIds -> 0 .. Wrap - 1]

LEMMA BufferedNat ==
    ASSUME Types, NEW i
    PROVE  Buffered(i) \in Nat
  <1>1. \A q \in Txqs : [p \in Txqs |-> Len(sk[p])][q] \in Nat
    BY LenProperties DEF Types
  <1> QED
    BY <1>1, TotalNat, Zenon DEF Buffered

LEMMA CountersPs ==
    ASSUME Types, Counters, PsEnable \/ PsDisable
    PROVE  Counters'
  <1>0. 0 \in 0 .. Wrap - 1
    BY NumbersAssumption
  <1>1. CASE PsEnable
    <2>1. \A i \in PsIds : Buffered(i) % Wrap \in 0 .. Wrap - 1
      BY BufferedNat, ModFacts
    <2>2. /\ ready' = [i \in PsIds |-> Buffered(i) % Wrap] /\ sp' = [i \in PsIds |-> 0] /\ ps_id' = ps_id
      BY <1>1 DEF PsEnable, envVars
    <2> QED
      BY <1>0, <2>1, <2>2 DEF Counters
  <1>2. CASE PsDisable
    BY <1>2 DEF PsDisable, envVars, Counters
  <1> QED
    BY <1>1, <1>2

LEMMA CountersCount ==
    ASSUME Counters, NEW q \in Txqs, CountReady(q), UNCHANGED <<sp, ps_id>>
    PROVE  Counters'
  <1>1. ready[ps_id[q]] \in 0 .. Wrap - 1 /\ ps_id[q] \in PsIds
    BY DEF Counters
  <1>2. ready[ps_id[q]] + 1 \in Int
    BY <1>1
  <1>3. (ready[ps_id[q]] + 1) % Wrap \in 0 .. Wrap - 1
    BY <1>2, ModFacts
  <1> QED
    BY <1>1, <1>3 DEF Counters, CountReady

LEMMA CountersWalkActive ==
    ASSUME Types, Counters, WalkActive
    PROVE  Counters'
  <1>1. PICK q, k, rest, l : Pushes(q, k, rest, l)
    BY PushStep
  <1>2. PICK i \in PsIds : i = ps_id[q]
    BY <1>1 DEF Pushes, Counters
  <1>3. k \in Int /\ rest \in Int /\ ready[i] \in 0 .. Wrap - 1 /\ sp[i] \in 0 .. Wrap - 1
    BY <1>1 DEF Pushes, Counters
  <1>4. ready[i] - k \in Int /\ sp[i] - (IF psOn THEN k ELSE 0) - rest \in Int
    BY <1>3
  <1>5. /\ (ready[i] - k) % Wrap \in 0 .. Wrap - 1
        /\ (sp[i] - (IF psOn THEN k ELSE 0) - rest) % Wrap \in 0 .. Wrap - 1
    BY <1>4, ModFacts, Zenon
  <1>6. /\ ready' = ready \/ ready' = [ready EXCEPT ![i] = (ready[i] - k) % Wrap]
        /\ sp' = [sp EXCEPT ![i] = (sp[i] - (IF psOn THEN k ELSE 0) - rest) % Wrap]
    BY <1>1, <1>2 DEF Pushes, PushPs
  <1>7. ps_id' = ps_id
    BY DEF WalkActive, envVars
  <1> QED
    BY <1>5, <1>6, <1>7 DEF Counters

LEMMA CountersStep ==
    ASSUME Types, Counters, [Next]_vars
    PROVE  Counters'
  <1> USE DEF envVars, psVars
  <1>0. ASSUME UNCHANGED <<ps_id, ready, sp>> PROVE Counters'
    BY <1>0 DEF Counters
  <1>1. ASSUME NEW s \in Senders, QueueSkb(s) PROVE Counters'
    <2>1. sender[s] \in Txqs /\ CountReady(sender[s]) /\ UNCHANGED <<sp, ps_id>>
      BY <1>1 DEF QueueSkb, Types
    <2> QED
      BY <2>1, CountersCount
  <1>2. ASSUME NEW s \in Senders, NEW q \in Txqs, Xmit(s, q) PROVE Counters'
    BY <1>2, <1>0 DEF Xmit
  <1>3. CASE WalkActive
    BY <1>3, CountersWalkActive
  <1>4. CASE WalkInactive \/ WalkEnd \/ Task
    BY <1>4, <1>0 DEF WalkInactive, WalkEnd, Task
  <1>5. ASSUME NEW on \in BOOLEAN, PsInd(on) PROVE Counters'
    BY <1>5, <1>0, CountersPs DEF PsInd
  <1>6. CASE Interrupt
    <2>1. 0 \in 0 .. Wrap - 1
      BY NumbersAssumption
    <2>2. sp' = [sp EXCEPT !["uapsd"] = 0] /\ UNCHANGED <<ready, ps_id>>
      BY <1>6 DEF Interrupt
    <2> QED
      BY <2>1, <2>2 DEF Counters
  <1>7. ASSUME NEW n \in Requests, NEW i \in PsIds, TrafficReq(n, i) PROVE Counters'
    <2>1. PICK share : Grants(share, i)
      BY <1>7, TrafficGrants DEF Counters
    <2>2. Total(share, i) \in Nat
      BY <2>1, TotalNat DEF Grants
    <2>3. Total(share, i) % Wrap \in 0 .. Wrap - 1
      BY <2>2, ModFacts
    <2>4. UNCHANGED <<ready, ps_id>>
      BY <1>7 DEF TrafficReq
    <2> QED
      BY <2>1, <2>3, <2>4 DEF Grants, Counters
  <1>8. ASSUME NEW r, VifStop(r) \/ \E kick \in BOOLEAN : VifStart(r, kick) PROVE Counters'
    BY <1>8, <1>0 DEF VifStop, VifStart
  <1>9. CASE (\E b \in BOOLEAN : BusBusy(b)) \/ ConfirmLink
    BY <1>9, <1>0 DEF BusBusy, ConfirmLink
  <1>10. CASE DelStation \/ Deinit \/ Flush \/ AddStation \/ StaInit
    BY <1>10, <1>0 DEF DelStation, Deinit, Flush, AddStation, StaInit
  <1>11. CASE Added
    BY <1>11, CountersPs DEF Added
  <1>12. ASSUME NEW pm \in BOOLEAN, LinkStation(pm) PROVE Counters'
    BY <1>12, <1>0 DEF LinkStation
  <1>13. ASSUME NEW c \in fw, Confirm(c[1], c[2]) PROVE Counters'
    BY <1>13, <1>0 DEF Confirm
  <1>14. ASSUME NEW c \in fw, Retry(c[1], c[2]) PROVE Counters'
    <2>1. c[1] \in Txqs /\ CountReady(c[1]) /\ UNCHANGED <<sp, ps_id>>
      BY <1>14 DEF Retry, Types
    <2> QED
      BY <2>1, CountersCount
  <1>15. ASSUME NEW q \in Txqs, CreditUpdate(q) PROVE Counters'
    BY <1>15, <1>0 DEF CreditUpdate
  <1>16. CASE UNCHANGED vars
    BY <1>16, <1>0 DEF vars
  <1> QED
    BY <1>1, <1>2, <1>3, <1>4, <1>5, <1>6, <1>7, <1>8, <1>9, <1>10, <1>11, <1>12, <1>13, <1>14, <1>15, <1>16
       DEF Next, VifBack, CsaEnd, CsaFinish

-----------------------------------------------------------------------------
(* pkt_ready                                                               *)

\* How the queues change: only q, which gets n frames more.
Grows(q, n) ==
    /\ q \in Txqs /\ ps_id' = ps_id /\ Len(sk'[q]) = Len(sk[q]) + n
    /\ \A p \in Txqs : p # q => sk'[p] = sk[p]

LEMMA BufferedGrows ==
    ASSUME Types, Types', NEW q, NEW n \in Int, Grows(q, n), NEW i
    PROVE  Buffered(i)' = Buffered(i) + (IF ps_id[q] = i THEN n ELSE 0)
  <1>1. PICK f, g : f = [p \in Txqs |-> Len(sk[p])] /\ g = [p \in Txqs |-> Len(sk'[p])]
    OBVIOUS
  <1>2. q \in Txqs /\ \A p \in Txqs : f[p] \in Nat /\ g[p] \in Nat
    BY <1>1, LenProperties DEF Types, Grows
  <1>3. \A p \in Txqs : p # q => g[p] = f[p]
    BY <1>1 DEF Grows
  <1>4. g[q] - f[q] = n
    BY <1>1, <1>2 DEF Grows
  <1>5. Total(g, i) = Total(f, i) + (IF ps_id[q] = i THEN g[q] - f[q] ELSE 0)
    BY <1>2, <1>3, TotalChanges
  <1>6. Buffered(i) = Total(f, i)
    BY <1>1 DEF Buffered
  <1>7. Buffered(i)' = Total(g, i)
    BY <1>1 DEF Buffered, Total, Grows
  <1> QED
    BY <1>4, <1>5, <1>6, <1>7

LEMMA RetrySk ==
    ASSUME Types, AllOrdered, NEW q, NEW f, <<q, f>> \in fw, Retry(q, f)
    PROVE  /\ q \in active /\ q \in Txqs /\ f \in Nat
           /\ sk' = [sk EXCEPT ![q] = Inserted(sk[q], nb_retry[q], f)]
           /\ Inserted(sk[q], nb_retry[q], f) \in Seq(Nat)
           /\ Len(Inserted(sk[q], nb_retry[q], f)) = Len(sk[q]) + 1
           /\ nb_retry[q] \in 0 .. Len(sk[q]) /\ Len(sk[q]) \in Nat
  <1>1. q \in active /\ q \in Txqs /\ f \in Nat
    BY DEF Retry, Types
  <1>2. sk' = [sk EXCEPT ![q] = InsertRetry(q, f)]
    BY DEF Retry
  <1>3. InsertRetry(q, f) = Inserted(sk[q], Behind(q), f)
    BY DEF InsertRetry, Inserted, Behind
  <1>4. Behind(q) = nb_retry[q] /\ nb_retry[q] \in 0 .. Len(sk[q]) /\ sk[q] \in Seq(Nat)
    BY <1>1, BehindFacts DEF Types
  <1>5. /\ Inserted(sk[q], nb_retry[q], f) \in Seq(Nat)
        /\ Len(Inserted(sk[q], nb_retry[q], f)) = Len(sk[q]) + 1
    BY <1>1, <1>4, InsertFacts, ZenonT(40)
  <1>6. Len(sk[q]) \in Nat
    BY <1>4, LenProperties
  <1> QED
    BY <1>1, <1>2, <1>3, <1>4, <1>5, <1>6, Zenon

LEMMA RetryGrows ==
    ASSUME Types, AllOrdered, NEW q, NEW f, <<q, f>> \in fw, Retry(q, f)
    PROVE  Grows(q, 1)
  <1>1. /\ q \in Txqs /\ sk' = [sk EXCEPT ![q] = Inserted(sk[q], nb_retry[q], f)]
        /\ Len(Inserted(sk[q], nb_retry[q], f)) = Len(sk[q]) + 1
    BY RetrySk
  <1>2. sk'[q] = Inserted(sk[q], nb_retry[q], f) /\ \A p \in Txqs : p # q => sk'[p] = sk[p]
    BY <1>1 DEF Types
  <1>3. ps_id' = ps_id
    BY DEF Retry, envVars
  <1> QED
    BY <1>1, <1>2, <1>3 DEF Grows

LEMMA QueueSkbGrows ==
    ASSUME Types, NEW s \in Senders, QueueSkb(s)
    PROVE  Grows(sender[s], 1)
  <1>1. PICK q \in Txqs : q = sender[s]
    BY DEF QueueSkb, Types
  <1>2. sk' = [sk EXCEPT ![q] = Append(sk[q], nf + 1)] /\ ps_id' = ps_id
    BY <1>1 DEF QueueSkb, envVars
  <1>3. Len(Append(sk[q], nf + 1)) = Len(sk[q]) + 1
    BY AppendFacts DEF Types
  <1> QED
    BY <1>1, <1>2, <1>3 DEF Grows, Types

LEMMA WalkActiveGrows ==
    ASSUME Types, WalkActive, NEW q, NEW k, NEW rest, NEW l, Pushes(q, k, rest, l)
    PROVE  Grows(q, -k)
  <1>1. /\ q \in Txqs /\ k \in 0 .. Len(sk[q]) /\ sk[q] \in Seq(Nat)
        /\ sk' = [sk EXCEPT ![q] = SubSeq(sk[q], k + 1, Len(sk[q]))]
    BY DEF Pushes, PushFrames, Types
  <1>2. Len(SubSeq(sk[q], k + 1, Len(sk[q]))) = Len(sk[q]) - k /\ Len(sk[q]) \in Nat
    BY <1>1, Rest, LenProperties
  <1>3. ps_id' = ps_id
    BY DEF WalkActive, envVars
  <1>4. sk'[q] = SubSeq(sk[q], k + 1, Len(sk[q])) /\ \A p \in Txqs : p # q => sk'[p] = sk[p]
    BY <1>1 DEF Types
  <1>5. Len(sk[q]) - k = Len(sk[q]) + (-k)
    BY <1>1, <1>2
  <1> QED
    BY <1>1, <1>2, <1>3, <1>4, <1>5 DEF Grows

\* The count follows.
LEMMA ReadyFollows ==
    ASSUME Types, Types', Counters, NEW q, NEW n \in Int, Grows(q, n), ReadyCounted,
           psOn' = psOn, valid' = valid, add' = add,
           psOn => ready' = [ready EXCEPT ![ps_id[q]] = (@ + n) % Wrap]
    PROVE  ReadyCounted'
  <1> SUFFICES ASSUME psOn, Steady, NEW i \in PsIds PROVE ready'[i] = Buffered(i)' % Wrap
    BY DEF ReadyCounted, Steady
  <1>1. ready[i] = Buffered(i) % Wrap /\ Buffered(i) \in Int
    BY BufferedNat DEF ReadyCounted
  <1>2. Buffered(i)' = Buffered(i) + (IF ps_id[q] = i THEN n ELSE 0)
    BY BufferedGrows
  <1>3. CASE ps_id[q] = i
    <2>1. ready'[i] = (ready[i] + n) % Wrap
      BY <1>3 DEF Counters
    <2>2. PICK b \in Int : b = Buffered(i)
      BY <1>1
    <2>3. ((b % Wrap) + n) % Wrap = (b + n) % Wrap
      BY ModFacts, Zenon
    <2>4. Buffered(i)' = b + n
      BY <1>2, <1>3, <2>2
    <2> QED
      BY <1>1, <2>1, <2>2, <2>3, <2>4, Zenon
  <1>4. CASE ps_id[q] # i
    <2>1. ready'[i] = ready[i]
      BY <1>4 DEF Counters
    <2>2. Buffered(i)' = Buffered(i)
      BY <1>1, <1>2, <1>4
    <2> QED
      BY <1>1, <2>1, <2>2, Zenon
  <1> QED
    BY <1>3, <1>4

LEMMA ReadySame ==
    ASSUME ReadyCounted, UNCHANGED <<psOn, valid, add, ready, sk, ps_id>>
    PROVE  ReadyCounted'
  <1>1. \A i \in PsIds : Buffered(i)' = Buffered(i)
    BY DEF Buffered, Total
  <1> QED
    BY <1>1 DEF ReadyCounted, Steady

LEMMA ReadyPs ==
    ASSUME PsEnable \/ PsDisable, UNCHANGED sk
    PROVE  ReadyCounted'
  <1>1. CASE PsEnable
    <2>1. ready' = [i \in PsIds |-> Buffered(i) % Wrap] /\ ps_id' = ps_id
      BY <1>1 DEF PsEnable, envVars
    <2>2. \A i \in PsIds : Buffered(i)' = Buffered(i)
      BY <2>1 DEF Buffered, Total
    <2>3. \A i \in PsIds : ready'[i] = Buffered(i)' % Wrap
      BY <2>1, <2>2
    <2> QED
      BY <2>3 DEF ReadyCounted
  <1>2. CASE PsDisable
    BY <1>2 DEF PsDisable, ReadyCounted
  <1> QED
    BY <1>1, <1>2

LEMMA FwPair ==
    ASSUME Types, NEW c \in fw
    PROVE  <<c[1], c[2]>> \in fw /\ c[1] \in Txqs /\ c[2] \in Nat
  <1>1. c = <<c[1], c[2]>> /\ c[1] \in Txqs /\ c[2] \in Nat
    BY SMTT(30) DEF Types
  <1> QED
    BY <1>1, Zenon

LEMMA ReadyStep ==
    ASSUME Types, Types', AllOrdered, Whole, Counters, ReadyCounted, [Next]_vars
    PROVE  ReadyCounted'
  <1> USE DEF envVars, psVars, lifeVars, queueVars
  <1>1. ASSUME NEW s \in Senders, QueueSkb(s) PROVE ReadyCounted'
    <2>1. Grows(sender[s], 1)
      BY <1>1, QueueSkbGrows
    <2>2. /\ UNCHANGED <<psOn, valid, add>> /\ CountReady(sender[s])
      BY <1>1 DEF QueueSkb
    <2>3. psOn => ready' = [ready EXCEPT ![ps_id[sender[s]]] = (@ + 1) % Wrap]
      BY <2>2 DEF CountReady
    <2> QED
      BY <2>1, <2>2, <2>3, ReadyFollows
  <1>2. ASSUME NEW s \in Senders, NEW q \in Txqs, Xmit(s, q) PROVE ReadyCounted'
    BY <1>2, ReadySame DEF Xmit
  <1>3. CASE WalkActive
    <2>1. PICK q, k, rest, l : Pushes(q, k, rest, l)
      BY <1>3, PushStep
    <2>0. PushPs(q, k, rest) /\ q \in Txqs /\ k \in Int
      BY <2>1 DEF Pushes
    <2>5. Grows(q, -k)
      BY <1>3, <2>1, WalkActiveGrows, Zenon
    <2>2. Grows(q, -k) /\ -k \in Int /\ PushPs(q, k, rest) /\ q \in Txqs /\ k \in Int
      BY <2>0, <2>5
    <2>3. UNCHANGED <<psOn, valid, add>>
      BY <1>3 DEF WalkActive
    <2>4. psOn => ready' = [ready EXCEPT ![ps_id[q]] = (@ + (-k)) % Wrap]
      <3>1. ready[ps_id[q]] - k = ready[ps_id[q]] + (-k)
        BY <2>2 DEF Counters
      <3>2. psOn => ready' = [ready EXCEPT ![ps_id[q]] = (ready[ps_id[q]] - k) % Wrap]
        BY <2>2 DEF PushPs
      <3> QED
        BY <3>1, <3>2, Zenon
    <2> QED
      BY <2>2, <2>3, <2>4, ReadyFollows
  <1>4. CASE WalkInactive
    <2>1. ~valid' \/ ~(add' = "none")
      BY <1>4 DEF WalkInactive, Whole, Types
    <2> QED
      BY <2>1 DEF ReadyCounted, Steady
  <1>5. CASE WalkEnd \/ Task
    BY <1>5, ReadySame DEF WalkEnd, Task
  <1>6. ASSUME NEW on \in BOOLEAN, PsInd(on) PROVE ReadyCounted'
    <2>1. CASE valid /\ (IF on THEN PsEnable ELSE PsDisable)
      BY <1>6, <2>1, ReadyPs DEF PsInd
    <2>2. CASE ~valid
      <3>1. ~valid'
        BY <1>6, <2>2 DEF PsInd
      <3> QED
        BY <3>1 DEF ReadyCounted, Steady
    <2> QED
      BY <1>6, <2>1, <2>2 DEF PsInd
  <1>7. CASE Interrupt
    BY <1>7, ReadySame DEF Interrupt
  <1>8. ASSUME NEW n \in Requests, NEW i \in PsIds, TrafficReq(n, i) PROVE ReadyCounted'
    BY <1>8, ReadySame DEF TrafficReq
  <1>9. ASSUME NEW r, VifStop(r) \/ \E kick \in BOOLEAN : VifStart(r, kick) PROVE ReadyCounted'
    BY <1>9, ReadySame DEF VifStop, VifStart
  <1>10. CASE (\E b \in BOOLEAN : BusBusy(b)) \/ ConfirmLink \/ Deinit
    BY <1>10, ReadySame DEF BusBusy, ConfirmLink, Deinit
  <1>11. CASE DelStation \/ AddStation \/ StaInit
    BY <1>11 DEF DelStation, AddStation, StaInit, ReadyCounted, Steady
  <1>12. CASE Flush
    <2>1. ~valid'
      BY <1>12 DEF Flush, Whole
    <2> QED
      BY <2>1 DEF ReadyCounted, Steady
  <1>13. CASE Added
    BY <1>13, ReadyPs DEF Added
  <1>14. ASSUME NEW pm \in BOOLEAN, LinkStation(pm) PROVE ReadyCounted'
    BY <1>14 DEF LinkStation, ReadyCounted, Steady
  <1>15. ASSUME NEW c \in fw, Confirm(c[1], c[2]) PROVE ReadyCounted'
    BY <1>15, ReadySame DEF Confirm
  <1>16. ASSUME NEW c \in fw, Retry(c[1], c[2]) PROVE ReadyCounted'
    <2>1. <<c[1], c[2]>> \in fw
      BY FwPair
    <2>2. Grows(c[1], 1)
      BY <1>16, <2>1, RetryGrows
    <2>3. UNCHANGED <<psOn, valid, add>> /\ CountReady(c[1])
      BY <1>16 DEF Retry
    <2>4. psOn => ready' = [ready EXCEPT ![ps_id[c[1]]] = (@ + 1) % Wrap]
      BY <2>3 DEF CountReady
    <2> QED
      BY <2>2, <2>3, <2>4, ReadyFollows
  <1>17. ASSUME NEW q \in Txqs, CreditUpdate(q) PROVE ReadyCounted'
    BY <1>17, ReadySame DEF CreditUpdate
  <1>18. CASE UNCHANGED vars
    BY <1>18, ReadySame DEF vars
  <1> QED
    BY <1>1, <1>2, <1>3, <1>4, <1>5, <1>6, <1>7, <1>8, <1>9, <1>10, <1>11, <1>12, <1>13, <1>14, <1>15, <1>16,
       <1>17, <1>18 DEF Next, VifBack, CsaEnd, CsaFinish

-----------------------------------------------------------------------------
(* Credits, push limits and frames                                         *)

\* While the credits do not wrap every queue has some, and they cover its push limit.
Credited == Without({"wrap"}) => \A q \in Txqs : credits[q] \in 1 .. CreditMax - 1 /\ limit[q] <= credits[q]

\* With tx_lock held, an active queue has the frames it may push, and one that is
\* scheduled has frames.
Framed ==
    Without({"wrap", "unlocked"}) =>
        \A q \in active : limit[q] <= Len(sk[q]) /\ (q \in flagged => sk[q] # <<>>)

Covered == Credited /\ Framed

LEMMA LenZero ==
    ASSUME Types, NEW q \in Txqs
    PROVE  Len(sk[q]) \in Nat /\ (sk[q] = <<>> <=> Len(sk[q]) = 0)
  <1>1. sk[q] \in Seq(Nat)
    BY DEF Types
  <1> QED
    BY <1>1, EmptySeq, LenProperties

\* No queue gets a larger push limit or fewer frames, and none without frames is scheduled.
LEMMA CoveredMove ==
    ASSUME Types, Types', Covered, active' \subseteq active, UNCHANGED <<events, credits>>,
           \A p \in Txqs : limit'[p] <= limit[p],
           \A p \in active' : Len(sk'[p]) >= Len(sk[p]),
           Without({"wrap", "unlocked"}) => \A p \in active' : p \in flagged' \ flagged => sk'[p] # <<>>
    PROVE  Covered'
  <1>1. \A p \in Txqs : limit[p] \in Nat /\ limit'[p] \in Nat /\ credits[p] \in Int
    BY DEF Types
  <1>2. Credited'
    <2> SUFFICES ASSUME Without({"wrap"}), NEW p \in Txqs PROVE limit'[p] <= credits[p]
      BY DEF Covered, Credited, Without
    <2>1. limit[p] <= credits[p]
      BY DEF Covered, Credited
    <2> QED
      BY <1>1, <2>1
  <1>3. Framed'
    <2> SUFFICES ASSUME Without({"wrap", "unlocked"}), NEW p \in active'
                 PROVE  limit'[p] <= Len(sk'[p]) /\ (p \in flagged' => sk'[p] # <<>>)
      BY DEF Framed, Without
    <2>1. p \in active /\ p \in Txqs
      BY DEF Types
    <2>2. limit[p] <= Len(sk[p]) /\ (p \in flagged => sk[p] # <<>>)
      BY <2>1 DEF Covered, Framed
    <2>3. Len(sk[p]) \in Nat /\ (sk[p] = <<>> <=> Len(sk[p]) = 0)
      BY <2>1, LenZero
    <2>4. Len(sk'[p]) \in Nat /\ (sk'[p] = <<>> <=> Len(sk'[p]) = 0)
      <3>1. sk'[p] \in Seq(Nat)
        BY <2>1 DEF Types
      <3> QED
        BY <3>1, EmptySeq, LenProperties
    <2>5. Len(sk'[p]) >= Len(sk[p]) /\ limit'[p] <= limit[p]
      BY <2>1
    <2> QED
      BY <1>1, <2>1, <2>2, <2>3, <2>4, <2>5
  <1> QED
    BY <1>2, <1>3 DEF Covered

LEMMA LimitKept ==
    ASSUME Types
    PROVE  \A p \in Txqs : limit[p] <= limit[p] /\ 0 <= limit[p] /\ Len(sk[p]) >= Len(sk[p])
  BY LenZero DEF Types

LEMMA CoveredSame ==
    ASSUME Types, Types', Covered, UNCHANGED <<events, credits, limit, active, sk>>,
           Without({"wrap", "unlocked"}) => \A p \in active : p \in flagged' \ flagged => sk[p] # <<>>
    PROVE  Covered'
  <1>1. \A p \in active : p \in Txqs
    BY DEF Types
  <1> QED
    BY <1>1, LimitKept, CoveredMove

LEMMA CoveredPs ==
    ASSUME Types, Types', Covered, PsEnable \/ PsDisable, UNCHANGED <<events, credits, active, sk>>
    PROVE  Covered'
  <1>1. \A p \in active : p \in Txqs
    BY DEF Types
  <1>2. CASE PsEnable
    <2>1. limit' = limit /\ flagged' \subseteq flagged
      BY <1>2 DEF PsEnable, StopQueues, DelFromHwList
    <2> QED
      BY <2>1, CoveredSame
  <1>3. CASE PsDisable
    <2>1. limit' = [q \in Txqs |-> 0] /\ flagged' = flagged \cup Started("sta_ps")
      BY <1>3 DEF PsDisable, StartQueues, AddToHwList
    <2>2. \A p \in flagged' \ flagged : sk[p] # <<>>
      BY <2>1 DEF Started
    <2>3. \A p \in Txqs : limit'[p] = 0
      BY <2>1
    <2> QED
      BY <1>1, <2>2, <2>3, LimitKept, CoveredMove
  <1> QED
    BY <1>2, <1>3

\* What a traffic request grants fits into the push limits, credits and queues.
LEMMA GrantsFit ==
    ASSUME Base, NEW i, NEW share, Grants(share, i), NEW q \in Txqs, credits[q] \in 1 .. CreditMax - 1
    PROVE  /\ limit'[q] = IF share[q] > 0 THEN share[q] ELSE limit[q]
           /\ share[q] \in Nat /\ share[q] <= credits[q] /\ share[q] <= Len(sk[q])
           /\ ps_id[q] # i => share[q] = 0
  <1>1. CreditMax \in Nat /\ credits[q] > 0 /\ credits[q] < CreditMax
    BY Constants
  <1>2. /\ Offer(q, i) \in Int /\ Offer(q, i) <= credits[q]
        /\ \A n \in 1 .. Offer(q, i) : n % LimitWrap = n
    BY <1>1, OfferFacts
  <1>3. share[q] \in Nat /\ share[q] <= Offer(q, i)
    BY DEF Grants
  <1>4. Len(sk[q]) \in Nat /\ credits[q] \in Nat
    BY LenZero DEF Base
  <1>5. Offer(q, i) <= Len(sk[q])
    <2>1. credits[q] % Wrap = credits[q]
      BY <1>1, <1>4, Widths
    <2> QED
      BY <1>4, <2>1 DEF Offer
  <1>6. ps_id[q] # i => Offer(q, i) = 0
    BY DEF Offer
  <1>7. share[q] > 0 => share[q] % LimitWrap = share[q]
    <2>1. share[q] > 0 => share[q] \in 1 .. Offer(q, i)
      BY <1>2, <1>3
    <2> QED
      BY <1>2, <2>1, Zenon
  <1>8. limit'[q] = IF share[q] > 0 THEN share[q] % LimitWrap ELSE limit[q]
    BY DEF Grants
  <1> QED
    BY <1>2, <1>3, <1>4, <1>5, <1>6, <1>7, <1>8

LEMMA CoveredTrafficReq ==
    ASSUME Base, Types', Covered, Counters, NEW n \in Requests, NEW i \in PsIds, TrafficReq(n, i)
    PROVE  Covered'
  <1>1. PICK share : Grants(share, i)
    BY TrafficGrants DEF Base, Counters
  <1>2. UNCHANGED <<events, credits, active, sk>>
    BY DEF TrafficReq, envVars
  <1>3. ASSUME Without({"wrap"}), NEW p \in Txqs
        PROVE  /\ credits[p] \in 1 .. CreditMax - 1 /\ limit'[p] <= credits[p]
               /\ limit[p] <= Len(sk[p]) => limit'[p] <= Len(sk[p])
               /\ p \in flagged' \ flagged => sk[p] # <<>>
    <2>1. credits[p] \in 1 .. CreditMax - 1 /\ limit[p] <= credits[p]
      BY <1>3 DEF Covered, Credited
    <2>2. /\ limit'[p] = IF share[p] > 0 THEN share[p] ELSE limit[p]
          /\ share[p] \in Nat /\ share[p] <= credits[p] /\ share[p] <= Len(sk[p])
      BY <1>1, <2>1, GrantsFit
    <2>3. Len(sk[p]) \in Nat /\ (sk[p] = <<>> <=> Len(sk[p]) = 0)
      BY LenZero DEF Base
    <2>4. p \in flagged' \ flagged => share[p] > 0
      BY <1>1 DEF Grants
    <2> QED
      BY <2>1, <2>2, <2>3, <2>4
  <1>4. Credited'
    BY <1>2, <1>3 DEF Credited, Without
  <1>5. Framed'
    <2> SUFFICES ASSUME Without({"wrap", "unlocked"}), NEW p \in active
                 PROVE  limit'[p] <= Len(sk[p]) /\ (p \in flagged' => sk[p] # <<>>)
      BY <1>2 DEF Framed, Without
    <2>1. Without({"wrap"}) /\ p \in Txqs
      BY DEF Without, Base, Types
    <2>2. limit[p] <= Len(sk[p]) /\ (p \in flagged => sk[p] # <<>>)
      BY DEF Covered, Framed
    <2> QED
      BY <1>3, <2>1, <2>2
  <1> QED
    BY <1>4, <1>5 DEF Covered

\* What was granted is pushed in one round, and ends the service period of the queue.
LEMMA PushGranted ==
    ASSUME Types, NEW q, NEW k, NEW rest, NEW l, Pushes(q, k, rest, l),
           limit[q] <= credits[q], limit[q] <= Len(sk[q])
    PROVE  /\ l = 0 /\ rest = 0 /\ k \in Nat
           /\ limit[q] > 0 => k = limit[q] /\ Done(q)
           /\ ~Done(q) => k < Len(sk[q])
  <1>1. /\ q \in Txqs /\ credits[q] > 0 /\ k = NPush(q) /\ (limit[q] <= k => l = 0 /\ rest = 0)
    BY DEF Pushes
  <1>2. credits[q] \in Int /\ limit[q] \in Nat /\ Len(sk[q]) \in Nat
    BY <1>1, LenProperties DEF Types
  <1>3. GetCredits(q) = IF limit[q] > 0 THEN limit[q] ELSE credits[q]
    BY <1>2 DEF GetCredits
  <1>4. PICK g \in Nat : g = GetCredits(q)
    BY <1>1, <1>2, <1>3
  <1>5. k = IF g <= Len(sk[q]) THEN g ELSE Len(sk[q])
    BY <1>1, <1>2, <1>4, MinOfTwo DEF NPush
  <1>6. limit[q] > 0 => k = limit[q] /\ Done(q)
    BY <1>2, <1>3, <1>4, <1>5 DEF Done
  <1>7. ~Done(q) => k < Len(sk[q])
    BY <1>2, <1>4, <1>5 DEF Done
  <1>8. limit[q] <= k /\ k \in Nat
    BY <1>2, <1>4, <1>5, <1>6
  <1> QED
    BY <1>1, <1>6, <1>7, <1>8

LEMMA CoveredWalkActive ==
    ASSUME Types, Types', Covered, WalkActive
    PROVE  Covered'
  <1>1. PICK q, k, rest, l : Pushes(q, k, rest, l)
    BY PushStep
  <1>2. UNCHANGED <<events, credits, active>>
    BY DEF WalkActive, envVars
  <1>3. /\ q \in Txqs /\ limit' = [limit EXCEPT ![q] = l] /\ l \in Nat /\ l <= limit[q]
        /\ flagged' = (IF Done(q) THEN flagged \ {q} ELSE flagged)
    BY <1>1 DEF Pushes
  <1>4. Len(sk'[q]) = Len(sk[q]) + (-k) /\ \A p \in Txqs : p # q => sk'[p] = sk[p]
    BY <1>1, WalkActiveGrows DEF Grows
  <1>5. \A p \in Txqs : /\ limit[p] \in Nat /\ limit'[p] \in Nat /\ credits[p] \in Int
                        /\ limit'[p] <= limit[p] /\ (p # q => limit'[p] = limit[p])
    <2>1. \A p \in Txqs : limit[p] \in Nat /\ limit'[p] \in Nat /\ credits[p] \in Int
      BY DEF Types
    <2>2. limit'[q] = l /\ \A p \in Txqs : p # q => limit'[p] = limit[p]
      BY <1>3 DEF Types
    <2> QED
      BY <1>3, <2>1, <2>2
  <1>6. Credited'
    <2> SUFFICES ASSUME Without({"wrap"}), NEW p \in Txqs PROVE limit'[p] <= credits[p]
      BY <1>2 DEF Covered, Credited, Without
    <2>1. limit[p] <= credits[p]
      BY DEF Covered, Credited
    <2> QED
      BY <1>5, <2>1
  <1>7. Framed'
    <2> SUFFICES ASSUME Without({"wrap", "unlocked"}), NEW p \in active
                 PROVE  limit'[p] <= Len(sk'[p]) /\ (p \in flagged' => sk'[p] # <<>>)
      BY <1>2 DEF Framed, Without
    <2>1. Without({"wrap"}) /\ p \in Txqs
      BY DEF Without, Types
    <2>2. limit[p] <= Len(sk[p]) /\ (p \in flagged => sk[p] # <<>>) /\ limit[p] <= credits[p]
      BY <2>1 DEF Covered, Framed, Credited
    <2>3. CASE p # q
      BY <1>3, <1>4, <1>5, <2>1, <2>2, <2>3
    <2>4. CASE p = q
      <3>1. /\ l = 0 /\ k \in Nat
            /\ ~Done(q) => k < Len(sk[q])
        BY <1>1, <2>2, <2>4, PushGranted
      <3>2. k <= Len(sk[q]) /\ Len(sk[q]) \in Nat
        BY <1>1, <1>3, LenZero DEF Pushes
      <3>3. limit'[q] = 0
        BY <1>3, <3>1 DEF Types
      <3>4. sk'[q] = <<>> <=> Len(sk'[q]) = 0
        <4>1. sk'[q] \in Seq(Nat)
          BY <1>3 DEF Types
        <4> QED
          BY <4>1, EmptySeq, LenProperties
      <3>5. q \in flagged' => ~Done(q)
        BY <1>3
      <3>6. Len(sk'[q]) = Len(sk[q]) - k
        BY <1>4, <3>1, <3>2
      <3>7. 0 <= Len(sk'[q]) /\ (~Done(q) => Len(sk'[q]) # 0)
        BY <3>1, <3>2, <3>6
      <3> QED
        BY <2>4, <3>3, <3>4, <3>5, <3>7
    <2> QED
      BY <2>3, <2>4
  <1> QED
    BY <1>6, <1>7 DEF Covered

LEMMA CoveredRetry ==
    ASSUME Base, Types', AllOrdered, Covered, NEW q, NEW f, <<q, f>> \in fw, Retry(q, f)
    PROVE  Covered'
  <1>1. Grows(q, 1) /\ q \in Txqs /\ q \in active
    BY RetryGrows, RetrySk DEF Base
  <1>2. /\ UNCHANGED <<events, active, limit>>
        /\ "wrap" \in events \/ credits[q] + 1 < CreditMax
        /\ credits' = [credits EXCEPT ![q] = MoreCredits(q)]
        /\ flagged' \subseteq flagged \cup {q}
    BY DEF Retry, envVars, Link, AddToHwList
  <1>3. Credited'
    <2> SUFFICES ASSUME Without({"wrap"}), NEW p \in Txqs
                 PROVE  credits'[p] \in 1 .. CreditMax - 1 /\ limit[p] <= credits'[p]
      BY <1>2 DEF Credited, Without
    <2>1. credits[p] \in 1 .. CreditMax - 1 /\ limit[p] <= credits[p] /\ limit[p] \in Nat /\ CreditMax \in Nat
      BY Constants DEF Covered, Credited, Base, Types
    <2>2. credits'[p] = credits[p] \/ (credits'[p] = credits[p] + 1 /\ credits[p] + 1 < CreditMax)
      BY <1>2 DEF MoreCredits, Without, Base, Types
    <2> QED
      BY <2>1, <2>2
  <1>4. Framed'
    <2> SUFFICES ASSUME Without({"wrap", "unlocked"}), NEW p \in active
                 PROVE  limit[p] <= Len(sk'[p]) /\ (p \in flagged' => sk'[p] # <<>>)
      BY <1>2 DEF Framed, Without
    <2>1. limit[p] <= Len(sk[p]) /\ (p \in flagged => sk[p] # <<>>) /\ p \in Txqs /\ limit[p] \in Nat
      BY DEF Covered, Framed, Base, Types
    <2>2. CASE p # q
      BY <1>1, <1>2, <2>1, <2>2 DEF Grows
    <2>3. CASE p = q
      <3>1. Len(sk'[q]) = Len(sk[q]) + 1 /\ Len(sk[q]) \in Nat
        BY <1>1, LenZero DEF Grows, Base
      <3>2. sk'[q] = <<>> <=> Len(sk'[q]) = 0
        <4>1. sk'[q] \in Seq(Nat)
          BY <1>1 DEF Types
        <4> QED
          BY <4>1, EmptySeq, LenProperties
      <3> QED
        BY <2>1, <2>3, <3>1, <3>2
    <2> QED
      BY <2>2, <2>3
  <1> QED
    BY <1>3, <1>4 DEF Covered

LEMMA CoveredStep ==
    ASSUME Base, Types', AllOrdered, Locked, Covered, Counters, [Next]_vars
    PROVE  Covered'
  <1>0. Types /\ Life
    BY DEF Base
  <1> USE DEF envVars, schedVars, queueVars
  <1>1. ASSUME NEW s \in Senders, QueueSkb(s) PROVE Covered'
    <2>1. PICK q \in Txqs : q = sender[s]
      BY <1>0, <1>1 DEF QueueSkb, Types
    <2>2. Grows(q, 1)
      BY <1>0, <1>1, <2>1, QueueSkbGrows
    <2>3. /\ UNCHANGED <<events, credits, limit, active>> /\ flagged' \subseteq flagged \cup {q}
      BY <1>1, <2>1 DEF QueueSkb, AddToHwList
    <2>4. \A p \in Txqs : Len(sk[p]) \in Nat /\ limit[p] \in Nat
      BY <1>0, LenZero DEF Types
    <2>5. Len(sk'[q]) = Len(sk[q]) + 1 /\ \A p \in Txqs : p # q => sk'[p] = sk[p]
      BY <2>2 DEF Grows
    <2>6. \A p \in Txqs : Len(sk'[p]) >= Len(sk[p])
      BY <2>4, <2>5
    <2>7. sk'[q] # <<>>
      <3>1. Len(sk'[q]) # 0
        BY <2>4, <2>5
      <3> QED
        BY <3>1, EmptySeq
    <2>8. \A p \in active' : p \in Txqs
      BY DEF Types
    <2>9. \A p \in Txqs : limit'[p] <= limit[p]
      BY <2>3, <2>4
    <2>10. \A p \in active' : p \in flagged' \ flagged => sk'[p] # <<>>
      BY <2>3, <2>7
    <2>11. active' \subseteq active
      BY <2>3
    <2> QED
      BY <1>0, <2>3, <2>6, <2>8, <2>9, <2>10, <2>11, CoveredMove
  <1>2. ASSUME NEW s \in Senders, NEW q \in Txqs, Xmit(s, q) PROVE Covered'
    BY <1>0, <1>2, CoveredSame DEF Xmit
  <1>3. CASE WalkActive
    BY <1>0, <1>3, CoveredWalkActive
  <1>4. CASE WalkInactive
    <2>1. /\ UNCHANGED <<events, credits, limit, active>> /\ flagged' \subseteq flagged
          /\ walk.at \notin active /\ sk' = [sk EXCEPT ![walk.at] = <<>>]
      BY <1>4 DEF WalkInactive, DelFromHwList
    <2>2. \A p \in active : p \in Txqs /\ sk'[p] = sk[p]
      BY <1>0, <2>1 DEF Types
    <2> QED
      BY <1>0, <2>1, <2>2, LimitKept, CoveredMove
  <1>5. CASE WalkEnd \/ Task
    BY <1>0, <1>5, CoveredSame DEF WalkEnd, Task
  <1>6. ASSUME NEW on \in BOOLEAN, PsInd(on) PROVE Covered'
    BY <1>0, <1>6, CoveredSame, CoveredPs DEF PsInd
  <1>7. CASE Interrupt
    <2>1. /\ UNCHANGED <<events, credits, active, sk, flagged>> /\ limit' = [q \in Txqs |-> 0]
      BY <1>7 DEF Interrupt
    <2>2. \A p \in active : p \in Txqs
      BY <1>0 DEF Types
    <2> QED
      BY <1>0, <2>1, <2>2, LimitKept, CoveredMove
  <1>8. ASSUME NEW n \in Requests, NEW i \in PsIds, TrafficReq(n, i) PROVE Covered'
    BY <1>8, CoveredTrafficReq
  <1>9. ASSUME NEW r, VifStop(r) PROVE Covered'
    <2>1. UNCHANGED <<events, credits, limit, active, sk>> /\ flagged' \subseteq flagged
      BY <1>9 DEF VifStop, StopQueues, DelFromHwList
    <2> QED
      BY <1>0, <2>1, CoveredSame
  <1>10. ASSUME NEW r, NEW kick, VifStart(r, kick) PROVE Covered'
    <2>1. UNCHANGED <<events, credits, limit, active, sk>> /\ flagged' \subseteq flagged \cup Started(r)
      BY <1>10 DEF VifStart, StartQueues, AddToHwList
    <2>2. \A p \in Started(r) : sk[p] # <<>>
      BY DEF Started
    <2> QED
      BY <1>0, <2>1, <2>2, CoveredSame
  <1>11. CASE (\E b \in BOOLEAN : BusBusy(b)) \/ DelStation \/ AddStation \/ \E pm \in BOOLEAN : LinkStation(pm)
    BY <1>0, <1>11, CoveredSame DEF BusBusy, DelStation, AddStation, LinkStation
  <1>12. CASE Deinit
    <2>1. /\ UNCHANGED <<events, credits, limit, sk>> /\ flagged' \subseteq flagged /\ active' \subseteq active
      BY <1>12 DEF Deinit, DelFromHwList
    <2>2. \A p \in active' : p \in Txqs
      BY DEF Types
    <2> QED
      BY <1>0, <2>1, <2>2, LimitKept, CoveredMove
  <1>13. CASE Flush
    <2>1. /\ UNCHANGED <<events, credits, limit, flagged, active>> /\ flushing \notin active
          /\ sk' = [sk EXCEPT ![flushing] = <<>>]
      BY <1>0, <1>13 DEF Flush, Life
    <2>2. \A p \in active : p \in Txqs /\ sk'[p] = sk[p]
      BY <1>0, <2>1 DEF Types
    <2> QED
      BY <1>0, <2>1, <2>2, LimitKept, CoveredMove
  <1>14. CASE StaInit
    <2>1. /\ events' = events /\ flagged' = {} /\ sk' = [q \in Txqs |-> <<>>] /\ limit' = [q \in Txqs |-> 0]
          /\ credits' = [q \in Txqs |-> Credits] /\ active' = Txqs
      BY <1>14 DEF StaInit
    <2>2. Credits \in 1 .. CreditMax - 1 /\ 0 <= Credits /\ 0 <= Len(<<>>)
      BY Constants, EmptySeq
    <2> QED
      BY <2>1, <2>2 DEF Covered, Credited, Framed
  <1>15. CASE Added
    BY <1>0, <1>15, CoveredPs DEF Added
  <1>16. ASSUME NEW c \in fw, Confirm(c[1], c[2]) PROVE Covered'
    <2>1. PICK q \in Txqs : q = c[1]
      BY <1>0, FwPair
    <2>2. /\ UNCHANGED <<events, credits, limit, active, sk>>
          /\ \/ flagged' = flagged
             \/ flagged' \subseteq flagged \cup {q} /\ q \in active /\ limit[q] > 0
      BY <1>16, <2>1 DEF Confirm, Link, AddToHwList
    <2>3. Without({"wrap", "unlocked"}) /\ q \in active /\ limit[q] > 0 => sk[q] # <<>>
      <3>1. limit[q] \in Nat /\ Len(sk[q]) \in Nat /\ (sk[q] = <<>> <=> Len(sk[q]) = 0)
        BY <1>0, LenZero DEF Types
      <3> QED
        BY <3>1 DEF Covered, Framed
    <2> QED
      BY <1>0, <2>2, <2>3, CoveredSame
  <1>17. ASSUME NEW c \in fw, Retry(c[1], c[2]) PROVE Covered'
    BY <1>0, <1>17, FwPair, CoveredRetry
  <1>18. CASE ConfirmLink
    <2>1. "unlocked" \in events /\ UNCHANGED <<events, credits, limit, active, sk>>
      BY <1>18 DEF ConfirmLink, Locked
    <2>2. ~Without({"wrap", "unlocked"})
      BY <2>1 DEF Without
    <2> QED
      BY <1>0, <2>1, <2>2, CoveredSame
  <1>19. ASSUME NEW q \in Txqs, CreditUpdate(q) PROVE Covered'
    <2>1. /\ UNCHANGED <<events, credits, limit, active, sk>>
          /\ \A p \in flagged' \ flagged : sk[p] # <<>>
      BY <1>19 DEF CreditUpdate, DelFromHwList, AddToHwList
    <2> QED
      BY <1>0, <2>1, CoveredSame
  <1>20. CASE UNCHANGED vars
    BY <1>0, <1>20, CoveredSame DEF vars
  <1> QED
    BY <1>1, <1>2, <1>3, <1>4, <1>5, <1>6, <1>7, <1>8, <1>9, <1>10, <1>11, <1>12, <1>13, <1>14, <1>15, <1>16,
       <1>17, <1>18, <1>19, <1>20 DEF Next, VifBack, CsaEnd, CsaFinish

-----------------------------------------------------------------------------
(* Service periods                                                         *)

NoGrants == \A q \in Txqs : limit[q] = 0

Undisturbed == Without({"interrupt", "nocb", "unlocked", "wrap"})

\* A station that is being added, or awake, has no service period under way.
Ungranted == add \in {"init", "on", "off"} \/ (valid /\ ~psOn) => NoGrants

\* What is scheduled of a sleeping station belongs to a service period, and sp_cnt is
\* what the service periods under way may still push.
InPeriod ==
    Steady /\ psOn => /\ \A q \in flagged : limit[q] > 0
                      /\ \A i \in PsIds : sp[i] = Total(limit, i)

Periods == Undisturbed => Ungranted /\ InPeriod

LEMMA SumZero ==
    ASSUME NEW s, NEW f, Len(s) \in Nat, \A m \in 1 .. Len(s) : f[s[m]] = 0
    PROVE  SumOver(s, f, Len(s)) = 0
  <1> DEFINE S == {n \in Nat : n <= Len(s) => SumOver(s, f, n) = 0}
  <1>1. 0 \in S
    BY SumIs
  <1>2. ASSUME NEW n \in Nat, n \in S PROVE n + 1 \in S
    <2> SUFFICES ASSUME n + 1 <= Len(s) PROVE SumOver(s, f, n + 1) = 0
      OBVIOUS
    <2>1. n + 1 \in 1 .. Len(s) /\ (n + 1) - 1 = n /\ SumOver(s, f, n) = 0
      BY <1>2
    <2>2. SumOver(s, f, n + 1) = SumOver(s, f, n) + f[s[n + 1]] /\ f[s[n + 1]] = 0
      BY <2>1, SumIs
    <2> QED
      BY <2>1, <2>2
  <1>3. \A n \in Nat : n \in S
    <2> HIDE DEF S
    <2> QED
      BY <1>1, <1>2, SetInduction
  <1> QED
    BY <1>3

LEMMA TotalZero ==
    ASSUME NEW f, \A q \in Txqs : f[q] = 0, NEW i
    PROVE  Total(f, i) = 0
  <1>1. \A m \in 1 .. Len(Tids) : Part(f, i)[Tids[m]] = 0
    BY TidFacts DEF Part
  <1>2. SumOver(Tids, Part(f, i), Len(Tids)) = 0
    BY <1>1, TidFacts, SumZero
  <1> QED
    BY <1>2 DEF Total, Part

LEMMA TotalLater ==
    ASSUME ps_id' = ps_id, NEW i
    PROVE  Total(limit, i)' = Total(limit', i)
  BY DEF Total

\* Nothing is granted, pushed or scheduled, but what has a push limit.
LEMMA PeriodsSame ==
    ASSUME Periods, UNCHANGED <<events, ps_id, valid, add, psOn, limit, sp>>,
           Undisturbed /\ Steady /\ psOn => \A p \in flagged' \ flagged : limit[p] > 0
    PROVE  Periods'
  <1>1. \A i \in PsIds : Total(limit, i)' = Total(limit, i)
    BY TotalLater
  <1>2. Undisturbed' <=> Undisturbed
    BY DEF Undisturbed, Without
  <1>3. Ungranted => Ungranted'
    BY DEF Ungranted, NoGrants
  <1>4. Undisturbed /\ InPeriod => InPeriod'
    BY <1>1 DEF InPeriod, Steady
  <1> QED
    BY <1>2, <1>3, <1>4 DEF Periods

\* A station that sleeps has all its queues stopped for power save, and their frames
\* and credits cover their push limits.
LEMMA SleepFacts ==
    ASSUME Base, Whole, Covered, Periods, Undisturbed, Steady, psOn
    PROVE  /\ active = Txqs /\ \A q \in Txqs : "sta_ps" \in stop[q]
           /\ \A q \in Txqs : /\ credits[q] \in 1 .. CreditMax - 1 /\ limit[q] <= credits[q]
                              /\ limit[q] <= Len(sk[q]) /\ limit[q] \in 0 .. LimitWrap - 1
           /\ InPeriod
  <1>1. active = Txqs
    BY DEF Whole, Steady
  <1>2. \A q \in Txqs : "sta_ps" \in stop[q]
    <2>1. Orderly /\ add # "on"
      BY DEF Undisturbed, Without, Orderly, Steady
    <2> QED
      BY <1>1, <2>1 DEF Base, Asleep, Steady
  <1>3. Without({"wrap"}) /\ Without({"wrap", "unlocked"})
    BY DEF Undisturbed, Without
  <1>4. \A q \in Txqs : /\ credits[q] \in 1 .. CreditMax - 1 /\ limit[q] <= credits[q]
                        /\ limit[q] <= Len(sk[q])
    BY <1>1, <1>3 DEF Covered, Credited, Framed
  <1>5. \A q \in Txqs : limit[q] \in 0 .. LimitWrap - 1
    <2>1. \A q \in Txqs : limit[q] \in Nat
      BY DEF Base, Types
    <2>2. CreditMax <= LimitWrap /\ CreditMax \in Nat /\ LimitWrap \in Nat
      BY NumbersAssumption
    <2> QED
      BY <1>4, <2>1, <2>2
  <1> QED
    BY <1>1, <1>2, <1>4, <1>5 DEF Periods

LEMMA PeriodsPs ==
    ASSUME Types, Whole, NoGrants, valid, UNCHANGED <<events, active, valid>>, PsEnable \/ PsDisable
    PROVE  Ungranted' /\ InPeriod'
  <1>1. active = Txqs
    BY DEF Whole
  <1>2. ps_id' = ps_id
    BY DEF PsEnable, PsDisable, envVars
  <1>3. NoGrants'
    BY DEF PsEnable, PsDisable, NoGrants
  <1>4. CASE PsEnable
    <2>1. flagged' = flagged \ active /\ sp' = [i \in PsIds |-> 0]
      BY <1>4 DEF PsEnable, StopQueues, DelFromHwList
    <2>2. flagged' = {}
      BY <1>1, <2>1 DEF Types
    <2>3. \A i \in PsIds : Total(limit', i) = 0
      BY <1>3, TotalZero DEF NoGrants
    <2>4. \A i \in PsIds : Total(limit, i)' = Total(limit', i)
      BY <1>2, TotalLater
    <2>5. \A i \in PsIds : sp'[i] = Total(limit, i)'
      BY <2>1, <2>3, <2>4
    <2> QED
      BY <1>3, <2>2, <2>5 DEF Ungranted, InPeriod
  <1>5. CASE PsDisable
    <2>1. ~psOn'
      BY <1>5 DEF PsDisable
    <2> QED
      BY <1>3, <2>1 DEF Ungranted, InPeriod
  <1> QED
    BY <1>4, <1>5

LEMMA PeriodsPsInd ==
    ASSUME Base, Whole, Periods, Undisturbed, NEW on \in BOOLEAN, PsInd(on)
    PROVE  Ungranted' /\ InPeriod'
  <1>1. add \in {"none", "asked"} /\ UNCHANGED <<events, active, valid, add>> /\ on # psOn
    BY DEF PsInd, Admitted, Undisturbed, Without, envVars, lifeVars
  <1>2. CASE valid /\ (IF on THEN PsEnable ELSE PsDisable)
    <2>1. CASE on
      <3>1. NoGrants
        BY <1>1, <1>2, <2>1 DEF Periods, Ungranted, Base, Types
      <3> QED
        BY <1>1, <1>2, <2>1, <3>1, PeriodsPs DEF Base
    <2>2. CASE ~on
      <3>1. NoGrants' /\ ~psOn'
        BY <1>2, <2>2 DEF PsDisable, NoGrants
      <3> QED
        BY <3>1 DEF Ungranted, InPeriod
    <2> QED
      BY <2>1, <2>2
  <1>3. CASE ~valid
    BY <1>1, <1>3 DEF Ungranted, InPeriod, Steady
  <1> QED
    BY <1>2, <1>3 DEF PsInd

LEMMA PeriodsTrafficReq ==
    ASSUME Base, Types', Whole, Counters, Covered, Covered', Periods, Undisturbed,
           NEW n \in Requests, NEW i \in PsIds, TrafficReq(n, i)
    PROVE  Ungranted' /\ InPeriod'
  <1>1. /\ psOn /\ add \in {"none", "asked"}
        /\ UNCHANGED <<events, ps_id, valid, add, psOn>>
    BY DEF TrafficReq, Admitted, Undisturbed, Without, envVars, lifeVars
  <1>2. CASE ~valid
    BY <1>1, <1>2 DEF Ungranted, InPeriod, Steady
  <1>3. CASE valid
    <2>1. Steady
      BY <1>1, <1>3 DEF Base, Life, Steady
    <2>2. /\ active = Txqs /\ InPeriod
          /\ \A q \in Txqs : credits[q] \in 1 .. CreditMax - 1
          /\ \A q \in Txqs : limit[q] \in 0 .. LimitWrap - 1
      BY <1>1, <2>1, SleepFacts
    <2>3. PICK share : Grants(share, i)
      BY TrafficGrants DEF Base, Counters
    <2>4. \A q \in Txqs : /\ limit'[q] = IF share[q] > 0 THEN share[q] ELSE limit[q]
                          /\ share[q] \in Nat /\ share[q] <= credits[q]
                          /\ ps_id[q] # i => share[q] = 0
      BY <2>2, <2>3, GrantsFit
    <2>5. \A q \in Txqs : limit[q] \in Nat
      BY DEF Base, Types
    <2>6. \A q \in Txqs : ps_id[q] = i => limit[q] = 0
      <3>1. Total(limit, i) = 0
        BY <1>1, <2>1, <2>2, <2>3 DEF InPeriod, Grants
      <3> QED
        BY <2>5, <3>1, TotalNat
    <2>7. \A q \in Txqs : ps_id[q] = i => share[q] = limit'[q]
      BY <2>4, <2>6
    <2>8. Total(share, i) = Total(limit', i)
      BY <2>7, TotalSame
    <2>9. Total(limit', i) \in 0 .. Wrap - 1
      <3>1. CreditMax <= LimitWrap /\ CreditMax \in Nat /\ LimitWrap \in Nat
        BY NumbersAssumption
      <3>2. \A q \in Txqs : limit'[q] \in 0 .. LimitWrap - 1
        BY <2>2, <2>4, <3>1
      <3> QED
        BY <3>2, TotalFits
    <2>10. \A j \in PsIds : j # i => Total(limit', j) = Total(limit, j)
      <3>1. \A j \in PsIds : j # i => \A q \in Txqs : ps_id[q] = j => limit'[q] = limit[q]
        BY <2>4, <2>5
      <3> QED
        BY <3>1, TotalSame
    <2>11. sp'[i] = Total(limit', i) /\ \A j \in PsIds : j # i => sp'[j] = sp[j]
      <3>1. sp' = [sp EXCEPT ![i] = Total(share, i) % Wrap]
        BY <2>3 DEF Grants
      <3>2. Total(limit', i) % Wrap = Total(limit', i)
        BY <2>9, ModFacts, Zenon
      <3> QED
        BY <2>8, <3>1, <3>2 DEF Counters
    <2>12. \A j \in PsIds : sp'[j] = Total(limit, j)'
      <3>1. \A j \in PsIds : Total(limit, j)' = Total(limit', j)
        BY <1>1, TotalLater
      <3> QED
        BY <1>1, <2>1, <2>2, <2>10, <2>11, <3>1 DEF InPeriod
    <2>13. \A q \in flagged' : limit'[q] > 0
      <3>1. flagged' = flagged \cup {q \in Txqs : share[q] > 0} /\ flagged \subseteq Txqs
        BY <2>3 DEF Grants, Base, Types
      <3>2. \A q \in flagged : limit[q] > 0
        BY <1>1, <2>1, <2>2 DEF InPeriod
      <3> QED
        BY <2>4, <3>1, <3>2
    <2> QED
      BY <1>1, <1>3, <2>1, <2>12, <2>13 DEF Ungranted, InPeriod, Steady
  <1> QED
    BY <1>2, <1>3

LEMMA PeriodsWalkActive ==
    ASSUME Base, Types', Whole, Counters, Covered, Periods, Undisturbed, WalkActive
    PROVE  Ungranted' /\ InPeriod'
  <1>1. PICK q, k, rest, l : Pushes(q, k, rest, l)
    BY PushStep DEF Base
  <1>2. UNCHANGED <<events, ps_id, valid, add, psOn>>
    BY DEF WalkActive, envVars, lifeVars
  <1>3. /\ q \in Txqs /\ limit' = [limit EXCEPT ![q] = l] /\ l \in Nat /\ l <= limit[q]
        /\ flagged' = (IF Done(q) THEN flagged \ {q} ELSE flagged) /\ q \in flagged
        /\ PushPs(q, k, rest)
    BY <1>1 DEF Pushes
  <1>4. /\ \A p \in Txqs : limit[p] \in Nat /\ limit'[p] \in Nat
        /\ limit'[q] = l /\ \A p \in Txqs : p # q => limit'[p] = limit[p]
    BY <1>3 DEF Base, Types
  <1>5. NoGrants => NoGrants'
    BY <1>3, <1>4 DEF NoGrants
  <1>6. Ungranted'
    BY <1>2, <1>5 DEF Periods, Ungranted
  <1>7. InPeriod'
    <2> SUFFICES ASSUME Steady, psOn
                 PROVE  /\ \A p \in flagged' : limit'[p] > 0
                        /\ \A i \in PsIds : sp'[i] = Total(limit, i)'
      BY <1>2 DEF InPeriod, Steady
    <2>1. /\ \A p \in Txqs : limit[p] \in 0 .. LimitWrap - 1
          /\ limit[q] <= credits[q] /\ limit[q] <= Len(sk[q]) /\ InPeriod
      BY <1>3, SleepFacts
    <2>2. /\ \A p \in flagged : limit[p] > 0
          /\ \A i \in PsIds : sp[i] = Total(limit, i)
      BY <2>1 DEF InPeriod
    <2>3. l = 0 /\ rest = 0 /\ k = limit[q] /\ Done(q)
      BY <1>1, <1>3, <2>1, <2>2, PushGranted DEF Base
    <2>4. \A p \in flagged' : limit'[p] > 0
      <3>1. flagged' = flagged \ {q} /\ flagged \subseteq Txqs
        BY <1>3, <2>3 DEF Base, Types
      <3> QED
        BY <1>4, <2>2, <3>1
    <2>5. PICK j \in PsIds : j = ps_id[q]
      BY <1>3 DEF Counters
    <2>6. \A i \in PsIds : Total(limit', i) = Total(limit, i) + (IF ps_id[q] = i THEN limit'[q] - limit[q] ELSE 0)
      <3>1. PICK f, g : f = limit /\ g = limit'
        OBVIOUS
      <3>2. /\ \A p \in Txqs : f[p] \in Nat /\ g[p] \in Nat
            /\ \A p \in Txqs : p # q => g[p] = f[p]
        BY <1>4, <3>1
      <3>3. \A i \in PsIds : Total(g, i) = Total(f, i) + (IF ps_id[q] = i THEN g[q] - f[q] ELSE 0)
        BY <1>3, <3>2, TotalChanges
      <3> QED
        BY <3>1, <3>3, Zenon
    <2>7. sp' = [sp EXCEPT ![j] = (sp[j] - k - 0) % Wrap]
      BY <1>3, <2>3, <2>5 DEF PushPs
    <2>8. \A i \in PsIds : i # j => sp'[i] = Total(limit', i)
      <3>1. \A i \in PsIds : Total(limit, i) \in Nat
        BY <1>4, TotalNat
      <3> QED
        BY <2>2, <2>5, <2>6, <2>7, <3>1 DEF Counters
    <2>9. sp'[j] = Total(limit', j)
      <3>1. Total(limit', j) = sp[j] - k - 0
        <4>1. PICK t \in Nat : t = Total(limit, j)
          BY <1>4, TotalNat
        <4>2. Total(limit', j) = t + (limit'[q] - limit[q])
          BY <2>5, <2>6, <4>1
        <4>3. limit'[q] = 0 /\ limit[q] = k /\ k \in Nat /\ sp[j] = t
          BY <1>3, <1>4, <2>2, <2>3, <4>1
        <4> QED
          BY <4>2, <4>3
      <3>2. Total(limit', j) \in 0 .. Wrap - 1
        <4>1. ASSUME NEW p \in Txqs PROVE limit'[p] \in 0 .. LimitWrap - 1
          <5>1. limit'[p] \in Nat /\ limit[p] \in Nat /\ limit'[p] <= limit[p]
            BY <1>3, <1>4
          <5>2. limit[p] \in 0 .. LimitWrap - 1 /\ LimitWrap \in Nat
            BY <2>1, NumbersAssumption
          <5> QED
            BY <5>1, <5>2
        <4> QED
          BY <4>1, TotalFits
      <3>3. sp'[j] = (sp[j] - k - 0) % Wrap
        BY <2>7 DEF Counters
      <3>4. Total(limit', j) % Wrap = Total(limit', j)
        BY <3>2, ModFacts, Zenon
      <3> QED
        BY <3>1, <3>3, <3>4
    <2>10. \A i \in PsIds : Total(limit, i)' = Total(limit', i)
      BY <1>2, TotalLater
    <2> QED
      BY <2>4, <2>8, <2>9, <2>10
  <1> QED
    BY <1>6, <1>7

LEMMA PeriodsStep ==
    ASSUME Base, Types', Whole, Locked, Counters, Covered, Covered', Periods, [Next]_vars
    PROVE  Periods'
  <1> USE DEF envVars, schedVars, queueVars, psVars, lifeVars
  <1>0. Types /\ Life /\ flagged \subseteq Txqs
    BY DEF Base, Types
  <1>a. ASSUME Undisturbed => Ungranted' /\ InPeriod', events' = events PROVE Periods'
    BY <1>a DEF Periods, Undisturbed, Without
  <1>b. ASSUME Undisturbed, Steady, psOn
        PROVE  active = Txqs /\ \A q \in Txqs : "sta_ps" \in stop[q]
    BY <1>b, SleepFacts
  <1>1. ASSUME NEW s \in Senders, QueueSkb(s) PROVE Periods'
    <2>1. PICK q \in Txqs : q = sender[s]
      BY <1>0, <1>1 DEF QueueSkb, Types
    <2>2. /\ UNCHANGED <<events, ps_id, valid, add, psOn, limit, sp>>
          /\ stop[q] # {} => flagged' = flagged
      BY <1>1, <2>1 DEF QueueSkb
    <2> QED
      BY <1>b, <2>2, PeriodsSame
  <1>2. ASSUME NEW s \in Senders, NEW q \in Txqs, Xmit(s, q) PROVE Periods'
    BY <1>2, PeriodsSame DEF Xmit
  <1>3. CASE WalkActive
    BY <1>a, <1>3, PeriodsWalkActive DEF WalkActive
  <1>4. CASE WalkInactive
    BY <1>4, PeriodsSame DEF WalkInactive, DelFromHwList
  <1>5. CASE WalkEnd \/ Task
    BY <1>5, PeriodsSame DEF WalkEnd, Task
  <1>6. ASSUME NEW on \in BOOLEAN, PsInd(on) PROVE Periods'
    BY <1>a, <1>6, PeriodsPsInd DEF PsInd
  <1>7. CASE Interrupt
    <2>1. ~Undisturbed /\ events' = events
      BY <1>7 DEF Interrupt, Undisturbed, Without
    <2> QED
      BY <1>a, <2>1
  <1>8. ASSUME NEW n \in Requests, NEW i \in PsIds, TrafficReq(n, i) PROVE Periods'
    BY <1>a, <1>8, PeriodsTrafficReq DEF TrafficReq
  <1>9. ASSUME NEW r, VifStop(r) PROVE Periods'
    <2>1. UNCHANGED <<events, ps_id, valid, add, psOn, limit, sp>> /\ flagged' \subseteq flagged
      BY <1>9 DEF VifStop, StopQueues, DelFromHwList
    <2> QED
      BY <2>1, PeriodsSame
  <1>10. ASSUME NEW r \in VifReasons, NEW kick, VifStart(r, kick) PROVE Periods'
    <2>1. UNCHANGED <<events, ps_id, valid, add, psOn, limit, sp>> /\ flagged' \subseteq flagged \cup Started(r)
      BY <1>10 DEF VifStart, StartQueues, AddToHwList
    <2>2. r # "sta_ps"
      BY DEF VifReasons
    <2>3. Undisturbed /\ Steady /\ psOn => Started(r) = {}
      BY <1>b, <2>2 DEF Started
    <2> QED
      BY <2>1, <2>3, PeriodsSame
  <1>11. CASE \E b \in BOOLEAN : BusBusy(b)
    BY <1>11, PeriodsSame DEF BusBusy
  <1>12. CASE DelStation
    <2>1. ~valid' /\ add' = "none" /\ events' = events
      BY <1>12 DEF DelStation
    <2> QED
      BY <1>a, <2>1 DEF Ungranted, InPeriod, Steady
  <1>13. CASE Deinit
    BY <1>13, PeriodsSame DEF Deinit, DelFromHwList
  <1>14. CASE Flush
    BY <1>14, PeriodsSame DEF Flush
  <1>15. CASE AddStation
    <2>1. ~valid' /\ add' = "asked" /\ events' = events
      BY <1>15 DEF AddStation
    <2> QED
      BY <1>a, <2>1 DEF Ungranted, InPeriod, Steady
  <1>16. CASE StaInit
    <2>1. NoGrants' /\ add' = "init" /\ events' = events
      BY <1>16 DEF StaInit, NoGrants
    <2> QED
      BY <1>a, <2>1 DEF Ungranted, InPeriod, Steady
  <1>17. CASE Added
    <2>1. add \in {"on", "off"} /\ valid /\ UNCHANGED <<events, active, valid>> /\ (PsEnable \/ PsDisable)
      BY <1>0, <1>17 DEF Added, Life
    <2>2. Undisturbed => NoGrants
      BY <2>1 DEF Periods, Ungranted
    <2> QED
      BY <1>a, <1>0, <2>1, <2>2, PeriodsPs
  <1>18. ASSUME NEW pm \in BOOLEAN, LinkStation(pm) PROVE Periods'
    <2>1. add = "init" /\ limit' = limit /\ add' # "none" /\ events' = events
      BY <1>18 DEF LinkStation
    <2>2. Undisturbed => NoGrants'
      BY <2>1 DEF Periods, Ungranted, NoGrants
    <2> QED
      BY <1>a, <2>1, <2>2 DEF Ungranted, InPeriod, Steady
  <1>19. ASSUME NEW c \in fw, Confirm(c[1], c[2]) PROVE Periods'
    <2>1. PICK q \in Txqs : q = c[1]
      BY <1>0, FwPair
    <2>2. /\ UNCHANGED <<events, ps_id, valid, add, psOn, limit, sp>>
          /\ \/ flagged' = flagged
             \/ flagged' \subseteq flagged \cup {q} /\ limit[q] > 0
      BY <1>19, <2>1 DEF Confirm, Link, AddToHwList
    <2> QED
      BY <2>2, PeriodsSame
  <1>20. ASSUME NEW c \in fw, Retry(c[1], c[2]) PROVE Periods'
    <2>1. PICK q \in Txqs : q = c[1]
      BY <1>0, FwPair
    <2>2. /\ UNCHANGED <<events, ps_id, valid, add, psOn, limit, sp>>
          /\ stop'[q] # {} => flagged' = flagged
          /\ "sta_ps" \in stop[q] => "sta_ps" \in stop'[q]
      BY <1>0, <1>20, <2>1 DEF Retry, Types
    <2> QED
      BY <1>b, <2>2, PeriodsSame
  <1>21. CASE ConfirmLink
    <2>1. ~Undisturbed /\ events' = events
      BY <1>21 DEF ConfirmLink, Undisturbed, Without, Locked
    <2> QED
      BY <1>a, <2>1
  <1>22. ASSUME NEW q \in Txqs, CreditUpdate(q) PROVE Periods'
    <2>1. UNCHANGED <<events, ps_id, valid, add, psOn, limit, sp>>
      BY <1>22 DEF CreditUpdate
    <2>2. \/ flagged' \subseteq flagged
          \/ stop' = [stop EXCEPT ![q] = @ \ {"full"}] /\ stop'[q] = {}
      BY <1>22 DEF CreditUpdate, DelFromHwList, AddToHwList
    <2>3. "sta_ps" \in stop[q] => flagged' \subseteq flagged
      <3>1. stop' = [stop EXCEPT ![q] = @ \ {"full"}] => stop'[q] = stop[q] \ {"full"}
        BY <1>0 DEF Types
      <3> QED
        BY <2>2, <3>1
    <2> QED
      BY <1>b, <2>1, <2>3, PeriodsSame
  <1>23. CASE UNCHANGED vars
    BY <1>23, PeriodsSame DEF vars
  <1>24. "csa" \in VifReasons /\ "chan" \in VifReasons
    BY DEF VifReasons
  <1> QED
    BY <1>1, <1>2, <1>3, <1>4, <1>5, <1>6, <1>7, <1>8, <1>9, <1>10, <1>11, <1>12, <1>13, <1>14, <1>15, <1>16,
       <1>17, <1>18, <1>19, <1>20, <1>21, <1>22, <1>23, <1>24 DEF Next, VifBack, CsaEnd, CsaFinish

-----------------------------------------------------------------------------
(* Bounds and types                                                        *)

Busy == {s \in Senders : sender[s] # NoQ}

\* Every sender that found a queue active may queue its frame.
Bounded == nf + Cardinality(Busy) <= MaxFrames

LEMMA BusyFinite == IsFiniteSet(Busy) /\ Cardinality(Busy) \in Nat
  <1>1. Busy \in SUBSET Senders
    BY DEF Busy
  <1> QED
    BY <1>1, NumbersAssumption, FS_Subset, FS_CardinalityType

LEMMA BoundedSame ==
    ASSUME Bounded, UNCHANGED <<nf, sender>>
    PROVE  Bounded'
  BY DEF Bounded, Busy

LEMMA BoundedStep ==
    ASSUME Types, Bounded, [Next]_vars
    PROVE  Bounded'
  <1> USE DEF histVars
  <1>1. ASSUME NEW s \in Senders, QueueSkb(s) PROVE Bounded'
    <2>1. sender[s] # NoQ /\ sender' = [sender EXCEPT ![s] = NoQ] /\ nf' = nf + 1
      BY <1>1 DEF QueueSkb
    <2>2. s \in Busy /\ Busy' = Busy \ {s}
      BY <2>1 DEF Busy, Types
    <2>3. Cardinality(Busy') = Cardinality(Busy) - 1
      BY <2>2, BusyFinite, FS_RemoveElement
    <2> QED
      BY <2>1, <2>3, BusyFinite DEF Bounded, Types
  <1>2. ASSUME NEW s \in Senders, NEW q \in Txqs, Xmit(s, q) PROVE Bounded'
    <2>1. /\ sender[s] = NoQ /\ nf + Cardinality(Busy) < MaxFrames
          /\ sender' = [sender EXCEPT ![s] = q] /\ nf' = nf
      BY <1>2 DEF Xmit, Busy
    <2>2. s \notin Busy /\ Busy' = Busy \cup {s}
      BY <2>1, Constants DEF Busy, Types
    <2>3. Cardinality(Busy') = Cardinality(Busy) + 1
      BY <2>2, BusyFinite, FS_AddElement
    <2>4. MaxFrames \in Nat
      BY NumbersAssumption
    <2> QED
      BY <2>1, <2>3, <2>4, BusyFinite DEF Bounded, Types
  <1>3. CASE WalkActive \/ WalkInactive \/ WalkEnd \/ Task
    BY <1>3, BoundedSame DEF WalkActive, WalkInactive, WalkEnd, Task
  <1>4. ASSUME NEW on \in BOOLEAN, PsInd(on) PROVE Bounded'
    BY <1>4, BoundedSame DEF PsInd
  <1>5. ASSUME NEW n \in Requests, NEW i \in PsIds, TrafficReq(n, i) PROVE Bounded'
    BY <1>5, BoundedSame DEF TrafficReq
  <1>6. ASSUME NEW r, VifStop(r) \/ \E kick \in BOOLEAN : VifStart(r, kick) PROVE Bounded'
    BY <1>6, BoundedSame DEF VifStop, VifStart
  <1>7. CASE (\E b \in BOOLEAN : BusBusy(b)) \/ Interrupt \/ DelStation \/ Deinit \/ Flush
    BY <1>7, BoundedSame DEF BusBusy, Interrupt, DelStation, Deinit, Flush
  <1>8. CASE AddStation \/ StaInit \/ Added \/ \E pm \in BOOLEAN : LinkStation(pm)
    BY <1>8, BoundedSame DEF AddStation, StaInit, Added, LinkStation
  <1>9. ASSUME NEW c \in fw, Confirm(c[1], c[2]) \/ Retry(c[1], c[2]) PROVE Bounded'
    BY <1>9, BoundedSame DEF Confirm, Retry
  <1>10. CASE ConfirmLink \/ \E q \in Txqs : CreditUpdate(q)
    BY <1>10, BoundedSame DEF ConfirmLink, CreditUpdate
  <1>11. CASE UNCHANGED vars
    BY <1>11, BoundedSame DEF vars
  <1> QED
    BY <1>1, <1>2, <1>3, <1>4, <1>5, <1>6, <1>7, <1>8, <1>9, <1>10, <1>11
       DEF Next, VifBack, CsaEnd, CsaFinish

\* What each action changes on its own.
Plain ==
    /\ ps_id \in PsIdMaps /\ events \in Scenarios /\ vstop \subseteq VifReasons
    /\ closed \subseteq Data /\ task \in BOOLEAN /\ tim \subseteq PsIds

LEMMA PlainStep ==
    ASSUME Types, Counters, Plain, [Next]_vars
    PROVE  Plain'
  <1> USE DEF envVars, flowVars, psVars
  <1>a. ps_id' = ps_id /\ events' = events
    BY MovesStep DEF Moves
  <1>b. ASSUME UNCHANGED <<vstop, closed, task, tim>> PROVE Plain'
    BY <1>a, <1>b DEF Plain
  <1>c. ASSUME NEW q \in Txqs, CountReady(q) PROVE tim' \subseteq PsIds
    BY <1>c DEF CountReady, Counters, Plain
  <1>d. ASSUME NEW q \in Txqs, FlowStops(q) \/ FlowRestarts(q) PROVE closed' \subseteq Data
    BY <1>d DEF FlowStops, FlowRestarts, Plain
  <1>e. ASSUME PsEnable \/ PsDisable PROVE tim' \subseteq PsIds /\ task' \in BOOLEAN
    BY <1>e DEF PsEnable, PsDisable, Plain
  <1>1. ASSUME NEW s \in Senders, QueueSkb(s) PROVE Plain'
    <2>1. sender[s] \in Txqs /\ CountReady(sender[s]) /\ FlowStops(sender[s]) /\ UNCHANGED <<vstop, task>>
      BY <1>1 DEF QueueSkb, Types
    <2> QED
      BY <1>a, <1>c, <1>d, <2>1 DEF Plain
  <1>2. ASSUME NEW s \in Senders, NEW q \in Txqs, Xmit(s, q) PROVE Plain'
    BY <1>2, <1>b DEF Xmit
  <1>3. CASE WalkActive
    <2>1. PICK q, k, rest, l : Pushes(q, k, rest, l) /\ q = walk.at
      BY <1>3, PushStep DEF Pushes
    <2>2. q \in Txqs /\ FlowRestarts(q) /\ UNCHANGED <<vstop, task>>
      BY <1>3, <2>1 DEF WalkActive, Pushes
    <2>3. tim' \subseteq PsIds
      BY <2>1 DEF Pushes, PushPs, Plain
    <2> QED
      BY <1>a, <1>d, <2>2, <2>3 DEF Plain
  <1>4. CASE WalkInactive \/ WalkEnd
    BY <1>4, <1>b DEF WalkInactive, WalkEnd
  <1>5. CASE Task
    BY <1>a, <1>5 DEF Task, Plain
  <1>6. ASSUME NEW on \in BOOLEAN, PsInd(on) PROVE Plain'
    <2>1. UNCHANGED <<vstop, closed>> /\ (UNCHANGED <<tim, task>> \/ PsEnable \/ PsDisable)
      BY <1>6 DEF PsInd
    <2> QED
      BY <1>a, <1>e, <2>1 DEF Plain
  <1>7. ASSUME NEW n \in Requests, NEW i \in PsIds, TrafficReq(n, i) PROVE Plain'
    BY <1>a, <1>7 DEF TrafficReq, Plain
  <1>8. ASSUME NEW r \in VifReasons, VifStop(r) PROVE Plain'
    BY <1>a, <1>8 DEF VifStop, Plain
  <1>9. ASSUME NEW r \in VifReasons, NEW kick \in BOOLEAN, VifStart(r, kick) PROVE Plain'
    BY <1>a, <1>9 DEF VifStart, Plain
  <1>10. ASSUME NEW b \in BOOLEAN, BusBusy(b) PROVE Plain'
    BY <1>a, <1>10 DEF BusBusy, Plain
  <1>11. CASE Interrupt \/ DelStation \/ Deinit \/ Flush \/ AddStation \/ StaInit
    BY <1>11, <1>b DEF Interrupt, DelStation, Deinit, Flush, AddStation, StaInit
  <1>12. CASE Added
    <2>1. UNCHANGED <<vstop, closed>> /\ (PsEnable \/ PsDisable)
      BY <1>12 DEF Added
    <2> QED
      BY <1>a, <1>e, <2>1 DEF Plain
  <1>13. ASSUME NEW pm \in BOOLEAN, LinkStation(pm) PROVE Plain'
    BY <1>13, <1>b DEF LinkStation
  <1>14. ASSUME NEW c \in fw, Confirm(c[1], c[2]) PROVE Plain'
    BY <1>14, <1>b DEF Confirm
  <1>15. ASSUME NEW c \in fw, Retry(c[1], c[2]) PROVE Plain'
    <2>1. c[1] \in Txqs /\ CountReady(c[1]) /\ FlowStops(c[1]) /\ UNCHANGED <<vstop, task>>
      BY <1>15 DEF Retry, Types
    <2> QED
      BY <1>a, <1>c, <1>d, <2>1 DEF Plain
  <1>16. CASE ConfirmLink \/ \E q \in Txqs : CreditUpdate(q)
    BY <1>16, <1>b DEF ConfirmLink, CreditUpdate
  <1>17. CASE UNCHANGED vars
    BY <1>17, <1>b DEF vars
  <1>18. "csa" \in VifReasons /\ "chan" \in VifReasons
    BY DEF VifReasons
  <1> QED
    BY <1>1, <1>2, <1>3, <1>4, <1>5, <1>6, <1>7, <1>8, <1>9, <1>10, <1>11, <1>12, <1>13, <1>14, <1>15, <1>16,
       <1>17, <1>18 DEF Next, VifBack, CsaEnd, CsaFinish

\* credits is an s8, push_limit a u8, and pkt_sent counts up.
Narrow ==
    /\ credits \in [Txqs -> -CreditMax .. CreditMax - 1]
    /\ limit \in [Txqs -> 0 .. LimitWrap - 1] /\ sent \in [Txqs -> Nat]

LEMMA NarrowSame ==
    ASSUME Narrow, UNCHANGED <<credits, limit, sent>>
    PROVE  Narrow'
  BY DEF Narrow

LEMMA NarrowZero ==
    ASSUME Narrow, UNCHANGED <<credits, sent>>, limit' = limit \/ limit' = [q \in Txqs |-> 0]
    PROVE  Narrow'
  <1>1. 0 \in 0 .. LimitWrap - 1
    BY NumbersAssumption
  <1> QED
    BY <1>1 DEF Narrow

LEMMA NarrowWalkActive ==
    ASSUME Types, Narrow, WalkActive
    PROVE  Narrow'
  <1>1. PICK q, k, rest, l : Pushes(q, k, rest, l)
    BY PushStep
  <1>2. /\ q \in Txqs /\ q = walk.at /\ k = NPush(q) /\ k \in Nat
        /\ limit' = [limit EXCEPT ![q] = l] /\ l \in Nat /\ l <= limit[q]
    BY <1>1, LenZero DEF Pushes
  <1>3. limit' \in [Txqs -> 0 .. LimitWrap - 1]
    <2>1. l \in 0 .. LimitWrap - 1
      <3>1. limit[q] \in 0 .. LimitWrap - 1 /\ LimitWrap \in Nat
        BY <1>2, NumbersAssumption DEF Narrow
      <3> QED
        BY <1>2, <3>1
    <2> QED
      BY <1>2, <2>1 DEF Narrow
  <1>4. credits' = credits
    BY DEF WalkActive
  <1>5. sent' \in [Txqs -> Nat]
    <2>1. PICK m : m = sent[q] + k - Min({k, nb_retry[q]})
      OBVIOUS
    <2>2. nb_retry[q] \in Nat /\ sent[q] \in Nat
      BY <1>2 DEF Types, Narrow
    <2>3. m \in Nat
      BY <1>2, <2>1, <2>2, MinOfTwo
    <2>4. sent' = [sent EXCEPT ![q] = 0] \/ sent' = [sent EXCEPT ![q] = m]
      BY <1>2, <2>1 DEF WalkActive
    <2> QED
      BY <2>3, <2>4 DEF Narrow
  <1> QED
    BY <1>3, <1>4, <1>5 DEF Narrow

LEMMA NarrowStep ==
    ASSUME Types, Counters, Narrow, [Next]_vars
    PROVE  Narrow'
  <1> USE DEF envVars, queueVars
  <1>1. ASSUME NEW s \in Senders, QueueSkb(s) \/ \E q \in Txqs : Xmit(s, q) PROVE Narrow'
    BY <1>1, NarrowSame DEF QueueSkb, Xmit
  <1>2. CASE WalkActive
    BY <1>2, NarrowWalkActive
  <1>3. CASE WalkInactive \/ WalkEnd \/ Task
    BY <1>3, NarrowSame DEF WalkInactive, WalkEnd, Task
  <1>4. ASSUME NEW on \in BOOLEAN, PsInd(on) PROVE Narrow'
    BY <1>4, NarrowZero DEF PsInd, PsEnable, PsDisable
  <1>5. CASE Interrupt
    BY <1>5, NarrowZero DEF Interrupt
  <1>6. ASSUME NEW n \in Requests, NEW i \in PsIds, TrafficReq(n, i) PROVE Narrow'
    <2>1. PICK share : Grants(share, i)
      BY <1>6, TrafficGrants DEF Counters
    <2>2. UNCHANGED <<credits, sent>>
      BY <1>6 DEF TrafficReq
    <2>3. \A q \in Txqs : share[q] % LimitWrap \in 0 .. LimitWrap - 1
      <3>1. \A q \in Txqs : share[q] \in Int
        BY <2>1 DEF Grants
      <3>2. LimitWrap \in Nat \ {0}
        BY NumbersAssumption
      <3>3. \A x \in Int : x % LimitWrap \in 0 .. LimitWrap - 1
        BY <3>2, ModStep
      <3> QED
        BY <3>1, <3>3
    <2>4. limit' = [q \in Txqs |-> IF share[q] > 0 THEN share[q] % LimitWrap ELSE limit[q]]
      BY <2>1 DEF Grants
    <2> QED
      BY <2>2, <2>3, <2>4 DEF Narrow
  <1>7. ASSUME NEW r, VifStop(r) \/ \E kick \in BOOLEAN : VifStart(r, kick) PROVE Narrow'
    BY <1>7, NarrowSame DEF VifStop, VifStart
  <1>8. CASE (\E b \in BOOLEAN : BusBusy(b)) \/ DelStation \/ Deinit \/ Flush
    BY <1>8, NarrowSame DEF BusBusy, DelStation, Deinit, Flush
  <1>9. CASE AddStation \/ \E pm \in BOOLEAN : LinkStation(pm)
    BY <1>9, NarrowSame DEF AddStation, LinkStation
  <1>10. CASE StaInit
    <2>1. 0 \in 0 .. LimitWrap - 1 /\ Credits \in -CreditMax .. CreditMax - 1
      BY NumbersAssumption
    <2> QED
      BY <1>10, <2>1 DEF StaInit, Narrow
  <1>11. CASE Added
    BY <1>11, NarrowZero DEF Added, PsEnable, PsDisable
  <1>12. ASSUME NEW c \in fw, Confirm(c[1], c[2]) PROVE Narrow'
    BY <1>12, NarrowSame DEF Confirm
  <1>13. ASSUME NEW c \in fw, Retry(c[1], c[2]) PROVE Narrow'
    <2>1. PICK q \in Txqs : q = c[1]
      BY DEF Types
    <2>2. UNCHANGED <<limit, sent>> /\ credits' = [credits EXCEPT ![q] = MoreCredits(q)]
      BY <1>13, <2>1 DEF Retry
    <2>3. MoreCredits(q) \in -CreditMax .. CreditMax - 1
      BY Constants DEF MoreCredits, Narrow
    <2> QED
      BY <2>2, <2>3 DEF Narrow
  <1>14. CASE ConfirmLink \/ \E q \in Txqs : CreditUpdate(q)
    BY <1>14, NarrowSame DEF ConfirmLink, CreditUpdate
  <1>15. CASE UNCHANGED vars
    BY <1>15, NarrowSame DEF vars
  <1> QED
    BY <1>1, <1>2, <1>3, <1>4, <1>5, <1>6, <1>7, <1>8, <1>9, <1>10, <1>11, <1>12, <1>13, <1>14, <1>15
       DEF Next, VifBack, CsaEnd, CsaFinish

\* Frames are numbered from 1.
NumberedAt(q) == last_retry[q] <= nf /\ \A i \in 1 .. Len(sk[q]) : sk[q][i] > 0
Numbered == \A q \in Txqs : NumberedAt(q)

LEMMA NumberedSame ==
    ASSUME Numbered, UNCHANGED <<last_retry, sk, nf>>
    PROVE  Numbered'
  BY DEF Numbered, NumberedAt

LEMMA NumberedChange ==
    ASSUME Types, Numbered, NEW q \in Txqs, NEW s, sk' = [sk EXCEPT ![q] = s], \A i \in 1 .. Len(s) : s[i] > 0,
           \A p \in Txqs : last_retry'[p] <= nf'
    PROVE  Numbered'
  <1> SUFFICES ASSUME NEW p \in Txqs PROVE NumberedAt(p)'
    BY DEF Numbered
  <1>1. sk'[p] = IF p = q THEN s ELSE sk[p]
    BY DEF Types
  <1>2. \A i \in 1 .. Len(sk[p]) : sk[p][i] > 0
    BY DEF Numbered, NumberedAt
  <1> QED
    BY <1>1, <1>2 DEF NumberedAt

LEMMA NumberedStep ==
    ASSUME Types, AllOrdered, Pushed, Numbered, [Next]_vars
    PROVE  Numbered'
  <1> USE DEF queueVars, histVars
  <1>a. \A p \in Txqs : last_retry[p] \in Nat /\ last_retry[p] <= nf /\ nf \in Nat
    BY DEF Types, Numbered, NumberedAt
  <1>b. \A i \in 1 .. Len(<<>>) : <<>>[i] > 0
    BY EmptySeq
  <1>1. ASSUME NEW s \in Senders, QueueSkb(s) PROVE Numbered'
    <2>1. PICK q \in Txqs : q = sender[s]
      BY <1>1 DEF QueueSkb, Types
    <2>2. sk' = [sk EXCEPT ![q] = Append(sk[q], nf + 1)] /\ nf' = nf + 1 /\ last_retry' = last_retry
      BY <1>1, <2>1 DEF QueueSkb
    <2>3. sk[q] \in Seq(Nat) /\ nf + 1 \in Nat /\ nf + 1 > 0
      BY <1>a DEF Types
    <2>4. ASSUME NEW i \in 1 .. Len(Append(sk[q], nf + 1)) PROVE Append(sk[q], nf + 1)[i] > 0
      <3>1. /\ Len(Append(sk[q], nf + 1)) = Len(sk[q]) + 1 /\ Append(sk[q], nf + 1)[Len(sk[q]) + 1] = nf + 1
            /\ \A j \in 1 .. Len(sk[q]) : Append(sk[q], nf + 1)[j] = sk[q][j]
        BY <2>3, AppendFacts
      <3>2. Len(sk[q]) \in Nat
        BY <2>3, LenProperties
      <3>3. i \in 1 .. Len(sk[q]) \/ i = Len(sk[q]) + 1
        BY <2>4, <3>1, <3>2
      <3>4. \A j \in 1 .. Len(sk[q]) : sk[q][j] > 0
        BY DEF Numbered, NumberedAt
      <3> QED
        BY <2>3, <3>1, <3>3, <3>4
    <2>5. \A p \in Txqs : last_retry'[p] <= nf'
      BY <1>a, <2>2
    <2> QED
      BY <2>2, <2>4, <2>5, NumberedChange
  <1>2. ASSUME NEW s \in Senders, NEW q \in Txqs, Xmit(s, q) PROVE Numbered'
    BY <1>2, NumberedSame DEF Xmit
  <1>3. CASE WalkActive
    <2>1. PICK q, k, rest, l : Pushes(q, k, rest, l)
      BY <1>3, PushStep
    <2>2. /\ q \in Txqs /\ k \in 0 .. Len(sk[q]) /\ sk[q] \in Seq(Nat)
          /\ sk' = [sk EXCEPT ![q] = SubSeq(sk[q], k + 1, Len(sk[q]))]
          /\ \E x \in {0, last_retry[q]} : last_retry' = [last_retry EXCEPT ![q] = x]
      BY <2>1 DEF Pushes, PushFrames, Types
    <2>3. nf' = nf
      BY <1>3 DEF WalkActive
    <2>4. \A p \in Txqs : last_retry'[p] <= nf'
      <3>1. \A p \in Txqs : last_retry'[p] \in {0, last_retry[p]}
        BY <2>2 DEF Types
      <3> QED
        BY <1>a, <2>3, <3>1
    <2>5. ASSUME NEW i \in 1 .. Len(SubSeq(sk[q], k + 1, Len(sk[q]))) PROVE SubSeq(sk[q], k + 1, Len(sk[q]))[i] > 0
      <3>1. /\ Len(SubSeq(sk[q], k + 1, Len(sk[q]))) = Len(sk[q]) - k
            /\ \A j \in 1 .. Len(sk[q]) - k : SubSeq(sk[q], k + 1, Len(sk[q]))[j] = sk[q][k + j]
        BY <2>2, Rest
      <3>2. i \in 1 .. Len(sk[q]) - k /\ Len(sk[q]) \in Nat
        BY <2>2, <2>5, <3>1, LenProperties
      <3>3. k + i \in 1 .. Len(sk[q])
        BY <2>2, <3>2
      <3>4. sk[q][k + i] > 0
        BY <2>2, <3>3 DEF Numbered, NumberedAt
      <3> QED
        BY <3>1, <3>2, <3>4
    <2> QED
      BY <2>2, <2>4, <2>5, NumberedChange
  <1>4. CASE WalkInactive
    <2>1. walk.at \in Txqs /\ sk' = [sk EXCEPT ![walk.at] = <<>>] /\ UNCHANGED <<last_retry, nf>>
      BY <1>4 DEF WalkInactive, Types
    <2>2. \A p \in Txqs : last_retry'[p] <= nf'
      BY <1>a, <2>1
    <2> QED
      BY <1>b, <2>1, <2>2, NumberedChange
  <1>5. CASE WalkEnd \/ Task \/ Interrupt
    BY <1>5, NumberedSame DEF WalkEnd, Task, Interrupt
  <1>6. ASSUME NEW on \in BOOLEAN, PsInd(on) PROVE Numbered'
    BY <1>6, NumberedSame DEF PsInd
  <1>7. ASSUME NEW n \in Requests, NEW i \in PsIds, TrafficReq(n, i) PROVE Numbered'
    BY <1>7, NumberedSame DEF TrafficReq
  <1>8. ASSUME NEW r, VifStop(r) \/ \E kick \in BOOLEAN : VifStart(r, kick) PROVE Numbered'
    BY <1>8, NumberedSame DEF VifStop, VifStart
  <1>9. CASE (\E b \in BOOLEAN : BusBusy(b)) \/ DelStation \/ Deinit \/ AddStation
    BY <1>9, NumberedSame DEF BusBusy, DelStation, Deinit, AddStation
  <1>10. CASE Flush
    <2>1. flushing \in Txqs /\ sk' = [sk EXCEPT ![flushing] = <<>>] /\ UNCHANGED <<last_retry, nf>>
      BY <1>10 DEF Flush, Types
    <2>2. \A p \in Txqs : last_retry'[p] <= nf'
      BY <1>a, <2>1
    <2> QED
      BY <1>b, <2>1, <2>2, NumberedChange
  <1>11. CASE StaInit
    <2>1. sk' = [q \in Txqs |-> <<>>] /\ last_retry' = [q \in Txqs |-> 0] /\ nf' = nf
      BY <1>11 DEF StaInit
    <2>2. 0 <= nf
      BY DEF Types
    <2> QED
      BY <1>b, <2>1, <2>2 DEF Numbered, NumberedAt
  <1>12. CASE Added \/ \E pm \in BOOLEAN : LinkStation(pm)
    BY <1>12, NumberedSame DEF Added, LinkStation
  <1>13. ASSUME NEW c \in fw, Confirm(c[1], c[2]) PROVE Numbered'
    BY <1>13, NumberedSame DEF Confirm
  <1>14. ASSUME NEW c \in fw, Retry(c[1], c[2]) PROVE Numbered'
    <2>1. PICK q, f : q = c[1] /\ f = c[2]
      OBVIOUS
    <2>2. <<q, f>> \in fw /\ Retry(q, f) /\ f > 0 /\ f <= out[q] /\ q \in Txqs
      BY <1>14, <2>1, FwPair DEF Pushed
    <2>3. /\ f \in Nat /\ sk' = [sk EXCEPT ![q] = Inserted(sk[q], nb_retry[q], f)]
          /\ nb_retry[q] \in 0 .. Len(sk[q]) /\ Len(sk[q]) \in Nat
      BY <2>2, RetrySk
    <2>4. last_retry' = [last_retry EXCEPT ![q] = f] /\ nf' = nf
      BY <2>2 DEF Retry
    <2>5. f <= nf
      <3>1. out[q] <= nf /\ out[q] \in Nat
        BY <2>2 DEF Pushed
      <3> QED
        BY <1>a, <2>2, <2>3, <3>1
    <2>6. \A p \in Txqs : last_retry'[p] <= nf'
      <3>1. \A p \in Txqs : last_retry'[p] = IF p = q THEN f ELSE last_retry[p]
        BY <2>4 DEF Types
      <3> QED
        BY <1>a, <2>4, <2>5, <3>1
    <2>7. PICK s, k : s = sk[q] /\ k = nb_retry[q]
      OBVIOUS
    <2>8. ASSUME NEW i \in 1 .. Len(Inserted(s, k, f)) PROVE Inserted(s, k, f)[i] > 0
      <3>1. s \in Seq(Nat) /\ k \in 0 .. Len(s) /\ \A j \in 1 .. Len(s) : s[j] > 0
        BY <2>2, <2>3, <2>7 DEF Types, Numbered, NumberedAt
      <3>2. /\ Len(Inserted(s, k, f)) = Len(s) + 1
            /\ \A j \in 1 .. Len(s) + 1 :
                  Inserted(s, k, f)[j] = IF j <= k THEN s[j] ELSE IF j = k + 1 THEN f ELSE s[j - 1]
        BY <2>3, <3>1, InsertFacts
      <3>3. Len(s) \in Nat
        BY <2>3, <2>7
      <3>4. i \in 1 .. Len(s) + 1 /\ (i <= k => i \in 1 .. Len(s))
            /\ (i > k /\ i # k + 1 => i - 1 \in 1 .. Len(s))
        BY <2>8, <3>1, <3>2, <3>3
      <3> QED
        BY <2>2, <3>1, <3>2, <3>4
    <2> QED
      BY <2>2, <2>3, <2>6, <2>7, <2>8, NumberedChange
  <1>15. CASE ConfirmLink \/ \E q \in Txqs : CreditUpdate(q)
    BY <1>15, NumberedSame DEF ConfirmLink, CreditUpdate
  <1>16. CASE UNCHANGED vars
    BY <1>16, NumberedSame DEF vars
  <1> QED
    BY <1>1, <1>2, <1>3, <1>4, <1>5, <1>6, <1>7, <1>8, <1>9, <1>10, <1>11, <1>12, <1>13, <1>14, <1>15, <1>16
       DEF Next, VifBack, CsaEnd, CsaFinish

-----------------------------------------------------------------------------
\* The lists, the service periods, the counters and their bounds together.
QInv ==
    /\ IInv /\ Whole /\ Shape /\ Counters /\ Scheduled /\ Covered /\ ReadyCounted /\ Periods
    /\ Bounded /\ Plain /\ Narrow /\ Numbered

LEMMA ShapeInit == Init => Whole /\ Shape /\ Scheduled
  <1> SUFFICES ASSUME Init PROVE Whole /\ Shape /\ Scheduled
    OBVIOUS
  <1>1. /\ list = [h \in Hwqs |-> <<>>] /\ flagged = {} /\ walk = Idle /\ need = {}
        /\ add = "none" /\ active = Txqs /\ dq = <<>> /\ flushing = NoQ
    BY DEF Init
  <1>2. <<>> \in Seq(Txqs) /\ ToSet(<<>>) = {} /\ IsInjective(<<>>)
    <2>1. <<>> \in Seq(Txqs)
      BY EmptySeq
    <2>2. ToSet(<<>>) = {} /\ Len(<<>>) = 0
      BY <2>1, ListEmpty, EmptySeq
    <2>3. PICK e \in Seq(Txqs) : e = <<>>
      BY <2>1
    <2>4. IsInjective(e) <=> \A i, j \in 1 .. Len(e) : e[i] = e[j] => i = j
      BY SetOf
    <2>5. Len(e) = 0
      BY <2>2, <2>3
    <2>6. IsInjective(e)
      BY <2>4, <2>5
    <2> QED
      BY <2>1, <2>2, <2>3, <2>6
  <1>3. Whole
    BY <1>1 DEF Whole
  <1>4. \A h \in Hwqs : list[h] = <<>>
    BY <1>1
  <1>5. Linked
    BY <1>1, <1>2, <1>4 DEF Linked
  <1>6. Walking
    BY <1>1 DEF Walking, Idle
  <1>7. OneEntry
    BY <1>1, <1>2, <1>4 DEF OneEntry
  <1>8. InTurn /\ walk.at = NoQ
    BY <1>1 DEF InTurn, Idle
  <1>9. Asked
    BY <1>1 DEF Asked
  <1> QED
    BY <1>3, <1>5, <1>6, <1>7, <1>8, <1>9 DEF Shape, Scheduled, Listed

LEMMA CountsInit == Init => Counters /\ Covered /\ ReadyCounted /\ Periods
  <1> SUFFICES ASSUME Init PROVE Counters /\ Covered /\ ReadyCounted /\ Periods
    OBVIOUS
  <1>1. /\ ps_id \in PsIdMaps /\ ready = [i \in PsIds |-> 0] /\ sp = [i \in PsIds |-> 0]
        /\ credits = [q \in Txqs |-> Credits] /\ limit = [q \in Txqs |-> 0] /\ sk = [q \in Txqs |-> <<>>]
        /\ flagged = {} /\ active = Txqs /\ psOn = FALSE
    BY DEF Init
  <1>2. Counters
    <2>1. 0 \in 0 .. Wrap - 1
      BY NumbersAssumption
    <2>2. ps_id \in [Txqs -> PsIds]
      BY <1>1, QueuesAssumption
    <2> QED
      BY <1>1, <2>1, <2>2 DEF Counters
  <1>3. Covered
    <2>1. Credits \in 1 .. CreditMax - 1 /\ 0 <= Credits /\ 0 <= Len(<<>>)
      BY Constants, EmptySeq
    <2> QED
      BY <1>1, <2>1 DEF Covered, Credited, Framed
  <1>4. ReadyCounted
    BY <1>1 DEF ReadyCounted
  <1>5. Periods
    BY <1>1 DEF Periods, Ungranted, InPeriod, NoGrants
  <1> QED
    BY <1>2, <1>3, <1>4, <1>5

LEMMA BoundsInit == Init => Bounded /\ Plain /\ Narrow /\ Numbered
  <1> SUFFICES ASSUME Init PROVE Bounded /\ Plain /\ Narrow /\ Numbered
    OBVIOUS
  <1>1. Bounded
    <2>1. Busy = {} /\ nf = 0
      BY DEF Init, Busy
    <2>2. Cardinality({}) = 0 /\ MaxFrames \in Nat
      BY FS_EmptySet, NumbersAssumption
    <2> QED
      BY <2>1, <2>2 DEF Bounded
  <1>2. Plain
    BY DEF Init, Plain
  <1>3. Narrow
    <2>1. 0 \in 0 .. LimitWrap - 1 /\ Credits \in -CreditMax .. CreditMax - 1
      BY NumbersAssumption
    <2> QED
      BY <2>1 DEF Init, Narrow
  <1>4. Numbered
    <2>1. \A i \in 1 .. Len(<<>>) : <<>>[i] > 0
      BY EmptySeq
    <2> QED
      BY <2>1 DEF Init, Numbered, NumberedAt
  <1> QED
    BY <1>1, <1>2, <1>3, <1>4

\* What the schedule lists and the counters rest on, in every step of the code.
THEOREM QueuesInvariant == Spec => []QInv
  <1>1. Init => QInv
    BY BaseInit, OrderInit, StopInit, ShapeInit, CountsInit, BoundsInit DEF IInv, OrderInv, Init, Locked, QInv
  <1>2. ASSUME QInv, [Next]_vars PROVE QInv'
    <2>1. IInv'
      BY <1>2, BaseStep, OrderStep, StopStep, LockedStep DEF IInv, OrderInv, QInv
    <2>2. Base /\ Types /\ Types' /\ Life /\ AllOrdered /\ Pushed /\ Locked
      BY <1>2, <2>1 DEF QInv, IInv, Base
    <2>3. Whole' /\ Shape' /\ Scheduled'
      BY <1>2, <2>2, WholeStep, ShapeStep, ScheduledStep DEF QInv
    <2>4. Counters' /\ Covered' /\ ReadyCounted'
      BY <1>2, <2>2, CountersStep, CoveredStep, ReadyStep DEF QInv
    <2>5. Periods'
      BY <1>2, <2>2, <2>4, PeriodsStep DEF QInv
    <2>6. Bounded' /\ Plain' /\ Narrow' /\ Numbered'
      BY <1>2, <2>2, BoundedStep, PlainStep, NarrowStep, NumberedStep DEF QInv
    <2> QED
      BY <2>1, <2>3, <2>4, <2>5, <2>6 DEF QInv
  <1> QED
    BY <1>1, <1>2, PTL DEF Spec

LEMMA SeqIn ==
    ASSUME NEW s \in Seq(Nat), NEW m \in Nat, \A i \in 1 .. Len(s) : s[i] \in 1 .. m
    PROVE  s \in Seq(1 .. m)
  <1>1. PICK n \in Nat : s \in [1 .. n -> Nat] /\ Len(s) = n
    BY LenProperties
  <1>2. s \in [1 .. n -> 1 .. m]
    BY <1>1
  <1> QED
    BY <1>2, SeqDef

LEMMA FramesTyped ==
    ASSUME QInv
    PROVE  /\ nf \in 0 .. MaxFrames /\ sk \in [Txqs -> Seq(1 .. MaxFrames)]
           /\ last_retry \in [Txqs -> 0 .. MaxFrames] /\ out \in [Txqs -> 0 .. MaxFrames]
           /\ fw \subseteq Txqs \X (1 .. MaxFrames)
  <1>0. Types /\ Pushed /\ Numbered /\ Bounded /\ MaxFrames \in Nat
    BY NumbersAssumption DEF QInv, IInv, Base
  <1>1. nf \in Nat /\ nf <= MaxFrames
    BY <1>0, BusyFinite DEF Bounded, Types
  <1>2. ASSUME NEW q \in Txqs PROVE sk[q] \in Seq(1 .. MaxFrames)
    <2>1. sk[q] \in Seq(Nat)
      BY <1>0 DEF Types
    <2>2. \A i \in 1 .. Len(sk[q]) : sk[q][i] \in Nat
      BY <2>1, ElementOfSeq
    <2>3. \A i \in 1 .. Len(sk[q]) : sk[q][i] > 0 /\ sk[q][i] <= nf
      BY <1>0 DEF Numbered, NumberedAt, Pushed
    <2>4. \A i \in 1 .. Len(sk[q]) : sk[q][i] \in 1 .. MaxFrames
      BY <1>0, <1>1, <2>2, <2>3
    <2> QED
      BY <1>0, <2>1, <2>4, SeqIn
  <1>3. ASSUME NEW q \in Txqs PROVE last_retry[q] \in 0 .. MaxFrames /\ out[q] \in 0 .. MaxFrames
    <2>1. last_retry[q] \in Nat /\ out[q] \in Nat /\ last_retry[q] <= nf /\ out[q] <= nf
      BY <1>0 DEF Types, Numbered, NumberedAt, Pushed
    <2> QED
      BY <1>0, <1>1, <2>1
  <1>4. ASSUME NEW c \in fw PROVE c \in Txqs \X (1 .. MaxFrames)
    <2>1. c = <<c[1], c[2]>> /\ c[1] \in Txqs /\ c[2] \in Nat
      BY <1>0, SMTT(30) DEF Types
    <2>2. c[2] > 0 /\ c[2] <= out[c[1]] /\ out[c[1]] \in 0 .. MaxFrames
      BY <1>0, <1>3, <2>1 DEF Pushed
    <2>3. c[2] \in 1 .. MaxFrames
      BY <1>0, <2>1, <2>2
    <2> QED
      BY <2>1, <2>3
  <1>5. nf \in 0 .. MaxFrames
    BY <1>0, <1>1
  <1>6. sk \in [Txqs -> Seq(1 .. MaxFrames)]
    <2>1. sk = [q \in Txqs |-> sk[q]]
      BY <1>0 DEF Types
    <2> QED
      BY <1>2, <2>1
  <1>7. last_retry \in [Txqs -> 0 .. MaxFrames] /\ out \in [Txqs -> 0 .. MaxFrames]
    <2>1. last_retry = [q \in Txqs |-> last_retry[q]] /\ out = [q \in Txqs |-> out[q]]
      BY <1>0 DEF Types, Pushed
    <2> QED
      BY <1>3, <2>1
  <1>8. fw \subseteq Txqs \X (1 .. MaxFrames)
    BY <1>4
  <1> QED
    BY <1>5, <1>6, <1>7, <1>8

\* The schedule and its counters are sound, for any queues, any number of frames and any
\* order of the callers of rwnx_txq_add_to_hw_list and rwnx_txq_del_from_hw_list: flag and
\* list agree, the BUG_ONs of rwnx_hwq_process never fire, pkt_ready and sp_cnt count what
\* is buffered and granted.
THEOREM QueuesTheorem == Spec => []QueuesSound
  <1>1. ASSUME QInv PROVE QueuesSound
    <2>0. Types /\ Linked /\ Walking /\ Scheduled /\ Covered /\ Periods
      BY <1>1 DEF QInv, IInv, Base, Shape
    <2>1. TypeOK
      BY <1>1, <2>0, FramesTyped DEF QInv, Types, Linked, Walking, Counters, Plain, Narrow, TypeOK
    <2>2. ListSound
      BY <2>0 DEF Scheduled, Listed, ListSound
    <2>3. ProcessSafe
      <3> SUFFICES ASSUME Without({"unlocked", "early", "wrap"}), walk.at # NoQ
                   PROVE  walk.at \in flagged /\ (walk.at \in active => credits[walk.at] > 0 /\ sk[walk.at] # <<>>)
        BY DEF ProcessSafe
      <3>1. Without({"unlocked", "early"}) /\ Without({"wrap"}) /\ Without({"wrap", "unlocked"})
        BY DEF Without
      <3>2. walk.at \in flagged
        BY <2>0, <3>1 DEF Scheduled, Listed
      <3>3. walk.at \in Txqs
        BY <2>0, <3>2 DEF Types
      <3> QED
        BY <2>0, <3>1, <3>2, <3>3 DEF Covered, Credited, Framed
    <2>4. ReadyCounted
      BY <1>1 DEF QInv
    <2>5. SpCounted
      BY <2>0 DEF Periods, Undisturbed, InPeriod, SpCounted
    <2> QED
      BY <2>1, <2>2, <2>3, <2>4, <2>5 DEF QueuesSound
  <1> QED
    BY <1>1, QueuesInvariant, PTL
=============================================================================
