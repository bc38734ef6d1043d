--------------------------- MODULE RxReorderProofs ---------------------------
(***************************************************************************
 HeldSound, and that RxReorder implements ReorderWindow, for any sizes of the
 sequence space, the window and the pool.
 ***************************************************************************)
EXTENDS RxReorder, SequenceTheorems, FiniteSetTheorems, WellFoundedInduction, TLAPS

-----------------------------------------------------------------------------
(* Numbers                                                                 *)

\* Induction over the members of a set.
LEMMA SetInduction ==
    ASSUME NEW S, 0 \in S, \A n \in Nat : n \in S => n + 1 \in S
    PROVE  \A n \in Nat : n \in S
  <1> SUFFICES ASSUME NEW m \in Nat, m \notin S PROVE FALSE
    OBVIOUS
  <1> DEFINE T == {n \in Nat : n \notin S}
  <1>1. PICK R : R = OpToRel(<, Nat)
    OBVIOUS
  <1>2. IsWellFoundedOn(R, Nat)
    BY <1>1, NatLessThanWellFounded
  <1>3. T \subseteq Nat /\ T # {}
    OBVIOUS
  <1>4. PICK x \in T : \A y \in T : <<y, x>> \notin R
    BY <1>2, <1>3, WFMin
  <1>5. \A y \in T : ~(y < x)
    BY <1>1, <1>4 DEF OpToRel
  <1>6. x # 0 /\ x - 1 \in Nat /\ x - 1 < x /\ (x - 1) + 1 = x
    BY <1>4
  <1>7. x - 1 \in S
    BY <1>5, <1>6
  <1> QED
    BY <1>4, <1>6, <1>7

\* The least element of a set of natural numbers.
LEMMA MinNat ==
    ASSUME NEW S, S \subseteq Nat, S # {}
    PROVE  Min(S) \in S /\ \A x \in S : Min(S) <= x
  <1>1. PICK R : R = OpToRel(<, Nat)
    OBVIOUS
  <1>2. IsWellFoundedOn(R, Nat)
    BY <1>1, NatLessThanWellFounded
  <1>3. PICK x \in S : \A y \in S : <<y, x>> \notin R
    BY <1>2, WFMin
  <1>4. \A y \in S : ~(y < x)
    BY <1>1, <1>3 DEF OpToRel
  <1>5. \A y \in S : x <= y
    BY <1>4
  <1> QED
    BY <1>3, <1>5 DEF Min

LEMMA Sizes ==
    /\ Half \in Nat /\ Half >= 2 /\ W \in Nat /\ W >= 1 /\ W < Half
    /\ Reach \in Nat /\ W + Reach <= Half
    /\ M \in Nat /\ M = 2 * Half /\ NoSn \in Nat /\ NoSn >= M
    /\ Pool \in Nat /\ MaxN \in Nat
  BY HalfAssumption, WindowAssumption, PoolAssumption DEF M, NoSn

\* The remainder steps by one and wraps.
LEMMA ModStep ==
    ASSUME NEW m \in Nat, m >= 4, NEW h \in Nat, m = 2 * h
    PROVE  /\ \A n \in Int : n % m \in 0 .. m - 1
           /\ \A n \in Int : (n + 1) % m = IF n % m = m - 1 THEN 0 ELSE (n % m) + 1
           /\ \A x \in 0 .. m - 1 : x % m = x /\ (x - m) % m = x /\ (x + m) % m = x
  <1>1. \A n \in Int : n % m \in 0 .. m - 1
    OBVIOUS
  <1>2. \A n \in Int : (n + 1) % m = IF n % m = m - 1 THEN 0 ELSE (n % m) + 1
    BY SMTT(60)
  <1>3. \A x \in 0 .. m - 1 : x % m = x /\ (x - m) % m = x
    BY SMTT(60)
  <1>4. \A x \in 0 .. m - 1 : (x + m) % m = x
    BY SMTT(60)
  <1> QED
    BY <1>1, <1>2, <1>3, <1>4

\* A sequence number is a number's remainder.
LEMMA SnStep ==
    /\ \A n \in Int : Sn(n) \in 0 .. M - 1
    /\ \A n \in Int : Sn(n + 1) = IF Sn(n) = M - 1 THEN 0 ELSE Sn(n) + 1
    /\ \A x \in 0 .. M - 1 : x % M = x /\ (x - M) % M = x /\ (x + M) % M = x
  <1>1. PICK m \in Nat : m = M /\ m >= 4 /\ m = 2 * Half /\ Half \in Nat
    BY Sizes
  <1>2. /\ \A n \in Int : n % m \in 0 .. m - 1
        /\ \A n \in Int : (n + 1) % m = IF n % m = m - 1 THEN 0 ELSE (n % m) + 1
        /\ \A x \in 0 .. m - 1 : x % m = x /\ (x - m) % m = x /\ (x + m) % m = x
    BY <1>1, ModStep, Zenon
  <1> QED
    BY <1>1, <1>2, Zenon DEF Sn

LEMMA SnType == \A n \in Nat : Sn(n) \in 0 .. M - 1
  BY SnStep

\* Two numbers less than M apart.
LEMMA SnApart ==
    ASSUME NEW x \in Int
    PROVE  \A d \in Nat : d < M => Sn(x + d) = Sn(x) + d \/ Sn(x + d) = Sn(x) + d - M
  <1> DEFINE S == {d \in Nat : d < M => Sn(x + d) = Sn(x) + d \/ Sn(x + d) = Sn(x) + d - M}
  <1>1. 0 \in S
    BY SnStep, Sizes
  <1>2. ASSUME NEW d \in Nat, d \in S PROVE d + 1 \in S
    <2> SUFFICES ASSUME d + 1 < M PROVE Sn(x + (d + 1)) = Sn(x) + (d + 1) \/ Sn(x + (d + 1)) = Sn(x) + (d + 1) - M
      OBVIOUS
    <2>1. Sn(x + d) = Sn(x) + d \/ Sn(x + d) = Sn(x) + d - M
      BY <1>2, Sizes
    <2>2. PICK y \in Int : y = x + d
      OBVIOUS
    <2>3. y + 1 = x + (d + 1)
      BY <2>2
    <2>4. Sn(y + 1) = IF Sn(y) = M - 1 THEN 0 ELSE Sn(y) + 1
      BY SnStep
    <2>5. Sn(x + (d + 1)) = IF Sn(x + d) = M - 1 THEN 0 ELSE Sn(x + d) + 1
      BY <2>2, <2>3, <2>4
    <2>6. Sn(x) \in 0 .. M - 1 /\ Sn(x + d) \in 0 .. M - 1
      BY SnStep, <2>2
    <2> QED
      BY <2>1, <2>5, <2>6, Sizes
  <1>3. \A d \in Nat : d \in S
    <2> HIDE DEF S
    <2> QED
      BY <1>1, <1>2, SetInduction
  <1> QED
    BY <1>3

LEMMA AheadIs ==
    ASSUME NEW x \in Int, NEW d \in Nat, d < M
    PROVE  Ahead(Sn(x), Sn(x + d)) = d
  <1>1. Sn(x + d) - Sn(x) = d \/ Sn(x + d) - Sn(x) = d - M
    <2>1. Sn(x + d) = Sn(x) + d \/ Sn(x + d) = Sn(x) + d - M
      BY SnApart
    <2>2. Sn(x) \in Int /\ Sn(x + d) \in Int
      BY SnStep, Sizes
    <2> QED
      BY <2>1, <2>2, Sizes
  <1>2. d % M = d /\ (d - M) % M = d
    BY SnStep, Sizes
  <1> QED
    BY <1>1, <1>2 DEF Ahead

\* Numbers at most half the space apart compare as they are.
LEMMA LessIs ==
    ASSUME NEW x \in Int, NEW y \in Int, x - y \in -Half .. Half - 1
    PROVE  SN_LESS(Sn(x), Sn(y)) <=> x < y
  <1>1. CASE x >= y
    <2>1. PICK d \in Nat : d = x - y /\ d < M /\ d < Half /\ y + d = x
      BY <1>1, Sizes
    <2>2. Ahead(Sn(y), Sn(x)) = d
      BY <2>1, AheadIs
    <2> QED
      BY <1>1, <2>1, <2>2, Sizes DEF SN_LESS
  <1>2. CASE x < y
    <2>1. PICK d \in Nat : d = y - x /\ d >= 1 /\ d <= Half /\ d < M /\ x + d = y
      BY <1>2, Sizes
    <2>2. Sn(x) - Sn(y) = M - d \/ Sn(x) - Sn(y) = (M - d) - M
      <3>1. Sn(x + d) = Sn(x) + d \/ Sn(x + d) = Sn(x) + d - M
        BY <2>1, SnApart
      <3>2. Sn(x) \in Int /\ Sn(y) \in Int
        BY SnStep, Sizes
      <3> QED
        BY <2>1, <3>1, <3>2, Sizes
    <2>3. M - d \in 0 .. M - 1 /\ M - d >= Half
      BY <2>1, Sizes
    <2>4. (M - d) % M = M - d /\ ((M - d) - M) % M = M - d
      BY <2>3, SnStep
    <2>5. Ahead(Sn(y), Sn(x)) = M - d
      BY <2>2, <2>4 DEF Ahead
    <2> QED
      BY <1>2, <2>3, <2>5 DEF SN_LESS
  <1> QED
    BY <1>1, <1>2

\* Numbers less than M apart have numbers of their own.
LEMMA SnOne ==
    ASSUME NEW x \in Int, NEW y \in Int, x - y \in -(M - 1) .. M - 1, Sn(x) = Sn(y)
    PROVE  x = y
  <1>1. ASSUME NEW a \in Int, NEW b \in Int, a < b, b - a < M PROVE Sn(a) # Sn(b)
    <2>1. PICK d \in Nat : d = b - a /\ d >= 1 /\ d < M /\ a + d = b
      BY <1>1
    <2>2. Sn(a + d) = Sn(a) + d \/ Sn(a + d) = Sn(a) + d - M
      BY <2>1, SnApart
    <2>3. Sn(a) \in Int /\ Sn(b) \in Int
      BY SnStep, Sizes
    <2> QED
      BY <2>1, <2>2, <2>3, Sizes
  <1> QED
    BY <1>1, Sizes

LEMMA SnPlus ==
    ASSUME NEW x \in Int, NEW d \in Nat, d < M
    PROVE  (Sn(x) + d) % M = Sn(x + d)
  <1>1. Sn(x) + d = Sn(x + d) \/ Sn(x) + d = Sn(x + d) + M
    <2>1. Sn(x + d) = Sn(x) + d \/ Sn(x + d) = Sn(x) + d - M
      BY SnApart
    <2>2. Sn(x) \in Int /\ Sn(x + d) \in Int
      BY SnStep, Sizes
    <2> QED
      BY <2>1, <2>2, Sizes
  <1>2. Sn(x + d) \in 0 .. M - 1
    BY SnStep
  <1>3. Sn(x + d) % M = Sn(x + d) /\ (Sn(x + d) + M) % M = Sn(x + d)
    BY <1>2, SnStep
  <1> QED
    BY <1>1, <1>3

\* The buffer is at x: frame n is old, the next, beyond the window or within it.
Moved(x, n) == IF n = x THEN x + 1 ELSE IF n > x + W - 1 THEN n - W + 1 ELSE x

LEMMA NeedCheck ==
    ASSUME NEW x \in Int, NEW n \in Int, n - x \in -Half .. Half - 1
    PROVE  /\ n < x => need_check(Sn(x), Sn(n)) = -1
           /\ n >= x => need_check(Sn(x), Sn(n)) = Sn(Moved(x, n))
  <1> DEFINE i == Sn(x)
             s == Sn(n)
  <1>1. i \in 0 .. M - 1 /\ s \in 0 .. M - 1 /\ i # NoSn
    BY SnStep, Sizes
  <1>2. SN_LESS(s, i) <=> n < x
    BY LessIs
  <1>3. s = i <=> n = x
    BY SnOne, Sizes
  <1>4. (i + 1) % M = Sn(x + 1)
    BY SnPlus, Sizes
  <1>5. ASSUME n >= x PROVE SN_LESS(wend(i), s) <=> n > x + W - 1
    <2>1. i + W - 1 = i + (W - 1) /\ W - 1 \in Nat /\ W - 1 < M
      BY <1>1, Sizes
    <2>2. wend(i) = Sn(x + (W - 1))
      BY <2>1, SnPlus DEF wend
    <2>3. x + (W - 1) \in Int /\ (x + (W - 1)) - n \in -Half .. Half - 1
      BY <1>5, Sizes
    <2>4. SN_LESS(Sn(x + (W - 1)), s) <=> x + (W - 1) < n
      BY <2>3, LessIs
    <2> QED
      BY <2>2, <2>4, Sizes
  <1>6. (IF s >= W - 1 THEN s - (W - 1) ELSE M - 1 - (W - (s + 1)) + 1) = Sn(n - W + 1)
    <2>1. PICK y \in Int : y = n - W + 1 /\ y + (W - 1) = n
      BY Sizes
    <2>2. W - 1 \in Nat /\ W - 1 < M
      BY Sizes
    <2>3. s = Sn(y) + (W - 1) \/ s = Sn(y) + (W - 1) - M
      BY <2>1, <2>2, SnApart
    <2>4. Sn(y) \in 0 .. M - 1
      BY SnStep
    <2> QED
      BY <1>1, <2>1, <2>3, <2>4, Sizes
  <1> HIDE DEF i, s
  <1>7. ASSUME n < x PROVE need_check(i, s) = -1
    <2>1. SN_LESS(s, i) /\ s # i
      BY <1>2, <1>3, <1>7
    <2> QED
      BY <1>1, <2>1 DEF need_check
  <1>8. ASSUME n >= x PROVE need_check(i, s) = Sn(Moved(x, n))
    <2>1. ~SN_LESS(s, i)
      BY <1>2, <1>8
    <2>2. CASE n = x
      BY <1>1, <1>3, <1>4, <2>1, <2>2 DEF need_check, Moved
    <2>3. CASE n # x /\ n > x + W - 1
      BY <1>1, <1>3, <1>5, <1>6, <1>8, <2>1, <2>3 DEF need_check, Moved
    <2>4. CASE n # x /\ ~(n > x + W - 1)
      <3>1. Moved(x, n) = x
        BY <2>4 DEF Moved
      <3>2. s # i /\ ~SN_LESS(wend(i), s)
        BY <1>3, <1>5, <1>8, <2>4
      <3> QED
        BY <1>1, <2>1, <3>1, <3>2 DEF need_check, i
    <2> QED
      BY <2>2, <2>3, <2>4
  <1> QED
    BY <1>7, <1>8 DEF i, s

\* The first frame of a session.
LEMMA NeedCheckFirst ==
    ASSUME NEW n \in Int
    PROVE  need_check(NoSn, Sn(n)) = Sn(n + 1)
  <1>1. ~SN_LESS(Sn(n), Sn(n))
    BY LessIs, Sizes
  <1>2. (Sn(n) + 1) % M = Sn(n + 1)
    BY SnPlus, Sizes
  <1> QED
    BY <1>1, <1>2 DEF need_check

LEMMA NeedCheckType ==
    ASSUME NEW ind \in 0 .. M - 1 \cup {NoSn}, NEW s \in 0 .. M - 1
    PROVE  need_check(ind, s) \in -1 .. M - 1
  <1>1. PICK i : i = IF ind = NoSn THEN s ELSE ind
    OBVIOUS
  <1>2. i \in 0 .. M - 1
    BY <1>1
  <1>3. (i + 1) % M \in 0 .. M - 1
    BY <1>2, Sizes
  <1>4. (IF s >= W - 1 THEN s - (W - 1) ELSE M - 1 - (W - (s + 1)) + 1) \in 0 .. M - 1
    BY Sizes
  <1>5. CASE SN_LESS(s, i)
    <2>1. s # i
      <3>1. s - s = 0 /\ 0 \in 0 .. M - 1
        BY Sizes
      <3>2. Ahead(s, s) = 0
        BY <3>1, SnStep DEF Ahead
      <3> QED
        BY <1>5, <3>2, Sizes DEF SN_LESS
    <2>2. need_check(ind, s) = -1
      BY <1>1, <1>5, <2>1 DEF need_check
    <2> QED
      BY <2>2, Sizes
  <1>6. CASE ~SN_LESS(s, i)
    BY <1>1, <1>2, <1>3, <1>4, <1>6, Sizes DEF need_check
  <1> QED
    BY <1>5, <1>6

-----------------------------------------------------------------------------
(* The loop of reord_rxframes_process                                      *)

Started(ind) == [ind |-> ind, stop |-> FALSE]

Stepped(r, s) ==
    CASE r.stop \/ SN_LESS(r.ind, s) -> [r EXCEPT !.stop = TRUE]
      [] ~r.stop /\ r.ind = s        -> [r EXCEPT !.ind = (r.ind + 1) % M]
      [] OTHER                       -> r

\* f gives the state of the loop after each of the first k frames of q.
IsLoop(f, ind, q, k) ==
    f = [i \in 0 .. k |-> IF i = 0 THEN Started(ind) ELSE Stepped(f[i - 1], Sn(q[i]))]

LEMMA LoopExists ==
    ASSUME NEW ind, NEW q
    PROVE  \A k \in Nat : \E f : IsLoop(f, ind, q, k)
  <1> DEFINE S == {k \in Nat : \E f : IsLoop(f, ind, q, k)}
  <1>1. 0 \in S
    <2> DEFINE f == [i \in 0 .. 0 |-> Started(ind)]
    <2>1. IsLoop(f, ind, q, 0)
      BY DEF IsLoop
    <2> QED
      BY <2>1
  <1>2. ASSUME NEW k \in Nat, k \in S PROVE k + 1 \in S
    <2>1. PICK g : IsLoop(g, ind, q, k)
      BY <1>2
    <2> DEFINE f == [i \in 0 .. k + 1 |-> IF i <= k THEN g[i] ELSE Stepped(g[k], Sn(q[k + 1]))]
               F(i) == IF i = 0 THEN Started(ind) ELSE Stepped(f[i - 1], Sn(q[i]))
               G(i) == IF i = 0 THEN Started(ind) ELSE Stepped(g[i - 1], Sn(q[i]))
    <2>2. \A i \in 0 .. k : g[i] = G(i)
      BY <2>1, Zenon DEF IsLoop
    <2>3. \A i \in 0 .. k : f[i] = g[i]
      OBVIOUS
    <2>4. f[k + 1] = Stepped(g[k], Sn(q[k + 1]))
      BY k + 1 \in 0 .. k + 1 /\ ~(k + 1 <= k)
    <2>5. f = [i \in 0 .. k + 1 |-> f[i]]
      OBVIOUS
    <2> HIDE DEF f
    <2>6. ASSUME NEW i \in 0 .. k + 1 PROVE f[i] = F(i)
      <3>1. CASE i = 0
        BY <2>2, <2>3, <3>1
      <3>2. CASE i \in 1 .. k
        <4>1. i \in 0 .. k /\ i - 1 \in 0 .. k /\ i # 0
          BY <3>2
        <4>2. f[i] = g[i] /\ f[i - 1] = g[i - 1]
          BY <4>1, <2>3
        <4> QED
          BY <4>1, <4>2, <2>2, Zenon
      <3>3. CASE i = k + 1
        <4>1. i # 0 /\ i - 1 = k /\ k \in 0 .. k
          BY <3>3
        <4>2. f[i - 1] = g[k]
          BY <4>1, <2>3, Zenon
        <4> QED
          BY <4>1, <4>2, <2>4, <3>3, Zenon
      <3> QED
        BY <3>1, <3>2, <3>3
    <2>7. f = [i \in 0 .. k + 1 |-> F(i)]
      BY <2>5, <2>6, Zenon
    <2>8. IsLoop(f, ind, q, k + 1)
      BY <2>7, Zenon DEF IsLoop
    <2> QED
      BY <2>8
  <1>3. \A k \in Nat : k \in S
    <2> HIDE DEF S
    <2> QED
      BY <1>1, <1>2, SetInduction
  <1> QED
    BY <1>3

\* The result of the loop is the last of its states.
LEMMA ProcessIs ==
    ASSUME NEW ind, NEW q, Len(q) \in Nat
    PROVE  \E f : /\ f[0] = Started(ind)
                  /\ \A i \in 1 .. Len(q) : f[i] = Stepped(f[i - 1], Sn(q[i]))
                  /\ process(ind, q) = f[Len(q)]
  <1> DEFINE f == CHOOSE f : IsLoop(f, ind, q, Len(q))
             F(i) == IF i = 0 THEN Started(ind) ELSE Stepped(f[i - 1], Sn(q[i]))
  <1>1. process(ind, q) = f[Len(q)]
    BY Zenon DEF process, IsLoop, Stepped, Started
  <1>2. IsLoop(f, ind, q, Len(q))
    BY LoopExists, Zenon
  <1> HIDE DEF f
  <1>3. f = [i \in 0 .. Len(q) |-> F(i)]
    BY <1>2, Zenon DEF IsLoop
  <1>4. \A i \in 0 .. Len(q) : f[i] = F(i)
    BY <1>3, Zenon
  <1>5. 0 \in 0 .. Len(q) /\ \A i \in 1 .. Len(q) : i \in 0 .. Len(q) /\ i # 0
    OBVIOUS
  <1> QED
    BY <1>1, <1>4, <1>5, Zenon

LoopState == [ind : 0 .. M - 1, stop : BOOLEAN]

LEMMA SteppedIs ==
    ASSUME NEW r \in LoopState, NEW s \in 0 .. M - 1
    PROVE  /\ r.stop \/ SN_LESS(r.ind, s) => Stepped(r, s) = [ind |-> r.ind, stop |-> TRUE]
           /\ ~r.stop /\ ~SN_LESS(r.ind, s) =>
                 Stepped(r, s) = IF r.ind = s THEN [ind |-> (r.ind + 1) % M, stop |-> FALSE]
                                 ELSE r
           /\ Stepped(r, s) \in LoopState
  <1>1. PICK i \in 0 .. M - 1, t \in BOOLEAN : r = [ind |-> i, stop |-> t]
    BY DEF LoopState
  <1>2. r.ind = i /\ r.stop = t
    BY <1>1
  <1>3. ~SN_LESS(s, s)
    <2>1. s - s = 0 /\ 0 \in 0 .. M - 1
      BY Sizes
    <2>2. Ahead(s, s) = 0
      BY <2>1, SnStep DEF Ahead
    <2> QED
      BY <2>2, Sizes DEF SN_LESS
  <1>4. CASE t \/ SN_LESS(i, s)
    <2>1. ~(~t /\ i = s)
      BY <1>3, <1>4
    <2>2. Stepped(r, s) = [r EXCEPT !.stop = TRUE]
      BY <1>2, <1>4, <2>1 DEF Stepped
    <2>3. Stepped(r, s) = [ind |-> i, stop |-> TRUE]
      BY <1>1, <2>2
    <2> QED
      BY <1>2, <1>4, <2>3 DEF LoopState
  <1>5. CASE ~t /\ ~SN_LESS(i, s) /\ i = s
    <2>1. Stepped(r, s) = [r EXCEPT !.ind = (i + 1) % M]
      BY <1>2, <1>5 DEF Stepped
    <2>2. Stepped(r, s) = [ind |-> (i + 1) % M, stop |-> FALSE]
      BY <1>1, <1>5, <2>1
    <2>3. (i + 1) % M \in 0 .. M - 1
      BY Sizes
    <2> QED
      BY <1>2, <1>5, <2>2, <2>3 DEF LoopState
  <1>6. CASE ~t /\ ~SN_LESS(i, s) /\ i # s
    <2>1. Stepped(r, s) = r
      BY <1>2, <1>6 DEF Stepped
    <2> QED
      BY <1>2, <1>6, <2>1
  <1> QED
    BY <1>4, <1>5, <1>6

\* Whatever is on the list, the loop ends with a sequence number.
LEMMA ProcessType ==
    ASSUME NEW ind \in 0 .. M - 1, NEW q \in Seq(Nat)
    PROVE  process(ind, q) \in LoopState
  <1>1. Len(q) \in Nat /\ \A i \in 1 .. Len(q) : q[i] \in Nat
    BY LenProperties, ElementOfSeq
  <1>2. PICK f : /\ f[0] = Started(ind)
                 /\ \A i \in 1 .. Len(q) : f[i] = Stepped(f[i - 1], Sn(q[i]))
                 /\ process(ind, q) = f[Len(q)]
    BY <1>1, ProcessIs
  <1> DEFINE S == {i \in Nat : i <= Len(q) => f[i] \in LoopState}
  <1>3. 0 \in S
    <2>1. Started(ind) \in LoopState
      BY DEF Started, LoopState
    <2> QED
      BY <1>2, <2>1
  <1>4. ASSUME NEW i \in Nat, i \in S PROVE i + 1 \in S
    <2> SUFFICES ASSUME i + 1 <= Len(q) PROVE f[i + 1] \in LoopState
      OBVIOUS
    <2>1. i + 1 \in 1 .. Len(q) /\ (i + 1) - 1 = i /\ f[i] \in LoopState
      BY <1>1, <1>4
    <2>2. Sn(q[i + 1]) \in 0 .. M - 1
      BY <1>1, <2>1, SnType, Zenon
    <2>3. f[i + 1] = Stepped(f[i], Sn(q[i + 1]))
      BY <1>2, <2>1
    <2> QED
      BY <2>1, <2>2, <2>3, SteppedIs
  <1>5. \A i \in Nat : i \in S
    <2> HIDE DEF S
    <2> QED
      BY <1>3, <1>4, SetInduction
  <1> QED
    BY <1>1, <1>2, <1>5

Sorted(q) == \A i, j \in 1 .. Len(q) : i < j => q[i] < q[j]

\* Every frame of q can be compared with b.
Near(q, b) == \A i \in 1 .. Len(q) : q[i] - b \in -(Half - 1) .. Half - 1

\* The loop is at e after i frames of q.
At(q, b, i, r, e) ==
    /\ e >= b /\ r \in LoopState /\ r.ind = Sn(e)
    /\ \A m \in b .. e - 1 : \E k \in 1 .. i : q[k] = m
    /\ e = b \/ \E k \in 1 .. i : e = q[k] + 1
    /\ ~r.stop => \A k \in 1 .. i : q[k] < e
    /\ r.stop => \E k \in 1 .. i : q[k] > e /\ \A j \in 1 .. k - 1 : q[j] < e

LEMMA LoopStep ==
    ASSUME NEW q \in Seq(Nat), NEW b \in Nat, Sorted(q), Near(q, b),
           NEW i \in Nat, i + 1 <= Len(q), NEW r, NEW e \in Nat, At(q, b, i, r, e)
    PROVE  \E d \in Nat : At(q, b, i + 1, Stepped(r, Sn(q[i + 1])), d)
  <1> DEFINE s == Sn(q[i + 1])
  <1>1. Len(q) \in Nat /\ \A k \in 1 .. Len(q) : q[k] \in Nat
    BY LenProperties, ElementOfSeq
  <1>2. /\ i + 1 \in 1 .. Len(q) /\ q[i + 1] \in Nat
        /\ \A k \in 1 .. i : k \in 1 .. Len(q) /\ k \in 1 .. i + 1 /\ q[k] < q[i + 1]
    BY <1>1 DEF Sorted
  <1>3. s \in 0 .. M - 1
    BY <1>2, SnType, Zenon
  <1>4. r \in LoopState /\ r.ind = Sn(e) /\ e >= b
    BY DEF At
  <1>5. CASE r.stop
    <2>1. Stepped(r, s) = [ind |-> r.ind, stop |-> TRUE] /\ Stepped(r, s) \in LoopState
      BY <1>3, <1>4, <1>5, SteppedIs
    <2>2. At(q, b, i + 1, Stepped(r, s), e)
      BY <1>2, <1>4, <1>5, <2>1 DEF At
    <2> QED
      BY <2>2
  <1>6. CASE ~r.stop
    <2>1. e - q[i + 1] \in -Half .. Half - 1
      <3>1. q[i + 1] - b \in -(Half - 1) .. Half - 1
        BY <1>2 DEF Near
      <3>2. e = b \/ e <= q[i + 1]
        <4>1. e = b \/ \E k \in 1 .. i : e = q[k] + 1
          BY DEF At
        <4>2. \A k \in 1 .. i : q[k] \in Nat
          BY <1>1, <1>2
        <4> QED
          BY <1>2, <4>1, <4>2
      <3> QED
        BY <1>2, <1>4, <3>1, <3>2, Sizes, SMTT(30)
    <2>2. SN_LESS(Sn(e), s) <=> e < q[i + 1]
      BY <1>2, <2>1, LessIs
    <2>3. Sn(e) = s <=> e = q[i + 1]
      <3>1. e - q[i + 1] \in -(M - 1) .. M - 1
        BY <2>1, Sizes
      <3> QED
        BY <1>2, <3>1, SnOne
    <2>4. \A k \in 1 .. i : q[k] \in Nat /\ q[k] < e
      BY <1>1, <1>2, <1>6 DEF At
    <2>5. CASE e < q[i + 1]
      <3>1. Stepped(r, s) = [ind |-> r.ind, stop |-> TRUE] /\ Stepped(r, s) \in LoopState
        BY <1>3, <1>4, <2>2, <2>5, SteppedIs
      <3>2. \A j \in 1 .. (i + 1) - 1 : q[j] < e
        BY <2>4
      <3>3. \E k \in 1 .. i + 1 : q[k] > e /\ \A j \in 1 .. k - 1 : q[j] < e
        BY <1>2, <2>5, <3>2
      <3>4. At(q, b, i + 1, Stepped(r, s), e)
        BY <1>2, <1>4, <3>1, <3>3 DEF At
      <3> QED
        BY <3>4
    <2>6. CASE e = q[i + 1]
      <3>1. Stepped(r, s) = [ind |-> (r.ind + 1) % M, stop |-> FALSE] /\ Stepped(r, s) \in LoopState
        <4>1. ~SN_LESS(r.ind, s) /\ r.ind = s
          BY <1>4, <2>2, <2>3, <2>6
        <4> QED
          BY <1>3, <1>4, <1>6, <4>1, SteppedIs, Zenon
      <3>2. (r.ind + 1) % M = Sn(e + 1)
        BY <1>4, SnPlus, Sizes
      <3>3. \A k \in 1 .. i + 1 : q[k] < e + 1
        BY <2>4, <2>6, <1>2
      <3>4. \A m \in b .. (e + 1) - 1 : \E k \in 1 .. i + 1 : q[k] = m
        <4>1. ASSUME NEW m \in b .. (e + 1) - 1 PROVE \E k \in 1 .. i + 1 : q[k] = m
          <5>1. CASE m = e
            BY <5>1, <2>6, <1>2
          <5>2. CASE m \in b .. e - 1
            BY <5>2, <1>2 DEF At
          <5> QED
            BY <4>1, <5>1, <5>2
        <4> QED
          BY <4>1
      <3>5. e + 1 = q[i + 1] + 1 /\ e + 1 >= b /\ i + 1 \in 1 .. i + 1
        BY <1>4, <2>6
      <3>6. At(q, b, i + 1, Stepped(r, s), e + 1)
        BY <3>1, <3>2, <3>3, <3>4, <3>5 DEF At
      <3> QED
        BY <3>6
    <2>7. CASE e > q[i + 1]
      <3>1. Stepped(r, s) = r
        BY <1>2, <1>3, <1>4, <1>6, <2>2, <2>3, <2>7, SteppedIs
      <3>2. \A k \in 1 .. i + 1 : q[k] < e
        BY <2>4, <2>7, <1>2
      <3>3. At(q, b, i + 1, r, e)
        BY <1>2, <1>4, <1>6, <3>2 DEF At
      <3> QED
        BY <3>1, <3>3
    <2> QED
      BY <1>2, <2>5, <2>6, <2>7
  <1> QED
    BY <1>5, <1>6

\* The loop ends at the first number from b on that is missing in q.
LEMMA ProcessRuns ==
    ASSUME NEW q \in Seq(Nat), NEW b \in Nat, Sorted(q), Near(q, b)
    PROVE  \E e \in Nat : At(q, b, Len(q), process(Sn(b), q), e)
  <1>1. Len(q) \in Nat
    BY LenProperties
  <1>2. PICK f : /\ f[0] = Started(Sn(b))
                 /\ \A i \in 1 .. Len(q) : f[i] = Stepped(f[i - 1], Sn(q[i]))
                 /\ process(Sn(b), q) = f[Len(q)]
    BY <1>1, ProcessIs
  <1> DEFINE S == {i \in Nat : i <= Len(q) => \E e \in Nat : At(q, b, i, f[i], e)}
  <1>3. 0 \in S
    <2>1. f[0] = [ind |-> Sn(b), stop |-> FALSE]
      BY <1>2 DEF Started
    <2>2. Sn(b) \in 0 .. M - 1
      BY SnType, Zenon
    <2>3. At(q, b, 0, f[0], b)
      BY <2>1, <2>2 DEF At, LoopState
    <2> QED
      BY <2>3
  <1>4. ASSUME NEW i \in Nat, i \in S PROVE i + 1 \in S
    <2> SUFFICES ASSUME i + 1 <= Len(q) PROVE \E e \in Nat : At(q, b, i + 1, f[i + 1], e)
      OBVIOUS
    <2>1. PICK e \in Nat : At(q, b, i, f[i], e)
      BY <1>1, <1>4
    <2>2. f[i + 1] = Stepped(f[i], Sn(q[i + 1]))
      BY <1>1, <1>2
    <2>3. \E d \in Nat : At(q, b, i + 1, Stepped(f[i], Sn(q[i + 1])), d)
      BY <2>1, LoopStep
    <2> QED
      BY <2>2, <2>3
  <1>5. \A i \in Nat : i \in S
    <2> HIDE DEF S
    <2> QED
      BY <1>3, <1>4, SetInduction
  <1> QED
    BY <1>1, <1>2, <1>5

LEMMA LeavingType ==
    ASSUME NEW ind, NEW q, Len(q) \in Nat
    PROVE  /\ leaving(ind, q) \in 0 .. Len(q)
           /\ leaving(ind, q) < Len(q) => SN_LESS(ind, Sn(q[leaving(ind, q) + 1]))
           /\ \A i \in 0 .. leaving(ind, q) - 1 : ~SN_LESS(ind, Sn(q[i + 1]))
  <1> DEFINE S == {i \in 0 .. Len(q) : i < Len(q) => SN_LESS(ind, Sn(q[i + 1]))}
  <1>1. S \subseteq Nat /\ Len(q) \in S
    OBVIOUS
  <1>2. PICK k : k = Min(S)
    OBVIOUS
  <1>3. k \in S /\ \A x \in S : k <= x
    <2> HIDE DEF S
    <2> QED
      BY <1>1, <1>2, MinNat
  <1>4. leaving(ind, q) = k
    BY <1>2 DEF leaving
  <1>5. ASSUME NEW i \in 0 .. k - 1 PROVE ~SN_LESS(ind, Sn(q[i + 1]))
    <2>1. k \in 0 .. Len(q) /\ \A x \in S : k <= x
      BY <1>3
    <2>2. i \in 0 .. Len(q) /\ i < Len(q) /\ ~(k <= i)
      BY <2>1
    <2>3. i \notin S
      BY <2>1, <2>2
    <2> QED
      BY <2>2, <2>3
  <1> QED
    BY <1>3, <1>4, <1>5

\* No two frames of q are half the space apart.
Spread(q) == \A i, j \in 1 .. Len(q) : q[j] - q[i] <= Half - 2

\* What leaves is what lies before e.
LEMMA LeavingIs ==
    ASSUME NEW q \in Seq(Nat), NEW b \in Nat, Sorted(q), Near(q, b), Spread(q),
           NEW r, NEW e \in Nat, At(q, b, Len(q), r, e)
    PROVE  LET k == leaving(r.ind, q) IN
           /\ k \in 0 .. Len(q)
           /\ \A i \in 1 .. k : q[i] < e
           /\ \A i \in k + 1 .. Len(q) : q[i] > e
           /\ r.stop <=> k < Len(q)
  <1>1. Len(q) \in Nat /\ \A i \in 1 .. Len(q) : q[i] \in Nat
    BY LenProperties, ElementOfSeq
  <1>2. PICK k : k = leaving(r.ind, q)
    OBVIOUS
  <1>3. /\ k \in 0 .. Len(q)
        /\ k < Len(q) => SN_LESS(r.ind, Sn(q[k + 1]))
        /\ \A i \in 0 .. k - 1 : ~SN_LESS(r.ind, Sn(q[i + 1]))
    BY <1>1, <1>2, LeavingType
  <1>4. r.ind = Sn(e) /\ e >= b /\ r.stop \in BOOLEAN
    BY DEF At, LoopState
  <1>5. ASSUME NEW i \in 1 .. Len(q) PROVE SN_LESS(r.ind, Sn(q[i])) <=> e < q[i]
    <2>1. e = b \/ \E j \in 1 .. Len(q) : e = q[j] + 1
      BY DEF At
    <2>2. q[i] - b \in -(Half - 1) .. Half - 1
      BY DEF Near
    <2>3. \A j \in 1 .. Len(q) : q[j] + 1 - q[i] <= Half - 1
      <3>1. \A j \in 1 .. Len(q) : q[j] - q[i] <= Half - 2
        BY DEF Spread
      <3> QED
        BY <1>1, <3>1, Sizes, SMTT(30)
    <2>4. e - q[i] \in -Half .. Half - 1
      <3>1. e - q[i] >= -Half
        BY <1>1, <1>4, <2>2, Sizes
      <3>2. CASE e = b
        BY <1>1, <2>2, <3>1, <3>2, Sizes
      <3>3. CASE \E j \in 1 .. Len(q) : e = q[j] + 1
        <4>1. PICK j \in 1 .. Len(q) : e = q[j] + 1
          BY <3>3
        <4>2. PICK x \in Nat : x = q[j]
          BY <1>1
        <4>3. x + 1 - q[i] <= Half - 1
          BY <2>3, <4>2
        <4>4. e = x + 1 /\ q[i] \in Nat /\ Half \in Nat
          BY <1>1, <4>1, <4>2, Sizes
        <4>5. PICK y \in Nat : y = q[i]
          BY <4>4
        <4>6. e - y <= Half - 1 /\ e - y >= -Half
          BY <3>1, <4>3, <4>4, <4>5, SMTT(30)
        <4> QED
          BY <4>4, <4>5, <4>6
      <3> QED
        BY <2>1, <3>2, <3>3
    <2> QED
      BY <1>1, <1>4, <2>4, LessIs
  <1>6. \A i \in 1 .. Len(q) : q[i] # e
    <2>1. CASE ~r.stop
      BY <1>1, <2>1 DEF At
    <2>2. CASE r.stop
      <3>1. PICK k2 \in 1 .. Len(q) : q[k2] > e /\ \A j \in 1 .. k2 - 1 : q[j] < e
        BY <2>2 DEF At
      <3>2. ASSUME NEW i \in 1 .. Len(q) PROVE q[i] # e
        <4>1. CASE i < k2
          BY <1>1, <3>1, <4>1
        <4>2. CASE i = k2
          BY <1>1, <3>1, <4>2
        <4>3. CASE i > k2
          <5>1. q[k2] < q[i]
            BY <4>3 DEF Sorted
          <5> QED
            BY <1>1, <3>1, <5>1
        <4> QED
          BY <4>1, <4>2, <4>3
      <3> QED
        BY <3>2
    <2> QED
      BY <2>1, <2>2
  <1>7. ASSUME NEW i \in 1 .. k PROVE q[i] < e
    <2>1. i - 1 \in 0 .. k - 1 /\ (i - 1) + 1 = i /\ i \in 1 .. Len(q)
      BY <1>1, <1>3
    <2>2. ~(e < q[i])
      BY <1>3, <1>5, <2>1
    <2> QED
      BY <1>1, <1>6, <2>1, <2>2
  <1>8. ASSUME NEW i \in k + 1 .. Len(q) PROVE q[i] > e
    <2>1. k + 1 \in 1 .. Len(q) /\ i \in 1 .. Len(q) /\ k < Len(q)
      BY <1>1, <1>3
    <2>2. e < q[k + 1]
      BY <1>3, <1>5, <2>1
    <2>3. i = k + 1 \/ q[k + 1] < q[i]
      BY <2>1 DEF Sorted
    <2> QED
      BY <1>1, <2>1, <2>2, <2>3
  <1>9. r.stop <=> k < Len(q)
    <2>1. ~r.stop => \A i \in 1 .. Len(q) : q[i] < e
      BY DEF At
    <2>2. r.stop => \E i \in 1 .. Len(q) : q[i] > e
      BY DEF At
    <2>3. CASE r.stop
      <3>1. PICK i \in 1 .. Len(q) : q[i] > e
        BY <2>2, <2>3
      <3>2. ~(i \in 1 .. k)
        BY <1>1, <1>7, <3>1
      <3> QED
        BY <1>1, <1>3, <2>3, <3>1, <3>2
    <2>4. CASE ~r.stop
      <3>1. k < Len(q) => q[k + 1] > e /\ q[k + 1] < e
        BY <1>1, <1>3, <1>8, <2>1, <2>4
      <3> QED
        BY <1>1, <1>3, <2>4, <3>1
    <2> QED
      BY <1>4, <2>3, <2>4
  <1> QED
    BY <1>2, <1>3, <1>7, <1>8, <1>9

-----------------------------------------------------------------------------
(* Sequences                                                               *)

LEMMA SeqIs ==
    ASSUME NEW T, NEW s \in Seq(T)
    PROVE  /\ Len(s) \in Nat /\ DOMAIN s = 1 .. Len(s)
           /\ \A i \in 1 .. Len(s) : s[i] \in T
           /\ Range(s) = {s[i] : i \in 1 .. Len(s)}
  <1>1. Len(s) \in Nat /\ DOMAIN s = 1 .. Len(s)
    BY LenProperties
  <1>2. \A i \in 1 .. Len(s) : s[i] \in T
    BY ElementOfSeq
  <1> QED
    BY <1>1, <1>2 DEF Range

LEMMA Slice ==
    ASSUME NEW T, NEW s \in Seq(T), NEW a \in 1 .. Len(s) + 1, NEW c \in 0 .. Len(s), a <= c + 1
    PROVE  /\ SubSeq(s, a, c) \in Seq(T)
           /\ Len(SubSeq(s, a, c)) = c - a + 1
           /\ \A i \in 1 .. c - a + 1 : SubSeq(s, a, c)[i] = s[a + i - 1]
  <1>1. Len(s) \in Nat /\ \A i \in 1 .. Len(s) : s[i] \in T
    BY SeqIs
  <1>2. a \in Int /\ c \in Int /\ \A i \in a .. c : s[i] \in T
    BY <1>1
  <1>3. /\ SubSeq(s, a, c) \in Seq(T)
        /\ Len(SubSeq(s, a, c)) = IF a <= c THEN c - a + 1 ELSE 0
        /\ \A i \in 1 .. c - a + 1 : SubSeq(s, a, c)[i] = s[a + i - 1]
    BY <1>2, SubSeqProperties
  <1>4. (IF a <= c THEN c - a + 1 ELSE 0) = c - a + 1
    BY <1>1, <1>2
  <1> QED
    BY <1>3, <1>4, Zenon

\* f is put at place p.
LEMMA InsertIs ==
    ASSUME NEW T, NEW s \in Seq(T), NEW p \in 1 .. Len(s) + 1, NEW f \in T
    PROVE  /\ InsertAt(s, p, f) \in Seq(T)
           /\ Len(InsertAt(s, p, f)) = Len(s) + 1
           /\ \A i \in 1 .. Len(s) + 1 :
                 InsertAt(s, p, f)[i] = IF i < p THEN s[i] ELSE IF i = p THEN f ELSE s[i - 1]
  <1> DEFINE a == SubSeq(s, 1, p - 1)
             b == SubSeq(s, p, Len(s))
             c == a \o <<f>>
  <1>1. Len(s) \in Nat
    BY SeqIs
  <1>2. a \in Seq(T) /\ Len(a) = p - 1 /\ \A i \in 1 .. p - 1 : a[i] = s[i]
    <2>1. 1 \in 1 .. Len(s) + 1 /\ p - 1 \in 0 .. Len(s) /\ 1 <= (p - 1) + 1 /\ (p - 1) - 1 + 1 = p - 1
      BY <1>1
    <2>2. /\ a \in Seq(T) /\ Len(a) = (p - 1) - 1 + 1
          /\ \A i \in 1 .. (p - 1) - 1 + 1 : a[i] = s[1 + i - 1]
      BY <2>1, Slice
    <2>3. \A i \in 1 .. p - 1 : 1 + i - 1 = i
      OBVIOUS
    <2> QED
      BY <2>1, <2>2, <2>3
  <1>3. b \in Seq(T) /\ Len(b) = Len(s) - p + 1 /\ \A i \in 1 .. Len(s) - p + 1 : b[i] = s[p + i - 1]
    BY <1>1, Slice
  <1>4. <<f>> \in Seq(T) /\ Len(<<f>>) = 1 /\ <<f>>[1] = f
    OBVIOUS
  <1> HIDE DEF a, b
  <1>5. c \in Seq(T) /\ Len(c) = p /\ \A i \in 1 .. p : c[i] = IF i < p THEN s[i] ELSE f
    <2>1. /\ c \in Seq(T) /\ Len(c) = Len(a) + Len(<<f>>)
          /\ \A i \in 1 .. Len(a) + Len(<<f>>) :
                c[i] = IF i <= Len(a) THEN a[i] ELSE <<f>>[i - Len(a)]
      BY <1>2, <1>4, ConcatProperties
    <2> QED
      BY <2>1, <1>2, <1>4
  <1>6. PICK r : r = InsertAt(s, p, f)
    OBVIOUS
  <1>7. r = c \o b
    BY <1>6 DEF InsertAt, a, b
  <1> HIDE DEF c
  <1>8. /\ r \in Seq(T) /\ Len(r) = Len(c) + Len(b)
        /\ \A i \in 1 .. Len(c) + Len(b) : r[i] = IF i <= Len(c) THEN c[i] ELSE b[i - Len(c)]
    BY <1>3, <1>5, <1>7, ConcatProperties
  <1>9. Len(r) = Len(s) + 1
    BY <1>1, <1>3, <1>5, <1>8
  <1>10. ASSUME NEW i \in 1 .. Len(s) + 1
         PROVE  r[i] = IF i < p THEN s[i] ELSE IF i = p THEN f ELSE s[i - 1]
    <2>1. r[i] = IF i <= p THEN c[i] ELSE b[i - p]
      BY <1>1, <1>3, <1>5, <1>8
    <2>2. CASE i <= p
      BY <2>1, <2>2, <1>5
    <2>3. CASE i > p
      <3>1. i - p \in 1 .. Len(s) - p + 1 /\ p + (i - p) - 1 = i - 1
        BY <1>1, <2>3
      <3>2. b[i - p] = s[i - 1]
        BY <3>1, <1>3
      <3> QED
        BY <3>2, <2>1, <2>3
    <2> QED
      BY <1>1, <2>2, <2>3
  <1> QED
    BY <1>6, <1>8, <1>9, <1>10

LEMMA PlaceType ==
    ASSUME NEW q, Len(q) \in Nat, NEW s
    PROVE  /\ place(q, s) \in 1 .. Len(q) + 1
           /\ place(q, s) <= Len(q) => ~SN_LESS(Sn(q[place(q, s)]), s)
           /\ \A i \in 1 .. place(q, s) - 1 : SN_LESS(Sn(q[i]), s)
  <1> DEFINE S == {i \in 1 .. Len(q) + 1 : i <= Len(q) => ~SN_LESS(Sn(q[i]), s)}
  <1>1. S \subseteq Nat /\ Len(q) + 1 \in S
    OBVIOUS
  <1>2. PICK p : p = Min(S)
    OBVIOUS
  <1>3. p \in S /\ \A x \in S : p <= x
    <2> HIDE DEF S
    <2> QED
      BY <1>1, <1>2, MinNat
  <1>4. place(q, s) = p
    BY <1>2 DEF place
  <1>5. ASSUME NEW i \in 1 .. p - 1 PROVE SN_LESS(Sn(q[i]), s)
    <2>1. p \in 1 .. Len(q) + 1 /\ \A x \in S : p <= x
      BY <1>3
    <2>2. i \in 1 .. Len(q) + 1 /\ i <= Len(q) /\ ~(p <= i)
      BY <2>1
    <2>3. i \notin S
      BY <2>1, <2>2
    <2> QED
      BY <2>2, <2>3
  <1> QED
    BY <1>3, <1>4, <1>5

Frames == Seq(0 .. MaxN)

LEMMA FramesAre ==
    ASSUME NEW q \in Frames
    PROVE  /\ q \in Seq(Nat) /\ Len(q) \in Nat
           /\ \A i \in 1 .. Len(q) : q[i] \in 0 .. MaxN /\ q[i] \in Nat
           /\ Range(q) = {q[i] : i \in 1 .. Len(q)}
  <1>1. q \in Seq(0 .. MaxN) /\ 0 .. MaxN \subseteq Nat
    BY Sizes DEF Frames
  <1>2. Len(q) \in Nat /\ Range(q) = {q[i] : i \in 1 .. Len(q)} /\ \A i \in 1 .. Len(q) : q[i] \in 0 .. MaxN
    BY <1>1, SeqIs
  <1>3. q \in Seq(Nat)
    BY <1>1, <1>2
  <1> QED
    BY <1>1, <1>2, <1>3

\* reord_rxframe_enqueue: a frame that is there already is found; another one is put
\* where it belongs.
LEMMA AddedIs ==
    ASSUME NEW q \in Frames, Sorted(q), NEW n \in 0 .. MaxN,
           \A i \in 1 .. Len(q) : q[i] - n \in -Half .. Half - 1
    PROVE  LET p == place(q, Sn(n)) IN
           /\ p \in 1 .. Len(q) + 1
           /\ p <= Len(q) /\ Sn(q[p]) = Sn(n) <=> n \in Range(q)
           /\ n \notin Range(q) => Sorted(InsertAt(q, p, n))
  <1>1. /\ q \in Seq(Nat) /\ Len(q) \in Nat /\ n \in Nat
        /\ \A i \in 1 .. Len(q) : q[i] \in Nat
        /\ Range(q) = {q[i] : i \in 1 .. Len(q)}
    BY FramesAre, Sizes
  <1>2. PICK p : p = place(q, Sn(n))
    OBVIOUS
  <1>3. /\ p \in 1 .. Len(q) + 1
        /\ p <= Len(q) => ~SN_LESS(Sn(q[p]), Sn(n))
        /\ \A i \in 1 .. p - 1 : SN_LESS(Sn(q[i]), Sn(n))
    BY <1>1, <1>2, PlaceType
  <1>4. \A i \in 1 .. Len(q) : SN_LESS(Sn(q[i]), Sn(n)) <=> q[i] < n
    BY <1>1, LessIs
  <1>5. \A i \in 1 .. Len(q) : Sn(q[i]) = Sn(n) => q[i] = n
    <2>1. ASSUME NEW i \in 1 .. Len(q) PROVE q[i] - n \in -(M - 1) .. M - 1
      <3>1. PICK d \in Int : d = q[i] - n
        BY <1>1
      <3>2. d \in -Half .. Half - 1
        BY <3>1
      <3>3. d \in -(M - 1) .. M - 1
        BY <3>2, Sizes
      <3> QED
        BY <3>1, <3>3
    <2> QED
      BY <1>1, <2>1, SnOne
  <1>6. \A i \in 1 .. p - 1 : i \in 1 .. Len(q) /\ q[i] < n
    BY <1>1, <1>3, <1>4
  <1>7. p <= Len(q) => p \in 1 .. Len(q) /\ q[p] >= n
    BY <1>1, <1>3, <1>4
  <1>8. \A i \in p + 1 .. Len(q) : p \in 1 .. Len(q) /\ i \in 1 .. Len(q) /\ q[p] < q[i]
    BY <1>1, <1>3 DEF Sorted
  <1>9. ASSUME n \in Range(q) PROVE p <= Len(q) /\ Sn(q[p]) = Sn(n)
    <2>1. PICK i \in 1 .. Len(q) : q[i] = n
      BY <1>1, <1>9
    <2>2. ~(i <= p - 1)
      BY <1>1, <1>6, <2>1
    <2>3. ~(i >= p + 1)
      BY <1>1, <1>3, <1>7, <1>8, <2>1
    <2> QED
      BY <1>1, <1>3, <2>1, <2>2, <2>3
  <1>10. p <= Len(q) /\ Sn(q[p]) = Sn(n) => n \in Range(q)
    BY <1>1, <1>5, <1>7
  <1>11. ASSUME n \notin Range(q) PROVE Sorted(InsertAt(q, p, n))
    <2>1. PICK t : t = InsertAt(q, p, n)
      OBVIOUS
    <2>2. /\ Len(t) = Len(q) + 1
          /\ \A i \in 1 .. Len(q) + 1 : t[i] = IF i < p THEN q[i] ELSE IF i = p THEN n ELSE q[i - 1]
      <3>1. q \in Seq(Nat) /\ n \in Nat /\ p \in 1 .. Len(q) + 1
        BY <1>1, <1>3
      <3>2. /\ Len(InsertAt(q, p, n)) = Len(q) + 1
            /\ \A i \in 1 .. Len(q) + 1 :
                  InsertAt(q, p, n)[i] = IF i < p THEN q[i] ELSE IF i = p THEN n ELSE q[i - 1]
        BY <3>1, InsertIs
      <3> QED
        BY <2>1, <3>2, Zenon
    <2>3. \A i \in 1 .. Len(q) : q[i] # n
      BY <1>1, <1>11
    <2>4. \A i \in p .. Len(q) : i \in 1 .. Len(q) /\ q[i] > n
      <3>1. ASSUME NEW i \in p .. Len(q) PROVE i \in 1 .. Len(q) /\ q[i] > n
        <4>1. p \in 1 .. Len(q) /\ q[p] > n
          BY <1>1, <1>3, <1>7, <2>3, SMTT(30)
        <4>2. i = p \/ i \in p + 1 .. Len(q)
          BY <1>1, <1>3
        <4>3. i \in p + 1 .. Len(q) => i \in 1 .. Len(q) /\ q[p] < q[i]
          BY <1>8
        <4>4. i \in 1 .. Len(q)
          BY <4>1, <4>2, <4>3
        <4> QED
          BY <1>1, <4>1, <4>2, <4>3, <4>4
      <3> QED
        BY <3>1
    <2>5. ASSUME NEW i \in 1 .. Len(t), NEW j \in 1 .. Len(t), i < j PROVE t[i] < t[j]
      <3>1. CASE j < p
        <4>1. i \in 1 .. Len(q) /\ j \in 1 .. Len(q) /\ q[i] < q[j]
          BY <1>1, <1>3, <2>2, <2>5, <3>1, SMTT(30) DEF Sorted
        <4>2. t[i] = q[i] /\ t[j] = q[j]
          BY <1>1, <1>3, <2>2, <2>5, <3>1
        <4> QED
          BY <4>1, <4>2
      <3>2. CASE j = p
        <4>1. i \in 1 .. p - 1 /\ t[i] = q[i] /\ t[j] = n
          BY <1>1, <1>3, <2>2, <2>5, <3>2
        <4> QED
          BY <1>6, <4>1
      <3>3. CASE j > p /\ i < p
        <4>1. i \in 1 .. p - 1 /\ t[i] = q[i] /\ j - 1 \in p .. Len(q) /\ t[j] = q[j - 1]
          BY <1>1, <1>3, <2>2, <2>5, <3>3
        <4>2. q[i] < n /\ n < q[j - 1] /\ q[i] \in Nat /\ q[j - 1] \in Nat
          BY <1>1, <1>6, <2>4, <4>1
        <4> QED
          BY <1>1, <4>1, <4>2
      <3>4. CASE j > p /\ i = p
        <4>1. t[i] = n /\ j - 1 \in p .. Len(q) /\ t[j] = q[j - 1]
          BY <1>1, <1>3, <2>2, <2>5, <3>4, SMTT(30)
        <4> QED
          BY <2>4, <4>1
      <3>5. CASE j > p /\ i > p
        <4>1. /\ i - 1 \in 1 .. Len(q) /\ j - 1 \in 1 .. Len(q) /\ i - 1 < j - 1
              /\ t[i] = q[i - 1] /\ t[j] = q[j - 1]
          <5>1. i \in 1 .. Len(q) + 1 /\ j \in 1 .. Len(q) + 1 /\ ~(i < p) /\ ~(j < p) /\ i # p /\ j # p
            BY <1>1, <1>3, <2>2, <3>5
          <5> QED
            <6>1. t[i] = q[i - 1] /\ t[j] = q[j - 1]
              BY <2>2, <5>1, Zenon
            <6>2. i - 1 \in 1 .. Len(q) /\ j - 1 \in 1 .. Len(q) /\ i - 1 < j - 1
              BY <1>1, <1>3, <2>5, <3>5, <5>1
            <6> QED
              BY <6>1, <6>2
        <4>2. q[i - 1] < q[j - 1]
          BY <4>1 DEF Sorted
        <4> QED
          BY <4>1, <4>2
      <3> QED
        BY <1>3, <2>5, <3>1, <3>2, <3>3, <3>4, <3>5
    <2> QED
      BY <2>1, <2>5 DEF Sorted
  <1> QED
    BY <1>2, <1>3, <1>9, <1>10, <1>11, Zenon

LEMMA InsertRange ==
    ASSUME NEW q \in Frames, NEW p \in 1 .. Len(q) + 1, NEW n \in 0 .. MaxN
    PROVE  /\ InsertAt(q, p, n) \in Frames /\ Len(InsertAt(q, p, n)) = Len(q) + 1
           /\ Range(InsertAt(q, p, n)) = Range(q) \cup {n}
  <1>1. Len(q) \in Nat /\ Range(q) = {q[i] : i \in 1 .. Len(q)}
    BY FramesAre
  <1>2. PICK t : t = InsertAt(q, p, n)
    OBVIOUS
  <1>3. /\ t \in Frames /\ Len(t) = Len(q) + 1
        /\ \A i \in 1 .. Len(q) + 1 : t[i] = IF i < p THEN q[i] ELSE IF i = p THEN n ELSE q[i - 1]
    <2>1. PICK T : T = 0 .. MaxN /\ q \in Seq(T) /\ n \in T
      BY DEF Frames
    <2>2. /\ InsertAt(q, p, n) \in Seq(T)
          /\ Len(InsertAt(q, p, n)) = Len(q) + 1
          /\ \A i \in 1 .. Len(q) + 1 :
                InsertAt(q, p, n)[i] = IF i < p THEN q[i] ELSE IF i = p THEN n ELSE q[i - 1]
      <3>1. q \in Seq(T) /\ p \in 1 .. Len(q) + 1 /\ n \in T
        BY <2>1
      <3> QED
        BY <3>1, InsertIs
    <2> QED
      BY <1>2, <2>1, <2>2, Zenon DEF Frames
  <1>4. Range(t) = {t[i] : i \in 1 .. Len(q) + 1}
    BY <1>3, FramesAre
  <1>5. ASSUME NEW i \in 1 .. Len(q) + 1 PROVE t[i] \in Range(q) \cup {n}
    <2>1. i >= p + 1 => i - 1 \in 1 .. Len(q)
      BY <1>1
    <2>2. i < p => i \in 1 .. Len(q)
      BY <1>1
    <2> QED
      BY <1>1, <1>3, <2>1, <2>2
  <1>6. n \in Range(t)
    BY <1>1, <1>3, <1>4
  <1>7. ASSUME NEW i \in 1 .. Len(q) PROVE q[i] \in Range(t)
    <2>1. CASE i < p
      <3>1. i \in 1 .. Len(q) + 1 /\ t[i] = q[i]
        BY <1>1, <1>3, <2>1
      <3> QED
        BY <1>4, <3>1
    <2>2. CASE i >= p
      <3>1. i + 1 \in 1 .. Len(q) + 1 /\ t[i + 1] = q[i]
        BY <1>1, <1>3, <2>2
      <3> QED
        BY <1>4, <3>1
    <2> QED
      BY <2>1, <2>2
  <1>8. Range(t) = Range(q) \cup {n}
    BY <1>1, <1>4, <1>5, <1>6, <1>7
  <1> QED
    BY <1>2, <1>3, <1>8

LEMMA RestIs ==
    ASSUME NEW q \in Frames, NEW k \in 0 .. Len(q)
    PROVE  LET t == SubSeq(q, k + 1, Len(q)) IN
           /\ t \in Frames /\ Len(t) = Len(q) - k
           /\ \A i \in 1 .. Len(q) - k : t[i] = q[k + i]
           /\ t = <<>> <=> k = Len(q)
  <1>1. PICK T : T = 0 .. MaxN /\ q \in Seq(T)
    BY DEF Frames
  <1>2. PICK t : t = SubSeq(q, k + 1, Len(q))
    OBVIOUS
  <1>3. Len(q) \in Nat
    BY FramesAre
  <1>4. k + 1 \in 1 .. Len(q) + 1 /\ Len(q) \in 0 .. Len(q) /\ k + 1 <= Len(q) + 1
    BY <1>3
  <1>5. /\ t \in Seq(T) /\ Len(t) = Len(q) - (k + 1) + 1
        /\ \A i \in 1 .. Len(q) - (k + 1) + 1 : t[i] = q[k + 1 + i - 1]
    BY <1>1, <1>2, <1>4, Slice, ZenonT(40)
  <1>6. Len(t) = Len(q) - k /\ Len(q) - (k + 1) + 1 = Len(q) - k
    BY <1>3, <1>5
  <1>7. \A i \in 1 .. Len(q) - k : t[i] = q[k + i]
    <2>1. \A i \in 1 .. Len(q) - k : k + 1 + i - 1 = k + i
      BY <1>3
    <2> QED
      BY <1>5, <1>6, <2>1
  <1>8. t = <<>> <=> Len(t) = 0
    BY <1>5, EmptySeq
  <1> QED
    <2>1. t = <<>> <=> k = Len(q)
      BY <1>3, <1>6, <1>8
    <2>2. t \in Frames
      BY <1>1, <1>5 DEF Frames
    <2> QED
      BY <1>2, <1>6, <1>7, <2>1, <2>2, Zenon

\* The frames that leave and those that stay, when the buffer runs from b.
LEMMA Released ==
    ASSUME NEW q \in Frames, NEW b \in Nat, Sorted(q), Near(q, b), Spread(q)
    PROVE  LET r == process(Sn(b), q)
               k == leaving(r.ind, q)
               t == SubSeq(q, k + 1, Len(q))
           IN  \E e \in Nat :
                 /\ e >= b /\ e - b <= Half /\ r \in LoopState /\ r.ind = Sn(e)
                 /\ k \in 0 .. Len(q) /\ e \notin Range(q) /\ b .. e - 1 \subseteq Range(q)
                 /\ t \in Frames /\ Sorted(t) /\ Range(t) = {m \in Range(q) : m > e}
                 /\ r.stop <=> t # <<>>
                 /\ k = 0 => \A m \in Range(q) : m > e
                 /\ k # 0 => /\ q[k] \in Range(q) /\ q[k] < e
                             /\ \A m \in Range(q) : m < e => m <= q[k]
  <1>1. /\ q \in Seq(Nat) /\ Len(q) \in Nat
        /\ \A i \in 1 .. Len(q) : q[i] \in Nat
        /\ Range(q) = {q[i] : i \in 1 .. Len(q)}
    BY FramesAre
  <1>2. PICK r : r = process(Sn(b), q)
    OBVIOUS
  <1>3. PICK k : k = leaving(r.ind, q)
    OBVIOUS
  <1>4. PICK t : t = SubSeq(q, k + 1, Len(q))
    OBVIOUS
  <1>5. PICK e \in Nat : At(q, b, Len(q), r, e)
    BY <1>1, <1>2, ProcessRuns
  <1>6. /\ k \in 0 .. Len(q) /\ \A i \in 1 .. k : q[i] < e
        /\ \A i \in k + 1 .. Len(q) : q[i] > e
        /\ r.stop <=> k < Len(q)
    BY <1>1, <1>3, <1>5, LeavingIs
  <1>7. /\ t \in Frames /\ Len(t) = Len(q) - k
        /\ \A i \in 1 .. Len(q) - k : t[i] = q[k + i]
        /\ t = <<>> <=> k = Len(q)
    BY <1>4, <1>6, RestIs
  <1>8. e >= b /\ r \in LoopState /\ r.ind = Sn(e) /\ b .. e - 1 \subseteq Range(q)
    BY <1>1, <1>5 DEF At
  <1>9. e - b <= Half
    <2>1. e = b \/ \E i \in 1 .. Len(q) : e = q[i] + 1
      BY <1>5 DEF At
    <2>2. \A i \in 1 .. Len(q) : q[i] - b \in -(Half - 1) .. Half - 1
      BY DEF Near
    <2>3. CASE e = b
      BY <2>3, Sizes
    <2>4. CASE \E i \in 1 .. Len(q) : e = q[i] + 1
      <3>1. PICK i \in 1 .. Len(q) : e = q[i] + 1
        BY <2>4
      <3>2. PICK x \in Nat : x = q[i]
        BY <1>1
      <3>3. x - b \in -(Half - 1) .. Half - 1
        BY <2>2, <3>2
      <3> QED
        BY <3>1, <3>2, <3>3, Sizes, SMTT(30)
    <2> QED
      BY <2>1, <2>3, <2>4
  <1>10. \A i \in 1 .. Len(q) : i <= k \/ i \in k + 1 .. Len(q)
    BY <1>1, <1>6
  <1>11. \A i \in 1 .. Len(q) : q[i] # e
    BY <1>1, <1>6, <1>10
  <1>12. Sorted(t)
    <2>1. ASSUME NEW i \in 1 .. Len(t), NEW j \in 1 .. Len(t), i < j PROVE t[i] < t[j]
      <3>1. k + i \in 1 .. Len(q) /\ k + j \in 1 .. Len(q) /\ k + i < k + j
        BY <1>1, <1>6, <1>7, <2>1
      <3>2. q[k + i] < q[k + j]
        BY <3>1 DEF Sorted
      <3> QED
        BY <1>7, <3>2
    <2> QED
      BY <2>1 DEF Sorted
  <1>13. Range(t) = {m \in Range(q) : m > e}
    <2>1. Range(t) = {t[i] : i \in 1 .. Len(q) - k}
      BY <1>7, FramesAre
    <2>2. ASSUME NEW i \in 1 .. Len(q) - k PROVE t[i] \in Range(q) /\ t[i] > e
      <3>1. k + i \in k + 1 .. Len(q) /\ k + i \in 1 .. Len(q)
        BY <1>1, <1>6
      <3> QED
        BY <1>1, <1>6, <1>7, <3>1
    <2>3. ASSUME NEW i \in 1 .. Len(q), q[i] > e PROVE q[i] \in Range(t)
      <3>1. ~(i <= k)
        BY <1>1, <1>6, <2>3
      <3>2. i - k \in 1 .. Len(q) - k /\ k + (i - k) = i
        BY <1>1, <1>6, <3>1
      <3> QED
        BY <1>7, <2>1, <3>2
    <2> QED
      BY <1>1, <2>1, <2>2, <2>3
  <1>14. r.stop <=> t # <<>>
    BY <1>1, <1>6, <1>7
  <1>15. k = 0 => \A m \in Range(q) : m > e
    BY <1>1, <1>6, <1>10
  <1>16. ASSUME k # 0
         PROVE q[k] \in Range(q) /\ q[k] < e /\ \A m \in Range(q) : m < e => m <= q[k]
    <2>1. k \in 1 .. Len(q) /\ k \in 1 .. k
      BY <1>1, <1>6, <1>16
    <2>2. ASSUME NEW i \in 1 .. Len(q), q[i] < e PROVE q[i] <= q[k]
      <3>1. i <= k
        BY <1>1, <1>6, <1>10, <2>2
      <3>2. i = k \/ q[i] < q[k]
        BY <2>1, <3>1 DEF Sorted
      <3> QED
        BY <1>1, <2>1, <3>2
    <2> QED
      BY <1>1, <1>6, <2>1, <2>2
  <1>17. e \notin Range(q)
    BY <1>1, <1>11
  <1> HIDE DEF Sorted
  <1> QED
    BY <1>2, <1>3, <1>4, <1>6, <1>7, <1>8, <1>9, <1>12, <1>13, <1>14, <1>15, <1>16, <1>17

-----------------------------------------------------------------------------
(* The inductive invariant                                                 *)

\* The receive thread holds a frame while it handles one; a station that is being
\* removed is still there.
Hands ==
    /\ rpc = "unit" => frame \in 0 .. MaxN
    /\ dpc # "idle" /\ ~uaf => alive

\* The held frames are in order, within the window, and what is in the receive
\* thread's hands is still comparable with them.
Window ==
    /\ base \in Nat /\ ind_sn = Sn(base) /\ passed < base
    /\ \A i \in 1 .. Len(list) : base < list[i] /\ list[i] < base + W
    /\ Sorted(list)
    /\ rpc = "unit" => /\ frame < base + W + Reach /\ base <= frame + W + Reach
                       /\ \A i \in 1 .. Len(list) : list[i] < frame + W + Reach

\* A control in use has nothing yet, or its window.
InUse ==
    /\ ind_sn = NoSn => list = <<>> /\ passed = -1
    /\ ind_sn # NoSn => Window

\* While no station is being removed.
Settled ==
    ~uaf /\ dpc = "idle" =>
        /\ ~alive => ~enable
        /\ ~enable => list = <<>> /\ rpc # "unit"
        /\ rpc = "cancel" => ~enable
        /\ enable => InUse

IInv == TypeOK /\ PoolConserved /\ NoStranded /\ Hands /\ Settled

-----------------------------------------------------------------------------
(* One run of the buffer                                                   *)

\* The buffer was at a with the frames H and is at e now.
Ran(a, H, e) ==
    /\ e >= a /\ e \notin H /\ a .. e - 1 \subseteq H
    /\ base' = e /\ ind_sn' = Sn(e)
    /\ list' \in Frames /\ Sorted(list') /\ Range(list') = {m \in H : m > e}
    /\ \/ (\A m \in H : m > e) /\ passed' = passed
       \/ \E t \in H : t < e /\ (\A m \in H : m < e => m <= t) /\ passed' = t

\* Release after the loop, from b; a is where the abstract run starts.
LEMMA ReleaseRuns ==
    ASSUME NEW q \in Frames, NEW b \in Nat, Sorted(q), Near(q, b), Spread(q),
           Release(process(Sn(b), q).ind, q),
           base' = b + Ahead(Sn(b), process(Sn(b), q).ind),
           NEW a \in Nat, a <= b, a .. b - 1 \subseteq Range(q)
    PROVE  /\ \E e \in Nat : Ran(a, Range(q), e)
           /\ process(Sn(b), q).stop <=> list' # <<>>
  <1>1. PICK r : r = process(Sn(b), q)
    OBVIOUS
  <1>2. PICK k : k = leaving(r.ind, q)
    OBVIOUS
  <1>3. PICK e \in Nat :
           /\ e >= b /\ e - b <= Half /\ r \in LoopState /\ r.ind = Sn(e)
           /\ k \in 0 .. Len(q) /\ e \notin Range(q) /\ b .. e - 1 \subseteq Range(q)
           /\ SubSeq(q, k + 1, Len(q)) \in Frames /\ Sorted(SubSeq(q, k + 1, Len(q)))
           /\ Range(SubSeq(q, k + 1, Len(q))) = {m \in Range(q) : m > e}
           /\ r.stop <=> SubSeq(q, k + 1, Len(q)) # <<>>
           /\ k = 0 => \A m \in Range(q) : m > e
           /\ k # 0 => /\ q[k] \in Range(q) /\ q[k] < e
                       /\ \A m \in Range(q) : m < e => m <= q[k]
    BY <1>1, <1>2, Released, Zenon
  <1>4. list' = SubSeq(q, k + 1, Len(q)) /\ passed' = (IF k = 0 THEN passed ELSE q[k]) /\ ind_sn' = Sn(e)
    BY <1>1, <1>2, <1>3, Zenon DEF Release
  <1>5. base' = e
    <2>1. PICK d \in Nat : d = e - b /\ d < M /\ b + d = e
      BY <1>3, Sizes
    <2>2. Ahead(Sn(b), Sn(b + d)) = d
      BY <2>1, AheadIs
    <2> QED
      BY <1>1, <1>3, <2>1, <2>2
  <1>6. e >= a /\ a .. e - 1 \subseteq Range(q)
    <2>1. \A m \in a .. e - 1 : m \in a .. b - 1 \/ m \in b .. e - 1
      BY <1>3
    <2> QED
      BY <1>3, <2>1
  <1>7. \/ (\A m \in Range(q) : m > e) /\ passed' = passed
        \/ \E t \in Range(q) : t < e /\ (\A m \in Range(q) : m < e => m <= t) /\ passed' = t
    BY <1>3, <1>4, Zenon
  <1>8. Ran(a, Range(q), e)
    BY <1>3, <1>4, <1>5, <1>6, <1>7, Zenon DEF Ran
  <1> QED
    BY <1>1, <1>3, <1>4, <1>8, Zenon

\* Members of a list and of its range.
LEMMA InRange ==
    ASSUME NEW q \in Frames
    PROVE  \A i \in 1 .. Len(q) : q[i] \in Range(q)
  BY FramesAre

\* Where the buffer stands after reord_need_check, in the transmitter's numbers.
Stands == IF ind_sn = NoSn THEN frame + 1 ELSE Moved(base, frame)

\* Where ReorderWindow starts to run.
Starts == IF ind_sn = NoSn THEN frame
          ELSE IF frame > base + W - 1 THEN frame - W + 1 ELSE base

Taken == Range(list) \cup {frame}

\* A frame that is not old, and what the window says of it.
Fresh ==
    /\ enable /\ rpc = "unit" /\ frame \in 0 .. MaxN /\ list \in Frames
    /\ passed \in -1 .. MaxN /\ InUse
    /\ need_check(ind_sn, Sn(frame)) # -1

LEMMA FreshIs ==
    ASSUME Fresh
    PROVE  /\ ind_sn = NoSn => Taken = {frame} /\ frame \in Nat /\ passed = -1
           /\ ind_sn # NoSn =>
                /\ base \in Nat /\ frame \in Nat /\ base <= frame /\ frame < base + W + Reach
                /\ \A m \in Range(list) : m \in Nat /\ base < m /\ m < base + W
                /\ passed < base /\ ind_sn = Sn(base)
           /\ Stands \in Nat /\ need_check(ind_sn, Sn(frame)) = Sn(Stands)
  <1>1. frame \in Nat /\ list \in Frames
    BY Sizes DEF Fresh
  <1>2. CASE ind_sn = NoSn
    <2>1. list = <<>> /\ passed = -1
      BY <1>2 DEF Fresh, InUse
    <2>2. Range(list) = {}
      BY <2>1 DEF Range
    <2>3. Stands = frame + 1 /\ Stands \in Nat
      BY <1>1, <1>2 DEF Stands
    <2>4. need_check(ind_sn, Sn(frame)) = Sn(Stands)
      BY <1>1, <1>2, <2>3, NeedCheckFirst
    <2> QED
      BY <1>1, <1>2, <2>1, <2>2, <2>3, <2>4 DEF Taken
  <1>3. CASE ind_sn # NoSn
    <2>1. Window
      BY <1>3 DEF Fresh, InUse
    <2>2. /\ base \in Nat /\ frame < base + W + Reach /\ base <= frame + W + Reach
          /\ passed < base /\ ind_sn = Sn(base)
      BY <2>1 DEF Window, Fresh
    <2>3. frame - base \in -Half .. Half - 1
      BY <1>1, <2>2, Sizes
    <2>4. base <= frame /\ need_check(ind_sn, Sn(frame)) = Sn(Moved(base, frame))
      <3>1. /\ frame < base => need_check(Sn(base), Sn(frame)) = -1
            /\ frame >= base => need_check(Sn(base), Sn(frame)) = Sn(Moved(base, frame))
        BY <1>1, <2>2, <2>3, NeedCheck
      <3> QED
        BY <1>1, <2>2, <3>1 DEF Fresh
    <2>5. Stands = Moved(base, frame) /\ Stands \in Nat
      BY <1>1, <1>3, <2>2, <2>4, Sizes DEF Stands, Moved
    <2>6. \A m \in Range(list) : m \in Nat /\ base < m /\ m < base + W
      BY <1>1, <2>1, FramesAre DEF Window
    <2> QED
      BY <1>1, <1>3, <2>2, <2>4, <2>5, <2>6
  <1> QED
    BY <1>2, <1>3

\* The new frame can be compared with all that is held, and with where the buffer stands.
LEMMA FreshNear ==
    ASSUME Fresh
    PROVE  /\ \A m \in Taken : m \in Nat /\ m - Stands \in -(Half - 1) .. Half - 1
           /\ \A m, n \in Taken : m - n <= Half - 2
           /\ \A m \in Range(list) : m - frame \in -Half .. Half - 1
           /\ Starts \in Nat /\ Starts <= Stands /\ Starts .. Stands - 1 \subseteq Taken
           /\ passed < Starts /\ \A m \in Taken : m < Starts + W
           /\ ind_sn # NoSn => Stands - base \in 0 .. Half /\ base + (Stands - base) = Stands
  <1>1. CASE ind_sn = NoSn
    <2>1. Taken = {frame} /\ frame \in Nat /\ passed = -1
      BY <1>1, FreshIs
    <2>2. Stands = frame + 1 /\ Starts = frame
      BY <1>1 DEF Stands, Starts
    <2>3. Range(list) \subseteq {frame}
      BY <2>1 DEF Taken
    <2> QED
      BY <1>1, <2>1, <2>2, <2>3, Sizes
  <1>2. CASE ind_sn # NoSn
    <2>1. /\ base \in Nat /\ frame \in Nat /\ base <= frame /\ frame < base + W + Reach
          /\ \A m \in Range(list) : m \in Nat /\ base < m /\ m < base + W
          /\ passed < base
      BY <1>2, FreshIs
    <2>2. PICK x \in Nat : x = base
      BY <2>1
    <2>3. PICK n \in Nat : n = frame
      BY <2>1
    <2>4. Stands = Moved(x, n) /\ Starts = IF n > x + W - 1 THEN n - W + 1 ELSE x
      BY <1>2, <2>2, <2>3 DEF Stands, Starts
    <2>5. \A m \in Taken : m = n \/ (m \in Nat /\ x < m /\ m < x + W)
      BY <2>1, <2>2, <2>3 DEF Taken
    <2>6. x <= n /\ n < x + W + Reach
      BY <2>1, <2>2, <2>3
    <2>7. Starts \in Nat /\ Starts >= x /\ Stands \in Nat /\ Stands >= Starts
      BY <2>4, <2>6, Sizes DEF Moved
    <2>8. ASSUME NEW m \in Taken PROVE m \in Nat /\ m - Stands \in -(Half - 1) .. Half - 1 /\ m < Starts + W
      BY <2>4, <2>5, <2>6, Sizes DEF Moved
    <2>9. ASSUME NEW m \in Taken, NEW k \in Taken PROVE m - k <= Half - 2
      BY <2>5, <2>6, Sizes
    <2>10. ASSUME NEW m \in Range(list) PROVE m - frame \in -Half .. Half - 1
      <3>1. m \in Nat /\ x < m /\ m < x + W
        BY <2>1, <2>2
      <3> QED
        BY <2>3, <2>6, <3>1, Sizes
    <2>11. Starts .. Stands - 1 \subseteq Taken
      <3>1. CASE n = x
        <4>1. Starts = x /\ Stands = x + 1
          BY <2>4, <3>1, Sizes DEF Moved
        <4>2. x .. x = {frame}
          BY <2>3, <3>1
        <4> QED
          BY <4>1, <4>2 DEF Taken
      <3>2. CASE n # x
        <4>1. Starts = Stands
          BY <2>4, <3>2 DEF Moved
        <4> QED
          BY <2>7, <4>1
      <3> QED
        BY <3>1, <3>2
    <2>12. passed < Starts
      <3>1. passed < x /\ Starts >= x
        BY <2>1, <2>2, <2>7
      <3> QED
        BY <2>7, <3>1 DEF Fresh
    <2>13. Stands - base \in 0 .. Half /\ base + (Stands - base) = Stands
      BY <2>2, <2>4, <2>6, Sizes DEF Moved
    <2> QED
      BY <1>2, <2>7, <2>8, <2>9, <2>10, <2>11, <2>12, <2>13
  <1> QED
    BY <1>1, <1>2

LEMMA PlacedIs ==
    ASSUME Fresh
    PROVE  LET p == place(list, Sn(frame)) IN
           /\ p \in 1 .. Len(list) + 1
           /\ p <= Len(list) /\ Sn(list[p]) = Sn(frame) <=> frame \in Range(list)
           /\ frame \notin Range(list) => Sorted(InsertAt(list, p, frame))
  <1>1. list \in Frames /\ frame \in 0 .. MaxN
    BY DEF Fresh
  <1>2. Sorted(list)
    <2>1. CASE ind_sn = NoSn
      <3>1. list = <<>> /\ Len(<<>>) = 0
        BY <2>1 DEF Fresh, InUse
      <3> QED
        BY <3>1 DEF Sorted
    <2>2. CASE ind_sn # NoSn
      BY <2>2, Zenon DEF Fresh, InUse, Window
    <2> QED
      BY <2>1, <2>2
  <1>3. \A i \in 1 .. Len(list) : list[i] - frame \in -Half .. Half - 1
    BY <1>1, InRange, FreshNear
  <1> QED
    BY <1>1, <1>2, <1>3, AddedIs

\* reord_process_unit on a frame that is not old: a repeated frame changes nothing,
\* another one makes the buffer run.
LEMMA UnitRuns ==
    ASSUME Fresh, Unit
    PROVE  \/ UNCHANGED <<ind_sn, base, list, passed, timerVars>>
           \/ /\ frame \notin Range(list) /\ timer' = (list' # <<>>)
              /\ \E e \in Nat : Ran(Starts, Taken, e)
  <1>1. PICK ind \in {need_check(ind_sn, Sn(frame))} \ {-1}, p \in {place(list, Sn(frame))} :
         LET b == IF ind_sn = NoSn THEN frame + 1 ELSE base + Ahead(ind_sn, ind) IN
         IF p <= Len(list) /\ Sn(list[p]) = Sn(frame)
         THEN /\ ind_sn' = ind /\ base' = b
              /\ free' = free + 1
              /\ UNCHANGED <<list, passed, timerVars>>
         ELSE \E q \in {InsertAt(list, p, frame)} : \E r \in {process(ind, q)} :
              /\ timer' = r.stop
              /\ skipped' = (skipped /\ ~r.stop)
              /\ Release(r.ind, q)
              /\ base' = b + Ahead(ind, r.ind)
              /\ free' = free + leaving(r.ind, q)
              /\ UNCHANGED <<handler, work, wpc>>
    BY Zenon DEF Unit
  <1>2. ind = need_check(ind_sn, Sn(frame)) /\ p = place(list, Sn(frame))
    BY <1>1
  <1>3. /\ Stands \in Nat /\ ind = Sn(Stands) /\ list \in Frames /\ frame \in 0 .. MaxN
    BY <1>2, FreshIs DEF Fresh
  <1> DEFINE b == IF ind_sn = NoSn THEN frame + 1 ELSE base + Ahead(ind_sn, ind)
  <1>4. b = Stands
    <2>1. CASE ind_sn = NoSn
      BY <2>1 DEF Stands
    <2>2. CASE ind_sn # NoSn
      <3>1. PICK d \in Nat : d = Stands - base /\ d < M /\ base + d = Stands
        BY <2>2, FreshNear, Sizes
      <3>2. base \in Nat /\ ind_sn = Sn(base)
        BY <2>2, FreshIs
      <3>3. Ahead(Sn(base), Sn(base + d)) = d
        BY <3>1, <3>2, AheadIs
      <3> QED
        BY <1>3, <2>2, <3>1, <3>2, <3>3
    <2> QED
      BY <2>1, <2>2
  <1> HIDE DEF b
  <1>5. CASE frame \in Range(list)
    <2>1. ind_sn # NoSn
      BY <1>5 DEF Fresh, InUse, Range
    <2>2. base \in Nat /\ base < frame /\ frame < base + W /\ ind_sn = Sn(base)
      BY <1>5, <2>1, FreshIs
    <2>3. Stands = base
      BY <1>3, <2>1, <2>2, Sizes DEF Stands, Moved
    <2>4. p <= Len(list) /\ Sn(list[p]) = Sn(frame)
      BY <1>2, <1>3, <1>5, PlacedIs, Zenon
    <2> QED
      BY <1>1, <1>3, <1>4, <2>2, <2>3, <2>4, Zenon DEF b
  <1>6. CASE frame \notin Range(list)
    <2>1. /\ p \in 1 .. Len(list) + 1
          /\ ~(p <= Len(list) /\ Sn(list[p]) = Sn(frame))
          /\ Sorted(InsertAt(list, p, frame))
      BY <1>2, <1>3, <1>6, PlacedIs, Zenon
    <2>2. PICK q, r : /\ q = InsertAt(list, p, frame) /\ r = process(ind, q)
                      /\ timer' = r.stop /\ Release(r.ind, q)
                      /\ base' = b + Ahead(ind, r.ind)
      BY <1>1, <2>1, Zenon DEF b
    <2>3. q \in Frames /\ Range(q) = Taken /\ Sorted(q)
      BY <1>3, <2>1, <2>2, InsertRange, Zenon DEF Taken
    <2>4. \A i \in 1 .. Len(q) : q[i] \in Taken
      BY <2>3, InRange
    <2>5. Near(q, Stands) /\ Spread(q)
      BY <2>4, FreshNear DEF Near, Spread
    <2>6. Release(process(Sn(Stands), q).ind, q) /\ base' = Stands + Ahead(Sn(Stands), process(Sn(Stands), q).ind)
      BY <1>3, <1>4, <2>2, Zenon
    <2>7. Starts \in Nat /\ Starts <= Stands /\ Starts .. Stands - 1 \subseteq Range(q)
      BY <2>3, FreshNear
    <2>8. /\ \E e \in Nat : Ran(Starts, Range(q), e)
          /\ process(Sn(Stands), q).stop <=> list' # <<>>
      BY <1>3, <2>3, <2>5, <2>6, <2>7, ReleaseRuns
    <2>9. r.stop \in BOOLEAN
      <3>1. Sn(Stands) \in 0 .. M - 1 /\ q \in Seq(Nat)
        BY <1>3, <2>3, SnType, FramesAre, Zenon
      <3> QED
        BY <1>3, <2>2, <3>1, ProcessType DEF LoopState
    <2>10. timer' = (list' # <<>>)
      BY <1>3, <2>2, <2>8, <2>9
    <2> QED
      BY <1>6, <2>3, <2>8, <2>10, Zenon
  <1> QED
    BY <1>5, <1>6

\* reord_timeout_worker on a list that is not empty.
LEMMA WorkerRuns ==
    ASSUME Window, list \in Frames, list # <<>>, timer \in BOOLEAN, Worker
    PROVE  /\ Head(list) \in Range(list) /\ \A m \in Range(list) : Head(list) <= m
           /\ \E e \in Nat : Ran(Head(list), Range(list), e)
           /\ timer' \in BOOLEAN /\ (list' # <<>> => timer')
  <1>1. /\ list \in Seq(Nat) /\ Len(list) \in Nat
        /\ \A i \in 1 .. Len(list) : list[i] \in Nat
        /\ Range(list) = {list[i] : i \in 1 .. Len(list)}
    BY FramesAre
  <1>2. Len(list) >= 1 /\ Head(list) = list[1]
    BY <1>1, EmptySeq, HeadTailProperties
  <1>3. PICK h \in Nat : h = Head(list) /\ h = list[1]
    BY <1>1, <1>2
  <1>4. PICK r \in {process(Sn(Head(list)), list)} :
                /\ timer' = IF r.stop THEN TRUE ELSE timer
                /\ skipped' = (skipped /\ ~r.stop)
                /\ Release(r.ind, list)
                /\ base' = Head(list) + Ahead(Sn(Head(list)), r.ind)
                /\ free' = free + leaving(r.ind, list)
                /\ UNCHANGED <<alive, enable>>
    BY Zenon DEF Worker
  <1>5. \A i \in 1 .. Len(list) : base < list[i] /\ list[i] < base + W /\ base \in Nat
    BY DEF Window
  <1>6. Sorted(list)
    BY DEF Window
  <1>7. ASSUME NEW i \in 1 .. Len(list) PROVE h <= list[i]
    <2>1. i = 1 \/ list[1] < list[i]
      BY <1>1, <1>2, <1>6 DEF Sorted
    <2> QED
      BY <1>1, <1>3, <2>1
  <1>8. Near(list, h)
    <2>1. ASSUME NEW i \in 1 .. Len(list) PROVE list[i] - h \in -(Half - 1) .. Half - 1
      <3>1. 1 \in 1 .. Len(list)
        BY <1>1, <1>2
      <3>2. /\ base < h /\ base \in Nat /\ list[i] < base + W /\ list[i] \in Nat /\ h <= list[i]
        BY <1>1, <1>3, <1>5, <1>7, <3>1
      <3> QED
        BY <3>2, Sizes
    <2> QED
      BY <2>1 DEF Near
  <1>9. Spread(list)
    <2>1. ASSUME NEW i \in 1 .. Len(list), NEW j \in 1 .. Len(list) PROVE list[j] - list[i] <= Half - 2
      <3>1. /\ base < list[i] /\ base \in Nat /\ list[j] < base + W
            /\ list[j] \in Nat /\ list[i] \in Nat
        BY <1>1, <1>5
      <3> QED
        BY <3>1, Sizes
    <2> QED
      BY <2>1 DEF Spread
  <1>10. Release(process(Sn(h), list).ind, list) /\ base' = h + Ahead(Sn(h), process(Sn(h), list).ind)
    BY <1>3, <1>4, Zenon
  <1>11. h .. h - 1 \subseteq Range(list) /\ h <= h
    BY <1>3
  <1>12. /\ \E e \in Nat : Ran(h, Range(list), e)
         /\ process(Sn(h), list).stop <=> list' # <<>>
    BY <1>6, <1>8, <1>9, <1>10, <1>11, ReleaseRuns
  <1>13. timer' \in BOOLEAN /\ (list' # <<>> => timer')
    BY <1>3, <1>4, <1>12
  <1>14. h \in Range(list) /\ \A m \in Range(list) : h <= m
    BY <1>1, <1>2, <1>3, <1>7
  <1> QED
    BY <1>3, <1>12, <1>13, <1>14, Zenon

\* A run ends in a window.
LEMMA RanWindow ==
    ASSUME NEW a \in Nat, NEW H \in SUBSET Nat, NEW e \in Nat, Ran(a, H, e),
           passed \in Int, passed < a, \A m \in H : m < a + W
    PROVE  /\ base' \in Nat /\ ind_sn' = Sn(base') /\ ind_sn' # NoSn /\ passed' < base'
           /\ \A i \in 1 .. Len(list') : list'[i] \in H /\ base' < list'[i] /\ list'[i] < base' + W
           /\ Sorted(list')
  <1>1. /\ e >= a /\ base' = e /\ ind_sn' = Sn(e) /\ list' \in Frames /\ Sorted(list')
        /\ Range(list') = {m \in H : m > e}
    BY DEF Ran
  <1>2. passed' = passed \/ \E t \in H : t < e /\ passed' = t
    BY DEF Ran
  <1>3. Sn(e) # NoSn
    <2>1. Sn(e) \in 0 .. M - 1
      BY SnType, Zenon
    <2> QED
      BY <2>1, Sizes
  <1>4. passed' < e
    BY <1>1, <1>2
  <1>5. ASSUME NEW i \in 1 .. Len(list') PROVE list'[i] \in H /\ e < list'[i] /\ list'[i] < e + W
    <2>1. list'[i] \in Range(list')
      BY <1>1, InRange
    <2>2. PICK m \in H : m = list'[i] /\ m > e
      BY <1>1, <2>1
    <2>3. m < a + W /\ m \in Nat
      BY <2>2
    <2> QED
      BY <1>1, <2>2, <2>3, Sizes
  <1> QED
    BY <1>1, <1>3, <1>4, <1>5

\* A run is a run of ReorderWindow.
LEMMA RanRefines ==
    ASSUME NEW a \in Nat, NEW H \in SUBSET (0 .. MaxN), NEW e \in Nat, Ran(a, H, e), enable'
    PROVE  Buffer!RunFrom(a, H)
  <1>1. /\ e >= a /\ e \notin H /\ a .. e - 1 \subseteq H /\ base' = e /\ ind_sn' = Sn(e)
        /\ Range(list') = {m \in H : m > e}
        /\ \/ (\A m \in H : m > e) /\ passed' = passed
           \/ \E t \in H : t < e /\ (\A m \in H : m < e => m <= t) /\ passed' = t
    BY DEF Ran
  <1>2. ind_sn' # NoSn
    <2>1. Sn(e) \in 0 .. M - 1
      BY SnType, Zenon
    <2> QED
      BY <1>1, <2>1, Sizes
  <1>3. e \in a .. a + Cardinality(H)
    <2>1. IsFiniteSet(0 .. MaxN)
      BY Sizes, FS_Interval
    <2>2. IsFiniteSet(H) /\ Cardinality(H) \in Nat
      BY <2>1, FS_Subset, FS_CardinalityType
    <2>3. Cardinality(a .. e - 1) <= Cardinality(H)
      BY <1>1, <2>2, FS_Subset
    <2>4. Cardinality(a .. e - 1) = IF a > e - 1 THEN 0 ELSE (e - 1) - a + 1
      BY FS_Interval
    <2> QED
      BY <1>1, <2>2, <2>3, <2>4
  <1> QED
    <2>1. Buffer!Cardinality(H) = Cardinality(H)
      BY Zenon DEF Buffer!Cardinality, Cardinality
    <2>2. (IF enable /\ ind_sn # NoSn THEN base ELSE -1)' = e
      BY <1>1, <1>2
    <2> QED
      BY <1>1, <1>3, <2>1, <2>2, Zenon DEF Buffer!RunFrom

-----------------------------------------------------------------------------
(* The steps keep the invariant                                            *)

LEMMA InitIInv == Init => IInv
  <1> SUFFICES ASSUME Init PROVE IInv
    OBVIOUS
  <1>1. TypeOK
    <2>1. Pool \in 0 .. Pool /\ -1 \in -1 .. MaxN /\ 0 \in Int
      BY Sizes
    <2>2. <<>> \in Seq(0 .. MaxN)
      OBVIOUS
    <2> QED
      BY <2>1, <2>2, Zenon DEF Init, TypeOK
  <1>2. PoolConserved
    BY Sizes DEF Init, PoolConserved
  <1>3. NoStranded /\ Hands /\ Settled
    BY DEF Init, NoStranded, Hands, Settled
  <1> QED
    BY <1>1, <1>2, <1>3 DEF IInv

\* Release, whatever is on the list.
LEMMA ReleaseType ==
    ASSUME NEW q \in Frames, NEW ind \in 0 .. M - 1, passed \in -1 .. MaxN,
           NEW r, r = process(ind, q), Release(r.ind, q)
    PROVE  /\ list' \in Frames /\ leaving(r.ind, q) \in Nat
           /\ Len(list') + leaving(r.ind, q) = Len(q) /\ Len(list') \in Nat
           /\ passed' \in -1 .. MaxN /\ ind_sn' \in 0 .. M - 1 /\ r.stop \in BOOLEAN /\ r.ind \in Int
  <1>1. q \in Seq(Nat) /\ Len(q) \in Nat /\ \A i \in 1 .. Len(q) : q[i] \in 0 .. MaxN
    BY FramesAre
  <1>2. r \in LoopState
    BY <1>1, ProcessType
  <1>3. r.ind \in 0 .. M - 1 /\ r.stop \in BOOLEAN
    BY <1>2 DEF LoopState
  <1>4. PICK k : k = leaving(r.ind, q)
    OBVIOUS
  <1>5. k \in 0 .. Len(q)
    BY <1>1, <1>4, LeavingType
  <1>6. list' = SubSeq(q, k + 1, Len(q)) /\ passed' = (IF k = 0 THEN passed ELSE q[k]) /\ ind_sn' = r.ind
    BY <1>4, Zenon DEF Release
  <1>7. list' \in Frames /\ Len(list') = Len(q) - k
    BY <1>5, <1>6, RestIs
  <1>8. passed' \in -1 .. MaxN
    <2>1. k # 0 => k \in 1 .. Len(q)
      BY <1>1, <1>5
    <2> QED
      BY <1>1, <1>6, <2>1, Sizes
  <1> QED
    <2>1. leaving(r.ind, q) \in Nat /\ Len(list') + leaving(r.ind, q) = Len(q) /\ Len(list') \in Nat
      BY <1>1, <1>4, <1>5, <1>7
    <2>2. r.ind \in Int
      BY <1>3, Sizes
    <2> QED
      BY <1>3, <1>6, <1>7, <1>8, <2>1, <2>2, Zenon

\* Nothing but the timer, the worker or the device changes.
LEMMA SettledSame ==
    ASSUME Settled, UNCHANGED <<ctrlVars, dpc, uaf>>,
           rpc' = "idle" \/ UNCHANGED <<rpc, frame>>
    PROVE  Settled'
  <1>1. InUse => InUse'
    BY DEF InUse, Window, Sorted, ctrlVars
  <1> QED
    BY <1>1 DEF Settled, ctrlVars

LEMMA ArriveKeeps ==
    ASSUME IInv, NEW n \in 0 .. MaxN, Arrive(n)
    PROVE  IInv'
  <1>1. TypeOK /\ PoolConserved /\ NoStranded /\ Hands /\ Settled
    BY DEF IInv
  <1>2. /\ rpc = "idle" /\ free > 0 /\ ~uaf /\ free' = free - 1 /\ frame' = n /\ rpc' = "unit"
        /\ UNCHANGED <<timer, handler, work, wpc, skipped, dpc, down, uaf>>
    BY DEF Arrive, timerVars
  <1>3. CASE alive /\ enable
    <2>1. UNCHANGED <<alive, enable, ind_sn, list, base, passed>>
      BY <1>3 DEF Arrive, ctrlVars
    <2>2. TypeOK'
      BY <1>1, <1>2, <2>1, Sizes DEF TypeOK
    <2>3. PoolConserved'
      BY <1>1, <1>2, <2>1, Sizes DEF PoolConserved, TypeOK
    <2>4. NoStranded' /\ Hands'
      BY <1>1, <1>2, <1>3, <2>1 DEF NoStranded, Hands
    <2>5. ASSUME dpc = "idle" PROVE InUse'
      <3>1. InUse
        BY <1>1, <1>2, <1>3, <2>5 DEF Settled
      <3>2. CASE ind_sn = NoSn
        BY <2>1, <3>1, <3>2 DEF InUse
      <3>3. CASE ind_sn # NoSn
        <4>1. Window
          BY <3>1, <3>3 DEF InUse
        <4>2. n \in base - Reach .. base + W + Reach - 1
          BY <1>3, <3>3 DEF Arrive, Sendable
        <4>3. base \in Nat /\ n < base + W + Reach /\ base <= n + Reach /\ n \in Nat
          BY <4>1, <4>2, Sizes DEF Window
        <4>4. \A i \in 1 .. Len(list) : list[i] \in Nat /\ list[i] < base + W
          BY <1>1, <4>1, FramesAre DEF TypeOK, Frames, Window
        <4>5. \A i \in 1 .. Len(list) : list[i] < n + W + Reach
          BY <4>3, <4>4, Sizes
        <4>6. base <= n + W + Reach
          BY <4>3, Sizes
        <4>7. Window'
          BY <1>2, <2>1, <4>1, <4>3, <4>5, <4>6 DEF Window, Sorted
        <4> QED
          BY <2>1, <3>3, <4>7 DEF InUse
      <3> QED
        BY <3>2, <3>3
    <2>6. Settled'
      BY <1>2, <1>3, <2>1, <2>5 DEF Settled
    <2> QED
      BY <2>2, <2>3, <2>4, <2>6 DEF IInv
  <1>4. CASE ~(alive /\ enable)
    <2>1. /\ alive' = TRUE /\ enable' = TRUE /\ ind_sn' = NoSn /\ passed' = -1 /\ base' = 0
          /\ list' = IF alive THEN list ELSE <<>>
      BY <1>4 DEF Arrive
    <2>2. ~alive => dpc = "idle" /\ list = <<>>
      BY <1>1, <1>2 DEF TypeOK, Hands, Settled
    <2>3. list' = list
      BY <2>1, <2>2
    <2>4. dpc = "idle" => list = <<>>
      BY <1>1, <1>2, <1>4 DEF TypeOK, Settled
    <2>5. TypeOK'
      BY <1>1, <1>2, <2>1, <2>3, Sizes DEF TypeOK
    <2>6. PoolConserved'
      BY <1>1, <1>2, <2>3, Sizes DEF PoolConserved, TypeOK
    <2>7. NoStranded' /\ Hands'
      BY <1>2, <2>1, <2>3, <2>4 DEF NoStranded, Hands
    <2>8. Settled'
      BY <1>2, <2>1, <2>3, <2>4 DEF Settled, InUse
    <2> QED
      BY <2>5, <2>6, <2>7, <2>8 DEF IInv
  <1> QED
    BY <1>3, <1>4

\* An old frame, or one whose control was disabled meanwhile.
LEMMA GivenBackKeeps ==
    ASSUME IInv, Old \/ UnitDisabled
    PROVE  IInv'
  <1>1. TypeOK /\ PoolConserved /\ NoStranded /\ Hands /\ Settled
    BY DEF IInv
  <1>2. /\ rpc = "unit" /\ ~uaf /\ free' = free + 1 /\ frame' = -1 /\ rpc' = "idle"
        /\ UNCHANGED <<alive, enable, list, passed, timer, handler, work, wpc, skipped, dpc, down, uaf>>
    BY DEF Old, UnitDisabled, ctrlVars, timerVars
  <1>3. /\ ind_sn' \in 0 .. M - 1 \cup {NoSn} /\ base' \in Int
        /\ (ind_sn' = ind_sn /\ base' = base) \/ ~enable
    <2>1. CASE Old
      BY <1>1, <2>1 DEF Old, ctrlVars, TypeOK
    <2>2. CASE UnitDisabled
      <3>1. frame \in Int /\ Sn(frame) \in 0 .. M - 1
        BY <1>1, <1>2, SnStep, Sizes DEF Hands
      <3>2. (Sn(frame) + 1) % M \in 0 .. M - 1
        BY <3>1, Sizes
      <3> QED
        BY <2>2, <3>1, <3>2 DEF UnitDisabled
    <2> QED
      BY <2>1, <2>2
  <1>4. Len(list) \in Nat /\ free + Len(list) + 1 = Pool /\ free \in Nat
    BY <1>1, <1>2 DEF TypeOK, PoolConserved
  <1>5. TypeOK'
    BY <1>1, <1>2, <1>3, <1>4, Sizes DEF TypeOK
  <1>6. PoolConserved'
    BY <1>2, <1>4 DEF PoolConserved
  <1>7. NoStranded' /\ Hands'
    BY <1>1, <1>2 DEF NoStranded, Hands
  <1>8. Settled'
    <2>1. CASE dpc = "idle"
      <3>1. enable /\ UNCHANGED <<ctrlVars, dpc, uaf>>
        BY <1>1, <1>2, <1>3, <2>1 DEF Settled, ctrlVars
      <3> QED
        BY <1>1, <1>2, <3>1, SettledSame
    <2>2. CASE dpc # "idle"
      BY <1>2, <2>2 DEF Settled
    <2> QED
      BY <2>1, <2>2
  <1> QED
    BY <1>5, <1>6, <1>7, <1>8 DEF IInv

LEMMA AheadType == \A x, y \in Int : Ahead(x, y) \in Int
  <1>1. PICK m \in Nat : m = M /\ m >= 4
    BY Sizes
  <1>2. \A z \in Int : z % m \in Int
    BY <1>1
  <1>3. \A x, y \in Int : y - x \in Int
    OBVIOUS
  <1> QED
    BY <1>1, <1>2, <1>3 DEF Ahead

\* Types, and the pool, after reord_process_unit.
LEMMA UnitType ==
    ASSUME TypeOK, PoolConserved, Hands, Unit
    PROVE  TypeOK' /\ PoolConserved'
  <1>1. /\ rpc = "unit" /\ ~uaf /\ frame' = -1 /\ rpc' = "idle"
        /\ UNCHANGED <<alive, enable, dpc, down, uaf>>
    BY DEF Unit
  <1>2. /\ frame \in 0 .. MaxN /\ frame \in Nat /\ list \in Frames /\ passed \in -1 .. MaxN
        /\ base \in Int /\ ind_sn \in 0 .. M - 1 \cup {NoSn}
    BY <1>1, Sizes DEF Hands, TypeOK, Frames
  <1>3. Len(list) \in Nat /\ free + Len(list) + 1 = Pool /\ free \in Nat
    BY <1>1, <1>2, FramesAre DEF TypeOK, PoolConserved
  <1>4. PICK ind \in {need_check(ind_sn, Sn(frame))} \ {-1}, p \in {place(list, Sn(frame))} :
         LET b == IF ind_sn = NoSn THEN frame + 1 ELSE base + Ahead(ind_sn, ind) IN
         IF p <= Len(list) /\ Sn(list[p]) = Sn(frame)
         THEN /\ ind_sn' = ind /\ base' = b
              /\ free' = free + 1
              /\ UNCHANGED <<list, passed, timerVars>>
         ELSE \E q \in {InsertAt(list, p, frame)} : \E r \in {process(ind, q)} :
              /\ timer' = r.stop
              /\ skipped' = (skipped /\ ~r.stop)
              /\ Release(r.ind, q)
              /\ base' = b + Ahead(ind, r.ind)
              /\ free' = free + leaving(r.ind, q)
              /\ UNCHANGED <<handler, work, wpc>>
    BY Zenon DEF Unit
  <1>5. ind \in 0 .. M - 1
    <2>1. Sn(frame) \in 0 .. M - 1
      BY <1>2, SnType, Zenon
    <2>2. need_check(ind_sn, Sn(frame)) \in -1 .. M - 1
      BY <1>2, <2>1, NeedCheckType
    <2> QED
      BY <1>4, <2>2
  <1>6. p \in 1 .. Len(list) + 1
    BY <1>3, <1>4, PlaceType
  <1> DEFINE b == IF ind_sn = NoSn THEN frame + 1 ELSE base + Ahead(ind_sn, ind)
  <1>7. b \in Int
    <2>1. ind \in Int /\ ind_sn \in Int
      BY <1>2, <1>5, Sizes
    <2>2. Ahead(ind_sn, ind) \in Int
      BY <2>1, AheadType
    <2> QED
      BY <1>2, <2>2
  <1> HIDE DEF b
  <1>8. CASE p <= Len(list) /\ Sn(list[p]) = Sn(frame)
    <2>1. /\ ind_sn' = ind /\ base' = b /\ free' = free + 1
          /\ UNCHANGED <<list, passed, timer, handler, work, wpc, skipped>>
      BY <1>4, <1>8 DEF b, timerVars
    <2>2. free' \in 0 .. Pool
      BY <1>3, <2>1
    <2>3. TypeOK'
      BY <1>1, <1>5, <1>7, <2>1, <2>2, Sizes DEF TypeOK
    <2>4. PoolConserved'
      BY <1>1, <1>3, <2>1 DEF PoolConserved
    <2> QED
      BY <2>3, <2>4
  <1>9. CASE ~(p <= Len(list) /\ Sn(list[p]) = Sn(frame))
    <2>1. PICK q, r : /\ q = InsertAt(list, p, frame) /\ r = process(ind, q)
                      /\ timer' = r.stop /\ Release(r.ind, q)
                      /\ skipped' = (skipped /\ ~r.stop)
                      /\ base' = b + Ahead(ind, r.ind)
                      /\ free' = free + leaving(r.ind, q)
                      /\ UNCHANGED <<handler, work, wpc>>
      BY <1>4, <1>9, Zenon DEF b
    <2>2. q \in Frames /\ Len(q) = Len(list) + 1
      BY <1>2, <1>6, <2>1, InsertRange, Zenon
    <2>3. /\ list' \in Frames /\ leaving(r.ind, q) \in Nat
          /\ Len(list') + leaving(r.ind, q) = Len(q) /\ Len(list') \in Nat
          /\ passed' \in -1 .. MaxN /\ ind_sn' \in 0 .. M - 1 /\ r.stop \in BOOLEAN /\ r.ind \in Int
      BY <1>2, <1>5, <2>1, <2>2, ReleaseType
    <2>4. base' \in Int
      <3>1. Ahead(ind, r.ind) \in Int
        <4>1. ind \in Int /\ r.ind \in Int
          BY <1>5, <2>3, Sizes
        <4> QED
          BY <4>1, AheadType, Zenon
      <3> QED
        BY <1>7, <2>1, <3>1
    <2>5. free' \in 0 .. Pool /\ free' + Len(list') = Pool
      <3>1. PICK k \in Nat, l \in Nat : k = leaving(r.ind, q) /\ l = Len(list')
        BY <2>3
      <3>2. l + k = Len(list) + 1 /\ free' = free + k
        BY <2>1, <2>2, <2>3, <3>1
      <3> QED
        BY <1>3, <3>1, <3>2, SMTT(30)
    <2>6. timer' \in BOOLEAN /\ skipped' \in BOOLEAN
      BY <2>1, <2>3
    <2>7. frame' \in -1 .. MaxN
      BY <1>1, Sizes
    <2>8. TypeOK'
      BY <1>1, <2>1, <2>3, <2>4, <2>5, <2>6, <2>7 DEF TypeOK, Frames
    <2>9. PoolConserved'
      BY <1>1, <2>5 DEF PoolConserved
    <2> QED
      BY <2>8, <2>9
  <1> QED
    BY <1>8, <1>9

LEMMA UnitKeeps ==
    ASSUME IInv, Unit
    PROVE  IInv'
  <1>1. TypeOK /\ PoolConserved /\ NoStranded /\ Hands /\ Settled
    BY DEF IInv
  <1>2. /\ rpc = "unit" /\ ~uaf /\ enable /\ frame' = -1 /\ rpc' = "idle"
        /\ UNCHANGED <<alive, enable, dpc, down, uaf>>
    BY DEF Unit
  <1>3. TypeOK' /\ PoolConserved'
    BY <1>1, UnitType
  <1>4. Hands'
    BY <1>1, <1>2 DEF Hands
  <1>5. CASE dpc # "idle"
    <2>1. NoStranded' /\ Settled'
      BY <1>2, <1>5 DEF NoStranded, Settled
    <2> QED
      BY <1>3, <1>4, <2>1 DEF IInv
  <1>6. CASE dpc = "idle"
    <2>1. InUse /\ alive
      BY <1>1, <1>2, <1>6 DEF Settled, TypeOK
    <2>2. need_check(ind_sn, Sn(frame)) # -1
      BY Zenon DEF Unit
    <2>3. Fresh
      BY <1>1, <1>2, <2>1, <2>2 DEF Fresh, TypeOK, Hands, Frames
    <2>4. CASE UNCHANGED <<ind_sn, base, list, passed, timerVars>>
      <3>1. UNCHANGED <<ctrlVars, dpc, uaf>>
        BY <1>2, <2>4 DEF ctrlVars
      <3>2. Settled'
        BY <1>1, <1>2, <3>1, SettledSame
      <3>3. NoStranded'
        BY <1>1, <1>2, <2>4 DEF NoStranded, timerVars
      <3> QED
        BY <1>3, <1>4, <3>2, <3>3 DEF IInv
    <2>5. CASE timer' = (list' # <<>>) /\ \E e \in Nat : Ran(Starts, Taken, e)
      <3>1. PICK e \in Nat : Ran(Starts, Taken, e)
        BY <2>5
      <3>2. /\ Starts \in Nat /\ Taken \in SUBSET Nat /\ passed < Starts /\ passed \in Int
            /\ \A m \in Taken : m < Starts + W
        BY <1>1, <2>3, FreshNear DEF TypeOK
      <3>3. /\ base' \in Nat /\ ind_sn' = Sn(base') /\ ind_sn' # NoSn /\ passed' < base'
            /\ \A i \in 1 .. Len(list') : list'[i] \in Taken /\ base' < list'[i] /\ list'[i] < base' + W
            /\ Sorted(list')
        BY <3>1, <3>2, RanWindow
      <3>4. Sorted(list)'
        BY <3>3 DEF Sorted
      <3>5. Window'
        BY <1>2, <3>3, <3>4, Zenon DEF Window, Sn, M
      <3>6. InUse'
        BY <3>3, <3>5 DEF InUse
      <3>7. Settled'
        BY <1>2, <2>1, <3>6 DEF Settled
      <3>8. NoStranded'
        BY <2>5 DEF NoStranded
      <3> QED
        BY <1>3, <1>4, <3>7, <3>8 DEF IInv
    <2> QED
      BY <2>3, <2>4, <2>5, UnitRuns
  <1> QED
    BY <1>5, <1>6

LEMMA WorkerType ==
    ASSUME TypeOK, PoolConserved, Worker, list # <<>>
    PROVE  TypeOK' /\ PoolConserved'
  <1>1. /\ wpc' = "idle" /\ ~uaf
        /\ UNCHANGED <<alive, enable, handler, work, rpc, frame, dpc, down, uaf>>
    BY DEF Worker
  <1>2. PICK r \in {process(Sn(Head(list)), list)} :
                /\ timer' = IF r.stop THEN TRUE ELSE timer
                /\ skipped' = (skipped /\ ~r.stop)
                /\ Release(r.ind, list)
                /\ base' = Head(list) + Ahead(Sn(Head(list)), r.ind)
                /\ free' = free + leaving(r.ind, list)
    BY Zenon DEF Worker
  <1>3. list \in Frames /\ Len(list) \in Nat /\ passed \in -1 .. MaxN /\ Head(list) \in Nat
    <2>1. list \in Seq(Nat) /\ list \in Frames /\ Len(list) \in Nat
      BY FramesAre DEF TypeOK, Frames
    <2> QED
      BY <2>1, HeadTailProperties DEF TypeOK
  <1>4. Sn(Head(list)) \in 0 .. M - 1 /\ Sn(Head(list)) \in Int
    BY <1>3, SnType, Sizes, SMTT(30)
  <1>5. /\ list' \in Frames /\ leaving(r.ind, list) \in Nat
        /\ Len(list') + leaving(r.ind, list) = Len(list) /\ Len(list') \in Nat
        /\ passed' \in -1 .. MaxN /\ ind_sn' \in 0 .. M - 1 /\ r.stop \in BOOLEAN /\ r.ind \in Int
    BY <1>2, <1>3, <1>4, ReleaseType
  <1>6. base' \in Int
    <2>1. Ahead(Sn(Head(list)), r.ind) \in Int
      BY <1>4, <1>5, AheadType, Zenon
    <2> QED
      BY <1>2, <1>3, <2>1
  <1>7. /\ free' \in 0 .. Pool
        /\ free' + Len(list') + (IF rpc = "unit" THEN 1 ELSE 0) = Pool
    <2>1. PICK k \in Nat, l \in Nat, x \in Nat : /\ k = leaving(r.ind, list) /\ l = Len(list')
                                                 /\ x = IF rpc = "unit" THEN 1 ELSE 0
      BY <1>5
    <2>2. l + k = Len(list) /\ free' = free + k
      BY <1>2, <1>5, <2>1
    <2>3. free + Len(list) + x = Pool /\ free \in Nat
      BY <1>1, <2>1 DEF PoolConserved, TypeOK
    <2> QED
      <3>1. PICK n \in Nat : n = Len(list)
        BY <1>3
      <3>2. l + k = n /\ free + n + x = Pool /\ free \in Nat
        BY <2>2, <2>3, <3>1
      <3>3. free' \in Nat /\ free' + l + x = Pool
        <4>1. PICK y \in Nat : y = free
          BY <3>2
        <4>2. free' = y + k /\ y + n + x = Pool /\ l + k = n
          BY <2>2, <3>2, <4>1
        <4>3. (y + k) \in Nat /\ (y + k) + l + x = Pool
          BY <4>2
        <4> QED
          BY <4>2, <4>3
      <3>4. (IF rpc = "unit" THEN 1 ELSE 0) = x
        BY <2>1
      <3>5. free' <= Pool
        BY <2>1, <3>3, Sizes
      <3> QED
        BY <2>1, <3>3, <3>4, <3>5, Sizes
  <1>8. timer' \in BOOLEAN /\ skipped' \in BOOLEAN
    BY <1>2, <1>5 DEF TypeOK
  <1>9. TypeOK'
    BY <1>1, <1>5, <1>6, <1>7, <1>8 DEF TypeOK, Frames
  <1>10. PoolConserved'
    BY <1>1, <1>7 DEF PoolConserved
  <1> QED
    BY <1>9, <1>10

LEMMA Between ==
    ASSUME NEW x \in Nat, NEW y \in Nat, NEW f \in Nat, NEW w \in Nat, NEW v \in Nat,
           f < y + w + v, y < x, x - 1 < f + w + v
    PROVE  f < x + w + v /\ x <= f + w + v
  OBVIOUS

\* The window after the worker ran.
LEMMA WorkerWindow ==
    ASSUME TypeOK, Hands, Window, list # <<>>, Worker
    PROVE  InUse'
  <1>1. list \in Frames /\ passed \in Int /\ timer \in BOOLEAN /\ (rpc = "unit" => frame \in Nat)
    BY Sizes DEF TypeOK, Hands, Frames
  <1>2. /\ Head(list) \in Range(list) /\ \A m \in Range(list) : Head(list) <= m
        /\ \E e \in Nat : Ran(Head(list), Range(list), e)
    BY <1>1, WorkerRuns
  <1>3. PICK e \in Nat : Ran(Head(list), Range(list), e)
    BY <1>2
  <1>4. \A i \in 1 .. Len(list) : list[i] \in Nat /\ base < list[i] /\ list[i] < base + W
    BY <1>1, FramesAre DEF Window
  <1>5. \A m \in Range(list) : m \in Nat /\ base < m /\ m < base + W
    BY <1>1, <1>4, FramesAre
  <1>6. base \in Nat /\ passed < base
    BY DEF Window
  <1>7. Head(list) \in Nat /\ Range(list) \in SUBSET Nat /\ passed < Head(list)
    BY <1>1, <1>2, <1>5, <1>6
  <1>8. \A m \in Range(list) : m < Head(list) + W
    BY <1>2, <1>5, <1>6, <1>7, Sizes
  <1>9. /\ base' \in Nat /\ ind_sn' = Sn(base') /\ ind_sn' # NoSn /\ passed' < base'
        /\ \A i \in 1 .. Len(list') : list'[i] \in Range(list) /\ base' < list'[i] /\ list'[i] < base' + W
        /\ Sorted(list')
    BY <1>1, <1>3, <1>7, <1>8, RanWindow
  <1>10. rpc' = rpc /\ frame' = frame
    BY DEF Worker
  <1>11. ASSUME rpc = "unit"
         PROVE  /\ frame < base' + W + Reach /\ base' <= frame + W + Reach
                /\ \A i \in 1 .. Len(list') : list'[i] < frame + W + Reach
    <2>1. /\ frame \in Nat /\ frame < base + W + Reach
          /\ \A i \in 1 .. Len(list) : list[i] < frame + W + Reach
      BY <1>1, <1>11 DEF Window
    <2>2. \A m \in Range(list) : m < frame + W + Reach
      BY <1>1, <2>1, FramesAre
    <2>3. base' >= Head(list) /\ base' # Head(list) /\ Head(list) .. base' - 1 \subseteq Range(list)
      BY <1>2, <1>3 DEF Ran
    <2>4. base' - 1 \in Range(list)
      BY <1>7, <1>9, <2>3
    <2>5. base < base' /\ base' - 1 < frame + W + Reach
      BY <1>5, <1>6, <1>9, <2>2, <2>4
    <2> QED
      <3>1. base' \in Nat /\ base \in Nat /\ frame \in Nat /\ W \in Nat /\ Reach \in Nat
        BY <1>6, <1>9, <2>1, Sizes
      <3>2. frame < base' + W + Reach /\ base' <= frame + W + Reach
        BY <2>1, <2>5, <3>1, Between, Zenon
      <3>3. \A i \in 1 .. Len(list') : list'[i] < frame + W + Reach
        BY <1>9, <2>2, Zenon
      <3> QED
        BY <3>2, <3>3
  <1>12. Sorted(list)'
    BY <1>9 DEF Sorted
  <1>13. Window'
    BY <1>9, <1>10, <1>11, <1>12, Zenon DEF Window, Sn, M
  <1> QED
    BY <1>9, <1>13 DEF InUse

LEMMA WorkerKeeps ==
    ASSUME IInv, Worker
    PROVE  IInv'
  <1>1. TypeOK /\ PoolConserved /\ NoStranded /\ Hands /\ Settled
    BY DEF IInv
  <1>2. /\ wpc' = "idle" /\ ~uaf
        /\ UNCHANGED <<alive, enable, handler, work, rpc, frame, dpc, down, uaf>>
    BY DEF Worker, ctrlVars
  <1>3. Hands'
    BY <1>1, <1>2 DEF Hands
  <1>4. CASE list = <<>>
    <2>1. UNCHANGED <<alive, enable, ind_sn, list, base, passed, timer, skipped, free>>
      BY <1>4 DEF Worker, ctrlVars
    <2>2. TypeOK'
      BY <1>1, <1>2, <2>1 DEF TypeOK
    <2>3. PoolConserved' /\ NoStranded'
      BY <1>1, <1>2, <1>4, <2>1 DEF PoolConserved, NoStranded
    <2>4. Settled'
      BY <1>1, <1>2, <2>1, SettledSame DEF ctrlVars
    <2> QED
      BY <1>3, <2>2, <2>3, <2>4 DEF IInv
  <1>5. CASE list # <<>>
    <2>1. TypeOK' /\ PoolConserved'
      BY <1>1, <1>5, WorkerType
    <2>2. ASSUME dpc = "idle" PROVE enable /\ Window
      BY <1>1, <1>2, <1>5, <2>2 DEF Settled, InUse
    <2>3. Settled'
      <3>1. dpc = "idle" => InUse'
        BY <1>1, <1>5, <2>2, WorkerWindow
      <3> QED
        BY <1>1, <1>2, <2>2, <3>1 DEF Settled
    <2>4. NoStranded'
      <3>1. list \in Frames /\ timer \in BOOLEAN
        BY <1>1 DEF TypeOK, Frames
      <3>2. dpc = "idle" /\ list' # <<>> => timer'
        <4>1. ASSUME dpc = "idle" PROVE list' # <<>> => timer'
          <5>1. Window
            BY <2>2, <4>1
          <5> QED
            BY <1>5, <3>1, <5>1, WorkerRuns
        <4> QED
          BY <4>1
      <3> QED
        BY <1>2, <3>2 DEF NoStranded
    <2> QED
      BY <1>3, <2>1, <2>3, <2>4 DEF IInv
  <1> QED
    BY <1>4, <1>5

\* reord_flush_tid, up to the cancellation.
LEMMA FlushTidKeeps ==
    ASSUME IInv, FlushTid
    PROVE  IInv'
  <1>1. TypeOK /\ PoolConserved /\ NoStranded /\ Hands /\ Settled
    BY DEF IInv
  <1>2. /\ rpc = "idle" /\ ~uaf /\ alive /\ enable
        /\ free' = free + Len(list) /\ list' = <<>> /\ enable' = FALSE /\ rpc' = "cancel"
        /\ passed' = (IF list = <<>> THEN passed ELSE Last(list))
        /\ UNCHANGED <<alive, ind_sn, base, timer, handler, work, wpc, skipped, frame, dpc, down, uaf>>
    BY DEF FlushTid, timerVars
  <1>3. list \in Seq(0 .. MaxN) /\ Len(list) \in Nat /\ free + Len(list) = Pool
    <2>1. list \in Seq(0 .. MaxN)
      BY <1>1 DEF TypeOK
    <2>2. Len(list) \in Nat
      BY <2>1, FramesAre DEF Frames
    <2> QED
      BY <1>1, <1>2, <2>1, <2>2 DEF PoolConserved, TypeOK
  <1>4. passed' \in -1 .. MaxN
    <2>1. list # <<>> => Len(list) \in 1 .. Len(list)
      BY <1>3, EmptySeq
    <2>2. list # <<>> => list[Len(list)] \in 0 .. MaxN
      BY <1>3, <2>1, FramesAre DEF Frames
    <2> QED
      BY <1>1, <1>2, <2>2, Sizes DEF Last, TypeOK
  <1>5. free' = Pool /\ Len(list') = 0 /\ list' \in Seq(0 .. MaxN)
    BY <1>2, <1>3
  <1>6. free' \in 0 .. Pool
    BY <1>5, Sizes
  <1>7. TypeOK'
    BY <1>1, <1>2, <1>4, <1>5, <1>6 DEF TypeOK
  <1>8. PoolConserved' /\ NoStranded' /\ Hands'
    BY <1>1, <1>2, <1>5, Sizes DEF PoolConserved, NoStranded, Hands
  <1>9. Settled'
    BY <1>2 DEF Settled
  <1> QED
    BY <1>7, <1>8, <1>9 DEF IInv

LEMMA FlushCancelKeeps ==
    ASSUME IInv, FlushCancel
    PROVE  IInv'
  <1>1. TypeOK /\ PoolConserved /\ NoStranded /\ Hands /\ Settled
    BY DEF IInv
  <1>2. /\ rpc = "cancel" /\ ~uaf /\ timer' = FALSE /\ work' = FALSE /\ rpc' = "idle"
        /\ UNCHANGED <<alive, enable, ind_sn, list, base, passed,
                       handler, wpc, skipped, free, frame, dpc, down, uaf>>
    BY DEF FlushCancel, ctrlVars
  <1>3. dpc = "idle" => ~enable
    BY <1>1, <1>2 DEF Settled
  <1>4. TypeOK' /\ PoolConserved' /\ Hands'
    BY <1>1, <1>2 DEF TypeOK, PoolConserved, Hands
  <1>5. NoStranded'
    BY <1>2, <1>3 DEF NoStranded
  <1>6. Settled'
    BY <1>1, <1>2, SettledSame DEF ctrlVars
  <1> QED
    BY <1>4, <1>5, <1>6 DEF IInv

LEMMA TimerKeeps ==
    ASSUME IInv, TimerFires \/ Handler \/ WorkStarts \/ DeviceState
    PROVE  IInv'
  <1>1. TypeOK /\ PoolConserved /\ NoStranded /\ Hands /\ Settled
    BY DEF IInv
  <1>2. UNCHANGED <<alive, enable, ind_sn, list, base, passed, free, rpc, frame, dpc, uaf>>
    BY DEF TimerFires, Handler, WorkStarts, DeviceState, ctrlVars
  <1>3. PoolConserved' /\ Hands'
    BY <1>1, <1>2 DEF PoolConserved, Hands
  <1>4. Settled'
    BY <1>1, <1>2, SettledSame DEF ctrlVars
  <1>5. TypeOK' /\ NoStranded'
    <2>1. CASE TimerFires
      BY <1>1, <1>2, <2>1, ZenonT(40) DEF TimerFires, TypeOK, NoStranded
    <2>2. CASE Handler
      BY <1>1, <1>2, <2>2, ZenonT(40) DEF Handler, TypeOK, NoStranded
    <2>3. CASE WorkStarts
      BY <1>1, <1>2, <2>3, ZenonT(40) DEF WorkStarts, TypeOK, NoStranded
    <2>4. CASE DeviceState
      BY <1>1, <1>2, <2>4 DEF DeviceState, TypeOK, NoStranded, timerVars
    <2> QED
      BY <2>1, <2>2, <2>3, <2>4
  <1> QED
    BY <1>3, <1>4, <1>5 DEF IInv

\* reord_deinit_sta and the free of the control.
LEMMA DeinitKeeps ==
    ASSUME IInv, Deinit \/ DeinitStep
    PROVE  IInv'
  <1>1. TypeOK /\ PoolConserved /\ NoStranded /\ Hands /\ Settled
    BY DEF IInv
  <1>2. CASE Deinit
    <2>1. /\ alive /\ ~uaf /\ dpc' \in {"cancel", "drop"}
          /\ enable' \in BOOLEAN /\ timer' \in BOOLEAN
          /\ UNCHANGED <<alive, ind_sn, list, base, passed, handler, work, wpc, skipped, free,
                         rpc, frame, down, uaf>>
      BY <1>1, <1>2 DEF Deinit, TypeOK
    <2>2. TypeOK'
      BY <1>1, <2>1 DEF TypeOK
    <2>3. PoolConserved' /\ NoStranded' /\ Hands' /\ Settled'
      BY <1>1, <2>1 DEF PoolConserved, NoStranded, Hands, Settled
    <2> QED
      BY <2>2, <2>3 DEF IInv
  <1>3. CASE DeinitCancel
    <2>1. /\ ~uaf /\ dpc = "cancel" /\ dpc' = "drop" /\ work' = FALSE
          /\ UNCHANGED <<alive, enable, ind_sn, list, base, passed, timer, handler, wpc, skipped,
                         free, rpc, frame, down, uaf>>
      BY <1>3 DEF DeinitCancel, ctrlVars
    <2>2. TypeOK'
      BY <1>1, <2>1 DEF TypeOK
    <2>3. PoolConserved' /\ NoStranded' /\ Hands' /\ Settled'
      BY <1>1, <2>1 DEF PoolConserved, NoStranded, Hands, Settled
    <2> QED
      BY <2>2, <2>3 DEF IInv
  <1>4. CASE DeinitDrop
    <2>1. /\ ~uaf /\ dpc = "drop" /\ dpc' = "free" /\ list' = <<>> /\ free' = free + Len(list)
          /\ UNCHANGED <<alive, enable, ind_sn, base, passed, timer, handler, work, wpc, skipped,
                         rpc, frame, down, uaf>>
      BY <1>4 DEF DeinitDrop, timerVars
    <2>2. PICK x \in Nat : x = IF rpc = "unit" THEN 1 ELSE 0
      OBVIOUS
    <2>3. Len(list) \in Nat /\ free \in Nat /\ free + Len(list) + x = Pool
      BY <1>1, <2>1, <2>2, FramesAre DEF TypeOK, Frames, PoolConserved
    <2>4. free' \in 0 .. Pool /\ free' + x = Pool
      BY <2>1, <2>2, <2>3, Sizes
    <2>5. list' \in Seq(0 .. MaxN) /\ Len(list') = 0
      BY <2>1
    <2>6. TypeOK'
      BY <1>1, <2>1, <2>4, <2>5 DEF TypeOK
    <2>7. PoolConserved'
      <3>1. free' + Len(list') + (IF rpc' = "unit" THEN 1 ELSE 0) = Pool
        BY <2>1, <2>2, <2>4, <2>5, Sizes
      <3> QED
        BY <3>1 DEF PoolConserved
    <2>8. NoStranded' /\ Hands' /\ Settled'
      BY <1>1, <2>1 DEF NoStranded, Hands, Settled
    <2> QED
      BY <2>6, <2>7, <2>8 DEF IInv
  <1>5. CASE DeinitFree
    <2>1. /\ ~uaf /\ dpc' = "idle" /\ alive' = FALSE /\ enable' = FALSE
          /\ uaf' = (timer \/ handler \/ work \/ wpc # "idle" \/ rpc # "idle" \/ list # <<>>)
          /\ UNCHANGED <<ind_sn, list, base, passed, timer, handler, work, wpc, skipped, free,
                         rpc, frame, down>>
      BY <1>5 DEF DeinitFree, timerVars
    <2>2. TypeOK'
      BY <1>1, <2>1 DEF TypeOK
    <2>3. PoolConserved'
      BY <1>1, <2>1 DEF PoolConserved
    <2>4. NoStranded' /\ Hands' /\ Settled'
      BY <1>1, <2>1 DEF NoStranded, Hands, Settled
    <2> QED
      BY <2>2, <2>3, <2>4 DEF IInv
  <1> QED
    BY <1>2, <1>3, <1>4, <1>5 DEF DeinitStep

LEMMA NextIInv == IInv /\ [Next]_vars => IInv'
  <1> SUFFICES ASSUME IInv, [Next]_vars PROVE IInv'
    OBVIOUS
  <1>1. CASE \E n \in 0 .. MaxN : Arrive(n)
    BY <1>1, ArriveKeeps
  <1>2. CASE ReceiveStep
    BY <1>2, GivenBackKeeps, UnitKeeps, FlushCancelKeeps DEF ReceiveStep
  <1>3. CASE FlushTid
    BY <1>3, FlushTidKeeps
  <1>4. CASE TimerFires \/ Handler \/ WorkStarts \/ DeviceState
    BY <1>4, TimerKeeps
  <1>5. CASE Worker
    BY <1>5, WorkerKeeps
  <1>6. CASE Deinit \/ DeinitStep
    BY <1>6, DeinitKeeps
  <1>7. CASE UNCHANGED vars
    BY <1>7 DEF vars, ctrlVars, timerVars, IInv, TypeOK, PoolConserved, NoStranded, Hands, Settled,
                InUse, Window, Sorted
  <1> QED
    BY <1>1, <1>2, <1>3, <1>4, <1>5, <1>6, <1>7 DEF Next

\* The frames of the control, whatever the receive thread, the timer, its worker and
\* reord_deinit_sta do and in whatever order: every one of the MAX_REORD_RXFRAME frames
\* is accounted for, and a frame that is held has somebody who will release it.
THEOREM HeldTheorem == Spec => []HeldSound
  <1>1. Init => IInv
    BY InitIInv
  <1>2. IInv /\ [Next]_vars => IInv'
    BY NextIInv
  <1>3. IInv => HeldSound
    BY DEF IInv, HeldSound
  <1> QED
    BY <1>1, <1>2, <1>3, PTL DEF Spec

-----------------------------------------------------------------------------
(* Refinement                                                              *)

\* No station leaves.
Stays == dpc = "idle" /\ ~uaf

LEMMA StaysAlways ==
    ASSUME ~MayDeinit
    PROVE  Spec => []Stays
  <1>1. Init => Stays
    BY DEF Init, Stays
  <1>2. ASSUME Stays, [Next]_vars PROVE Stays'
    <2>1. CASE \E n \in 0 .. MaxN : Arrive(n)
      BY <1>2, <2>1 DEF Arrive, Stays
    <2>2. CASE ReceiveStep \/ FlushTid
      BY <1>2, <2>2 DEF ReceiveStep, Old, Unit, UnitDisabled, FlushCancel, FlushTid, Stays
    <2>3. CASE TimerFires \/ Handler \/ WorkStarts \/ Worker \/ DeviceState
      <3>1. dpc' = dpc /\ uaf' = uaf
        BY <2>3, Zenon DEF TimerFires, Handler, WorkStarts, Worker, DeviceState
      <3> QED
        BY <1>2, <3>1 DEF Stays
    <2>4. CASE Deinit \/ DeinitStep
      BY <1>2, <2>4 DEF Deinit, DeinitStep, DeinitCancel, DeinitDrop, DeinitFree, Stays
    <2>5. CASE UNCHANGED vars
      BY <1>2, <2>5 DEF vars, Stays
    <2> QED
      BY <1>2, <2>1, <2>2, <2>3, <2>4, <2>5 DEF Next
  <1> QED
    BY <1>1, <1>2, PTL DEF Spec

\* The mapped variables.
DueNext == IF enable /\ ind_sn # NoSn THEN base ELSE -1

Mapped == <<DueNext, Range(list), passed>>

\* A step that leaves the control alone is not seen by ReorderWindow.
LEMMA SameMapped ==
    ASSUME UNCHANGED <<enable, ind_sn, base, list, passed>>
    PROVE  UNCHANGED Mapped
  BY DEF Mapped, DueNext, Range

LEMMA UnitRefines ==
    ASSUME IInv, Stays, Unit
    PROVE  Buffer!Next \/ UNCHANGED Mapped
  <1>1. TypeOK /\ Hands /\ Settled
    BY DEF IInv
  <1>2. rpc = "unit" /\ enable /\ enable' = enable /\ enable'
    BY DEF Unit
  <1>3. InUse
    BY <1>1, <1>2 DEF Settled, Stays
  <1>4. need_check(ind_sn, Sn(frame)) # -1
    BY Zenon DEF Unit
  <1>5. Fresh
    BY <1>1, <1>2, <1>3, <1>4 DEF Fresh, TypeOK, Hands, Frames
  <1>6. CASE UNCHANGED <<ind_sn, base, list, passed, timerVars>>
    BY <1>2, <1>6, SameMapped
  <1>7. CASE /\ frame \notin Range(list) /\ timer' = (list' # <<>>)
             /\ \E e \in Nat : Ran(Starts, Taken, e)
    <2>1. PICK e \in Nat : Ran(Starts, Taken, e)
      BY <1>7
    <2>2. frame \in 0 .. MaxN /\ frame \in Nat /\ list \in Frames
      BY <1>5, Sizes DEF Fresh
    <2>3. Taken \in SUBSET (0 .. MaxN)
      BY <2>2, FramesAre DEF Taken
    <2>4. Starts \in Nat
      BY <1>5, FreshNear
    <2>5. Buffer!RunFrom(Starts, Taken)
      BY <1>2, <2>1, <2>3, <2>4, RanRefines
    <2>6. frame >= DueNext /\ (DueNext = -1 => passed = -1)
          /\ Starts = IF DueNext = -1 THEN frame ELSE IF frame > DueNext + W - 1 THEN frame - W + 1 ELSE DueNext
      <3>1. CASE ind_sn = NoSn
        <4>1. DueNext = -1 /\ passed = -1 /\ Starts = frame
          BY <1>5, <3>1, FreshIs DEF DueNext, Starts
        <4> QED
          BY <2>2, <4>1
      <3>2. CASE ind_sn # NoSn
        <4>1. DueNext = base /\ base \in Nat /\ base <= frame
          BY <1>2, <1>5, <3>2, FreshIs DEF DueNext
        <4>2. Starts = IF frame > base + W - 1 THEN frame - W + 1 ELSE base
          BY <3>2 DEF Starts
        <4> QED
          BY <2>2, <4>1, <4>2
      <3> QED
        BY <3>1, <3>2
    <2>7. Buffer!Accept(frame)
      BY <1>7, <2>5, <2>6, Zenon DEF Buffer!Accept, DueNext, Taken
    <2> QED
      BY <2>2, <2>7 DEF Buffer!Next
  <1> QED
    BY <1>5, <1>6, <1>7, UnitRuns

LEMMA WorkerRefines ==
    ASSUME IInv, Stays, Worker
    PROVE  Buffer!Next \/ UNCHANGED Mapped
  <1>1. TypeOK /\ Settled
    BY DEF IInv
  <1>2. CASE list = <<>>
    <2>1. UNCHANGED <<enable, ind_sn, base, list, passed>>
      BY <1>2 DEF Worker, ctrlVars
    <2> QED
      BY <2>1, SameMapped
  <1>3. CASE list # <<>>
    <2>1. enable /\ Window /\ enable'
      <3>1. enable /\ Window
        BY <1>1, <1>3 DEF Settled, InUse, Stays
      <3>2. enable' = enable
        BY <1>3, Zenon DEF Worker
      <3> QED
        BY <3>1, <3>2
    <2>2. list \in Frames /\ timer \in BOOLEAN /\ Range(list) \in SUBSET (0 .. MaxN)
      BY <1>1, FramesAre DEF TypeOK, Frames
    <2>3. /\ Head(list) \in Range(list) /\ \A m \in Range(list) : Head(list) <= m
          /\ \E e \in Nat : Ran(Head(list), Range(list), e)
      BY <1>3, <2>1, <2>2, WorkerRuns
    <2>4. PICK e \in Nat : Ran(Head(list), Range(list), e)
      BY <2>3
    <2>5. Head(list) \in Nat
      BY <2>2, <2>3
    <2>6. Buffer!RunFrom(Head(list), Range(list))
      BY <2>1, <2>2, <2>4, <2>5, RanRefines
    <2>7. Buffer!GiveUp
      BY <2>3, <2>6, Zenon DEF Buffer!GiveUp
    <2> QED
      BY <2>7 DEF Buffer!Next
  <1> QED
    BY <1>2, <1>3

\* The end of a session, or the first frame of one.
LEMMA EndRefines ==
    ASSUME IInv, Stays, FlushTid \/ \E n \in 0 .. MaxN : Arrive(n)
    PROVE  Buffer!Next \/ UNCHANGED Mapped
  <1>1. TypeOK /\ Settled
    BY DEF IInv
  <1>2. Range(<<>>) = {}
    BY DEF Range
  <1>3. CASE FlushTid
    <2>1. list' = <<>> /\ enable' = FALSE /\ passed' = (IF list = <<>> THEN passed ELSE Last(list))
      BY <1>3 DEF FlushTid
    <2>2. list # <<>> => Last(list) \in Range(list)
      <3>1. list \in Frames /\ list \in Seq(0 .. MaxN) /\ Len(list) \in Nat
        BY <1>1, FramesAre DEF TypeOK, Frames
      <3>2. list # <<>> => Len(list) \in 1 .. Len(list)
        BY <3>1, EmptySeq
      <3> QED
        BY <3>1, <3>2, InRange DEF Last
    <2>3. Range(list)' = {}
      BY <1>2, <2>1, Zenon
    <2>4. (IF enable /\ ind_sn # NoSn THEN base ELSE -1)' = -1
      BY <2>1
    <2>5. passed' \in {passed, -1} \cup Range(list)
      BY <2>1, <2>2
    <2>6. Buffer!End
      BY <2>3, <2>4, <2>5, Zenon DEF Buffer!End
    <2> QED
      BY <2>6 DEF Buffer!Next
  <1>4. CASE \E n \in 0 .. MaxN : Arrive(n)
    <2>1. PICK n \in 0 .. MaxN : Arrive(n)
      BY <1>4
    <2>2. CASE alive /\ enable
      <3>1. UNCHANGED <<enable, ind_sn, base, list, passed>>
        BY <2>1, <2>2 DEF Arrive, ctrlVars
      <3> QED
        BY <3>1, SameMapped
    <2>3. CASE ~(alive /\ enable)
      <3>1. list = <<>>
        BY <1>1, <2>3 DEF Settled, Stays, TypeOK
      <3>2. list' = <<>> /\ ind_sn' = NoSn /\ passed' = -1
        BY <2>1, <2>3, <3>1 DEF Arrive
      <3>3. Range(list)' = {}
        BY <1>2, <3>2, Zenon
      <3>4. (IF enable /\ ind_sn # NoSn THEN base ELSE -1)' = -1
        BY <3>2
      <3>5. passed' \in {passed, -1} \cup Range(list)
        BY <3>2
      <3>6. Buffer!End
        BY <3>3, <3>4, <3>5, Zenon DEF Buffer!End
      <3> QED
        BY <3>6 DEF Buffer!Next
    <2> QED
      BY <2>2, <2>3
  <1> QED
    BY <1>3, <1>4

LEMMA NextRefines ==
    ASSUME ~MayDeinit, IInv, Stays, [Next]_vars
    PROVE  Buffer!Next \/ UNCHANGED Mapped
  <1>1. CASE FlushTid \/ \E n \in 0 .. MaxN : Arrive(n)
    BY <1>1, EndRefines
  <1>2. CASE Unit
    BY <1>2, UnitRefines
  <1>3. CASE Worker
    BY <1>3, WorkerRefines
  <1>4. CASE Old \/ FlushCancel \/ TimerFires \/ Handler \/ WorkStarts \/ DeviceState \/ UNCHANGED vars
    <2>1. UNCHANGED <<enable, ind_sn, base, list, passed>>
      BY <1>4 DEF Old, FlushCancel, TimerFires, Handler, WorkStarts, DeviceState, vars, ctrlVars
    <2> QED
      BY <2>1, SameMapped
  <1>5. CASE UnitDisabled
    BY <1>5 DEF UnitDisabled, IInv, Settled, Stays
  <1>6. CASE Deinit \/ DeinitStep
    BY <1>6 DEF Deinit, DeinitStep, DeinitCancel, DeinitDrop, DeinitFree, Stays
  <1> QED
    BY <1>1, <1>2, <1>3, <1>4, <1>5, <1>6 DEF Next, ReceiveStep

\* While the station stays, the buffer implements ReorderWindow, through wraps of the
\* sequence number, repeated and late frames, jumps of the window, timeouts and ends of
\* the block-ack session (reord_process_unit, reord_timeout_worker, reord_flush_tid).
THEOREM PromiseTheorem == ~MayDeinit => (Spec => Promise)
  <1> SUFFICES ASSUME ~MayDeinit PROVE Spec => Promise
    OBVIOUS
  <1>1. Init => Buffer!Init
    BY DEF Init, Buffer!Init, Range
  <1>2. IInv /\ Stays /\ [Next]_vars => [Buffer!Next]_(Buffer!wvars)
    BY NextRefines DEF Buffer!wvars, Mapped, DueNext
  <1>3. Init => IInv
    BY InitIInv
  <1>4. IInv /\ [Next]_vars => IInv'
    BY NextIInv
  <1>5. Spec => []Stays
    BY StaysAlways
  <1> QED
    BY <1>1, <1>2, <1>3, <1>4, <1>5, PTL DEF Spec, Promise, Buffer!Spec

\* What ReorderWindowProofs proves of the promise, in the variables of the buffer.
Proved == INSTANCE ReorderWindowProofs WITH
    next <- DueNext, held <- Range(list)

\* While the station stays, the frames that leave the buffer go up in the order in
\* which the transmitter numbered them, until a session starts over
\* (reord_rxframes_ind, reord_flush_tid).
THEOREM OrderTheorem == ~MayDeinit => (Spec => Proved!Ordered)
  <1>1. Proved!Sizes
    BY WindowAssumption, HalfAssumption, PoolAssumption DEF Proved!Sizes
  <1>2. Proved!Spec => Proved!Ordered
    BY <1>1, Proved!OrderedTheorem
  <1>3. Buffer!Init => Proved!Init
    BY DEF Buffer!Init, Proved!Init, DueNext
  <1>4. [Buffer!Next]_(Buffer!wvars) => [Proved!Next]_(Proved!wvars)
    BY Zenon DEF DueNext, Buffer!Next, Buffer!wvars, Buffer!Accept, Buffer!GiveUp, Buffer!End,
                 Buffer!RunFrom, Buffer!Cardinality, Proved!Next, Proved!wvars, Proved!Accept,
                 Proved!GiveUp, Proved!End, Proved!RunFrom, Proved!Cardinality
  <1> QED
    BY PromiseTheorem, <1>1, <1>2, <1>3, <1>4, PTL DEF Promise, Buffer!Spec, Proved!Spec
=============================================================================
