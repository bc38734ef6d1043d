------------------------- MODULE ReorderWindowProofs -------------------------
(***************************************************************************)
(* Proofs about ReorderWindow, for any window and any number of frames.    *)
(***************************************************************************)
EXTENDS ReorderWindow, TLAPS

\* While a session runs the held frames lie in the window and everything passed
\* up in turn lies before it.
IInv ==
    /\ next \in Int /\ next >= -1 /\ passed \in Int /\ held \subseteq Nat
    /\ next = -1 => held = {}
    /\ next # -1 => passed < next /\ \A m \in held : next < m /\ m < next + W

\* A run from b keeps the invariant and passes up only newer frames.
LEMMA RunKeeps ==
    ASSUME Sizes, passed \in Int, NEW b \in Nat, NEW H \in SUBSET Nat,
           \A m \in H : m < b + W /\ passed < m, passed < b, RunFrom(b, H)
    PROVE  IInv' /\ (passed' # passed => passed' > passed)
  <1>1. PICK e \in Int :
          /\ e >= b /\ next' = e /\ held' = {m \in H : m > e}
          /\ passed' # passed => \E t \in H : t < e /\ passed' = t
    BY DEF RunFrom
  <1>2. next' \in Int /\ next' >= 0
    BY <1>1
  <1>3. held' \subseteq Nat /\ \A m \in held' : next' < m /\ m < next' + W
    <2>1. ASSUME NEW m \in held' PROVE m \in Nat /\ next' < m /\ m < next' + W
      <3>1. m \in H /\ m > e /\ next' = e /\ e >= b
        BY <1>1
      <3>2. m \in Nat /\ m < b + W /\ W \in Nat
        BY <3>1 DEF Sizes
      <3> QED
        BY <3>1, <3>2
    <2> QED
      BY <2>1
  <1>4. passed' \in Int /\ passed' < next' /\ (passed' # passed => passed' > passed)
    BY <1>1
  <1> QED
    BY <1>2, <1>3, <1>4 DEF IInv

\* An accepted frame.
LEMMA AcceptKeeps ==
    ASSUME Sizes, IInv, NEW n \in 0 .. MaxN, Accept(n)
    PROVE  IInv' /\ (passed' # passed => passed' > passed)
  <1> DEFINE b == IF next = -1 THEN n ELSE IF n > next + W - 1 THEN n - W + 1 ELSE next
  <1>1. RunFrom(b, held \cup {n}) /\ n >= next /\ (next = -1 => passed = -1)
    BY DEF Accept
  <1>2. n \in Nat /\ W \in Nat /\ W >= 1
    BY DEF Sizes
  <1>3. b \in Nat /\ passed < b
    BY <1>1, <1>2 DEF IInv
  <1>4. held \cup {n} \in SUBSET Nat /\ passed \in Int
    BY <1>2 DEF IInv
  <1>5. \A m \in held \cup {n} : m < b + W /\ passed < m
    <2>1. CASE next = -1
      BY <1>1, <1>2, <2>1 DEF IInv
    <2>2. CASE next # -1
      BY <1>1, <1>2, <2>2 DEF IInv
    <2> QED
      BY <2>1, <2>2
  <1> HIDE DEF b
  <1> QED
    BY <1>1, <1>3, <1>4, <1>5, RunKeeps

\* Every step keeps the invariant and the order.
LEMMA Step ==
    ASSUME Sizes, IInv, [Next]_wvars
    PROVE  IInv' /\ (passed' # passed => passed' > passed \/ passed' = -1)
  <1>1. ASSUME NEW n \in 0 .. MaxN, Accept(n)
        PROVE  IInv' /\ (passed' # passed => passed' > passed)
    BY <1>1, AcceptKeeps
  <1>2. CASE GiveUp
    <2>1. PICK h \in held : (\A m \in held : h <= m) /\ RunFrom(h, held)
      BY <1>2 DEF GiveUp
    <2>2. h \in Nat /\ held \in SUBSET Nat /\ passed \in Int /\ W \in Nat
      BY DEF IInv, Sizes
    <2>3. next # -1 /\ passed < h /\ \A m \in held : m < h + W /\ passed < m
      BY <2>1, <2>2 DEF IInv
    <2> QED
      BY <2>1, <2>2, <2>3, RunKeeps
  <1>3. CASE End
    <2>1. next' = -1 /\ held' = {} /\ passed' \in {passed, -1} \cup held
      BY <1>3 DEF End
    <2>2. passed' \in Int
      BY <2>1 DEF IInv
    <2>3. \A m \in held : passed < m
      BY DEF IInv
    <2> QED
      BY <2>1, <2>2, <2>3 DEF IInv
  <1>4. CASE UNCHANGED wvars
    BY <1>4 DEF IInv, wvars
  <1> QED
    BY <1>1, <1>2, <1>3, <1>4 DEF Next

\* The window invariant holds in every reachable state.
THEOREM WindowInvariant ==
    ASSUME Sizes
    PROVE  Spec => []IInv
  <1>1. Init => IInv
    BY DEF Init, IInv
  <1>2. IInv /\ [Next]_wvars => IInv'
    BY Step
  <1> QED
    BY <1>1, <1>2, PTL DEF Spec

\* The reorder buffer holds fewer than W frames, all ahead of the next one due.
THEOREM BoundedTheorem ==
    ASSUME Sizes
    PROVE  Spec => []Bounded
  <1>1. IInv => Bounded
    BY DEF IInv, Bounded, Sizes
  <1> QED
    BY <1>1, WindowInvariant, PTL

\* Frames released by the reorder buffer go up in the transmitter's order.
THEOREM OrderedTheorem ==
    ASSUME Sizes
    PROVE  Spec => Ordered
  <1>1. IInv /\ [Next]_wvars => [passed' # passed => passed' > passed \/ passed' = -1]_wvars
    BY Step
  <1> QED
    BY <1>1, WindowInvariant, PTL DEF Spec, Ordered
=============================================================================
