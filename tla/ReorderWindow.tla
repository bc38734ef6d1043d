---------------------------- MODULE ReorderWindow ----------------------------
(***************************************************************************)
(* What a receive reorder buffer promises, in the transmitter's own        *)
(* numbers and without threads, timers or wrapping sequence numbers: at    *)
(* most W - 1 frames are held, all of them ahead of the next one due, and  *)
(* frames are passed up in order.                                          *)
(***************************************************************************)
EXTENDS Integers, FiniteSets

CONSTANTS
    W,      \* window size
    MaxN    \* frames are numbered 0 .. MaxN

\* The sizes for which the promise is meant; RxReorder assumes them.
Sizes == W \in Nat \ {0} /\ MaxN \in Nat

VARIABLES
    next,   \* the number of the next frame due, or -1 before the first
    held,   \* the frames held back
    passed  \* the last number passed up in turn, or -1

wvars == <<next, held, passed>>

Init == next = -1 /\ held = {} /\ passed = -1

\* The buffer is at b and holds H: everything before e leaves, where e is the
\* first number from b on that is missing.
RunFrom(b, H) ==
    \E e \in b .. b + Cardinality(H) :
      /\ e \notin H
      /\ \A m \in b .. e - 1 : m \in H
      /\ next' = e
      /\ held' = {m \in H : m > e}
      /\ \/ /\ \A m \in H : m > e
            /\ passed' = passed
         \/ \E t \in H : /\ t < e
                         /\ \A m \in H : m < e => m <= t
                         /\ passed' = t

\* A frame that is neither old nor already held; other frames change nothing.
Accept(n) ==
    /\ n >= next /\ n \notin held
    /\ next = -1 => passed = -1
    /\ LET b == IF next = -1 THEN n ELSE IF n > next + W - 1 THEN n - W + 1 ELSE next
       IN  RunFrom(b, held \cup {n})

\* The buffer gives up on the frames that are missing before the first it holds.
GiveUp ==
    \E h \in held : /\ \A m \in held : h <= m
                    /\ RunFrom(h, held)

\* The session ends, with the held frames passed up, and a new one begins.
End ==
    /\ next' = -1 /\ held' = {}
    /\ passed' \in {passed, -1} \cup held

Next == (\E n \in 0 .. MaxN : Accept(n)) \/ GiveUp \/ End

Spec == Init /\ [][Next]_wvars

-----------------------------------------------------------------------------
(* What follows from the promise                                           *)

\* Fewer than W frames are ever held, each ahead of the next one due.
Bounded == held \subseteq next + 1 .. next + W - 1

\* Frames released by the buffer go up in the transmitter's order; only a new
\* session starts over.
Ordered == [][passed' # passed => passed' > passed \/ passed' = -1]_wvars
=============================================================================
