----------------------------- MODULE UsbTxProofs -----------------------------
(***************************************************************************)
(* Proofs about UsbTx, for any pool of buffers, any water marks and any    *)
(* number of frames: the types, that a buffer is in one place, and that    *)
(* frames are submitted in the order they were pushed.                     *)
(***************************************************************************)
EXTENDS UsbTx, TLAPS

\* The locals hold a buffer exactly between taking it and passing it on.
Locals ==
    /\ sbuf # NoBuf <=> spc = "post"
    /\ tbuf # NoBuf <=> tpc = "submit"

\* The five places are pairwise disjoint, one conjunct per pair.
Apart ==
    /\ tx_free \cap Posted = {} /\ tx_free \cap flight = {}
    /\ sbuf \notin tx_free /\ tbuf \notin tx_free
    /\ Posted \cap flight = {}
    /\ sbuf \notin Posted /\ tbuf \notin Posted
    /\ sbuf \notin flight /\ tbuf \notin flight
    /\ sbuf # NoBuf => sbuf # tbuf

\* Every buffer is somewhere.
Somewhere == \A b \in Bufs : b \in tx_free \/ b \in Posted \/ b \in flight \/ b = sbuf \/ b = tbuf

NoDup == \A i, j \in 1 .. Len(tx_post) : tx_post[i] = tx_post[j] => i = j

\* Frame numbers grow along the path: on the wire, in the thread, on the post
\* list from head to tail, in the hands of the sender.
Numbers ==
    /\ wire <= pushed
    /\ spc \in {"get", "post"} => wire < pushed
    /\ sbuf # NoBuf => frame[sbuf] = pushed
    /\ tbuf # NoBuf => /\ wire < frame[tbuf] /\ frame[tbuf] <= pushed
                       /\ spc \in {"get", "post"} => frame[tbuf] < pushed
                       /\ \A i \in 1 .. Len(tx_post) : frame[tbuf] < frame[tx_post[i]]
    /\ \A i \in 1 .. Len(tx_post) :
         /\ wire < frame[tx_post[i]] /\ frame[tx_post[i]] <= pushed
         /\ spc \in {"get", "post"} => frame[tx_post[i]] < pushed
    /\ \A i, j \in 1 .. Len(tx_post) : i < j => frame[tx_post[i]] < frame[tx_post[j]]

IInv == TypeOK /\ Locals /\ Apart /\ Somewhere /\ NoDup /\ Numbers

\* What taking the head of the post list does to it.
LEMMA TailFacts ==
    ASSUME TypeOK, tx_post # <<>>
    PROVE  /\ Len(tx_post) \in Nat /\ Len(tx_post) >= 1
           /\ tx_post[1] \in Bufs
           /\ Tail(tx_post) \in Seq(Bufs)
           /\ Len(Tail(tx_post)) = Len(tx_post) - 1
           /\ \A i \in 1 .. Len(tx_post) - 1 : Tail(tx_post)[i] = tx_post[i + 1]
  BY DEF TypeOK

\* What adding a buffer to the post list does to it.
LEMMA AppendFacts ==
    ASSUME TypeOK, NEW b \in Bufs
    PROVE  /\ Len(tx_post) \in Nat
           /\ Append(tx_post, b) \in Seq(Bufs)
           /\ Len(Append(tx_post, b)) = Len(tx_post) + 1
           /\ Append(tx_post, b)[Len(tx_post) + 1] = b
           /\ \A i \in 1 .. Len(tx_post) : Append(tx_post, b)[i] = tx_post[i]
  BY DEF TypeOK

\* The head leaves the set of posted buffers and nothing else does.
LEMMA TailPosted ==
    ASSUME TypeOK, NoDup, tx_post # <<>>, tx_post' = Tail(tx_post)
    PROVE  Posted' = Posted \ {tx_post[1]} /\ tx_post[1] \in Posted
  <1>1. Len(tx_post') = Len(tx_post) - 1 /\ Len(tx_post) \in Nat /\ Len(tx_post) >= 1
    BY TailFacts
  <1>2. \A i \in 1 .. Len(tx_post) - 1 : tx_post'[i] = tx_post[i + 1]
    BY TailFacts
  <1>3. tx_post[1] \in Posted
    BY <1>1 DEF Posted
  <1>4. ASSUME NEW q \in Posted' PROVE q \in Posted /\ q # tx_post[1]
    <2>1. PICK i \in 1 .. Len(tx_post') : q = tx_post'[i]
      BY DEF Posted
    <2>2. i + 1 \in 1 .. Len(tx_post) /\ q = tx_post[i + 1] /\ i + 1 # 1
      BY <1>1, <1>2, <2>1
    <2>3. q # tx_post[1]
      BY <1>1, <2>2 DEF NoDup
    <2> QED
      BY <2>2, <2>3 DEF Posted
  <1>5. ASSUME NEW q \in Posted, q # tx_post[1] PROVE q \in Posted'
    <2>1. PICK i \in 1 .. Len(tx_post) : q = tx_post[i]
      BY DEF Posted
    <2>2. i - 1 \in 1 .. Len(tx_post') /\ q = tx_post'[i - 1]
      BY <1>1, <1>2, <1>5, <2>1
    <2> QED
      BY <2>2 DEF Posted
  <1> QED
    BY <1>3, <1>4, <1>5

\* An appended buffer joins the set of posted buffers.
LEMMA AppendPosted ==
    ASSUME TypeOK, sbuf \in Bufs, tx_post' = Append(tx_post, sbuf)
    PROVE  Posted' = Posted \cup {sbuf}
  <1>1. /\ Len(tx_post') = Len(tx_post) + 1 /\ Len(tx_post) \in Nat
        /\ tx_post'[Len(tx_post) + 1] = sbuf
        /\ \A i \in 1 .. Len(tx_post) : tx_post'[i] = tx_post[i]
    BY AppendFacts
  <1>2. ASSUME NEW q \in Posted' PROVE q \in Posted \cup {sbuf}
    <2>1. PICK i \in 1 .. Len(tx_post) + 1 : q = tx_post'[i]
      BY <1>1 DEF Posted
    <2>2. CASE i = Len(tx_post) + 1
      BY <1>1, <2>1, <2>2
    <2>3. CASE i \in 1 .. Len(tx_post)
      BY <1>1, <2>1, <2>3 DEF Posted
    <2> QED
      BY <1>1, <2>1, <2>2, <2>3
  <1>3. ASSUME NEW q \in Posted PROVE q \in Posted'
    <2>1. PICK i \in 1 .. Len(tx_post) : q = tx_post[i]
      BY DEF Posted
    <2>2. i \in 1 .. Len(tx_post') /\ q = tx_post'[i]
      BY <1>1, <2>1
    <2> QED
      BY <2>2 DEF Posted
  <1>4. sbuf \in Posted'
    <2>1. Len(tx_post) + 1 \in 1 .. Len(tx_post')
      BY <1>1
    <2> QED
      BY <1>1, <2>1 DEF Posted
  <1> QED
    BY <1>2, <1>3, <1>4

\* Every step keeps the types.
LEMMA TypeStep == TypeOK /\ Locals /\ [Next]_vars => TypeOK'
  <1> SUFFICES ASSUME TypeOK, Locals, [Next]_vars PROVE TypeOK'
    OBVIOUS
  <1> USE FramesAssumption, NoBufAssumption DEF listVars, flowVars, stateVars, frameVars, senderVars, threadVars
  <1>1. CASE FrameTx
    BY <1>1 DEF TypeOK, Locals, FrameTx
  <1>2. CASE FrameTxDown
    BY <1>2 DEF TypeOK, FrameTxDown
  <1>21. CASE FrameTxDrop
    BY <1>21 DEF TypeOK, FrameTxDrop
  <1>22. CASE StopDown
    <2>1. stopped' \in BOOLEAN
      BY <1>22, Zenon DEF TypeOK, StopDown
    <2>2. /\ spc' = "idle"
          /\ UNCHANGED <<listVars, tbusy, unseen, stateVars, trgg, frameVars, sbuf,
                         threadVars, cpc, ppc>>
      BY <1>22 DEF StopDown
    <2> QED
      BY <2>1, <2>2 DEF TypeOK
  <1>23. CASE Attach
    <2>1. stopped' \in BOOLEAN
      BY <1>23, Zenon DEF Attach
    <2>2. /\ ppc' = "attached"
          /\ UNCHANGED <<listVars, tbusy, unseen, stateVars, trgg, frameVars, senderVars,
                         threadVars, cpc>>
      BY <1>23 DEF Attach
    <2> QED
      BY <2>1, <2>2 DEF TypeOK
  <1>3. CASE GetBuf
    BY <1>3 DEF TypeOK, Locals, GetBuf
  <1>4. CASE Post
    BY <1>4, AppendFacts DEF TypeOK, Post, Locals
  <1>5. CASE Trigger
    BY <1>5 DEF TypeOK, Locals, Trigger
  <1>6. CASE TxFlow
    <2>1. tbusy' \in BOOLEAN /\ stopped' \in BOOLEAN /\ unseen' \in BOOLEAN
      BY <1>6, Zenon DEF TypeOK, TxFlow
    <2> QED
      BY <1>6, <2>1 DEF TypeOK, TxFlow
  <1>7. CASE ThreadWake
    BY <1>7 DEF TypeOK, Locals, ThreadWake
  <1>8. CASE ThreadLoop
    BY <1>8 DEF TypeOK, Locals, ThreadLoop
  <1>9. CASE ThreadDequeue
    <2>1. CASE tx_post = <<>>
      BY <1>9, <2>1 DEF TypeOK, ThreadDequeue
    <2>2. CASE tx_post # <<>>
      <3>1. tx_post[1] \in Bufs /\ Tail(tx_post) \in Seq(Bufs)
        BY <2>2, TailFacts
      <3>2. /\ tbuf' = tx_post[1] /\ tx_post' = Tail(tx_post) /\ tpc' = "submit"
            /\ UNCHANGED <<tx_free, flight, flowVars, stateVars, trgg, frameVars,
                           senderVars, cpc, ppc>>
        BY <1>9, <2>2, Zenon DEF ThreadDequeue
      <3>3. tbuf' \in Bufs /\ tx_post' \in Seq(Bufs)
        BY <3>1, <3>2, Zenon
      <3>4. /\ tpc' = "submit"
            /\ UNCHANGED <<tx_free, flight, flowVars, stateVars, trgg, frameVars,
                           senderVars, cpc, ppc>>
        BY <3>2, Zenon
      <3> QED
        BY <3>3, <3>4 DEF TypeOK
    <2> QED
      BY <2>1, <2>2
  <1>10. CASE ThreadSubmit
    BY <1>10 DEF TypeOK, Locals, ThreadSubmit
  <1>11. CASE SubmitFailed
    <2>1. gone' \in BOOLEAN /\ tpc' \in {"loop", "wait"}
      BY <1>11, Zenon DEF TypeOK, SubmitFailed
    <2> QED
      BY <1>11, <2>1 DEF TypeOK, Locals, SubmitFailed
  <1>12. ASSUME NEW b \in Bufs, Complete(b) PROVE TypeOK'
    BY <1>12 DEF TypeOK, Complete
  <1>13. CASE CompleteFlow
    <2>1. tbusy' \in BOOLEAN /\ stopped' \in BOOLEAN /\ unseen' \in BOOLEAN
      BY <1>13, Zenon DEF TypeOK, CompleteFlow
    <2> QED
      BY <1>13, <2>1 DEF TypeOK, CompleteFlow
  <1>14. CASE Suspend
    BY <1>14 DEF TypeOK, Suspend
  <1>15. CASE BusStop
    BY <1>15 DEF TypeOK, BusStop
  <1>16. CASE BusStart
    BY <1>16 DEF TypeOK, BusStart
  <1>17. CASE TxPrepare
    BY <1>17 DEF TypeOK, TxPrepare
  <1>18. CASE TxPrepareDequeue
    <2>1. CASE tx_post = <<>>
      BY <1>18, <2>1 DEF TypeOK, TxPrepareDequeue
    <2>2. CASE tx_post # <<>>
      <3>1. tx_post[1] \in Bufs /\ Tail(tx_post) \in Seq(Bufs)
        BY <2>2, TailFacts
      <3>2. /\ tx_free' = tx_free \cup {tx_post[1]} /\ tx_post' = Tail(tx_post)
            /\ unseen' = TRUE /\ ppc' = "prepare"
            /\ UNCHANGED <<flight, tbusy, stopped, stateVars, trgg, frameVars,
                           senderVars, threadVars, cpc>>
        BY <1>18, <2>2, Zenon DEF TxPrepareDequeue
      <3>3. tx_free \in SUBSET Bufs
        BY DEF TypeOK
      <3>4. tx_free' \in SUBSET Bufs
        BY <3>1, <3>2, <3>3, Zenon
      <3>5. tx_post' \in Seq(Bufs)
        BY <3>1, <3>2, Zenon
      <3>6. /\ unseen' = TRUE /\ ppc' = "prepare"
            /\ UNCHANGED <<flight, tbusy, stopped, stateVars, trgg, frameVars,
                           senderVars, threadVars, cpc>>
        BY <3>2, Zenon
      <3> QED
        BY <3>4, <3>5, <3>6 DEF TypeOK
    <2> QED
      BY <2>1, <2>2
  <1>19. CASE WakeQueues
    <2>1. stopped' \in BOOLEAN /\ ppc' = "up"
      BY <1>19, Zenon DEF WakeQueues
    <2> QED
      BY <1>19, <2>1 DEF TypeOK, WakeQueues
  <1>20. CASE UNCHANGED vars
    BY <1>20 DEF TypeOK, vars
  <1> QED
    BY <1>1, <1>2, <1>3, <1>4, <1>5, <1>6, <1>7, <1>8, <1>9, <1>10, <1>11, <1>12, <1>13, <1>14, <1>15, <1>16, <1>17, <1>18, <1>19, <1>20, <1>21, <1>22, <1>23
       DEF Next, SenderStep, ThreadStep, CompleteStep, PowerStep

\* Steps that leave the lists, the locals and the frames alone keep the rest of
\* the invariant, whatever they do to the states and the flow control.
LEMMA Still ==
    ASSUME IInv, UNCHANGED <<tx_free, tx_post, flight, sbuf, tbuf, frame, wire>>,
           pushed' = pushed, spc' = "post" <=> spc = "post",
           tpc' = "submit" <=> tpc = "submit",
           spc' \in {"get", "post"} => spc \in {"get", "post"}
    PROVE  Locals' /\ Apart' /\ Somewhere' /\ NoDup' /\ Numbers'
  <1>1. Posted' = Posted
    BY DEF Posted
  <1>2. Locals' /\ Apart' /\ Somewhere' /\ NoDup'
    BY <1>1 DEF IInv, Locals, Apart, Somewhere, NoDup
  <1>3. Numbers'
    BY DEF IInv, Numbers
  <1> QED
    BY <1>2, <1>3

\* The sender takes a number.
LEMMA FrameTxStep ==
    ASSUME IInv, FrameTx PROVE Locals' /\ Apart' /\ Somewhere' /\ NoDup' /\ Numbers'
  <1>1. /\ UNCHANGED <<tx_free, tx_post, flight, sbuf, tbuf, frame, wire, tpc>>
        /\ pushed' = pushed + 1 /\ spc = "idle" /\ spc' = "get" /\ sbuf = NoBuf
    BY DEF IInv, Locals, FrameTx, listVars, threadVars
  <1>2. Posted' = Posted
    BY <1>1 DEF Posted
  <1>3. Locals' /\ Apart' /\ Somewhere' /\ NoDup'
    BY <1>1, <1>2 DEF IInv, Locals, Apart, Somewhere, NoDup
  <1>4. /\ pushed \in Int /\ wire \in Int /\ frame \in [Bufs -> Nat]
        /\ tbuf # NoBuf => tbuf \in Bufs
        /\ \A i \in 1 .. Len(tx_post) : frame[tx_post[i]] \in Nat
    BY DEF IInv, TypeOK
  <1>5. Numbers'
    BY <1>1, <1>4 DEF IInv, Numbers
  <1> QED
    BY <1>3, <1>5

\* A frame that meets a bus that is down only takes a number.
LEMMA FrameTxDownStep ==
    ASSUME IInv, FrameTxDown \/ FrameTxDrop PROVE Locals' /\ Apart' /\ Somewhere' /\ NoDup' /\ Numbers'
  <1>1. /\ UNCHANGED <<tx_free, tx_post, flight, sbuf, tbuf, frame, wire, tpc>>
        /\ pushed' = pushed + 1 /\ spc = "idle" /\ spc' \in {"idle", "down"} /\ sbuf = NoBuf
    BY DEF IInv, Locals, FrameTxDown, FrameTxDrop, listVars, threadVars, senderVars
  <1>2. Posted' = Posted
    BY <1>1 DEF Posted
  <1>3. Locals' /\ Apart' /\ Somewhere' /\ NoDup'
    BY <1>1, <1>2 DEF IInv, Locals, Apart, Somewhere, NoDup
  <1>4. /\ pushed \in Int /\ wire \in Int /\ frame \in [Bufs -> Nat]
        /\ tbuf # NoBuf => tbuf \in Bufs
        /\ \A i \in 1 .. Len(tx_post) : frame[tx_post[i]] \in Nat
    BY DEF IInv, TypeOK
  <1>5. Numbers'
    <2>1. spc' \notin {"get", "post"} /\ sbuf' = NoBuf
      BY <1>1
    <2>2. /\ UNCHANGED <<tx_post, tbuf, frame, wire>> /\ pushed' = pushed + 1
      BY <1>1
    <2> QED
      BY <1>4, <2>1, <2>2 DEF IInv, Numbers
  <1> QED
    BY <1>3, <1>5

\* The sender takes a free buffer, which nobody else holds, and numbers it.
LEMMA GetBufStep ==
    ASSUME IInv, GetBuf PROVE Locals' /\ Apart' /\ Somewhere' /\ NoDup' /\ Numbers'
  <1>1. CASE tx_free = {}
    <2>1. /\ UNCHANGED <<tx_free, tx_post, flight, sbuf, tbuf, frame, wire, tpc, pushed>>
          /\ spc = "get" /\ spc' = "flow"
      BY <1>1 DEF GetBuf, threadVars
    <2> QED
      BY <2>1, Still
  <1>2. CASE tx_free # {}
    <2>1. PICK b \in tx_free :
            /\ tx_free' = tx_free \ {b} /\ sbuf' = b
            /\ frame' = [frame EXCEPT ![b] = pushed]
      BY <1>2 DEF GetBuf
    <2>2. /\ UNCHANGED <<tx_post, flight, tbuf, wire, tpc, pushed>>
          /\ spc = "get" /\ spc' = "post" /\ sbuf = NoBuf
      BY <1>2 DEF IInv, Locals, GetBuf, threadVars
    <2>3. b \in Bufs /\ b # NoBuf /\ b \notin Posted /\ b \notin flight /\ b # tbuf
      BY NoBufAssumption DEF IInv, TypeOK, Apart
    <2>4. Posted' = Posted
      BY <2>2 DEF Posted
    <2>5. /\ Locals' /\ Apart' /\ Somewhere' /\ NoDup'
      <3>1. tx_free' = tx_free \ {b} /\ sbuf' = b
        BY <2>1
      <3>2. Locals'
        BY <2>2, <2>3, <3>1 DEF IInv, Locals
      <3>3. Apart'
        BY <2>2, <2>3, <2>4, <3>1 DEF IInv, Apart
      <3>4. Somewhere'
        BY <2>2, <2>3, <2>4, <3>1, NoBufAssumption DEF IInv, Somewhere
      <3>5. NoDup'
        BY <2>2 DEF IInv, NoDup
      <3> QED
        BY <3>2, <3>3, <3>4, <3>5
    <2>6. /\ frame \in [Bufs -> Nat]
          /\ tbuf # NoBuf => tbuf \in Bufs
          /\ \A i \in 1 .. Len(tx_post) : tx_post[i] \in Bufs
      BY DEF IInv, TypeOK
    <2>7. \A i \in 1 .. Len(tx_post) : tx_post[i] # b
      BY <2>3 DEF Posted
    <2>8. /\ frame'[b] = pushed
          /\ tbuf # NoBuf => frame'[tbuf] = frame[tbuf]
          /\ \A i \in 1 .. Len(tx_post) : frame'[tx_post[i]] = frame[tx_post[i]]
      BY <2>1, <2>3, <2>6, <2>7
    <2>9. Numbers'
      <3>1. sbuf' = b
        BY <2>1
      <3>2. /\ wire < pushed /\ wire <= pushed
            /\ tbuf # NoBuf => /\ wire < frame[tbuf] /\ frame[tbuf] < pushed /\ frame[tbuf] <= pushed
                               /\ \A i \in 1 .. Len(tx_post) : frame[tbuf] < frame[tx_post[i]]
            /\ \A i \in 1 .. Len(tx_post) :
                 wire < frame[tx_post[i]] /\ frame[tx_post[i]] < pushed /\ frame[tx_post[i]] <= pushed
            /\ \A i, j \in 1 .. Len(tx_post) : i < j => frame[tx_post[i]] < frame[tx_post[j]]
        BY <2>2 DEF IInv, Numbers
      <3>3. \A i \in 1 .. Len(tx_post') :
              /\ wire' < frame'[tx_post'[i]] /\ frame'[tx_post'[i]] <= pushed'
              /\ frame'[tx_post'[i]] < pushed'
        BY <2>2, <2>8, <3>2
      <3>4. \A i, j \in 1 .. Len(tx_post') : i < j => frame'[tx_post'[i]] < frame'[tx_post'[j]]
        BY <2>2, <2>8, <3>2
      <3>5. tbuf' # NoBuf =>
              /\ wire' < frame'[tbuf'] /\ frame'[tbuf'] <= pushed' /\ frame'[tbuf'] < pushed'
              /\ \A i \in 1 .. Len(tx_post') : frame'[tbuf'] < frame'[tx_post'[i]]
        BY <2>2, <2>8, <3>2
      <3>6. wire' <= pushed' /\ wire' < pushed' /\ frame'[sbuf'] = pushed'
        BY <2>2, <2>8, <3>1, <3>2
      <3> QED
        BY <3>3, <3>4, <3>5, <3>6 DEF Numbers
    <2> QED
      BY <2>5, <2>9
  <1> QED
    BY <1>1, <1>2

\* The sender's buffer joins the tail of the list with the largest number.
LEMMA PostStep ==
    ASSUME IInv, Post PROVE Locals' /\ Apart' /\ Somewhere' /\ NoDup' /\ Numbers'
  <1>1. /\ UNCHANGED <<tx_free, flight, tbuf, wire, tpc, pushed, frame>>
        /\ spc = "post" /\ spc' = "trigger" /\ sbuf' = NoBuf
        /\ tx_post' = Append(tx_post, sbuf)
    BY DEF Post, frameVars, threadVars
  <1>2. sbuf \in Bufs /\ sbuf # NoBuf /\ TypeOK
    BY <1>1 DEF IInv, Locals, TypeOK
  <1>3. /\ Len(tx_post') = Len(tx_post) + 1 /\ Len(tx_post) \in Nat
        /\ tx_post'[Len(tx_post) + 1] = sbuf
        /\ \A i \in 1 .. Len(tx_post) : tx_post'[i] = tx_post[i]
    BY <1>1, <1>2, AppendFacts
  <1>4. Posted' = Posted \cup {sbuf}
    BY <1>1, <1>2, AppendPosted
  <1>5. Locals'
    BY <1>1 DEF IInv, Locals
  <1>6. Apart'
    <2>1. /\ sbuf' \notin tx_free' /\ sbuf' \notin Posted' /\ sbuf' \notin flight'
          /\ tbuf' \notin Posted'
      <3>1. Posted \subseteq Bufs /\ tx_free \subseteq Bufs /\ flight \subseteq Bufs
        BY DEF IInv, TypeOK, Posted
      <3>2. tbuf # sbuf /\ tbuf \notin Posted
        BY <1>2 DEF IInv, Apart
      <3> QED
        BY <1>1, <1>2, <1>4, <3>1, <3>2, NoBufAssumption
    <2>2. tx_free' \cap Posted' = {} /\ Posted' \cap flight' = {}
      BY <1>1, <1>4 DEF IInv, Apart
    <2>3. tx_free' \cap flight' = {} /\ tbuf' \notin tx_free' /\ tbuf' \notin flight'
      BY <1>1 DEF IInv, Apart
    <2> QED
      BY <1>1, <2>1, <2>2, <2>3 DEF Apart
  <1>7. Somewhere'
    BY <1>1, <1>4 DEF IInv, Somewhere
  <1>8. \A i \in 1 .. Len(tx_post) : tx_post[i] # sbuf
    BY DEF IInv, Apart, Posted
  <1>9. NoDup'
    BY <1>3, <1>8 DEF IInv, NoDup
  <1>10. Numbers'
    <2> DEFINE n == Len(tx_post)
    <2>1. /\ wire < pushed /\ wire <= pushed /\ frame[sbuf] = pushed
          /\ tbuf # NoBuf => /\ wire < frame[tbuf] /\ frame[tbuf] < pushed /\ frame[tbuf] <= pushed
                             /\ \A i \in 1 .. n : frame[tbuf] < frame[tx_post[i]]
          /\ \A i \in 1 .. n :
               wire < frame[tx_post[i]] /\ frame[tx_post[i]] < pushed /\ frame[tx_post[i]] <= pushed
          /\ \A i, j \in 1 .. n : i < j => frame[tx_post[i]] < frame[tx_post[j]]
      BY <1>1, <1>2 DEF IInv, Numbers
    <2>2. /\ spc' = "trigger" /\ sbuf' = NoBuf
          /\ UNCHANGED <<tbuf, wire, pushed, frame>>
      BY <1>1
    <2>3. pushed \in Int
      BY DEF IInv, TypeOK
    <2>4. ASSUME NEW i \in 1 .. Len(tx_post')
          PROVE  i \in 1 .. n \/ i = n + 1
      BY <1>3
    <2>5. ASSUME NEW i \in 1 .. Len(tx_post')
          PROVE  /\ wire' < frame'[tx_post'[i]] /\ frame'[tx_post'[i]] <= pushed'
                 /\ tbuf' # NoBuf => frame'[tbuf'] < frame'[tx_post'[i]]
      <3>1. CASE i \in 1 .. n
        BY <1>3, <2>1, <2>2, <3>1
      <3>2. CASE i = n + 1
        BY <1>3, <2>1, <2>2, <2>3, <3>2
      <3> QED
        BY <2>4, <3>1, <3>2
    <2>6. ASSUME NEW i \in 1 .. Len(tx_post'), NEW j \in 1 .. Len(tx_post'), i < j
          PROVE  frame'[tx_post'[i]] < frame'[tx_post'[j]]
      <3>1. i \in 1 .. n
        BY <1>3, <2>6
      <3>2. CASE j \in 1 .. n
        BY <1>3, <2>1, <2>2, <2>6, <3>1, <3>2
      <3>3. CASE j = n + 1
        BY <1>3, <2>1, <2>2, <3>1, <3>3
      <3> QED
        BY <2>4, <3>2, <3>3
    <2> QED
      BY <2>1, <2>2, <2>5, <2>6 DEF Numbers
  <1> QED
    BY <1>5, <1>6, <1>7, <1>9, <1>10

\* The thread takes the head of the list, which has the smallest number of it.
LEMMA ThreadDequeueStep ==
    ASSUME IInv, ThreadDequeue PROVE Locals' /\ Apart' /\ Somewhere' /\ NoDup' /\ Numbers'
  <1>1. CASE tx_post = <<>>
    <2>1. /\ UNCHANGED <<tx_free, tx_post, flight, sbuf, tbuf, frame, wire, spc, pushed>>
          /\ tpc = "dequeue" /\ tpc' = "wait"
      BY <1>1 DEF ThreadDequeue, frameVars, senderVars
    <2> QED
      BY <2>1, Still
  <1>2. CASE tx_post # <<>>
    <2>1. /\ UNCHANGED <<tx_free, flight, sbuf, wire, spc, pushed, frame>>
          /\ tpc = "dequeue" /\ tpc' = "submit"
          /\ tbuf' = tx_post[1] /\ tx_post' = Tail(tx_post)
      BY <1>2 DEF ThreadDequeue, frameVars, senderVars
    <2>2. /\ Len(tx_post') = Len(tx_post) - 1 /\ Len(tx_post) \in Nat /\ Len(tx_post) >= 1
          /\ tx_post[1] \in Bufs
          /\ \A i \in 1 .. Len(tx_post) - 1 : tx_post'[i] = tx_post[i + 1]
      BY <1>2, <2>1, TailFacts DEF IInv
    <2>3. Posted' = Posted \ {tbuf'} /\ tbuf' \in Posted /\ tbuf' \in Bufs
      BY <1>2, <2>1, <2>2, TailPosted DEF IInv
    <2>4. tbuf = NoBuf /\ tbuf' # NoBuf /\ tpc' = "submit" /\ tpc # "submit"
      BY <2>1, <2>3, NoBufAssumption DEF IInv, Locals
    <2>5. UNCHANGED <<tx_free, flight, sbuf, wire, spc, pushed, frame>>
      BY <2>1
    <2>6. Locals' /\ Apart' /\ Somewhere'
      BY <2>3, <2>4, <2>5, NoBufAssumption DEF IInv, Locals, Apart, Somewhere, TypeOK
    <2>7. NoDup'
      BY <2>2 DEF IInv, NoDup
    <2>8. 1 \in 1 .. Len(tx_post) /\ frame'[tbuf'] = frame[tx_post[1]]
      BY <2>1, <2>2
    <2>9. \A i \in 1 .. Len(tx_post') : /\ i + 1 \in 1 .. Len(tx_post) /\ 1 < i + 1
                                        /\ frame'[tx_post'[i]] = frame[tx_post[i + 1]]
      BY <2>2, <2>5
    <2>10. \A i, j \in 1 .. Len(tx_post') : i < j => i + 1 < j + 1
      BY <2>2
    <2>11. Numbers'
      BY <2>4, <2>5, <2>8, <2>9, <2>10 DEF IInv, Numbers
    <2> QED
      BY <2>6, <2>7, <2>11
  <1> QED
    BY <1>1, <1>2

\* The thread hands its buffer to the USB core.
LEMMA ThreadSubmitStep ==
    ASSUME IInv, ThreadSubmit PROVE Locals' /\ Apart' /\ Somewhere' /\ NoDup' /\ Numbers'
  <1>1. /\ UNCHANGED <<tx_free, tx_post, sbuf, spc, pushed, frame>>
        /\ tpc = "submit" /\ tpc' = "loop" /\ tbuf' = NoBuf
        /\ flight' = flight \cup {tbuf} /\ wire' = frame[tbuf]
    BY DEF ThreadSubmit, senderVars
  <1>2. tbuf \in Bufs /\ tbuf # NoBuf
    BY <1>1 DEF IInv, Locals, TypeOK
  <1>3. Posted' = Posted
    BY <1>1 DEF Posted
  <1>4. Posted \subseteq Bufs
    BY DEF IInv, TypeOK, Posted
  <1>5. Locals' /\ Apart' /\ Somewhere' /\ NoDup'
    BY <1>1, <1>2, <1>3, <1>4, NoBufAssumption DEF IInv, Locals, Apart, Somewhere, NoDup, TypeOK
  <1>6. Numbers'
    BY <1>1, <1>2 DEF IInv, Numbers
  <1> QED
    BY <1>5, <1>6

\* The thread gives its buffer back.
LEMMA SubmitFailedStep ==
    ASSUME IInv, SubmitFailed PROVE Locals' /\ Apart' /\ Somewhere' /\ NoDup' /\ Numbers'
  <1>1. /\ UNCHANGED <<flight, tx_post, sbuf, spc, pushed, frame, wire>>
        /\ tpc = "submit" /\ tpc' # "submit" /\ tbuf' = NoBuf
        /\ tx_free' = tx_free \cup {tbuf}
    BY DEF SubmitFailed, senderVars, frameVars
  <1>2. tbuf \in Bufs /\ tbuf # NoBuf
    BY <1>1 DEF IInv, Locals, TypeOK
  <1>3. Posted' = Posted
    BY <1>1 DEF Posted
  <1>4. Posted \subseteq Bufs
    BY DEF IInv, TypeOK, Posted
  <1>5. Locals' /\ Apart' /\ Somewhere' /\ NoDup'
    BY <1>1, <1>2, <1>3, <1>4, NoBufAssumption DEF IInv, Locals, Apart, Somewhere, NoDup, TypeOK
  <1>6. Numbers'
    BY <1>1, <1>2 DEF IInv, Numbers
  <1> QED
    BY <1>5, <1>6

\* A transfer completes.
LEMMA CompleteBufStep ==
    ASSUME IInv, NEW b \in Bufs, Complete(b)
    PROVE  Locals' /\ Apart' /\ Somewhere' /\ NoDup' /\ Numbers'
  <1>1. /\ UNCHANGED <<tx_post, sbuf, tbuf, spc, tpc, pushed, frame, wire>>
        /\ b \in flight /\ flight' = flight \ {b} /\ tx_free' = tx_free \cup {b}
    BY DEF Complete, senderVars, threadVars, frameVars
  <1>2. Posted' = Posted
    BY <1>1 DEF Posted
  <1>3. Locals' /\ Apart' /\ Somewhere' /\ NoDup'
    BY <1>1, <1>2 DEF IInv, Locals, Apart, Somewhere, NoDup
  <1>4. Numbers'
    BY <1>1 DEF IInv, Numbers
  <1> QED
    BY <1>3, <1>4

\* Resume takes the head of the list back to the free list.
LEMMA TxPrepareDequeueStep ==
    ASSUME IInv, TxPrepareDequeue PROVE Locals' /\ Apart' /\ Somewhere' /\ NoDup' /\ Numbers'
  <1>1. CASE tx_post = <<>>
    <2>1. /\ UNCHANGED <<tx_free, tx_post, flight, sbuf, tbuf, frame, wire, spc, pushed, tpc>>
      BY <1>1 DEF TxPrepareDequeue, frameVars, senderVars, threadVars
    <2> QED
      BY <2>1, Still
  <1>2. CASE tx_post # <<>>
    <2>1. /\ UNCHANGED <<flight, sbuf, tbuf, tpc, wire, spc, pushed, frame>>
          /\ tx_free' = tx_free \cup {tx_post[1]} /\ tx_post' = Tail(tx_post)
      BY <1>2 DEF TxPrepareDequeue, frameVars, senderVars, threadVars
    <2>2. /\ Len(tx_post') = Len(tx_post) - 1 /\ Len(tx_post) \in Nat /\ Len(tx_post) >= 1
          /\ tx_post[1] \in Bufs
          /\ \A i \in 1 .. Len(tx_post) - 1 : tx_post'[i] = tx_post[i + 1]
      BY <1>2, <2>1, TailFacts DEF IInv
    <2>3. PICK h \in Bufs : h = tx_post[1]
      BY <2>2
    <2>4. Posted' = Posted \ {h} /\ h \in Posted /\ tx_free' = tx_free \cup {h}
      BY <1>2, <2>1, <2>3, TailPosted DEF IInv
    <2>5. UNCHANGED <<flight, sbuf, tbuf, tpc, wire, spc, pushed, frame>>
      BY <2>1
    <2>6. Locals' /\ Apart' /\ Somewhere'
      BY <2>3, <2>4, <2>5, NoBufAssumption DEF IInv, Locals, Apart, Somewhere, TypeOK
    <2>7. NoDup'
      BY <2>2 DEF IInv, NoDup
    <2>8. \A i \in 1 .. Len(tx_post') : /\ i + 1 \in 1 .. Len(tx_post)
                                        /\ frame'[tx_post'[i]] = frame[tx_post[i + 1]]
      BY <2>2, <2>5
    <2>9. \A i, j \in 1 .. Len(tx_post') : i < j => i + 1 < j + 1
      BY <2>2
    <2>10. Numbers'
      BY <2>5, <2>8, <2>9 DEF IInv, Numbers
    <2> QED
      BY <2>6, <2>7, <2>10
  <1> QED
    BY <1>1, <1>2

\* The invariant is inductive.
LEMMA StepInv == IInv /\ [Next]_vars => IInv'
  <1> SUFFICES ASSUME IInv, [Next]_vars PROVE IInv'
    OBVIOUS
  <1> DEFINE Rest == Locals' /\ Apart' /\ Somewhere' /\ NoDup' /\ Numbers'
  <1>0. TypeOK'
    BY TypeStep DEF IInv
  <1>1. CASE StopDown \/ Trigger \/ TxFlow
    <2>1. /\ UNCHANGED <<tx_free, tx_post, flight, sbuf, tbuf, frame, wire, pushed, tpc>>
          /\ spc \in {"down", "trigger", "flow"} /\ spc' \in {"idle", "flow"}
      BY <1>1 DEF StopDown, Trigger, TxFlow, listVars, frameVars, threadVars
    <2> QED
      BY <1>0, <2>1, Still DEF IInv
  <1>2. CASE ThreadWake \/ ThreadLoop
    <2>1. /\ UNCHANGED <<tx_free, tx_post, flight, sbuf, tbuf, frame, wire, pushed, spc>>
          /\ tpc # "submit" /\ tpc' # "submit"
      BY <1>2 DEF ThreadWake, ThreadLoop, listVars, frameVars, senderVars
    <2> QED
      BY <1>0, <2>1, Still DEF IInv
  <1>3. CASE CompleteFlow \/ Suspend \/ BusStop \/ Attach \/ BusStart \/ TxPrepare \/ WakeQueues
    <2>1. UNCHANGED <<tx_free, tx_post, flight, sbuf, tbuf, frame, wire, pushed, spc, tpc>>
      BY <1>3 DEF CompleteFlow, Suspend, BusStop, Attach, BusStart, TxPrepare, WakeQueues,
                  listVars, frameVars, senderVars, threadVars
    <2> QED
      BY <1>0, <2>1, Still DEF IInv
  <1>4. CASE UNCHANGED vars
    <2>1. UNCHANGED <<tx_free, tx_post, flight, sbuf, tbuf, frame, wire, pushed, spc, tpc>>
      BY <1>4 DEF vars, listVars, frameVars, senderVars, threadVars
    <2> QED
      BY <1>0, <2>1, Still DEF IInv
  <1>5. CASE FrameTx
    BY <1>0, <1>5, FrameTxStep DEF IInv
  <1>6. CASE FrameTxDown \/ FrameTxDrop
    BY <1>0, <1>6, FrameTxDownStep DEF IInv
  <1>7. CASE GetBuf
    BY <1>0, <1>7, GetBufStep DEF IInv
  <1>8. CASE Post
    BY <1>0, <1>8, PostStep DEF IInv
  <1>9. CASE ThreadDequeue
    BY <1>0, <1>9, ThreadDequeueStep DEF IInv
  <1>10. CASE ThreadSubmit
    BY <1>0, <1>10, ThreadSubmitStep DEF IInv
  <1>11. CASE SubmitFailed
    BY <1>0, <1>11, SubmitFailedStep DEF IInv
  <1>12. ASSUME NEW b \in Bufs, Complete(b) PROVE IInv'
    BY <1>0, <1>12, CompleteBufStep DEF IInv
  <1>13. CASE TxPrepareDequeue
    BY <1>0, <1>13, TxPrepareDequeueStep DEF IInv
  <1> QED
    BY <1>1, <1>2, <1>3, <1>4, <1>5, <1>6, <1>7, <1>8, <1>9, <1>10, <1>11, <1>12, <1>13
       DEF Next, SenderStep, ThreadStep, CompleteStep, PowerStep

\* The pool as aicwf_usb_alloc_tx_urb leaves it satisfies the invariant.
LEMMA InitInv == Init => IInv
  <1> SUFFICES ASSUME Init PROVE IInv
    OBVIOUS
  <1> USE FramesAssumption, NoBufAssumption DEF Init
  <1>1. TypeOK
    <2>1. tx_post \in Seq(Bufs) /\ frame \in [Bufs -> Nat] /\ 0 \in 0 .. MaxFrames
      OBVIOUS
    <2>2. /\ tbusy \in BOOLEAN /\ stopped \in BOOLEAN /\ unseen \in BOOLEAN /\ gone \in BOOLEAN
      BY Zenon
    <2>3. tx_free \in SUBSET Bufs /\ flight \in SUBSET Bufs
      OBVIOUS
    <2> QED
      BY <2>1, <2>2, <2>3 DEF TypeOK
  <1>2. Len(tx_post) = 0 /\ Posted = {}
    BY DEF Posted
  <1>3. Locals /\ Apart /\ Somewhere /\ NoDup
    BY <1>2 DEF Locals, Apart, Somewhere, NoDup
  <1>4. Numbers
    BY <1>2 DEF Numbers
  <1> QED
    BY <1>1, <1>3, <1>4 DEF IInv

\* The invariant holds in every reachable state of the transmit path.
THEOREM Invariant == Spec => []IInv
  BY InitInv, StepInv, PTL DEF Spec

\* The lists, the flow control flags, the bus states and the positions of the
\* three actors keep their types: in particular bustx_trgg never goes negative
\* and the sender and the thread hold a real buffer whenever they use one.
THEOREM TypeCorrect == Spec => []TypeOK
  <1>1. IInv => TypeOK
    BY DEF IInv
  <1> QED
    BY <1>1, Invariant, PTL

\* aicwf_usb_bus_txdata, aicwf_usb_tx_process, aicwf_usb_tx_complete and
\* aicwf_usb_tx_prepare neither lose a usb_buf nor put one in two places.
THEOREM OnePlaceTheorem == Spec => []OnePlace
  <1>1. IInv => OnePlace
    <2> SUFFICES ASSUME IInv PROVE OnePlace
      OBVIOUS
    <2>1. 1 .. 5 = {1, 2, 3, 4, 5}
      OBVIOUS
    <2>2. /\ Places[1] = tx_free /\ Places[2] = Posted /\ Places[3] = flight
          /\ Places[4] = {sbuf} \ {NoBuf} /\ Places[5] = {tbuf} \ {NoBuf}
      BY DEF Places
    <2>3. /\ tx_free \subseteq Bufs /\ flight \subseteq Bufs /\ Posted \subseteq Bufs
          /\ {sbuf} \ {NoBuf} \subseteq Bufs /\ {tbuf} \ {NoBuf} \subseteq Bufs
      BY DEF IInv, TypeOK, Posted
    <2>4. UNION {Places[i] : i \in 1 .. 5}
            = Places[1] \cup Places[2] \cup Places[3] \cup Places[4] \cup Places[5]
      BY <2>1
    <2>5. tx_free \cup Posted \cup flight \cup ({sbuf} \ {NoBuf}) \cup ({tbuf} \ {NoBuf}) = Bufs
      BY <2>3, NoBufAssumption DEF IInv, Somewhere
    <2>6. UNION {Places[i] : i \in 1 .. 5} = Bufs
      BY <2>2, <2>4, <2>5
    <2>7. /\ tx_free \cap Posted = {} /\ tx_free \cap flight = {} /\ Posted \cap flight = {}
          /\ tx_free \cap ({sbuf} \ {NoBuf}) = {} /\ tx_free \cap ({tbuf} \ {NoBuf}) = {}
          /\ Posted \cap ({sbuf} \ {NoBuf}) = {} /\ Posted \cap ({tbuf} \ {NoBuf}) = {}
          /\ flight \cap ({sbuf} \ {NoBuf}) = {} /\ flight \cap ({tbuf} \ {NoBuf}) = {}
          /\ ({sbuf} \ {NoBuf}) \cap ({tbuf} \ {NoBuf}) = {}
      BY DEF IInv, Apart
    <2>8. \A i, j \in {1, 2, 3, 4, 5} : i # j => Places[i] \cap Places[j] = {}
      BY <2>2, <2>7
    <2>9. \A i, j \in 1 .. 5 : i # j => Places[i] \cap Places[j] = {}
      BY <2>1, <2>8
    <2> QED
      BY <2>6, <2>9 DEF IInv, NoDup, OnePlace
  <1> QED
    BY <1>1, Invariant, PTL

\* usb_bustx_thread submits frames in the order in which rwnx_tx_push pushed
\* them, whatever fails and however often the device is suspended.
THEOREM InOrderTheorem == Spec => InOrder
  <1>1. IInv /\ [Next]_vars => [wire' # wire => wire' > wire]_vars
    <2> SUFFICES ASSUME IInv, [Next]_vars PROVE wire' # wire => wire' > wire
      OBVIOUS
    <2>1. CASE ThreadSubmit
      <3>1. tbuf # NoBuf /\ tbuf \in Bufs /\ frame \in [Bufs -> Nat] /\ wire \in Nat
        BY <2>1 DEF ThreadSubmit, IInv, Locals, TypeOK
      <3>2. wire' = frame[tbuf] /\ wire < frame[tbuf]
        BY <2>1, <3>1 DEF ThreadSubmit, IInv, Numbers
      <3> QED
        BY <3>1, <3>2
    <2>2. CASE UNCHANGED vars
      BY <2>2 DEF vars, frameVars
    <2>3. CASE FrameTx \/ FrameTxDown \/ FrameTxDrop \/ SenderStep
      BY <2>3 DEF FrameTx, FrameTxDown, FrameTxDrop, SenderStep, StopDown, GetBuf, Post, Trigger, TxFlow, frameVars
    <2>4. CASE ThreadWake \/ ThreadLoop \/ ThreadDequeue \/ SubmitFailed
      BY <2>4 DEF ThreadWake, ThreadLoop, ThreadDequeue, SubmitFailed, frameVars
    <2>5. CASE CompleteStep \/ Suspend \/ PowerStep
      BY <2>5 DEF CompleteStep, Complete, CompleteFlow, Suspend, PowerStep, BusStop, Attach, BusStart,
                  TxPrepare, TxPrepareDequeue, WakeQueues, frameVars
    <2> QED
      BY <2>1, <2>2, <2>3, <2>4, <2>5 DEF Next, ThreadStep
  <1> QED
    BY <1>1, Invariant, PTL DEF Spec, InOrder
=============================================================================
