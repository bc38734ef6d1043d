----------------------------- MODULE MCTxQueue -----------------------------
(* Instances of TxQueue: a station with two data queues, on one or two     *)
(* hardware queues, by kind of power save.                                 *)
EXTENDS TxQueue
CONSTANTS q1, q2

Two == <<q1, q2>>
Legacy == {[q \in Txqs |-> "legacy"]}
Mixed == {[q \in Txqs |-> IF q = q2 THEN "uapsd" ELSE "legacy"]}
Both == Legacy \cup Mixed
OneHwq == [q \in Txqs |-> 1]
TwoHwqs == [q \in Txqs |-> IF q = q2 THEN 2 ELSE 1]
=============================================================================
