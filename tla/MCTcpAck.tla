------------------------------ MODULE MCTcpAck ------------------------------
(* Instances of TcpAck: two connections on one network queue, one of them  *)
(* long enough for its ACK numbers to wrap, or both with a few.            *)
EXTENDS TcpAck, TLC
CONSTANTS f1, f2, q1
ToQueue   == [f \in Flows |-> q1]
LongOrTwo == {(f1 :> 5 @@ f2 :> 0), (f1 :> 2 @@ f2 :> 1)}
=============================================================================
