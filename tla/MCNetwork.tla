----------------------------- MODULE MCNetwork -----------------------------
(* Instances of Network for TLC: peers p and q listen at two ports of one host; *)
(* two topics, one message each.                                                *)
EXTENDS Network, TLC

CONSTANTS p, q, a1, a2, h1, t1, t2, m1, m2

OnePeerPerPort == a1 :> p @@ a2 :> q
OneHost == [a \in Addr |-> h1]
MsgTopic == m1 :> t1 @@ m2 :> t2
============================================================================
