----------------------------- MODULE MCLoadGen -----------------------------
(* udploadgen with two flows.              *)
EXTENDS LoadGenProperties

MCMaxSeq == [f \in 0 .. Flows |-> IF f = 0 THEN 3 ELSE 1]
=============================================================================
