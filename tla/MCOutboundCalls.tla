--------------------------- MODULE MCOutboundCalls ---------------------------
(* One webhook node, run by two workers.                                   *)
EXTENDS OutboundCalls, TLC

CONSTANTS w1, w2, r1, r2

SingleNode == {"a"}
NoEdge == {}
NoCondition == {}
NoPath == << >>
Attempts1 == [n \in Node |-> 1]
Webhook == [n \in Node |-> "webhook"]
Anyone == Process

WorkerSymmetry == Permutations(Worker) \cup Permutations(Request)
=============================================================================
