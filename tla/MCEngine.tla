------------------------------ MODULE MCEngine ------------------------------
(* Small workflows for the model checker.                                  *)
EXTENDS ExecutionEngine, TLC

CONSTANTS w1, w2, r1, r2

(* A condition a with the branches b and c, where b also leads to c: when  *)
(* c is chosen the cascade from b reaches it.  b waits for a second root d.*)
JoinedNode == {"a", "b", "c", "d"}
JoinedEdge == {<<"a", "b">>, <<"a", "c">>, <<"b", "c">>, <<"d", "b">>}
BranchCondition == {"a"}
BranchTrue == [n \in {"a"} |-> "b"]
BranchFalse == [n \in {"a"} |-> "c"]

(* Two roots, and c after b: c may run while a fails and is retried.       *)
ForkNode == {"a", "b", "c"}
ForkEdge == {<<"b", "c">>}

(* A join: c waits for both roots, which may complete at the same time.    *)
JoinNode == {"a", "b", "c"}
JoinEdge == {<<"a", "c">>, <<"b", "c">>}

ChainNode == {"a", "b"}
ChainEdge == {<<"a", "b">>}

NoCondition == {}
NoPath == << >>
Attempts1 == [n \in Node |-> 1]
AttemptsC == [n \in Node |-> IF n = "c" THEN 2 ELSE 1]
Attempts2 == [n \in Node |-> 2]

(* Who may be hit between the commit and the publish.                      *)
Workers == Runner
Nobody == {}

WorkerSymmetry == Permutations(Worker) \cup Permutations(Request)
=============================================================================
