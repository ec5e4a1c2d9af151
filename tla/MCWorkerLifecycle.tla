-------------------------- MODULE MCWorkerLifecycle --------------------------
EXTENDS WorkerLifecycle, TLC

CONSTANTS w1, w2, k1

TwoWorkers == {w1, w2}

(* w1 is a process of its own; w2 was spawned in an API process by a key.  *)
Owners == (w1 :> NoOwner) @@ (w2 :> k1)
Processes == (w1 :> "worker") @@ (w2 :> "api")
SharedName == [w \in TwoWorkers |-> "one"]

=============================================================================
