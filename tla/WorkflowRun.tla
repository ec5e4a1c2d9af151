---------------------------- MODULE WorkflowRun ----------------------------
(***************************************************************************)
(* What the execution engine promises to whoever started a workflow, in    *)
(* terms of the two things they can rely on: the status of the execution   *)
(* and which nodes have been activated, skipped or have left an output.    *)
(* There is no queue, no worker, no attempt, no duplicate and no fault     *)
(* here.  ExecutionEngine implements this specification.                   *)
(***************************************************************************)
CONSTANTS Node, Edge

VARIABLES
  run,   \* the status of the execution
  node   \* what became of each node

Waiting == {n \in Node : node[n] = "waiting"}
Before(n) == {m \in Node : <<m, n>> \in Edge}

Init ==
  /\ run = "ABSENT"
  /\ node = [n \in Node |-> "waiting"]

(* An execution begins with the nodes that depend on nothing.              *)
Start ==
  /\ run = "ABSENT"
  /\ run' = "RUNNING"
  /\ node' = [n \in Node |-> IF Before(n) = {} THEN "active" ELSE node[n]]

(* With a node, everything that waits for it is skipped.                   *)
SkippedWithDependents(skip) ==
  \A e \in Edge : e[1] \in skip => e[2] \in skip \/ node[e[2]] = "skipped"

(* SUCCEEDED is only reported of a run in which no node is left waiting or *)
(* active; a run that has ended does not go on.                            *)
Reported ==
  \/ run' = run
  \/ run' = "FAILED"
  \/ run' = "SUCCEEDED" /\ \A n \in Node : node'[n] \in {"produced", "skipped"}

(* A node leaves its output.  Waiting nodes may be skipped, and nodes that *)
(* waited for it and for nothing else become active.                       *)
Produce(n) ==
  /\ run \in {"RUNNING", "SUCCEEDED", "FAILED"}
  /\ node[n] \in {"active", "produced"}
  /\ \E skip \in SUBSET Waiting : \E ready \in SUBSET (Waiting \ skip) :
       /\ SkippedWithDependents(skip)
       /\ \A c \in ready : \A q \in Before(c) : q = n \/ node[q] = "produced"
       /\ node' = [m \in Node |-> IF m = n THEN "produced"
                                  ELSE IF m \in skip THEN "skipped"
                                  ELSE IF m \in ready THEN "active"
                                  ELSE node[m]]
  /\ Reported

(* A node gives up.                                                        *)
Fail ==
  /\ run \in {"RUNNING", "SUCCEEDED", "FAILED"}
  /\ run' = "FAILED"
  /\ UNCHANGED node

Delete ==
  /\ run \in {"RUNNING", "SUCCEEDED", "FAILED"}
  /\ run' = "DELETED"
  /\ UNCHANGED node

Next == Start \/ (\E n \in Node : Produce(n)) \/ Fail \/ Delete

Spec == Init /\ [][Next]_<<run, node>>
=============================================================================
