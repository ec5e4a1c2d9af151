---------------------------- MODULE OutboundCalls ----------------------------
(***************************************************************************)
(* The engine with its executors: what the other side of an http or        *)
(* webhook node sees of retries, recoveries and duplicate runs.            *)
(*                                                                         *)
(* Every request carries Idempotency-Key execution:node:attempt; the       *)
(* remote side, which is not part of the repository, does what it is asked *)
(* once for each key.                                                      *)
(***************************************************************************)
EXTENDS ExecutionEngine, Executors

CONSTANT Type  \* the type of each node

ASSUME TypeAssumption == Type \in [Node -> Registered]

VARIABLES
  attemptRead, \* the attempt of the node as the runner's session read it
  result,      \* the ExecutorResult a runner holds: <<>>, or <<success>>
  performed,   \* the keys, node and attempt, the remote side has acted on
  accepted     \* the nodes with a request that was answered below 400

calls == <<attemptRead, result, performed, accepted>>
callVars == <<vars, calls>>

InitCalls ==
  /\ Init
  /\ attemptRead = [p \in Runner |-> 0]
  /\ result = [p \in Runner |-> <<>>]
  /\ performed = {} /\ accepted = {}

(* process_job and process_recovered_job read the node; the session keeps  *)
(* what it read (expire_on_commit is off).                                 *)
ReadNode(p) ==
  /\ FetchNode(p) \/ RecoverRead(p)
  /\ attemptRead' = [attemptRead EXCEPT ![p] =
                       IF pc'[p] = "acking" THEN 0 ELSE attempt[stream[msg'[p]]]]
  /\ UNCHANGED <<result, performed, accepted>>

(* Mutant: the key names the runner and not the attempt.                   *)
IdempotencyKeyOfRunner(p) == <<Job(p), p>>

IdempotencyKey(p) == <<Job(p), attemptRead[p]>>

(* Mutant: an answer of 400 or more is a success.                          *)
ExecuteAnyAnswer(p) ==
  /\ pc[p] = "executing" /\ result[p] = <<>>
  /\ \E o \in Outcomes(Type[Job(p)]) :
       /\ result' = [result EXCEPT ![p] = <<TRUE>>]
       /\ performed' = IF o.remote THEN performed \cup {IdempotencyKey(p)} ELSE performed
       /\ accepted' = IF o.success THEN accepted \cup {Job(p)} ELSE accepted
  /\ UNCHANGED <<vars, attemptRead>>

(* executor.execute; whatever it raises is a failed result.                *)
Execute(p) ==
  /\ pc[p] = "executing" /\ result[p] = <<>>
  /\ \E o \in Outcomes(Type[Job(p)]) :
       /\ result' = [result EXCEPT ![p] = <<o.success>>]
       /\ performed' = IF o.remote THEN performed \cup {IdempotencyKey(p)} ELSE performed
       /\ accepted' = IF o.success THEN accepted \cup {Job(p)} ELSE accepted
  /\ UNCHANGED <<vars, attemptRead>>

(* The completion that the result calls for.                               *)
Complete(p) ==
  /\ result[p] # <<>>
  /\ \/ CompleteSkipped(p)
     \/ result[p] = <<TRUE>> /\ \E chosen \in Node \cup {NoNode} : CompleteSucceeded(p, chosen)
     \/ result[p] = <<FALSE>> /\ (CompleteRetrying(p) \/ CompleteDeadLettered(p))
  /\ result' = [result EXCEPT ![p] = <<>>]
  /\ attemptRead' = [attemptRead EXCEPT ![p] = 0]
  /\ UNCHANGED <<performed, accepted>>

(* A runner that gives up forgets what it held.                            *)
Forgotten(step) ==
  /\ step
  /\ result' = [p \in Runner |-> IF pc'[p] = "idle" THEN <<>> ELSE result[p]]
  /\ attemptRead' = [p \in Runner |-> IF pc'[p] = "idle" THEN 0 ELSE attemptRead[p]]
  /\ UNCHANGED <<performed, accepted>>

NextCalls ==
  \/ \E p \in Runner : ReadNode(p) \/ Execute(p) \/ Complete(p)
  \/ \E p \in Runner : Forgotten(FetchRejected(p) \/ CommitRunning(p) \/ LoadContext(p)
                                 \/ Vanished(p) \/ Ack(p) \/ ClaimStale(p) \/ RecoverCommit(p))
  \/ \E r \in Request : Forgotten(RequestStep(r))
  \/ \E p \in Process : Forgotten(PublishStep(p) \/ Fault(p))
  \/ \E w \in Worker : Forgotten(ReadGroup(w) \/ Crash(w))
  \/ \E n \in Node : Forgotten(ResolveDlqJob(n))
  \/ Forgotten(DeleteExecution)

SpecCalls == InitCalls /\ [][NextCalls]_callVars

-----------------------------------------------------------------------------
(* Properties.                                                             *)

Remote == {n \in Node : Type[n] \in {"http", "webhook"}}

(* A request node has its output, which its children are run with, only if *)
(* one of its requests was answered below 400 (executor_registry.py:181,   *)
(* 315), although a late result of one attempt may complete another.  That *)
(* its remote side has acted does not follow: a redirect is such an        *)
(* answer.                                                                 *)
OutputIsAnswered ==
  \A n \in Remote : (Exists /\ output[n]) => n \in accepted

(* The remote side of a node acts at most once for each attempt that       *)
(* max_attempts and the operators' retries allow, however often the node   *)
(* is recovered, duplicated or run twice at once (runtime.py:105).         *)
EffectsBounded ==
  \A n \in Node : Cardinality({k \in performed : k[1] = n}) <= MaxAttempts[n] + retries[n]

=============================================================================
