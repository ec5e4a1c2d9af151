------------------------ MODULE OutboundCallsProofs -------------------------
(***************************************************************************)
(* The attempts of a node, its dead letters, and what the remote side of   *)
(* an http or webhook node sees, for every graph, every number of workers  *)
(* and requests, and every bound on faults, slow jobs, retries and         *)
(* deletions.                                                              *)
(***************************************************************************)
EXTENDS OutboundCalls, ExecutionEngineProofs, FiniteSetTheorems

-----------------------------------------------------------------------------
(* Attempts and dead letters.                                              *)

(* A node that waits has no attempt, one that was queued has one.          *)
AttemptsCounted ==
  \A n \in Node : /\ status[n] = "PENDING" => attempt[n] = 0
                  /\ Activated(n) => attempt[n] > 0

(* The attempt that retry_node read leaves room for the one it will write: *)
(* the call has been counted.                                              *)
RetriesCounted ==
  \A r \in Request : pc[r] = "retrying" =>
    target[r].attempt < MaxAttempts[target[r].node] + retries[target[r].node]

Ledger == AttemptsBounded /\ AttemptsCounted /\ RetriesCounted /\ DeadLetterJustified

LEMMA InitLedger == Init => Ledger
BY ConstantsAssumption, ProcessFacts
DEF Init, Ledger, AttemptsBounded, AttemptsCounted, RetriesCounted, DeadLetterJustified, Activated

(* A step that leaves the rows and the retries alone keeps the ledger, as  *)
(* long as no request starts to retry.                                     *)
LEMMA QuietLedger ==
  ASSUME IndInv, Ledger, UNCHANGED <<rows, retries>>,
         \A r \in Request : pc'[r] = "retrying" => pc[r] = "retrying" /\ target'[r] = target[r]
  PROVE  Ledger'
<1>1. AttemptsBounded' /\ AttemptsCounted' /\ DeadLetterJustified'
  BY Zenon DEF Ledger, AttemptsBounded, AttemptsCounted, DeadLetterJustified, Activated, Exists, rows
<1>2. RetriesCounted'
  BY Zenon DEF Ledger, RetriesCounted
<1> QED
  BY <1>1, <1>2, Zenon DEF Ledger

(* A step that rewrites the status of one queued node as QUEUED or RUNNING *)
(* and keeps its attempt keeps the ledger.                                 *)
LEMMA RewrittenLedger ==
  ASSUME IndInv, Ledger, NEW n \in Node, Activated(n), NEW s \in {"QUEUED", "RUNNING"},
         status' = [status EXCEPT ![n] = s],
         UNCHANGED <<execution, attempt, dlqOpen, dlqResolved, retries, target>>,
         \A r \in Request : pc'[r] = pc[r]
  PROVE  Ledger'
<1>0. status \in [Node -> NodeStatus]
  BY Zenon DEF IndInv, TypeOK
<1>1. AttemptsBounded' /\ AttemptsCounted'
  BY <1>0, Zenon DEF Ledger, AttemptsBounded, AttemptsCounted, Activated
<1>2. RetriesCounted'
  BY Zenon DEF Ledger, RetriesCounted
<1>3. DeadLetterJustified'
  BY <1>0, Zenon DEF Ledger, DeadLetterJustified, Exists
<1> QED
  BY <1>1, <1>2, <1>3, Zenon DEF Ledger

(* start_execution gives its roots their first attempt; a request that     *)
(* wanted to retry would have seen a row before.                           *)
LEMMA StartLedger ==
  ASSUME IndInv, Ledger, NEW r \in Request, StartExecution(r)
  PROVE  Ledger'
<1>1. /\ \A n \in Node : status'[n] = IF n \in Roots THEN "QUEUED" ELSE "PENDING"
      /\ \A n \in Node : attempt'[n] = IF n \in Roots THEN 1 ELSE 0
      /\ retries' = retries /\ target' = target
      /\ pc' = [pc EXCEPT ![r] = "publishing"]
  BY Zenon DEF StartExecution, bounds
<1>2. retries \in [Node -> Nat] /\ pc \in [Process -> ProgramCounter] /\ r \in Process
  BY ProcessFacts, Zenon DEF IndInv, TypeOK
<1>3. AttemptsBounded'
  BY <1>1, <1>2, ConstantsAssumption DEF AttemptsBounded
<1>4. AttemptsCounted' /\ DeadLetterJustified'
  BY <1>1 DEF AttemptsCounted, Activated, DeadLetterJustified
<1>5. RetriesCounted'
  BY <1>1, <1>2, ProcessFacts, Zenon DEF Ledger, RetriesCounted
<1> QED
  BY <1>3, <1>4, <1>5, Zenon DEF Ledger

(* retry_node: the call is counted with the attempt that it reads.         *)
LEMMA RetryReadLedger ==
  ASSUME IndInv, Ledger, NEW r \in Request, NEW n \in Node, RetryRead(r, n)
  PROVE  Ledger'
<1>1. /\ UNCHANGED rows
      /\ retries' = [retries EXCEPT ![n] = retries[n] + 1]
      /\ target' = [target EXCEPT ![r] = [node |-> n, attempt |-> attempt[n]]]
      /\ pc' = [pc EXCEPT ![r] = "retrying"]
  BY Zenon DEF RetryRead, IndInv, TypeOK
<1>2. /\ retries \in [Node -> Nat] /\ attempt \in [Node -> Nat]
      /\ pc \in [Process -> ProgramCounter]
      /\ target \in [Request -> [node : Node \cup {NoNode}, attempt : Nat]]
  BY Zenon DEF IndInv, TypeOK
<1>3. \A m \in Node : MaxAttempts[m] \in Nat
  BY ConstantsAssumption, Zenon
<1>4. \A m \in Node : retries'[m] \in Nat /\ retries[m] <= retries'[m]
  BY <1>1, <1>2
<1>5. AttemptsBounded'
  BY <1>1, <1>2, <1>3, <1>4 DEF Ledger, AttemptsBounded, rows
<1>6. AttemptsCounted' /\ DeadLetterJustified'
  BY <1>1, Zenon DEF Ledger, AttemptsCounted, Activated, DeadLetterJustified, Exists, rows
<1>7. RetriesCounted'
  <2> SUFFICES ASSUME NEW q \in Request, pc'[q] = "retrying"
               PROVE  target'[q].attempt < MaxAttempts[target'[q].node] + retries'[target'[q].node]
    BY Zenon DEF RetriesCounted
  <2>1. CASE q = r
    <3>1. target'[q].attempt = attempt[n] /\ target'[q].node = n /\ retries'[n] = retries[n] + 1
      BY <1>1, <1>2, <2>1, Zenon
    <3>2. attempt[n] <= MaxAttempts[n] + retries[n]
      BY Zenon DEF Ledger, AttemptsBounded
    <3> QED
      BY <3>1, <3>2, <1>2, <1>3
  <2>2. CASE q # r
    <3>1. target'[q] = target[q] /\ pc[q] = "retrying"
      BY <1>1, <1>2, <2>2, ProcessFacts, Zenon
    <3>2. target[q].attempt < MaxAttempts[target[q].node] + retries[target[q].node]
      BY <3>1, Zenon DEF Ledger, RetriesCounted
    <3>3. target[q].node \in Node /\ target[q].attempt \in Nat
      BY <3>1, <1>2, Zenon DEF IndInv, JobsActivated, TargetActivated
    <3> QED
      BY <3>1, <3>2, <3>3, <1>2, <1>3, <1>4
  <2> QED
    BY <2>1, <2>2, Zenon
<1> QED
  BY <1>5, <1>6, <1>7, Zenon DEF Ledger

(* retry_node writes the attempt after the one it read, which may be older *)
(* than the one in the row, and takes the node out of the dead letters.    *)
LEMMA RetryCommitLedger ==
  ASSUME IndInv, Ledger, NEW r \in Request, RetryCommit(r)
  PROVE  Ledger'
<1> DEFINE n == target[r].node
<1>1. n \in Node /\ target[r].attempt \in Nat /\ pc[r] = "retrying"
  BY Zenon DEF RetryCommit, IndInv, TypeOK, JobsActivated, TargetActivated
<1>2. /\ status' = [status EXCEPT ![n] = "QUEUED"]
      /\ attempt' = [attempt EXCEPT ![n] = target[r].attempt + 1]
      /\ dlqOpen' = [dlqOpen EXCEPT ![n] = 0]
      /\ dlqResolved' = [dlqResolved EXCEPT ![n] = dlqResolved[n] + dlqOpen[n]]
      /\ pc' = [pc EXCEPT ![r] = "publishing"]
      /\ UNCHANGED <<execution, target, retries>>
  BY <1>1, Zenon DEF RetryCommit, bounds, IndInv, TypeOK
<1>3. /\ retries \in [Node -> Nat] /\ attempt \in [Node -> Nat] /\ status \in [Node -> NodeStatus]
      /\ pc \in [Process -> ProgramCounter] /\ dlqOpen \in [Node -> Nat]
      /\ dlqResolved \in [Node -> Nat]
  BY Zenon DEF IndInv, TypeOK
<1>4. MaxAttempts[n] \in Nat /\ target[r].attempt < MaxAttempts[n] + retries[n]
  BY <1>1, ConstantsAssumption, Zenon DEF Ledger, RetriesCounted
<1> HIDE DEF n
<1>5. AttemptsBounded'
  BY <1>1, <1>2, <1>3, <1>4 DEF Ledger, AttemptsBounded
<1>6. AttemptsCounted'
  BY <1>1, <1>2, <1>3 DEF Ledger, AttemptsCounted, Activated
<1>7. RetriesCounted'
  BY <1>1, <1>2, <1>3, ProcessFacts, Zenon DEF Ledger, RetriesCounted
<1>8. DeadLetterJustified'
  BY <1>1, <1>2, <1>3, Zenon DEF Ledger, DeadLetterJustified, Exists
<1> QED
  BY <1>5, <1>6, <1>7, <1>8, Zenon DEF Ledger

(* resolve_dlq_job moves a dead letter job from the open ones to the       *)
(* resolved ones; delete_execution removes the execution with them.        *)
LEMMA OperatorLedger ==
  ASSUME IndInv, Ledger, DeleteExecution \/ \E n \in Node : ResolveDlqJob(n)
  PROVE  Ledger'
<1>1. AttemptsBounded' /\ AttemptsCounted' /\ RetriesCounted'
  BY Zenon DEF DeleteExecution, ResolveDlqJob, local, bounds, Ledger, AttemptsBounded, AttemptsCounted,
         RetriesCounted, Activated
<1>2. CASE DeleteExecution
  BY <1>1, <1>2, Zenon DEF DeleteExecution, Ledger, DeadLetterJustified, Exists
<1>3. ASSUME NEW n \in Node, ResolveDlqJob(n)
      PROVE  DeadLetterJustified'
  <2>1. /\ UNCHANGED <<execution, status, attempt>> /\ dlqOpen[n] > 0
        /\ dlqOpen' = [dlqOpen EXCEPT ![n] = dlqOpen[n] - 1]
        /\ dlqResolved' = [dlqResolved EXCEPT ![n] = dlqResolved[n] + 1]
        /\ dlqOpen \in [Node -> Nat] /\ dlqResolved \in [Node -> Nat]
    BY <1>3, Zenon DEF ResolveDlqJob, IndInv, TypeOK
  <2>2. \A m \in Node : dlqOpen'[m] + dlqResolved'[m] = dlqOpen[m] + dlqResolved[m]
    BY <2>1
  <2> QED
    BY <2>1, <2>2, Zenon DEF Ledger, DeadLetterJustified, Exists
<1> QED
  BY <1>1, <1>2, <1>3, Zenon DEF Ledger

(* A success queues PENDING children with their first attempt, and skips   *)
(* PENDING nodes.                                                          *)
LEMMA SucceededLedger ==
  ASSUME IndInv, Ledger, NEW p \in Runner, NEW chosen, CompleteSucceeded(p, chosen)
  PROVE  Ledger'
<1>1. PICK ready \in SUBSET Node :
        /\ Job(p) \in Node /\ status'[Job(p)] = "SUCCEEDED"
        /\ \A m \in Node : m # Job(p) /\ status[m] # "PENDING" => status'[m] = status[m]
        /\ \A m \in Node : status[m] = "PENDING" =>
             IF m \in ready THEN status'[m] = "QUEUED" ELSE status'[m] \in {"SKIPPED", "PENDING"}
        /\ \A m \in ready : status[m] = "PENDING"
        /\ attempt' = [m \in Node |-> IF m \in ready THEN attempt[m] + 1 ELSE attempt[m]]
  BY SucceededRows
<1>2. /\ execution' \in {execution, "SUCCEEDED", "FAILED"} /\ Exists
      /\ pc[p] = "executing" /\ status[Job(p)] = "RUNNING"
      /\ UNCHANGED <<dlqOpen, dlqResolved, target, retries>>
  BY Zenon DEF CompleteSucceeded, Completing, FinalStatus, bounds
<1>3. \A r \in Request : pc'[r] = pc[r]
  BY ProcessFacts, Zenon DEF CompleteSucceeded, IndInv, TypeOK
<1>4. /\ attempt \in [Node -> Nat] /\ retries \in [Node -> Nat]
      /\ \A m \in Node : MaxAttempts[m] \in Nat \ {0}
  BY ConstantsAssumption, Zenon DEF IndInv, TypeOK
<1>5. \A m \in Node : attempt'[m] = IF m \in ready THEN 1 ELSE attempt[m]
  BY <1>1, <1>4 DEF Ledger, AttemptsCounted
<1>6. AttemptsBounded'
  BY <1>2, <1>4, <1>5 DEF Ledger, AttemptsBounded
<1>7. AttemptsCounted'
  <2> SUFFICES ASSUME NEW m \in Node
               PROVE  /\ status'[m] = "PENDING" => attempt'[m] = 0
                      /\ Activated(m)' => attempt'[m] > 0
    BY Zenon DEF AttemptsCounted
  <2>1. CASE m \in ready
    BY <1>1, <1>5, <2>1
  <2>2. CASE m \notin ready /\ status[m] = "PENDING"
    BY <1>1, <1>5, <2>2, Zenon DEF Activated, Ledger, AttemptsCounted
  <2>3. CASE m \notin ready /\ status[m] # "PENDING"
    BY <1>1, <1>2, <1>5, <2>3, Zenon DEF Activated, Ledger, AttemptsCounted
  <2> QED
    BY <2>1, <2>2, <2>3, Zenon
<1>8. RetriesCounted'
  BY <1>2, <1>3, Zenon DEF Ledger, RetriesCounted
<1>9. DeadLetterJustified'
  <2> SUFFICES ASSUME NEW m \in Node, status'[m] = "DEAD_LETTERED"
               PROVE  /\ attempt'[m] >= MaxAttempts[m]
                      /\ dlqOpen'[m] + dlqResolved'[m] > 0
                      /\ execution' # "RUNNING"
    BY Zenon DEF DeadLetterJustified
  <2>1. status[m] = "DEAD_LETTERED" /\ m \notin ready
    BY <1>1, Zenon
  <2> QED
    BY <1>2, <1>5, <2>1, Zenon DEF Ledger, DeadLetterJustified
<1> QED
  BY <1>6, <1>7, <1>8, <1>9, Zenon DEF Ledger

(* A failure with attempts left counts one more; one without dead-letters  *)
(* the node with its job, and an execution read as RUNNING is FAILED.      *)
LEMMA FailedLedger ==
  ASSUME IndInv, Ledger, NEW p \in Runner, CompleteRetrying(p) \/ CompleteDeadLettered(p)
  PROVE  Ledger'
<1> DEFINE n == Job(p)
<1>1. n \in Node
  BY MessageInStream, JobIsNode, Zenon
  DEF CompleteRetrying, CompleteDeadLettered, Completing, IndInv, JobsKnown, Working
<1>2. /\ attempt \in [Node -> Nat] /\ retries \in [Node -> Nat] /\ status \in [Node -> NodeStatus]
      /\ dlqOpen \in [Node -> Nat] /\ dlqResolved \in [Node -> Nat]
      /\ MaxAttempts[n] \in Nat
  BY <1>1, ConstantsAssumption, Zenon DEF IndInv, TypeOK
<1>3. /\ UNCHANGED <<target, retries>> /\ Exists /\ status[n] = "RUNNING"
      /\ \A r \in Request : pc'[r] = pc[r]
  <2>1. /\ UNCHANGED <<target, retries>> /\ Exists /\ status[n] = "RUNNING"
        /\ \E to : pc' = [pc EXCEPT ![p] = to]
    BY Zenon DEF CompleteRetrying, CompleteDeadLettered, Completing, bounds
  <2>2. pc \in [Process -> ProgramCounter]
    BY Zenon DEF IndInv, TypeOK
  <2> QED
    BY <2>1, <2>2, ProcessFacts, Zenon
<1>4. RetriesCounted'
  BY <1>3, Zenon DEF Ledger, RetriesCounted
<1>5. CASE CompleteRetrying(p)
  <2>1. /\ status' = [status EXCEPT ![n] = "QUEUED"] /\ attempt[n] < MaxAttempts[n]
        /\ attempt' = [attempt EXCEPT ![n] = attempt[n] + 1]
        /\ UNCHANGED <<execution, dlqOpen, dlqResolved>>
    BY <1>1, <1>2, <1>5, Zenon DEF CompleteRetrying
  <2> HIDE DEF n
  <2>2. AttemptsBounded'
    BY <1>1, <1>2, <1>3, <2>1 DEF Ledger, AttemptsBounded
  <2>3. AttemptsCounted'
    BY <1>1, <1>2, <2>1 DEF Ledger, AttemptsCounted, Activated
  <2>4. DeadLetterJustified'
    BY <1>1, <1>2, <1>3, <2>1, Zenon DEF Ledger, DeadLetterJustified, Exists
  <2> QED
    BY <1>4, <2>2, <2>3, <2>4, Zenon DEF Ledger
<1>6. CASE CompleteDeadLettered(p)
  <2>1. /\ status' = [status EXCEPT ![n] = "DEAD_LETTERED"] /\ attempt[n] >= MaxAttempts[n]
        /\ dlqOpen' = [dlqOpen EXCEPT ![n] = dlqOpen[n] + 1]
        /\ UNCHANGED <<attempt, dlqResolved>>
    BY <1>1, <1>2, <1>6, Zenon DEF CompleteDeadLettered
  <2>2. execution' # "RUNNING"
    BY <1>6, Zenon DEF CompleteDeadLettered, Completing, IndInv, SeenIsStable
  <2> HIDE DEF n
  <2>3. AttemptsBounded' /\ AttemptsCounted'
    BY <1>1, <1>2, <1>3, <2>1, Zenon DEF Ledger, AttemptsBounded, AttemptsCounted, Activated
  <2>4. DeadLetterJustified'
    BY <1>1, <1>2, <1>3, <2>1, <2>2 DEF Ledger, DeadLetterJustified
  <2> QED
    BY <1>4, <2>3, <2>4, Zenon DEF Ledger
<1> QED
  BY <1>5, <1>6, Zenon

LEMMA RunnerLedger ==
  ASSUME IndInv, Ledger, NEW p \in Runner, RunnerStep(p)
  PROVE  Ledger'
<1>1. ASSUME CommitRunning(p) \/ RecoverCommit(p)
      PROVE  Ledger'
  <2>1. msg[p] # 0
    BY <1>1, Zenon DEF CommitRunning, RecoverCommit, IndInv, JobsKnown, Working
  <2>2. Job(p) \in Node /\ Activated(Job(p))
    BY <2>1, MessageInStream, JobIsNode, Zenon DEF IndInv, JobsActivated, StreamActivated, Job
  <2>3. /\ UNCHANGED <<execution, attempt, output, dlqOpen, dlqResolved, retries, target>>
        /\ \A r \in Request : pc'[r] = pc[r]
    BY <1>1, ProcessFacts DEF CommitRunning, RecoverCommit, bounds, IndInv, TypeOK
  <2>4. status' = status \/ \E s \in {"QUEUED", "RUNNING"} : status' = [status EXCEPT ![Job(p)] = s]
    BY <1>1, Zenon DEF CommitRunning, RecoverCommit
  <2>5. CASE status' = status
    BY <2>3, <2>5, QuietLedger, Zenon DEF rows
  <2> QED
    BY <2>2, <2>3, <2>4, <2>5, RewrittenLedger, Zenon
<1>2. ASSUME \/ FetchNode(p) \/ FetchRejected(p) \/ LoadContext(p) \/ Vanished(p)
             \/ CompleteSkipped(p) \/ Ack(p) \/ ClaimStale(p) \/ RecoverRead(p)
      PROVE  Ledger'
  <2>1. UNCHANGED <<rows, retries>>
    BY <1>2, Zenon DEF FetchNode, FetchRejected, LoadContext, Vanished, CompleteSkipped, Ack, ClaimStale,
                RecoverRead, bounds
  <2>2. \A r \in Request : pc'[r] = pc[r] /\ target'[r] = target[r]
    <3>1. CASE FetchRejected(p) \/ Vanished(p)
      BY <3>1, ProcessFacts, Zenon DEF FetchRejected, Vanished, Abandon
    <3>2. \/ target' = target /\ \A q \in Process : q # p => pc'[q] = pc[q]
          \/ FetchRejected(p) \/ Vanished(p)
      BY <1>2, Zenon DEF FetchNode, LoadContext, CompleteSkipped, Ack, ClaimStale, RecoverRead, IndInv,
             TypeOK
    <3> QED
      BY <3>1, <3>2, ProcessFacts, Zenon
  <2> QED
    BY <2>1, <2>2, QuietLedger, Zenon
<1> QED
  BY <1>1, <1>2, SucceededLedger, FailedLedger, Zenon DEF RunnerStep

LEMMA NextLedger == IndInv /\ Ledger /\ [Next]_vars => Ledger'
<1> SUFFICES ASSUME IndInv, Ledger, [Next]_vars PROVE Ledger'
  BY Zenon
<1>1. ASSUME NEW r \in Request, RetryRejected(r)
      PROVE  Ledger'
  BY <1>1, QuietLedger, ProcessFacts, Zenon DEF RetryRejected, bounds, IndInv, TypeOK
<1>2. ASSUME NEW r \in Request, RequestStep(r)
      PROVE  Ledger'
  BY <1>1, <1>2, StartLedger, RetryReadLedger, RetryCommitLedger, Zenon DEF RequestStep
<1>3. ASSUME NEW p \in Process, PublishStep(p)
      PROVE  Ledger'
  <2>1. UNCHANGED <<rows, retries>>
    BY <1>3, Zenon DEF PublishStep, Publish, Published, bounds
  <2>2. \A r \in Request : pc'[r] = "retrying" => pc[r] = "retrying" /\ target'[r] = target[r]
    BY <1>3, ProcessFacts DEF PublishStep, Publish, Published, IndInv, TypeOK
  <2> QED
    BY <2>1, <2>2, QuietLedger, Zenon
<1>4. ASSUME NEW w \in Worker, ReadGroup(w)
      PROVE  Ledger'
  <2>1. UNCHANGED <<rows, retries, target>>
    BY <1>4, Zenon DEF ReadGroup, bounds
  <2>2. \A r \in Request : pc'[r] = "retrying" => pc[r] = "retrying"
    BY <1>4, ProcessFacts, Zenon DEF ReadGroup
  <2> QED
    BY <2>1, <2>2, QuietLedger, Zenon
<1>5. ASSUME (\E p \in Process : Fault(p)) \/ (\E w \in Worker : Crash(w))
      PROVE  Ledger'
  <2>1. UNCHANGED <<rows, retries>> /\ \E ps : Abandon(ps)
    BY <1>5, Zenon DEF Fault, Crash
  <2>2. \A r \in Request : pc'[r] = "retrying" => pc[r] = "retrying" /\ target'[r] = target[r]
    BY <2>1, ProcessFacts, Zenon DEF Abandon
  <2> QED
    BY <2>1, <2>2, QuietLedger, Zenon
<1>6. CASE UNCHANGED vars
  BY <1>6, QuietLedger, Zenon DEF vars, local, bounds
<1> QED
  BY <1>2, <1>3, <1>4, <1>5, <1>6, RunnerLedger, OperatorLedger, Zenon DEF Next

LEMMA LedgerInvariant == Spec => [](IndInv /\ Ledger)
BY InitInd, InitLedger, NextInd, NextLedger, PTL DEF Spec

(* No node is run more often than max_attempts allows plus once for every  *)
(* call of retry_node, although retry_node writes the attempt it read      *)
(* before and a recovered node keeps its own.                              *)
THEOREM AttemptBound == Spec => []AttemptsBounded
<1>1. Ledger => AttemptsBounded
  BY Zenon DEF Ledger
<1> QED
  BY <1>1, LedgerInvariant, PTL

(* A node is dead-lettered only when its attempts are used up, with a job  *)
(* for the operator, and never in an execution that still is RUNNING.      *)
THEOREM DeadLettersJustified == Spec => []DeadLetterJustified
<1>1. Ledger => DeadLetterJustified
  BY Zenon DEF Ledger
<1> QED
  BY <1>1, LedgerInvariant, PTL

-----------------------------------------------------------------------------
(* Calls.                                                                  *)

(* The attempts that the policy and the retries so far allow a node.       *)
Allowed(n, granted) == 1 .. MaxAttempts[n] + granted[n]

CallTypes ==
  /\ attemptRead \in [Runner -> Nat]
  /\ result \in [Runner -> {<<>>, <<TRUE>>, <<FALSE>>}]
  /\ performed \subseteq Node \X Nat

(* A runner that works on a node has read an attempt that was allowed.     *)
ReadsAllowed == \A p \in Runner : Working(p) => attemptRead[p] \in Allowed(Job(p), retries)

KeysAllowed == \A k \in performed : k[2] \in Allowed(k[1], retries)

(* Only an executor that has returned leaves a result, and a success of a  *)
(* node means that a request of it was answered below 400.                 *)
ResultsEarned ==
  \A p \in Runner : result[p] # <<>> =>
    /\ pc[p] = "executing"
    /\ result[p] = <<TRUE>> => Job(p) \in accepted

OutputsEarned == \A n \in Node : output[n] => n \in accepted

CallInv == CallTypes /\ ReadsAllowed /\ KeysAllowed /\ ResultsEarned /\ OutputsEarned

LEMMA InitCall == InitCalls => CallInv
<1> SUFFICES ASSUME InitCalls PROVE CallInv
  BY Zenon
<1>1. /\ \A p \in Runner : pc[p] = "idle" /\ result[p] = <<>>
      /\ \A n \in Node : output[n] = FALSE
  BY ProcessFacts, Zenon DEF InitCalls, Init
<1>2. CallTypes /\ KeysAllowed
  BY Zenon DEF InitCalls, CallTypes, KeysAllowed
<1>3. ReadsAllowed
  BY <1>1, Zenon DEF ReadsAllowed, Working
<1>4. ResultsEarned /\ OutputsEarned
  BY <1>1, Zenon DEF ResultsEarned, OutputsEarned
<1> QED
  BY <1>2, <1>3, <1>4, Zenon DEF CallInv

(* The engine with its executors takes the engine's steps.                 *)
LEMMA EngineStep == [NextCalls]_callVars => [Next]_vars
<1>1. ASSUME NEW p \in Runner, ReadNode(p) \/ Execute(p) \/ Complete(p)
      PROVE  [Next]_vars
  BY <1>1, Zenon DEF ReadNode, Execute, Complete, Next, RunnerStep
<1>2. ASSUME NEW p \in Runner,
             Forgotten(FetchRejected(p) \/ CommitRunning(p) \/ LoadContext(p)
                       \/ Vanished(p) \/ Ack(p) \/ ClaimStale(p) \/ RecoverCommit(p))
      PROVE  [Next]_vars
  BY <1>2, Zenon DEF Forgotten, Next, RunnerStep
<1>3. ASSUME NEW p \in Process, Forgotten(PublishStep(p) \/ Fault(p))
      PROVE  [Next]_vars
  BY <1>3, Zenon DEF Forgotten, Next
<1>4. ASSUME NEW w \in Worker, Forgotten(ReadGroup(w) \/ Crash(w))
      PROVE  [Next]_vars
  BY <1>4, Zenon DEF Forgotten, Next
<1>5. ASSUME \/ \E r \in Request : Forgotten(RequestStep(r))
             \/ \E n \in Node : Forgotten(ResolveDlqJob(n))
             \/ Forgotten(DeleteExecution)
      PROVE  [Next]_vars
  BY <1>5, Zenon DEF Forgotten, Next
<1>6. UNCHANGED callVars => UNCHANGED vars
  BY Zenon DEF callVars
<1> QED
  BY <1>1, <1>2, <1>3, <1>4, <1>5, <1>6, Zenon DEF NextCalls

(* XADD appends, and calls of retry_node are only counted up.              *)
LEMMA Grows ==
  ASSUME IndInv, [Next]_vars
  PROVE  /\ \A i \in 1 .. Len(stream) : stream'[i] = stream[i]
         /\ \A n \in Node : retries'[n] = retries[n] \/ retries'[n] = retries[n] + 1
<1>1. ASSUME NEW p \in Process, NEW n \in Node, Publish(p, n)
      PROVE  (\A i \in 1 .. Len(stream) : stream'[i] = stream[i]) /\ retries' = retries
  BY <1>1 DEF Publish, bounds, IndInv, TypeOK
<1>2. ASSUME NEW r \in Request, NEW n \in Node, RetryRead(r, n)
      PROVE  stream' = stream /\ \A m \in Node : retries'[m] = retries[m] \/ retries'[m] = retries[m] + 1
  BY <1>2, Zenon DEF RetryRead, redis, IndInv, TypeOK
<1>3. ASSUME NEW r \in Request, StartExecution(r) \/ RetryCommit(r) \/ RetryRejected(r)
      PROVE  stream' = stream /\ retries' = retries
  BY <1>3, Zenon DEF StartExecution, RetryCommit, RetryRejected, redis, bounds
<1>4. ASSUME NEW p \in Runner, RunnerStep(p)
      PROVE  stream' = stream /\ retries' = retries
  BY <1>4, Zenon DEF RunnerStep, FetchNode, FetchRejected, CommitRunning, LoadContext, Vanished,
              CompleteSkipped, CompleteSucceeded, CompleteRetrying, CompleteDeadLettered, Ack,
              ClaimStale, RecoverRead, RecoverCommit, redis, bounds
<1>5. ASSUME \/ \E p \in Process : Published(p) \/ Fault(p)
             \/ \E w \in Worker : ReadGroup(w) \/ Crash(w)
             \/ \E n \in Node : ResolveDlqJob(n)
             \/ DeleteExecution
             \/ UNCHANGED vars
      PROVE  stream' = stream /\ retries' = retries
  BY <1>5, Zenon DEF Published, Fault, ReadGroup, Crash, ResolveDlqJob, DeleteExecution, redis, bounds,
         vars
<1> QED
  BY <1>1, <1>2, <1>3, <1>4, <1>5, Zenon DEF Next, RequestStep, PublishStep

(* A runner that works on the message it had works on the same node, and   *)
(* what was allowed stays allowed.                                         *)
LEMMA SameJob ==
  ASSUME IndInv, IndInv', [Next]_vars
  PROVE  /\ \A p \in Runner : msg'[p] = msg[p] /\ msg[p] # 0 => Job(p)' = Job(p) /\ Job(p) \in Node
         /\ \A p \in Runner : Working(p) => msg[p] # 0 /\ Job(p) \in Node
         /\ \A n \in Node : Allowed(n, retries) \subseteq Allowed(n, retries') /\ Allowed(n, retries) \subseteq Nat
<1>1. \A p \in Runner : msg[p] # 0 => msg[p] \in 1 .. Len(stream) /\ Job(p) \in Node
  BY MessageInStream, JobIsNode, Zenon DEF IndInv
<1>2. \A p \in Runner : Working(p) => msg[p] # 0
  BY Zenon DEF IndInv, JobsKnown
<1>3. \A p \in Runner : msg'[p] = msg[p] /\ msg[p] # 0 => Job(p)' = Job(p)
  BY <1>1, Grows, Zenon DEF Job
<1>4. \A n \in Node : retries[n] \in Nat /\ MaxAttempts[n] \in Nat
  BY ConstantsAssumption, Zenon DEF IndInv, TypeOK
<1>5. \A n \in Node : Allowed(n, retries) \subseteq Allowed(n, retries') /\ Allowed(n, retries) \subseteq Nat
  BY <1>4, Grows DEF Allowed
<1> QED
  BY <1>1, <1>2, <1>3, <1>5, Zenon

(* A step that takes no runner to work, and an executing one nowhere but   *)
(* to its end, keeps what the runners hold.                                *)
LEMMA ForgottenKeeps ==
  ASSUME IndInv, IndInv', CallInv, [Next]_vars, output' = output, UNCHANGED <<performed, accepted>>,
         result' = [p \in Runner |-> IF pc'[p] = "idle" THEN <<>> ELSE result[p]],
         attemptRead' = [p \in Runner |-> IF pc'[p] = "idle" THEN 0 ELSE attemptRead[p]],
         \A p \in Runner : Working(p)' => Working(p) /\ msg'[p] = msg[p],
         \A p \in Runner : pc[p] = "executing" => pc'[p] \in {"executing", "idle"}
  PROVE  CallInv'
<1>1. CallTypes'
  BY Zenon DEF CallInv, CallTypes
<1>2. ReadsAllowed'
  <2> SUFFICES ASSUME NEW p \in Runner, Working(p)'
               PROVE  attemptRead'[p] \in Allowed(Job(p)', retries')
    BY Zenon DEF ReadsAllowed
  <2>1. Working(p) /\ Job(p)' = Job(p) /\ Job(p) \in Node /\ pc'[p] # "idle"
    BY SameJob, Zenon DEF Working
  <2> QED
    BY <2>1, SameJob, Zenon DEF CallInv, ReadsAllowed
<1>3. KeysAllowed'
  BY SameJob, Zenon DEF CallInv, CallTypes, KeysAllowed
<1>4. ResultsEarned'
  <2> SUFFICES ASSUME NEW p \in Runner, result'[p] # <<>>
               PROVE  /\ pc'[p] = "executing"
                      /\ result'[p] = <<TRUE>> => Job(p)' \in accepted
    BY Zenon DEF ResultsEarned
  <2>1. pc'[p] # "idle" /\ result'[p] = result[p]
    BY Zenon
  <2>2. pc[p] = "executing" /\ pc'[p] = "executing"
    BY <2>1, Zenon DEF CallInv, ResultsEarned
  <2>3. Job(p)' = Job(p)
    BY <2>2, SameJob, Zenon DEF Working
  <2> QED
    BY <2>1, <2>2, <2>3, Zenon DEF CallInv, ResultsEarned
<1>5. OutputsEarned'
  BY Zenon DEF CallInv, OutputsEarned
<1> QED
  BY <1>1, <1>2, <1>3, <1>4, <1>5, Zenon DEF CallInv

(* Where the steps that call no executor and complete nothing take a       *)
(* runner.                                                                 *)
Quiet ==
  /\ output' = output
  /\ \A p \in Runner : Working(p)' => Working(p) /\ msg'[p] = msg[p]
  /\ \A p \in Runner : pc[p] = "executing" => pc'[p] \in {"executing", "idle"}

(* A runner that moves on with its message, or stops.                      *)
LEMMA RunnerQuiet ==
  ASSUME IndInv, NEW p \in Runner,
         \/ FetchRejected(p) \/ CommitRunning(p) \/ LoadContext(p) \/ Vanished(p)
         \/ Ack(p) \/ ClaimStale(p) \/ RecoverCommit(p)
  PROVE  Quiet
<1> USE ProcessFacts
<1>1. CASE FetchRejected(p) \/ Vanished(p)
  <2>1. Abandon({p}) /\ output' = output
    BY <1>1, Zenon DEF FetchRejected, Vanished, rows
  <2>2. \A q \in Runner : pc'[q] = "idle" \/ (pc'[q] = pc[q] /\ msg'[q] = msg[q])
    BY <2>1, Zenon DEF Abandon
  <2> QED
    BY <2>1, <2>2, Zenon DEF Quiet, Working
<1>2. CASE CommitRunning(p) \/ LoadContext(p) \/ RecoverCommit(p)
  BY <1>2, Zenon DEF CommitRunning, LoadContext, RecoverCommit, Quiet, Working, rows, IndInv, TypeOK
<1>3. CASE Ack(p) \/ ClaimStale(p)
  BY <1>3, Zenon DEF Ack, ClaimStale, Quiet, Working, rows, IndInv, TypeOK
<1> QED
  BY <1>1, <1>2, <1>3, Zenon

(* The steps of the others leave the runners where they are, hand them     *)
(* messages, or end them.                                                  *)
LEMMA OthersQuiet ==
  ASSUME IndInv,
         \/ \E r \in Request : RequestStep(r)
         \/ \E p \in Process : PublishStep(p) \/ Fault(p)
         \/ \E w \in Worker : ReadGroup(w) \/ Crash(w)
         \/ \E n \in Node : ResolveDlqJob(n)
         \/ DeleteExecution
  PROVE  Quiet
<1> USE ProcessFacts
<1>1. ASSUME NEW r \in Request, RequestStep(r)
      PROVE  Quiet
  BY <1>1, Zenon DEF RequestStep, StartExecution, RetryRead, RetryCommit, RetryRejected, Quiet, Working,
         rows, IndInv, TypeOK
<1>2. ASSUME NEW p \in Process, PublishStep(p)
      PROVE  Quiet
  BY <1>2, Zenon DEF PublishStep, Publish, Published, Quiet, Working, rows, IndInv, TypeOK
<1>3. ASSUME NEW ps, Abandon(ps), UNCHANGED rows
      PROVE  Quiet
  BY <1>3, Zenon DEF Abandon, Quiet, Working, rows
<1>4. ASSUME NEW w \in Worker, ReadGroup(w)
      PROVE  Quiet
  <2>1. \A p \in Runner : pc'[p] = "fetched" \/ (pc'[p] = pc[p] /\ msg'[p] = msg[p])
    BY <1>4, Zenon DEF ReadGroup
  <2>2. \A p \in Runner : pc'[p] = "fetched" => pc[p] # "executing"
    <3> DEFINE available == Len(stream) - delivered
               k == IF available < PollCount THEN available ELSE PollCount
    <3>1. \A p \in Runner : pc'[p] = pc[p] \/ p \in {w} \X (1 .. k)
      BY <1>4, Zenon DEF ReadGroup
    <3>2. 1 .. k \subseteq 1 .. PollCount
      BY ConstantsAssumption DEF IndInv, TypeOK
    <3>3. \A i \in 1 .. PollCount : pc[<<w, i>>] = "idle"
      BY <1>4, Zenon DEF ReadGroup
    <3> HIDE DEF k
    <3>4. \A p \in {w} \X (1 .. k) : pc[p] = "idle"
      <4>1. \A i \in 1 .. k : pc[<<w, i>>] = "idle"
        BY <3>2, <3>3, Zenon
      <4>2. \A p \in {w} \X (1 .. k) : \E i \in 1 .. k : p = <<w, i>>
        <5> HIDE ProcessFacts
        <5> QED
          OBVIOUS
      <4> QED
        BY <4>1, <4>2, Zenon
    <3> QED
      BY <3>1, <3>4, Zenon
  <2> QED
    BY <1>4, <2>1, <2>2, Zenon DEF ReadGroup, Quiet, Working, rows
<1>5. ASSUME DeleteExecution \/ \E n \in Node : ResolveDlqJob(n)
      PROVE  Quiet
  BY <1>5, Zenon DEF DeleteExecution, ResolveDlqJob, Quiet, Working, local
<1> QED
  BY <1>1, <1>2, <1>3, <1>4, <1>5, Zenon DEF Fault, Crash

(* The session reads an attempt of a node that was queued.                 *)
LEMMA ReadNodeCall ==
  ASSUME IndInv, IndInv', Ledger, CallInv, NEW p \in Runner, ReadNode(p)
  PROVE  CallInv'
<1> USE ProcessFacts
<1>1. /\ UNCHANGED <<rows, redis, retries, result, performed, accepted>>
      /\ \A q \in Runner \ {p} : pc'[q] = pc[q] /\ msg'[q] = msg[q]
      /\ pc[p] = "fetched"
  BY Zenon DEF ReadNode, FetchNode, RecoverRead, bounds, IndInv, TypeOK
<1>2. /\ attemptRead' = [attemptRead EXCEPT ![p] =
                           IF pc'[p] = "acking" THEN 0 ELSE attempt[stream[msg'[p]]]]
      /\ stream' = stream
  BY <1>1, Zenon DEF ReadNode, redis
<1>3. [Next]_vars
  BY Zenon DEF ReadNode, Next, RunnerStep
<1>4. pc'[p] # "acking" => Working(p)'
  BY DEF ReadNode, FetchNode, RecoverRead, Working, IndInv, TypeOK
<1>5. Working(p)' => /\ msg'[p] \in 1 .. Len(stream) /\ Job(p)' = stream[msg'[p]]
                     /\ Job(p)' \in Node /\ Activated(stream[msg'[p]])
  <2> SUFFICES ASSUME Working(p)'
               PROVE  /\ msg'[p] \in 1 .. Len(stream) /\ stream[msg'[p]] \in Node
                      /\ Activated(stream[msg'[p]])
    BY <1>2, Zenon DEF Job
  <2>1. msg'[p] # 0 /\ msg'[p] \in 0 .. delivered' /\ delivered' \in 0 .. Len(stream')
    BY Zenon DEF IndInv, JobsKnown, TypeOK
  <2>2. stream \in Seq(Node) /\ Len(stream) \in Nat
    BY DEF IndInv, TypeOK
  <2>3. msg'[p] \in 1 .. Len(stream)
    <3> HIDE ProcessFacts
    <3>1. Len(stream') = Len(stream)
      BY <1>2, Zenon
    <3> QED
      BY <2>1, <2>2, <3>1
  <2>4. stream[msg'[p]] \in Node
    <3> HIDE ProcessFacts
    <3> QED
      BY <2>2, <2>3
  <2>5. Activated(stream[msg'[p]])
    BY <2>3, Zenon DEF IndInv, JobsActivated, StreamActivated
  <2> QED
    BY <2>3, <2>4, <2>5, Zenon
<1>6. Working(p)' => attempt[stream[msg'[p]]] \in Allowed(Job(p)', retries')
  <2> SUFFICES ASSUME Working(p)' PROVE attempt[stream[msg'[p]]] \in Allowed(Job(p)', retries')
    BY Zenon
  <2> DEFINE n == Job(p)'
  <2>1. n \in Node /\ n = stream[msg'[p]] /\ Activated(n)
    BY <1>5, Zenon
  <2> HIDE DEF n
  <2>2. attempt[n] > 0 /\ attempt[n] <= MaxAttempts[n] + retries[n] /\ attempt[n] \in Nat
    BY <2>1, Zenon DEF Ledger, AttemptsCounted, AttemptsBounded, IndInv, TypeOK
  <2>3. MaxAttempts[n] \in Nat /\ retries[n] \in Nat /\ retries' = retries
    BY <1>1, <2>1, ConstantsAssumption, Zenon DEF IndInv, TypeOK
  <2>4. attempt[n] \in 1 .. MaxAttempts[n] + retries[n]
    <3> HIDE ProcessFacts
    <3> QED
      BY <2>2, <2>3
  <2> QED
    BY <2>1, <2>3, <2>4, Zenon DEF Allowed, n
<1>7. \A q \in Runner \ {p} : Job(q)' = Job(q) /\ Working(q)' = Working(q)
  BY <1>1, <1>2, Zenon DEF Job, Working
<1>8. CallTypes'
  <2>1. attemptRead'[p] \in Nat
    BY <1>2, <1>4, <1>5, Zenon DEF CallInv, CallTypes, IndInv, TypeOK
  <2> QED
    BY <1>1, <1>2, <2>1, Zenon DEF CallInv, CallTypes
<1>9. ReadsAllowed'
  <2>1. Working(p)' => attemptRead'[p] \in Allowed(Job(p)', retries')
    BY <1>2, <1>6, Zenon DEF CallInv, CallTypes, Working
  <2>2. \A q \in Runner \ {p} : attemptRead'[q] = attemptRead[q]
    BY <1>2, Zenon DEF CallInv, CallTypes
  <2>3. \A q \in Runner \ {p} : Working(q)' => attemptRead'[q] \in Allowed(Job(q)', retries')
    BY <1>1, <1>7, <2>2, Zenon DEF CallInv, ReadsAllowed
  <2> QED
    BY <2>1, <2>3, Zenon DEF ReadsAllowed
<1>10. KeysAllowed' /\ OutputsEarned'
  BY <1>1, Zenon DEF CallInv, KeysAllowed, OutputsEarned, rows
<1>11. ResultsEarned'
  <2>1. result[p] = <<>>
    BY <1>1, Zenon DEF CallInv, ResultsEarned
  <2> SUFFICES ASSUME NEW q \in Runner, result'[q] # <<>>
               PROVE  /\ pc'[q] = "executing"
                      /\ result'[q] = <<TRUE>> => Job(q)' \in accepted'
    BY Zenon DEF ResultsEarned
  <2>2. q # p /\ result'[q] = result[q] /\ accepted' = accepted
    BY <1>1, <2>1, Zenon
  <2>3. pc'[q] = pc[q] /\ Job(q)' = Job(q)
    BY <1>1, <1>7, <2>2, Zenon
  <2> QED
    BY <2>2, <2>3, Zenon DEF CallInv, ResultsEarned
<1> QED
  BY <1>8, <1>9, <1>10, <1>11, Zenon DEF CallInv

(* The executor sends the key of the attempt that the session has read,    *)
(* and a success is an answer below 400.                                   *)
LEMMA ExecuteCall ==
  ASSUME IndInv, CallInv, NEW p \in Runner, Execute(p)
  PROVE  CallInv'
<1>1. UNCHANGED vars /\ attemptRead' = attemptRead /\ pc[p] = "executing" /\ result[p] = <<>>
  BY Zenon DEF Execute
<1>2. /\ UNCHANGED <<stream, retries, output, pc, msg>> /\ \A q \in Runner : Job(q)' = Job(q)
      /\ \A q \in Runner : Working(q)' = Working(q)
  BY <1>1, Zenon DEF vars, rows, redis, local, bounds, Job, Working
<1>3. Job(p) \in Node /\ Working(p)
  BY <1>1, MessageInStream, JobIsNode, Zenon DEF IndInv, JobsKnown, Working
<1>4. PICK o \in Outcomes(Type[Job(p)]) :
        /\ result' = [result EXCEPT ![p] = <<o.success>>]
        /\ performed' = IF o.remote THEN performed \cup {<<Job(p), attemptRead[p]>>} ELSE performed
        /\ accepted' = IF o.success THEN accepted \cup {Job(p)} ELSE accepted
  BY Zenon DEF Execute, IdempotencyKey
<1>5. o.success \in BOOLEAN /\ o.remote \in BOOLEAN
  <2>1. Type[Job(p)] \in Registered
    BY <1>3, TypeAssumption, Zenon
  <2>2. ASSUME NEW s \in BOOLEAN, NEW r \in BOOLEAN
        PROVE  [success |-> s, remote |-> r].success = s /\ [success |-> s, remote |-> r].remote = r
    BY Zenon
  <2>3. \A x \in RequestOutcomes : x.success \in BOOLEAN /\ x.remote \in BOOLEAN
    BY <2>2, Zenon DEF RequestOutcomes, Success, Failure
  <2>4. Success \in RequestOutcomes /\ Failure \in RequestOutcomes
    BY Zenon DEF RequestOutcomes
  <2>5. o \in RequestOutcomes
    BY <1>4, <2>1, <2>4, Zenon DEF Outcomes, Registered
  <2> QED
    BY <2>3, <2>5, Zenon
<1>6. attemptRead[p] \in Nat /\ attemptRead[p] \in Allowed(Job(p), retries)
  BY <1>3, Zenon DEF CallInv, CallTypes, ReadsAllowed
<1>7. CallTypes'
  <2>1. <<o.success>> \in {<<>>, <<TRUE>>, <<FALSE>>}
    BY <1>5, Zenon
  <2>2. result' \in [Runner -> {<<>>, <<TRUE>>, <<FALSE>>}]
    BY <1>4, <2>1, Zenon DEF CallInv, CallTypes
  <2>3. performed' \subseteq Node \X Nat
    BY <1>3, <1>4, <1>6 DEF CallInv, CallTypes
  <2> QED
    BY <1>1, <2>2, <2>3, Zenon DEF CallInv, CallTypes
<1>8. ReadsAllowed'
  BY <1>1, <1>2, Zenon DEF CallInv, ReadsAllowed
<1>9. KeysAllowed'
  BY <1>2, <1>4, <1>6 DEF CallInv, KeysAllowed
<1>10. accepted \subseteq accepted'
  BY <1>4, Zenon
<1>11. ResultsEarned'
  <2>1. ASSUME NEW q \in Runner, q # p, result'[q] # <<>>
        PROVE  pc'[q] = "executing" /\ (result'[q] = <<TRUE>> => Job(q) \in accepted')
    <3>1. result'[q] = result[q]
      BY <1>4, <2>1, Zenon DEF CallInv, CallTypes
    <3> QED
      BY <1>2, <1>10, <2>1, <3>1, Zenon DEF CallInv, ResultsEarned
  <2>2. ASSUME result'[p] = <<TRUE>>
        PROVE  Job(p) \in accepted'
    <3>1. <<o.success>> = <<TRUE>>
      BY <1>4, <2>2, Zenon DEF CallInv, CallTypes
    <3>2. o.success
      BY <3>1, Zenon
    <3> QED
      BY <1>4, <3>2, Zenon
  <2> QED
    BY <1>1, <1>2, <2>1, <2>2, Zenon DEF ResultsEarned
<1>12. OutputsEarned'
  BY <1>2, <1>10, Zenon DEF CallInv, OutputsEarned
<1> QED
  BY <1>7, <1>8, <1>9, <1>11, <1>12, Zenon DEF CallInv

(* Only a success gives a node its output.                                 *)
LEMMA CompleteCall ==
  ASSUME IndInv, CallInv, NEW p \in Runner, Complete(p)
  PROVE  CallInv'
<1> USE ProcessFacts
<1>1. /\ result[p] # <<>> /\ UNCHANGED <<stream, retries, msg, performed, accepted>>
      /\ result' = [result EXCEPT ![p] = <<>>] /\ attemptRead' = [attemptRead EXCEPT ![p] = 0]
  BY Zenon DEF Complete, CompleteSkipped, CompleteSucceeded, CompleteRetrying, CompleteDeadLettered,
         redis, bounds
<1>2. pc'[p] \in {"acking", "publishing"} /\ \A q \in Runner \ {p} : pc'[q] = pc[q]
  BY Zenon DEF Complete, CompleteSkipped, CompleteSucceeded, CompleteRetrying, CompleteDeadLettered,
         IndInv, TypeOK
<1>3. \/ output' = output
      \/ result[p] = <<TRUE>> /\ output' = [output EXCEPT ![Job(p)] = TRUE]
  BY Zenon DEF Complete, CompleteSkipped, CompleteSucceeded, CompleteRetrying, CompleteDeadLettered, rows
<1>4. /\ \A q \in Runner : Job(q)' = Job(q)
      /\ \A q \in Runner \ {p} : Working(q)' = Working(q)
      /\ ~Working(p)'
  BY <1>1, <1>2, Zenon DEF Job, Working
<1>5. CallTypes'
  BY <1>1, Zenon DEF CallInv, CallTypes
<1>6. ReadsAllowed'
  <2>1. \A q \in Runner \ {p} : attemptRead'[q] = attemptRead[q]
    BY <1>1, Zenon DEF CallInv, CallTypes
  <2> QED
    BY <1>1, <1>4, <2>1, Zenon DEF CallInv, ReadsAllowed
<1>7. KeysAllowed'
  BY <1>1, Zenon DEF CallInv, KeysAllowed
<1>8. ResultsEarned'
  <2>1. result'[p] = <<>> /\ \A q \in Runner \ {p} : result'[q] = result[q]
    BY <1>1, Zenon DEF CallInv, CallTypes
  <2> SUFFICES ASSUME NEW q \in Runner, result'[q] # <<>>
               PROVE  /\ pc'[q] = "executing"
                      /\ result'[q] = <<TRUE>> => Job(q)' \in accepted'
    BY Zenon DEF ResultsEarned
  <2>2. q # p /\ result'[q] = result[q] /\ accepted' = accepted
    BY <1>1, <2>1, Zenon
  <2>3. pc'[q] = pc[q] /\ Job(q)' = Job(q)
    BY <1>2, <1>4, <2>2, Zenon
  <2> QED
    BY <2>2, <2>3, Zenon DEF CallInv, ResultsEarned
<1>9. OutputsEarned'
  <2> SUFFICES ASSUME NEW n \in Node, output'[n]
               PROVE  n \in accepted
    BY <1>1, Zenon DEF OutputsEarned
  <2>1. output[n] \/ (result[p] = <<TRUE>> /\ Job(p) = n)
    BY <1>3, Zenon DEF IndInv, TypeOK
  <2> QED
    BY <1>1, <2>1, Zenon DEF CallInv, OutputsEarned, ResultsEarned
<1> QED
  BY <1>5, <1>6, <1>7, <1>8, <1>9, Zenon DEF CallInv

LEMMA NextCallInv ==
  IndInv /\ IndInv' /\ Ledger /\ CallInv /\ [NextCalls]_callVars => CallInv'
<1> SUFFICES ASSUME IndInv, IndInv', Ledger, CallInv, [NextCalls]_callVars PROVE CallInv'
  BY Zenon
<1>1. CASE UNCHANGED callVars
  BY <1>1, Zenon DEF callVars, calls, vars, rows, redis, local, bounds, CallInv, CallTypes, ReadsAllowed,
              KeysAllowed, ResultsEarned, OutputsEarned, Working, Job
<1>2. ASSUME Quiet, UNCHANGED <<performed, accepted>>,
             result' = [p \in Runner |-> IF pc'[p] = "idle" THEN <<>> ELSE result[p]],
             attemptRead' = [p \in Runner |-> IF pc'[p] = "idle" THEN 0 ELSE attemptRead[p]]
      PROVE  CallInv'
  BY <1>2, EngineStep, ForgottenKeeps, Zenon DEF Quiet
<1>3. ASSUME NEW p \in Runner,
             Forgotten(FetchRejected(p) \/ CommitRunning(p) \/ LoadContext(p)
                       \/ Vanished(p) \/ Ack(p) \/ ClaimStale(p) \/ RecoverCommit(p))
      PROVE  CallInv'
  BY <1>2, <1>3, RunnerQuiet, Zenon DEF Forgotten
<1>4. ASSUME \/ \E r \in Request : Forgotten(RequestStep(r))
             \/ \E p \in Process : Forgotten(PublishStep(p) \/ Fault(p))
             \/ \E w \in Worker : Forgotten(ReadGroup(w) \/ Crash(w))
             \/ \E n \in Node : Forgotten(ResolveDlqJob(n))
             \/ Forgotten(DeleteExecution)
      PROVE  CallInv'
  BY <1>2, <1>4, OthersQuiet, Zenon DEF Forgotten
<1> QED
  BY <1>1, <1>3, <1>4, ReadNodeCall, ExecuteCall, CompleteCall, Zenon DEF NextCalls

(* The engine with its executors is the engine: whatever ExecutionEngine   *)
(* promises holds of it.                                                   *)
THEOREM CallsImplementEngine == SpecCalls => Spec
<1>1. InitCalls => Init
  BY Zenon DEF InitCalls
<1> QED
  BY <1>1, EngineStep, PTL DEF SpecCalls, Spec

LEMMA CallInvariant == SpecCalls => [](IndInv /\ CallInv)
<1>1. SpecCalls => [](IndInv /\ Ledger)
  BY CallsImplementEngine, LedgerInvariant, PTL
<1> QED
  BY <1>1, InitCall, NextCallInv, PTL DEF SpecCalls

(* A request node has an output only if one of its requests was answered   *)
(* below 400, although a late result of one attempt may complete another.  *)
THEOREM OutputsAreAnswered == SpecCalls => []OutputIsAnswered
<1>1. CallInv => OutputIsAnswered
  BY Zenon DEF CallInv, OutputsEarned, OutputIsAnswered, Remote
<1> QED
  BY <1>1, CallInvariant, PTL

LEMMA SumNat == ASSUME NEW a \in Nat, NEW c \in Nat PROVE a + c \in Nat
OBVIOUS

(* The keys of a node are bounded by its attempts: the remote side acts no *)
(* more often than max_attempts and the operators' retries allow, however  *)
(* often the node is recovered, duplicated or run twice at once.           *)
THEOREM EffectBound == SpecCalls => []EffectsBounded
<1>1. IndInv /\ CallInv => EffectsBounded
  <2> SUFFICES ASSUME IndInv, CallInv, NEW n \in Node
               PROVE  Cardinality({k \in performed : k[1] = n}) <= MaxAttempts[n] + retries[n]
    BY Zenon DEF EffectsBounded
  <2> DEFINE S == {k \in performed : k[1] = n}
             b == MaxAttempts[n] + retries[n]
             f == [k \in S |-> k[2]]
  <2>1. b \in Nat
    <3>1. MaxAttempts[n] \in Nat /\ retries[n] \in Nat
      BY ConstantsAssumption, Zenon DEF IndInv, TypeOK
    <3> QED
      BY <3>1, SumNat, Zenon
  <2>2. \A k \in S : k = <<n, k[2]>> /\ k[2] \in 1 .. b
    BY DEF CallInv, CallTypes, KeysAllowed, Allowed
  <2> HIDE DEF S, b
  <2>3. f \in Injection(S, 1 .. b)
    BY <2>2, Zenon DEF Injection, IsInjective
  <2>4. IsFiniteSet(1 .. b) /\ Cardinality(1 .. b) = b
    BY <2>1, FS_Interval
  <2>5. Cardinality(S) <= b
    BY <2>3, <2>4, FS_Injection
  <2> QED
    BY <2>5, Zenon DEF S, b
<1> QED
  BY <1>1, CallInvariant, PTL

=============================================================================
