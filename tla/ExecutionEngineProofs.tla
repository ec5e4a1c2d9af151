----------------------- MODULE ExecutionEngineProofs ------------------------
(***************************************************************************)
(* The safety properties of ExecutionEngine, and that it implements        *)
(* WorkflowRun, for every graph, every number of workers and requests, and *)
(* every bound on faults, slow jobs, retries and deletions.                *)
(***************************************************************************)
EXTENDS ExecutionEngine, TLAPS

-----------------------------------------------------------------------------
(* The initial state and each step preserve the inductive invariant: the   *)
(* requests of the API, publishing, the consumer loop and the recovery     *)
(* loop, and the completion that ends process_job.                         *)

(* Requests are not runners: a process is one or the other.                *)
LEMMA ProcessFacts ==
  /\ Slot \subseteq Runner /\ Recoverer \subseteq Runner
  /\ Runner \subseteq Process /\ Request \subseteq Process
  /\ Request \cap Runner = {}
  /\ \A w \in Worker : {w} \X (0 .. PollCount) \subseteq Runner
BY ConstantsAssumption DEF Process, Runner, Slot, Recoverer

(* The message of a working runner names a node.                           *)
LEMMA JobIsNode ==
  ASSUME TypeOK, NEW p \in Runner, msg[p] \in 1 .. Len(stream)
  PROVE  Job(p) \in Node
BY DEF TypeOK, Job

(* A runner that has a message has one of the stream.                      *)
LEMMA MessageInStream ==
  ASSUME TypeOK, JobsKnown, NEW p \in Runner, msg[p] # 0
  PROVE  msg[p] \in 1 .. Len(stream)
<1>1. msg[p] \in 0 .. delivered /\ delivered \in 0 .. Len(stream) /\ Len(stream) \in Nat
  BY DEF TypeOK, JobsKnown
<1> QED
  BY <1>1

(* A slot is not a recovery loop.                                          *)
LEMMA SlotFacts == Slot \cap Recoverer = {}
BY DEF Slot, Recoverer

(* CREATED -> RUNNING has a root to queue.                                 *)
LEMMA RootsExist == Roots # {} /\ Roots \subseteq Node
BY ConstantsAssumption DEF Roots, Parents

LEMMA InitInd == Init => IndInv
<1> SUFFICES ASSUME Init PROVE IndInv
  BY Zenon
<1>1. TypeOK
  BY DEF Init, TypeOK, ExecutionStatus, NodeStatus, ProgramCounter, NoTarget
<1>2. JobsKnown
  BY ProcessFacts DEF Init, JobsKnown, Working
<1>3. JobsActivated
  BY ProcessFacts DEF Init, JobsActivated, AbsentIsEmpty,
         StreamActivated, OutboxActivated, TargetActivated, NoTarget
<1>4. OutputsConsistent /\ UpstreamOutputsAvailable /\ SkippedToTheEnd
  BY Zenon DEF Init, OutputsConsistent, UpstreamOutputsAvailable, SkippedToTheEnd, Activated
<1>5. SeenIsStable
  BY ProcessFacts, Zenon DEF Init, SeenIsStable
<1>6. FinishedIsFinal /\ SucceededIsComplete
  BY Zenon DEF Init, FinishedIsFinal, SucceededIsComplete
<1> QED
  BY <1>1, <1>2, <1>3, <1>4, <1>5, <1>6, Zenon DEF IndInv

-----------------------------------------------------------------------------
(* What the actions have in common.                                        *)

(* The properties that speak of the rows only survive a step that leaves   *)
(* the rows alone.                                                         *)
LEMMA SameRows ==
  ASSUME IndInv, UNCHANGED rows
  PROVE  /\ OutputsConsistent' /\ UpstreamOutputsAvailable' /\ SkippedToTheEnd'
         /\ FinishedIsFinal' /\ SucceededIsComplete'
BY Zenon DEF IndInv, rows, OutputsConsistent, UpstreamOutputsAvailable, SkippedToTheEnd,
       FinishedIsFinal, SucceededIsComplete, Activated, Terminal

(* A step that only writes QUEUED or RUNNING into nodes that were queued   *)
(* before keeps them too, as long as the execution keeps its status.       *)
LEMMA Rewritten ==
  ASSUME IndInv, NEW n \in Node, Activated(n), NEW s \in {"QUEUED", "RUNNING"},
         status' = [status EXCEPT ![n] = s],
         execution' = execution, output' = output
  PROVE  /\ OutputsConsistent' /\ UpstreamOutputsAvailable' /\ SkippedToTheEnd'
         /\ FinishedIsFinal' /\ SucceededIsComplete'
         /\ \A m \in Node : Activated(m)' <=> Activated(m)
<1> USE DEF IndInv, Activated
<1>0. status \in [Node -> NodeStatus]
  BY Zenon DEF TypeOK
<1>1. \A m \in Node : Activated(m)' <=> Activated(m)
  BY <1>0, Zenon
<1>2. OutputsConsistent' /\ UpstreamOutputsAvailable'
  BY <1>0, Zenon DEF OutputsConsistent, UpstreamOutputsAvailable, Parents
<1>3. SkippedToTheEnd'
  BY <1>0, Zenon DEF SkippedToTheEnd, Children
<1>4. FinishedIsFinal'
  BY <1>0, Zenon DEF FinishedIsFinal, Terminal, TERMINAL_NODE_STATUSES
<1>5. SucceededIsComplete'
  BY <1>0, Zenon DEF SucceededIsComplete
<1> QED
  BY <1>1, <1>2, <1>3, <1>4, <1>5, Zenon

(* A runner that keeps its message may move anywhere.                      *)
LEMMA RunnerMoves ==
  ASSUME JobsKnown, NEW p \in Runner, msg[p] # 0,
         UNCHANGED <<redis, msg, claimed>>,
         \A q \in Runner : q # p => pc'[q] = pc[q]
  PROVE  JobsKnown'
<1> SUFFICES ASSUME NEW q \in Runner
             PROVE  /\ msg'[q] \in 0 .. delivered'
                    /\ q \in Slot => claimed'[q] = {}
                    /\ Working(q)' \/ pc'[q] \in {"publishing", "acking"}
                         \/ (q \in Slot /\ pc'[q] = "fetched") => msg'[q] # 0
  BY Zenon DEF JobsKnown, Working
<1>1. msg' = msg /\ claimed' = claimed /\ delivered' = delivered
  BY Zenon DEF redis
<1>2. CASE q = p
  BY <1>1, <1>2, Zenon DEF JobsKnown
<1>3. CASE q # p
  BY <1>1, <1>3, Zenon DEF JobsKnown, Working
<1> QED
  BY <1>2, <1>3, Zenon

(* A step that deactivates no node, publishes nothing and has no request   *)
(* choose a new target keeps JobsActivated.                                *)
LEMMA JobsStayActivated ==
  ASSUME IndInv, AbsentIsEmpty', UNCHANGED <<stream, target>>,
         \A m \in Node : Activated(m) => Activated(m)',
         \A q \in Process : \A m \in outbox'[q] :
           m \in Node /\ (m \in outbox[q] \/ Activated(m)'),
         \A r \in Request : pc'[r] = "retrying" => pc[r] = "retrying"
  PROVE  JobsActivated'
<1>1. JobsActivated /\ stream \in Seq(Node)
  BY Zenon DEF IndInv, TypeOK
<1>2. \A r \in Request : target[r].node \in Node \cup {NoNode}
  BY Zenon DEF IndInv, TypeOK
<1>3. StreamActivated'
  <2>1. \A i \in 1 .. Len(stream) : stream[i] \in Node
    BY <1>1
  <2> QED
    BY <1>1, <2>1, Zenon DEF JobsActivated, StreamActivated
<1>4. OutboxActivated'
  BY <1>1, Zenon DEF JobsActivated, OutboxActivated
<1>5. TargetActivated'
  BY <1>1, <1>2, Zenon DEF JobsActivated, TargetActivated
<1> QED
  BY <1>3, <1>4, <1>5, Zenon DEF JobsActivated

(* An abandoned process holds nothing.                                     *)
LEMMA AbandonInd ==
  ASSUME IndInv, NEW ps \in SUBSET Process, Abandon(ps), UNCHANGED <<rows, redis>>,
         retries' \in [Node -> Nat], faults' \in Nat, slow' \in Nat
  PROVE  IndInv'
<1> USE ProcessFacts
<1>1. TypeOK'
  BY Zenon DEF IndInv, TypeOK, Abandon, rows, redis, NoTarget, ProgramCounter, ExecutionStatus
<1>2. JobsKnown'
  BY DEF IndInv, TypeOK, JobsKnown, Working, Abandon, redis
<1>3. JobsActivated'
  BY Zenon DEF IndInv, TypeOK, JobsActivated, AbsentIsEmpty,
         StreamActivated, OutboxActivated, TargetActivated, Activated, Abandon, rows, redis, NoTarget
<1>4. SeenIsStable'
  BY Zenon DEF IndInv, TypeOK, SeenIsStable, Abandon, rows
<1> QED
  BY <1>1, <1>2, <1>3, <1>4, SameRows, Zenon DEF IndInv

-----------------------------------------------------------------------------
(* The requests.                                                           *)

LEMMA StartInd ==
  ASSUME IndInv, NEW r \in Request, StartExecution(r)
  PROVE  IndInv'
<1> USE ProcessFacts, RootsExist DEF StartExecution, IndInv
<1>1. TypeOK'
  BY Zenon DEF TypeOK, redis, bounds, ExecutionStatus, NodeStatus, ProgramCounter
<1>2. JobsKnown'
  BY Zenon DEF TypeOK, JobsKnown, Working, redis
<1>3. Len(stream) = 0 /\ \A p \in Process : outbox[p] = {}
  <2>1. \A n \in Node : ~Activated(n)
    BY Zenon DEF JobsActivated, AbsentIsEmpty,
         StreamActivated, OutboxActivated, TargetActivated, Activated
  <2>2. \A i \in 1 .. Len(stream) : stream[i] \in Node /\ Activated(stream[i])
    BY DEF TypeOK, JobsActivated, AbsentIsEmpty,
         StreamActivated, OutboxActivated, TargetActivated
  <2>3. Len(stream) \in Nat
    BY DEF TypeOK
  <2>4. \A p \in Process : outbox[p] \subseteq Node /\ \A n \in outbox[p] : Activated(n)
    BY Zenon DEF TypeOK, JobsActivated, AbsentIsEmpty,
         StreamActivated, OutboxActivated, TargetActivated
  <2>5. ~(1 <= Len(stream))
    BY <2>1, <2>2, <2>3
  <2> QED
    BY <2>1, <2>3, <2>4, <2>5
<1>4. \A q \in Request : target[q].node = NoNode
  BY DEF TypeOK, JobsActivated, AbsentIsEmpty,
         StreamActivated, OutboxActivated, TargetActivated, Activated
<1>5. JobsActivated'
  BY <1>3, <1>4 DEF TypeOK, JobsActivated, AbsentIsEmpty,
         StreamActivated, OutboxActivated, TargetActivated, Activated, redis
<1>6. OutputsConsistent' /\ UpstreamOutputsAvailable'
  BY Zenon DEF TypeOK, JobsActivated, AbsentIsEmpty,
         StreamActivated, OutboxActivated, TargetActivated, OutputsConsistent,
         UpstreamOutputsAvailable, Activated, Roots
<1>7. SkippedToTheEnd' /\ FinishedIsFinal' /\ SucceededIsComplete'
  BY Zenon DEF TypeOK, SkippedToTheEnd, FinishedIsFinal, SucceededIsComplete, Terminal,
         TERMINAL_NODE_STATUSES
<1>8. \A p \in Runner : pc[p] # "executing" \/ seen[p] = "RUNNING"
  <2>1. delivered = 0
    BY <1>3 DEF TypeOK
  <2> QED
    BY <2>1 DEF JobsKnown, Working
<1>9. SeenIsStable'
  BY <1>8, Zenon DEF TypeOK, SeenIsStable
<1> QED
  BY <1>1, <1>2, <1>5, <1>6, <1>7, <1>9, Zenon

LEMMA RetryReadInd ==
  ASSUME IndInv, NEW r \in Request, NEW n \in Node, RetryRead(r, n)
  PROVE  IndInv'
<1> USE ProcessFacts DEF RetryRead
<1>1. TypeOK'
  <2>1. attempt[n] \in Nat /\ retries' = [retries EXCEPT ![n] = retries[n] + 1]
    BY Zenon DEF IndInv, TypeOK
  <2>2. retries' \in [Node -> Nat]
    BY <2>1 DEF IndInv, TypeOK
  <2>3. target' \in [Request -> [node : Node \cup {NoNode}, attempt : Nat]]
    BY <2>1, Zenon DEF IndInv, TypeOK
  <2> QED
    BY <2>2, <2>3, Zenon DEF IndInv, TypeOK, rows, redis, ProgramCounter
<1>2. JobsKnown' /\ SeenIsStable'
  BY Zenon DEF IndInv, TypeOK, JobsKnown, SeenIsStable, Working, rows, redis
<1>3. JobsActivated'
  BY ConstantsAssumption, Zenon DEF IndInv, TypeOK, JobsActivated, AbsentIsEmpty,
         StreamActivated, OutboxActivated, TargetActivated, Activated, rows, redis
<1> QED
  BY <1>1, <1>2, <1>3, SameRows, Zenon DEF IndInv

LEMMA RetryCommitInd ==
  ASSUME IndInv, NEW r \in Request, RetryCommit(r)
  PROVE  IndInv'
<1> DEFINE n == target[r].node
<1> USE ProcessFacts
<1>0. n \in Node /\ Activated(n)
  BY Zenon DEF RetryCommit, IndInv, TypeOK, JobsActivated, AbsentIsEmpty,
         StreamActivated, OutboxActivated, TargetActivated
<1>1. TypeOK'
  <2>1. dlqResolved' \in [Node -> Nat]
    BY <1>0 DEF RetryCommit, IndInv, TypeOK
  <2>2. attempt' \in [Node -> Nat]
    BY <1>0 DEF RetryCommit, IndInv, TypeOK
  <2>3. status' \in [Node -> NodeStatus] /\ execution' \in ExecutionStatus
    BY Zenon DEF RetryCommit, IndInv, TypeOK, NodeStatus, ExecutionStatus
  <2>4. pc' \in [Process -> ProgramCounter] /\ outbox' \in [Process -> SUBSET Node]
    BY <1>0 DEF RetryCommit, IndInv, TypeOK, ProgramCounter
  <2> QED
    BY <2>1, <2>2, <2>3, <2>4, Zenon DEF RetryCommit, IndInv, TypeOK, redis, bounds
<1>2. JobsKnown' /\ SeenIsStable'
  BY Zenon DEF RetryCommit, IndInv, TypeOK, JobsKnown, SeenIsStable, Working, redis
<1>3. /\ OutputsConsistent' /\ UpstreamOutputsAvailable' /\ SkippedToTheEnd'
      /\ FinishedIsFinal' /\ SucceededIsComplete'
      /\ \A m \in Node : Activated(m)' <=> Activated(m)
  BY <1>0, Rewritten, Zenon DEF RetryCommit
<1>4. JobsActivated'
  <2>1. AbsentIsEmpty'
    BY Zenon DEF RetryCommit, Exists, AbsentIsEmpty
  <2>2. UNCHANGED <<stream, target>>
    BY Zenon DEF RetryCommit, redis
  <2>3. \A q \in Process : \A m \in outbox'[q] : m \in Node /\ (m \in outbox[q] \/ Activated(m)')
    BY <1>0, <1>3 DEF RetryCommit, IndInv, TypeOK
  <2>4. \A q \in Request : pc'[q] = "retrying" => pc[q] = "retrying"
    BY Zenon DEF RetryCommit, IndInv, TypeOK
  <2> QED
    BY <1>3, <2>1, <2>2, <2>3, <2>4, JobsStayActivated, Zenon
<1> QED
  BY <1>1, <1>2, <1>3, <1>4, Zenon DEF IndInv

LEMMA RetryRejectedInd ==
  ASSUME IndInv, NEW r \in Request, RetryRejected(r)
  PROVE  IndInv'
<1> USE ProcessFacts DEF RetryRejected
<1>1. TypeOK'
  BY Zenon DEF IndInv, TypeOK, rows, redis, bounds, ProgramCounter, NoTarget
<1>2. JobsKnown' /\ SeenIsStable'
  BY Zenon DEF IndInv, TypeOK, JobsKnown, SeenIsStable, Working, rows, redis
<1>3. JobsActivated'
  BY Zenon DEF IndInv, TypeOK, JobsActivated, AbsentIsEmpty,
         StreamActivated, OutboxActivated, TargetActivated, Activated, rows, redis, NoTarget
<1> QED
  BY <1>1, <1>2, <1>3, SameRows, Zenon DEF IndInv

(* resolve_dlq_job and delete_execution touch no node.                     *)
LEMMA OperatorInd ==
  ASSUME IndInv, DeleteExecution \/ \E n \in Node : ResolveDlqJob(n)
  PROVE  IndInv'
<1> USE DEF DeleteExecution, ResolveDlqJob, IndInv, Exists
<1>1. UNCHANGED <<status, attempt, output, redis, local, bounds>>
  BY Zenon
<1>2. execution' \in {execution, "DELETED"} /\ execution # "ABSENT"
  BY Zenon
<1>3. TypeOK'
  <2>1. CASE DeleteExecution
    BY <2>1, <1>1, <1>2, Zenon DEF TypeOK, redis, local, bounds, ExecutionStatus
  <2>2. ASSUME NEW n \in Node, ResolveDlqJob(n)
        PROVE  dlqOpen' \in [Node -> Nat] /\ dlqResolved' \in [Node -> Nat]
    <3>1. dlqOpen[n] - 1 \in Nat /\ dlqResolved[n] + 1 \in Nat
      BY <2>2 DEF TypeOK
    <3> QED
      BY <2>2, <3>1, Zenon DEF TypeOK
  <2> QED
    BY <2>1, <2>2, <1>1, <1>2, Zenon DEF TypeOK, redis, local, bounds, ExecutionStatus
<1>4. JobsKnown' /\ JobsActivated' /\ SeenIsStable'
  BY <1>1, <1>2, Zenon DEF TypeOK, JobsKnown, JobsActivated, AbsentIsEmpty,
         StreamActivated, OutboxActivated, TargetActivated, SeenIsStable, Working, Activated, redis, local
<1>5. OutputsConsistent' /\ UpstreamOutputsAvailable' /\ SkippedToTheEnd'
  BY <1>1, Zenon DEF OutputsConsistent, UpstreamOutputsAvailable, SkippedToTheEnd, Activated
<1>6. FinishedIsFinal' /\ SucceededIsComplete'
  BY <1>1, <1>2, Zenon DEF FinishedIsFinal, SucceededIsComplete, Terminal
<1> QED
  BY <1>3, <1>4, <1>5, <1>6, Zenon

-----------------------------------------------------------------------------
(* Publishing, the consumer loop and the recovery loop.                    *)

(* A step that leaves the rows, the stream and every outbox alone, and     *)
(* moves no request, keeps JobsActivated.                                  *)
LEMMA QuietJobs ==
  ASSUME IndInv, UNCHANGED <<rows, stream, outbox, target>>,
         \A r \in Request : pc'[r] = pc[r]
  PROVE  JobsActivated'
<1>1. status' = status /\ execution' = execution /\ output' = output
  BY Zenon DEF rows
<1>2. AbsentIsEmpty'
  BY <1>1, Zenon DEF IndInv, JobsActivated, AbsentIsEmpty
<1>3. \A q \in Process : outbox[q] \subseteq Node
  BY Zenon DEF IndInv, TypeOK
<1>4. \A m \in Node : Activated(m) => Activated(m)'
  BY <1>1, Zenon DEF Activated
<1> QED
  BY <1>2, <1>3, <1>4, JobsStayActivated, Zenon

LEMMA PublishInd ==
  ASSUME IndInv, NEW p \in Process, NEW n \in Node, Publish(p, n)
  PROVE  IndInv'
<1> USE ProcessFacts DEF Publish
<1>0. /\ Len(stream') = Len(stream) + 1
      /\ stream' \in Seq(Node)
      /\ \A i \in 1 .. Len(stream') : stream'[i] = IF i <= Len(stream) THEN stream[i] ELSE n
  <2>1. stream \in Seq(Node) /\ stream' = Append(stream, n)
    BY Zenon DEF IndInv, TypeOK
  <2> HIDE ProcessFacts DEF Publish
  <2> QED
    BY <2>1
<1>1. TypeOK'
  <2>1. delivered' \in 0 .. Len(stream') /\ UNCHANGED delivered
    <3>1. UNCHANGED delivered /\ delivered \in 0 .. Len(stream) /\ Len(stream) \in Nat
      BY DEF IndInv, TypeOK
    <3> HIDE ProcessFacts DEF Publish
    <3> QED
      BY <1>0, <3>1
  <2>2. outbox' \in [Process -> SUBSET Node]
    BY Zenon DEF IndInv, TypeOK
  <2> QED
    BY <1>0, <2>1, <2>2, Zenon DEF IndInv, TypeOK, rows, bounds
<1>2. JobsKnown' /\ SeenIsStable'
  BY Zenon DEF IndInv, TypeOK, JobsKnown, SeenIsStable, Working, rows
<1>3. JobsActivated'
  <2>1. Activated(n) /\ UNCHANGED <<status, execution, output>>
    BY Zenon DEF IndInv, JobsActivated, OutboxActivated, rows
  <2>2. StreamActivated'
    <3>1. \A i \in 1 .. Len(stream') :
            (i \in 1 .. Len(stream) /\ stream'[i] = stream[i]) \/ stream'[i] = n
      <4>1. Len(stream) \in Nat
        BY DEF IndInv, TypeOK
      <4> HIDE ProcessFacts DEF Publish
      <4> QED
        BY <1>0, <4>1
    <3> QED
      BY <2>1, <3>1, Zenon DEF IndInv, JobsActivated, StreamActivated, Activated
  <2>3. OutboxActivated'
    BY <2>1, Zenon DEF IndInv, TypeOK, JobsActivated, OutboxActivated, Activated
  <2> QED
    BY <2>1, <2>2, <2>3, Zenon DEF IndInv, JobsActivated, AbsentIsEmpty, TargetActivated, Activated
<1> QED
  BY <1>1, <1>2, <1>3, SameRows, Zenon DEF IndInv

LEMMA PublishedInd ==
  ASSUME IndInv, NEW p \in Process, Published(p)
  PROVE  IndInv'
<1> USE ProcessFacts DEF Published
<1>1. TypeOK'
  BY Zenon DEF IndInv, TypeOK, rows, redis, bounds, ProgramCounter, NoTarget
<1>2. JobsKnown' /\ SeenIsStable'
  BY Zenon DEF IndInv, TypeOK, JobsKnown, SeenIsStable, Working, rows, redis
<1>3. JobsActivated'
  BY Zenon DEF IndInv, TypeOK, JobsActivated, AbsentIsEmpty,
         StreamActivated, OutboxActivated, TargetActivated, Activated,
         rows, redis, NoTarget
<1> QED
  BY <1>1, <1>2, <1>3, SameRows, Zenon DEF IndInv

LEMMA ReadGroupInd ==
  ASSUME IndInv, NEW w \in Worker, ReadGroup(w)
  PROVE  IndInv'
<1> DEFINE available == Len(stream) - delivered
           k == IF available < PollCount THEN available ELSE PollCount
           slots == {w} \X (1 .. k)
<1>0. /\ Len(stream) \in Nat /\ delivered \in Nat /\ PollCount \in Nat
      /\ k \in 1 .. PollCount /\ delivered + k <= Len(stream)
  <2>1. /\ Len(stream) \in Nat /\ delivered \in Nat /\ PollCount \in Nat \ {0}
        /\ Len(stream) - delivered > 0
    BY ConstantsAssumption DEF ReadGroup, IndInv, TypeOK
  <2> QED
    BY <2>1
<1>1. slots \subseteq Slot /\ \A p \in slots : p[2] \in 1 .. k
  BY <1>0 DEF Slot
<1>2. /\ delivered' = delivered + k
      /\ pel' = pel \cup (delivered + 1 .. delivered + k)
      /\ pc' = [p \in Process |-> IF p \in slots THEN "fetched" ELSE pc[p]]
      /\ msg' = [p \in Runner |-> IF p \in slots THEN delivered + p[2] ELSE msg[p]]
      /\ UNCHANGED <<rows, stream, claimed, seen, outbox, target, bounds>>
  BY Zenon DEF ReadGroup
<1> HIDE DEF available, k, slots
<1>3. delivered' \in 0 .. Len(stream) /\ delivered <= delivered'
  BY <1>0, <1>2
<1>4. \A p \in slots : delivered + p[2] \in 1 .. delivered'
  BY <1>0, <1>1, <1>2
<1>5. TypeOK'
  <2>1. msg' \in [Runner -> Nat]
    BY <1>2, <1>3, <1>4 DEF IndInv, TypeOK
  <2>2. pel' \subseteq 1 .. delivered'
    BY <1>0, <1>2 DEF IndInv, TypeOK
  <2>3. claimed' \in [Runner -> SUBSET (1 .. delivered')]
    BY <1>0, <1>2 DEF IndInv, TypeOK
  <2>4. pc' \in [Process -> ProgramCounter]
    BY <1>2, Zenon DEF IndInv, TypeOK, ProgramCounter
  <2> QED
    BY <1>2, <1>3, <2>1, <2>2, <2>3, <2>4, Zenon DEF IndInv, TypeOK, rows, bounds
<1>6. JobsKnown'
  <2> SUFFICES ASSUME NEW p \in Runner
               PROVE  /\ msg'[p] \in 0 .. delivered'
                      /\ p \in Slot => claimed'[p] = {}
                      /\ Working(p)' \/ pc'[p] \in {"publishing", "acking"}
                           \/ (p \in Slot /\ pc'[p] = "fetched") => msg'[p] # 0
    BY Zenon DEF JobsKnown, Working
  <2>0. p \in Slot => claimed'[p] = {}
    BY <1>2, Zenon DEF IndInv, JobsKnown
  <2>1. CASE p \in slots
    BY <1>0, <1>2, <1>4, <2>0, <2>1
  <2>2. CASE p \notin slots
    <3>1. msg'[p] = msg[p] /\ pc'[p] = pc[p]
      BY <1>2, <2>2, ProcessFacts, Zenon
    <3>2. msg[p] \in 0 .. delivered'
      BY <1>0, <1>3 DEF IndInv, JobsKnown
    <3> QED
      BY <2>0, <3>1, <3>2, Zenon DEF IndInv, JobsKnown, Working
  <2> QED
    BY <2>1, <2>2, Zenon
<1>7. JobsActivated'
  <2>1. UNCHANGED <<rows, stream, outbox, target>>
    BY <1>1, <1>2, ProcessFacts, Zenon
  <2>2. \A r \in Request : pc'[r] = pc[r]
    BY <1>1, <1>2, ProcessFacts, Zenon DEF IndInv, TypeOK
  <2> QED
    BY <2>1, <2>2, QuietJobs, Zenon
<1>8. SeenIsStable'
  BY <1>2, ProcessFacts, Zenon DEF IndInv, SeenIsStable, rows
<1> QED
  BY <1>2, <1>5, <1>6, <1>7, <1>8, SameRows, Zenon DEF IndInv

(* The steps of a runner that change nothing but its own state.            *)
LEMMA RunnerLocalInd ==
  ASSUME IndInv, NEW p \in Runner,
         FetchNode(p) \/ LoadContext(p) \/ CompleteSkipped(p)
  PROVE  IndInv'
<1> USE ProcessFacts DEF FetchNode, LoadContext, CompleteSkipped, Completing
<1>1. UNCHANGED <<rows, redis, msg, claimed, outbox, target, bounds>>
  BY Zenon
<1>2. /\ pc' \in [Process -> ProgramCounter]
      /\ seen' \in [Runner -> ExecutionStatus]
  <2>1. CASE FetchNode(p)
    BY <2>1, Zenon DEF IndInv, TypeOK, ProgramCounter
  <2>2. CASE LoadContext(p)
    BY <2>2, Zenon DEF IndInv, TypeOK, ProgramCounter
  <2>3. CASE CompleteSkipped(p)
    BY <2>3, Zenon DEF IndInv, TypeOK, ProgramCounter
  <2> QED
    BY <2>1, <2>2, <2>3, Zenon
<1>3. TypeOK'
  BY <1>1, <1>2, Zenon DEF IndInv, TypeOK, rows, redis, bounds
<1>4. JobsKnown'
  BY <1>1, Zenon DEF IndInv, TypeOK, JobsKnown, Working, redis
<1>5. \E to : pc' = [pc EXCEPT ![p] = to]
  BY Zenon
<1>6. JobsActivated'
  <2> HIDE DEF FetchNode, LoadContext, CompleteSkipped, Completing
  <2>1. UNCHANGED <<rows, stream, outbox, target>>
    BY <1>1, Zenon DEF redis
  <2>2. \A r \in Request : pc'[r] = pc[r]
    <3>1. pc \in [Process -> ProgramCounter]
      BY Zenon DEF IndInv, TypeOK
    <3> QED
      BY <1>5, <3>1, Zenon
  <2> QED
    BY <2>1, <2>2, QuietJobs, Zenon
<1>7. SeenIsStable'
  <2>1. UNCHANGED execution /\ pc \in [Process -> ProgramCounter] /\ seen \in [Runner -> ExecutionStatus]
    BY <1>1, Zenon DEF IndInv, TypeOK, rows
  <2>2. CASE LoadContext(p)
    <3>1. execution \in {"RUNNING", "SUCCEEDED", "FAILED"}
      BY <2>2, Zenon DEF IndInv, TypeOK, Exists, ExecutionStatus
    <3>2. seen' = [seen EXCEPT ![p] = execution] /\ pc' = [pc EXCEPT ![p] = "executing"]
      BY <2>2, Zenon
    <3> HIDE DEF FetchNode, LoadContext, CompleteSkipped, Completing
    <3> QED
      BY <2>1, <3>1, <3>2, Zenon DEF IndInv, SeenIsStable
  <2>3. CASE FetchNode(p) \/ CompleteSkipped(p)
    <3>1. UNCHANGED seen /\ \E to : to # "executing" /\ pc' = [pc EXCEPT ![p] = to]
      BY <2>3, Zenon
    <3> HIDE DEF FetchNode, LoadContext, CompleteSkipped, Completing
    <3> QED
      BY <2>1, <3>1, Zenon DEF IndInv, SeenIsStable
  <2> QED
    BY <2>2, <2>3, Zenon
<1> QED
  BY <1>1, <1>3, <1>4, <1>6, <1>7, SameRows, Zenon DEF IndInv

(* The two commits that act on an earlier read: QUEUED -> RUNNING, and the *)
(* recovery's RUNNING -> QUEUED.                                           *)
LEMMA BlindCommitInd ==
  ASSUME IndInv, NEW p \in Runner, CommitRunning(p) \/ RecoverCommit(p)
  PROVE  IndInv'
<1> USE ProcessFacts DEF CommitRunning, RecoverCommit
<1>0. Job(p) \in Node /\ Activated(Job(p))
  <2>1. msg[p] # 0
    BY Zenon DEF IndInv, JobsKnown, Working
  <2>2. msg[p] \in 1 .. Len(stream)
    BY <2>1, MessageInStream, Zenon DEF IndInv
  <2> QED
    BY <2>2, JobIsNode, Zenon DEF IndInv, JobsActivated, StreamActivated, Job
<1>1. /\ UNCHANGED <<execution, attempt, output, dlqOpen, dlqResolved, redis, msg, claimed,
                      seen, outbox, target, bounds>>
      /\ execution # "ABSENT"
  BY Zenon DEF Exists
<1>2. PICK to \in {"loading", "starting"} : pc' = [pc EXCEPT ![p] = to]
  BY Zenon
<1>3. status' = status \/ \E s \in {"QUEUED", "RUNNING"} : status' = [status EXCEPT ![Job(p)] = s]
  BY Zenon
<1> HIDE DEF CommitRunning, RecoverCommit
<1>4. /\ OutputsConsistent' /\ UpstreamOutputsAvailable' /\ SkippedToTheEnd'
      /\ FinishedIsFinal' /\ SucceededIsComplete'
      /\ \A m \in Node : Activated(m)' <=> Activated(m)
  <2>1. CASE status' = status
    BY <2>1, <1>1, SameRows, Zenon DEF rows, Activated
  <2>2. ASSUME NEW s \in {"QUEUED", "RUNNING"}, status' = [status EXCEPT ![Job(p)] = s]
        PROVE  <1>4!:
    BY <2>2, <1>0, <1>1, Rewritten, Zenon
  <2> QED
    BY <2>1, <2>2, <1>3, Zenon
<1>5. status' \in [Node -> NodeStatus]
  BY <1>3, Zenon DEF IndInv, TypeOK, NodeStatus
<1>6. TypeOK'
  BY <1>1, <1>2, <1>5, Zenon DEF IndInv, TypeOK, redis, bounds, ProgramCounter
<1>7. JobsKnown'
  <2>1. msg[p] # 0
    BY Zenon DEF IndInv, JobsKnown, Working, CommitRunning, RecoverCommit
  <2>2. \A q \in Runner : q # p => pc'[q] = pc[q]
    BY <1>2, Zenon DEF IndInv, TypeOK
  <2> QED
    BY <1>1, <2>1, <2>2, RunnerMoves, Zenon DEF IndInv
<1>8. JobsActivated'
  <2>1. AbsentIsEmpty'
    BY <1>1, Zenon DEF AbsentIsEmpty
  <2>2. UNCHANGED <<stream, target, outbox>>
    BY <1>1, Zenon DEF redis
  <2>3. \A q \in Process : outbox[q] \subseteq Node
    BY Zenon DEF IndInv, TypeOK
  <2>4. \A r \in Request : pc'[r] = "retrying" => pc[r] = "retrying"
    BY <1>2, Zenon DEF IndInv, TypeOK
  <2> QED
    BY <1>4, <2>1, <2>2, <2>3, <2>4, JobsStayActivated, Zenon
<1>9. SeenIsStable'
  BY <1>1, <1>2, Zenon DEF IndInv, TypeOK, SeenIsStable
<1> QED
  BY <1>4, <1>6, <1>7, <1>8, <1>9, Zenon DEF IndInv

LEMMA AckInd ==
  ASSUME IndInv, NEW p \in Runner, Ack(p)
  PROVE  IndInv'
<1> USE ProcessFacts DEF Ack
<1>1. TypeOK'
  BY Zenon DEF IndInv, TypeOK, rows, bounds, ProgramCounter, ExecutionStatus
<1>2. JobsKnown'
  <2>1. \A q \in Runner : q # p => pc'[q] = pc[q] /\ msg'[q] = msg[q]
    BY Zenon DEF IndInv, TypeOK
  <2>2. msg'[p] = 0 /\ pc'[p] \in {"idle", "fetched"} /\ (claimed[p] = {} => pc'[p] = "idle")
    BY Zenon DEF IndInv, TypeOK
  <2>3. 0 \in 0 .. delivered
    BY DEF IndInv, TypeOK
  <2> QED
    BY <2>1, <2>2, <2>3 DEF IndInv, JobsKnown, Working
<1>3. JobsActivated'
  <2>1. UNCHANGED <<rows, stream, outbox, target>>
    BY Zenon
  <2>2. \A r \in Request : pc'[r] = pc[r]
    BY Zenon DEF IndInv, TypeOK
  <2> QED
    BY <2>1, <2>2, QuietJobs, Zenon
<1>4. SeenIsStable'
  BY Zenon DEF IndInv, TypeOK, SeenIsStable, rows
<1> QED
  BY <1>1, <1>2, <1>3, <1>4, SameRows, Zenon DEF IndInv

-----------------------------------------------------------------------------
(* The recovery loop.                                                      *)

LEMMA ClaimStaleInd ==
  ASSUME IndInv, NEW p \in Runner, ClaimStale(p)
  PROVE  IndInv'
<1> USE ProcessFacts
<1>1. PICK S \in SUBSET PendingWindow :
        /\ claimed' = [claimed EXCEPT ![p] = S]
        /\ slow' \in {slow, slow + 1}
  BY Zenon DEF ClaimStale
<1>2. /\ p \in Recoverer
      /\ pc' = [pc EXCEPT ![p] = "fetched"]
      /\ UNCHANGED <<rows, redis, msg, seen, outbox, target, retries, faults>>
  BY Zenon DEF ClaimStale
<1>3. TypeOK'
  <2>1. S \subseteq 1 .. delivered
    BY Zenon DEF PendingWindow, IndInv, TypeOK
  <2>2. slow' \in Nat
    BY <1>1 DEF IndInv, TypeOK
  <2> QED
    BY <1>1, <1>2, <2>1, <2>2, Zenon DEF IndInv, TypeOK, rows, redis, ProgramCounter
<1>4. JobsKnown'
  <2>1. p \notin Slot
    BY <1>2, SlotFacts, Zenon
  <2>2. \A q \in Runner : q # p => pc'[q] = pc[q] /\ claimed'[q] = claimed[q]
    BY <1>1, <1>2, Zenon DEF IndInv, TypeOK
  <2>3. pc'[p] = "fetched"
    BY <1>2, Zenon DEF IndInv, TypeOK
  <2> QED
    BY <1>2, <2>1, <2>2, <2>3, Zenon DEF IndInv, JobsKnown, Working, redis
<1>5. JobsActivated'
  <2>1. UNCHANGED <<rows, stream, outbox, target>>
    BY <1>2, Zenon DEF redis
  <2>2. \A r \in Request : pc'[r] = pc[r]
    BY <1>2, Zenon DEF IndInv, TypeOK
  <2> QED
    BY <2>1, <2>2, QuietJobs, Zenon
<1>6. SeenIsStable'
  BY <1>2, Zenon DEF IndInv, TypeOK, SeenIsStable, rows
<1> QED
  BY <1>2, <1>3, <1>4, <1>5, <1>6, SameRows, Zenon DEF IndInv

LEMMA RecoverReadInd ==
  ASSUME IndInv, NEW p \in Runner, RecoverRead(p)
  PROVE  IndInv'
<1> USE ProcessFacts
<1>1. PICK m \in claimed[p], to \in {"acking", "reviving", "resuming"} :
        /\ msg' = [msg EXCEPT ![p] = m]
        /\ claimed' = [claimed EXCEPT ![p] = @ \ {m}]
        /\ pc' = [pc EXCEPT ![p] = to]
  BY Zenon DEF RecoverRead
<1>2. UNCHANGED <<rows, redis, seen, outbox, target, bounds>>
  BY Zenon DEF RecoverRead
<1>3. m \in 1 .. delivered /\ delivered \in Nat
  BY DEF IndInv, TypeOK
<1>4. TypeOK'
  <2>0. m \in Nat
    BY <1>3
  <2>1. msg' \in [Runner -> Nat] /\ claimed' \in [Runner -> SUBSET (1 .. delivered)]
    BY <1>1, <2>0, Zenon DEF IndInv, TypeOK
  <2>2. pc' \in [Process -> ProgramCounter]
    BY <1>1, Zenon DEF IndInv, TypeOK, ProgramCounter
  <2> QED
    BY <1>2, <2>1, <2>2, Zenon DEF IndInv, TypeOK, rows, redis, bounds
<1>5. JobsKnown'
  <2>1. p \notin Slot
    BY SlotFacts, Zenon DEF RecoverRead
  <2>2. \A q \in Runner : q # p => /\ pc'[q] = pc[q] /\ msg'[q] = msg[q]
                                  /\ claimed'[q] = claimed[q]
    BY <1>1, Zenon DEF IndInv, TypeOK
  <2>3. msg'[p] \in 0 .. delivered /\ msg'[p] # 0
    BY <1>1, <1>3 DEF IndInv, TypeOK
  <2> QED
    BY <1>2, <2>1, <2>2, <2>3, Zenon DEF IndInv, JobsKnown, Working, redis
<1>6. JobsActivated'
  <2>1. UNCHANGED <<rows, stream, outbox, target>>
    BY <1>1, <1>2, Zenon DEF redis
  <2>2. \A r \in Request : pc'[r] = pc[r]
    BY <1>1, <1>2, Zenon DEF IndInv, TypeOK
  <2> QED
    BY <2>1, <2>2, QuietJobs, Zenon
<1>7. SeenIsStable'
  BY <1>1, <1>2, Zenon DEF IndInv, TypeOK, SeenIsStable, rows
<1> QED
  BY <1>2, <1>4, <1>5, <1>6, <1>7, SameRows, Zenon DEF IndInv

-----------------------------------------------------------------------------
(* Completion.                                                             *)

(* The cascade skips PENDING nodes only, and with a node its PENDING       *)
(* children.                                                               *)
LEMMA CascadeClosed ==
  ASSUME NEW ids, NEW pending \in SUBSET Node
  PROVE  /\ CascadeSkip(ids, pending) \subseteq pending
         /\ \A m \in CascadeSkip(ids, pending) : \A c \in Children(m) \cap pending :
              c \in CascadeSkip(ids, pending)
<1>1. CascadeSkip(ids, pending) \subseteq pending
  BY Zenon DEF CascadeSkip
<1>2. ASSUME NEW m \in CascadeSkip(ids, pending), NEW c \in Children(m) \cap pending
      PROVE  c \in CascadeSkip(ids, pending)
  <2> SUFFICES ASSUME NEW S \in SUBSET pending, SkipClosed(S, ids, pending)
               PROVE  c \in S
    BY Zenon DEF CascadeSkip
  <2>1. m \in S
    BY Zenon DEF CascadeSkip
  <2>2. <<m, c>> \in Edge
    BY Zenon DEF Children
  <2>3. <<m, c>>[1] \in S /\ <<m, c>>[2] \in pending => <<m, c>>[2] \in S
    BY <2>2, Zenon DEF SkipClosed
  <2> QED
    BY <2>1, <2>3, Zenon
<1> QED
  BY <1>1, <1>2, Zenon

(* What the completion of a successful node writes, node by node.          *)
LEMMA SucceededRows ==
  ASSUME IndInv, NEW p \in Runner, NEW chosen, CompleteSucceeded(p, chosen)
  PROVE  \E skipped \in SUBSET Node, ready \in SUBSET Node :
           /\ Job(p) \in Node /\ msg[p] # 0
           /\ status[Job(p)] = "RUNNING"
           /\ status'[Job(p)] = "SUCCEEDED"
           /\ \A m \in Node : m # Job(p) /\ status[m] # "PENDING" => status'[m] = status[m]
           /\ \A m \in Node : status[m] = "PENDING" =>
                status'[m] = IF m \in skipped THEN "SKIPPED"
                             ELSE IF m \in ready THEN "QUEUED" ELSE "PENDING"
           /\ \A m \in skipped : status[m] = "PENDING" /\
                \A c \in Children(m) : status[c] = "PENDING" => c \in skipped
           /\ \A m \in ready : /\ status[m] = "PENDING" /\ m \notin skipped
                               /\ \A q \in Parents(m) : q = Job(p) \/ status[q] = "SUCCEEDED"
           /\ outbox' = [outbox EXCEPT ![p] = ready]
           /\ attempt' = [m \in Node |-> IF m \in ready THEN attempt[m] + 1 ELSE attempt[m]]
           /\ status' \in [Node -> NodeStatus]
<1> DEFINE n == Job(p)
           st1 == [status EXCEPT ![n] = "SUCCEEDED"]
           pending == {m \in Node : st1[m] = "PENDING"}
           skipped == CascadeSkip(SkipIds(n, chosen), pending)
           st2 == [m \in Node |-> IF m \in skipped THEN "SKIPPED" ELSE st1[m]]
           ready == ReadyChildren(n, st2)
<1>1. msg[p] # 0
  BY Zenon DEF IndInv, JobsKnown, Working, CompleteSucceeded, Completing
<1>2. n \in Node
  BY <1>1, MessageInStream, JobIsNode, Zenon DEF IndInv
<1>3. status \in [Node -> NodeStatus] /\ status[n] = "RUNNING"
  BY Zenon DEF IndInv, TypeOK, CompleteSucceeded
<1>4. /\ status' = [m \in Node |-> IF m \in ready THEN "QUEUED" ELSE st2[m]]
      /\ outbox' = [outbox EXCEPT ![p] = ready]
      /\ attempt' = [m \in Node |-> IF m \in ready THEN attempt[m] + 1 ELSE attempt[m]]
  BY Zenon DEF CompleteSucceeded
<1>5. /\ skipped \subseteq pending
      /\ \A m \in skipped : \A c \in Children(m) \cap pending : c \in skipped
  <2>1. pending \in SUBSET Node
    BY Zenon
  <2> HIDE DEF pending
  <2> QED
    BY <2>1, CascadeClosed, Zenon
<1>6. \A m \in Node : m \in pending <=> status[m] = "PENDING"
  BY <1>2, <1>3, Zenon
<1>7. \A m \in ready : /\ m \in Node /\ st2[m] = "PENDING"
                      /\ \A q \in Parents(m) : q \in Node /\ st2[q] = "SUCCEEDED"
  BY Zenon DEF ReadyChildren, Children, Parents
<1> HIDE DEF pending, skipped, ready
<1>8. \A m \in Node : st2[m] = IF m \in skipped THEN "SKIPPED"
                              ELSE IF m = n THEN "SUCCEEDED" ELSE status[m]
  BY <1>2, <1>3, Zenon
<1> HIDE DEF st1, st2, n
<1>9. n \notin ready /\ n \notin skipped
  BY <1>2, <1>3, <1>5, <1>6, <1>7, <1>8, Zenon
<1>10. \A m \in ready : status[m] = "PENDING" /\ m \notin skipped
  BY <1>7, <1>8, Zenon
<1>11. \A m \in ready : \A q \in Parents(m) : q = n \/ status[q] = "SUCCEEDED"
  BY <1>7, <1>8, Zenon
<1>12. skipped \in SUBSET Node /\ ready \in SUBSET Node
  BY <1>5, <1>7, Zenon DEF pending
<1>13. status' \in [Node -> NodeStatus]
  BY <1>3, <1>4, <1>8, Zenon DEF NodeStatus
<1>14. /\ status'[n] = "SUCCEEDED"
       /\ \A m \in Node : m # n /\ status[m] # "PENDING" => status'[m] = status[m]
  BY <1>2, <1>4, <1>5, <1>6, <1>8, <1>9, <1>10, Zenon
<1>15. \A m \in Node : status[m] = "PENDING" =>
         status'[m] = IF m \in skipped THEN "SKIPPED"
                      ELSE IF m \in ready THEN "QUEUED" ELSE "PENDING"
  BY <1>3, <1>4, <1>8, <1>10, Zenon
<1>16. \A m \in skipped : status[m] = "PENDING" /\
         \A c \in Children(m) : status[c] = "PENDING" => c \in skipped
  BY <1>5, <1>6, <1>12, Zenon DEF Children
<1> QED
  BY <1>1, <1>2, <1>3, <1>4, <1>10, <1>11, <1>12, <1>13, <1>14, <1>15, <1>16, ZenonT(40) DEF n

LEMMA CompleteSucceededInd ==
  ASSUME IndInv, NEW p \in Runner, NEW chosen, CompleteSucceeded(p, chosen)
  PROVE  IndInv'
<1> DEFINE n == Job(p)
<1>1. PICK skipped \in SUBSET Node, ready \in SUBSET Node :
           /\ n \in Node /\ msg[p] # 0
           /\ status[n] = "RUNNING"
           /\ status'[n] = "SUCCEEDED"
           /\ \A m \in Node : m # n /\ status[m] # "PENDING" => status'[m] = status[m]
           /\ \A m \in Node : status[m] = "PENDING" =>
                status'[m] = IF m \in skipped THEN "SKIPPED"
                             ELSE IF m \in ready THEN "QUEUED" ELSE "PENDING"
           /\ \A m \in skipped : status[m] = "PENDING" /\
                \A c \in Children(m) : status[c] = "PENDING" => c \in skipped
           /\ \A m \in ready : /\ status[m] = "PENDING" /\ m \notin skipped
                               /\ \A q \in Parents(m) : q = n \/ status[q] = "SUCCEEDED"
           /\ outbox' = [outbox EXCEPT ![p] = ready]
           /\ attempt' = [m \in Node |-> IF m \in ready THEN attempt[m] + 1 ELSE attempt[m]]
           /\ status' \in [Node -> NodeStatus]
  BY SucceededRows, Zenon
<1>2. /\ output' = [output EXCEPT ![n] = TRUE]
      /\ execution' = FinalStatus(status', seen[p])
      /\ pc[p] = "executing" /\ execution \notin {"ABSENT", "DELETED"}
      /\ UNCHANGED <<dlqOpen, dlqResolved, redis, msg, claimed, seen, target, bounds>>
  BY Zenon DEF CompleteSucceeded, Completing, Exists
<1>3. PICK to \in {"acking", "publishing"} : pc' = [pc EXCEPT ![p] = to]
  BY Zenon DEF CompleteSucceeded
<1> HIDE DEF n
<1> USE ProcessFacts
<1>4. output' \in [Node -> BOOLEAN] /\ output'[n] /\ \A m \in Node : m # n => output'[m] = output[m]
  BY <1>1, <1>2, Zenon DEF IndInv, TypeOK
<1>5. \A q \in Process : q # p => pc'[q] = pc[q] /\ outbox'[q] = outbox[q]
  BY <1>1, <1>3, Zenon DEF IndInv, TypeOK
<1>6. pc'[p] = to /\ outbox'[p] = ready
  BY <1>1, <1>3, Zenon DEF IndInv, TypeOK
<1>7. execution' \in {execution, "SUCCEEDED", "FAILED"}
  BY <1>2, Zenon DEF FinalStatus
<1>8. \A m \in Node : Activated(m) => Activated(m)'
  BY <1>1, Zenon DEF Activated
<1>9. \A m \in Node : Activated(m)' => Activated(m) \/ m \in ready
  BY <1>1, Zenon DEF Activated
<1>10. TypeOK'
  <2>1. attempt' \in [Node -> Nat]
    BY <1>1 DEF IndInv, TypeOK
  <2>2. pc' \in [Process -> ProgramCounter] /\ outbox' \in [Process -> SUBSET Node]
    BY <1>1, <1>3, Zenon DEF IndInv, TypeOK, ProgramCounter
  <2>3. execution' \in ExecutionStatus
    BY <1>7, Zenon DEF IndInv, TypeOK, ExecutionStatus
  <2> QED
    BY <1>1, <1>2, <1>4, <2>1, <2>2, <2>3, Zenon DEF IndInv, TypeOK, redis, bounds
<1>11. JobsKnown'
  <2>1. msg[p] # 0
    BY <1>1, Zenon
  <2>2. UNCHANGED <<redis, msg, claimed>>
    BY <1>2, Zenon
  <2>3. \A q \in Runner : q # p => pc'[q] = pc[q]
    BY <1>5, Zenon
  <2>4. JobsKnown
    BY Zenon DEF IndInv
  <2> QED
    BY <2>1, <2>2, <2>3, <2>4, RunnerMoves, Zenon
<1>12. JobsActivated'
  <2>1. AbsentIsEmpty'
    BY <1>2, <1>7, Zenon DEF AbsentIsEmpty
  <2>2. UNCHANGED <<stream, target>>
    BY <1>2, Zenon DEF redis
  <2>3. \A m \in ready : m \in Node /\ Activated(m)'
    BY <1>1, Zenon DEF Activated
  <2>4. \A q \in Process : outbox[q] \subseteq Node
    BY Zenon DEF IndInv, TypeOK
  <2>5. \A q \in Process : \A m \in outbox'[q] : m \in Node /\ (m \in outbox[q] \/ Activated(m)')
    BY <1>5, <1>6, <2>3, <2>4, Zenon
  <2>6. \A r \in Request : pc'[r] = pc[r]
    BY <1>5, Zenon
  <2> QED
    BY <1>8, <2>1, <2>2, <2>5, <2>6, JobsStayActivated, Zenon
<1>13. OutputsConsistent'
  <2>1. \A m \in Node : status'[m] = "SUCCEEDED" => m = n \/ status[m] = "SUCCEEDED"
    BY <1>1, Zenon
  <2>2. \A m \in Node : m = n => Activated(m)'
    BY <1>1, Zenon DEF Activated
  <2> QED
    BY <1>4, <1>8, <2>1, <2>2, Zenon DEF IndInv, OutputsConsistent
<1>14. UpstreamOutputsAvailable'
  <2> SUFFICES ASSUME NEW m \in Node, Activated(m)', NEW q \in Parents(m)
               PROVE  output'[q]
    BY Zenon DEF UpstreamOutputsAvailable
  <2>1. q \in Node
    BY Zenon DEF Parents
  <2>2. CASE Activated(m)
    BY <2>1, <2>2, <1>4, Zenon DEF IndInv, UpstreamOutputsAvailable
  <2>3. CASE m \in ready
    <3>1. q = n \/ status[q] = "SUCCEEDED"
      BY <1>1, <2>3, Zenon
    <3>2. status[q] = "SUCCEEDED" => output[q]
      BY <2>1, Zenon DEF IndInv, OutputsConsistent
    <3> QED
      BY <1>4, <2>1, <3>1, <3>2, Zenon
  <2> QED
    BY <1>9, <2>2, <2>3, Zenon
<1>15. SkippedToTheEnd'
  <2> SUFFICES ASSUME NEW m \in Node, status'[m] = "SKIPPED", NEW c \in Children(m)
               PROVE  status'[c] = "SKIPPED"
    BY Zenon DEF SkippedToTheEnd
  <2>1. c \in Node /\ m \in Parents(c)
    BY Zenon DEF Children, Parents
  <2>2. CASE status[m] = "SKIPPED"
    BY <2>1, <2>2, <1>1, ZenonT(40) DEF IndInv, SkippedToTheEnd
  <2>3. CASE m \in skipped
    <3>1. ~Activated(c)
      BY <2>1, <2>3, <1>1, Zenon DEF IndInv, UpstreamOutputsAvailable, OutputsConsistent, Activated
    <3> QED
      BY <2>1, <2>3, <3>1, <1>1, Zenon DEF Activated
  <2> QED
    BY <2>2, <2>3, <1>1, Zenon
<1>16. SeenIsStable'
  BY <1>2, <1>5, <1>6, <1>7, Zenon DEF IndInv, SeenIsStable
<1>17. FinishedIsFinal'
  <2> SUFFICES ASSUME \A m \in Node : status'[m] \in TERMINAL_NODE_STATUSES
               PROVE  execution' # "RUNNING"
    BY Zenon DEF FinishedIsFinal, Terminal
  <2>1. CASE seen[p] = "RUNNING"
    BY <1>2, <2>1, Zenon DEF FinalStatus
  <2>2. CASE seen[p] # "RUNNING"
    BY <1>2, <2>2, <1>7, Zenon DEF IndInv, SeenIsStable
  <2> QED
    BY <2>1, <2>2, Zenon
<1>18. SucceededIsComplete'
  <2> SUFFICES ASSUME execution' = "SUCCEEDED", NEW m \in Node
               PROVE  output'[m] \/ status'[m] = "SKIPPED"
    BY Zenon DEF SucceededIsComplete
  <2>1. CASE execution = "SUCCEEDED"
    <3>1. output[m] \/ status[m] = "SKIPPED"
      BY <2>1, Zenon DEF IndInv, SucceededIsComplete
    <3>2. output[m] => output'[m]
      BY <1>4, Zenon
    <3>3. status[m] = "SKIPPED" => status'[m] = "SKIPPED"
      BY <1>1, Zenon
    <3> QED
      BY <3>1, <3>2, <3>3, Zenon
  <2>2. CASE execution # "SUCCEEDED"
    <3>1. status'[m] \in {"SUCCEEDED", "SKIPPED"}
      BY <1>2, <2>2, Zenon DEF FinalStatus, TERMINAL_NODE_STATUSES
    <3> QED
      BY <3>1, <1>13, Zenon DEF OutputsConsistent
  <2> QED
    BY <2>1, <2>2, Zenon
<1> QED
  BY <1>10, <1>11, <1>12, <1>13, <1>14, <1>15, <1>16, <1>17, <1>18, Zenon DEF IndInv

LEMMA CompleteRetryingInd ==
  ASSUME IndInv, NEW p \in Runner, CompleteRetrying(p)
  PROVE  IndInv'
<1> DEFINE n == Job(p)
<1> USE ProcessFacts
<1>0. msg[p] # 0
  BY Zenon DEF CompleteRetrying, Completing, IndInv, JobsKnown, Working
<1>1. n \in Node /\ Activated(n)
  BY <1>0, MessageInStream, JobIsNode, Zenon DEF IndInv, CompleteRetrying, Activated
<1>2. /\ status' = [status EXCEPT ![n] = "QUEUED"]
      /\ attempt' = [attempt EXCEPT ![n] = attempt[n] + 1]
      /\ outbox' = [outbox EXCEPT ![p] = {n}]
      /\ pc' = [pc EXCEPT ![p] = "publishing"]
      /\ execution # "ABSENT"
      /\ UNCHANGED <<execution, output, dlqOpen, dlqResolved, redis, msg, claimed, seen,
                     target, bounds>>
  BY <1>1, Zenon DEF CompleteRetrying, Completing, Exists, IndInv, TypeOK
<1>3. /\ OutputsConsistent' /\ UpstreamOutputsAvailable' /\ SkippedToTheEnd'
      /\ FinishedIsFinal' /\ SucceededIsComplete'
      /\ \A m \in Node : Activated(m)' <=> Activated(m)
  BY <1>1, <1>2, Rewritten, Zenon
<1> HIDE DEF n
<1>4. TypeOK'
  <2>1. attempt' \in [Node -> Nat]
    <3>1. attempt \in [Node -> Nat] /\ attempt' = [attempt EXCEPT ![n] = attempt[n] + 1]
      BY <1>2, Zenon DEF IndInv, TypeOK
    <3> HIDE ProcessFacts
    <3> QED
      BY <1>1, <3>1
  <2>2. status' \in [Node -> NodeStatus]
    BY <1>2, Zenon DEF IndInv, TypeOK, NodeStatus
  <2> QED
    BY <1>1, <1>2, <2>1, <2>2, ZenonT(40) DEF IndInv, TypeOK, redis, bounds, ProgramCounter
<1>5. \A q \in Process : q # p => pc'[q] = pc[q] /\ outbox'[q] = outbox[q]
  BY <1>2, Zenon DEF IndInv, TypeOK
<1>6. pc'[p] = "publishing" /\ outbox'[p] = {n}
  BY <1>2, Zenon DEF IndInv, TypeOK
<1>7. JobsKnown'
  <2>1. UNCHANGED <<redis, msg, claimed>>
    BY <1>2, Zenon
  <2>2. \A q \in Runner : q # p => pc'[q] = pc[q]
    BY <1>5, Zenon
  <2>3. JobsKnown
    BY Zenon DEF IndInv
  <2> QED
    BY <1>0, <2>1, <2>2, <2>3, RunnerMoves, Zenon
<1>8. JobsActivated'
  <2>1. AbsentIsEmpty'
    BY <1>2, Zenon DEF AbsentIsEmpty
  <2>2. UNCHANGED <<stream, target>>
    BY <1>2, Zenon DEF redis
  <2>3. \A q \in Process : outbox[q] \subseteq Node
    BY Zenon DEF IndInv, TypeOK
  <2>4. \A q \in Process : \A m \in outbox'[q] : m \in Node /\ (m \in outbox[q] \/ Activated(m)')
    BY <1>1, <1>3, <1>5, <1>6, <2>3, Zenon
  <2>5. \A r \in Request : pc'[r] = pc[r]
    BY <1>5, Zenon
  <2> QED
    BY <1>3, <2>1, <2>2, <2>4, <2>5, JobsStayActivated, Zenon
<1>9. SeenIsStable'
  BY <1>2, <1>5, <1>6, Zenon DEF IndInv, SeenIsStable
<1> QED
  BY <1>3, <1>4, <1>7, <1>8, <1>9, Zenon DEF IndInv

LEMMA CompleteDeadLetteredInd ==
  ASSUME IndInv, NEW p \in Runner, CompleteDeadLettered(p)
  PROVE  IndInv'
<1> DEFINE n == Job(p)
<1> USE ProcessFacts
<1>0. msg[p] # 0
  BY Zenon DEF CompleteDeadLettered, Completing, IndInv, JobsKnown, Working
<1>1. n \in Node /\ status[n] = "RUNNING"
  BY <1>0, MessageInStream, JobIsNode, Zenon DEF IndInv, CompleteDeadLettered
<1>2. /\ status' = [status EXCEPT ![n] = "DEAD_LETTERED"]
      /\ dlqOpen' = [dlqOpen EXCEPT ![n] = dlqOpen[n] + 1]
      /\ execution' = IF seen[p] = "RUNNING" THEN "FAILED" ELSE execution
      /\ pc' = [pc EXCEPT ![p] = "acking"]
      /\ pc[p] = "executing" /\ execution # "ABSENT"
      /\ UNCHANGED <<attempt, output, dlqResolved, redis, msg, claimed, seen, outbox,
                     target, bounds>>
  BY <1>1, Zenon DEF CompleteDeadLettered, Completing, Exists, IndInv, TypeOK
<1> HIDE DEF n
<1>3. \A m \in Node : status'[m] = IF m = n THEN "DEAD_LETTERED" ELSE status[m]
  BY <1>2, Zenon DEF IndInv, TypeOK
<1>4. \A m \in Node : Activated(m)' <=> Activated(m)
  BY <1>1, <1>3, Zenon DEF Activated
<1>5. TypeOK'
  <2>1. dlqOpen' \in [Node -> Nat]
    BY <1>1, <1>2 DEF IndInv, TypeOK
  <2>2. status' \in [Node -> NodeStatus] /\ execution' \in ExecutionStatus
    BY <1>2, Zenon DEF IndInv, TypeOK, NodeStatus, ExecutionStatus
  <2> QED
    BY <1>2, <2>1, <2>2, Zenon DEF IndInv, TypeOK, redis, bounds, ProgramCounter
<1>6. pc'[p] = "acking" /\ \A q \in Process : q # p => pc'[q] = pc[q]
  BY <1>2, Zenon DEF IndInv, TypeOK
<1>7. JobsKnown'
  <2>1. UNCHANGED <<redis, msg, claimed>>
    BY <1>2, Zenon
  <2>2. \A q \in Runner : q # p => pc'[q] = pc[q]
    BY <1>6, Zenon
  <2>3. JobsKnown
    BY Zenon DEF IndInv
  <2> QED
    BY <1>0, <2>1, <2>2, <2>3, RunnerMoves, Zenon
<1>8. JobsActivated'
  <2>1. AbsentIsEmpty'
    BY <1>2, Zenon DEF AbsentIsEmpty
  <2>2. UNCHANGED <<stream, target, outbox>>
    BY <1>2, Zenon DEF redis
  <2>3. \A q \in Process : outbox[q] \subseteq Node
    BY Zenon DEF IndInv, TypeOK
  <2>4. \A r \in Request : pc'[r] = pc[r]
    BY <1>6, Zenon
  <2> QED
    BY <1>4, <2>1, <2>2, <2>3, <2>4, JobsStayActivated, Zenon
<1>9. OutputsConsistent' /\ UpstreamOutputsAvailable'
  <2>1. output' = output
    BY <1>2, Zenon
  <2>2. \A m \in Node : status'[m] = "SUCCEEDED" => status[m] = "SUCCEEDED"
    BY <1>3, Zenon
  <2>3. OutputsConsistent'
    BY <1>4, <2>1, <2>2, Zenon DEF IndInv, OutputsConsistent
  <2>4. UpstreamOutputsAvailable'
    BY <1>4, <2>1, Zenon DEF IndInv, UpstreamOutputsAvailable
  <2> QED
    BY <2>3, <2>4, Zenon
<1>10. SkippedToTheEnd'
  BY <1>1, <1>3, Zenon DEF IndInv, SkippedToTheEnd, Children
<1>11. SeenIsStable'
  BY <1>2, <1>6, Zenon DEF IndInv, SeenIsStable
<1>12. FinishedIsFinal'
  <2>1. seen[p] # "RUNNING" => execution # "RUNNING"
    BY <1>2, Zenon DEF IndInv, SeenIsStable
  <2> QED
    BY <1>2, <2>1, Zenon DEF FinishedIsFinal
<1>13. SucceededIsComplete'
  <2> SUFFICES ASSUME execution' = "SUCCEEDED", NEW m \in Node
               PROVE  output'[m] \/ status'[m] = "SKIPPED"
    BY Zenon DEF SucceededIsComplete
  <2>1. execution = "SUCCEEDED"
    BY <1>2, Zenon
  <2> QED
    BY <2>1, <1>1, <1>2, <1>3, Zenon DEF IndInv, SucceededIsComplete, OutputsConsistent, Activated
<1> QED
  BY <1>5, <1>7, <1>8, <1>9, <1>10, <1>11, <1>12, <1>13, Zenon DEF IndInv

LEMMA RunnerStepInd ==
  ASSUME IndInv, NEW p \in Runner, RunnerStep(p)
  PROVE  IndInv'
<1>1. ASSUME FetchRejected(p) \/ Vanished(p)
      PROVE  IndInv'
  <2>1. Abandon({p}) /\ UNCHANGED <<rows, redis, bounds>>
    BY <1>1, Zenon DEF FetchRejected, Vanished
  <2>2. {p} \in SUBSET Process
    BY ProcessFacts, Zenon
  <2>3. retries' \in [Node -> Nat] /\ faults' \in Nat /\ slow' \in Nat
    BY <2>1, Zenon DEF bounds, IndInv, TypeOK
  <2> QED
    BY <2>1, <2>2, <2>3, AbandonInd, Zenon
<1> QED
  BY <1>1, RunnerLocalInd, BlindCommitInd, CompleteSucceededInd, CompleteRetryingInd,
     CompleteDeadLetteredInd, AckInd, ClaimStaleInd, RecoverReadInd, Zenon DEF RunnerStep

LEMMA FaultInd ==
  ASSUME IndInv, (\E p \in Process : Fault(p)) \/ (\E w \in Worker : Crash(w))
  PROVE  IndInv'
<1>1. PICK ps \in SUBSET Process :
        Abandon(ps) /\ faults' = faults + 1 /\ UNCHANGED <<rows, redis, retries, slow>>
  <2>1. ASSUME NEW p \in Process, Fault(p)
        PROVE  \E ps \in SUBSET Process :
                 Abandon(ps) /\ faults' = faults + 1 /\ UNCHANGED <<rows, redis, retries, slow>>
    <3> WITNESS {p} \in SUBSET Process
    <3> QED
      BY <2>1, Zenon DEF Fault
  <2>2. ASSUME NEW w \in Worker, Crash(w)
        PROVE  \E ps \in SUBSET Process :
                 Abandon(ps) /\ faults' = faults + 1 /\ UNCHANGED <<rows, redis, retries, slow>>
    <3> {w} \X (0 .. PollCount) \in SUBSET Process
      BY ProcessFacts, Zenon
    <3> WITNESS {w} \X (0 .. PollCount) \in SUBSET Process
    <3> QED
      BY <2>2, Zenon DEF Crash
  <2> QED
    BY <2>1, <2>2, Zenon
<1>2. retries' \in [Node -> Nat] /\ faults' \in Nat /\ slow' \in Nat
  BY <1>1 DEF IndInv, TypeOK
<1> QED
  BY <1>1, <1>2, AbandonInd, Zenon

LEMMA NextInd == IndInv /\ [Next]_vars => IndInv'
<1> SUFFICES ASSUME IndInv, [Next]_vars PROVE IndInv'
  BY Zenon
<1>1. CASE UNCHANGED vars
  <2>1. UNCHANGED rows /\ UNCHANGED redis /\ UNCHANGED local /\ UNCHANGED bounds
    BY <1>1, Zenon DEF vars
  <2>2. TypeOK'
    BY <2>1, Zenon DEF IndInv, TypeOK, rows, redis, local, bounds
  <2>3. JobsKnown' /\ SeenIsStable'
    BY <2>1, Zenon DEF IndInv, JobsKnown, SeenIsStable, Working, rows, redis, local
  <2>4. JobsActivated'
    BY <2>1, Zenon DEF IndInv, JobsActivated, AbsentIsEmpty, StreamActivated, OutboxActivated,
                TargetActivated, Activated, rows, redis, local
  <2> QED
    BY <2>1, <2>2, <2>3, <2>4, SameRows, Zenon DEF IndInv
<1>2. ASSUME NEW r \in Request, RequestStep(r)
      PROVE  IndInv'
  BY <1>2, StartInd, RetryReadInd, RetryCommitInd, RetryRejectedInd, Zenon DEF RequestStep
<1>3. ASSUME NEW p \in Process, PublishStep(p)
      PROVE  IndInv'
  BY <1>3, PublishInd, PublishedInd, Zenon DEF PublishStep
<1> QED
  BY <1>1, <1>2, <1>3, RunnerStepInd, ReadGroupInd, FaultInd, OperatorInd, Zenon DEF Next

(* The inductive invariant holds in every reachable state, whatever the    *)
(* graph, the processes and the faults.                                    *)
THEOREM Inductive == Spec => []IndInv
BY InitInd, NextInd, PTL DEF Spec

(* Every variable keeps its type: process_job never looks up a node that   *)
(* is not part of the execution, and the group never acknowledges or       *)
(* claims a message it has not delivered.                                  *)
THEOREM TypeCorrect == Spec => []TypeOK
<1>1. IndInv => TypeOK
  BY Zenon DEF IndInv
<1> QED
  BY <1>1, Inductive, PTL

(* process_job can always build upstream_outputs: a node that was queued   *)
(* has the outputs of all its parents.                                     *)
THEOREM UpstreamOutputs == Spec => []UpstreamOutputsAvailable
<1>1. IndInv => UpstreamOutputsAvailable
  BY Zenon DEF IndInv
<1> QED
  BY <1>1, Inductive, PTL

(* The cascade of _queue_downstream_nodes leaves no descendant of a        *)
(* SKIPPED node behind.                                                    *)
THEOREM SkipReachesTheEnd == Spec => []SkippedToTheEnd
<1>1. IndInv => SkippedToTheEnd
  BY Zenon DEF IndInv
<1> QED
  BY <1>1, Inductive, PTL

(* SUCCEEDED is only reported when every node that was not skipped has     *)
(* produced its output.                                                    *)
THEOREM SuccessIsComplete == Spec => []SucceededIsComplete
<1>1. IndInv => SucceededIsComplete
  BY Zenon DEF IndInv
<1> QED
  BY <1>1, Inductive, PTL

(* The completion that writes the last terminal status also ends the       *)
(* execution, although it tests a status read before the executor ran.     *)
THEOREM LastNodeEndsExecution == Spec => []FinishedIsFinal
<1>1. IndInv => FinishedIsFinal
  BY Zenon DEF IndInv
<1> QED
  BY <1>1, Inductive, PTL

-----------------------------------------------------------------------------
(* No step deactivates a node that was queued, or runs one that was        *)
(* skipped.                                                                *)
LEMMA ActivationStep ==
  ASSUME IndInv, [Next]_vars, NEW n \in Node, status[n] # "PENDING"
  PROVE  Activated(n)' = Activated(n)
<1>1. CASE UNCHANGED status
  BY <1>1, Zenon DEF Activated
<1>2. ASSUME NEW r \in Request, StartExecution(r)
      PROVE  FALSE
  BY <1>2, Zenon DEF StartExecution, IndInv, JobsActivated, AbsentIsEmpty
<1>3. ASSUME NEW m \in Node, Activated(m), NEW s \in NodeStatus \ {"PENDING", "SKIPPED"},
             status' = [status EXCEPT ![m] = s]
      PROVE  Activated(n)' = Activated(n)
  BY <1>3, Zenon DEF Activated, IndInv, TypeOK
<1>4. ASSUME NEW r \in Request, RetryCommit(r)
      PROVE  Activated(n)' = Activated(n)
  <2>1. pc[r] = "retrying" /\ status' = [status EXCEPT ![target[r].node] = "QUEUED"]
    BY <1>4, Zenon DEF RetryCommit
  <2>2. target[r].node \in Node \cup {NoNode}
    BY Zenon DEF IndInv, TypeOK
  <2>3. target[r].node \in Node /\ Activated(target[r].node)
    BY <2>1, <2>2, Zenon DEF IndInv, JobsActivated, TargetActivated
  <2> QED
    BY <1>3, <2>1, <2>3, Zenon DEF NodeStatus
<1>5. ASSUME NEW p \in Runner,
             CommitRunning(p) \/ RecoverCommit(p) \/ CompleteRetrying(p) \/ CompleteDeadLettered(p)
      PROVE  Activated(n)' = Activated(n)
  <2>1. msg[p] # 0
    BY <1>5, Zenon DEF CommitRunning, RecoverCommit, CompleteRetrying, CompleteDeadLettered, Completing,
                IndInv, JobsKnown, Working
  <2>2. Job(p) \in Node /\ Activated(Job(p))
    BY <2>1, MessageInStream, JobIsNode, Zenon DEF IndInv, JobsActivated, StreamActivated, Job
  <2>3. status' = status \/ \E s \in NodeStatus \ {"PENDING", "SKIPPED"} :
                                status' = [status EXCEPT ![Job(p)] = s]
    BY <1>5, Zenon DEF CommitRunning, RecoverCommit, CompleteRetrying, CompleteDeadLettered, NodeStatus
  <2> QED
    BY <1>1, <1>3, <2>2, <2>3, Zenon
<1>6. ASSUME NEW p \in Runner, NEW chosen, CompleteSucceeded(p, chosen)
      PROVE  Activated(n)' = Activated(n)
  BY <1>6, SucceededRows, Zenon DEF Activated
<1>7. ASSUME NEW r \in Request, RequestStep(r)
      PROVE  Activated(n)' = Activated(n)
  BY <1>1, <1>2, <1>4, <1>7, Zenon DEF RequestStep, RetryRead, RetryRejected, rows
<1>8. ASSUME NEW p \in Runner, RunnerStep(p)
      PROVE  Activated(n)' = Activated(n)
  <2>1. CASE FetchNode(p) \/ FetchRejected(p) \/ LoadContext(p) \/ Vanished(p)
               \/ CompleteSkipped(p) \/ Ack(p) \/ ClaimStale(p) \/ RecoverRead(p)
    BY <1>1, <2>1, Zenon DEF FetchNode, FetchRejected, LoadContext, Vanished, CompleteSkipped, Ack,
                      ClaimStale, RecoverRead, rows
  <2> QED
    BY <1>5, <1>6, <1>8, <2>1, Zenon DEF RunnerStep
<1>9. CASE UNCHANGED vars
  BY <1>1, <1>9, Zenon DEF vars, rows
<1>10. ASSUME NEW p \in Process, PublishStep(p) \/ Fault(p)
       PROVE  Activated(n)' = Activated(n)
  BY <1>1, <1>10, Zenon DEF PublishStep, Publish, Published, Fault, rows
<1>11. ASSUME NEW w \in Worker, ReadGroup(w) \/ Crash(w)
       PROVE  Activated(n)' = Activated(n)
  BY <1>1, <1>11, Zenon DEF ReadGroup, Crash, rows
<1>12. CASE DeleteExecution \/ \E m \in Node : ResolveDlqJob(m)
  BY <1>1, <1>12, Zenon DEF DeleteExecution, ResolveDlqJob
<1> QED
  BY <1>7, <1>8, <1>9, <1>10, <1>11, <1>12, Zenon DEF Next

(* A node that was queued is never PENDING or SKIPPED again, and a SKIPPED *)
(* node never runs, whatever recovery and retries overwrite.               *)
THEOREM ActivationFinal == Spec => ActivationIsFinal
<1>1. IndInv /\ [Next]_vars =>
        [\A n \in Node : status[n] # "PENDING" => (Activated(n))' = Activated(n)]_vars
  BY ActivationStep, Zenon
<1> QED
  BY <1>1, Inductive, PTL DEF Spec, ActivationIsFinal

-----------------------------------------------------------------------------
(* ExecutionEngine implements WorkflowRun.                                 *)

(* A view does not change when PENDING and SKIPPED nodes keep their        *)
(* status, queued ones stay queued or beyond, and outputs stay.            *)
LEMMA SameView ==
  ASSUME output' = output,
         \A n \in Node : \/ status'[n] = status[n]
                         \/ Activated(n) /\ Activated(n)'
  PROVE  NodeView' = NodeView
BY Zenon DEF NodeView, Activated

(* Every write to one queued node that leaves its output alone.            *)
LEMMA OneNodeView ==
  ASSUME IndInv, output' = output, NEW m \in Node, Activated(m),
         NEW s \in NodeStatus \ {"PENDING", "SKIPPED"}, status' = [status EXCEPT ![m] = s]
  PROVE  NodeView' = NodeView
<1>1. status \in [Node -> NodeStatus]
  BY Zenon DEF IndInv, TypeOK
<1>2. \A n \in Node : \/ status'[n] = status[n]
                      \/ Activated(n) /\ Activated(n)'
  BY <1>1, Zenon DEF Activated
<1> QED
  BY <1>2, SameView, Zenon

(* start_execution's commit is Start.                                      *)
LEMMA StartImplements ==
  ASSUME IndInv, NEW r \in Request, StartExecution(r)
  PROVE  Run!Start
<1>1. /\ execution = "ABSENT" /\ execution' = "RUNNING" /\ output' = output
      /\ status' = [n \in Node |-> IF n \in Roots THEN "QUEUED" ELSE "PENDING"]
  BY Zenon DEF StartExecution
<1>2. \A n \in Node : status[n] = "PENDING" /\ ~output[n]
  BY <1>1, Zenon DEF IndInv, JobsActivated, AbsentIsEmpty
<1>3. NodeView' = [n \in Node |-> IF Run!Before(n) = {} THEN "active" ELSE NodeView[n]]
  BY <1>1, <1>2, Zenon DEF NodeView, Run!Before, Roots, Parents
<1> QED
  BY <1>1, <1>3, Zenon DEF Run!Start

(* A run of process_job that succeeds is Produce, also when the node had   *)
(* left its output before and is run again.                                *)
LEMMA SucceededImplements ==
  ASSUME IndInv, IndInv', NEW p \in Runner, NEW chosen, CompleteSucceeded(p, chosen)
  PROVE  \E n \in Node : Run!Produce(n)
<1> DEFINE n == Job(p)
<1>1. PICK skipped \in SUBSET Node, ready \in SUBSET Node :
           /\ n \in Node
           /\ status[n] = "RUNNING"
           /\ status'[n] = "SUCCEEDED"
           /\ \A m \in Node : m # n /\ status[m] # "PENDING" => status'[m] = status[m]
           /\ \A m \in Node : status[m] = "PENDING" =>
                status'[m] = IF m \in skipped THEN "SKIPPED"
                             ELSE IF m \in ready THEN "QUEUED" ELSE "PENDING"
           /\ \A m \in skipped : status[m] = "PENDING" /\
                \A c \in Children(m) : status[c] = "PENDING" => c \in skipped
           /\ \A m \in ready : /\ status[m] = "PENDING" /\ m \notin skipped
                               /\ \A q \in Parents(m) : q = n \/ status[q] = "SUCCEEDED"
  BY SucceededRows, ZenonT(40)
<1>2. /\ output' = [output EXCEPT ![n] = TRUE]
      /\ execution' = FinalStatus(status', seen[p])
      /\ execution \notin {"ABSENT", "DELETED"}
  BY Zenon DEF CompleteSucceeded, Completing, Exists
<1> HIDE DEF n
<1>3. execution \in {"RUNNING", "SUCCEEDED", "FAILED"}
  BY <1>2, Zenon DEF IndInv, TypeOK, ExecutionStatus
<1>4. \A m \in Node : output[m] => Activated(m)
  BY Zenon DEF IndInv, OutputsConsistent
<1>5. skipped \in SUBSET Run!Waiting /\ ready \in SUBSET (Run!Waiting \ skipped)
  BY <1>1, <1>4, Zenon DEF Run!Waiting, NodeView, Activated
<1>6. Run!SkippedWithDependents(skipped)
  <2> SUFFICES ASSUME NEW e \in Edge, e[1] \in skipped
               PROVE  e[2] \in skipped \/ NodeView[e[2]] = "skipped"
    BY Zenon DEF Run!SkippedWithDependents
  <2>1. e[1] \in Node /\ e[2] \in Node /\ e = <<e[1], e[2]>>
    BY ConstantsAssumption
  <2>2. e[2] \in Children(e[1])
    BY <2>1, Zenon DEF Children
  <2>3. e[1] \in Parents(e[2])
    BY <2>1, Zenon DEF Parents
  <2>4. status[e[1]] = "PENDING" /\ ~output[e[1]]
    BY <1>1, <1>4, <2>1, Zenon DEF Activated
  <2>5. ~Activated(e[2])
    BY <2>1, <2>3, <2>4, Zenon DEF IndInv, UpstreamOutputsAvailable
  <2>6. status[e[2]] = "PENDING" => e[2] \in skipped
    BY <1>1, <2>2, Zenon
  <2> QED
    BY <1>4, <2>1, <2>5, <2>6, Zenon DEF NodeView, Activated
<1>7. \A c \in ready : \A q \in Run!Before(c) : q = n \/ NodeView[q] = "produced"
  BY <1>1, Zenon DEF IndInv, OutputsConsistent, NodeView, Run!Before, Parents
<1>8. NodeView' = [m \in Node |-> IF m = n THEN "produced"
                                  ELSE IF m \in skipped THEN "skipped"
                                  ELSE IF m \in ready THEN "active"
                                  ELSE NodeView[m]]
  <2>1. output \in [Node -> BOOLEAN]
    BY Zenon DEF IndInv, TypeOK
  <2>2. output'[n] /\ \A m \in Node : m # n => output'[m] = output[m]
    BY <1>1, <1>2, <2>1, Zenon
  <2>3. \A m \in Node : status[m] = "PENDING" => ~output[m]
    BY <1>4, Zenon DEF Activated
  <2>4. ASSUME NEW m \in Node
        PROVE  (IF output'[m] THEN "produced"
                ELSE IF status'[m] = "PENDING" THEN "waiting"
                ELSE IF status'[m] = "SKIPPED" THEN "skipped"
                ELSE "active")
               = (IF m = n THEN "produced"
                  ELSE IF m \in skipped THEN "skipped"
                  ELSE IF m \in ready THEN "active"
                  ELSE IF output[m] THEN "produced"
                  ELSE IF status[m] = "PENDING" THEN "waiting"
                  ELSE IF status[m] = "SKIPPED" THEN "skipped"
                  ELSE "active")
    BY <1>1, <2>2, <2>3, Zenon
  <2> QED
    BY <2>4, Zenon DEF NodeView
<1>9. Run!Reported
  <2>1. execution' \in {execution, "FAILED", "SUCCEEDED"}
    BY <1>2, Zenon DEF FinalStatus
  <2>2. execution' = "SUCCEEDED" => \A m \in Node : NodeView'[m] \in {"produced", "skipped"}
    BY Zenon DEF IndInv, SucceededIsComplete, OutputsConsistent, NodeView
  <2> QED
    BY <2>1, <2>2, Zenon DEF Run!Reported
<1>10. NodeView[n] \in {"active", "produced"}
  BY <1>1, Zenon DEF NodeView
<1>11. Run!Produce(n)
  BY <1>3, <1>5, <1>6, <1>7, <1>8, <1>9, <1>10, Zenon DEF Run!Produce
<1> QED
  BY <1>1, <1>11, Zenon

(* Writes of one queued node, by a retry, a worker or a recovery loop, are *)
(* invisible; a dead letter is Fail or invisible.                          *)
LEMMA NodeWriteImplements ==
  ASSUME IndInv, NEW p \in Process,
         \/ p \in Request /\ RetryCommit(p)
         \/ p \in Runner /\ (CommitRunning(p) \/ RecoverCommit(p) \/ CompleteRetrying(p)
                             \/ CompleteDeadLettered(p))
  PROVE  Run!Fail \/ UNCHANGED <<execution, NodeView>>
<1>1. CASE p \in Request /\ RetryCommit(p)
  <2>1. /\ pc[p] = "retrying" /\ UNCHANGED <<execution, output>>
        /\ status' = [status EXCEPT ![target[p].node] = "QUEUED"]
    BY <1>1, Zenon DEF RetryCommit
  <2>2. target[p].node \in Node /\ Activated(target[p].node)
    BY <1>1, <2>1, Zenon DEF IndInv, TypeOK, JobsActivated, TargetActivated
  <2> QED
    BY <2>1, <2>2, OneNodeView, Zenon DEF NodeStatus
<1>2. CASE p \in Runner /\ (CommitRunning(p) \/ RecoverCommit(p) \/ CompleteRetrying(p)
                            \/ CompleteDeadLettered(p))
  <2>1. msg[p] # 0
    BY <1>2, Zenon DEF CommitRunning, RecoverCommit, CompleteRetrying, CompleteDeadLettered, Completing,
                IndInv, JobsKnown, Working
  <2>2. Job(p) \in Node /\ Activated(Job(p))
    BY <1>2, <2>1, MessageInStream, JobIsNode, Zenon DEF IndInv, JobsActivated, StreamActivated, Job
  <2>3. /\ output' = output
        /\ status' = status \/ \E s \in NodeStatus \ {"PENDING", "SKIPPED"} :
                                  status' = [status EXCEPT ![Job(p)] = s]
    BY <1>2, Zenon DEF CommitRunning, RecoverCommit, CompleteRetrying, CompleteDeadLettered, NodeStatus
  <2>4. NodeView' = NodeView
    BY <2>2, <2>3, OneNodeView, SameView, Zenon
  <2>5. execution' = execution \/ (execution' = "FAILED" /\ Exists)
    BY <1>2, Zenon DEF CommitRunning, RecoverCommit, CompleteRetrying, CompleteDeadLettered, Completing
  <2>6. Exists => execution \in {"RUNNING", "SUCCEEDED", "FAILED"}
    BY Zenon DEF Exists, IndInv, TypeOK, ExecutionStatus
  <2> QED
    BY <2>4, <2>5, <2>6, Zenon DEF Run!Fail
<1> QED
  BY <1>1, <1>2, Zenon

LEMMA StepImplements ==
  ASSUME IndInv, IndInv', [Next]_vars
  PROVE  [Run!Next]_<<execution, NodeView>>
<1>1. ASSUME UNCHANGED <<execution, status, output>>
      PROVE  UNCHANGED <<execution, NodeView>>
  BY <1>1, SameView, Zenon
<1>2. ASSUME NEW r \in Request, RequestStep(r)
      PROVE  [Run!Next]_<<execution, NodeView>>
  <2>1. CASE RetryRejected(r) \/ \E n \in Node : RetryRead(r, n)
    BY <1>1, <2>1, Zenon DEF RetryRejected, RetryRead, rows
  <2>2. r \in Process
    BY Zenon DEF Process
  <2> QED
    BY <1>2, <2>1, <2>2, StartImplements, NodeWriteImplements, Zenon DEF RequestStep, Run!Next
<1>3. ASSUME NEW p \in Runner, RunnerStep(p)
      PROVE  [Run!Next]_<<execution, NodeView>>
  <2>1. CASE FetchNode(p) \/ FetchRejected(p) \/ LoadContext(p) \/ Vanished(p)
               \/ CompleteSkipped(p) \/ Ack(p) \/ ClaimStale(p) \/ RecoverRead(p)
    BY <1>1, <2>1, Zenon DEF FetchNode, FetchRejected, LoadContext, Vanished, CompleteSkipped, Ack,
                      ClaimStale, RecoverRead, rows
  <2>2. p \in Process
    BY Zenon DEF Process
  <2> QED
    BY <1>3, <2>1, <2>2, SucceededImplements, NodeWriteImplements, Zenon DEF RunnerStep, Run!Next
<1>4. CASE UNCHANGED vars
  BY <1>1, <1>4, Zenon DEF vars, rows
<1>5. ASSUME NEW p \in Process, PublishStep(p) \/ Fault(p)
      PROVE  [Run!Next]_<<execution, NodeView>>
  BY <1>1, <1>5, Zenon DEF PublishStep, Publish, Published, Fault, rows
<1>6. ASSUME NEW w \in Worker, ReadGroup(w) \/ Crash(w)
      PROVE  [Run!Next]_<<execution, NodeView>>
  BY <1>1, <1>6, Zenon DEF ReadGroup, Crash, rows
<1>7. ASSUME NEW n \in Node, ResolveDlqJob(n)
      PROVE  [Run!Next]_<<execution, NodeView>>
  BY <1>1, <1>7, Zenon DEF ResolveDlqJob
<1>8. CASE DeleteExecution
  <2>1. execution' = "DELETED" /\ Exists /\ UNCHANGED <<status, output>>
    BY <1>8, Zenon DEF DeleteExecution
  <2>2. execution \in {"RUNNING", "SUCCEEDED", "FAILED"}
    BY <2>1, Zenon DEF Exists, IndInv, TypeOK, ExecutionStatus
  <2> QED
    BY <2>1, <2>2, SameView, Zenon DEF Run!Next, Run!Delete
<1> QED
  BY <1>2, <1>3, <1>4, <1>5, <1>6, <1>7, <1>8, Zenon DEF Next

(* The engine implements the abstract run: to whoever watches an execution *)
(* through its status, its outputs and its skipped nodes, the stream, the  *)
(* duplicates, the recoveries, the retries and the crashes do not exist.   *)
THEOREM Refinement == Spec => ImplementsWorkflowRun
<1>1. Init => Run!Init
  BY DEF Init, Run!Init, NodeView
<1>2. IndInv /\ IndInv' /\ [Next]_vars => [Run!Next]_<<execution, NodeView>>
  BY StepImplements, Zenon
<1> QED
  BY <1>1, <1>2, Inductive, PTL DEF Spec, ImplementsWorkflowRun, Run!Spec
=============================================================================
