-------------------------- MODULE ExecutionEngine --------------------------
(***************************************************************************)
(* One execution of one workflow version: the rows of PostgreSQL (the      *)
(* execution, its node executions, its dead letter jobs), the Redis stream *)
(* with its consumer group, the API requests that start, retry and delete, *)
(* the worker processes that consume the stream, and the recovery loop     *)
(* each worker runs beside its consumer loop.                              *)
(*                                                                         *)
(* A step is what happens between two points where another process can     *)
(* interleave: a read of a row that a later step acts on, a commit, a      *)
(* publish (XADD), an acknowledgement (XACK).  A SQLAlchemy session keeps  *)
(* the attributes it has read (expire_on_commit=False, db/session.py:29),  *)
(* so a status check made on a read is NOT repeated by the commit that     *)
(* follows it.  Completion is one step: it holds the execution row FOR     *)
(* UPDATE from its read to its commit, and every other writer that could   *)
(* disturb it inserts an execution_logs row, which needs that same row.    *)
(***************************************************************************)
EXTENDS Naturals, Sequences, FiniteSets

CONSTANTS
  Node,          \* the node ids of the workflow definition
  Edge,          \* its edges, as pairs <<from_node, to_node>>
  Condition,     \* the nodes of type "condition"
  TruePath,      \* their config "true_path": a function from Condition
  FalsePath,     \* their config "false_path"
  MaxAttempts,   \* node_executions.max_attempts, from the retry policy
  Worker,        \* worker processes
  PollCount,     \* messages one XREADGROUP returns at most
  ClaimBatch,    \* entries one XPENDING of the recovery loop looks at
  Request        \* API requests in flight: start, retry

(* Bounds and regimes.  They restrict the environment, never the code.     *)
CONSTANTS
  MaxRetries,     \* calls of retry_node
  MaxFaults,      \* crashes and exceptions of workers and requests
  FaultInPublish, \* the processes a fault may hit while they have to publish
  MaxSlow,        \* claims of a message whose job is alive, because the job
                  \* takes longer than worker_pending_idle_timeout_seconds
  MayDelete       \* may the execution be deleted?

NoNode == "none"
NoTarget == [node |-> NoNode, attempt |-> 0]

-----------------------------------------------------------------------------
(* Processes.  Worker w runs up to PollCount jobs of one batch at once, in *)
(* the slots <<w, 1>> .. <<w, PollCount>>, and its recovery loop, <<w, 0>>.*)

Slot == Worker \X (1 .. PollCount)
Recoverer == Worker \X {0}
Runner == Slot \cup Recoverer
Process == Runner \cup Request

ASSUME ConstantsAssumption ==
  /\ Node # {} /\ NoNode \notin Node
  /\ Edge \subseteq Node \X Node
  /\ Condition \subseteq Node
  /\ TruePath \in [Condition -> Node \cup {NoNode}]
  /\ FalsePath \in [Condition -> Node \cup {NoNode}]
  /\ MaxAttempts \in [Node -> Nat \ {0}]
  /\ PollCount \in Nat \ {0}
  /\ ClaimBatch \in Nat \ {0}
  /\ \A r \in Request, w \in Worker, i \in 0 .. PollCount : r # <<w, i>>
  /\ \E n \in Node : \A m \in Node : <<m, n>> \notin Edge
  /\ MaxRetries \in Nat /\ MaxFaults \in Nat /\ MaxSlow \in Nat
  /\ FaultInPublish \subseteq Process /\ MayDelete \in BOOLEAN

NodeStatus == {"PENDING", "QUEUED", "RUNNING", "SUCCEEDED", "FAILED",
               "RETRYING", "SKIPPED", "DEAD_LETTERED"}

TERMINAL_NODE_STATUSES == {"SUCCEEDED", "FAILED", "SKIPPED", "DEAD_LETTERED"}

(* "ABSENT" and "DELETED": there is no row before start_execution commits  *)
(* and none after delete_execution does.  CREATED is never committed.      *)
ExecutionStatus == {"ABSENT", "RUNNING", "SUCCEEDED", "FAILED", "DELETED"}

ProgramCounter ==
  {"idle",
   "fetched",     \* has a message, has not read its node
   "reviving",    \* recovery read RUNNING and is about to write QUEUED
   "resuming",    \* recovery read QUEUED and is about to commit its log entry
   "starting",    \* holds a node it believes QUEUED, about to commit RUNNING
   "loading",     \* committed RUNNING, about to read the execution
   "executing",   \* the executor runs
   "publishing",  \* committed, has nodes to XADD
   "acking",      \* about to XACK
   "retrying"}    \* retry_node read DEAD_LETTERED and is about to commit

VARIABLES
  execution,   \* executions.status
  status,      \* node_executions.status
  attempt,     \* node_executions.attempt
  output,      \* is node_executions.output_payload set?
  dlqOpen,     \* unresolved dead_letter_jobs rows of each node
  dlqResolved, \* resolved ones
  stream,      \* every message ever added; a message names its node
  delivered,   \* the group's last-delivered position in the stream
  pel,         \* positions delivered and not acknowledged
  pc,          \* where each process is
  msg,         \* the position of the message a runner works on, 0 if none
  claimed,     \* positions a recovery loop has claimed and not reached yet
  seen,        \* executions.status as process_job read it (runtime.py:83)
  outbox,      \* nodes a process has committed as QUEUED and must publish
  target,      \* retry_node: the node and the attempt read with it
  retries,     \* retry_node calls so far, per node
  faults,      \* faults so far
  slow         \* claims of live jobs so far

rows == <<execution, status, attempt, output, dlqOpen, dlqResolved>>
redis == <<stream, delivered, pel>>
local == <<pc, msg, claimed, seen, outbox, target>>
bounds == <<retries, faults, slow>>
vars == <<rows, redis, local, bounds>>

-----------------------------------------------------------------------------
(* The graph.                                                              *)

Parents(n) == {m \in Node : <<m, n>> \in Edge}
Children(n) == {m \in Node : <<n, m>> \in Edge}
Roots == {n \in Node : Parents(n) = {}}

Terminal(n) == status[n] \in TERMINAL_NODE_STATUSES

(* A node that was queued at least once.                                   *)
Activated(n) == status[n] \notin {"PENDING", "SKIPPED"}

Exists == execution \notin {"ABSENT", "DELETED"}

Job(p) == stream[msg[p]]

(* A live process works on message m or has it in its claimed batch.       *)
Held(m) == \E p \in Runner : pc[p] # "idle" /\ (msg[p] = m \/ m \in claimed[p])

Init ==
  /\ execution = "ABSENT"
  /\ status = [n \in Node |-> "PENDING"]
  /\ attempt = [n \in Node |-> 0]
  /\ output = [n \in Node |-> FALSE]
  /\ dlqOpen = [n \in Node |-> 0]
  /\ dlqResolved = [n \in Node |-> 0]
  /\ stream = << >>
  /\ delivered = 0
  /\ pel = {}
  /\ pc = [p \in Process |-> "idle"]
  /\ msg = [p \in Runner |-> 0]
  /\ claimed = [p \in Runner |-> {}]
  /\ seen = [p \in Runner |-> "ABSENT"]
  /\ outbox = [p \in Process |-> {}]
  /\ target = [r \in Request |-> NoTarget]
  /\ retries = [n \in Node |-> 0]
  /\ faults = 0
  /\ slow = 0

-----------------------------------------------------------------------------
(* API requests (services/execution_engine.py).                            *)

(* start_execution up to its first commit: the execution goes from CREATED *)
(* to RUNNING and the roots from PENDING to QUEUED in one transaction.     *)
StartExecution(r) ==
  /\ pc[r] = "idle" /\ execution = "ABSENT"
  /\ execution' = "RUNNING"
  /\ status' = [n \in Node |-> IF n \in Roots THEN "QUEUED" ELSE "PENDING"]
  /\ attempt' = [n \in Node |-> IF n \in Roots THEN 1 ELSE 0]
  /\ pc' = [pc EXCEPT ![r] = "publishing"]
  /\ outbox' = [outbox EXCEPT ![r] = Roots]
  /\ UNCHANGED <<output, dlqOpen, dlqResolved, redis, msg, claimed, seen,
                 target, bounds>>

(* Mutant: retry_node without its DEAD_LETTERED check.                     *)
RetryReadAnyTerminal(r, n) ==
  /\ pc[r] = "idle" /\ Exists
  /\ Terminal(n)
  /\ retries[n] < MaxRetries
  /\ retries' = [retries EXCEPT ![n] = @ + 1]
  /\ target' = [target EXCEPT ![r] = [node |-> n, attempt |-> attempt[n]]]
  /\ pc' = [pc EXCEPT ![r] = "retrying"]
  /\ UNCHANGED <<rows, redis, msg, claimed, seen, outbox, faults, slow>>

(* retry_node up to its status check: it keeps the attempt it read.        *)
RetryRead(r, n) ==
  /\ pc[r] = "idle" /\ Exists
  /\ status[n] = "DEAD_LETTERED"
  /\ retries[n] < MaxRetries
  /\ retries' = [retries EXCEPT ![n] = @ + 1]
  /\ target' = [target EXCEPT ![r] = [node |-> n, attempt |-> attempt[n]]]
  /\ pc' = [pc EXCEPT ![r] = "retrying"]
  /\ UNCHANGED <<rows, redis, msg, claimed, seen, outbox, faults, slow>>

(* retry_node's transition and commit.  The UPDATE has no status in its    *)
(* WHERE clause.  The unresolved dead letter job is resolved with it, and  *)
(* scalar_one_or_none raises when there are two.  The execution keeps its  *)
(* status.                                                                 *)
RetryCommit(r) ==
  LET n == target[r].node IN
  /\ pc[r] = "retrying" /\ Exists
  /\ dlqOpen[n] < 2
  /\ status' = [status EXCEPT ![n] = "QUEUED"]
  /\ attempt' = [attempt EXCEPT ![n] = target[r].attempt + 1]
  /\ dlqOpen' = [dlqOpen EXCEPT ![n] = 0]
  /\ dlqResolved' = [dlqResolved EXCEPT ![n] = @ + dlqOpen[n]]
  /\ pc' = [pc EXCEPT ![r] = "publishing"]
  /\ outbox' = [outbox EXCEPT ![r] = {n}]
  /\ UNCHANGED <<execution, output, redis, msg, claimed, seen, target, bounds>>

(* retry_node fails: the row is gone, or two unresolved jobs were found.   *)
RetryRejected(r) ==
  /\ pc[r] = "retrying"
  /\ ~Exists \/ dlqOpen[target[r].node] >= 2
  /\ pc' = [pc EXCEPT ![r] = "idle"]
  /\ target' = [target EXCEPT ![r] = NoTarget]
  /\ UNCHANGED <<rows, redis, msg, claimed, seen, outbox, bounds>>

(* resolve_dlq_job marks one dead letter job; the node keeps its status.   *)
ResolveDlqJob(n) ==
  /\ Exists /\ dlqOpen[n] > 0
  /\ dlqOpen' = [dlqOpen EXCEPT ![n] = @ - 1]
  /\ dlqResolved' = [dlqResolved EXCEPT ![n] = @ + 1]
  /\ UNCHANGED <<execution, status, attempt, output, redis, local, bounds>>

(* delete_execution removes the dead letter jobs, the execution and, by    *)
(* cascade, its node executions and logs in one transaction.  A dead       *)
(* letter job inserted meanwhile makes it raise, which changes nothing.    *)
DeleteExecution ==
  /\ MayDelete /\ Exists
  /\ execution' = "DELETED"
  /\ dlqOpen' = [n \in Node |-> 0]
  /\ dlqResolved' = [n \in Node |-> 0]
  /\ UNCHANGED <<status, attempt, output, redis, local, bounds>>

-----------------------------------------------------------------------------
(* Publishing, shared by requests and runners: one XADD per node, then the *)
(* commit of redis_message_id, which raises if the rows are gone.          *)

(* Mutant: a publish that is sent twice.                                   *)
PublishTwice(p, n) ==
  /\ pc[p] = "publishing" /\ n \in outbox[p]
  /\ stream' = stream \o <<n, n>>
  /\ outbox' = [outbox EXCEPT ![p] = @ \ {n}]
  /\ UNCHANGED <<rows, delivered, pel, pc, msg, claimed, seen, target, bounds>>

Publish(p, n) ==
  /\ pc[p] = "publishing" /\ n \in outbox[p]
  /\ stream' = Append(stream, n)
  /\ outbox' = [outbox EXCEPT ![p] = @ \ {n}]
  /\ UNCHANGED <<rows, delivered, pel, pc, msg, claimed, seen, target, bounds>>

Published(p) ==
  /\ pc[p] = "publishing" /\ outbox[p] = {}
  /\ p \in Runner => Exists
  /\ pc' = [pc EXCEPT ![p] = IF p \in Request THEN "idle" ELSE "acking"]
  /\ target' = [r \in Request |-> IF r = p THEN NoTarget ELSE target[r]]
  /\ UNCHANGED <<rows, redis, msg, claimed, seen, outbox, bounds>>

-----------------------------------------------------------------------------
(* The consumer loop of a worker (run_worker) and process_job.             *)

(* An exception or a crash: the processes in ps leave what they do, their  *)
(* messages stay unacknowledged, a recovery loop drops its claimed batch.  *)
Abandon(ps) ==
  /\ pc' = [p \in Process |-> IF p \in ps THEN "idle" ELSE pc[p]]
  /\ msg' = [p \in Runner |-> IF p \in ps THEN 0 ELSE msg[p]]
  /\ claimed' = [p \in Runner |-> IF p \in ps THEN {} ELSE claimed[p]]
  /\ seen' = [p \in Runner |-> IF p \in ps THEN "ABSENT" ELSE seen[p]]
  /\ outbox' = [p \in Process |-> IF p \in ps THEN {} ELSE outbox[p]]
  /\ target' = [r \in Request |-> IF r \in ps THEN NoTarget ELSE target[r]]

(* Mutant: XREADGROUP with NOACK, delivered messages are not pending.      *)
ReadGroupNoAck(w) ==
  LET available == Len(stream) - delivered
      k == IF available < PollCount THEN available ELSE PollCount
      slots == {w} \X (1 .. k)
  IN /\ \A i \in 1 .. PollCount : pc[<<w, i>>] = "idle"
     /\ available > 0
     /\ delivered' = delivered + k
     /\ pc' = [p \in Process |-> IF p \in slots THEN "fetched" ELSE pc[p]]
     /\ msg' = [p \in Runner |-> IF p \in slots THEN delivered + p[2] ELSE msg[p]]
     /\ UNCHANGED <<rows, stream, pel, claimed, seen, outbox, target, bounds>>

(* XREADGROUP: a worker reads again only when gather has returned, that is *)
(* when every job of its last batch is done.                               *)
ReadGroup(w) ==
  LET available == Len(stream) - delivered
      k == IF available < PollCount THEN available ELSE PollCount
      slots == {w} \X (1 .. k)
  IN /\ \A i \in 1 .. PollCount : pc[<<w, i>>] = "idle"
     /\ available > 0
     /\ delivered' = delivered + k
     /\ pel' = pel \cup (delivered + 1 .. delivered + k)
     /\ pc' = [p \in Process |-> IF p \in slots THEN "fetched" ELSE pc[p]]
     /\ msg' = [p \in Runner |-> IF p \in slots THEN delivered + p[2] ELSE msg[p]]
     /\ UNCHANGED <<rows, stream, claimed, seen, outbox, target, bounds>>

(* process_job reads its node.  A missing or terminal node is acknowledged *)
(* without running; a QUEUED one goes on to its transition to RUNNING.     *)
FetchNode(p) ==
  /\ p \in Slot /\ pc[p] = "fetched"
  /\ ~Exists \/ Terminal(Job(p)) \/ status[Job(p)] = "QUEUED"
  /\ pc' = [pc EXCEPT ![p] = IF Exists /\ status[Job(p)] = "QUEUED"
                              THEN "starting" ELSE "acking"]
  /\ UNCHANGED <<rows, redis, msg, claimed, seen, outbox, target, bounds>>

(* The node is in any other state: transition_node_status raises.          *)
FetchRejected(p) ==
  /\ p \in Slot /\ pc[p] = "fetched"
  /\ Exists /\ ~Terminal(Job(p)) /\ status[Job(p)] # "QUEUED"
  /\ Abandon({p})
  /\ UNCHANGED <<rows, redis, bounds>>

(* The commit of QUEUED -> RUNNING, on the status read before.             *)
CommitRunning(p) ==
  /\ pc[p] = "starting" /\ Exists
  /\ status' = [status EXCEPT ![Job(p)] = "RUNNING"]
  /\ pc' = [pc EXCEPT ![p] = "loading"]
  /\ UNCHANGED <<execution, attempt, output, dlqOpen, dlqResolved, redis, msg,
                 claimed, seen, outbox, target, bounds>>

(* process_job loads the execution, the definition and the outputs of the  *)
(* node's parents, then calls the executor.                                *)
LoadContext(p) ==
  /\ pc[p] = "loading" /\ Exists
  /\ seen' = [seen EXCEPT ![p] = execution]
  /\ pc' = [pc EXCEPT ![p] = "executing"]
  /\ UNCHANGED <<rows, redis, msg, claimed, outbox, target, bounds>>

(* The row is gone when a runner wants to use or update it.                *)
Vanished(p) ==
  /\ pc[p] \in {"reviving", "resuming", "starting", "loading", "executing", "publishing"}
  /\ ~Exists
  /\ pc[p] = "publishing" => outbox[p] = {}
  /\ Abandon({p})
  /\ UNCHANGED <<rows, redis, bounds>>

-----------------------------------------------------------------------------
(* Completion, the second half of process_job: one transaction that holds  *)
(* the execution row, re-reads every node, and commits.                    *)

Completing(p) == pc[p] = "executing" /\ Exists

(* The node is no longer RUNNING: another run of it has been completed or  *)
(* recovered.  The result is dropped and the message acknowledged.         *)
CompleteSkipped(p) ==
  /\ Completing(p)
  /\ status[Job(p)] # "RUNNING"
  /\ pc' = [pc EXCEPT ![p] = "acking"]
  /\ UNCHANGED <<rows, redis, msg, claimed, seen, outbox, target, bounds>>

(* The paths a condition node may choose; other nodes choose none.         *)
Choices(n) == IF n \in Condition THEN {TruePath[n], FalsePath[n]} ELSE {NoNode}

SkipIds(n, chosen) == IF Children(n) = {} THEN {} ELSE Choices(n) \ {chosen, NoNode}

(* The PENDING nodes the skip queue reaches from ids: the least set that   *)
(* holds the PENDING ones of ids and, with a node, its PENDING children.   *)
SkipClosed(S, ids, pending) ==
  /\ ids \cap pending \subseteq S
  /\ \A e \in Edge : e[1] \in S /\ e[2] \in pending => e[2] \in S

(* Mutant: a skip that does not cascade.                                   *)
CascadeSkipShallow(ids, pending) == ids \cap pending

CascadeSkip(ids, pending) ==
  {n \in pending : \A S \in SUBSET pending : SkipClosed(S, ids, pending) => n \in S}

(* Mutant: one SUCCEEDED parent is enough.                                 *)
ReadyChildrenAnyParent(n, st) ==
  {c \in Children(n) : st[c] = "PENDING" /\ \E q \in Parents(c) : st[q] = "SUCCEEDED"}

(* The children of n that become QUEUED: still PENDING, every parent       *)
(* SUCCEEDED.                                                              *)
ReadyChildren(n, st) ==
  {c \in Children(n) : st[c] = "PENDING" /\ \A q \in Parents(c) : st[q] = "SUCCEEDED"}

(* Mutants: a final check that forgets QUEUED nodes, one that forgets that *)
(* SKIPPED is terminal, and one that ignores the execution's own status.   *)
FinalStatusNoPending(st, cached) ==
  IF cached = "RUNNING" /\ \A n \in Node : st[n] # "PENDING"
  THEN IF \E n \in Node : st[n] \in {"FAILED", "DEAD_LETTERED"} THEN "FAILED" ELSE "SUCCEEDED"
  ELSE execution

FinalStatusNoSkip(st, cached) ==
  IF cached = "RUNNING" /\ \A n \in Node : st[n] \in TERMINAL_NODE_STATUSES \ {"SKIPPED"}
  THEN IF \E n \in Node : st[n] \in {"FAILED", "DEAD_LETTERED"} THEN "FAILED" ELSE "SUCCEEDED"
  ELSE execution

FinalStatusAlways(st, cached) ==
  IF \A n \in Node : st[n] \in TERMINAL_NODE_STATUSES
  THEN IF \E n \in Node : st[n] \in {"FAILED", "DEAD_LETTERED"} THEN "FAILED" ELSE "SUCCEEDED"
  ELSE execution

(* The final check of process_job.  It tests the execution status read     *)
(* before the executor ran.                                                *)
FinalStatus(st, cached) ==
  IF cached = "RUNNING" /\ \A n \in Node : st[n] \in TERMINAL_NODE_STATUSES
  THEN IF \E n \in Node : st[n] \in {"FAILED", "DEAD_LETTERED"} THEN "FAILED" ELSE "SUCCEEDED"
  ELSE execution

CompleteSucceeded(p, chosen) ==
  LET n == Job(p)
      st1 == [status EXCEPT ![n] = "SUCCEEDED"]
      skipped == CascadeSkip(SkipIds(n, chosen), {m \in Node : st1[m] = "PENDING"})
      st2 == [m \in Node |-> IF m \in skipped THEN "SKIPPED" ELSE st1[m]]
      ready == ReadyChildren(n, st2)
  IN /\ Completing(p)
     /\ status[n] = "RUNNING"
     /\ chosen \in Choices(n)
     /\ status' = [m \in Node |-> IF m \in ready THEN "QUEUED" ELSE st2[m]]
     /\ attempt' = [m \in Node |-> IF m \in ready THEN attempt[m] + 1 ELSE attempt[m]]
     /\ output' = [output EXCEPT ![n] = TRUE]
     /\ execution' = FinalStatus(status', seen[p])
     /\ outbox' = [outbox EXCEPT ![p] = ready]
     /\ pc' = [pc EXCEPT ![p] = IF ready = {} THEN "acking" ELSE "publishing"]
     /\ UNCHANGED <<dlqOpen, dlqResolved, redis, msg, claimed, seen, target, bounds>>

(* Mutant: one attempt too many.                                           *)
CompleteRetryingOnceMore(p) ==
  LET n == Job(p) IN
  /\ Completing(p)
  /\ status[n] = "RUNNING"
  /\ attempt[n] <= MaxAttempts[n] + retries[n]
  /\ status' = [status EXCEPT ![n] = "QUEUED"]
  /\ attempt' = [attempt EXCEPT ![n] = @ + 1]
  /\ outbox' = [outbox EXCEPT ![p] = {n}]
  /\ pc' = [pc EXCEPT ![p] = "publishing"]
  /\ UNCHANGED <<execution, output, dlqOpen, dlqResolved, redis, msg, claimed, seen,
                 target, bounds>>

(* RUNNING -> FAILED -> RETRYING -> QUEUED: attempts remain.               *)
CompleteRetrying(p) ==
  LET n == Job(p) IN
  /\ Completing(p)
  /\ status[n] = "RUNNING"
  /\ attempt[n] < MaxAttempts[n]
  /\ status' = [status EXCEPT ![n] = "QUEUED"]
  /\ attempt' = [attempt EXCEPT ![n] = @ + 1]
  /\ outbox' = [outbox EXCEPT ![p] = {n}]
  /\ pc' = [pc EXCEPT ![p] = "publishing"]
  /\ UNCHANGED <<execution, output, dlqOpen, dlqResolved, redis, msg, claimed, seen,
                 target, bounds>>

(* Mutant: no dead letter job is inserted.                                 *)
CompleteDeadLetteredNoJob(p) ==
  LET n == Job(p) IN
  /\ Completing(p)
  /\ status[n] = "RUNNING"
  /\ attempt[n] >= MaxAttempts[n]
  /\ status' = [status EXCEPT ![n] = "DEAD_LETTERED"]
  /\ execution' = IF seen[p] = "RUNNING" THEN "FAILED" ELSE execution
  /\ pc' = [pc EXCEPT ![p] = "acking"]
  /\ UNCHANGED <<attempt, output, dlqOpen, dlqResolved, redis, msg, claimed, seen, outbox,
                 target, bounds>>

(* RUNNING -> FAILED -> DEAD_LETTERED with a dead letter job, and the      *)
(* execution FAILED if it was RUNNING when it was read.                    *)
CompleteDeadLettered(p) ==
  LET n == Job(p) IN
  /\ Completing(p)
  /\ status[n] = "RUNNING"
  /\ attempt[n] >= MaxAttempts[n]
  /\ status' = [status EXCEPT ![n] = "DEAD_LETTERED"]
  /\ dlqOpen' = [dlqOpen EXCEPT ![n] = @ + 1]
  /\ execution' = IF seen[p] = "RUNNING" THEN "FAILED" ELSE execution
  /\ pc' = [pc EXCEPT ![p] = "acking"]
  /\ UNCHANGED <<attempt, output, dlqResolved, redis, msg, claimed, seen, outbox,
                 target, bounds>>

(* XACK, whoever owns the pending entry by now.  A recovery loop goes on   *)
(* with the next message it claimed.                                       *)
Ack(p) ==
  /\ pc[p] = "acking"
  /\ pel' = pel \ {msg[p]}
  /\ msg' = [msg EXCEPT ![p] = 0]
  /\ seen' = [seen EXCEPT ![p] = "ABSENT"]
  /\ pc' = [pc EXCEPT ![p] = IF claimed[p] = {} THEN "idle" ELSE "fetched"]
  /\ UNCHANGED <<rows, stream, delivered, claimed, outbox, target, bounds>>

-----------------------------------------------------------------------------
(* The recovery loop (worker/recovery.py).                                 *)

(* Mutant: an off-by-one in the XPENDING count.                            *)
PendingWindowShort == {m \in pel : Cardinality({k \in pel : k <= m}) < ClaimBatch}

(* _claim_stale_pending: of the first ClaimBatch pending entries, those    *)
(* idle for longer than the timeout; XCLAIM resets their idle time.        *)
PendingWindow == {m \in pel : Cardinality({k \in pel : k <= m}) <= ClaimBatch}

ClaimStale(p) ==
  /\ p \in Recoverer /\ pc[p] = "idle"
  /\ \E S \in SUBSET PendingWindow :
        /\ S # {}
        /\ claimed' = [claimed EXCEPT ![p] = S]
        /\ IF \E m \in S : Held(m) THEN slow < MaxSlow /\ slow' = slow + 1 ELSE slow' = slow
  /\ pc' = [pc EXCEPT ![p] = "fetched"]
  /\ UNCHANGED <<rows, redis, msg, seen, outbox, target, retries, faults>>

(* process_recovered_job reads the node of the next claimed message.       *)
RecoverRead(p) ==
  /\ p \in Recoverer /\ pc[p] = "fetched"
  /\ \E m \in claimed[p] :
        /\ \A k \in claimed[p] : m <= k
        /\ msg' = [msg EXCEPT ![p] = m]
        /\ claimed' = [claimed EXCEPT ![p] = @ \ {m}]
        /\ pc' = [pc EXCEPT ![p] =
                    IF ~Exists \/ Terminal(stream[m]) THEN "acking"
                    ELSE IF status[stream[m]] = "RUNNING" THEN "reviving" ELSE "resuming"]
  /\ UNCHANGED <<rows, redis, seen, outbox, target, bounds>>

(* Its commit: a node read as RUNNING is written back to QUEUED with the   *)
(* same attempt.  process_job then runs in the same session, which takes   *)
(* the node from the identity map: its QUEUED check sees the value in      *)
(* memory.                                                                 *)
RecoverCommit(p) ==
  /\ pc[p] \in {"reviving", "resuming"} /\ Exists
  /\ status' = IF pc[p] = "reviving" THEN [status EXCEPT ![Job(p)] = "QUEUED"] ELSE status
  /\ pc' = [pc EXCEPT ![p] = "starting"]
  /\ UNCHANGED <<execution, attempt, output, dlqOpen, dlqResolved, redis, msg,
                 claimed, seen, outbox, target, bounds>>

-----------------------------------------------------------------------------
(* Faults.                                                                 *)

MayFail(p) == p \in FaultInPublish \/ outbox[p] = {}

(* An exception anywhere in a request or a job: a lost connection, a       *)
(* deadlock victim, an unknown executor type.                              *)
Fault(p) ==
  /\ faults < MaxFaults
  /\ pc[p] # "idle" /\ MayFail(p)
  /\ Abandon({p})
  /\ faults' = faults + 1
  /\ UNCHANGED <<rows, redis, retries, slow>>

(* A worker process dies and is restarted.                                 *)
Crash(w) ==
  LET ps == {w} \X (0 .. PollCount) IN
  /\ faults < MaxFaults
  /\ \E p \in ps : pc[p] # "idle"
  /\ \A p \in ps : MayFail(p)
  /\ Abandon(ps)
  /\ faults' = faults + 1
  /\ UNCHANGED <<rows, redis, retries, slow>>

RequestStep(r) ==
  \/ StartExecution(r)
  \/ \E n \in Node : RetryRead(r, n)
  \/ RetryCommit(r)
  \/ RetryRejected(r)

RunnerStep(p) ==
  \/ FetchNode(p)
  \/ FetchRejected(p)
  \/ CommitRunning(p)
  \/ LoadContext(p)
  \/ Vanished(p)
  \/ CompleteSkipped(p)
  \/ \E chosen \in Node \cup {NoNode} : CompleteSucceeded(p, chosen)
  \/ CompleteRetrying(p)
  \/ CompleteDeadLettered(p)
  \/ Ack(p)
  \/ ClaimStale(p)
  \/ RecoverRead(p)
  \/ RecoverCommit(p)

PublishStep(p) == Published(p) \/ \E n \in Node : Publish(p, n)

Next ==
  \/ \E r \in Request : RequestStep(r)
  \/ \E p \in Runner : RunnerStep(p)
  \/ \E p \in Process : PublishStep(p)
  \/ \E w \in Worker : ReadGroup(w) \/ Crash(w)
  \/ \E p \in Process : Fault(p)
  \/ \E n \in Node : ResolveDlqJob(n)
  \/ DeleteExecution

Spec == Init /\ [][Next]_vars

-----------------------------------------------------------------------------
(* Properties.                                                             *)

TypeOK ==
  /\ execution \in ExecutionStatus
  /\ status \in [Node -> NodeStatus]
  /\ attempt \in [Node -> Nat]
  /\ output \in [Node -> BOOLEAN]
  /\ dlqOpen \in [Node -> Nat]
  /\ dlqResolved \in [Node -> Nat]
  /\ stream \in Seq(Node)
  /\ delivered \in 0 .. Len(stream)
  /\ pel \subseteq 1 .. delivered
  /\ pc \in [Process -> ProgramCounter]
  /\ msg \in [Runner -> Nat]
  /\ claimed \in [Runner -> SUBSET (1 .. delivered)]
  /\ seen \in [Runner -> ExecutionStatus]
  /\ outbox \in [Process -> SUBSET Node]
  /\ target \in [Request -> [node : Node \cup {NoNode}, attempt : Nat]]
  /\ retries \in [Node -> Nat]
  /\ faults \in Nat
  /\ slow \in Nat

(* A node that was ever queued has the outputs of all its parents in the   *)
(* database, whatever was retried, recovered, run twice or overwritten     *)
(* since: process_job can always build upstream_outputs (runtime.py:94).   *)
UpstreamOutputsAvailable ==
  \A n \in Node : Activated(n) => \A q \in Parents(n) : output[q]

(* A skipped branch is skipped to its end: no descendant of a SKIPPED node *)
(* is left PENDING or runs (the cascade of _queue_downstream_nodes).       *)
SkippedToTheEnd ==
  \A n \in Node : status[n] = "SKIPPED" => \A c \in Children(n) : status[c] = "SKIPPED"

(* An execution reported SUCCEEDED has an output for every node that was   *)
(* not skipped.                                                            *)
SucceededIsComplete ==
  execution = "SUCCEEDED" => \A n \in Node : output[n] \/ status[n] = "SKIPPED"

(* Whichever process writes the last terminal status finalises the         *)
(* execution: it is never left RUNNING when every node is terminal.        *)
FinishedIsFinal ==
  execution = "RUNNING" => \E n \in Node : ~Terminal(n)

(* A dead-lettered node used all its attempts, has a dead letter job, and  *)
(* its execution is no longer RUNNING.                                     *)
DeadLetterJustified ==
  Exists => \A n \in Node : status[n] = "DEAD_LETTERED" =>
    /\ attempt[n] >= MaxAttempts[n]
    /\ dlqOpen[n] + dlqResolved[n] > 0
    /\ execution # "RUNNING"

(* Attempts are bounded by the retry policy plus one per manual retry.     *)
AttemptsBounded == \A n \in Node : attempt[n] <= MaxAttempts[n] + retries[n]

(* An unfinished node has somebody to finish it: its message waits in the  *)
(* stream or is pending in the group, or a live process is about to        *)
(* publish it, or works on it.                                             *)
Working(p) == pc[p] \in {"reviving", "resuming", "starting", "loading", "executing"}

Deliverable(n) ==
  \/ \E m \in 1 .. Len(stream) : stream[m] = n /\ (m > delivered \/ m \in pel)
  \/ \E p \in Process : n \in outbox[p]
  \/ \E p \in Runner : Working(p) /\ Job(p) = n

NoJobDropped ==
  Exists => \A n \in Node : status[n] \in {"QUEUED", "RUNNING"} => Deliverable(n)

(* No two runners work on one node at once.                                *)
OneRunnerPerNode ==
  \A p, q \in Runner : Working(p) /\ Working(q) /\ Job(p) = Job(q) => p = q

(* Only an operator's retry takes a node out of a terminal status: a late  *)
(* result, a duplicate message or a recovery never does.                   *)
TerminalOnlyRetried ==
  [][\A n \in Node : Terminal(n) /\ status'[n] # status[n] =>
       status[n] = "DEAD_LETTERED" /\ \E r \in Request : target[r].node = n]_vars

(* A node that was queued never becomes PENDING or SKIPPED again, and a    *)
(* SKIPPED node is never run.                                              *)
ActivationIsFinal ==
  [][\A n \in Node : status[n] # "PENDING" => (Activated(n))' = Activated(n)]_vars

(* Without faults and slow jobs the status an execution ends with is its   *)
(* last one, with one exception: a runner that read RUNNING before another *)
(* node failed writes SUCCEEDED over FAILED (runtime.py:171-183), if an    *)
(* operator has retried and nothing is failed any more.  The completion of *)
(* the retried node itself never does.                                     *)
OutcomeOnlyHealed ==
  [][/\ execution = "SUCCEEDED" => execution' \in {"SUCCEEDED", "DELETED"}
     /\ execution = "FAILED" =>
          \/ execution' \in {"FAILED", "DELETED"}
          \/ /\ execution' = "SUCCEEDED"
             /\ \E n \in Node : retries[n] > 0
             /\ \E p \in Runner : pc[p] = "executing" /\ seen[p] = "RUNNING"
             /\ \A n \in Node : status'[n] \in {"SUCCEEDED", "SKIPPED"}]_vars

-----------------------------------------------------------------------------
(* The strengthening that makes the safety properties inductive.           *)

(* A runner that works on a job has a message of the stream, and only a    *)
(* recovery loop has claimed ones.                                         *)
JobsKnown ==
  \A p \in Runner :
    /\ msg[p] \in 0 .. delivered
    /\ p \in Slot => claimed[p] = {}
    /\ Working(p) \/ pc[p] \in {"publishing", "acking"} \/ (p \in Slot /\ pc[p] = "fetched")
       => msg[p] # 0

(* Whatever is published, about to be published or about to be retried has *)
(* been queued before.                                                     *)
AbsentIsEmpty ==
  execution = "ABSENT" => \A n \in Node : status[n] = "PENDING" /\ ~output[n]

StreamActivated == \A i \in 1 .. Len(stream) : Activated(stream[i])

OutboxActivated == \A p \in Process : \A n \in outbox[p] : Activated(n)

TargetActivated ==
  \A r \in Request : /\ pc[r] = "retrying" => target[r].node # NoNode
                     /\ target[r].node # NoNode => Activated(target[r].node)

JobsActivated == AbsentIsEmpty /\ StreamActivated /\ OutboxActivated /\ TargetActivated

(* Outputs belong to nodes that ran, and a SUCCEEDED node has one.         *)
OutputsConsistent ==
  \A n \in Node : /\ status[n] = "SUCCEEDED" => output[n]
                  /\ output[n] => Activated(n)

(* An execution read as finished is still not RUNNING.                     *)
SeenIsStable ==
  \A p \in Runner : pc[p] = "executing" =>
    /\ seen[p] \in {"RUNNING", "SUCCEEDED", "FAILED"}
    /\ seen[p] # "RUNNING" => execution # "RUNNING"

IndInv ==
  /\ TypeOK
  /\ JobsKnown
  /\ JobsActivated
  /\ OutputsConsistent
  /\ UpstreamOutputsAvailable
  /\ SkippedToTheEnd
  /\ SeenIsStable
  /\ FinishedIsFinal
  /\ SucceededIsComplete

(* Fairness: a started job, request or recovery goes on, a free worker     *)
(* reads the stream, and a recovery loop claims what is stale.             *)
Fairness ==
  /\ \A p \in Runner : WF_vars(RunnerStep(p))
  /\ \A p \in Process : WF_vars(PublishStep(p))
  /\ \A w \in Worker : WF_vars(ReadGroup(w))

FairSpec == Spec /\ Fairness

(* Every started execution ends, and every queued node is run to a         *)
(* terminal status, also when the execution has failed before.             *)
ExecutionEnds ==
  /\ execution = "RUNNING" ~> execution # "RUNNING"
  /\ \A n \in Node : status[n] = "QUEUED" ~> (Terminal(n) \/ ~Exists)

-----------------------------------------------------------------------------
(* The engine implements WorkflowRun.  What became of a node is read off   *)
(* its output and off whether it was queued, never off a status that a     *)
(* duplicate run may overwrite.                                            *)

NodeView ==
  [n \in Node |-> IF output[n] THEN "produced"
                  ELSE IF status[n] = "PENDING" THEN "waiting"
                  ELSE IF status[n] = "SKIPPED" THEN "skipped"
                  ELSE "active"]

Run == INSTANCE WorkflowRun WITH run <- execution, node <- NodeView

(* Queues, duplicates, recoveries, retries and crashes are invisible to    *)
(* whoever watches an execution: every step of start_execution, of         *)
(* process_job and of recovery is a step of WorkflowRun or no step of it.  *)
ImplementsWorkflowRun == Run!Spec

=============================================================================
