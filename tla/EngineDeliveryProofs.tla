------------------------ MODULE EngineDeliveryProofs ------------------------
(***************************************************************************)
(* What ExecutionEngine promises only in part of its environments, for     *)
(* every graph, every number of workers and every batch size: no job is    *)
(* dropped if nobody fails between a commit and its publish, and no node   *)
(* is run twice at once or revived if, besides, nobody fails at all and    *)
(* retries come one at a time.                                             *)
(***************************************************************************)
EXTENDS ExecutionEngineProofs

(* No job takes longer than worker_pending_idle_timeout_seconds.           *)
NoSlowJobs == MaxSlow = 0

(* A message is in the hands of one runner, and stays pending until that   *)
(* runner acknowledges it.                                                 *)
Holding ==
  /\ \A p, q \in Runner : p # q => /\ msg[p] # 0 => msg[p] # msg[q]
                                   /\ claimed[p] \cap claimed[q] = {}
  /\ \A p, q \in Runner : msg[p] \notin claimed[q]
  /\ \A p \in Runner : /\ msg[p] # 0 => msg[p] \in pel
                       /\ claimed[p] \subseteq pel
                       /\ pc[p] = "idle" => msg[p] = 0 /\ claimed[p] = {}

(* What is left to publish is left in one who publishes.                   *)
Outboxes == \A p \in Process : outbox[p] # {} => pc[p] = "publishing"

(* Where a runner is that wrote RUNNING, and one that is done with a node. *)
Finishing == {"publishing", "acking"}
Started == Finishing \cup {"loading", "executing"}

(* A node is to be published, or a message names it that is waiting in the *)
(* stream, or pending with nobody who is past the given point.             *)
Kept(n, past) ==
  \/ \E p \in Process : n \in outbox[p]
  \/ \E m \in 1 .. Len(stream) :
       /\ stream[m] = n
       /\ m > delivered \/ (m \in pel /\ \A p \in Runner : msg[p] = m => pc[p] \notin past)

Delivery ==
  Exists => \A n \in Node : /\ status[n] = "QUEUED" => Kept(n, Started)
                            /\ status[n] = "RUNNING" => Kept(n, Finishing)

-----------------------------------------------------------------------------
(* One operator retries at a time, and nobody fails.                       *)
Orderly == NoSlowJobs /\ MaxFaults = 0 /\ \A r, s \in Request : r = s

(* Where a runner is before, and after, it has written RUNNING.            *)
Waiting == {"fetched", "starting"}
Running == {"loading", "executing"}

(* A message that nobody has completed yet.                                *)
Live(m) ==
  \/ m \in delivered + 1 .. Len(stream)
  \/ \E p \in Runner : msg[p] = m /\ pc[p] \in Waiting \cup Running

(* Recovery finds nothing to claim: whatever is pending is in hand.        *)
Calm ==
  /\ \A p \in Runner : /\ pc[p] \notin {"reviving", "resuming"}
                       /\ p \in Recoverer => pc[p] = "idle"
  /\ \A m \in pel : \E p \in Runner : msg[p] = m

(* The status of a node is what its message, its outbox or its retry says. *)
Phases ==
  /\ \A p \in Runner : /\ pc[p] \in Waiting => status[Job(p)] = "QUEUED"
                       /\ pc[p] \in Running => status[Job(p)] = "RUNNING"
  /\ \A m \in delivered + 1 .. Len(stream) : status[stream[m]] = "QUEUED"
  /\ \A p \in Process : \A n \in outbox[p] : status[n] = "QUEUED"
  /\ \A r \in Request : pc[r] = "retrying" => status[target[r].node] = "DEAD_LETTERED"

(* A node has at most one message or outbox that will have it run.         *)
Single ==
  /\ \A m, k \in 1 .. Len(stream) : Live(m) /\ Live(k) /\ stream[m] = stream[k] => m = k
  /\ \A p, q \in Process : p # q => outbox[p] \cap outbox[q] = {}
  /\ \A p \in Process, m \in 1 .. Len(stream) : Live(m) => stream[m] \notin outbox[p]

Steady == Calm /\ Phases /\ Single

Tokens == execution # "DELETED" => Steady

-----------------------------------------------------------------------------
(* Messages in hand.                                                       *)

LEMMA InitHolding == Init => Holding /\ Outboxes
BY ProcessFacts DEF Init, Holding, Outboxes

(* A step in which runners keep what they hold, or drop all of it.         *)
LEMMA HoldingStays ==
  ASSUME IndInv, Holding, pel' = pel,
         \A p \in Runner : \/ /\ msg'[p] = msg[p] /\ claimed'[p] = claimed[p]
                              /\ pc'[p] = "idle" => pc[p] = "idle"
                           \/ msg'[p] = 0 /\ claimed'[p] = {}
  PROVE  Holding'
<1>1. \A p \in Runner : 0 \notin claimed[p]
  BY DEF IndInv, TypeOK
<1>2. \A p, q \in Runner : p # q => /\ msg'[p] # 0 => msg'[p] # msg'[q]
                                    /\ claimed'[p] \cap claimed'[q] = {}
  BY DEF Holding
<1>3. \A p, q \in Runner : msg'[p] \notin claimed'[q]
  BY <1>1 DEF Holding
<1>4. \A p \in Runner : /\ msg'[p] # 0 => msg'[p] \in pel
                        /\ claimed'[p] \subseteq pel
                        /\ pc'[p] = "idle" => msg'[p] = 0 /\ claimed'[p] = {}
  BY Zenon DEF Holding
<1> QED
  BY <1>2, <1>3, <1>4, Zenon DEF Holding

(* XACK takes a message out of the pending ones that no other runner has.  *)
LEMMA AckHolding ==
  ASSUME IndInv, Holding, NEW p \in Runner, Ack(p)
  PROVE  Holding'
<1>1. /\ pel' = pel \ {msg[p]} /\ claimed' = claimed
      /\ \A q \in Runner : msg'[q] = IF q = p THEN 0 ELSE msg[q]
      /\ \A q \in Runner \ {p} : pc'[q] = pc[q]
      /\ pc'[p] = "idle" => claimed[p] = {}
      /\ msg[p] # 0
  BY ProcessFacts, Zenon DEF Ack, IndInv, TypeOK, JobsKnown
<1>2. \A q \in Runner : 0 \notin claimed[q]
  BY DEF IndInv, TypeOK
<1> QED
  BY <1>1, <1>2 DEF Holding

(* XPENDING and XCLAIM take only what no live runner has: its job would    *)
(* have to be slow.                                                        *)
LEMMA ClaimHolding ==
  ASSUME IndInv, Holding, NoSlowJobs, NEW p \in Runner, ClaimStale(p)
  PROVE  Holding'
<1>1. PICK S \in SUBSET pel :
        /\ claimed' = [claimed EXCEPT ![p] = S]
        /\ ~\E m \in S : Held(m)
  <2>1. ~(slow < MaxSlow)
    BY DEF NoSlowJobs, IndInv, TypeOK
  <2> QED
    BY <2>1, Zenon DEF ClaimStale, PendingWindow
<1>2. /\ UNCHANGED <<pel, msg>> /\ pc[p] = "idle" /\ pc' = [pc EXCEPT ![p] = "fetched"]
      /\ pel \subseteq 1 .. delivered /\ delivered \in Nat
  BY DEF ClaimStale, redis, IndInv, TypeOK
<1>3. /\ claimed'[p] = S /\ \A q \in Runner \ {p} : claimed'[q] = claimed[q]
      /\ pc'[p] = "fetched" /\ \A q \in Runner \ {p} : pc'[q] = pc[q]
  BY <1>1, <1>2, ProcessFacts, Zenon DEF IndInv, TypeOK
<1>4. \A q \in Runner : \A m \in S : msg[q] # m /\ m \notin claimed[q]
  <2> SUFFICES ASSUME NEW q \in Runner, NEW m \in S
               PROVE  msg[q] # m /\ m \notin claimed[q]
    BY Zenon
  <2>1. CASE pc[q] = "idle"
    BY <1>2, <2>1 DEF Holding
  <2>2. CASE pc[q] # "idle"
    BY <1>1, <2>2, Zenon DEF Held
  <2> QED
    BY <2>1, <2>2, Zenon
<1> QED
  BY <1>2, <1>3, <1>4, ZenonT(40) DEF Holding

(* The recovery loop goes on to a message that it has claimed.             *)
LEMMA RecoverReadHolding ==
  ASSUME IndInv, Holding, NEW p \in Runner, RecoverRead(p)
  PROVE  Holding'
<1>1. PICK m \in claimed[p] :
        /\ msg' = [msg EXCEPT ![p] = m]
        /\ claimed' = [claimed EXCEPT ![p] = claimed[p] \ {m}]
  BY Zenon DEF RecoverRead, IndInv, TypeOK
<1>2. /\ pel' = pel /\ pc'[p] # "idle" /\ \A q \in Runner \ {p} : pc'[q] = pc[q]
  BY ProcessFacts, Zenon DEF RecoverRead, redis, IndInv, TypeOK
<1>3. /\ msg'[p] = m /\ \A q \in Runner \ {p} : msg'[q] = msg[q]
      /\ claimed'[p] = claimed[p] \ {m} /\ \A q \in Runner \ {p} : claimed'[q] = claimed[q]
  BY <1>1, Zenon DEF IndInv, TypeOK
<1>4. \A q \in Runner \ {p} : m # msg[q] /\ m \notin claimed[q]
  BY <1>1, Zenon DEF Holding
<1> QED
  BY <1>1, <1>2, <1>3, <1>4 DEF Holding

(* XREADGROUP hands out messages that nobody has had before.               *)
LEMMA ReadGroupFacts ==
  ASSUME IndInv, NEW w \in Worker, ReadGroup(w)
  PROVE  \E k \in 1 .. PollCount :
           /\ delivered + k <= Len(stream)
           /\ delivered' = delivered + k /\ pel' = pel \cup (delivered + 1 .. delivered + k)
           /\ \A p \in Runner :
                \/ /\ pc[p] = "idle" /\ p \in Slot /\ pc'[p] = "fetched"
                   /\ \E i \in 1 .. k : p = <<w, i>> /\ msg'[p] = delivered + i
                \/ p \notin {w} \X (1 .. k) /\ pc'[p] = pc[p] /\ msg'[p] = msg[p]
           /\ \A i \in 1 .. k : <<w, i>> \in Runner
           /\ \A r \in Request : pc'[r] = pc[r]
<1> DEFINE available == Len(stream) - delivered
           k == IF available < PollCount THEN available ELSE PollCount
<1>1. Len(stream) \in Nat /\ delivered \in Nat /\ available > 0 /\ PollCount \in Nat \ {0}
  BY ConstantsAssumption DEF ReadGroup, IndInv, TypeOK
<1>2. k \in 1 .. PollCount /\ delivered + k <= Len(stream)
  BY <1>1
<1>3. /\ delivered' = delivered + k /\ pel' = pel \cup (delivered + 1 .. delivered + k)
      /\ \A i \in 1 .. PollCount : pc[<<w, i>>] = "idle"
      /\ pc' = [p \in Process |-> IF p \in {w} \X (1 .. k) THEN "fetched" ELSE pc[p]]
      /\ msg' = [p \in Runner |-> IF p \in {w} \X (1 .. k) THEN delivered + p[2] ELSE msg[p]]
  BY Zenon DEF ReadGroup
<1> HIDE DEF k
<1>4. 1 .. k \subseteq 1 .. PollCount
  BY <1>1, <1>2
<1>6. \A p \in {w} \X (1 .. k) : pc[p] = "idle" /\ p \in Slot
  BY <1>3, <1>4 DEF Slot
<1>7. \A i \in 1 .. k : <<w, i>> \in Runner
  BY <1>4, Zenon DEF Runner, Slot
<1>8. ASSUME NEW p \in Runner
      PROVE  \/ /\ pc[p] = "idle" /\ p \in Slot /\ pc'[p] = "fetched"
                /\ \E i \in 1 .. k : p = <<w, i>> /\ msg'[p] = delivered + i
             \/ p \notin {w} \X (1 .. k) /\ pc'[p] = pc[p] /\ msg'[p] = msg[p]
  <2>1. CASE p \in {w} \X (1 .. k)
    <3>1. PICK i \in 1 .. k : p = <<w, i>>
      BY <2>1
    <3>2. p[2] = i
      BY <3>1, Zenon
    <3> QED
      BY <1>3, <1>6, <2>1, <3>1, <3>2, ProcessFacts, Zenon
  <2>2. CASE p \notin {w} \X (1 .. k)
    BY <1>3, <2>2, ProcessFacts, Zenon
  <2> QED
    BY <2>1, <2>2, Zenon
<1>9. \A r \in Request : pc'[r] = pc[r]
  BY <1>3, <1>6, ProcessFacts, Zenon
<1> QED
  BY <1>2, <1>3, <1>7, <1>8, <1>9, Zenon

LEMMA ReadGroupHolding ==
  ASSUME IndInv, Holding, NEW w \in Worker, ReadGroup(w)
  PROVE  Holding'
<1>1. PICK k \in 1 .. PollCount :
           /\ delivered' = delivered + k /\ pel' = pel \cup (delivered + 1 .. delivered + k)
           /\ \A p \in Runner :
                \/ /\ pc[p] = "idle" /\ p \in Slot /\ pc'[p] = "fetched"
                   /\ \E i \in 1 .. k : p = <<w, i>> /\ msg'[p] = delivered + i
                \/ p \notin {w} \X (1 .. k) /\ pc'[p] = pc[p] /\ msg'[p] = msg[p]
  BY ReadGroupFacts, Zenon
<1>2. claimed' = claimed /\ delivered \in Nat /\ k \in Nat
  BY ConstantsAssumption DEF ReadGroup, IndInv, TypeOK
<1>3. \A p \in Runner : msg[p] \in 0 .. delivered /\ claimed[p] \subseteq 1 .. delivered
  BY Zenon DEF IndInv, TypeOK, JobsKnown
<1>4. \A p, q \in Runner : p # q /\ msg'[p] # 0 => msg'[p] # msg'[q]
  <2> SUFFICES ASSUME NEW p \in Runner, NEW q \in Runner, p # q, msg'[p] # 0, msg'[p] = msg'[q]
               PROVE  FALSE
    BY Zenon
  <2>1. CASE msg'[p] = msg[p] /\ msg'[q] = msg[q]
    BY <2>1, Zenon DEF Holding
  <2>2. CASE (\E i \in 1 .. k : msg'[p] = delivered + i) /\ msg'[q] = msg[q]
    <3>1. PICK i \in 1 .. k : msg'[p] = delivered + i
      BY <2>2, Zenon
    <3>2. msg[q] = delivered + i /\ msg[q] \in 0 .. delivered
      BY <1>3, <2>2, <3>1, Zenon
    <3> QED
      BY <1>2, <3>2
  <2>3. CASE (\E i \in 1 .. k : msg'[q] = delivered + i) /\ msg'[p] = msg[p]
    BY <1>2, <1>3, <2>3
  <2>4. ASSUME NEW i \in 1 .. k, p = <<w, i>>, msg'[p] = delivered + i,
               NEW j \in 1 .. k, q = <<w, j>>, msg'[q] = delivered + j
        PROVE  FALSE
    <3>1. i = j
      BY <1>2, <2>4
    <3> QED
      BY <2>4, <3>1, Zenon
  <2> QED
    BY <1>1, <2>1, <2>2, <2>3, <2>4, Zenon
<1>5. \A p, q \in Runner : msg'[p] \notin claimed'[q]
  <2> SUFFICES ASSUME NEW p \in Runner, NEW q \in Runner, msg'[p] \in claimed[q]
               PROVE  FALSE
    BY <1>2, Zenon
  <2>1. CASE msg'[p] = msg[p]
    BY <2>1, Zenon DEF Holding
  <2>2. CASE \E i \in 1 .. k : msg'[p] = delivered + i
    BY <1>2, <1>3, <2>2
  <2> QED
    BY <1>1, <2>1, <2>2, Zenon
<1>6. \A p \in Runner : msg'[p] # 0 => msg'[p] \in pel'
  <2> SUFFICES ASSUME NEW p \in Runner, msg'[p] # 0 PROVE msg'[p] \in pel'
    BY Zenon
  <2>1. CASE msg'[p] = msg[p]
    BY <1>1, <2>1, Zenon DEF Holding
  <2>2. CASE \E i \in 1 .. k : msg'[p] = delivered + i
    BY <1>1, <1>2, <2>2
  <2> QED
    BY <1>1, <2>1, <2>2, Zenon
<1>7. \A p \in Runner : claimed'[p] \subseteq pel' /\ (pc'[p] = "idle" => msg'[p] = 0 /\ claimed'[p] = {})
  BY <1>1, <1>2, Zenon DEF Holding
<1> QED
  BY <1>2, <1>4, <1>5, <1>6, <1>7, Zenon DEF Holding

(* The steps in which no runner takes a message: what a runner holds, it   *)
(* keeps or drops.                                                         *)
LEMMA LocalHolding ==
  ASSUME IndInv, Holding,
         \/ \E r \in Request : RequestStep(r)
         \/ \E p \in Runner : \/ FetchNode(p) \/ FetchRejected(p) \/ CommitRunning(p)
                              \/ LoadContext(p) \/ Vanished(p) \/ CompleteSkipped(p)
                              \/ \E chosen : CompleteSucceeded(p, chosen)
                              \/ CompleteRetrying(p) \/ CompleteDeadLettered(p) \/ RecoverCommit(p)
         \/ \E p \in Process : PublishStep(p) \/ Fault(p)
         \/ \E w \in Worker : Crash(w)
         \/ \E n \in Node : ResolveDlqJob(n)
         \/ DeleteExecution
         \/ UNCHANGED vars
  PROVE  Holding'
<1> USE ProcessFacts
<1>1. ASSUME NEW r \in Request, RequestStep(r)
      PROVE  Holding'
  <2>1. UNCHANGED <<pel, msg, claimed>> /\ \E to : pc' = [pc EXCEPT ![r] = to]
    BY <1>1, Zenon DEF RequestStep, StartExecution, RetryRead, RetryCommit, RetryRejected, redis
  <2>2. \A p \in Runner : pc'[p] = pc[p]
    BY <2>1, Zenon DEF IndInv, TypeOK
  <2> QED
    BY <2>1, <2>2, HoldingStays, Zenon
<1>2. ASSUME NEW p \in Runner,
             \/ FetchNode(p) \/ CommitRunning(p)
             \/ LoadContext(p) \/ CompleteSkipped(p)
             \/ \E chosen : CompleteSucceeded(p, chosen)
             \/ CompleteRetrying(p) \/ CompleteDeadLettered(p) \/ RecoverCommit(p)
      PROVE  Holding'
  <2>1. UNCHANGED <<pel, msg, claimed>> /\ \A q \in Runner : pc'[q] = "idle" => pc[q] = "idle"
    BY <1>2, Zenon DEF FetchNode, CommitRunning, LoadContext, CompleteSkipped, CompleteSucceeded,
                CompleteRetrying, CompleteDeadLettered, RecoverCommit, redis, IndInv, TypeOK
  <2> QED
    BY <2>1, HoldingStays, Zenon
<1>3. ASSUME NEW p \in Process, PublishStep(p)
      PROVE  Holding'
  <2>1. UNCHANGED <<pel, msg, claimed>> /\ \A q \in Runner : pc'[q] = "idle" => pc[q] = "idle"
    BY <1>3 DEF PublishStep, Publish, Published, redis, IndInv, TypeOK
  <2> QED
    BY <2>1, HoldingStays, Zenon
<1>4. ASSUME NEW ps, Abandon(ps), UNCHANGED redis
      PROVE  Holding'
  <2>1. pel' = pel /\ \A p \in Runner : \/ msg'[p] = msg[p] /\ claimed'[p] = claimed[p] /\ pc'[p] = pc[p]
                                        \/ msg'[p] = 0 /\ claimed'[p] = {}
    BY <1>4, Zenon DEF Abandon, redis
  <2> QED
    BY <2>1, HoldingStays, Zenon
<1>5. ASSUME DeleteExecution \/ (\E n \in Node : ResolveDlqJob(n)) \/ UNCHANGED vars
      PROVE  Holding'
  <2>1. UNCHANGED <<pel, msg, claimed, pc>>
    BY <1>5, Zenon DEF DeleteExecution, ResolveDlqJob, vars, local, redis
  <2> QED
    BY <2>1, HoldingStays, Zenon
<1> QED
  BY <1>1, <1>2, <1>3, <1>4, <1>5, Zenon DEF FetchRejected, Vanished, Fault, Crash

LEMMA NextHolding == IndInv /\ Holding /\ NoSlowJobs /\ [Next]_vars => Holding'
BY LocalHolding, AckHolding, ClaimHolding, RecoverReadHolding, ReadGroupHolding, Zenon DEF Next, RunnerStep

(* Only one who has committed has something to publish.                    *)
LEMMA NextOutboxes == IndInv /\ Outboxes /\ [Next]_vars => Outboxes'
<1> SUFFICES ASSUME IndInv, Outboxes, [Next]_vars PROVE Outboxes'
  BY Zenon
<1> USE ProcessFacts
<1>1. ASSUME NEW r \in Request, RequestStep(r)
      PROVE  Outboxes'
  <2>1. CASE StartExecution(r)
    BY <2>1, Zenon DEF StartExecution, Outboxes, IndInv, TypeOK
  <2>2. CASE RetryCommit(r)
    BY <2>2, Zenon DEF RetryCommit, Outboxes, IndInv, TypeOK
  <2>3. CASE RetryRejected(r) \/ \E n \in Node : RetryRead(r, n)
    <3>1. /\ outbox' = outbox /\ pc[r] # "publishing"
          /\ \E to : pc' = [pc EXCEPT ![r] = to]
      BY <2>3, Zenon DEF RetryRejected, RetryRead
    <3> QED
      BY <3>1, Zenon DEF Outboxes, IndInv, TypeOK
  <2> QED
    BY <1>1, <2>1, <2>2, <2>3, Zenon DEF RequestStep
<1>2. ASSUME NEW p \in Runner, RunnerStep(p)
      PROVE  Outboxes'
  <2>1. CASE FetchRejected(p) \/ Vanished(p)
    BY <2>1, ZenonT(40) DEF FetchRejected, Vanished, Abandon, Outboxes
  <2>2. CASE \/ FetchNode(p) \/ CommitRunning(p) \/ LoadContext(p) \/ CompleteSkipped(p)
             \/ Ack(p) \/ ClaimStale(p) \/ RecoverRead(p) \/ RecoverCommit(p)
    <3>1. /\ outbox' = outbox /\ pc[p] # "publishing"
          /\ \A q \in Process : q # p => pc'[q] = pc[q]
      BY <2>2, Zenon DEF FetchNode, CommitRunning, LoadContext, CompleteSkipped, Completing, Ack,
             ClaimStale,
                  RecoverRead, RecoverCommit, IndInv, TypeOK
    <3> QED
      BY <3>1, Zenon DEF Outboxes
  <2>3. CASE \/ CompleteRetrying(p) \/ CompleteDeadLettered(p)
             \/ \E chosen \in Node \cup {NoNode} : CompleteSucceeded(p, chosen)
    <3>1. /\ \E to : pc' = [pc EXCEPT ![p] = to]
          /\ outbox' = outbox \/ \E ns : outbox' = [outbox EXCEPT ![p] = ns]
      BY <2>3, Zenon DEF CompleteRetrying, CompleteDeadLettered, CompleteSucceeded
    <3>2. \A q \in Process : q # p => pc'[q] = pc[q] /\ outbox'[q] = outbox[q]
      BY <3>1, Zenon DEF IndInv, TypeOK
    <3>3. pc[p] = "executing" /\ pc \in [Process -> ProgramCounter] /\ outbox \in [Process -> SUBSET Node]
      BY <2>3, Zenon DEF CompleteRetrying, CompleteDeadLettered, CompleteSucceeded, Completing, IndInv, TypeOK
    <3>4. outbox'[p] = outbox[p] \/ outbox'[p] = {} \/ pc'[p] = "publishing"
      BY <2>3, <3>3, Zenon DEF CompleteRetrying, CompleteDeadLettered, CompleteSucceeded
    <3> QED
      BY <3>2, <3>3, <3>4, Zenon DEF Outboxes
  <2> QED
    BY <1>2, <2>1, <2>2, <2>3, Zenon DEF RunnerStep
<1>3. ASSUME NEW p \in Process, PublishStep(p)
      PROVE  Outboxes'
  BY <1>3, Zenon DEF PublishStep, Publish, Published, Outboxes, IndInv, TypeOK
<1>4. ASSUME NEW ps, Abandon(ps)
      PROVE  Outboxes'
  BY <1>4, Zenon DEF Abandon, Outboxes
<1>5. ASSUME NEW w \in Worker, ReadGroup(w)
      PROVE  Outboxes'
  <2>1. outbox' = outbox /\ \A p \in Process : pc'[p] = pc[p] \/ pc'[p] = "fetched"
    BY <1>5, Zenon DEF ReadGroup
  <2>2. \A p \in Process : pc[p] = "publishing" => pc'[p] = pc[p]
    <3>1. \A p \in Runner : pc'[p] = pc[p] \/ pc[p] = "idle"
      BY <1>5, ReadGroupFacts, Zenon
    <3>2. \A r \in Request : pc'[r] = pc[r]
      BY <1>5, ReadGroupFacts, Zenon
    <3> QED
      BY <3>1, <3>2, Zenon DEF Process
  <2> QED
    BY <2>1, <2>2, Zenon DEF Outboxes
<1>6. ASSUME DeleteExecution \/ (\E n \in Node : ResolveDlqJob(n)) \/ UNCHANGED vars
      PROVE  Outboxes'
  BY <1>6, Zenon DEF DeleteExecution, ResolveDlqJob, vars, local, Outboxes
<1> QED
  BY <1>1, <1>2, <1>3, <1>4, <1>5, <1>6, Zenon DEF Next, Fault, Crash

-----------------------------------------------------------------------------
(* No job is dropped.                                                      *)

(* A step that neither publishes nor acknowledges keeps a node, as long as *)
(* no runner with a message of it goes past the point.                     *)
LEMMA KeptStays ==
  ASSUME NEW n \in Node, NEW past, Kept(n, past), UNCHANGED redis,
         \A p \in Process : n \in outbox[p] => n \in outbox'[p],
         \A p \in Runner : msg'[p] # 0 /\ stream[msg'[p]] = n /\ pc'[p] \in past =>
                             msg[p] = msg'[p] /\ pc[p] \in past
  PROVE  Kept(n, past)'
<1>1. stream' = stream /\ delivered' = delivered /\ pel' = pel
  BY Zenon DEF redis
<1>2. CASE \E p \in Process : n \in outbox[p]
  BY <1>2, Zenon DEF Kept
<1>3. ASSUME NEW m \in 1 .. Len(stream), stream[m] = n,
             m > delivered \/ (m \in pel /\ \A p \in Runner : msg[p] = m => pc[p] \notin past)
      PROVE  Kept(n, past)'
  <2>1. m > delivered \/ (m \in pel /\ \A p \in Runner : msg'[p] = m => pc'[p] \notin past)
    BY <1>3
  <2> QED
    BY <1>1, <1>3, <2>1, Zenon DEF Kept
<1> QED
  BY <1>2, <1>3, Zenon DEF Kept

(* What is pending and held by nobody past the point is kept.              *)
LEMMA HolderKeeps ==
  ASSUME IndInv', Holding', NEW p \in Runner, NEW past, msg'[p] # 0, pc'[p] \notin past
  PROVE  Kept(Job(p), past)'
<1>1. msg'[p] \in pel' /\ msg'[p] \in 1 .. Len(stream')
  <2>1. msg'[p] \in pel'
    BY Zenon DEF Holding
  <2>2. pel' \subseteq 1 .. delivered' /\ delivered' \in 0 .. Len(stream') /\ stream' \in Seq(Node)
    BY Zenon DEF IndInv, TypeOK
  <2>3. Len(stream') \in Nat
    BY <2>2
  <2>4. msg'[p] \in 1 .. delivered'
    BY <2>1, <2>2, Zenon
  <2>5. delivered' \in Nat /\ delivered' <= Len(stream')
    BY <2>2, <2>3
  <2> QED
    BY <2>1, <2>3, <2>4, <2>5
<1>2. \A q \in Runner : msg'[q] = msg'[p] => pc'[q] \notin past
  BY Zenon DEF Holding
<1> QED
  BY <1>1, <1>2, Zenon DEF Kept, Job

(* The requests: what start_execution and retry_node queue, they have to   *)
(* publish.                                                                *)
LEMMA RequestDelivery ==
  ASSUME IndInv, Outboxes, Delivery, NEW r \in Request, RequestStep(r)
  PROVE  Delivery'
<1> USE ProcessFacts
<1>1. CASE StartExecution(r)
  <2>1. /\ \A n \in Node : status'[n] = "QUEUED" => n \in outbox'[r]
        /\ \A n \in Node : status'[n] # "RUNNING"
    BY <1>1, Zenon DEF StartExecution, IndInv, TypeOK
  <2> QED
    BY <2>1, Zenon DEF Delivery, Kept
<1>2. /\ \A p \in Runner : pc'[p] = pc[p]
      /\ UNCHANGED <<redis, msg, execution>> \/ StartExecution(r)
  BY Zenon DEF RequestStep, StartExecution, RetryRead, RetryCommit, RetryRejected, rows, IndInv,
         TypeOK
<1>3. CASE RetryRejected(r) \/ \E n \in Node : RetryRead(r, n)
  <2>1. UNCHANGED <<redis, msg, execution, status, outbox>>
    BY <1>3, Zenon DEF RetryRejected, RetryRead, rows
  <2>2. ASSUME NEW n \in Node, NEW past, Kept(n, past) PROVE Kept(n, past)'
    BY <1>2, <2>1, <2>2, KeptStays, Zenon
  <2> QED
    BY <2>1, <2>2, Zenon DEF Delivery, Exists
<1>4. CASE RetryCommit(r)
  <2>1. PICK m \in Node : m = target[r].node /\ pc[r] = "retrying"
    BY <1>4, Zenon DEF RetryCommit, IndInv, TypeOK, JobsActivated, TargetActivated
  <2>2. /\ status' = [status EXCEPT ![m] = "QUEUED"] /\ outbox' = [outbox EXCEPT ![r] = {m}]
        /\ UNCHANGED <<redis, msg, execution>>
    BY <1>4, <2>1, Zenon DEF RetryCommit
  <2>3. /\ m \in outbox'[r] /\ status'[m] = "QUEUED" /\ outbox[r] = {}
        /\ \A n \in Node \ {m} : status'[n] = status[n]
        /\ \A p \in Process \ {r} : outbox'[p] = outbox[p]
    BY <2>1, <2>2, Zenon DEF IndInv, TypeOK, Outboxes
  <2>4. ASSUME NEW n \in Node, NEW past, Kept(n, past) PROVE Kept(n, past)'
    BY <1>2, <2>2, <2>3, <2>4, KeptStays
  <2>5. Kept(m, Started)'
    BY <2>3, Zenon DEF Kept
  <2> QED
    BY <2>2, <2>3, <2>4, <2>5, Zenon DEF Delivery, Exists
<1> QED
  BY <1>1, <1>3, <1>4, Zenon DEF RequestStep

(* XADD puts into the stream what leaves the outbox.                       *)
LEMMA PublishDelivery ==
  ASSUME IndInv, Delivery, NEW p \in Process, PublishStep(p)
  PROVE  Delivery'
<1>1. UNCHANGED rows
  BY Zenon DEF PublishStep, Publish, Published
<1>2. ASSUME NEW n \in Node, Publish(p, n), NEW m \in Node, NEW past, Kept(m, past)
      PROVE  Kept(m, past)'
  <2>1. /\ stream' = Append(stream, n) /\ outbox' = [outbox EXCEPT ![p] = outbox[p] \ {n}]
        /\ UNCHANGED <<delivered, pel, pc, msg>>
    BY <1>2, Zenon DEF Publish, IndInv, TypeOK
  <2>2. /\ stream \in Seq(Node) /\ Len(stream) \in Nat /\ delivered \in Nat
        /\ delivered <= Len(stream) /\ outbox \in [Process -> SUBSET Node]
    BY DEF IndInv, TypeOK
  <2>3. /\ Len(stream') = Len(stream) + 1 /\ stream'[Len(stream) + 1] = n
        /\ \A i \in 1 .. Len(stream) : stream'[i] = stream[i]
    BY <2>1, <2>2
  <2>4. ASSUME NEW q \in Process, m \in outbox[q] PROVE Kept(m, past)'
    <3>1. CASE q = p /\ m = n
      <4>1. Len(stream) + 1 \in 1 .. Len(stream') /\ Len(stream) + 1 > delivered'
        BY <2>1, <2>2, <2>3
      <4> QED
        BY <2>3, <3>1, <4>1, Zenon DEF Kept
    <3>2. CASE ~(q = p /\ m = n)
      <4>1. m \in outbox'[q]
        BY <2>1, <2>2, <2>4, <3>2, Zenon
      <4> QED
        BY <4>1, Zenon DEF Kept
    <3> QED
      BY <3>1, <3>2, Zenon
  <2>5. ASSUME NEW i \in 1 .. Len(stream), stream[i] = m,
               i > delivered \/ (i \in pel /\ \A q \in Runner : msg[q] = i => pc[q] \notin past)
        PROVE  Kept(m, past)'
    <3>1. i \in 1 .. Len(stream') /\ stream'[i] = m
      BY <2>2, <2>3, <2>5
    <3> QED
      BY <2>1, <2>5, <3>1, Zenon DEF Kept
  <2> QED
    BY <1>2, <2>4, <2>5, Zenon DEF Kept
<1>3. ASSUME Published(p), NEW m \in Node, NEW past \in {Started, Finishing}, Kept(m, past)
      PROVE  Kept(m, past)'
  <2>1. /\ UNCHANGED <<redis, msg, outbox>>
        /\ \A q \in Runner : pc'[q] = pc[q] \/ pc[q] = "publishing"
    BY <1>3, ProcessFacts, Zenon DEF Published, IndInv, TypeOK
  <2>2. "publishing" \in past
    BY Zenon DEF Started, Finishing
  <2> QED
    BY <1>3, <2>1, <2>2, KeptStays
<1> QED
  BY <1>1, <1>2, <1>3, Zenon DEF PublishStep, Delivery, Exists, rows

(* A runner that reads, executes or is done with a node that others have   *)
(* finished keeps the others.                                              *)
LEMMA QuietDelivery ==
  ASSUME IndInv, Outboxes, Delivery, NEW p \in Runner,
         \/ FetchNode(p) \/ FetchRejected(p) \/ LoadContext(p) \/ CompleteSkipped(p)
         \/ ClaimStale(p) \/ RecoverRead(p)
  PROVE  Delivery'
<1> USE ProcessFacts
<1>1. UNCHANGED rows /\ UNCHANGED redis
  BY Zenon DEF FetchNode, FetchRejected, LoadContext, CompleteSkipped, ClaimStale, RecoverRead
<1>2. /\ \A q \in Process : outbox'[q] = outbox[q]
      /\ \A q \in Runner \ {p} : msg'[q] = msg[q] /\ pc'[q] = pc[q]
  BY ZenonT(40) DEF FetchNode, FetchRejected, LoadContext, CompleteSkipped, ClaimStale, RecoverRead,
         Abandon,
         Outboxes, IndInv, TypeOK
<1>3. ASSUME Exists, msg'[p] # 0, pc'[p] \in Started
      PROVE  \/ Terminal(stream[msg'[p]])
             \/ /\ msg[p] = msg'[p] /\ pc[p] \in Started
                /\ pc'[p] \in Finishing => pc[p] \in Finishing \/ status[stream[msg[p]]] # "RUNNING"
  <2>1. CASE FetchNode(p)
    BY <1>3, <2>1, Zenon DEF FetchNode, Job, Started, Finishing, IndInv, TypeOK
  <2>2. CASE LoadContext(p)
    BY <1>3, <2>2 DEF LoadContext, Started, Finishing
  <2>3. CASE CompleteSkipped(p)
    BY <1>3, <2>3, Zenon DEF CompleteSkipped, Completing, Job, Started, Finishing
  <2>4. CASE ClaimStale(p) \/ FetchRejected(p)
    BY <1>3, <2>4, Zenon DEF ClaimStale, FetchRejected, Abandon, Started, Finishing, IndInv, TypeOK
  <2>5. CASE RecoverRead(p)
    BY <1>3, <2>5, Zenon DEF RecoverRead, Started, Finishing, IndInv, TypeOK
  <2> QED
    BY <2>1, <2>2, <2>3, <2>4, <2>5, Zenon
<1>4. ASSUME Exists, NEW n \in Node, status[n] = "QUEUED", Kept(n, Started)
      PROVE  Kept(n, Started)'
  <2>1. \A q \in Runner : msg'[q] # 0 /\ stream[msg'[q]] = n /\ pc'[q] \in Started =>
                            msg[q] = msg'[q] /\ pc[q] \in Started
    BY <1>2, <1>3, <1>4, Zenon DEF Terminal, TERMINAL_NODE_STATUSES
  <2> QED
    BY <1>1, <1>2, <1>4, <2>1, KeptStays, Zenon
<1>5. ASSUME Exists, NEW n \in Node, status[n] = "RUNNING", Kept(n, Finishing)
      PROVE  Kept(n, Finishing)'
  <2>1. \A q \in Runner : msg'[q] # 0 /\ stream[msg'[q]] = n /\ pc'[q] \in Finishing =>
                            msg[q] = msg'[q] /\ pc[q] \in Finishing
    <3>1. ~Terminal(n)
      BY <1>5, Zenon DEF Terminal, TERMINAL_NODE_STATUSES
    <3>2. Finishing \subseteq Started
      BY Zenon DEF Started, Finishing
    <3>3. msg'[p] # 0 /\ stream[msg'[p]] = n /\ pc'[p] \in Finishing =>
            msg[p] = msg'[p] /\ pc[p] \in Finishing
      BY <1>3, <1>5, <3>1, <3>2, Zenon
    <3> QED
      BY <1>2, <3>3, Zenon
  <2> QED
    BY <1>1, <1>2, <1>5, <2>1, KeptStays, Zenon
<1> QED
  BY <1>1, <1>4, <1>5, Zenon DEF Delivery, Exists, rows

(* A commit of RUNNING or QUEUED that did not look at the row: the message *)
(* of the runner that made it keeps the node.                              *)
LEMMA CommitDelivery ==
  ASSUME IndInv, IndInv', Holding', Delivery, NEW p \in Runner, CommitRunning(p) \/ RecoverCommit(p)
  PROVE  Delivery'
<1> USE ProcessFacts
<1>1. PICK n \in Node : n = Job(p) /\ n = Job(p)' /\ msg[p] # 0
  BY MessageInStream, JobIsNode, Zenon
  DEF CommitRunning, RecoverCommit, IndInv, JobsKnown, Working, Job, redis
<1>2. /\ UNCHANGED <<redis, msg, execution, outbox>> /\ Exists
      /\ \A q \in Runner \ {p} : pc'[q] = pc[q]
      /\ \A m \in Node \ {n} : status'[m] = status[m]
  BY <1>1, ZenonT(40) DEF CommitRunning, RecoverCommit, IndInv, TypeOK
<1>3. \/ status'[n] = "RUNNING" /\ pc'[p] = "loading"
      \/ status'[n] = "QUEUED" /\ pc'[p] = "starting"
      \/ status'[n] = status[n] /\ pc'[p] = "starting"
  BY <1>1, ZenonT(40) DEF CommitRunning, RecoverCommit, IndInv, TypeOK
<1>4. ASSUME NEW m \in Node \ {n}, NEW past, Kept(m, past)
      PROVE  Kept(m, past)'
  <2>1. \A q \in Runner : msg'[q] # 0 /\ stream[msg'[q]] = m /\ pc'[q] \in past =>
                            msg[q] = msg'[q] /\ pc[q] \in past
    BY <1>1, <1>2, Zenon DEF Job
  <2> QED
    BY <1>2, <1>4, <2>1, KeptStays, Zenon
<1>5. pc'[p] \in {"loading", "starting"} => Kept(n, Finishing)'
  BY <1>1, <1>2, HolderKeeps, Zenon DEF Finishing
<1>6. pc'[p] = "starting" => Kept(n, Started)'
  BY <1>1, <1>2, HolderKeeps, Zenon DEF Started, Finishing
<1> QED
  BY <1>2, <1>3, <1>4, <1>5, <1>6, Zenon DEF Delivery, Exists

(* Completion ends the node that it completes or queues it again, queues   *)
(* PENDING nodes or skips them, and has to publish what it queues.         *)
LEMMA CompleteRows ==
  ASSUME IndInv, Outboxes, NEW p \in Runner,
         \/ \E chosen \in Node \cup {NoNode} : CompleteSucceeded(p, chosen)
         \/ CompleteRetrying(p) \/ CompleteDeadLettered(p)
  PROVE  \E fresh \in SUBSET Node :
           /\ \A m \in fresh : status'[m] = "QUEUED" /\ (m = Job(p) \/ status[m] = "PENDING")
           /\ \A m \in Node : m # Job(p) /\ status[m] # "PENDING" => status'[m] = status[m]
           /\ \A m \in Node : m = Job(p) \/ status[m] = "PENDING" =>
                m \in fresh \/ status'[m] \notin {"QUEUED", "RUNNING"}
           /\ \A q \in Process : outbox'[q] = IF q = p THEN fresh ELSE outbox[q]
<1> USE ProcessFacts
<1>1. ASSUME NEW chosen, CompleteSucceeded(p, chosen)
      PROVE  \E fresh \in SUBSET Node :
           /\ \A m \in fresh : status'[m] = "QUEUED" /\ (m = Job(p) \/ status[m] = "PENDING")
           /\ \A m \in Node : m # Job(p) /\ status[m] # "PENDING" => status'[m] = status[m]
           /\ \A m \in Node : m = Job(p) \/ status[m] = "PENDING" =>
                m \in fresh \/ status'[m] \notin {"QUEUED", "RUNNING"}
           /\ \A q \in Process : outbox'[q] = IF q = p THEN fresh ELSE outbox[q]
  <2>1. PICK ready \in SUBSET Node :
           /\ status'[Job(p)] = "SUCCEEDED"
           /\ \A m \in Node : m # Job(p) /\ status[m] # "PENDING" => status'[m] = status[m]
           /\ \A m \in Node : status[m] = "PENDING" =>
                IF m \in ready THEN status'[m] = "QUEUED" ELSE status'[m] \in {"SKIPPED", "PENDING"}
           /\ \A m \in ready : status[m] = "PENDING"
           /\ outbox' = [outbox EXCEPT ![p] = ready]
    BY <1>1, SucceededRows, Zenon
  <2>2. \A m \in ready : status'[m] = "QUEUED" /\ (m = Job(p) \/ status[m] = "PENDING")
    BY <2>1, Zenon
  <2>3. \A m \in Node : m = Job(p) \/ status[m] = "PENDING" =>
          m \in ready \/ status'[m] \notin {"QUEUED", "RUNNING"}
    BY <2>1, Zenon
  <2>4. \A q \in Process : outbox'[q] = IF q = p THEN ready ELSE outbox[q]
    BY <2>1, Zenon DEF IndInv, TypeOK
  <2> QED
    BY <2>1, <2>2, <2>3, <2>4, Zenon
<1>2. PICK n \in Node : n = Job(p) /\ pc[p] = "executing"
  BY MessageInStream, JobIsNode, Zenon
  DEF CompleteSucceeded, CompleteRetrying, CompleteDeadLettered, Completing, IndInv, JobsKnown,
      Working
<1>3. CASE CompleteRetrying(p)
  <2>1. /\ status'[n] = "QUEUED" /\ \A m \in Node : m # n => status'[m] = status[m]
        /\ \A q \in Process : outbox'[q] = IF q = p THEN {n} ELSE outbox[q]
    BY <1>2, <1>3, Zenon DEF CompleteRetrying, IndInv, TypeOK
  <2> WITNESS {n} \in SUBSET Node
  <2> QED
    BY <1>2, <2>1, Zenon
<1>4. CASE CompleteDeadLettered(p)
  <2>1. /\ status'[n] = "DEAD_LETTERED" /\ \A m \in Node : m # n => status'[m] = status[m]
        /\ \A q \in Process : outbox'[q] = IF q = p THEN {} ELSE outbox[q]
    BY <1>2, <1>4, Zenon DEF CompleteDeadLettered, Outboxes, IndInv, TypeOK
  <2> WITNESS {} \in SUBSET Node
  <2> QED
    BY <1>2, <2>1, Zenon
<1> QED
  BY <1>1, <1>3, <1>4, Zenon

(* The message of the completed node is done with, and the others stay.    *)
LEMMA CompleteDelivery ==
  ASSUME IndInv, Outboxes, Delivery, NEW p \in Runner,
         \/ \E chosen \in Node \cup {NoNode} : CompleteSucceeded(p, chosen)
         \/ CompleteRetrying(p) \/ CompleteDeadLettered(p)
  PROVE  Delivery'
<1> USE ProcessFacts
<1>1. PICK n \in Node : n = Job(p) /\ msg[p] # 0
  BY MessageInStream, JobIsNode, Zenon
  DEF CompleteSucceeded, CompleteRetrying, CompleteDeadLettered, Completing, IndInv, JobsKnown,
      Working
<1>2. /\ UNCHANGED <<redis, msg>> /\ Exists /\ outbox[p] = {}
      /\ \A q \in Runner \ {p} : pc'[q] = pc[q]
      /\ \A q \in Process \ {p} : outbox'[q] = outbox[q]
  BY ZenonT(40) DEF CompleteSucceeded, CompleteRetrying, CompleteDeadLettered, Completing, IndInv,
         TypeOK, Outboxes
<1>3. PICK ready \in SUBSET Node :
        /\ \A m \in ready : m \in outbox'[p] /\ status'[m] = "QUEUED"
        /\ \A m \in Node \ ready : status'[m] \in {"QUEUED", "RUNNING"} => m # n /\ status'[m] = status[m]
  BY <1>1, CompleteRows
<1>4. ASSUME NEW m \in Node \ {n}, NEW past, Kept(m, past)
      PROVE  Kept(m, past)'
  <2>1. \A q \in Runner : msg'[q] # 0 /\ stream[msg'[q]] = m /\ pc'[q] \in past =>
                            msg[q] = msg'[q] /\ pc[q] \in past
    BY <1>1, <1>2, Zenon DEF Job
  <2>2. \A q \in Process : m \in outbox[q] => m \in outbox'[q]
    BY <1>2, Zenon
  <2> QED
    BY <1>2, <1>4, <2>1, <2>2, KeptStays, Zenon
<1>5. ASSUME NEW m \in ready, NEW past
      PROVE  Kept(m, past)'
  BY <1>3, Zenon DEF Kept
<1> QED
  BY <1>2, <1>3, <1>4, <1>5, Zenon DEF Delivery

(* Who acknowledges has finished with the node.                            *)
LEMMA AckDelivery ==
  ASSUME IndInv, Delivery, NEW p \in Runner, Ack(p)
  PROVE  Delivery'
<1>1. /\ UNCHANGED <<rows, stream, delivered, outbox>> /\ pel' = pel \ {msg[p]} /\ msg'[p] = 0
      /\ pc[p] = "acking" /\ \A q \in Runner \ {p} : msg'[q] = msg[q] /\ pc'[q] = pc[q]
  BY ProcessFacts, Zenon DEF Ack, IndInv, TypeOK
<1>2. ASSUME NEW n \in Node, NEW past \in {Started, Finishing}, Kept(n, past)
      PROVE  Kept(n, past)'
  <2>1. "acking" \in past
    BY Zenon DEF Started, Finishing
  <2>2. CASE \E q \in Process : n \in outbox[q]
    BY <1>1, <2>2, Zenon DEF Kept
  <2>3. ASSUME NEW m \in 1 .. Len(stream), stream[m] = n,
               m > delivered \/ (m \in pel /\ \A q \in Runner : msg[q] = m => pc[q] \notin past)
        PROVE  Kept(n, past)'
    <3>1. m > delivered \/ (m \in pel' /\ \A q \in Runner : msg'[q] = m => pc'[q] \notin past)
      <4>1. m # 0
        OBVIOUS
      <4> QED
        BY <1>1, <2>1, <2>3, <4>1, Zenon
    <3> QED
      BY <1>1, <2>3, <3>1, Zenon DEF Kept
  <2> QED
    BY <1>2, <2>2, <2>3, Zenon DEF Kept
<1> QED
  BY <1>1, <1>2, Zenon DEF Delivery, Exists, rows

(* XREADGROUP makes pending what it hands to a slot.                       *)
LEMMA ReadGroupDelivery ==
  ASSUME IndInv, Delivery, NEW w \in Worker, ReadGroup(w)
  PROVE  Delivery'
<1>1. PICK k \in 1 .. PollCount :
        /\ delivered + k <= Len(stream)
        /\ delivered' = delivered + k /\ pel' = pel \cup (delivered + 1 .. delivered + k)
        /\ \A p \in Runner :
             \/ /\ pc[p] = "idle" /\ p \in Slot /\ pc'[p] = "fetched"
                /\ \E i \in 1 .. k : p = <<w, i>> /\ msg'[p] = delivered + i
             \/ p \notin {w} \X (1 .. k) /\ pc'[p] = pc[p] /\ msg'[p] = msg[p]
  BY ReadGroupFacts, Zenon
<1>2. UNCHANGED <<rows, stream, outbox>> /\ delivered \in Nat /\ k \in Nat /\ stream \in Seq(Node)
  <2>1. UNCHANGED <<rows, stream, outbox>>
    BY Zenon DEF ReadGroup
  <2>2. delivered \in Nat /\ stream \in Seq(Node)
    BY DEF IndInv, TypeOK
  <2>3. k \in Nat
    BY ConstantsAssumption
  <2> QED
    BY <2>1, <2>2, <2>3, Zenon
<1>3. \A p \in Runner : msg[p] \in 0 .. delivered
  BY Zenon DEF IndInv, JobsKnown
<1>4. ASSUME NEW n \in Node, NEW past \in {Started, Finishing}, Kept(n, past)
      PROVE  Kept(n, past)'
  <2>1. "fetched" \notin past
    BY DEF Started, Finishing
  <2>2. CASE \E q \in Process : n \in outbox[q]
    BY <1>2, <2>2, Zenon DEF Kept
  <2>3. ASSUME NEW m \in 1 .. Len(stream), stream[m] = n, m > delivered
        PROVE  Kept(n, past)'
    <3>1. m > delivered' \/ m \in pel'
      <4>1. delivered' = delivered + k /\ pel' = pel \cup (delivered + 1 .. delivered + k)
        BY <1>1, Zenon
      <4>2. m \in Nat /\ m > delivered /\ delivered \in Nat /\ k \in Nat
        <5>1. Len(stream) \in Nat
          BY <1>2
        <5> QED
          BY <1>2, <2>3, <5>1
      <4>3. m > delivered + k \/ m \in delivered + 1 .. delivered + k
        BY <4>2
      <4> QED
        BY <4>1, <4>3, Zenon
    <3>2. \A p \in Runner : msg'[p] = m => pc'[p] = "fetched"
      <4>1. m \in Nat /\ m > delivered /\ delivered \in Nat
        <5>1. Len(stream) \in Nat
          BY <1>2
        <5> QED
          BY <1>2, <2>3, <5>1
      <4>2. \A i \in 0 .. delivered : i # m
        BY <4>1
      <4>3. \A p \in Runner : msg[p] # m
        BY <1>3, <4>2, Zenon
      <4> QED
        BY <1>1, <4>3, Zenon
    <3> QED
      BY <1>2, <2>1, <2>3, <3>1, <3>2, Zenon DEF Kept
  <2>4. ASSUME NEW m \in 1 .. Len(stream), stream[m] = n, m \in pel,
               \A q \in Runner : msg[q] = m => pc[q] \notin past
        PROVE  Kept(n, past)'
    <3>1. m \in pel' /\ \A q \in Runner : msg'[q] = m => pc'[q] \notin past
      BY <1>1, <2>1, <2>4, Zenon
    <3> QED
      BY <1>2, <2>4, <3>1, Zenon DEF Kept
  <2> QED
    BY <1>4, <2>2, <2>3, <2>4, Zenon DEF Kept
<1> QED
  BY <1>2, <1>4, Zenon DEF Delivery, Exists, rows

(* The publishes that nobody may fail in.                                  *)
NoLostPublish == NoSlowJobs /\ FaultInPublish = {}

(* Whoever fails leaves its message pending, and had nothing to publish.   *)
LEMMA FaultDelivery ==
  ASSUME IndInv, Delivery, FaultInPublish = {},
         (\E p \in Process : Fault(p)) \/ (\E w \in Worker : Crash(w))
  PROVE  Delivery'
<1>1. PICK ps : Abandon(ps) /\ UNCHANGED <<rows, redis>> /\ \A p \in ps : outbox[p] = {}
  <2>1. ASSUME NEW p \in Process, Fault(p)
        PROVE  Abandon({p}) /\ UNCHANGED <<rows, redis>> /\ \A q \in {p} : outbox[q] = {}
    BY <2>1, Zenon DEF Fault, MayFail
  <2>2. ASSUME NEW w \in Worker, Crash(w)
        PROVE  /\ Abandon({w} \X (0 .. PollCount)) /\ UNCHANGED <<rows, redis>>
               /\ \A q \in {w} \X (0 .. PollCount) : outbox[q] = {}
    BY <2>2, Zenon DEF Crash, MayFail
  <2> QED
    BY <2>1, <2>2, Zenon
<1>2. ASSUME NEW n \in Node, NEW past, Kept(n, past)
      PROVE  Kept(n, past)'
  <2>1. \A p \in Process : n \in outbox[p] => n \in outbox'[p]
    BY <1>1, Zenon DEF Abandon
  <2>2. \A p \in Runner : msg'[p] # 0 => msg[p] = msg'[p] /\ pc'[p] = pc[p]
    BY <1>1, ProcessFacts, Zenon DEF Abandon
  <2> QED
    BY <1>1, <1>2, <2>1, <2>2, KeptStays
<1> QED
  BY <1>1, <1>2, Zenon DEF Delivery, Exists, rows

LEMMA NextDelivery ==
  ASSUME IndInv, IndInv', Holding', Outboxes, Delivery, NoLostPublish, [Next]_vars
  PROVE  Delivery'
<1>1. ASSUME NEW p \in Runner, Vanished(p)
      PROVE  Delivery'
  BY <1>1, Zenon DEF Vanished, Delivery, Exists, rows
<1>2. CASE DeleteExecution \/ (\E n \in Node : ResolveDlqJob(n)) \/ UNCHANGED vars
  <2>1. execution' = "DELETED" \/ UNCHANGED <<execution, status, outbox, redis, msg, pc>>
    BY <1>2, Zenon DEF DeleteExecution, ResolveDlqJob, vars, rows, local
  <2>2. CASE execution' = "DELETED"
    BY <2>2, Zenon DEF Delivery, Exists
  <2>3. CASE UNCHANGED <<execution, status, outbox, redis, msg, pc>>
    BY <2>3 DEF Delivery, Exists, Kept, redis
  <2> QED
    BY <2>1, <2>2, <2>3, Zenon
<1>3. ASSUME NEW p \in Runner, RunnerStep(p)
      PROVE  Delivery'
  BY <1>1, <1>3, QuietDelivery, CommitDelivery, CompleteDelivery, AckDelivery, Zenon DEF RunnerStep
<1> QED
  BY <1>2, <1>3, RequestDelivery, PublishDelivery, ReadGroupDelivery, FaultDelivery, Zenon
  DEF Next, NoLostPublish

(* If no job is slow and nobody fails between a commit and its publish,    *)
(* every QUEUED and every RUNNING node has somebody to finish it, through  *)
(* all other crashes, exceptions, recoveries, retries and deletions.       *)
THEOREM NoJobLost == NoLostPublish => (Spec => []NoJobDropped)
<1> SUFFICES ASSUME NoLostPublish PROVE Spec => []NoJobDropped
  BY Zenon
<1> DEFINE Inv == IndInv /\ Holding /\ Outboxes /\ Delivery
<1>1. Init => Inv
  BY InitInd, InitHolding, Zenon DEF Init, Delivery, Exists
<1>2. Inv /\ [Next]_vars => Inv'
  BY NextInd, NextHolding, NextOutboxes, NextDelivery, Zenon DEF NoLostPublish
<1>3. Inv => NoJobDropped
  <2> SUFFICES ASSUME Inv, Exists, NEW n \in Node, status[n] \in {"QUEUED", "RUNNING"}
               PROVE  Deliverable(n)
    BY Zenon DEF NoJobDropped
  <2>1. Kept(n, Started) \/ Kept(n, Finishing)
    BY Zenon DEF Delivery
  <2> QED
    BY <2>1, Zenon DEF Kept, Deliverable
<1> QED
  BY <1>1, <1>2, <1>3, PTL DEF Spec


-----------------------------------------------------------------------------
(* One message per node, and one runner per message.                       *)

(* Before the execution is there, nothing else is.                         *)
LEMMA NothingBefore ==
  ASSUME IndInv, execution = "ABSENT"
  PROVE  /\ stream = << >> /\ \A p \in Runner : msg[p] = 0
         /\ \A p \in Process : outbox[p] = {}
         /\ \A r \in Request : pc[r] # "retrying"
<1>1. \A n \in Node : ~Activated(n)
  BY Zenon DEF IndInv, JobsActivated, AbsentIsEmpty, Activated
<1>2. stream = << >>
  <2>1. stream \in Seq(Node) /\ \A i \in 1 .. Len(stream) : stream[i] \in Node /\ Activated(stream[i])
    BY DEF IndInv, TypeOK, JobsActivated, StreamActivated
  <2>2. Len(stream) = 0
    BY <1>1, <2>1
  <2> QED
    BY <2>1, <2>2
<1>3. \A p \in Runner : msg[p] = 0
  BY <1>2, MessageInStream DEF IndInv
<1>4. \A p \in Process : outbox[p] = {}
  BY <1>1, Zenon DEF IndInv, TypeOK, JobsActivated, OutboxActivated
<1>5. \A r \in Request : pc[r] # "retrying"
  <2>1. \A r \in Request : pc[r] = "retrying" => target[r].node \in Node /\ Activated(target[r].node)
    BY Zenon DEF IndInv, TypeOK, JobsActivated, TargetActivated
  <2> QED
    BY <1>1, <2>1, Zenon
<1> QED
  BY <1>2, <1>3, <1>4, <1>5, Zenon

(* A runner at work on a node is the only one to have it in hand.          *)
LEMMA RunnerAlone ==
  ASSUME IndInv, Holding, Single, NEW p \in Runner, pc[p] \in Waiting \cup Running, msg[p] # 0
  PROVE  /\ Job(p) \in Node /\ msg[p] \in 1 .. Len(stream) /\ Live(msg[p])
         /\ \A m \in 1 .. Len(stream) : Live(m) /\ stream[m] = Job(p) => m = msg[p]
         /\ \A m \in delivered + 1 .. Len(stream) : stream[m] # Job(p)
         /\ \A q \in Process : Job(p) \notin outbox[q]
         /\ \A q \in Runner : pc[q] \in Waiting \cup Running /\ msg[q] # 0 /\ Job(q) = Job(p) => q = p
<1>1. msg[p] \in 1 .. Len(stream) /\ Job(p) \in Node
  BY MessageInStream, JobIsNode, Zenon DEF IndInv
<1>2. Live(msg[p])
  BY Zenon DEF Live
<1>3. \A m \in 1 .. Len(stream) : Live(m) /\ stream[m] = Job(p) => m = msg[p]
  BY <1>1, <1>2, Zenon DEF Single, Job
<1>4. \A m \in delivered + 1 .. Len(stream) : stream[m] # Job(p)
  <2> SUFFICES ASSUME NEW m \in delivered + 1 .. Len(stream), stream[m] = Job(p) PROVE FALSE
    BY Zenon
  <2>1. msg[p] \in 0 .. delivered /\ delivered \in Nat /\ Len(stream) \in Nat
    BY DEF IndInv, TypeOK, JobsKnown
  <2>2. m \in 1 .. Len(stream)
    BY <2>1
  <2>3. m = msg[p]
    BY <1>3, <2>2, Zenon DEF Live
  <2> QED
    BY <2>1, <2>3
<1>5. \A q \in Process : Job(p) \notin outbox[q]
  BY <1>1, <1>2, Zenon DEF Single, Job
<1>6. ASSUME NEW q \in Runner, pc[q] \in Waiting \cup Running, msg[q] # 0, Job(q) = Job(p)
      PROVE  q = p
  <2>1. msg[q] \in 1 .. Len(stream)
    BY <1>6, MessageInStream, Zenon DEF IndInv
  <2>2. msg[q] = msg[p]
    BY <1>3, <1>6, <2>1, Zenon DEF Live, Job
  <2> QED
    BY <2>2, Zenon DEF Holding
<1> QED
  BY <1>1, <1>2, <1>3, <1>4, <1>5, <1>6, Zenon

(* A node that has a message or is to be published is QUEUED or RUNNING.   *)
LEMMA LiveStatus ==
  ASSUME Phases, NEW m \in 1 .. Len(stream), Live(m)
  PROVE  status[stream[m]] \in {"QUEUED", "RUNNING"}
BY Zenon DEF Live, Phases, Job

(* A step that publishes nothing and starts nobody on a message leaves     *)
(* live only what was.                                                     *)
LEMMA LiveStays ==
  ASSUME UNCHANGED <<stream, delivered>>,
         \A p \in Runner : pc'[p] \in Waiting \cup Running =>
                             pc[p] \in Waiting \cup Running /\ msg'[p] = msg[p]
  PROVE  \A m : Live(m)' => Live(m)
BY Zenon DEF Live

(* Nodes that had no message and no outbox may be put into one.            *)
LEMMA SingleStep ==
  ASSUME Single, stream' = stream, NEW p \in Process, NEW fresh \in SUBSET Node,
         \A m \in 1 .. Len(stream) : Live(m)' => Live(m) /\ stream[m] \notin fresh,
         \A q \in Process : \/ outbox'[q] \subseteq outbox[q]
                            \/ q = p /\ outbox'[q] = fresh,
         \A q \in Process : outbox[q] \cap fresh = {}
  PROVE  Single'
<1>1. \A m, k \in 1 .. Len(stream) : Live(m)' /\ Live(k)' /\ stream[m] = stream[k] => m = k
  BY Zenon DEF Single
<1>2. \A q, r \in Process : q # r => outbox'[q] \cap outbox'[r] = {}
  BY DEF Single
<1>3. \A q \in Process, m \in 1 .. Len(stream) : Live(m)' => stream[m] \notin outbox'[q]
  BY Zenon DEF Single
<1> QED
  BY <1>1, <1>2, <1>3, Zenon DEF Single

LEMMA SingleStays ==
  ASSUME Single, UNCHANGED <<stream, outbox>>, \A m : Live(m)' => Live(m)
  PROVE  Single'
<1>1. \A m, k \in 1 .. Len(stream) : Live(m)' /\ Live(k)' /\ stream[m] = stream[k] => m = k
  BY Zenon DEF Single
<1>2. \A q \in Process, m \in 1 .. Len(stream) : Live(m)' => stream[m] \notin outbox[q]
  BY Zenon DEF Single
<1> QED
  BY <1>1, <1>2, Zenon DEF Single

(* Steps that only move processes within a phase.                          *)
LEMMA SteadyStays ==
  ASSUME Steady, UNCHANGED <<status, stream, delivered, outbox>>, Calm',
         \A p \in Runner : /\ pc'[p] \in Waiting => pc[p] \in Waiting /\ msg'[p] = msg[p]
                           /\ pc'[p] \in Running => pc[p] \in Running /\ msg'[p] = msg[p],
         \A r \in Request : pc'[r] = "retrying" =>
           \/ pc[r] = "retrying" /\ target'[r] = target[r]
           \/ status[target'[r].node] = "DEAD_LETTERED"
  PROVE  Steady'
<1>1. \A m : Live(m)' => Live(m)
  BY LiveStays, Zenon
<1>2. Single'
  BY <1>1, SingleStays, Zenon DEF Steady
<1>3. Phases'
  <2>1. \A p \in Runner : /\ pc'[p] \in Waiting => status'[stream'[msg'[p]]] = "QUEUED"
                          /\ pc'[p] \in Running => status'[stream'[msg'[p]]] = "RUNNING"
    BY DEF Steady, Phases, Job
  <2>2. \A m \in delivered' + 1 .. Len(stream') : status'[stream'[m]] = "QUEUED"
    BY Zenon DEF Steady, Phases
  <2>3. \A p \in Process : \A n \in outbox'[p] : status'[n] = "QUEUED"
    BY ZenonT(40) DEF Steady, Phases
  <2>4. \A r \in Request : pc'[r] = "retrying" => status'[target'[r].node] = "DEAD_LETTERED"
    BY ZenonT(40) DEF Steady, Phases
  <2> QED
    BY <2>1, <2>2, <2>3, <2>4, Zenon DEF Phases, Job
<1> QED
  BY <1>2, <1>3, Zenon DEF Steady

LEMMA QuietTokens ==
  ASSUME IndInv, Steady, execution # "DELETED",
         \/ \E p \in Runner : FetchNode(p) \/ LoadContext(p)
         \/ \E p \in Process : Published(p)
         \/ \E r \in Request : RetryRejected(r) \/ \E n \in Node : RetryRead(r, n)
         \/ \E n \in Node : ResolveDlqJob(n)
         \/ UNCHANGED vars
  PROVE  Steady'
<1> USE ProcessFacts
<1>1. ASSUME NEW p \in Runner, FetchNode(p)
      PROVE  Steady'
  <2>1. msg[p] # 0 /\ p \in Slot
    BY <1>1, Zenon DEF FetchNode, JobsKnown, IndInv, TypeOK
  <2>2. Exists /\ status[Job(p)] = "QUEUED"
    BY <1>1, <2>1, NothingBefore, Zenon DEF FetchNode, Exists, Steady, Phases, Waiting
  <2>3. /\ UNCHANGED <<status, stream, delivered, pel, outbox, msg, target>>
        /\ pc' = [pc EXCEPT ![p] = "starting"] /\ pc[p] = "fetched"
    BY <1>1, <2>2, Zenon DEF FetchNode, rows, redis
  <2>4. Calm'
    BY <2>1, <2>3, SlotFacts, Zenon DEF Steady, Calm, IndInv, TypeOK
  <2> QED
    BY <2>3, <2>4, SteadyStays, Zenon DEF Waiting, Running, IndInv, TypeOK
<1>2. ASSUME NEW p \in Runner, LoadContext(p)
      PROVE  Steady'
  <2>1. /\ UNCHANGED <<status, stream, delivered, pel, outbox, msg, target>>
        /\ pc' = [pc EXCEPT ![p] = "executing"] /\ pc[p] = "loading"
    BY <1>2, Zenon DEF LoadContext, rows, redis
  <2>2. Calm'
    BY <2>1, Zenon DEF Steady, Calm, IndInv, TypeOK
  <2> QED
    BY <2>1, <2>2, SteadyStays, Zenon DEF Waiting, Running, IndInv, TypeOK
<1>3. ASSUME NEW p \in Process, Published(p)
      PROVE  Steady'
  <2>1. /\ UNCHANGED <<status, stream, delivered, pel, outbox, msg>> /\ pc[p] = "publishing"
        /\ pc' = [pc EXCEPT ![p] = IF p \in Request THEN "idle" ELSE "acking"]
        /\ \A r \in Request : r # p => target'[r] = target[r]
    BY <1>3, Zenon DEF Published, rows, redis
  <2>2. Calm'
    BY <2>1, Zenon DEF Steady, Calm, IndInv, TypeOK
  <2> QED
    BY <2>1, <2>2, SteadyStays, Zenon DEF Waiting, Running, IndInv, TypeOK
<1>4. ASSUME NEW r \in Request, RetryRejected(r) \/ \E n \in Node : RetryRead(r, n)
      PROVE  Steady'
  <2>1. /\ UNCHANGED <<status, stream, delivered, pel, outbox, msg>>
        /\ \A p \in Process \ {r} : pc'[p] = pc[p]
        /\ \A s \in Request \ {r} : target'[s] = target[s]
        /\ pc'[r] = "retrying" => status[target'[r].node] = "DEAD_LETTERED"
    <3>1. /\ UNCHANGED <<status, stream, delivered, pel, outbox, msg>>
          /\ \/ /\ pc' = [pc EXCEPT ![r] = "idle"] /\ target' = [target EXCEPT ![r] = NoTarget]
             \/ \E n \in Node :
                  /\ pc' = [pc EXCEPT ![r] = "retrying"] /\ status[n] = "DEAD_LETTERED"
                  /\ target' = [target EXCEPT ![r] = [node |-> n, attempt |-> attempt[n]]]
      BY <1>4, Zenon DEF RetryRejected, RetryRead, rows, redis
    <3>2. r \in Process /\ DOMAIN pc = Process /\ DOMAIN target = Request
      BY ProcessFacts, Zenon DEF IndInv, TypeOK, Process
    <3>3. CASE pc' = [pc EXCEPT ![r] = "idle"] /\ target' = [target EXCEPT ![r] = NoTarget]
      BY <3>1, <3>2, <3>3, Zenon
    <3>4. ASSUME NEW n \in Node,
                 pc' = [pc EXCEPT ![r] = "retrying"], status[n] = "DEAD_LETTERED",
                 target' = [target EXCEPT ![r] = [node |-> n, attempt |-> attempt[n]]]
          PROVE  /\ \A p \in Process \ {r} : pc'[p] = pc[p]
                 /\ \A s \in Request \ {r} : target'[s] = target[s]
                 /\ status[target'[r].node] = "DEAD_LETTERED"
      <4>1. target'[r].node = n
        BY <3>2, <3>4, Zenon
      <4> QED
        BY <3>2, <3>4, <4>1, Zenon
    <3> QED
      BY <3>1, <3>3, <3>4, Zenon
  <2>2. Calm'
    BY <2>1, Zenon DEF Steady, Calm
  <2> QED
    BY <2>1, <2>2, SteadyStays, Zenon
<1>5. ASSUME (\E n \in Node : ResolveDlqJob(n)) \/ UNCHANGED vars
      PROVE  Steady'
  <2>1. UNCHANGED <<status, stream, delivered, pel, outbox, msg, target, pc>>
    BY <1>5, Zenon DEF ResolveDlqJob, vars, rows, redis, local
  <2>2. Calm'
    BY <2>1, Zenon DEF Steady, Calm
  <2> QED
    BY <2>1, <2>2, SteadyStays, Zenon
<1> QED
  BY <1>1, <1>2, <1>3, <1>4, <1>5, Zenon

(* XACK frees the slot.                                                    *)
LEMMA AckTokens ==
  ASSUME IndInv, Holding, Steady, NEW p \in Runner, Ack(p)
  PROVE  Steady'
<1> USE ProcessFacts
<1>1. p \in Slot /\ claimed[p] = {}
  BY Zenon DEF Ack, Steady, Calm, Runner, JobsKnown, IndInv, TypeOK
<1>2. /\ UNCHANGED <<status, stream, delivered, outbox, target>> /\ pel' = pel \ {msg[p]}
      /\ msg' = [msg EXCEPT ![p] = 0] /\ pc' = [pc EXCEPT ![p] = "idle"]
  BY <1>1, Zenon DEF Ack, rows
<1>3. Calm'
  BY <1>2, Zenon DEF Steady, Calm, IndInv, TypeOK
<1> QED
  BY <1>2, <1>3, SteadyStays, Zenon DEF Waiting, Running, IndInv, TypeOK


(* Steps that write statuses, but none that a message, an outbox or a      *)
(* retry of another process relies on.                                     *)
LEMMA PhasesStep ==
  ASSUME Phases, UNCHANGED <<stream, delivered>>,
         \A p \in Runner : pc'[p] \in Waiting \cup Running =>
           \/ pc'[p] = pc[p] /\ msg'[p] = msg[p] /\ status'[Job(p)] = status[Job(p)]
           \/ pc'[p] = "loading" /\ status'[stream[msg'[p]]] = "RUNNING",
         \A m \in delivered + 1 .. Len(stream) : status'[stream[m]] = status[stream[m]],
         \A p \in Process : \A n \in outbox'[p] :
           status'[n] = "QUEUED" \/ (n \in outbox[p] /\ status'[n] = status[n]),
         \A r \in Request : pc'[r] = "retrying" =>
           pc[r] = "retrying" /\ target'[r] = target[r]
             /\ status'[target[r].node] = status[target[r].node]
  PROVE  Phases'
<1>1. ASSUME NEW p \in Runner
      PROVE  /\ pc'[p] \in Waiting => status'[stream[msg'[p]]] = "QUEUED"
             /\ pc'[p] \in Running => status'[stream[msg'[p]]] = "RUNNING"
  <2>1. CASE /\ pc'[p] = pc[p] /\ msg'[p] = msg[p]
             /\ status'[stream[msg[p]]] = status[stream[msg[p]]]
    BY <2>1, Zenon DEF Phases, Job
  <2>2. CASE pc'[p] = "loading" /\ status'[stream[msg'[p]]] = "RUNNING"
    BY <2>2, Zenon DEF Waiting
  <2> QED
    BY <2>1, <2>2, Zenon DEF Job
<1>2. \A m \in delivered' + 1 .. Len(stream') : status'[stream'[m]] = "QUEUED"
  BY DEF Phases
<1>3. \A p \in Process : \A n \in outbox'[p] : status'[n] = "QUEUED"
  BY DEF Phases
<1>4. \A r \in Request : pc'[r] = "retrying" => status'[target'[r].node] = "DEAD_LETTERED"
  BY DEF Phases
<1> QED
  BY <1>1, <1>2, <1>3, <1>4, Zenon DEF Phases, Job

(* The commit of RUNNING by the runner that has the node's only message.   *)
LEMMA CommitTokens ==
  ASSUME IndInv, Holding, Steady, NEW p \in Runner, CommitRunning(p)
  PROVE  Steady'
<1> USE ProcessFacts
<1>1. msg[p] # 0 /\ pc[p] \in Waiting /\ status[Job(p)] = "QUEUED"
  BY Zenon DEF CommitRunning, JobsKnown, Working, Steady, Phases, Waiting, IndInv, TypeOK
<1>2. /\ Job(p) \in Node
      /\ \A m \in delivered + 1 .. Len(stream) : stream[m] # Job(p)
      /\ \A q \in Process : Job(p) \notin outbox[q]
      /\ \A q \in Runner : pc[q] \in Waiting \cup Running /\ msg[q] # 0 /\ Job(q) = Job(p) => q = p
  BY <1>1, RunnerAlone, Zenon DEF Steady
<1>3. /\ UNCHANGED <<stream, delivered, pel, msg, outbox, target>>
      /\ status' = [status EXCEPT ![Job(p)] = "RUNNING"] /\ pc' = [pc EXCEPT ![p] = "loading"]
  BY Zenon DEF CommitRunning, redis
<1>4. Calm'
  BY <1>1, <1>3, Zenon DEF CommitRunning, Steady, Calm, IndInv, TypeOK
<1>5. Single'
  <2>1. \A m : Live(m)' => Live(m)
    <3>1. \A q \in Runner : pc'[q] \in Waiting \cup Running =>
                              pc[q] \in Waiting \cup Running /\ msg'[q] = msg[q]
      BY <1>1, <1>3, Zenon DEF IndInv, TypeOK
    <3> QED
      BY <1>3, <3>1, LiveStays, Zenon
  <2> QED
    BY <1>3, <2>1, SingleStays, Zenon DEF Steady
<1>6. Phases'
  <2>1. \A n \in Node : n # Job(p) => status'[n] = status[n]
    BY <1>2, <1>3, Zenon DEF IndInv, TypeOK
  <2>2. ASSUME NEW q \in Runner, pc'[q] \in Waiting \cup Running
        PROVE  \/ pc'[q] = pc[q] /\ msg'[q] = msg[q] /\ status'[Job(q)] = status[Job(q)]
               \/ pc'[q] = "loading" /\ status'[stream[msg'[q]]] = "RUNNING"
    <3>1. CASE q = p
      BY <1>2, <1>3, <3>1, Zenon DEF Job, IndInv, TypeOK
    <3>2. CASE q # p
      <4>1. pc'[q] = pc[q] /\ msg'[q] = msg[q] /\ msg[q] # 0 /\ Job(q) \in Node
        <5>1. pc'[q] = pc[q] /\ msg'[q] = msg[q]
          BY <1>3, <3>2, Zenon DEF IndInv, TypeOK
        <5>2. msg[q] # 0
          BY <2>2, <5>1, Zenon DEF JobsKnown, Working, Waiting, Running, Runner, Calm, Steady,
                 IndInv, TypeOK
        <5> QED
          BY <5>1, <5>2, MessageInStream, JobIsNode, Zenon DEF IndInv, TypeOK
      <4> QED
        BY <1>2, <2>1, <2>2, <3>2, <4>1, Zenon
    <3> QED
      BY <3>1, <3>2, Zenon
  <2>3. \A m \in delivered + 1 .. Len(stream) : status'[stream[m]] = status[stream[m]]
    <3>1. \A m \in delivered + 1 .. Len(stream) : stream[m] \in Node
      BY DEF IndInv, TypeOK
    <3> QED
      BY <1>2, <2>1, <3>1, Zenon
  <2>4. \A q \in Process : \A n \in outbox'[q] : n \in outbox[q] /\ status'[n] = status[n]
    BY <1>2, <1>3, <2>1
  <2>5. ASSUME NEW r \in Request, pc'[r] = "retrying"
        PROVE  /\ pc[r] = "retrying" /\ target'[r] = target[r]
               /\ status'[target[r].node] = status[target[r].node]
    <3>1. pc[r] = "retrying" /\ target'[r] = target[r]
      BY <1>3, <2>5, Zenon DEF IndInv, TypeOK
    <3>2. status[target[r].node] = "DEAD_LETTERED"
      BY <3>1, Zenon DEF Steady, Phases
    <3> QED
      BY <1>1, <1>3, <3>1, <3>2
  <2>6. \A q \in Runner : pc'[q] \in Waiting \cup Running =>
          \/ pc'[q] = pc[q] /\ msg'[q] = msg[q] /\ status'[Job(q)] = status[Job(q)]
          \/ pc'[q] = "loading" /\ status'[stream[msg'[q]]] = "RUNNING"
    BY <2>2, Zenon
  <2>7. \A q \in Process : \A n \in outbox'[q] :
          status'[n] = "QUEUED" \/ (n \in outbox[q] /\ status'[n] = status[n])
    BY <2>4, Zenon
  <2>8. \A r \in Request : pc'[r] = "retrying" =>
          pc[r] = "retrying" /\ target'[r] = target[r]
            /\ status'[target[r].node] = status[target[r].node]
    BY <2>5, Zenon
  <2>9. Phases /\ UNCHANGED <<stream, delivered>>
    BY <1>3, Zenon DEF Steady
  <2> HIDE ProcessFacts
  <2> QED
    BY <2>3, <2>6, <2>7, <2>8, <2>9, PhasesStep, Zenon
<1> QED
  BY <1>4, <1>5, <1>6, Zenon DEF Steady

(* StartExecution meets no message; retry_node meets a DEAD_LETTERED node, *)
(* which has none.                                                         *)
LEMMA RequestTokens ==
  ASSUME IndInv, Steady, Outboxes, Orderly, NEW r \in Request, StartExecution(r) \/ RetryCommit(r)
  PROVE  Steady'
<1> USE ProcessFacts
<1>1. /\ UNCHANGED <<stream, delivered, pel, msg, target>> /\ pc' = [pc EXCEPT ![r] = "publishing"]
      /\ outbox[r] = {}
  BY Zenon DEF StartExecution, RetryCommit, redis, Outboxes
<1>2. Calm'
  BY <1>1, Zenon DEF Steady, Calm, IndInv, TypeOK
<1>3. \A m : Live(m)' => Live(m)
  BY <1>1, LiveStays, Zenon DEF IndInv, TypeOK
<1>4. \A s \in Request : pc'[s] # "retrying"
  BY <1>1, Zenon DEF Orderly, IndInv, TypeOK
<1>5. CASE StartExecution(r)
  <2>1. /\ stream = << >> /\ \A p \in Runner : msg[p] = 0
        /\ \A p \in Process : outbox[p] = {}
    BY <1>5, NothingBefore, Zenon DEF StartExecution
  <2>2. /\ outbox' = [outbox EXCEPT ![r] = Roots] /\ Roots \in SUBSET Node
        /\ \A n \in Roots : status'[n] = "QUEUED"
    BY <1>5, Zenon DEF StartExecution, Roots
  <2>3. Single'
    <3>1. 1 .. Len(stream) = {}
      BY <2>1
    <3>2. \A q \in Process : /\ outbox'[q] \subseteq outbox[q] \/ (q = r /\ outbox'[q] = Roots)
                             /\ outbox[q] \cap Roots = {}
      BY <2>1, <2>2
    <3> QED
      BY <1>1, <2>2, <3>1, <3>2, SingleStep, Zenon DEF Steady, IndInv, TypeOK
  <2>4. \A p \in Runner : pc'[p] \notin Waiting \cup Running
    BY <1>1, <2>1, Zenon DEF JobsKnown, Working, Waiting, Running, Runner, Calm, Steady, IndInv,
           TypeOK
  <2>5. delivered + 1 .. Len(stream) = {}
    BY <2>1 DEF IndInv, TypeOK
  <2>6. Phases'
    BY <1>1, <1>4, <2>1, <2>2, <2>4, <2>5, Zenon DEF Phases, IndInv, TypeOK
  <2> QED
    BY <1>2, <2>3, <2>6, Zenon DEF Steady
<1>6. CASE RetryCommit(r)
  <2>1. PICK n \in Node : /\ n = target[r].node /\ status[n] = "DEAD_LETTERED"
                          /\ status' = [status EXCEPT ![n] = "QUEUED"]
                          /\ outbox' = [outbox EXCEPT ![r] = {n}]
    BY <1>6, Zenon DEF RetryCommit, JobsActivated, TargetActivated, Steady, Phases, IndInv, TypeOK
  <2>2. \A m \in 1 .. Len(stream) : Live(m) => stream[m] # n
    BY <2>1, LiveStatus, Zenon DEF Steady
  <2>3. \A q \in Process : n \notin outbox[q]
    BY <2>1, Zenon DEF Steady, Phases
  <2>4. Single'
    <3>1. PICK fresh \in SUBSET Node : fresh = {n}
      BY Zenon
    <3>2. \A m \in 1 .. Len(stream) : Live(m)' => Live(m) /\ stream[m] \notin fresh
      BY <1>3, <2>2, <3>1, Zenon
    <3>3. \A q \in Process : outbox'[q] \subseteq outbox[q] \/ (q = r /\ outbox'[q] = fresh)
      BY <2>1, <3>1
    <3>4. \A q \in Process : outbox[q] \cap fresh = {}
      BY <2>3, <3>1, Zenon
    <3>5. Single /\ stream' = stream /\ r \in Process
      BY <1>1, Zenon DEF Steady
    <3> HIDE DEF IndInv, TypeOK
    <3> QED
      BY <3>2, <3>3, <3>4, <3>5, SingleStep, Zenon
  <2>5. ASSUME NEW q \in Runner, pc'[q] \in Waiting \cup Running
        PROVE  pc'[q] = pc[q] /\ msg'[q] = msg[q] /\ status'[Job(q)] = status[Job(q)]
    <3>1. pc'[q] = pc[q] /\ msg' = msg /\ stream' = stream
      BY <1>1, <2>1, <2>5
    <3>2. status'[Job(q)] = status[Job(q)]
      BY <2>1, <2>5, <3>1 DEF Steady, Phases
    <3> QED
      BY <3>1, <3>2, Zenon
  <2>6. \A m \in delivered + 1 .. Len(stream) : status'[stream[m]] = status[stream[m]]
    <3>1. \A m \in delivered + 1 .. Len(stream) : status[stream[m]] = "QUEUED"
      BY Zenon DEF Steady, Phases
    <3>2. \A k \in Node : k # n => status'[k] = status[k]
      BY <2>1
    <3>3. \A m \in delivered + 1 .. Len(stream) : stream[m] \in Node
      BY DEF IndInv, TypeOK
    <3> QED
      BY <2>1, <3>1, <3>2, <3>3, Zenon
  <2>7. \A q \in Process : \A m \in outbox'[q] :
          status'[m] = "QUEUED" \/ (m \in outbox[q] /\ status'[m] = status[m])
    BY <2>1, Zenon DEF IndInv, TypeOK
  <2>8. Phases'
    BY <1>1, <1>4, <2>5, <2>6, <2>7, PhasesStep, Zenon DEF Steady
  <2> QED
    BY <1>2, <2>4, <2>8, Zenon DEF Steady
<1> QED
  BY <1>5, <1>6, Zenon


(* Completion takes the message of the node it completes out of play, and  *)
(* queues nodes that have none: PENDING ones, or the node itself.          *)
LEMMA CompleteTokens ==
  ASSUME IndInv, Holding, Outboxes, Steady, NEW p \in Runner,
         \/ \E chosen \in Node \cup {NoNode} : CompleteSucceeded(p, chosen)
         \/ CompleteRetrying(p) \/ CompleteDeadLettered(p)
  PROVE  Steady'
<1> USE ProcessFacts
<1>1. /\ pc[p] = "executing" /\ msg[p] # 0 /\ status[Job(p)] = "RUNNING"
      /\ UNCHANGED <<stream, delivered, pel, msg, target>> /\ outbox[p] = {}
      /\ pc'[p] \in {"acking", "publishing"} /\ \A q \in Process \ {p} : pc'[q] = pc[q]
  BY ZenonT(40) DEF CompleteSucceeded, CompleteRetrying, CompleteDeadLettered, Completing, JobsKnown,
         Working,
         redis, Outboxes, IndInv, TypeOK
<1>2. PICK n \in Node : n = Job(p)
  BY <1>1, MessageInStream, JobIsNode, Zenon DEF IndInv, TypeOK
<1>3. /\ \A m \in 1 .. Len(stream) : Live(m) /\ stream[m] = n => m = msg[p]
      /\ \A m \in delivered + 1 .. Len(stream) : stream[m] # n
      /\ \A q \in Process : n \notin outbox[q]
      /\ \A q \in Runner : pc[q] \in Waiting \cup Running /\ msg[q] # 0 /\ Job(q) = n => q = p
  BY <1>1, <1>2, RunnerAlone, Zenon DEF Steady, Running
<1>4. PICK fresh \in SUBSET Node :
        /\ \A m \in fresh : status'[m] = "QUEUED" /\ (m = n \/ status[m] = "PENDING")
        /\ \A m \in Node : m # n /\ status[m] # "PENDING" => status'[m] = status[m]
        /\ \A q \in Process : outbox'[q] = IF q = p THEN fresh ELSE outbox[q]
  <2> HIDE DEF IndInv, TypeOK
  <2>1. \E fresh \in SUBSET Node :
           /\ \A m \in fresh : status'[m] = "QUEUED" /\ (m = Job(p) \/ status[m] = "PENDING")
           /\ \A m \in Node : m # Job(p) /\ status[m] # "PENDING" => status'[m] = status[m]
           /\ \A m \in Node : m = Job(p) \/ status[m] = "PENDING" =>
                m \in fresh \/ status'[m] \notin {"QUEUED", "RUNNING"}
           /\ \A q \in Process : outbox'[q] = IF q = p THEN fresh ELSE outbox[q]
    BY CompleteRows, Zenon
  <2> QED
    BY <1>2, <2>1, Zenon
<1>5. Calm'
  BY <1>1, Zenon DEF Steady, Calm
<1>6. \A m : Live(m)' => Live(m)
  <2>1. \A q \in Runner : pc'[q] \in Waiting \cup Running =>
                            pc[q] \in Waiting \cup Running /\ msg'[q] = msg[q]
    BY <1>1, Zenon DEF Waiting, Running
  <2> QED
    BY <1>1, <2>1, LiveStays, Zenon
<1>7. ASSUME NEW m \in 1 .. Len(stream), Live(m)'
      PROVE  stream[m] # n
  <2>1. m # msg[p]
    <3> SUFFICES ASSUME m = msg[p] PROVE FALSE
      BY Zenon
    <3>1. msg[p] \in 0 .. delivered
      BY Zenon DEF JobsKnown, IndInv, TypeOK
    <3>2. m \notin delivered' + 1 .. Len(stream')
      <4>1. delivered' = delivered /\ stream' = stream
        BY <1>1, Zenon
      <4>2. delivered \in Nat /\ Len(stream) \in Nat
        BY DEF IndInv, TypeOK
      <4> HIDE ProcessFacts
      <4> QED
        BY <3>1, <4>1, <4>2
    <3>3. PICK q \in Runner : msg'[q] = m /\ pc'[q] \in Waiting \cup Running
      BY <1>7, <3>2, Zenon DEF Live
    <3>4. q = p
      BY <1>1, <3>3, Zenon DEF Holding
    <3> QED
      BY <1>1, <3>3, <3>4, Zenon DEF Waiting, Running
  <2> QED
    BY <1>3, <1>6, <1>7, <2>1, Zenon
<1>8. Single'
  <2>1. \A m \in 1 .. Len(stream) : Live(m)' => Live(m) /\ stream[m] \notin fresh
    <3>1. \A m \in 1 .. Len(stream) : Live(m) => status[stream[m]] \in {"QUEUED", "RUNNING"}
      BY LiveStatus, Zenon DEF Steady
    <3> QED
      BY <1>4, <1>6, <1>7, <3>1, Zenon
  <2>2. \A q \in Process : outbox'[q] \subseteq outbox[q] \/ (q = p /\ outbox'[q] = fresh)
    BY <1>4, Zenon
  <2>3. \A q \in Process : outbox[q] \cap fresh = {}
    <3>1. \A q \in Process : \A m \in outbox[q] : status[m] = "QUEUED" /\ m # n
      BY <1>3, Zenon DEF Steady, Phases
    <3> QED
      BY <1>4, <3>1, Zenon
  <2>4. Single /\ stream' = stream /\ p \in Process
    BY <1>1, Zenon DEF Steady
  <2> HIDE DEF IndInv, TypeOK
  <2> QED
    BY <2>1, <2>2, <2>3, <2>4, SingleStep, Zenon
<1>9. Phases'
  <2>1. \A m \in Node : m # n /\ status[m] \in {"QUEUED", "RUNNING", "DEAD_LETTERED"} => status'[m] = status[m]
    BY <1>4, Zenon
  <2>2. ASSUME NEW q \in Runner, pc'[q] \in Waiting \cup Running
        PROVE  pc'[q] = pc[q] /\ msg'[q] = msg[q] /\ status'[Job(q)] = status[Job(q)]
    <3>1. q # p /\ pc'[q] = pc[q] /\ msg'[q] = msg[q]
      BY <1>1, <2>2, Zenon DEF Waiting, Running
    <3>2. msg[q] # 0
      BY <2>2, <3>1, Zenon DEF JobsKnown, Working, Waiting, Running, Runner, Calm, Steady, IndInv,
             TypeOK
    <3>3. Job(q) \in Node /\ Job(q) # n
      BY <1>3, <2>2, <3>1, <3>2, MessageInStream, JobIsNode, Zenon DEF IndInv, TypeOK
    <3>4. status[Job(q)] \in {"QUEUED", "RUNNING"}
      BY <2>2, <3>1, Zenon DEF Steady, Phases
    <3> QED
      BY <2>1, <3>1, <3>3, <3>4, Zenon
  <2>3. \A m \in delivered + 1 .. Len(stream) : status'[stream[m]] = status[stream[m]]
    <3>1. \A m \in delivered + 1 .. Len(stream) : stream[m] \in Node
      BY DEF IndInv, TypeOK
    <3>2. \A m \in delivered + 1 .. Len(stream) : status[stream[m]] = "QUEUED"
      BY Zenon DEF Steady, Phases
    <3> QED
      BY <1>3, <2>1, <3>1, <3>2, Zenon
  <2>4. ASSUME NEW q \in Process, NEW m \in outbox'[q]
        PROVE  status'[m] = "QUEUED" \/ (m \in outbox[q] /\ status'[m] = status[m])
    <3>1. \A k \in outbox[q] : k \in Node /\ k # n /\ status[k] = "QUEUED"
      <4>1. outbox[q] \subseteq Node
        BY Zenon DEF IndInv, TypeOK
      <4> QED
        BY <1>3, <4>1, Zenon DEF Steady, Phases
    <3> QED
      BY <1>4, <2>1, <3>1, Zenon
  <2>5. ASSUME NEW r \in Request, pc'[r] = "retrying"
        PROVE  /\ pc[r] = "retrying" /\ target'[r] = target[r]
               /\ status'[target[r].node] = status[target[r].node]
    <3>1. pc[r] = "retrying" /\ target'[r] = target[r]
      BY <1>1, <2>5, Zenon
    <3>2. status[target[r].node] = "DEAD_LETTERED" /\ target[r].node \in Node
      BY <3>1, Zenon DEF Steady, Phases, JobsActivated, TargetActivated, IndInv, TypeOK
    <3> QED
      BY <1>1, <1>2, <2>1, <3>1, <3>2, Zenon
  <2> QED
    BY <1>1, <2>2, <2>3, <2>4, <2>5, PhasesStep, Zenon DEF Steady
<1> QED
  BY <1>5, <1>8, <1>9, Zenon DEF Steady


(* Whoever has a message in a phase has one of the stream.                 *)
LEMMA PhaseHasJob ==
  ASSUME IndInv, Calm, NEW p \in Runner, pc[p] \in Waiting \cup Running
  PROVE  msg[p] \in 1 .. delivered /\ msg[p] \in 1 .. Len(stream)
<1>1. msg[p] # 0
  BY Zenon DEF IndInv, JobsKnown, Working, Waiting, Running, Runner, Calm
<1>2. msg[p] \in 0 .. delivered /\ delivered \in Nat
  BY DEF IndInv, TypeOK, JobsKnown
<1> QED
  BY <1>1, <1>2, MessageInStream DEF IndInv

(* XADD moves a node from the outbox into the stream.                      *)
LEMMA PublishTokens ==
  ASSUME IndInv, Steady, NEW p \in Process, NEW n \in Node, Publish(p, n)
  PROVE  Steady'
<1>1. /\ stream' = Append(stream, n) /\ n \in outbox[p]
      /\ UNCHANGED <<status, delivered, pel, pc, msg, target>>
      /\ \A q \in Process : outbox'[q] = IF q = p THEN outbox[q] \ {n} ELSE outbox[q]
  BY Zenon DEF Publish, rows, IndInv, TypeOK
<1>2. stream \in Seq(Node) /\ Len(stream) \in Nat /\ delivered \in Nat
  BY DEF IndInv, TypeOK
<1>3. PICK new \in Nat : /\ new = Len(stream) + 1 /\ Len(stream') = new /\ stream'[new] = n
                         /\ 1 .. new = (1 .. Len(stream)) \cup {new}
                         /\ \A i \in 1 .. Len(stream) : i # new /\ stream'[i] = stream[i]
  BY <1>1, <1>2
<1>4. delivered + 1 .. new \subseteq (delivered + 1 .. Len(stream)) \cup {new}
  BY <1>2, <1>3
<1>5. Calm'
  BY <1>1, Zenon DEF Steady, Calm
<1>6. Phases'
  <2>1. ASSUME NEW q \in Runner, pc[q] \in Waiting \cup Running
        PROVE  stream'[msg[q]] = stream[msg[q]]
    BY <1>3, <2>1, PhaseHasJob, Zenon DEF Steady
  <2>2. \A m \in delivered + 1 .. Len(stream) : m \in 1 .. Len(stream)
    BY <1>2
  <2>3. \A m \in delivered + 1 .. new : status[stream'[m]] = "QUEUED"
    BY <1>1, <1>3, <1>4, <2>2 DEF Steady, Phases
  <2>4. \A q \in Process : \A m \in outbox'[q] : status[m] = "QUEUED"
    BY <1>1, Zenon DEF Steady, Phases
  <2>5. \A q \in Runner : /\ pc[q] \in Waiting => status[stream'[msg[q]]] = "QUEUED"
                          /\ pc[q] \in Running => status[stream'[msg[q]]] = "RUNNING"
    BY <2>1, Zenon DEF Steady, Phases, Job
  <2> QED
    BY <1>1, <1>3, <2>3, <2>4, <2>5, Zenon DEF Steady, Phases, Job
<1>7. \A m \in 1 .. Len(stream) : Live(m)' => Live(m)
  BY <1>1, <1>2, <1>3, <1>4, Zenon DEF Live
<1>8. Single'
  <2>1. /\ \A m \in 1 .. Len(stream) : Live(m) => stream[m] # n
        /\ \A q \in Process : q # p => n \notin outbox[q]
    BY <1>1, Zenon DEF Steady, Single
  <2>2. \A m, k \in 1 .. new : Live(m)' /\ Live(k)' /\ stream'[m] = stream'[k] => m = k
    BY <1>3, <1>7, <2>1, Zenon DEF Steady, Single
  <2>3. \A q, r \in Process : q # r => outbox'[q] \cap outbox'[r] = {}
    BY <1>1, Zenon DEF Steady, Single
  <2>4. \A q \in Process, m \in 1 .. new : Live(m)' => stream'[m] \notin outbox'[q]
    <3>1. \A q \in Process, m \in 1 .. Len(stream) : Live(m)' => stream[m] \notin outbox'[q]
      BY <1>1, <1>7, Zenon DEF Steady, Single
    <3>2. \A q \in Process : n \notin outbox'[q]
      BY <1>1, <2>1, Zenon
    <3> QED
      BY <1>3, <3>1, <3>2, Zenon
  <2> QED
    BY <1>3, <2>2, <2>3, <2>4, Zenon DEF Single
<1> QED
  BY <1>5, <1>6, <1>8, Zenon DEF Steady

(* XREADGROUP puts waiting messages in hand.                               *)
LEMMA ReadGroupTokens ==
  ASSUME IndInv, Holding, Steady, NEW w \in Worker, ReadGroup(w)
  PROVE  Steady'
<1>1. PICK k \in 1 .. PollCount :
           /\ delivered + k <= Len(stream)
           /\ delivered' = delivered + k /\ pel' = pel \cup (delivered + 1 .. delivered + k)
           /\ \A p \in Runner :
                \/ /\ pc[p] = "idle" /\ p \in Slot /\ pc'[p] = "fetched"
                   /\ \E i \in 1 .. k : p = <<w, i>> /\ msg'[p] = delivered + i
                \/ p \notin {w} \X (1 .. k) /\ pc'[p] = pc[p] /\ msg'[p] = msg[p]
           /\ \A i \in 1 .. k : <<w, i>> \in Runner
           /\ \A r \in Request : pc'[r] = pc[r]
  BY ReadGroupFacts, Zenon
<1>2. /\ UNCHANGED <<status, stream, outbox, target>> /\ delivered \in Nat /\ k \in Nat
      /\ Len(stream) \in Nat /\ \A m \in pel : m # 0
  <2>1. UNCHANGED <<status, stream, outbox, target>>
    BY Zenon DEF ReadGroup, rows
  <2>2. k \in Nat
    BY ConstantsAssumption
  <2> QED
    BY <2>1, <2>2 DEF IndInv, TypeOK
<1>3. /\ \A i \in 1 .. k : delivered + i \in delivered + 1 .. Len(stream)
      /\ \A m \in delivered + 1 .. delivered + k : \E i \in 1 .. k : m = delivered + i
      /\ \A m \in delivered' + 1 .. Len(stream) : m \in delivered + 1 .. Len(stream)
  <2>1. \A m \in delivered + 1 .. delivered + k : m - delivered \in 1 .. k /\ m = delivered + (m - delivered)
    BY <1>2
  <2>0. /\ delivered + k <= Len(stream) /\ delivered' = delivered + k
        /\ delivered \in Nat /\ k \in Nat /\ Len(stream) \in Nat
    BY <1>1, <1>2, Zenon
  <2>2. \A i \in 1 .. k : delivered + i \in delivered + 1 .. Len(stream)
    BY <2>0
  <2>3. \A m \in delivered' + 1 .. Len(stream) : m \in delivered + 1 .. Len(stream)
    BY <2>0
  <2> QED
    BY <2>1, <2>2, <2>3, Zenon
<1>4. ASSUME NEW p \in Runner
      PROVE  \/ /\ pc[p] = "idle" /\ p \in Slot /\ pc'[p] = "fetched"
                /\ msg'[p] \in delivered + 1 .. Len(stream)
             \/ pc'[p] = pc[p] /\ msg'[p] = msg[p]
  BY <1>1, <1>3, Zenon
<1>5. Calm'
  <2>1. \A p \in Runner : /\ pc'[p] \notin {"reviving", "resuming"}
                          /\ p \in Recoverer => pc'[p] = "idle"
    BY <1>4, SlotFacts, Zenon DEF Steady, Calm
  <2>2. ASSUME NEW m \in pel PROVE \E p \in Runner : msg'[p] = m
    <3>1. PICK p \in Runner : msg[p] = m /\ m # 0
      BY <1>2, Zenon DEF Steady, Calm
    <3>2. pc[p] # "idle"
      BY <3>1, Zenon DEF Holding
    <3> QED
      BY <1>4, <3>1, <3>2, Zenon
  <2>3. ASSUME NEW i \in 1 .. k PROVE msg'[<<w, i>>] = delivered + i
    <3>1. <<w, i>> \in Runner /\ <<w, i>> \in {w} \X (1 .. k)
      BY <1>1, Zenon
    <3>2. PICK j \in 1 .. k : <<w, i>> = <<w, j>> /\ msg'[<<w, i>>] = delivered + j
      BY <1>1, <3>1, Zenon
    <3> QED
      BY <3>2, Zenon
  <2>4. ASSUME NEW m \in delivered + 1 .. delivered + k PROVE \E p \in Runner : msg'[p] = m
    <3>1. PICK i \in 1 .. k : m = delivered + i
      BY <1>3, Zenon
    <3> QED
      BY <1>1, <2>3, <3>1, Zenon
  <2>5. \A m \in pel' : \E p \in Runner : msg'[p] = m
    BY <1>1, <2>2, <2>4, Zenon
  <2> QED
    BY <2>1, <2>5, Zenon DEF Calm
<1>6. Single'
  <2>1. \A m : Live(m)' => Live(m)
    <3> SUFFICES ASSUME NEW m, Live(m)' PROVE Live(m)
      BY Zenon
    <3>1. CASE m \in delivered' + 1 .. Len(stream')
      BY <1>2, <1>3, <3>1, Zenon DEF Live
    <3>2. ASSUME NEW p \in Runner, msg'[p] = m, pc'[p] \in Waiting \cup Running
          PROVE  Live(m)
      BY <1>4, <3>2, Zenon DEF Live
    <3> QED
      BY <3>1, <3>2, Zenon DEF Live
  <2> QED
    BY <1>2, <2>1, SingleStays, Zenon DEF Steady
<1>7. Phases'
  <2>1. \A p \in Runner : /\ pc'[p] \in Waiting => status[stream[msg'[p]]] = "QUEUED"
                          /\ pc'[p] \in Running => status[stream[msg'[p]]] = "RUNNING"
    <3> SUFFICES ASSUME NEW p \in Runner
                 PROVE  /\ pc'[p] \in Waiting => status[stream[msg'[p]]] = "QUEUED"
                        /\ pc'[p] \in Running => status[stream[msg'[p]]] = "RUNNING"
      BY Zenon
    <3>1. CASE pc'[p] = "fetched" /\ msg'[p] \in delivered + 1 .. Len(stream)
      <4>1. "fetched" \notin Running
        BY Zenon DEF Running
      <4>2. status[stream[msg'[p]]] = "QUEUED"
        BY <3>1, Zenon DEF Steady, Phases
      <4> QED
        BY <3>1, <4>1, <4>2, Zenon
    <3>2. CASE pc'[p] = pc[p] /\ msg'[p] = msg[p]
      BY <3>2, Zenon DEF Steady, Phases, Job
    <3> QED
      BY <1>4, <3>1, <3>2, Zenon
  <2>2. \A m \in delivered' + 1 .. Len(stream) : status[stream[m]] = "QUEUED"
    BY <1>3, Zenon DEF Steady, Phases
  <2> QED
    <3>1. status' = status /\ stream' = stream /\ outbox' = outbox /\ target' = target
      BY <1>2, Zenon
    <3>2. \A r \in Request : pc'[r] = pc[r]
      BY <1>1, Zenon
    <3>3. /\ \A p \in Process : \A n \in outbox[p] : status[n] = "QUEUED"
          /\ \A r \in Request : pc[r] = "retrying" => status[target[r].node] = "DEAD_LETTERED"
      BY Zenon DEF Steady, Phases
    <3> QED
      BY <2>1, <2>2, <3>1, <3>2, <3>3, Zenon DEF Phases, Job
<1> QED
  BY <1>5, <1>6, <1>7, Zenon DEF Steady


(* What an orderly environment and steady tokens rule out.                 *)
LEMMA NoRecovery ==
  ASSUME IndInv, Holding, Steady, Orderly, execution # "DELETED", NEW p \in Runner
  PROVE  /\ ~FetchRejected(p) /\ ~Vanished(p) /\ ~CompleteSkipped(p)
         /\ ~ClaimStale(p) /\ ~RecoverRead(p) /\ ~RecoverCommit(p)
<1>1. ~FetchRejected(p)
  BY Zenon DEF FetchRejected, Steady, Phases, Waiting
<1>2. ~Vanished(p)
  <2> SUFFICES ASSUME Vanished(p) PROVE FALSE
    BY Zenon
  <2>1. msg[p] # 0
    BY Zenon DEF Vanished, IndInv, JobsKnown, Working
  <2>2. execution = "ABSENT"
    BY Zenon DEF Vanished, Exists
  <2> QED
    BY <2>1, <2>2, NothingBefore, Zenon
<1>3. ~CompleteSkipped(p)
  BY Zenon DEF CompleteSkipped, Completing, Steady, Phases, Running
<1>4. ~ClaimStale(p)
  <2> SUFFICES ASSUME ClaimStale(p) PROVE FALSE
    BY Zenon
  <2>1. PICK m \in pel : ~Held(m)
    <3>1. ~(slow < MaxSlow)
      BY DEF Orderly, NoSlowJobs, IndInv, TypeOK
    <3> QED
      BY <3>1, Zenon DEF ClaimStale, PendingWindow
  <2>2. PICK q \in Runner : msg[q] = m
    BY Zenon DEF Steady, Calm
  <2>3. m # 0
    BY DEF IndInv, TypeOK
  <2> QED
    BY <2>1, <2>2, <2>3, Zenon DEF Held, Holding
<1>5. ~RecoverRead(p) /\ ~RecoverCommit(p)
  BY Zenon DEF RecoverRead, RecoverCommit, Steady, Calm
<1> QED
  BY <1>1, <1>2, <1>3, <1>4, <1>5, Zenon

LEMMA NoFaults ==
  ASSUME IndInv, Orderly
  PROVE  (\A p \in Process : ~Fault(p)) /\ (\A w \in Worker : ~Crash(w))
<1>1. ~(faults < MaxFaults)
  <2>1. faults \in Nat /\ MaxFaults = 0
    BY Zenon DEF Orderly, IndInv, TypeOK
  <2> QED
    BY <2>1
<1> QED
  BY <1>1, Zenon DEF Fault, Crash

(* Only delete_execution deletes, and for good.                            *)
LEMMA Deletion ==
  ASSUME IndInv, [Next]_vars
  PROVE  execution' = "DELETED" <=> execution = "DELETED" \/ DeleteExecution
<1>1. CASE UNCHANGED vars
  BY <1>1, Zenon DEF vars, rows, DeleteExecution, Exists
<1>2. ASSUME NEW r \in Request, RequestStep(r)
      PROVE  execution' = "DELETED" <=> execution = "DELETED"
  BY <1>2, Zenon DEF RequestStep, StartExecution, RetryRead, RetryCommit, RetryRejected, rows
<1>3. ASSUME NEW p \in Runner, RunnerStep(p)
      PROVE  execution' = "DELETED" <=> execution = "DELETED"
  <2>1. CASE CompleteDeadLettered(p) \/ \E chosen \in Node \cup {NoNode} : CompleteSucceeded(p, chosen)
    BY <2>1, Zenon DEF CompleteDeadLettered, CompleteSucceeded, Completing, Exists, FinalStatus
  <2>2. CASE ~(CompleteDeadLettered(p) \/ \E chosen \in Node \cup {NoNode} : CompleteSucceeded(p, chosen))
    <3>1. execution' = execution
      BY <1>3, <2>2, Zenon DEF RunnerStep, FetchNode, FetchRejected, CommitRunning, LoadContext,
             Vanished,
             CompleteSkipped, CompleteRetrying, Ack, ClaimStale, RecoverRead, RecoverCommit, rows
    <3> QED
      BY <3>1, Zenon
  <2> QED
    BY <2>1, <2>2, Zenon
<1>4. ASSUME \/ \E p \in Process : PublishStep(p) \/ Fault(p)
             \/ \E w \in Worker : ReadGroup(w) \/ Crash(w)
             \/ \E n \in Node : ResolveDlqJob(n)
      PROVE  execution' = execution
  BY <1>4, Zenon DEF PublishStep, Publish, Published, Fault, ReadGroup, Crash, ResolveDlqJob, rows
<1>5. DeleteExecution => execution' = "DELETED" /\ Exists
  BY Zenon DEF DeleteExecution
<1>6. execution = "DELETED" => ~DeleteExecution
  BY Zenon DEF DeleteExecution, Exists
<1>7. CASE DeleteExecution
  BY <1>5, <1>7, Zenon
<1>8. CASE ~DeleteExecution
  BY <1>1, <1>2, <1>3, <1>4, <1>8, Zenon DEF Next
<1> QED
  BY <1>7, <1>8, Zenon

LEMMA NextTokens ==
  ASSUME IndInv, Holding, Outboxes, Tokens, Orderly, [Next]_vars
  PROVE  Tokens'
<1> SUFFICES ASSUME execution' # "DELETED" PROVE Steady'
  BY Zenon DEF Tokens
<1>1. Steady /\ execution # "DELETED" /\ ~DeleteExecution
  BY Deletion, Zenon DEF Tokens
<1>2. ASSUME NEW p \in Runner, RunnerStep(p)
      PROVE  Steady'
  BY <1>1, <1>2, NoRecovery, QuietTokens, CommitTokens, CompleteTokens, AckTokens,
         Zenon DEF RunnerStep
<1>3. ASSUME NEW r \in Request, RequestStep(r)
      PROVE  Steady'
  BY <1>1, <1>3, QuietTokens, RequestTokens, Zenon DEF RequestStep
<1>4. ASSUME NEW p \in Process, PublishStep(p)
      PROVE  Steady'
  BY <1>1, <1>4, QuietTokens, PublishTokens, Zenon DEF PublishStep
<1> QED
  BY <1>1, <1>2, <1>3, <1>4, NoFaults, QuietTokens, ReadGroupTokens, Zenon DEF Next


(* XADD is the only one to write the stream.                               *)
LEMMA StreamGrows ==
  ASSUME IndInv, [Next]_vars
  PROVE  \A i \in 1 .. Len(stream) : stream'[i] = stream[i]
<1>1. ASSUME NEW p \in Process, NEW n \in Node, Publish(p, n)
      PROVE  \A i \in 1 .. Len(stream) : stream'[i] = stream[i]
  <2>1. stream' = Append(stream, n) /\ stream \in Seq(Node)
    BY <1>1, Zenon DEF Publish, IndInv, TypeOK
  <2> QED
    BY <2>1
<1>2. ASSUME NEW r \in Request, RequestStep(r)
      PROVE  stream' = stream
  BY <1>2, Zenon DEF RequestStep, StartExecution, RetryRead, RetryCommit, RetryRejected, redis
<1>3. ASSUME NEW p \in Runner, RunnerStep(p)
      PROVE  stream' = stream
  BY <1>3, Zenon DEF RunnerStep, FetchNode, FetchRejected, CommitRunning, LoadContext, Vanished,
              CompleteSkipped, CompleteSucceeded, CompleteRetrying, CompleteDeadLettered, Ack,
              ClaimStale, RecoverRead, RecoverCommit, redis
<1>4. ASSUME \/ \E p \in Process : Published(p) \/ Fault(p)
             \/ \E w \in Worker : ReadGroup(w) \/ Crash(w)
             \/ DeleteExecution \/ (\E n \in Node : ResolveDlqJob(n)) \/ UNCHANGED vars
      PROVE  stream' = stream
  BY <1>4, Zenon DEF Published, Fault, ReadGroup, Crash, ResolveDlqJob, DeleteExecution, redis, vars
<1> QED
  BY <1>1, <1>2, <1>3, <1>4, Zenon DEF Next, PublishStep

(* After the deletion nobody starts to work: who works did so before.      *)
LEMMA DeletedAlone ==
  ASSUME IndInv, OneRunnerPerNode, [Next]_vars, execution' = "DELETED"
  PROVE  OneRunnerPerNode'
<1> USE ProcessFacts
<1>1. (execution = "DELETED" /\ ~Exists) \/ DeleteExecution
  BY Deletion, Zenon DEF Exists
<1>2. ASSUME NEW p \in Runner, Working(p)'
      PROVE  Working(p) /\ msg'[p] = msg[p]
  <2>1. CASE DeleteExecution \/ UNCHANGED vars
    BY <1>2, <2>1, Zenon DEF DeleteExecution, vars, local, Working
  <2>2. ASSUME ~Exists, NEW q \in Runner, RunnerStep(q)
        PROVE  pc'[p] = pc[p] /\ msg'[p] = msg[p]
    <3>1. \/ FetchNode(q) \/ Vanished(q) \/ Ack(q) \/ ClaimStale(q) \/ RecoverRead(q)
      BY <2>2, Zenon DEF RunnerStep, FetchRejected, CommitRunning, LoadContext, CompleteSkipped,
             CompleteSucceeded, CompleteRetrying, CompleteDeadLettered, Completing, RecoverCommit
    <3>2. /\ pc'[q] \in {"idle", "acking", "fetched"}
          /\ \A r \in Runner : r # q => pc'[r] = pc[r] /\ msg'[r] = msg[r]
      BY <2>2, <3>1, Zenon DEF FetchNode, Vanished, Abandon, Ack, ClaimStale, RecoverRead, IndInv,
             TypeOK
    <3> QED
      BY <1>2, <3>2, Zenon DEF Working
  <2>3. ASSUME NEW q \in Process, PublishStep(q)
        PROVE  Working(p) /\ msg'[p] = msg[p]
    BY <1>2, <2>3, Zenon DEF PublishStep, Publish, Published, Working, IndInv, TypeOK
  <2>4. ASSUME ~Exists, NEW r \in Request, RequestStep(r)
        PROVE  Working(p) /\ msg'[p] = msg[p]
    BY <1>1, <1>2, <2>4, Zenon DEF RequestStep, StartExecution, RetryRead, RetryCommit,
           RetryRejected, Working,
       DeleteExecution, IndInv, TypeOK
  <2>5. ASSUME NEW w \in Worker, ReadGroup(w)
        PROVE  Working(p) /\ msg'[p] = msg[p]
    BY <1>2, <2>5, ReadGroupFacts, Zenon DEF Working
  <2>6. ASSUME NEW ps, Abandon(ps)
        PROVE  Working(p) /\ msg'[p] = msg[p]
    BY <1>2, <2>6, Zenon DEF Abandon, Working
  <2>7. ~Exists => \A n \in Node : ~ResolveDlqJob(n)
    BY Zenon DEF ResolveDlqJob
  <2> QED
    BY <1>1, <1>2, <2>1, <2>2, <2>3, <2>4, <2>5, <2>6, <2>7, Zenon DEF Next, Fault, Crash, Working
<1>3. \A i \in 1 .. Len(stream) : stream'[i] = stream[i]
  BY StreamGrows, Zenon
<1>4. ASSUME NEW p \in Runner, Working(p)'
      PROVE  Working(p) /\ Job(p)' = Job(p)
  <2>1. msg[p] \in 1 .. Len(stream)
    BY <1>2, <1>4, MessageInStream, Zenon DEF JobsKnown, IndInv, TypeOK
  <2> QED
    BY <1>2, <1>3, <1>4, <2>1, Zenon DEF Job
<1> QED
  BY <1>4, Zenon DEF OneRunnerPerNode

(* Two runners on one node would have two messages of it.                  *)
LEMMA SteadyAlone ==
  ASSUME IndInv, Holding, Steady
  PROVE  OneRunnerPerNode
<1> SUFFICES ASSUME NEW p \in Runner, NEW q \in Runner, Working(p), Working(q), Job(p) = Job(q)
             PROVE  p = q
  BY Zenon DEF OneRunnerPerNode
<1>1. pc[p] \in Waiting \cup Running /\ pc[q] \in Waiting \cup Running
  BY Zenon DEF Working, Steady, Calm, Waiting, Running
<1>2. msg[p] # 0 /\ msg[q] # 0
  BY Zenon DEF IndInv, JobsKnown
<1> QED
  BY <1>1, <1>2, RunnerAlone, Zenon DEF Steady

OrderlyInv ==
  /\ IndInv /\ Holding /\ Outboxes /\ Tokens
  /\ execution = "DELETED" => OneRunnerPerNode

LEMMA OrderlyAlone == OrderlyInv => OneRunnerPerNode
BY SteadyAlone, Zenon DEF OrderlyInv, Tokens

LEMMA InitOrderly == Init => OrderlyInv
<1> SUFFICES ASSUME Init PROVE OrderlyInv
  BY Zenon
<1>1. IndInv /\ Holding /\ Outboxes /\ execution # "DELETED"
  BY InitInd, InitHolding, Zenon DEF Init
<1>2. /\ \A p \in Process : pc[p] = "idle" /\ outbox[p] = {}
      /\ Len(stream) = 0 /\ delivered = 0 /\ pel = {}
  BY Zenon DEF Init
<1>3. 1 .. Len(stream) = {} /\ delivered + 1 .. Len(stream) = {}
  BY <1>2
<1>4. Calm /\ Phases /\ Single
  BY <1>2, <1>3, ProcessFacts, Zenon DEF Calm, Phases, Single, Waiting, Running
<1> QED
  BY <1>1, <1>4, Zenon DEF OrderlyInv, Tokens, Steady

LEMMA NextOrderly == Orderly /\ OrderlyInv /\ [Next]_vars => OrderlyInv'
<1> SUFFICES ASSUME Orderly, OrderlyInv, [Next]_vars PROVE OrderlyInv'
  BY Zenon
<1>1. IndInv' /\ Holding' /\ Outboxes'
  BY NextInd, NextHolding, NextOutboxes, Zenon DEF OrderlyInv, Orderly
<1>2. Tokens'
  BY NextTokens, Zenon DEF OrderlyInv
<1>3. execution' = "DELETED" => OneRunnerPerNode'
  BY OrderlyAlone, DeletedAlone, Zenon DEF OrderlyInv
<1> QED
  BY <1>1, <1>2, <1>3, Zenon DEF OrderlyInv

LEMMA OrderlyInvariant == Orderly => (Spec => []OrderlyInv)
<1> SUFFICES ASSUME Orderly PROVE Spec => []OrderlyInv
  BY Zenon
<1>1. OrderlyInv /\ [Next]_vars => OrderlyInv'
  BY NextOrderly, Zenon
<1> QED
  BY <1>1, InitOrderly, PTL DEF Spec

(* If no job is slow, nobody fails and retries come one at a time, no two  *)
(* runners ever work on one node at once, however many workers compete for *)
(* the stream.                                                             *)
THEOREM NodesRunAlone == Orderly => (Spec => []OneRunnerPerNode)
BY OrderlyInvariant, OrderlyAlone, PTL


-----------------------------------------------------------------------------
(* Terminal statuses and the outcome.                                      *)

(* A terminal node is written by retry_node alone: every other writer has  *)
(* a message of a node that is QUEUED or RUNNING, or a PENDING node.       *)
LEMMA TerminalStays ==
  ASSUME OrderlyInv, Orderly, [Next]_vars, NEW n \in Node, Terminal(n), status'[n] # status[n]
  PROVE  status[n] = "DEAD_LETTERED" /\ \E r \in Request : pc[r] = "retrying" /\ target[r].node = n
<1> USE ProcessFacts
<1>1. IndInv /\ Holding /\ Outboxes /\ Tokens
  BY Zenon DEF OrderlyInv
<1>2. status' # status
  BY Zenon
<1>3. Exists => Steady
  BY <1>1, Zenon DEF Tokens, Exists
<1>4. ASSUME NEW r \in Request, RequestStep(r)
      PROVE  status[n] = "DEAD_LETTERED" /\ pc[r] = "retrying" /\ target[r].node = n
  <2>1. CASE StartExecution(r)
    BY <1>1, <2>1, Zenon
    DEF StartExecution, IndInv, JobsActivated, AbsentIsEmpty, Terminal, TERMINAL_NODE_STATUSES
  <2>2. CASE RetryCommit(r)
    <3>1. n = target[r].node /\ pc[r] = "retrying" /\ Exists
      BY <1>1, <2>2, Zenon DEF RetryCommit, IndInv, TypeOK
    <3> QED
      BY <1>3, <3>1, Zenon DEF Steady, Phases
  <2>3. ASSUME RetryRejected(r) \/ \E m \in Node : RetryRead(r, m)
        PROVE  status' = status
    BY <2>3, Zenon DEF RetryRejected, RetryRead, rows
  <2> QED
    BY <1>2, <1>4, <2>1, <2>2, <2>3, Zenon DEF RequestStep
<1>5. ASSUME NEW p \in Runner, RunnerStep(p)
      PROVE  FALSE
  <2>1. CASE CommitRunning(p)
    <3>1. n = Job(p) /\ Exists
      BY <1>1, <2>1, Zenon DEF CommitRunning, IndInv, TypeOK
    <3> QED
      BY <1>3, <2>1, <3>1, Zenon
      DEF CommitRunning, Steady, Phases, Waiting, Terminal, TERMINAL_NODE_STATUSES
  <2>2. CASE RecoverCommit(p)
    <3>1. Exists
      BY <2>2, Zenon DEF RecoverCommit
    <3> QED
      BY <1>3, <2>2, <3>1, Zenon DEF RecoverCommit, Steady, Calm
  <2>3. CASE \/ \E chosen \in Node \cup {NoNode} : CompleteSucceeded(p, chosen)
             \/ CompleteRetrying(p) \/ CompleteDeadLettered(p)
    <3>1. \A m \in Node : m # Job(p) /\ status[m] # "PENDING" => status'[m] = status[m]
      BY <1>1, <2>3, CompleteRows, Zenon
    <3>2. status[Job(p)] = "RUNNING"
      BY <2>3, Zenon DEF CompleteSucceeded, CompleteRetrying, CompleteDeadLettered
    <3> QED
      BY <3>1, <3>2, Zenon DEF Terminal, TERMINAL_NODE_STATUSES
  <2>4. ASSUME \/ FetchNode(p) \/ FetchRejected(p) \/ LoadContext(p) \/ Vanished(p)
               \/ CompleteSkipped(p) \/ Ack(p) \/ ClaimStale(p) \/ RecoverRead(p)
        PROVE  status' = status
    BY <2>4, Zenon DEF FetchNode, FetchRejected, LoadContext, Vanished, CompleteSkipped, Ack,
           ClaimStale,
                RecoverRead, rows
  <2> QED
    BY <1>2, <1>5, <2>1, <2>2, <2>3, <2>4, Zenon DEF RunnerStep
<1>6. ASSUME \/ \E p \in Process : PublishStep(p) \/ Fault(p)
             \/ \E w \in Worker : ReadGroup(w) \/ Crash(w)
             \/ DeleteExecution \/ (\E m \in Node : ResolveDlqJob(m)) \/ UNCHANGED vars
      PROVE  status' = status
  BY <1>6, Zenon DEF PublishStep, Publish, Published, Fault, ReadGroup, Crash, ResolveDlqJob,
              DeleteExecution, rows, vars
<1> QED
  BY <1>2, <1>4, <1>5, <1>6, Zenon DEF Next

(* In such an environment only retry_node takes a node out of a terminal   *)
(* status: no late result and no recovery does.                            *)
THEOREM TerminalStatusesStay == Orderly => (Spec => TerminalOnlyRetried)
<1> SUFFICES ASSUME Orderly PROVE Spec => TerminalOnlyRetried
  BY Zenon
<1>1. OrderlyInv /\ [Next]_vars =>
        [\A n \in Node : Terminal(n) /\ status'[n] # status[n] =>
           status[n] = "DEAD_LETTERED" /\ \E r \in Request : target[r].node = n]_vars
  BY TerminalStays, Zenon
<1> QED
  BY <1>1, OrderlyInvariant, PTL DEF Spec, TerminalOnlyRetried

(* What the status of a finished execution says: a FAILED one has a failed *)
(* node, or an operator has retried one.                                   *)
Failing(n) == status[n] \in {"FAILED", "DEAD_LETTERED"} \/ retries[n] > 0

Ended ==
  /\ execution = "SUCCEEDED" => \A n \in Node : status[n] \in {"SUCCEEDED", "SKIPPED"}
  /\ execution = "FAILED" => \E n \in Node : Failing(n)
  /\ \A r \in Request : pc[r] = "retrying" => target[r].node \in Node /\ retries[target[r].node] > 0

(* Every step that is not a read of retry_node leaves the counts alone,    *)
(* and no request begins a retry in it.                                    *)
LEMMA OthersRetryNothing ==
  ASSUME IndInv, Orderly, [Next]_vars, \A r \in Request, n \in Node : ~RetryRead(r, n)
  PROVE  /\ retries' = retries
         /\ \A s \in Request : pc'[s] = "retrying" => pc[s] = "retrying" /\ target'[s] = target[s]
<1> USE ProcessFacts
<1>1. ASSUME NEW r \in Request, RequestStep(r)
      PROVE  /\ retries' = retries
             /\ \A s \in Request : pc'[s] = "retrying" => pc[s] = "retrying" /\ target'[s] = target[s]
  BY <1>1, Zenon DEF RequestStep, StartExecution, RetryCommit, RetryRejected, bounds, IndInv, TypeOK
<1>2. ASSUME NEW p \in Runner, RunnerStep(p)
      PROVE  retries' = retries /\ \A s \in Request : pc'[s] = pc[s] /\ target'[s] = target[s]
  <2>1. ASSUME FetchRejected(p) \/ Vanished(p)
        PROVE  retries' = retries /\ \A s \in Request : pc'[s] = pc[s] /\ target'[s] = target[s]
    <3>1. Abandon({p}) /\ retries' = retries
      BY <2>1, Zenon DEF FetchRejected, Vanished, bounds
    <3>2. \A s \in Request : s \in Process /\ s \notin {p}
      BY Zenon
    <3> QED
      BY <3>1, <3>2, Zenon DEF Abandon
  <2>2. ASSUME CompleteDeadLettered(p) \/ \E chosen \in Node \cup {NoNode} : CompleteSucceeded(p, chosen)
        PROVE  retries' = retries /\ \A s \in Request : pc'[s] = pc[s] /\ target'[s] = target[s]
    <3>1. /\ pc' \in {[pc EXCEPT ![p] = "acking"], [pc EXCEPT ![p] = "publishing"]}
          /\ UNCHANGED <<retries, target>>
      BY <2>2, Zenon DEF CompleteDeadLettered, CompleteSucceeded, bounds
    <3>2. \A s \in Request : pc'[s] = pc[s]
      BY <3>1 DEF IndInv, TypeOK
    <3> QED
      BY <3>1, <3>2, Zenon
  <2>3. ASSUME \/ FetchNode(p) \/ CommitRunning(p) \/ LoadContext(p) \/ CompleteSkipped(p)
               \/ CompleteRetrying(p) \/ Ack(p) \/ ClaimStale(p) \/ RecoverRead(p) \/ RecoverCommit(p)
        PROVE  retries' = retries /\ \A s \in Request : pc'[s] = pc[s] /\ target'[s] = target[s]
    <3>1. UNCHANGED <<retries, target>>
      BY <2>3, Zenon DEF FetchNode, CommitRunning, LoadContext, CompleteSkipped,
             CompleteRetrying, Ack, ClaimStale, RecoverRead, RecoverCommit, bounds
    <3>2. \A s \in Request : pc'[s] = pc[s]
      BY <2>3, ZenonT(40) DEF FetchNode, CommitRunning, LoadContext, CompleteSkipped,
             CompleteRetrying, Ack, ClaimStale, RecoverRead, RecoverCommit, IndInv, TypeOK
    <3> QED
      BY <3>1, <3>2, Zenon
  <2> QED
    BY <1>2, <2>1, <2>2, <2>3, Zenon DEF RunnerStep
<1>3. ASSUME NEW w \in Worker, ReadGroup(w)
      PROVE  retries' = retries /\ \A s \in Request : pc'[s] = pc[s] /\ target'[s] = target[s]
  <2>1. UNCHANGED <<retries, target>>
    BY <1>3, Zenon DEF ReadGroup, bounds
  <2> QED
    BY <1>3, <2>1, ReadGroupFacts, Zenon
<1>4. ASSUME NEW p \in Process, PublishStep(p)
      PROVE  /\ retries' = retries
             /\ \A s \in Request : pc'[s] = "retrying" => pc[s] = "retrying" /\ target'[s] = target[s]
  <2>1. CASE \E n \in Node : Publish(p, n)
    BY <2>1, Zenon DEF Publish, bounds
  <2>2. CASE Published(p)
    <3>1. retries' = retries /\ \A s \in Request : s # p => pc'[s] = pc[s] /\ target'[s] = target[s]
      BY <2>2, Zenon DEF Published, bounds, IndInv, TypeOK
    <3>2. p \in Request => pc'[p] = "idle"
      BY <2>2, Zenon DEF Published, IndInv, TypeOK
    <3> QED
      BY <3>1, <3>2, Zenon
  <2> QED
    BY <1>4, <2>1, <2>2, Zenon DEF PublishStep
<1>5. ASSUME DeleteExecution \/ (\E n \in Node : ResolveDlqJob(n)) \/ UNCHANGED vars
      PROVE  UNCHANGED <<retries, pc, target>>
  BY <1>5, Zenon DEF DeleteExecution, ResolveDlqJob, vars, local, bounds
<1>6. (\A p \in Process : ~Fault(p)) /\ (\A w \in Worker : ~Crash(w))
  BY NoFaults, Zenon
<1>7. \/ \E r \in Request : RequestStep(r)
      \/ \E p \in Runner : RunnerStep(p)
      \/ \E p \in Process : PublishStep(p)
      \/ \E w \in Worker : ReadGroup(w)
      \/ DeleteExecution \/ (\E n \in Node : ResolveDlqJob(n)) \/ UNCHANGED vars
  BY <1>6, Zenon DEF Next
<1> QED
  BY <1>1, <1>2, <1>3, <1>4, <1>5, <1>7, Zenon

(* A terminal node stays as it is unless it is retried, so one that failed *)
(* stays failed or is counted as retried; a completion that finds none     *)
(* failed read RUNNING before.                                             *)
LEMMA NextEnded ==
  ASSUME OrderlyInv, Ended, Orderly, [Next]_vars
  PROVE  /\ Ended'
         /\ execution = "SUCCEEDED" => execution' \in {"SUCCEEDED", "DELETED"}
         /\ execution = "FAILED" =>
              \/ execution' \in {"FAILED", "DELETED"}
              \/ /\ execution' = "SUCCEEDED"
                 /\ \E n \in Node : retries[n] > 0
                 /\ \E p \in Runner : pc[p] = "executing" /\ seen[p] = "RUNNING"
                 /\ \A n \in Node : status'[n] \in {"SUCCEEDED", "SKIPPED"}
<1> USE ProcessFacts
<1>1. IndInv
  BY Zenon DEF OrderlyInv, Orderly
<1>2. /\ \A n \in Node : retries[n] > 0 => retries'[n] > 0
      /\ \A r \in Request : pc'[r] = "retrying" => target'[r].node \in Node /\ retries'[target'[r].node] > 0
  <2>1. CASE \E r \in Request, n \in Node : RetryRead(r, n)
    <3>1. PICK r \in Request, n \in Node : RetryRead(r, n)
      BY <2>1, Zenon
    <3>2. /\ pc \in [Process -> ProgramCounter] /\ retries \in [Node -> Nat]
          /\ target \in [Request -> [node : Node \cup {NoNode}, attempt : Nat]]
      BY <1>1, Zenon DEF IndInv, TypeOK
    <3>3. /\ retries' = [retries EXCEPT ![n] = @ + 1]
          /\ target' = [target EXCEPT ![r] = [node |-> n, attempt |-> attempt[n]]]
          /\ pc' = [pc EXCEPT ![r] = "retrying"]
      BY <3>1, Zenon DEF RetryRead
    <3>4. \A m \in Node : retries[m] > 0 \/ m = n => retries'[m] > 0
      BY <3>2, <3>3
    <3>5. target'[r].node = n
      BY <3>2, <3>3
    <3>6. \A s \in Request : s # r => pc'[s] = pc[s] /\ target'[s] = target[s]
      BY <3>2, <3>3, Zenon
    <3> QED
      BY <3>4, <3>5, <3>6, Zenon DEF Ended
  <2>2. CASE \A r \in Request, n \in Node : ~RetryRead(r, n)
    BY <1>1, <2>2, OthersRetryNothing, Zenon DEF Ended
  <2> QED
    BY <2>1, <2>2, Zenon
<1>3. /\ \A n \in Node : Failing(n) => Failing(n)'
      /\ \A n \in Node : status[n] \in {"SUCCEEDED", "SKIPPED"} => status'[n] = status[n]
  <2>1. ASSUME NEW n \in Node, Terminal(n), status'[n] # status[n]
        PROVE  status[n] = "DEAD_LETTERED" /\ retries[n] > 0
    BY <2>1, TerminalStays, Zenon DEF Ended
  <2> QED
    BY <1>2, <2>1, Zenon DEF Failing, Terminal, TERMINAL_NODE_STATUSES
<1>4. CASE execution' = execution
  BY <1>2, <1>3, <1>4, Zenon DEF Ended
<1>5. CASE DeleteExecution
  <2>1. execution' = "DELETED"
    BY <1>5, Zenon DEF DeleteExecution
  <2> QED
    BY <1>2, <2>1, Zenon DEF Ended
<1>6. CASE \E r \in Request : StartExecution(r)
  BY <1>2, <1>6, Zenon DEF StartExecution, Ended
<1>7. ASSUME NEW p \in Runner, pc[p] = "executing", status[Job(p)] = "RUNNING", Job(p) \in Node,
             execution' # execution,
             \/ execution' = FinalStatus(status', seen[p])
             \/ execution' = "FAILED" /\ status'[Job(p)] = "DEAD_LETTERED"
      PROVE  /\ Ended'
             /\ execution # "SUCCEEDED"
             /\ execution = "FAILED" =>
                  /\ execution' = "SUCCEEDED" /\ seen[p] = "RUNNING"
                  /\ \E n \in Node : retries[n] > 0
                  /\ \A n \in Node : status'[n] \in {"SUCCEEDED", "SKIPPED"}
  <2>1. execution # "SUCCEEDED"
    BY <1>7, Zenon DEF Ended
  <2>2. \/ execution' = "FAILED" /\ \E n \in Node : status'[n] \in {"FAILED", "DEAD_LETTERED"}
        \/ /\ execution' = "SUCCEEDED" /\ seen[p] = "RUNNING"
           /\ \A n \in Node : status'[n] \in {"SUCCEEDED", "SKIPPED"}
    BY <1>7, Zenon DEF FinalStatus, TERMINAL_NODE_STATUSES
  <2>3. Ended'
    BY <1>2, <2>2, Zenon DEF Ended, Failing
  <2>4. ASSUME execution = "FAILED"
        PROVE  /\ execution' = "SUCCEEDED" /\ seen[p] = "RUNNING"
               /\ \E n \in Node : retries[n] > 0
               /\ \A n \in Node : status'[n] \in {"SUCCEEDED", "SKIPPED"}
    <3>1. /\ execution' = "SUCCEEDED" /\ seen[p] = "RUNNING"
          /\ \A n \in Node : status'[n] \in {"SUCCEEDED", "SKIPPED"}
      BY <1>7, <2>2, <2>4, Zenon
    <3>2. PICK n \in Node : Failing(n)
      BY <2>4, Zenon DEF Ended
    <3>3. retries[n] > 0
      <4>1. CASE status[n] \in {"FAILED", "DEAD_LETTERED"}
        <5>1. status'[n] # status[n] /\ Terminal(n)
          BY <3>1, <4>1, Zenon DEF Terminal, TERMINAL_NODE_STATUSES
        <5> QED
          BY <5>1, TerminalStays, Zenon DEF Ended
      <4> QED
        BY <3>2, <4>1, Zenon DEF Failing
    <3> QED
      BY <3>1, <3>3, Zenon
  <2> QED
    BY <2>1, <2>3, <2>4, Zenon
<1>8. ASSUME execution' # execution
      PROVE  \/ DeleteExecution \/ \E r \in Request : StartExecution(r)
             \/ \E p \in Runner : /\ pc[p] = "executing" /\ status[Job(p)] = "RUNNING" /\ Job(p) \in Node
                                  /\ \/ execution' = FinalStatus(status', seen[p])
                                     \/ execution' = "FAILED" /\ status'[Job(p)] = "DEAD_LETTERED"
  <2>1. ASSUME NEW p \in Runner, RunnerStep(p)
        PROVE  /\ pc[p] = "executing" /\ status[Job(p)] = "RUNNING" /\ Job(p) \in Node
               /\ \/ execution' = FinalStatus(status', seen[p])
                  \/ execution' = "FAILED" /\ status'[Job(p)] = "DEAD_LETTERED"
    <3>1. CompleteDeadLettered(p) \/ \E chosen \in Node \cup {NoNode} : CompleteSucceeded(p, chosen)
      BY <1>8, <2>1, Zenon DEF RunnerStep, FetchNode, FetchRejected, CommitRunning, LoadContext,
             Vanished,
         CompleteSkipped, CompleteRetrying, Ack, ClaimStale, RecoverRead, RecoverCommit, rows
    <3>2. pc[p] = "executing" /\ status[Job(p)] = "RUNNING"
      BY <3>1, Zenon DEF CompleteDeadLettered, CompleteSucceeded, Completing
    <3>3. Job(p) \in Node
      BY <1>1, <3>2, MessageInStream, JobIsNode, Zenon DEF IndInv, JobsKnown, Working
    <3> QED
      BY <1>1, <1>8, <3>1, <3>2, <3>3, Zenon DEF CompleteDeadLettered, CompleteSucceeded, IndInv,
             TypeOK
  <2>2. ASSUME NEW r \in Request, RequestStep(r)
        PROVE  StartExecution(r)
    BY <1>8, <2>2, Zenon DEF RequestStep, RetryRead, RetryCommit, RetryRejected, rows
  <2>3. ASSUME \/ \E p \in Process : PublishStep(p) \/ Fault(p)
               \/ \E w \in Worker : ReadGroup(w) \/ Crash(w)
               \/ (\E n \in Node : ResolveDlqJob(n)) \/ UNCHANGED vars
        PROVE  FALSE
    BY <1>8, <2>3, Zenon DEF PublishStep, Publish, Published, Fault, ReadGroup, Crash,
           ResolveDlqJob, rows, vars
  <2> QED
    BY <2>1, <2>2, <2>3, Zenon DEF Next
<1> QED
  BY <1>4, <1>5, <1>6, <1>7, <1>8, Zenon

(* In such an environment a SUCCEEDED execution keeps that status until it *)
(* is deleted.  A FAILED one does too, unless an operator retries, nothing *)
(* is failed any more and a runner completes that had read RUNNING before  *)
(* the failure.                                                            *)
THEOREM OutcomesStay == Orderly => (Spec => OutcomeOnlyHealed)
<1> SUFFICES ASSUME Orderly PROVE Spec => OutcomeOnlyHealed
  BY Zenon
<1>1. Init => Ended
  BY ProcessFacts, Zenon DEF Init, Ended
<1>2. OrderlyInv /\ Ended /\ [Next]_vars => Ended'
  BY NextEnded, Zenon
<1>3. OrderlyInv /\ Ended /\ [Next]_vars =>
        [/\ execution = "SUCCEEDED" => execution' \in {"SUCCEEDED", "DELETED"}
         /\ execution = "FAILED" =>
              \/ execution' \in {"FAILED", "DELETED"}
              \/ /\ execution' = "SUCCEEDED"
                 /\ \E n \in Node : retries[n] > 0
                 /\ \E p \in Runner : pc[p] = "executing" /\ seen[p] = "RUNNING"
                 /\ \A n \in Node : status'[n] \in {"SUCCEEDED", "SKIPPED"}]_vars
  BY NextEnded, Zenon
<1> QED
  BY <1>1, <1>2, <1>3, OrderlyInvariant, PTL DEF Spec, OutcomeOnlyHealed

=============================================================================
