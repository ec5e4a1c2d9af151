----------------------------- MODULE ApiRequest -----------------------------
(***************************************************************************)
(* A request to the executions API, from the rate limiter to its answer:   *)
(* RateLimitMiddleware with its Redis counter and its in-memory fallback,  *)
(* the route, the local or the gRPC client and the engine's service.       *)
(*                                                                         *)
(* All requests come from one client identifier; identifiers share         *)
(* nothing.  Time is relative: a tick lowers the key's time to live and    *)
(* ages what is remembered, and what is as old as the window is dropped,   *)
(* which is when is_allowed's filter would drop it.  One execution with    *)
(* one node stands for the engine, whose own steps are ExecutionEngine's.  *)
(***************************************************************************)
EXTENDS Naturals, FiniteSetsExt

CONSTANTS
  Request,  \* connections of the client, each with one request at a time
  Limit,    \* rate_limit_requests
  Window    \* rate_limit_window_seconds, in ticks

ASSUME LimitAssumption == Limit \in Nat \ {0} /\ Window \in Nat \ {0}

Operation == {"summary", "start", "get", "list", "nodes", "retry", "delete"}
Writes == {"start", "retry", "delete"}

Age == 0 .. Window - 1
Many == Limit + 1  \* as good as any larger count: only "> limit" is tested
AtMostMany(k) == IF k > Many THEN Many ELSE k

VARIABLES
  transport,   \* EVENTFLOW_INTERNAL_TRANSPORT
  up,          \* is Redis reachable?
  count, ttl,  \* the key rate_limit:{identifier}
  stamps,      \* how many timestamps of each age _in_memory_limiter holds
  byRedis,     \* history: requests of each age that the counter let through
  byMemory,    \* history: those that the fallback let through
  execution,   \* is it "absent", "stored" or "deleted"?
  node,        \* the state of its node
  pc, op,
  via,         \* which limiter has last decided about the request
  runs,        \* calls of call_next for it
  effects,     \* transactions it has committed
  again,       \* history: has the node been dead-lettered since its commit?
  late,        \* history: has its handler failed after a commit?
  answer       \* what the client gets

limiter == <<count, ttl, stamps, byRedis, byMemory>>
engine == <<execution, node>>
request == <<pc, op, via, runs, effects, again, late, answer>>
vars == <<transport, up, limiter, engine, request>>

None == [a \in Age |-> 0]
Total(h) == MapThenSumSet(LAMBDA a : h[a], Age)
Older(h) == [a \in Age |-> IF a = 0 THEN 0 ELSE h[a - 1]]

Init ==
  /\ transport \in {"rest", "grpc"}
  /\ up = TRUE
  /\ count = 0 /\ ttl = 0
  /\ stamps = None /\ byRedis = None /\ byMemory = None
  /\ execution = "absent" /\ node = "queued"
  /\ pc = [r \in Request |-> "idle"]
  /\ op = [r \in Request |-> "summary"]
  /\ via = [r \in Request |-> "none"]
  /\ runs = [r \in Request |-> 0]
  /\ effects = [r \in Request |-> 0]
  /\ again = [r \in Request |-> FALSE]
  /\ late = [r \in Request |-> FALSE]
  /\ answer = [r \in Request |-> "none"]

Goes(r, to) == pc' = [pc EXCEPT ![r] = to]
Answers(r, what) == Goes(r, "answered") /\ answer' = [answer EXCEPT ![r] = what]
Commits(r) == effects' = [effects EXCEPT ![r] = @ + 1]

(* The client sends a request; the model follows one execution.            *)
Send(r) ==
  /\ pc[r] = "idle"
  /\ \E o \in Operation :
       /\ o = "start" => execution = "absent" /\ \A q \in Request : op[q] # "start"
       /\ op' = [op EXCEPT ![r] = o]
  /\ Goes(r, "arrived")
  /\ UNCHANGED <<transport, up, limiter, engine, via, runs, effects, again, late, answer>>

-----------------------------------------------------------------------------
(* RateLimitMiddleware.dispatch.                                           *)

(* GET /metrics/summary is not counted, and not within the try.            *)
Excluded(r) ==
  /\ pc[r] = "arrived" /\ op[r] = "summary"
  /\ Goes(r, "handling")
  /\ UNCHANGED <<transport, up, limiter, engine, op, via, runs, effects, again, late, answer>>

(* What INCR returned decides; the age of an admitted request is 0.        *)
Decide(r, n) ==
  /\ via' = [via EXCEPT ![r] = "redis"]
  /\ IF n > Limit
     THEN Answers(r, "limited") /\ UNCHANGED byRedis
     ELSE /\ Goes(r, "handling")
          /\ byRedis' = [byRedis EXCEPT ![0] = @ + 1]
          /\ UNCHANGED answer

(* Mutant: the expiry starts again with every request (no nx).             *)
CountExtending(r) ==
  /\ pc[r] = "arrived" /\ op[r] # "summary" /\ up
  /\ count' = AtMostMany(count + 1)
  /\ ttl' = Window
  /\ Decide(r, count + 1)
  /\ UNCHANGED <<transport, up, stamps, byMemory, engine, op, runs, effects, again, late>>

(* INCR and EXPIRE NX in one MULTI.                                        *)
Count(r) ==
  /\ pc[r] = "arrived" /\ op[r] # "summary" /\ up
  /\ count' = AtMostMany(count + 1)
  /\ ttl' = IF count = 0 THEN Window ELSE ttl
  /\ Decide(r, count + 1)
  /\ UNCHANGED <<transport, up, stamps, byMemory, engine, op, runs, effects, again, late>>

(* The pipeline raises.                                                    *)
CountFails(r) ==
  /\ pc[r] = "arrived" /\ op[r] # "summary" /\ ~up
  /\ Goes(r, "fallback")
  /\ UNCHANGED <<transport, up, limiter, engine, op, via, runs, effects, again, late, answer>>

(* Mutant: a timestamp is kept only for an admitted request, and counted   *)
(* before it is.                                                           *)
FallbackLoose(r) ==
  /\ pc[r] = "fallback"
  /\ via' = [via EXCEPT ![r] = "memory"]
  /\ IF Total(stamps) > Limit
     THEN Answers(r, "limited") /\ UNCHANGED <<stamps, byMemory>>
     ELSE /\ Goes(r, IF runs[r] > 0 /\ op[r] = "start" THEN "stuck" ELSE "handling")
          /\ stamps' = [stamps EXCEPT ![0] = AtMostMany(@ + 1)]
          /\ byMemory' = [byMemory EXCEPT ![0] = @ + 1]
          /\ UNCHANGED answer
  /\ UNCHANGED <<transport, up, count, ttl, byRedis, engine, op, runs, effects, again, late>>

(* The except branch: is_allowed counts the request, admitted or not, and  *)
(* call_next is called, for the second time if the handler had raised.  By *)
(* then the body of a POST has been consumed, and its reader waits until   *)
(* the client goes away.                                                   *)
Fallback(r) ==
  /\ pc[r] = "fallback"
  /\ via' = [via EXCEPT ![r] = "memory"]
  /\ stamps' = [stamps EXCEPT ![0] = AtMostMany(@ + 1)]
  /\ IF Total(stamps) + 1 > Limit
     THEN Answers(r, "limited") /\ UNCHANGED byMemory
     ELSE /\ Goes(r, IF runs[r] > 0 /\ op[r] = "start" THEN "stuck" ELSE "handling")
          /\ byMemory' = [byMemory EXCEPT ![0] = @ + 1]
          /\ UNCHANGED answer
  /\ UNCHANGED <<transport, up, count, ttl, byRedis, engine, op, runs, effects, again, late>>

(* Mutant: the exception of the second call is swallowed.                  *)
HandlerRaisedSilently(r) ==
  /\ pc[r] = "raised"
  /\ Goes(r, IF via[r] = "redis" THEN "fallback" ELSE "idle")
  /\ UNCHANGED <<transport, up, limiter, engine, op, via, runs, effects, again, late, answer>>

(* The handler's exception reaches the middleware: within the try it is    *)
(* taken for a failure of Redis; from the except branch, or from an        *)
(* excluded path, it goes on to the handler of unexpected errors.          *)
HandlerRaised(r) ==
  /\ pc[r] = "raised"
  /\ IF via[r] = "redis"
     THEN Goes(r, "fallback") /\ UNCHANGED answer
     ELSE Answers(r, "error")
  /\ UNCHANGED <<transport, up, limiter, engine, op, via, runs, effects, again, late>>

-----------------------------------------------------------------------------
(* The route, the client and the engine.                                   *)

Stored == execution = "stored"

(* Mutant: retry_node does not look at the state of the node.              *)
RefusesLess(r) ==
  CASE op[r] = "retry"  -> ~Stored
    [] op[r] = "delete" -> ~Stored
    [] OTHER            -> FALSE

(* An AppError of the engine: there is no such execution, the node is not  *)
(* dead-lettered, the version or the status filter is not accepted.        *)
Refuses(r) ==
  CASE op[r] = "retry"  -> ~Stored \/ node # "dead"
    [] op[r] = "delete" -> ~Stored
    [] OTHER            -> FALSE
MayRefuse(r) == op[r] \in {"start", "list"}

(* The engine's reads and checks, any of which may raise; so does a call   *)
(* over gRPC that does not reach the engine.                               *)
EngineReads(r) ==
  /\ pc[r] = "handling"
  /\ runs' = [runs EXCEPT ![r] = @ + 1]
  /\ \/ Goes(r, "raised")
     \/ (Refuses(r) \/ MayRefuse(r)) /\ Goes(r, "refused")
     \/ /\ ~Refuses(r)
        /\ Goes(r, IF op[r] \in Writes THEN "decided"
                   ELSE IF op[r] = "get" /\ ~Stored THEN "missing" ELSE "done")
  /\ UNCHANGED <<transport, up, limiter, engine, op, via, effects, again, late, answer>>

(* Its transaction, all of it or nothing: the database may refuse a row,   *)
(* and a retry whose row is gone by now raises.                            *)
EngineCommits(r) ==
  /\ pc[r] = "decided"
  /\ \/ Goes(r, "raised") /\ UNCHANGED <<engine, effects>>
     \/ /\ op[r] = "start"
        /\ execution' = "stored" /\ node' = "queued"
        /\ Goes(r, "committed") /\ Commits(r)
     \/ /\ op[r] = "retry" /\ Stored
        /\ node' = "queued" /\ UNCHANGED execution
        /\ Goes(r, "committed") /\ Commits(r)
     \/ /\ op[r] = "delete"
        /\ execution' = "deleted" /\ node' = "queued"
        /\ Goes(r, "done") /\ Commits(r)
  /\ UNCHANGED <<transport, up, limiter, op, via, runs, again, late, answer>>

(* start_execution and retry_node publish after their commit, and then     *)
(* store the message's id: the one raises without Redis, the other may.    *)
EnginePublishes(r) ==
  /\ pc[r] = "committed"
  /\ \/ up /\ Goes(r, "done") /\ UNCHANGED late
     \/ Goes(r, "raised") /\ late' = [late EXCEPT ![r] = TRUE]
  /\ UNCHANGED <<transport, up, limiter, engine, op, via, runs, effects, again, answer>>

(* The answer of the route; of a missing execution the gRPC client knows   *)
(* by NOT_FOUND.                                                           *)
Returns(r) ==
  /\ pc[r] \in {"done", "missing"}
  /\ Answers(r, IF pc[r] = "done" THEN "ok" ELSE "refused")
  /\ UNCHANGED <<transport, up, limiter, engine, op, via, runs, effects, again, late>>

(* Mutant: the route's except clause does not raise again.                 *)
AppErrorSwallowed(r) ==
  /\ pc[r] = "refused"
  /\ Answers(r, "ok")
  /\ UNCHANGED <<transport, up, limiter, engine, op, via, runs, effects, again, late>>

(* In the process, an AppError is answered as it is; the gRPC service      *)
(* turns it into INTERNAL, which the client raises.                        *)
AppErrorRaised(r) ==
  /\ pc[r] = "refused"
  /\ IF transport = "rest"
     THEN Answers(r, "refused")
     ELSE Goes(r, "raised") /\ UNCHANGED answer
  /\ UNCHANGED <<transport, up, limiter, engine, op, via, runs, effects, again, late>>

(* The engine's answer over gRPC is lost on its way back.                  *)
AnswerLost(r) ==
  /\ transport = "grpc" /\ pc[r] = "done" /\ op[r] # "summary"
  /\ late' = [late EXCEPT ![r] = @ \/ op[r] \in Writes]
  /\ Goes(r, "raised")
  /\ UNCHANGED <<transport, up, limiter, engine, op, via, runs, effects, again, answer>>

Forget(r) ==
  /\ pc[r] \in {"answered", "stuck"}
  /\ Goes(r, "idle")
  /\ op' = [op EXCEPT ![r] = "summary"]
  /\ via' = [via EXCEPT ![r] = "none"]
  /\ runs' = [runs EXCEPT ![r] = 0]
  /\ effects' = [effects EXCEPT ![r] = 0]
  /\ again' = [again EXCEPT ![r] = FALSE]
  /\ late' = [late EXCEPT ![r] = FALSE]
  /\ answer' = [answer EXCEPT ![r] = "none"]
  /\ UNCHANGED <<transport, up, limiter, engine>>

-----------------------------------------------------------------------------
(* The surroundings.                                                       *)

(* A worker uses up the node's attempts.                                   *)
DeadLettered ==
  /\ Stored /\ node = "queued"
  /\ node' = "dead"
  /\ again' = [r \in Request |-> again[r] \/ effects[r] > 0]
  /\ UNCHANGED <<transport, up, limiter, execution, pc, op, via, runs, effects, late, answer>>

(* Another client retries the node or deletes the execution.               *)
Meanwhile ==
  /\ Stored
  /\ \/ node = "dead" /\ node' = "queued" /\ UNCHANGED execution
     \/ execution' = "deleted" /\ node' = "queued"
  /\ UNCHANGED <<transport, up, limiter, request>>

(* Redis becomes unreachable, or reachable again with its keys.            *)
Outage ==
  /\ up' = ~up
  /\ UNCHANGED <<transport, limiter, engine, request>>

Tick ==
  /\ ttl' = IF ttl = 0 THEN 0 ELSE ttl - 1
  /\ count' = IF ttl = 1 THEN 0 ELSE count
  /\ stamps' = Older(stamps)
  /\ byRedis' = Older(byRedis) /\ byMemory' = Older(byMemory)
  /\ UNCHANGED <<transport, up, engine, request>>

Middleware(r) ==
  Excluded(r) \/ Count(r) \/ CountFails(r) \/ Fallback(r) \/ HandlerRaised(r)

Handling(r) ==
  EngineReads(r) \/ EngineCommits(r) \/ EnginePublishes(r) \/ Returns(r) \/ AppErrorRaised(r)

Next ==
  \/ \E r \in Request : Send(r) \/ Middleware(r) \/ Handling(r) \/ AnswerLost(r) \/ Forget(r)
  \/ DeadLettered \/ Meanwhile \/ Outage \/ Tick

(* The event loop runs every request on, and the clock goes on.            *)
Spec ==
  /\ Init /\ [][Next]_vars
  /\ WF_vars(Tick)
  /\ \A r \in Request : WF_vars(Middleware(r) \/ Handling(r))

-----------------------------------------------------------------------------
(* Properties.                                                             *)

TypeOK ==
  /\ transport \in {"rest", "grpc"} /\ up \in BOOLEAN
  /\ count \in 0 .. Many /\ ttl \in 0 .. Window /\ (count = 0) = (ttl = 0)
  /\ stamps \in [Age -> 0 .. Many]
  /\ execution \in {"absent", "stored", "deleted"} /\ node \in {"queued", "dead"}
  /\ pc \in [Request -> {"idle", "arrived", "fallback", "handling", "decided", "committed",
                         "done", "missing", "refused", "raised", "stuck", "answered"}]
  /\ op \in [Request -> Operation]
  /\ via \in [Request -> {"none", "redis", "memory"}]
  /\ again \in [Request -> BOOLEAN] /\ late \in [Request -> BOOLEAN]
  /\ answer \in [Request -> {"none", "ok", "refused", "limited", "error"}]

(* Within any window the counter lets at most twice the limit through (a   *)
(* burst at the end of one key's life and one at the start of the next),   *)
(* and the fallback at most the limit, however Redis comes and goes and    *)
(* however often handlers raise (rate_limit.py:24-35, 77-84); the key      *)
(* never outlives the window.  Requests and answers have their types.      *)
AdmissionBound == TypeOK /\ Total(byRedis) <= 2 * Limit /\ Total(byMemory) <= Limit

(* A handler is called at most twice for a request, and twice only when it *)
(* raised within the try; its transaction is committed twice only when the *)
(* node was dead-lettered anew between the two calls (rate_limit.py:95,    *)
(* 115; execution_engine.py:245).                                          *)
EffectOnce ==
  \A r \in Request : runs[r] <= 2 /\ effects[r] <= 1 + (IF again[r] THEN 1 ELSE 0)

(* The answer to a write tells what it did, after one call of the handler  *)
(* or two: one transaction if it says success, none if it says anything    *)
(* else.  Only when a call failed after its commit, at the publication     *)
(* (execution_engine.py:117, 271) or on the way back from the engine, may  *)
(* the answer deny a transaction; and success then means a second one,     *)
(* committed by the call that the limiter repeats (rate_limit.py:95-115).  *)
AnswerTellsEffect ==
  \A r \in Request : (pc[r] = "answered" /\ op[r] \in Writes) =>
    IF late[r]
    THEN effects[r] > 0 /\ (answer[r] = "ok" => effects[r] = 2)
    ELSE effects[r] = (IF answer[r] = "ok" THEN 1 ELSE 0)

(* While Redis is up, a client that is refused again and again is also     *)
(* admitted again and again: refused requests do not prolong the window    *)
(* (nx=True, rate_limit.py:79).                                            *)
KnockingIsHeard ==
  \A r \in Request :
    (<>[]up /\ []<>(pc[r] = "idle") /\ []<>(answer[r] = "limited" /\ via[r] = "redis"))
      => []<>(\E q \in Request : pc[q] = "handling" /\ via[q] = "redis")

(* Every request is answered, but a POST whose handler raised may wait for *)
(* a body that does not come (rate_limit.py:115).                          *)
RequestEnds ==
  \A r \in Request : pc[r] = "arrived" ~> (pc[r] = "answered" \/ (pc[r] = "stuck" /\ op[r] = "start"))

=============================================================================
