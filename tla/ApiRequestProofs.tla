-------------------------- MODULE ApiRequestProofs --------------------------
(***************************************************************************)
(* What a client may conclude from an answer of the executions API, for    *)
(* any number of connections, any limit and any window: how often its      *)
(* request has taken effect, and what the answer says about it.            *)
(***************************************************************************)
EXTENDS ApiRequest, TLAPS

Types == TypeOK /\ runs \in [Request -> Nat] /\ effects \in [Request -> Nat]

(* Where a request is once its handler has been called.                    *)
Called == {"decided", "committed", "done", "missing", "refused", "raised"}

(* The handler is called a second time only by the fallback.               *)
CallsCounted(r) ==
  /\ pc[r] \in {"idle", "arrived"} => runs[r] = 0
  /\ pc[r] \in {"fallback", "handling"} => runs[r] <= 1
  /\ pc[r] \in Called => runs[r] \in {1, 2}
  /\ runs[r] <= 2
  /\ pc[r] = "handling" /\ runs[r] = 1 => via[r] = "memory" /\ op[r] # "start"
  /\ pc[r] \in Called /\ runs[r] = 2 => via[r] = "memory" /\ op[r] # "start"
  /\ pc[r] \in Called \cup {"handling"} /\ op[r] # "summary" => via[r] # "none"

(* What the place of a request says about its transactions.                *)
EffectsCounted(r) ==
  /\ op[r] \notin Writes \/ runs[r] = 0 => effects[r] = 0
  /\ pc[r] \in {"decided", "refused"} /\ runs[r] = 1 => effects[r] = 0
  /\ pc[r] = "committed" \/ (pc[r] = "done" /\ op[r] \in Writes) => effects[r] > 0
  /\ effects[r] <= runs[r]
  /\ pc[r] = "decided" => effects[r] < runs[r] /\ op[r] \in Writes
  /\ pc[r] = "missing" => op[r] = "get"

(* A second transaction needs a node that was dead-lettered after the      *)
(* first one.                                                              *)
RepeatsExcused(r) ==
  /\ op[r] = "retry" /\ effects[r] > 0 /\ ~again[r] => node = "queued"
  /\ op[r] = "delete" /\ effects[r] > 0 => execution = "deleted"
  /\ pc[r] = "decided" /\ effects[r] > 0 => again[r]
  /\ effects[r] <= 1 + (IF again[r] THEN 1 ELSE 0)

(* Before its start has been committed there is no execution.              *)
StartsFirst(r) ==
  /\ op[r] = "start" /\ effects[r] = 0 => execution = "absent"
  /\ pc[r] = "decided" /\ op[r] \in {"retry", "delete"} => execution # "absent"

(* Without a late failure a request has committed only where it is about   *)
(* to say so; after one, only a second transaction is answered as success. *)
AnswersTrue(r) ==
  /\ late[r] => effects[r] > 0
  /\ pc[r] \notin {"committed", "done", "answered"} /\ ~late[r] => effects[r] = 0
  /\ pc[r] \in {"committed", "done"} /\ op[r] \in Writes =>
       effects[r] = (IF late[r] THEN 2 ELSE 1)
  /\ pc[r] = "answered" /\ op[r] \in Writes =>
       IF late[r]
       THEN effects[r] > 0 /\ (answer[r] = "ok" => effects[r] = 2)
       ELSE effects[r] = (IF answer[r] = "ok" THEN 1 ELSE 0)

Own(r) ==
  /\ CallsCounted(r) /\ EffectsCounted(r) /\ RepeatsExcused(r)
  /\ StartsFirst(r) /\ AnswersTrue(r)

OneStart == \A q, r \in Request : op[q] = "start" /\ op[r] = "start" => q = r

IndInv == Types /\ OneStart /\ \A r \in Request : Own(r)

LEMMA Consequences == IndInv => EffectOnce /\ AnswerTellsEffect
BY Zenon DEF IndInv, Own, CallsCounted, RepeatsExcused, AnswersTrue,
       EffectOnce, AnswerTellsEffect

-----------------------------------------------------------------------------
(* The types.                                                              *)

LEMMA AgeFacts == 0 \in Age /\ Window \in Nat \ {0} /\ Limit \in Nat \ {0} /\ Many \in Nat \ {0}
BY LimitAssumption DEF Age, Many

LEMMA InitInd == Init => IndInv
<1> SUFFICES ASSUME Init PROVE IndInv
  BY Zenon
<1>1. stamps \in [Age -> 0 .. Many]
  BY AgeFacts DEF Init, None
<1>2. Types
  BY <1>1, AgeFacts DEF Init, Types, TypeOK, Operation
<1>3. OneStart /\ \A r \in Request : Own(r)
  BY DEF Init, OneStart, Own, CallsCounted, EffectsCounted, RepeatsExcused, StartsFirst,
         AnswersTrue, Writes, Called, Stored
<1> QED
  BY <1>2, <1>3, Zenon DEF IndInv

(* The part of the types that the limiter alone writes.                    *)
LEMMA LimiterTypes ==
  ASSUME IndInv,
         \/ UNCHANGED <<count, ttl, stamps>>
         \/ \E r \in Request : Count(r) \/ Fallback(r)
         \/ Tick
  PROVE  /\ count' \in 0 .. Many /\ ttl' \in 0 .. Window /\ (count' = 0) = (ttl' = 0)
         /\ stamps' \in [Age -> 0 .. Many]
<1> USE AgeFacts DEF IndInv, Types, TypeOK
<1>1. CASE UNCHANGED <<count, ttl, stamps>>
  BY <1>1, Zenon
<1>2. ASSUME NEW r \in Request, Count(r)
      PROVE  /\ count' \in 0 .. Many /\ ttl' \in 0 .. Window /\ (count' = 0) = (ttl' = 0)
             /\ stamps' \in [Age -> 0 .. Many]
  <2>1. count' \in 1 .. Many
    BY <1>2 DEF Count, AtMostMany
  <2>2. ttl' \in 1 .. Window
    BY <1>2 DEF Count
  <2>3. stamps' = stamps
    BY <1>2, Zenon DEF Count
  <2> QED
    BY <2>1, <2>2, <2>3
<1>3. ASSUME NEW r \in Request, Fallback(r)
      PROVE  /\ count' \in 0 .. Many /\ ttl' \in 0 .. Window /\ (count' = 0) = (ttl' = 0)
             /\ stamps' \in [Age -> 0 .. Many]
  <2>1. AtMostMany(stamps[0] + 1) \in 0 .. Many
    BY DEF AtMostMany
  <2>2. stamps' = [stamps EXCEPT ![0] = AtMostMany(stamps[0] + 1)] /\ UNCHANGED <<count, ttl>>
    BY <1>3, Zenon DEF Fallback
  <2> QED
    BY <2>1, <2>2, Zenon
<1>4. CASE Tick
  <2>1. ttl' \in 0 .. Window /\ count' \in 0 .. Many /\ (count' = 0) = (ttl' = 0)
    BY <1>4 DEF Tick
  <2>2. \A a \in Age : a # 0 => a - 1 \in Age
    BY DEF Age
  <2>3. stamps' \in [Age -> 0 .. Many]
    BY <1>4, <2>2 DEF Tick, Older
  <2> QED
    BY <2>1, <2>3, Zenon
<1> QED
  BY <1>1, <1>2, <1>3, <1>4, Zenon

-----------------------------------------------------------------------------
(* The requests.                                                           *)

(* What others do to the engine spoils nothing a request relies on: the    *)
(* node is queued, the execution is deleted, or it is created once.        *)
LEMMA OthersStay ==
  ASSUME IndInv, NEW q \in Request, transport' = transport, node' \in {node, "queued"},
         \/ execution' = execution
         \/ execution' = "deleted" /\ execution # "absent"
         \/ execution = "absent" /\ execution' = "stored" /\ op[q] # "start",
         pc'[q] = pc[q], op'[q] = op[q], via'[q] = via[q], runs'[q] = runs[q],
         effects'[q] = effects[q], again'[q] = again[q], answer'[q] = answer[q], late'[q] = late[q]
  PROVE  Own(q)'
<1>1. Own(q)
  BY Zenon DEF IndInv
<1>2. CallsCounted(q)' /\ EffectsCounted(q)' /\ AnswersTrue(q)'
  BY <1>1 DEF Own, CallsCounted, EffectsCounted, AnswersTrue
<1>3. RepeatsExcused(q)'
  BY <1>1, Zenon DEF Own, RepeatsExcused
<1>4. StartsFirst(q)'
  BY <1>1, Zenon DEF Own, StartsFirst
<1> QED
  BY <1>2, <1>3, <1>4, Zenon DEF Own


(* Steps of one request that commit nothing.                               *)
LEMMA MoveStep ==
  ASSUME IndInv, NEW r \in Request, Types', UNCHANGED <<transport, engine, op, effects, again>>,
         \A q \in Request \ {r} : /\ pc'[q] = pc[q] /\ via'[q] = via[q] /\ runs'[q] = runs[q]
                                  /\ answer'[q] = answer[q] /\ late'[q] = late[q],
         Own(r)'
  PROVE  IndInv'
<1>1. UNCHANGED <<execution, node>>
  BY Zenon DEF engine
<1>2. \A q \in Request \ {r} : Own(q)'
  BY <1>1, OthersStay, Zenon
<1>3. OneStart'
  BY Zenon DEF IndInv, OneStart
<1> QED
  BY <1>2, <1>3, Zenon DEF IndInv

(* GET /metrics/summary goes past the limiter.                             *)
LEMMA ExcludedInd ==
  ASSUME IndInv, NEW r \in Request, Excluded(r)
  PROVE  IndInv'
<1> USE DEF Goes, Answers
<1>1. Types'
  BY LimiterTypes, AgeFacts, Zenon DEF Excluded, IndInv, Types, TypeOK, limiter, engine, Stored
<1>2. /\ UNCHANGED <<transport, engine, op, effects, again>>
      /\ \A q \in Request \ {r} : /\ pc'[q] = pc[q] /\ via'[q] = via[q] /\ runs'[q] = runs[q]
                                  /\ answer'[q] = answer[q] /\ late'[q] = late[q]
  BY Zenon DEF Excluded, IndInv, Types, TypeOK
<1>3. pc[r] = "arrived" /\ op[r] = "summary" /\ pc'[r] = "handling"
  BY Zenon DEF Excluded, IndInv, Types, TypeOK
<1>4. via'[r] = via[r] /\ runs'[r] = runs[r] /\ answer'[r] = answer[r] /\ late'[r] = late[r]
  BY Zenon DEF Excluded, IndInv, Types, TypeOK
<1>5. Own(r)'
  <2>1. /\ Own(r) /\ runs[r] \in Nat /\ effects[r] \in Nat /\ via[r] \in {"none", "redis", "memory"}
        /\ late[r] \in BOOLEAN /\ execution' = execution /\ node' = node /\ op'[r] = op[r]
        /\ effects'[r] = effects[r] /\ again'[r] = again[r]
    BY <1>2, Zenon DEF IndInv, Types, TypeOK, engine
  <2>2. CallsCounted(r)' /\ EffectsCounted(r)'
    <3>1. runs[r] = 0 /\ effects[r] = 0
      BY <1>3, <2>1, Zenon DEF Own, CallsCounted, EffectsCounted
    <3> QED
      BY <1>3, <1>4, <2>1, <3>1 DEF CallsCounted, EffectsCounted, Called, Writes
  <2>3. RepeatsExcused(r)' /\ StartsFirst(r)'
    BY <1>3, <2>1, Zenon DEF Own, RepeatsExcused, StartsFirst
  <2>5. AnswersTrue(r)'
    BY <1>3, <1>4, <2>1, Zenon DEF Own, AnswersTrue, CallsCounted, EffectsCounted, Called, Writes
  <2> QED
    BY <2>2, <2>3, <2>5, Zenon DEF Own
<1> QED
  BY <1>1, <1>2, <1>5, MoveStep, Zenon

(* INCR admits a request or refuses it; no handler has been called.        *)
LEMMA CountInd ==
  ASSUME IndInv, NEW r \in Request, Count(r)
  PROVE  IndInv'
<1> USE DEF Goes, Answers
<1>1. Types'
  BY LimiterTypes, AgeFacts, Zenon DEF Count, Decide, IndInv, Types, TypeOK, limiter, engine, Stored
<1>2. /\ UNCHANGED <<transport, engine, op, effects, again>>
      /\ \A q \in Request \ {r} : /\ pc'[q] = pc[q] /\ via'[q] = via[q] /\ runs'[q] = runs[q]
                                  /\ answer'[q] = answer[q] /\ late'[q] = late[q]
  BY Zenon DEF Count, Decide, IndInv, Types, TypeOK
<1>3. /\ pc[r] = "arrived" /\ op[r] # "summary" /\ via'[r] = "redis"
      /\ \/ pc'[r] = "answered" /\ answer'[r] = "limited"
         \/ pc'[r] = "handling" /\ answer'[r] = answer[r]
  BY Zenon DEF Count, Decide, IndInv, Types, TypeOK
<1>4. runs'[r] = runs[r] /\ late'[r] = late[r]
  BY Zenon DEF Count, Decide, IndInv, Types, TypeOK
<1>5. Own(r)'
  <2>1. /\ Own(r) /\ runs[r] \in Nat /\ effects[r] \in Nat /\ via[r] \in {"none", "redis", "memory"}
        /\ late[r] \in BOOLEAN /\ execution' = execution /\ node' = node /\ op'[r] = op[r]
        /\ effects'[r] = effects[r] /\ again'[r] = again[r]
    BY <1>2, Zenon DEF IndInv, Types, TypeOK, engine
  <2>2. CallsCounted(r)' /\ EffectsCounted(r)'
    <3>1. runs[r] = 0 /\ effects[r] = 0
      BY <1>3, <2>1, Zenon DEF Own, CallsCounted, EffectsCounted
    <3> QED
      BY <1>3, <1>4, <2>1, <3>1 DEF CallsCounted, EffectsCounted, Called, Writes
  <2>3. RepeatsExcused(r)' /\ StartsFirst(r)'
    BY <1>3, <2>1, Zenon DEF Own, RepeatsExcused, StartsFirst
  <2>5. AnswersTrue(r)'
    BY <1>3, <1>4, <2>1, Zenon DEF Own, AnswersTrue, CallsCounted, EffectsCounted, Called, Writes
  <2> QED
    BY <2>2, <2>3, <2>5, Zenon DEF Own
<1> QED
  BY <1>1, <1>2, <1>5, MoveStep, Zenon

(* The pipeline raises before any handler is called.                       *)
LEMMA CountFailsInd ==
  ASSUME IndInv, NEW r \in Request, CountFails(r)
  PROVE  IndInv'
<1> USE DEF Goes, Answers
<1>1. Types'
  BY LimiterTypes, AgeFacts, Zenon DEF CountFails, IndInv, Types, TypeOK, limiter, engine, Stored
<1>2. /\ UNCHANGED <<transport, engine, op, effects, again>>
      /\ \A q \in Request \ {r} : /\ pc'[q] = pc[q] /\ via'[q] = via[q] /\ runs'[q] = runs[q]
                                  /\ answer'[q] = answer[q] /\ late'[q] = late[q]
  BY Zenon DEF CountFails, IndInv, Types, TypeOK
<1>3. pc[r] = "arrived" /\ pc'[r] = "fallback"
  BY Zenon DEF CountFails, IndInv, Types, TypeOK
<1>4. via'[r] = via[r] /\ runs'[r] = runs[r] /\ answer'[r] = answer[r] /\ late'[r] = late[r]
  BY Zenon DEF CountFails, IndInv, Types, TypeOK
<1>5. Own(r)'
  <2>1. /\ Own(r) /\ runs[r] \in Nat /\ effects[r] \in Nat /\ via[r] \in {"none", "redis", "memory"}
        /\ late[r] \in BOOLEAN /\ execution' = execution /\ node' = node /\ op'[r] = op[r]
        /\ effects'[r] = effects[r] /\ again'[r] = again[r]
    BY <1>2, Zenon DEF IndInv, Types, TypeOK, engine
  <2>2. CallsCounted(r)' /\ EffectsCounted(r)'
    <3>1. runs[r] = 0 /\ effects[r] = 0
      BY <1>3, <2>1, Zenon DEF Own, CallsCounted, EffectsCounted
    <3> QED
      BY <1>3, <1>4, <2>1, <3>1 DEF CallsCounted, EffectsCounted, Called, Writes
  <2>3. RepeatsExcused(r)' /\ StartsFirst(r)'
    BY <1>3, <2>1, Zenon DEF Own, RepeatsExcused, StartsFirst
  <2>5. AnswersTrue(r)'
    BY <1>3, <1>4, <2>1, Zenon DEF Own, AnswersTrue, CallsCounted, EffectsCounted, Called, Writes
  <2> QED
    BY <2>2, <2>3, <2>5, Zenon DEF Own
<1> QED
  BY <1>1, <1>2, <1>5, MoveStep, Zenon

(* The fallback admits a request to its first or its second call.          *)
LEMMA FallbackInd ==
  ASSUME IndInv, NEW r \in Request, Fallback(r)
  PROVE  IndInv'
<1> USE DEF Goes, Answers
<1>1. Types'
  <2>1. /\ UNCHANGED <<transport, up, execution, node, op, runs, effects, again, late>>
        /\ via' = [via EXCEPT ![r] = "memory"]
        /\ \E to \in {"answered", "stuck", "handling"} : pc' = [pc EXCEPT ![r] = to]
        /\ answer' = answer \/ answer' = [answer EXCEPT ![r] = "limited"]
    BY Zenon DEF Fallback, engine
  <2>2. /\ count' \in 0 .. Many /\ ttl' \in 0 .. Window /\ (count' = 0) = (ttl' = 0)
        /\ stamps' \in [Age -> 0 .. Many]
    BY LimiterTypes, Zenon
  <2>3. pc' \in [Request -> {"idle", "arrived", "fallback", "handling", "decided", "committed",
                           "done", "missing", "refused", "raised", "stuck", "answered"}]
    BY <2>1, Zenon DEF IndInv, Types, TypeOK
  <2>4. via' \in [Request -> {"none", "redis", "memory"}]
    BY <2>1, Zenon DEF IndInv, Types, TypeOK
  <2>5. answer' \in [Request -> {"none", "ok", "refused", "limited", "error"}]
    BY <2>1, Zenon DEF IndInv, Types, TypeOK
  <2> QED
    BY <2>1, <2>2, <2>3, <2>4, <2>5, Zenon DEF IndInv, Types, TypeOK
<1>2. /\ UNCHANGED <<transport, engine, op, effects, again>>
      /\ \A q \in Request \ {r} : /\ pc'[q] = pc[q] /\ via'[q] = via[q] /\ runs'[q] = runs[q]
                                  /\ answer'[q] = answer[q] /\ late'[q] = late[q]
  BY Zenon DEF Fallback, IndInv, Types, TypeOK
<1>3. /\ pc[r] = "fallback" /\ via'[r] = "memory"
      /\ \/ pc'[r] = "answered" /\ answer'[r] = "limited"
         \/ /\ pc'[r] = IF runs[r] > 0 /\ op[r] = "start" THEN "stuck" ELSE "handling"
            /\ answer'[r] = answer[r]
  BY Zenon DEF Fallback, IndInv, Types, TypeOK
<1>4. runs'[r] = runs[r] /\ late'[r] = late[r]
  BY Zenon DEF Fallback, IndInv, Types, TypeOK
<1>5. Own(r)'
  <2>1. /\ Own(r) /\ runs[r] \in Nat /\ effects[r] \in Nat /\ via[r] \in {"none", "redis", "memory"}
        /\ late[r] \in BOOLEAN /\ execution' = execution /\ node' = node /\ op'[r] = op[r]
        /\ effects'[r] = effects[r] /\ again'[r] = again[r]
    BY <1>2, Zenon DEF IndInv, Types, TypeOK, engine
  <2>2. CallsCounted(r)' /\ EffectsCounted(r)'
    BY <1>3, <1>4, <2>1 DEF Own, CallsCounted, EffectsCounted, Called, Writes
  <2>3. RepeatsExcused(r)' /\ StartsFirst(r)'
    BY <1>3, <2>1, Zenon DEF Own, RepeatsExcused, StartsFirst
  <2>5. AnswersTrue(r)'
    BY <1>3, <1>4, <2>1, Zenon DEF Own, AnswersTrue, CallsCounted, EffectsCounted, Called, Writes
  <2> QED
    BY <2>2, <2>3, <2>5, Zenon DEF Own
<1> QED
  BY <1>1, <1>2, <1>5, MoveStep, Zenon

(* An exception of the first call goes to the fallback, any other one to   *)
(* the client.                                                             *)
LEMMA HandlerRaisedInd ==
  ASSUME IndInv, NEW r \in Request, HandlerRaised(r)
  PROVE  IndInv'
<1> USE DEF Goes, Answers
<1>1. Types'
  BY LimiterTypes, AgeFacts, Zenon DEF HandlerRaised, IndInv, Types, TypeOK, limiter, engine, Stored
<1>2. /\ UNCHANGED <<transport, engine, op, effects, again>>
      /\ \A q \in Request \ {r} : /\ pc'[q] = pc[q] /\ via'[q] = via[q] /\ runs'[q] = runs[q]
                                  /\ answer'[q] = answer[q] /\ late'[q] = late[q]
  BY Zenon DEF HandlerRaised, IndInv, Types, TypeOK
<1>3. /\ pc[r] = "raised"
      /\ \/ via[r] = "redis" /\ pc'[r] = "fallback" /\ answer'[r] = answer[r]
         \/ via[r] # "redis" /\ pc'[r] = "answered" /\ answer'[r] = "error"
  BY Zenon DEF HandlerRaised, IndInv, Types, TypeOK
<1>4. via'[r] = via[r] /\ runs'[r] = runs[r] /\ late'[r] = late[r]
  BY Zenon DEF HandlerRaised, IndInv, Types, TypeOK
<1>5. Own(r)'
  <2>1. /\ Own(r) /\ runs[r] \in Nat /\ effects[r] \in Nat /\ via[r] \in {"none", "redis", "memory"}
        /\ late[r] \in BOOLEAN /\ execution' = execution /\ node' = node /\ op'[r] = op[r]
        /\ effects'[r] = effects[r] /\ again'[r] = again[r]
    BY <1>2, Zenon DEF IndInv, Types, TypeOK, engine
  <2>2. CallsCounted(r)' /\ EffectsCounted(r)'
    BY <1>3, <1>4, <2>1 DEF Own, CallsCounted, EffectsCounted, Called, Writes
  <2>3. RepeatsExcused(r)' /\ StartsFirst(r)'
    BY <1>3, <2>1, Zenon DEF Own, RepeatsExcused, StartsFirst
  <2>5. AnswersTrue(r)'
    BY <1>3, <1>4, <2>1, Zenon DEF Own, AnswersTrue, CallsCounted, EffectsCounted, Called, Writes
  <2> QED
    BY <2>2, <2>3, <2>5, Zenon DEF Own
<1> QED
  BY <1>1, <1>2, <1>5, MoveStep, Zenon

(* The engine reads and decides.                                           *)
LEMMA EngineReadsInd ==
  ASSUME IndInv, NEW r \in Request, EngineReads(r)
  PROVE  IndInv'
<1> USE DEF Goes, Answers
<1>1. Types'
  BY LimiterTypes, AgeFacts DEF EngineReads, IndInv, Types, TypeOK, limiter, engine, Stored
<1>2. /\ UNCHANGED <<transport, engine, op, effects, again>>
      /\ \A q \in Request \ {r} : /\ pc'[q] = pc[q] /\ via'[q] = via[q] /\ runs'[q] = runs[q]
                                  /\ answer'[q] = answer[q] /\ late'[q] = late[q]
  BY Zenon DEF EngineReads, IndInv, Types, TypeOK
<1>3. /\ pc[r] = "handling" /\ runs'[r] = runs[r] + 1
      /\ \/ pc'[r] = "raised"
         \/ pc'[r] = "refused" /\ (Refuses(r) \/ MayRefuse(r))
         \/ /\ ~Refuses(r)
            /\ pc'[r] = IF op[r] \in Writes THEN "decided"
                        ELSE IF op[r] = "get" /\ ~Stored THEN "missing" ELSE "done"
  BY Zenon DEF EngineReads, IndInv, Types, TypeOK
<1>4. via'[r] = via[r] /\ answer'[r] = answer[r] /\ late'[r] = late[r]
  BY Zenon DEF EngineReads, IndInv, Types, TypeOK
<1>5. Own(r)'
  <2>1. /\ Own(r) /\ runs[r] \in Nat /\ effects[r] \in Nat /\ via[r] \in {"none", "redis", "memory"}
        /\ late[r] \in BOOLEAN /\ execution' = execution /\ node' = node /\ op'[r] = op[r]
        /\ effects'[r] = effects[r] /\ again'[r] = again[r]
    BY <1>2, Zenon DEF IndInv, Types, TypeOK, engine
  <2>2. CallsCounted(r)' /\ EffectsCounted(r)'
    BY <1>3, <1>4, <2>1 DEF Own, CallsCounted, EffectsCounted, Called, Writes, Refuses, MayRefuse
  <2>3. RepeatsExcused(r)' /\ StartsFirst(r)'
    BY <1>3, <1>4, <2>1 DEF Own, RepeatsExcused, StartsFirst, CallsCounted, EffectsCounted, Called,
       Writes, Refuses, Stored
  <2>5. AnswersTrue(r)'
    BY <1>3, <1>4, <2>1, Zenon DEF Own, AnswersTrue, CallsCounted, EffectsCounted, Called, Writes
  <2> QED
    BY <2>2, <2>3, <2>5, Zenon DEF Own
<1> QED
  BY <1>1, <1>2, <1>5, MoveStep, Zenon

(* The publish succeeds or raises, after the commit.                       *)
LEMMA EnginePublishesInd ==
  ASSUME IndInv, NEW r \in Request, EnginePublishes(r)
  PROVE  IndInv'
<1> USE DEF Goes, Answers
<1>1. Types'
  BY LimiterTypes, AgeFacts, Zenon DEF EnginePublishes, IndInv, Types, TypeOK, limiter, engine, Stored
<1>2. /\ UNCHANGED <<transport, engine, op, effects, again>>
      /\ \A q \in Request \ {r} : /\ pc'[q] = pc[q] /\ via'[q] = via[q] /\ runs'[q] = runs[q]
                                  /\ answer'[q] = answer[q] /\ late'[q] = late[q]
  BY Zenon DEF EnginePublishes, IndInv, Types, TypeOK
<1>3. /\ pc[r] = "committed"
      /\ \/ pc'[r] = "done" /\ late'[r] = late[r]
         \/ pc'[r] = "raised" /\ late'[r] = TRUE
  BY Zenon DEF EnginePublishes, IndInv, Types, TypeOK
<1>4. via'[r] = via[r] /\ runs'[r] = runs[r] /\ answer'[r] = answer[r]
  BY Zenon DEF EnginePublishes, IndInv, Types, TypeOK
<1>5. Own(r)'
  <2>1. /\ Own(r) /\ runs[r] \in Nat /\ effects[r] \in Nat /\ via[r] \in {"none", "redis", "memory"}
        /\ late[r] \in BOOLEAN /\ execution' = execution /\ node' = node /\ op'[r] = op[r]
        /\ effects'[r] = effects[r] /\ again'[r] = again[r]
    BY <1>2, Zenon DEF IndInv, Types, TypeOK, engine
  <2>2. CallsCounted(r)' /\ EffectsCounted(r)'
    BY <1>3, <1>4, <2>1, Zenon DEF Own, CallsCounted, EffectsCounted, Called, Writes
  <2>3. RepeatsExcused(r)' /\ StartsFirst(r)'
    BY <1>3, <2>1, Zenon DEF Own, RepeatsExcused, StartsFirst
  <2>5. AnswersTrue(r)'
    BY <1>3, <1>4, <2>1, Zenon DEF Own, AnswersTrue, CallsCounted, EffectsCounted, Called, Writes
  <2> QED
    BY <2>2, <2>3, <2>5, Zenon DEF Own
<1> QED
  BY <1>1, <1>2, <1>5, MoveStep, Zenon

(* The route answers.                                                      *)
LEMMA ReturnsInd ==
  ASSUME IndInv, NEW r \in Request, Returns(r)
  PROVE  IndInv'
<1> USE DEF Goes, Answers
<1>1. Types'
  BY LimiterTypes, AgeFacts, Zenon DEF Returns, IndInv, Types, TypeOK, limiter, engine, Stored
<1>2. /\ UNCHANGED <<transport, engine, op, effects, again>>
      /\ \A q \in Request \ {r} : /\ pc'[q] = pc[q] /\ via'[q] = via[q] /\ runs'[q] = runs[q]
                                  /\ answer'[q] = answer[q] /\ late'[q] = late[q]
  BY Zenon DEF Returns, IndInv, Types, TypeOK
<1>3. /\ pc[r] \in {"done", "missing"} /\ pc'[r] = "answered"
      /\ answer'[r] = IF pc[r] = "done" THEN "ok" ELSE "refused"
  BY Zenon DEF Returns, IndInv, Types, TypeOK
<1>4. via'[r] = via[r] /\ runs'[r] = runs[r] /\ late'[r] = late[r]
  BY Zenon DEF Returns, IndInv, Types, TypeOK
<1>5. Own(r)'
  <2>1. /\ Own(r) /\ runs[r] \in Nat /\ effects[r] \in Nat /\ via[r] \in {"none", "redis", "memory"}
        /\ late[r] \in BOOLEAN /\ execution' = execution /\ node' = node /\ op'[r] = op[r]
        /\ effects'[r] = effects[r] /\ again'[r] = again[r]
    BY <1>2, Zenon DEF IndInv, Types, TypeOK, engine
  <2>2. CallsCounted(r)' /\ EffectsCounted(r)'
    BY <1>3, <1>4, <2>1, Zenon DEF Own, CallsCounted, EffectsCounted, Called, Writes
  <2>3. RepeatsExcused(r)' /\ StartsFirst(r)'
    BY <1>3, <2>1, Zenon DEF Own, RepeatsExcused, StartsFirst
  <2>5. AnswersTrue(r)'
    BY <1>3, <1>4, <2>1, Zenon DEF Own, AnswersTrue, CallsCounted, EffectsCounted, Called, Writes
  <2> QED
    BY <2>2, <2>3, <2>5, Zenon DEF Own
<1> QED
  BY <1>1, <1>2, <1>5, MoveStep, Zenon

(* An AppError is answered, or raised by the gRPC client.                  *)
LEMMA AppErrorRaisedInd ==
  ASSUME IndInv, NEW r \in Request, AppErrorRaised(r)
  PROVE  IndInv'
<1> USE DEF Goes, Answers
<1>1. Types'
  <2>1. /\ UNCHANGED <<transport, up, execution, node, op, via, runs, effects, again, late>>
        /\ \E to \in {"answered", "raised"} : pc' = [pc EXCEPT ![r] = to]
        /\ answer' = answer \/ answer' = [answer EXCEPT ![r] = "refused"]
    BY Zenon DEF AppErrorRaised, engine
  <2>2. /\ count' \in 0 .. Many /\ ttl' \in 0 .. Window /\ (count' = 0) = (ttl' = 0)
        /\ stamps' \in [Age -> 0 .. Many]
    BY LimiterTypes, Zenon DEF AppErrorRaised, limiter
  <2>3. Types
    BY Zenon DEF IndInv
  <2>4. pc' \in [Request -> {"idle", "arrived", "fallback", "handling", "decided", "committed",
                           "done", "missing", "refused", "raised", "stuck", "answered"}]
    BY <2>1, <2>3, Zenon DEF Types, TypeOK
  <2>5. answer' \in [Request -> {"none", "ok", "refused", "limited", "error"}]
    BY <2>1, <2>3, Zenon DEF Types, TypeOK
  <2> QED
    BY <2>1, <2>2, <2>3, <2>4, <2>5, Zenon DEF Types, TypeOK
<1>2. /\ UNCHANGED <<transport, engine, op, effects, again>>
      /\ \A q \in Request \ {r} : /\ pc'[q] = pc[q] /\ via'[q] = via[q] /\ runs'[q] = runs[q]
                                  /\ answer'[q] = answer[q] /\ late'[q] = late[q]
  BY Zenon DEF AppErrorRaised, IndInv, Types, TypeOK
<1>3. /\ pc[r] = "refused"
      /\ \/ pc'[r] = "answered" /\ answer'[r] = "refused"
         \/ pc'[r] = "raised" /\ answer'[r] = answer[r]
  BY Zenon DEF AppErrorRaised, IndInv, Types, TypeOK
<1>4. via'[r] = via[r] /\ runs'[r] = runs[r] /\ late'[r] = late[r]
  BY Zenon DEF AppErrorRaised, IndInv, Types, TypeOK
<1>5. Own(r)'
  <2>1. /\ Own(r) /\ runs[r] \in Nat /\ effects[r] \in Nat /\ via[r] \in {"none", "redis", "memory"}
        /\ late[r] \in BOOLEAN /\ execution' = execution /\ node' = node /\ op'[r] = op[r]
        /\ effects'[r] = effects[r] /\ again'[r] = again[r]
    BY <1>2, Zenon DEF IndInv, Types, TypeOK, engine
  <2>2. CallsCounted(r)' /\ EffectsCounted(r)'
    BY <1>3, <1>4, <2>1, Zenon DEF Own, CallsCounted, EffectsCounted, Called, Writes
  <2>3. RepeatsExcused(r)' /\ StartsFirst(r)'
    BY <1>3, <2>1, Zenon DEF Own, RepeatsExcused, StartsFirst
  <2>5. AnswersTrue(r)'
    BY <1>3, <1>4, <2>1, Zenon DEF Own, AnswersTrue, CallsCounted, EffectsCounted, Called, Writes
  <2> QED
    BY <2>2, <2>3, <2>5, Zenon DEF Own
<1> QED
  BY <1>1, <1>2, <1>5, MoveStep, Zenon

(* The call or its answer is lost.                                         *)
LEMMA AnswerLostInd ==
  ASSUME IndInv, NEW r \in Request, AnswerLost(r)
  PROVE  IndInv'
<1> USE DEF Goes, Answers
<1>1. Types'
  BY LimiterTypes, AgeFacts, Zenon DEF AnswerLost, IndInv, Types, TypeOK, limiter, engine, Stored
<1>2. /\ UNCHANGED <<transport, engine, op, effects, again>>
      /\ \A q \in Request \ {r} : /\ pc'[q] = pc[q] /\ via'[q] = via[q] /\ runs'[q] = runs[q]
                                  /\ answer'[q] = answer[q] /\ late'[q] = late[q]
  BY Zenon DEF AnswerLost, IndInv, Types, TypeOK
<1>3. /\ pc[r] = "done" /\ op[r] # "summary" /\ pc'[r] = "raised"
      /\ late'[r] = (late[r] \/ op[r] \in Writes)
  BY Zenon DEF AnswerLost, IndInv, Types, TypeOK
<1>4. via'[r] = via[r] /\ answer'[r] = answer[r] /\ runs'[r] = runs[r]
  BY Zenon DEF AnswerLost, IndInv, Types, TypeOK
<1>5. Own(r)'
  <2>1. /\ Own(r) /\ runs[r] \in Nat /\ effects[r] \in Nat /\ via[r] \in {"none", "redis", "memory"}
        /\ late[r] \in BOOLEAN /\ execution' = execution /\ node' = node /\ op'[r] = op[r]
        /\ effects'[r] = effects[r] /\ again'[r] = again[r]
    BY <1>2, Zenon DEF IndInv, Types, TypeOK, engine
  <2>2. CallsCounted(r)' /\ EffectsCounted(r)'
    BY <1>3, <1>4, <2>1, Zenon DEF Own, CallsCounted, EffectsCounted, Called, Writes
  <2>3. RepeatsExcused(r)' /\ StartsFirst(r)'
    BY <1>3, <2>1, Zenon DEF Own, RepeatsExcused, StartsFirst
  <2>5. AnswersTrue(r)'
    BY <1>3, <1>4, <2>1, Zenon DEF Own, AnswersTrue, CallsCounted, EffectsCounted, Called, Writes
  <2> QED
    BY <2>2, <2>3, <2>5, Zenon DEF Own
<1> QED
  BY <1>1, <1>2, <1>5, MoveStep, Zenon


(* A new request: a start only if there is neither an execution nor        *)
(* another start.                                                          *)
LEMMA SendInd ==
  ASSUME IndInv, NEW r \in Request, Send(r)
  PROVE  IndInv'
<1>1. PICK o \in Operation :
        /\ o = "start" => execution = "absent" /\ \A q \in Request : op[q] # "start"
        /\ op' = [op EXCEPT ![r] = o]
  BY Zenon DEF Send
<1>2. /\ pc[r] = "idle" /\ pc' = [pc EXCEPT ![r] = "arrived"]
      /\ UNCHANGED <<transport, up, limiter, engine, via, runs, effects, again, answer, late>>
  BY Zenon DEF Send, Goes
<1>3. Types'
  BY <1>1, <1>2, Zenon DEF IndInv, Types, TypeOK, limiter, engine
<1>4. UNCHANGED <<execution, node>>
  BY <1>2, Zenon DEF engine
<1>5. \A q \in Request \ {r} : Own(q)'
  BY <1>1, <1>2, <1>4, OthersStay, Zenon DEF IndInv, Types, TypeOK
<1>6. OneStart'
  BY <1>1, Zenon DEF IndInv, OneStart, Types, TypeOK
<1>7. /\ pc'[r] = "arrived" /\ op'[r] = o /\ runs'[r] = 0 /\ effects'[r] = 0
  BY <1>1, <1>2, Zenon DEF IndInv, Own, CallsCounted, EffectsCounted, Types, TypeOK
<1>8. Own(r)'
  <2>1. CallsCounted(r)' /\ EffectsCounted(r)'
    <3>1. 0 <= 2 /\ 0 <= 0 /\ "arrived" \notin Called \cup {"fallback", "handling", "missing"}
      BY DEF Called
    <3>2. CallsCounted(r)'
      BY <1>7, <3>1, Zenon DEF CallsCounted
    <3>3. EffectsCounted(r)'
      BY <1>7, <3>1, Zenon DEF EffectsCounted
    <3> QED
      BY <3>2, <3>3, Zenon
  <2>2. RepeatsExcused(r)' /\ StartsFirst(r)'
    BY <1>1, <1>4, <1>7 DEF RepeatsExcused, StartsFirst
  <2>3. AnswersTrue(r)'
    <3>1. ~late'[r]
      BY <1>2 DEF IndInv, Own, AnswersTrue, CallsCounted, EffectsCounted
    <3> QED
      BY <1>7, <3>1, Zenon DEF AnswersTrue
  <2> QED
    BY <2>1, <2>2, <2>3, Zenon DEF Own
<1> QED
  BY <1>3, <1>5, <1>6, <1>8, Zenon DEF IndInv

(* The client forgets an answered request, or gives up a stuck one.        *)
LEMMA ForgetInd ==
  ASSUME IndInv, NEW r \in Request, Forget(r)
  PROVE  IndInv'
<1>1. /\ UNCHANGED <<transport, up, limiter, engine, execution, node>>
      /\ pc'[r] = "idle" /\ op'[r] = "summary" /\ runs'[r] = 0 /\ effects'[r] = 0 /\ ~late'[r]
  BY Zenon DEF Forget, Goes, engine, IndInv, Types, TypeOK
<1>2. Types'
  BY Zenon DEF Forget, Goes, IndInv, Types, TypeOK, limiter, engine, Operation
<1>3. \A q \in Request \ {r} : Own(q)'
  BY <1>1, OthersStay, Zenon DEF Forget, Goes, IndInv, Types, TypeOK
<1>4. OneStart'
  BY Zenon DEF Forget, IndInv, OneStart, Types, TypeOK
<1>5. Own(r)'
  <2>1. CallsCounted(r)' /\ EffectsCounted(r)'
    BY <1>1 DEF CallsCounted, EffectsCounted, Called, Writes
  <2>2. RepeatsExcused(r)' /\ StartsFirst(r)'
    BY <1>1 DEF RepeatsExcused, StartsFirst
  <2>3. AnswersTrue(r)'
    BY <1>1, Zenon DEF AnswersTrue
  <2> QED
    BY <2>1, <2>2, <2>3, Zenon DEF Own
<1> QED
  BY <1>2, <1>3, <1>4, <1>5, Zenon DEF IndInv

(* The transaction: a start creates the execution, which did not exist, a  *)
(* retry queues the node, a deletion deletes what did exist.               *)
LEMMA EngineCommitsInd ==
  ASSUME IndInv, NEW r \in Request, EngineCommits(r)
  PROVE  IndInv'
<1>1. /\ pc[r] = "decided" /\ Own(r) /\ runs[r] \in Nat /\ effects[r] \in Nat
      /\ effects[r] < runs[r] /\ runs[r] <= 2
  BY Zenon DEF EngineCommits, IndInv, Own, EffectsCounted, CallsCounted, Types
<1>2. op[r] = "start" => execution = "absent" /\ effects[r] = 0 /\ runs[r] = 1
  BY <1>1, Zenon DEF Own, CallsCounted, EffectsCounted, StartsFirst, Called
<1>3. /\ UNCHANGED <<transport, up, limiter, op, via, runs, again, answer, late>>
      /\ \A q \in Request \ {r} : pc'[q] = pc[q] /\ effects'[q] = effects[q]
  BY Zenon DEF EngineCommits, Goes, Commits, IndInv, Types, TypeOK
<1>4. \/ /\ op[r] = "start" /\ execution' = "stored" /\ node' = "queued"
         /\ pc'[r] = "committed" /\ effects'[r] = effects[r] + 1
      \/ /\ op[r] = "retry" /\ execution' = execution /\ node' = "queued"
         /\ pc'[r] = "committed" /\ effects'[r] = effects[r] + 1
      \/ /\ op[r] = "delete" /\ execution' = "deleted" /\ node' = "queued"
         /\ pc'[r] = "done" /\ effects'[r] = effects[r] + 1
      \/ /\ op[r] \in Writes /\ UNCHANGED <<execution, node>>
         /\ pc'[r] = "raised" /\ effects'[r] = effects[r]
  BY Zenon DEF EngineCommits, Goes, Commits, Own, EffectsCounted, engine, IndInv, Types, TypeOK
<1>5. Types'
  <2>1. execution' \in {"absent", "stored", "deleted"} /\ node' \in {"queued", "dead"}
    BY <1>2, <1>4, Zenon DEF IndInv, Types, TypeOK
  <2>2. effects' \in [Request -> Nat]
    BY <1>1 DEF EngineCommits, Commits, IndInv, Types
  <2> QED
    BY <1>3, <2>1, <2>2, Zenon DEF EngineCommits, Goes, IndInv, Types, TypeOK, limiter
<1>6. \A q \in Request \ {r} : Own(q)'
  <2>1. /\ node' \in {node, "queued"}
        /\ \/ execution' = execution
           \/ execution' = "deleted" /\ execution # "absent"
           \/ execution = "absent" /\ execution' = "stored" /\ op[r] = "start"
    BY <1>1, <1>2, <1>4, Zenon DEF Own, StartsFirst
  <2>2. \A q \in Request \ {r} : op[r] = "start" => op[q] # "start"
    BY Zenon DEF IndInv, OneStart
  <2> QED
    BY <1>3, <2>1, <2>2, OthersStay, Zenon
<1>7. OneStart'
  BY <1>3, Zenon DEF IndInv, OneStart
<1>8. Own(r)'
  <2>1. CallsCounted(r)' /\ EffectsCounted(r)'
    <3>1. CallsCounted(r)'
      BY <1>1, <1>3, <1>4, Zenon DEF Own, CallsCounted, Called
    <3>2. EffectsCounted(r)'
      <4>1. op[r] \in Writes /\ pc'[r] \in {"committed", "done", "raised"}
        BY <1>4, Zenon DEF Writes
      <4>2. effects'[r] = effects[r] + 1 \/ (pc'[r] = "raised" /\ effects'[r] = effects[r])
        BY <1>4, Zenon
      <4>3. /\ runs[r] # 0 /\ effects'[r] <= runs[r]
            /\ pc'[r] \in {"committed", "done"} => effects'[r] > 0
        BY <1>1, <4>1, <4>2
      <4> QED
        BY <1>3, <4>1, <4>3, Zenon DEF EffectsCounted
    <3> QED
      BY <3>1, <3>2, Zenon
  <2>2. RepeatsExcused(r)'
    <3>1. effects[r] > 0 => again[r]
      BY <1>1, Zenon DEF Own, RepeatsExcused
    <3>2. effects'[r] <= 1 + (IF again[r] THEN 1 ELSE 0)
      BY <1>1, <1>4, <3>1
    <3> QED
      BY <1>1, <1>3, <1>4, <3>2, Zenon DEF Own, RepeatsExcused
  <2>3. StartsFirst(r)'
    BY <1>1, <1>2, <1>3, <1>4 DEF Own, StartsFirst
  <2>4. AnswersTrue(r)'
    <3>1. effects[r] = (IF late[r] THEN 1 ELSE 0)
      BY <1>1 DEF Own, AnswersTrue
    <3>2. /\ late'[r] = late[r] /\ op'[r] = op[r]
          /\ \/ pc'[r] = "raised" /\ effects'[r] = effects[r]
             \/ pc'[r] \in {"committed", "done"} /\ effects'[r] = effects[r] + 1
      BY <1>3, <1>4, Zenon
    <3> QED
      BY <1>1, <3>1, <3>2 DEF AnswersTrue
  <2> QED
    BY <2>1, <2>2, <2>3, <2>4, Zenon DEF Own
<1> QED
  BY <1>5, <1>6, <1>7, <1>8, Zenon DEF IndInv

(* The node is dead-lettered: whoever has committed before may do so again.*)
LEMMA DeadLetteredInd ==
  ASSUME IndInv, DeadLettered
  PROVE  IndInv'
<1>1. Types'
  BY Zenon DEF DeadLettered, IndInv, Types, TypeOK, limiter
<1>2. ASSUME NEW r \in Request PROVE Own(r)'
  <2>1. Own(r) /\ again[r] \in BOOLEAN /\ effects[r] \in Nat
    BY Zenon DEF IndInv, Types, TypeOK
  <2>2. /\ UNCHANGED <<transport, execution, pc, op, via, runs, effects, answer, late>>
        /\ again'[r] = (again[r] \/ effects[r] > 0)
    BY Zenon DEF DeadLettered
  <2>3. /\ CallsCounted(r)' /\ EffectsCounted(r)' /\ StartsFirst(r)'
        /\ AnswersTrue(r)'
    <3>1. CallsCounted(r)' /\ EffectsCounted(r)'
      BY <2>1, <2>2, Zenon DEF Own, CallsCounted, EffectsCounted
    <3>2. StartsFirst(r)' /\ AnswersTrue(r)'
      BY <2>1, <2>2, Zenon DEF Own, StartsFirst, AnswersTrue, Stored
    <3> QED
      BY <3>1, <3>2, Zenon
  <2>4. effects[r] > 0 => again'[r]
    BY <2>2, Zenon
  <2>5. again[r] => again'[r]
    BY <2>2, Zenon
  <2>6. effects[r] <= 1 + (IF again'[r] THEN 1 ELSE 0)
    <3>1. effects[r] <= 1 + (IF again[r] THEN 1 ELSE 0)
      BY <2>1, Zenon DEF Own, RepeatsExcused
    <3>2. CASE again[r]
      BY <2>5, <3>1, <3>2, Zenon
    <3>3. CASE ~again[r]
      <4>1. effects[r] <= 1
        BY <3>1, <3>3
      <4> QED
        BY <2>1, <4>1
    <3> QED
      BY <3>2, <3>3, Zenon
  <2>7. RepeatsExcused(r)'
    BY <2>1, <2>2, <2>4, <2>6, Zenon DEF Own, RepeatsExcused
  <2> QED
    BY <2>3, <2>7, Zenon DEF Own
<1>3. OneStart'
  BY Zenon DEF DeadLettered, IndInv, OneStart
<1> QED
  BY <1>1, <1>2, <1>3, Zenon DEF IndInv

(* Other clients, Redis and the clock touch no request.                    *)
LEMMA SurroundingsInd ==
  ASSUME IndInv, Meanwhile \/ Outage \/ Tick \/ UNCHANGED vars
  PROVE  IndInv'
<1>1. /\ UNCHANGED <<transport, request>> /\ node' \in {node, "queued"}
      /\ execution' = execution \/ (execution' = "deleted" /\ execution # "absent")
  BY Zenon DEF Meanwhile, Outage, Tick, vars, engine, Stored
<1>2. UNCHANGED <<pc, op, via, runs, effects, again, answer, late>>
  BY <1>1, Zenon DEF request
<1>3. UNCHANGED <<count, ttl, stamps>> \/ Tick
  BY Zenon DEF Meanwhile, Outage, vars, limiter
<1>4. up' \in BOOLEAN
  BY Zenon DEF Meanwhile, Outage, Tick, vars, IndInv, Types, TypeOK
<1>5. Types'
  BY <1>1, <1>2, <1>3, <1>4, LimiterTypes, Zenon DEF IndInv, Types, TypeOK
<1>6. \A q \in Request : Own(q)'
  BY <1>1, <1>2, OthersStay, Zenon
<1>7. OneStart'
  BY <1>2, Zenon DEF IndInv, OneStart
<1> QED
  BY <1>5, <1>6, <1>7, Zenon DEF IndInv

LEMMA NextInd == IndInv /\ [Next]_vars => IndInv'
BY SendInd, ExcludedInd, CountInd, CountFailsInd, FallbackInd, HandlerRaisedInd, EngineReadsInd,
   EngineCommitsInd, EnginePublishesInd, ReturnsInd, AppErrorRaisedInd, AnswerLostInd, ForgetInd,
   DeadLetteredInd, SurroundingsInd, Zenon
DEF Next, Middleware, Handling

-----------------------------------------------------------------------------
(* The types and the strengthening hold in every reachable state.          *)
THEOREM Inductive == Spec => []IndInv
BY InitInd, NextInd, PTL DEF Spec

(* However Redis, the engine and the network fail, the handler of a        *)
(* request is called at most twice, and its transaction is committed a     *)
(* second time only if the node was dead-lettered anew in between.         *)
THEOREM EffectsOnce == Spec => []EffectOnce
BY Inductive, Consequences, PTL

(* The answer to a write, after one call of the handler or two, says       *)
(* whether its transaction was committed, unless a call failed after the   *)
(* commit; then success stands for a second transaction.                   *)
THEOREM AnswersTellEffects == Spec => []AnswerTellsEffect
BY Inductive, Consequences, PTL

=============================================================================
