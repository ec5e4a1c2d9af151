CONSTANTS
  w1 = w1  w2 = w2  r1 = r1  r2 = r2
  Node <- SingleNode  Edge <- NoEdge
  Condition <- NoCondition  TruePath <- NoPath  FalsePath <- NoPath
  MaxAttempts <- Attempts1  Type <- Webhook
  Worker = {w1, w2}  PollCount = 1  ClaimBatch = 10  Request = {r1, r2}
  MaxRetries = 2  MaxFaults = 1  FaultInPublish <- Anyone  MaxSlow = 0  MayDelete = TRUE
SPECIFICATION SpecCalls
INVARIANTS
  DeadLetterJustified
  AttemptsBounded
  OutputIsAnswered
  EffectsBounded
SYMMETRY WorkerSymmetry
CHECK_DEADLOCK FALSE
