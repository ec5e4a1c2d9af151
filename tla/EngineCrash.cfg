CONSTANTS
  w1 = w1  w2 = w2  r1 = r1  r2 = r2
  Node <- JoinNode  Edge <- JoinEdge
  Condition <- NoCondition  TruePath <- NoPath  FalsePath <- NoPath
  MaxAttempts <- AttemptsC
  Worker = {w1, w2}  PollCount = 1  ClaimBatch = 1  Request = {r1}
  MaxRetries = 0  MaxFaults = 2  FaultInPublish <- Nobody  MaxSlow = 0  MayDelete = FALSE
SPECIFICATION FairSpec
INVARIANTS
  NoJobDropped
  AttemptsBounded
PROPERTIES
  ExecutionEnds
CHECK_DEADLOCK FALSE
