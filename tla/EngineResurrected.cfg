CONSTANTS
  w1 = w1  w2 = w2  r1 = r1  r2 = r2
  Node <- ChainNode  Edge <- ChainEdge
  Condition <- NoCondition  TruePath <- NoPath  FalsePath <- NoPath
  MaxAttempts <- Attempts2
  Worker = {w1, w2}  PollCount = 1  ClaimBatch = 10  Request = {r1}
  MaxRetries = 0  MaxFaults = 1  FaultInPublish <- Nobody  MaxSlow = 0  MayDelete = FALSE
SPECIFICATION Spec
PROPERTIES
  TerminalOnlyRetried
SYMMETRY WorkerSymmetry
CHECK_DEADLOCK FALSE
