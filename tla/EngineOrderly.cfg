CONSTANTS
  w1 = w1  w2 = w2  r1 = r1  r2 = r2
  Node <- ForkNode  Edge <- ForkEdge
  Condition <- NoCondition  TruePath <- NoPath  FalsePath <- NoPath
  MaxAttempts <- Attempts1
  Worker = {w1, w2}  PollCount = 2  ClaimBatch = 10  Request = {r1}
  MaxRetries = 1  MaxFaults = 0  FaultInPublish <- Nobody  MaxSlow = 0  MayDelete = TRUE
SPECIFICATION Spec
INVARIANTS
  OneRunnerPerNode
PROPERTIES
  TerminalOnlyRetried
  OutcomeOnlyHealed
SYMMETRY WorkerSymmetry
CHECK_DEADLOCK FALSE
