CONSTANTS
  w1 = w1  w2 = w2  r1 = r1  r2 = r2
  Node <- JoinedNode  Edge <- JoinedEdge
  Condition <- BranchCondition  TruePath <- BranchTrue  FalsePath <- BranchFalse
  MaxAttempts <- Attempts1
  Worker = {w1, w2}  PollCount = 1  ClaimBatch = 10  Request = {r1}
  MaxRetries = 0  MaxFaults = 0  FaultInPublish <- Nobody  MaxSlow = 1  MayDelete = TRUE
SPECIFICATION Spec
INVARIANTS
  IndInv
  UpstreamOutputsAvailable
  FinishedIsFinal
PROPERTIES
  ImplementsWorkflowRun
SYMMETRY WorkerSymmetry
CHECK_DEADLOCK FALSE
