CONSTANTS
  Id <- ABC
  Definition <- Definitions
  MaxEdges = 4
SPECIFICATION Spec
INVARIANTS
  VerdictIsRight
  AcceptedNodesStart
  OrderIsTopological
CHECK_DEADLOCK FALSE
