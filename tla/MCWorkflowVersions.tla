------------------------- MODULE MCWorkflowVersions -------------------------
(* Two editor pages; two valid contents and one that is refused.           *)
EXTENDS WorkflowVersions
CONSTANTS p1, p2, good, better, bad
=============================================================================
