CONSTANTS
  w1 = w1  w2 = w2  k1 = k1
  Worker <- TwoWorkers
  Name = {"one"}
  NameOf <- SharedName
  Owner = {k1}
  OwnerOf <- Owners
  Process = {"api", "worker"}
  ProcessOf <- Processes
  Job = {j1}
  MaxSpawned = 1
  MaxStarts = 2
  MaxFaults = 1
SPECIFICATION FairSpec
INVARIANTS
  OfflineIsLast
PROPERTIES
  UpIsCounted
  GoneIsNoticed
  MixedRowHeals
CHECK_DEADLOCK FALSE
