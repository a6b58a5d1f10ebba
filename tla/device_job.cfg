SPECIFICATION FairSpec
CONSTANTS
  f1 = f1
  f2 = f2
  p1 = p1
  p2 = p2
  None = None
  Requests <- AllRequests
  Files = {f1, f2}
  Versions <- TwoVersions
  MaxPolls = 1
  MaxJobs = 2
  MaxFaults = 1
CHECK_DEADLOCK FALSE
INVARIANTS
  SuccessMeansApplied
  EveryLineReported
  SessionLeftInUserMode
  TransferredIsEqual
PROPERTY JobEnds
