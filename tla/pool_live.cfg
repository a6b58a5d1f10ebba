SPECIFICATION FairSpec
CONSTANTS
  n1 = n1
  n2 = n2
  h1 = h1
  h2 = h2
  r1 = r1
  r2 = r2
  r3 = r3
  None = None
  Nodes = {n1}
  Hosts = {h1, h2}
  Pids = {1, 2}
  Requests = {r1, r2}
  Target <- TwoHosts
  Capacity = 1
  MaxRetries = 1
  Faults = {"crash", "stop", "kill", "quit", "late", "forkfail", "ttl"}
  MaxFaults = 1
  ColdStart = TRUE
INVARIANTS
  CountMatches
  CapacityRespected
PROPERTIES
  DispatchEnds
  DeadChildForgotten
