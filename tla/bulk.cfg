SPECIFICATION Spec
CONSTANTS
  h1 = h1
  h2 = h2
  h3 = h3
  None = None
  Nodes = {1, 2}
  Hosts = {h1, h2, h3}
  Batches <- SomeBatches
  MaxCapacity = 2
  MaxFaults = 2
CHECK_DEADLOCK FALSE
INVARIANTS
  Accounted
  QueuedIsLaunched
  WithinSnapshot
  NoFailureWithoutCause
  LeastLoadedFirst
