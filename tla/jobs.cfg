SPECIFICATION FairSpec
CONSTANTS
  j1 = j1
  j2 = j2
  w1 = w1
  a1 = a1
  f1 = f1
  None = None
  Jobs = {j1, j2}
  HookJobs = {j1}
  Files = {f1}
  FileOf <- SharedFile
  Uploads = {j2}
  Workers = {w1}
  Archivers = {a1}
  MaxRetries = 1
  SchedulerRuns = TRUE
  MaxDocs = 1
  BatchSize = 2
  MaxFaults = 1
CHECK_DEADLOCK FALSE
INVARIANTS
  StagedFilePresent
  CancelledRanOnlyIfRaced
  RetriesBounded
  AnnouncedIsOutcome
  NewestKept
PROPERTIES
  NoResendAfterAck
  StagedGone
  OutcomeAudited
