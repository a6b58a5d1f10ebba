SPECIFICATION FairSpec
CONSTANTS
  t1 = t1
  t2 = t2
  c1 = c1
  c2 = c2
  s1 = s1
  s2 = s2
  None = None
  Tasks = {t1}
  PushTasks = {t1}
  HookTasks = {t1}
  Calls = {}
  Ops = {}
  Supervisors = {s1, s2}
  Ages = {}
  SlowCheck = TRUE
  MaxLog = 1
  MaxQueue = 2
  MaxFaults = 0
PROPERTIES
  CompletionAnnounced
