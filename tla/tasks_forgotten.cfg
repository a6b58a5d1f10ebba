SPECIFICATION FairSpec
CONSTANTS
  t1 = t1
  t2 = t2
  c1 = c1
  c2 = c2
  s1 = s1
  s2 = s2
  None = None
  Tasks = {t1}
  PushTasks = {}
  HookTasks = {t1}
  Calls = {c1}
  Ops = {"query", "kill", "clear", "discover"}
  Supervisors = {s1}
  Ages = {"launching", "completed"}
  SlowCheck = FALSE
  MaxLog = 0
  MaxQueue = 1
  MaxFaults = 1
PROPERTIES
  EndedTaskForgotten
