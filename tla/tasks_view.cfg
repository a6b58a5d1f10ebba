SPECIFICATION Spec
CONSTANTS
  t1 = t1
  t2 = t2
  c1 = c1
  c2 = c2
  s1 = s1
  s2 = s2
  None = None
  Tasks = {t1}
  PushTasks = {t1}
  HookTasks = {t1}
  Calls = {c1, c2}
  Ops = {"query", "kill"}
  Supervisors = {s1}
  Ages = {"completed"}
  SlowCheck = FALSE
  MaxLog = 0
  MaxQueue = 1
  MaxFaults = 0
SYMMETRY Symmetry
INVARIANTS
  TypeOK
  CompletedIsOver
  AnnouncedIsOver
PROPERTIES
  RegistryIsView
