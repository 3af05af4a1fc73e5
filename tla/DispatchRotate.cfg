SPECIFICATION PortSpec
CONSTANTS
  t1 = t1
  t2 = t2
  t3 = t3
  NoTask = NoTask
  Task <- Two
  NProc = 2
  InitTask = t1
  Free = {}
  Pri <- Equal
  Aff <- AnyCore
  Calls = {"sus_tsk", "rot_rdq", "int"}
  NoCore = NoCore
  Timely = TRUE
INVARIANTS
  ScheduledReady
