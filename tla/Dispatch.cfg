SPECIFICATION PortSpec
CONSTANTS
  t1 = t1
  t2 = t2
  t3 = t3
  NoTask = NoTask
  Task <- Three
  NProc = 2
  InitTask = t1
  Free = {}
  Pri <- FirstLow
  Aff <- SecondOnOne
  Calls = {"sus_tsk", "ter_tsk", "del_tsk", "wait", "dis_dsp", "int"}
  NoCore = NoCore
  Timely = TRUE
INVARIANTS
  NoDoubleRun
  DeletedOnce
  ScheduledReady
  StartsAfresh
  DispatchRequested
PROPERTIES
  ImplementsDispatcher
