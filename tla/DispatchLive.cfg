SPECIFICATION PortFairSpec
CONSTANTS
  t1 = t1
  t2 = t2
  t3 = t3
  NoTask = NoTask
  Task <- Two
  NProc = 2
  InitTask = t1
  Free = {}
  Pri <- FirstLow
  Aff <- AnyCore
  Calls = {"sus_tsk", "ter_tsk", "wait", "dis_dsp", "rot_rdq", "int"}
  NoCore = NoCore
  Timely = TRUE
PROPERTIES
  StopsRunning
  Settles
