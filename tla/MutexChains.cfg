SPECIFICATION KernelSpec
CONSTANTS
  t1 = t1
  t2 = t2
  t3 = t3
  NoTask = NoTask
  Task <- Tasks3
  NMtx = 2
  NPri = 2
  IPri <- IPriLow
  MtxAtrs <- BothProtocols
  MaxSus = 0
  Calls = {"chg_pri", "timeout"}
  OrderedLocks = FALSE
INVARIANTS
  QueuesSorted
  PriorityRule
  CeilingRespected
PROPERTIES
  ChainEnds
