SPECIFICATION Spec
CONSTANTS
  t1 = t1
  t2 = t2
  t3 = t3
  NoTask = NoTask
  Task <- Tasks2
  NMtx = 2
  NPri = 2
  IPri <- IPriLow
  MtxAtrs <- InheritOnly
  MaxSus = 0
  Calls = {"chg_pri", "ter_tsk"}
  OrderedLocks = FALSE
SYMMETRY Symm
INVARIANTS
  DormantHasNothing
