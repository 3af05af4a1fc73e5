SPECIFICATION Spec
CONSTANTS
  t1 = t1
  t2 = t2
  t3 = t3
  NoTask = NoTask
  Task <- Tasks3
  NMtx = 2
  NPri = 2
  IPri <- IPriLow
  MtxAtrs <- InheritMix
  MaxSus = 1
  Calls = {"ter_tsk", "timeout", "rel_wai", "dis_wai", "sus_tsk", "del_mtx"}
  OrderedLocks = TRUE
SYMMETRY Symm
INVARIANTS
  OwnerLink
  WaitersHaveOwner
  WaitQueues
  DormantHasNothing
