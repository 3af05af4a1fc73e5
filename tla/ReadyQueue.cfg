SPECIFICATION Spec
CONSTANTS
  NoTask = NoTask
  Task = {t1, t2, t3, t4}
  NPri = 3
  NProc = 2
INVARIANTS
  TopIsPrefix
  QueuesExact
  LockWaitersApart
  ScheduleCurrent
