SPECIFICATION MachFairSpec
CONSTANTS
  p1 = p1
  p2 = p2
  p3 = p3
  c1 = c1
  a1 = a1
  t1 = t1
  s1 = s1
  s2 = s2
  NOEXS = NOEXS
  Idle = Idle
  Proc = {p1, p2}
  TimerProc = p1
  Cyc = {c1}
  Alm = {a1}
  Task = {t1}
  TIMER_PERIOD = 2
  CycKinds <- Kinds
  Assprcs <- AnyAssprc
  Almtims = {0, 1}
  Dlytims = {3}
  MaxTime = 6
  MaxUse = 2
  MaxNo = 1
  Prid = {p1, p2, p3}
  Boot = p1
  MayFail <- Refused
  EarlyEvent = FALSE
  Sender = {s1, s2}
  Size = 1
  MaxMsg = 2
  Early = FALSE
  MayFinish = TRUE
  Patient = FALSE
  Cpu = {p1, p2, p3}
  Caller = {p1, p2}
  First = p1
  NoCpu = NoCpu
  Modes <- BothModes
  MaxReq <- OneTwice
INVARIANTS
  HandlersCorrect
  StartCorrect
  LogCorrect
  CallsCorrect
PROPERTIES
  InPhase
  Progress
\* a system that is stopped stays so
CHECK_DEADLOCK FALSE
