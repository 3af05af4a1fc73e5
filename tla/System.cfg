SPECIFICATION SysSpec
CONSTANTS
  MaxPage = 4
  Allocator = {"c1", "c2"}
  Pagesz = 8
  Sizes = {1, 8}
  MaxLost = 1
  MaxBlocks = 3
  MaxDom = 2
  ObjIdx = {1, 2}
  MaxObj <- ObjLimits
  MaxType = 2
  ObjType = {"TSK", "SEM", "FLG", "MBX", "MTX", "MBF", "POR", "MPF", "MPL", "CYC", "ALM"}
  Names = {"x", "y"}
  Hash <- SameHash
  Atrs <- TypeAtrs
  NOEXS = NOEXS
  Forced = FALSE
  t1 = t1
  t2 = t2
  t3 = t3
  g1 = g1
  Tsk = {t1, t2, t3}
  Resid <- OneGroup
  Dev = {"d"}
  Ddevs <- OneSubunit
  Omodes <- TwoModes
  Opn = {1, 2}
  Req = {1, 2}
  MAX_DISSUS = 1
  NODEV = NODEV
  NULL = NULL
  Task = {"k1", "k2"}
  UserTask = {"k1"}
  Texcd = {0, 1}
  Ssid = {1}
  NUM_SSYPRI = 1
  Breaks = {1}
  NOSVC = NOSVC
  MaxNest = 2
  Holders = FALSE
  Locker = {t1, t2, t3}
  LockNos = {0, 1}
  Cpu = {"p1", "p2"}
  Interrupted = {"p1"}
  Depth = 3
  NoLock = NoLock
  IntCpu = {"p1", "p2"}
  Driver <- TwoDrivers
  Vec = {"v0", "v1"}
  Hll = {"h1"}
  Asm = {"a1"}
  Lowest = 15
  ClearEnabled = FALSE
INVARIANTS MemoryCorrect DomainsCorrect DevicesCorrect ExceptionsCorrect LocksCorrect InterruptsCorrect
CONSTRAINT Bounds
SYMMETRY Symm
CHECK_DEADLOCK FALSE
