SPECIFICATION Spec
CONSTANTS
  t1 = t1
  t2 = t2
  t3 = t3
  m1 = m1
  m2 = m2
  m3 = m3
  byte_a = byte_a
  byte_b = byte_b
  byte_c = byte_c
  byte_d = byte_d
  NOEXS = NOEXS
  NULL = NULL
  Junk = Junk
  Task = {t1, t2, t3}
  Events = {"EV1"}
  QueueName <- Queues
  ItskPri = 2
  Pris = {1, 2}
  Tmos = {TRUE}
  SemId = {"s1"}
  SemAtrs <- Sem1
  MaxSem = 2
  FlgId = {"f1"}
  FlgAtrs <- Flg1
  Bits = {1, 2}
  Wfmodes <- Modes
  MbxId = {"b1"}
  MbxAtrs <- Mbx1
  Msg = {m1, m2, m3}
  Msgpri <- Priorities
  MbfId = {"x1"}
  MbfAtrs <- Atrs
  Bufszs = {0, 8}
  Message <- Messages
  HEADERSZ = 2
  MpfId = {"p1"}
  MpfAtrs <- Atrs
  MaxBlf = 2
  MplId = {"v1"}
  MplAtrs <- Atrs
  Mplszs = {8}
  Blkszs = {1, 4, 5}
  PorId = {"r1", "r2"}
  PorKinds <- Ports
  Ptns <- Patterns
  Cmsgszs = {1}
  MaxRdv = 2
  MaxSus = 2
  MaxWup = 1
  MaxDisturbed = 1
  WaitMasks <- Masks
  MaxKinds = 1
SYMMETRY Symm
INVARIANTS
  QueuesAgree
  NobodyWaitsForWhatIsThere
  ResourcesConserved
  RendezvousSafe
PROPERTY
  MessagesInOrder
