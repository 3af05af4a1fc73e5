SPECIFICATION TexSpec
CONSTANTS
  Task = {"k1", "k2"}
  UserTask = {"k1"}
  Texcd = {0, 1}
  Ssid = {1}
  NUM_SSYPRI = 2
  Breaks = {1}
  NOSVC = NOSVC
  MaxNest = 2
  Holders = TRUE
INVARIANT LocksReleased
CHECK_DEADLOCK FALSE
