SPECIFICATION Spec
CONSTANTS
  Pairings = {p}
  Tunnels = {t1}
  Channels = {c1,c2}
  ChanCap = 3
  QueueCap = 1
  HistCap = 3
  MaxBurst = 2
  MaxOut = 6
INVARIANTS TypeOK NoSilentGap LaggingExact
CHECK_DEADLOCK FALSE
