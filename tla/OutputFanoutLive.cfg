SPECIFICATION FairSpec
CONSTANTS
  Pairings = {p,q}
  Tunnels = {t1,t2}
  Channels = {c1,c2}
  ChanCap = 1
  QueueCap = 1
  HistCap = 1
  MaxBurst = 1
  MaxOut = 1
INVARIANT OneSubscription
PROPERTY RemovedForwarderEnds
CHECK_DEADLOCK FALSE
