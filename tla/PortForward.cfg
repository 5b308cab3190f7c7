SPECIFICATION FairSpec
CONSTANTS
  l1 = l1  r1 = r1  lk = lk  rk = rk
  None = None

  Rules = {l1, r1}
  LocalRules = {l1}
  AutoRules = {l1, r1}
  Keys = {lk, rk}
  KeyOf <- MCKeyOf
  Fwd = {f1, f2}
  QueueCap = 1
INVARIANTS TypeOK OneForwarderPerRule NoOrphanForwarder ListenerOwned SenderOwnerLive
PROPERTIES StoppedLoopEnds LockReleased
