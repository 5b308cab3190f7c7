SPECIFICATION FairLifecycleSpec
CONSTANTS
  Requests = {q1, q2}
  Monitors = {m1, m2}
  NoMonitor = NoMonitor
  MaxAttempts = 1
INVARIANTS MonitorsTracked
PROPERTIES LossNoticed
