SPECIFICATION FairSpec
CONSTANTS
  Sessions = {s1}
  Ops = {o1, o2}
INVARIANTS ClosedSentOnce EndAnnounced TabsMarked
PROPERTIES CloseReturns
CHECK_DEADLOCK FALSE
