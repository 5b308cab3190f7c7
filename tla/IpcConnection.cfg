SPECIFICATION FairSpec
CONSTANTS
    Parts = 3
    MaxCalls = 5
    MaxEvents = 5
INVARIANTS BehindByEvents
PROPERTIES InOrderAtMostOnce CallReturns
CHECK_DEADLOCK FALSE
