SPECIFICATION FairSpec
CONSTANTS
    t1 = t1
    t2 = t2
    c1 = c1
    Threads <- TwoThreads
    Callers <- OneCaller
    Capacity = 4
    MaxRecords <- FiveAndOne
    MaxSessions = 2
INVARIANTS
    SlotsAreSafe
    NothingIsLost
PROPERTIES
    DropsAreReported
    RecordsAreRead
CHECK_DEADLOCK FALSE
