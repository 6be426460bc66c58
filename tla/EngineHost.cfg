SPECIFICATION FairSpec
CONSTANTS
    c1 = c1
    c2 = c2
    q1 = q1
    w1 = w1
    l1 = l1
    Commands <- TwoCommands
    Queries <- OneQuery
    Blocking <- CommandAndQuery
    Workers <- OneWorker
    Listeners <- OneListener
CONSTRAINT OneScenario
INVARIANTS
    SnapshotPlusUpdates
    RepliesFollowUpdates
    PanicsNeverShow
    QueriesSeeEarlierCommands
    StopRunsWhatIsAhead
    NoLostWake
PROPERTIES
    BlockingReturns
CHECK_DEADLOCK FALSE
