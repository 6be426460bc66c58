SPECIFICATION Spec
CONSTANTS
    Shell = Shell
    Idle = Idle
    base = base
    feed = feed
    reader = reader
    old = old
    new = new
    Modules <- AllModules
    Order <- ListedOrder
    Depends <- NeedsOf
    Optional <- Switchable
    Values <- TwoValues
    Start = old
    FollowUpLimit = 2
    MaxSends = 1
INVARIANTS
    DependenciesRun
    PublishedIsCurrent
