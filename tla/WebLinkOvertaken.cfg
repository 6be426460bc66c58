SPECIFICATION Spec
CONSTANTS
    c1 = c1
    q1 = q1
    f1 = f1
    f2 = f2
    w1 = w1
    Commands <- NoRequest
    Queries <- NoRequest
    Fields <- TwoFields
    Changes <- OneByOne
    Windows <- NoWindow
    MaxConnections = 1
    MaxEngines = 1
    MaxChanges = 2
INVARIANTS
    MirrorResynchronizes
CHECK_DEADLOCK FALSE
