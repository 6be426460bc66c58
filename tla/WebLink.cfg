SPECIFICATION Spec
CONSTANTS
    c1 = c1
    q1 = q1
    f1 = f1
    f2 = f2
    w1 = w1
    Commands <- OneCommand
    Queries <- OneQuery
    Fields <- TwoFields
    Changes <- OneByOne
    Windows <- NoWindow
    MaxConnections = 2
    MaxEngines = 2
    MaxChanges = 1
INVARIANTS
    MirrorFollows
    OutcomesAreTrue
PROPERTIES
    RepliesFollowMirror
SYMMETRY FieldSymmetry
CHECK_DEADLOCK FALSE
