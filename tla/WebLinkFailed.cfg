SPECIFICATION Spec
CONSTANTS
    c1 = c1
    q1 = q1
    f1 = f1
    f2 = f2
    w1 = w1
    Commands <- NoRequest
    Queries <- NoRequest
    Fields <- NoField
    Changes <- OneByOne
    Windows <- OneWindow
    MaxConnections = 2
    MaxEngines = 2
    MaxChanges = 0
INVARIANTS
    LinkSurvives
CHECK_DEADLOCK FALSE
