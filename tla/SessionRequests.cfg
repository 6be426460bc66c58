SPECIFICATION Spec
CONSTANTS
    c1 = c1
    c2 = c2
    c3 = c3
    c4 = c4
    main = main
    empty = empty
    normal = normal
    NoWindow = NoWindow
    None = None
    Kinds <- OneKind
    Drafts <- OneDraft
    Initial = empty
    Facts <- OneFact
    Offering <- OneFact
    MaxOpens = 2
    MaxEdits = 0
    MaxAsked = 0
    MaxReports = 1
    MaxCalls = 2
    MaxLinks = 2
    Local <- TwoLocal
    Forwarded <- TwoForwarded
CONSTRAINT OneSort
INVARIANTS
    AnswersAreOwnUnlessStrayed
    OutcomesAreTrue
    PresentsTheAskedWindow
    PendingIsAwaited
SYMMETRY CallerSymmetry
CHECK_DEADLOCK FALSE
