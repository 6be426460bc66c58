SPECIFICATION SessionSpec
CONSTANTS
    main = main
    settings = settings
    empty = empty
    typed = typed
    normal = normal
    Kinds <- TwoKinds
    Drafts <- TwoDrafts
    Initial = empty
    Facts <- OneFact
    MaxOpens = 2
    MaxEdits = 2
    MaxAsked = 2
    MaxReports = 1
INVARIANTS
    OneQuestionPerRevision
PROPERTIES
    DecisionsCoverDrafts
    ImplementsConsent
SYMMETRY KindSymmetry
CHECK_DEADLOCK FALSE
