SPECIFICATION Spec
CONSTANTS
    main = main
    empty = empty
    typed = typed
    Kinds <- OneKind
    Drafts <- TwoDrafts
    Initial = empty
    Facts <- NoFacts
    MaxOpens = 2
    MaxEdits = 3
    MaxAsked = 3
    MaxReports = 0
    Settings <- GtkBackground
INVARIANTS
    DialogsAnswerBlocks
CHECK_DEADLOCK FALSE
