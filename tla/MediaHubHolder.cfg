SPECIFICATION Spec
CONSTANTS
    app = app
    page1 = page1
    page2 = page2
    url1 = url1
    None = None
    Application <- OnePlayer
    Pages <- TwoPages
    Windows <- OneWindow
    Urls <- OneUrl
    MaxRequests = 3
    MaxVersion = 3
    MaxReports = 1
INVARIANTS
    RequestsGoToHolders
CHECK_DEADLOCK FALSE
