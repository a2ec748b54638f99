SPECIFICATION FairSpec
CONSTANTS
    Pos = {p1, p2, p3}
    Windows <- MovingWindows
    UploadBudget = 1
    ReuploadBudget = 1
    Failing = {"load", "unload", "upload", "shift"}
    JoinsServers = TRUE
    NotLoaded = NotLoaded
INVARIANTS
    QueueConsistent
    StaleIsPending
    CleanIsShown
PROPERTIES
    EventuallyShown
