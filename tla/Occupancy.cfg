SPECIFICATION OccupancySpec
CONSTANTS
    Pos <- MCPos
    Windows <- MCWindows
    UploadBudget = 1
    ReuploadBudget = 1
    MetaBudget = 2
    ResetBudget = 1
    PerFrame = 1
    Failing = {"load", "unload", "upload", "shift"}
    JoinsServers = TRUE
    NotLoaded = NotLoaded
INVARIANTS
    WrongEntryIsPending
