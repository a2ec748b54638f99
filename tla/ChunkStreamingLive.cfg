SPECIFICATION FairSpec
CONSTANTS
    Pos = {p1, p2}
    Workers = {w1}
    Edits = {e1}
    MaxQueueSize = 2
    EpochMod = 2
    MaxShifts = 1
    MaxPipeline = 2
    UploadBudget = 1
    SaveBudget = 1
    MaxRuns = 2
    MaxSaveErrors = 0
    MaxLoadErrors = 0
    Payloads <- AllEdits
    Windows <- MovingWindows
    Idle = Idle
    Exited = Exited
    NotLoaded = NotLoaded
PROPERTIES
    ShutdownEnds
    EditsReachDisk
    HolesAreFilled
CHECK_DEADLOCK FALSE
