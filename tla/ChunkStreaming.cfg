SPECIFICATION Spec
CONSTANTS
    Pos = {p1, p2}
    Workers = {w1}
    Edits = {e1, e2}
    MaxQueueSize = 2
    EpochMod = 2
    MaxShifts = 1
    MaxPipeline = 3
    UploadBudget = 1
    SaveBudget = 1
    MaxRuns = 2
    MaxSaveErrors = 1
    MaxLoadErrors = 1
    Payloads <- AllEdits
    Windows <- MovingWindows
    Idle = Idle
    Exited = Exited
    NotLoaded = NotLoaded
INVARIANTS
    InFlightIsReleased
    DeliveredAreFresh
    PipelineOK
    NoEditLost
    CleanMeansSaved
    CleanExitSavesAll
PROPERTIES
    DiskNeverRegresses
CHECK_DEADLOCK FALSE
SYMMETRY EditSymmetry
CONSTRAINT OneAccident
