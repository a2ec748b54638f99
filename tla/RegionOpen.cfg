SPECIFICATION Spec
CONSTANTS
    Writer = w
    Openers = {w, r1, r2}
    Pos = {p, q}
    Starts = {NoFile, "v1", "v2"}
    MaxFiles = 3
    MaxCrashes = 1
    NoFile = NoFile
INVARIANTS
    PathReachesSaved
    OpenIsMigrated
    SavedIsFound
CHECK_DEADLOCK FALSE
