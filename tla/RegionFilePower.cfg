SPECIFICATION Spec
CONSTANTS
    Pos = {p, q}
    Readers = {}
    Sizes = {1, 2, 3}
    CountLimit = 2
    HeaderSectors = 1
    LastSector = 7
    GenModulus = 5
    PowerLoss = TRUE
    MaxWrites = 3
    MaxFailures = 1
    MaxCrashes = 1
    NoBlob = NoBlob
    Torn = Torn
    Unknown = Unknown
PROPERTIES
    CrashIsLocal
CHECK_DEADLOCK FALSE
