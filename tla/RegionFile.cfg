SPECIFICATION Spec
CONSTANTS
    Pos = {p, q}
    Readers = {r1}
    Sizes = {1, 2, 3}
    CountLimit = 2
    HeaderSectors = 1
    LastSector = 7
    GenModulus = 5
    PowerLoss = FALSE
    MaxWrites = 3
    MaxFailures = 1
    MaxCrashes = 1
    NoBlob = NoBlob
    Torn = Torn
    Unknown = Unknown
SYMMETRY PosSymmetry
INVARIANTS
    RegionTypeOK
    ReadsOwnData
    ExtentsDisjoint
    AckedReadable
    FreshReads
PROPERTIES
    ImplementsStore
CHECK_DEADLOCK FALSE
