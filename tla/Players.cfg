SPECIFICATION Spec
CONSTANTS
    Host = host
    Remotes = {r1, r2}
    KeepAlive = 1
    MaxMoves = 0
    MaxConns = 2
    MaxRenames = 1
    MaxNews = 2
    MaxInputs = 0
    MaxStates = 1
    Unknown = Unknown
SYMMETRY RemoteSymmetry
INVARIANTS
    RosterAgrees
    NamesAgree
CHECK_DEADLOCK FALSE
