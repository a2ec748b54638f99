SPECIFICATION FairSpec
CONSTANTS
    Host = host
    Remotes = {r1}
    KeepAlive = 1
    MaxMoves = 1
    MaxConns = 1
    MaxRenames = 0
    MaxNews = 2
    MaxInputs = 2
    MaxStates = 2
    Unknown = Unknown
PROPERTIES
    EventuallySeen
CHECK_DEADLOCK FALSE
