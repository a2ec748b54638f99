SPECIFICATION Spec
CONSTANTS
    Local = local
    Worlds = {local, x}
    Servers = {a, b}
    a = a
    b = b
    x = x
    Loopback = loopback
    Hosted <- MCHosted
    Pos = {p}
    Near = {}
    SourcePos = {p}
    SaveBudget = 1
    MaxEdits = 2
    MaxJoins = 2
    MaxRuns = 2
    None = None
INVARIANTS
    DirsHoldOwnWorld
PROPERTIES
    
    LookingChangesNothing
CHECK_DEADLOCK FALSE
