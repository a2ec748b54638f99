SPECIFICATION Spec
CONSTANTS
    Host = host
    Remotes = {r1}
    Pos = {p}
    MaxEdits = 2
    MaxJoins = 2
    Absent = Absent
INVARIANTS
    RequestAnswered
    CacheIsCurrent
    ReplicasAgree
CONSTRAINT NoAccident
CHECK_DEADLOCK FALSE
