CONSTANTS
    r1 = r1
    r2 = r2
    i1 = i1
    i2 = i2
    None = None
    Requests = {r1, r2}
    Instances = {i1}
    Server <- OneServer
    TmpPath <- SamePath
    Segments = 1
    Corrupt = {}
    Faults = {}
    MaxFaults = 0
SPECIFICATION Spec
INVARIANTS OriginalIntact
CHECK_DEADLOCK FALSE
