CONSTANTS
    r1 = r1
    r2 = r2
    i1 = i1
    None = None
    Requests = {r1, r2}
    Instances = {i1}
    Server <- OneServer
    TmpPath <- OwnPaths
    Segments = 1
    Corrupt = {}
    Faults = {"io", "crash", "connection", "publish", "broker"}
    MaxFaults = 2
    Viewers = {v1}
    Chunks = 2
    MaxBreaks = 1
SPECIFICATION GatewaySpec
CONSTRAINTS TwoFailures NoOrTwoChunks
SYMMETRY Interchangeable
INVARIANTS GatewayTypeOK WholeFileOnly OriginalIntact SuccessIsAccepted ClearedPlaybackNeverBreaks
CHECK_DEADLOCK FALSE
