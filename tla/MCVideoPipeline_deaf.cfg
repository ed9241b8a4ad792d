CONSTANTS
    r1 = r1
    r2 = r2
    i1 = i1
    i2 = i2
    None = None
    Requests = {r1, r2}
    Instances = {i1}
    Server <- OneServer
    TmpPath <- OwnPaths
    Segments = 1
    Corrupt = {r2}
    Faults = {"connection"}
    MaxFaults = 1
SPECIFICATION FairSpec
PROPERTIES ConsumerKeepsListening
CHECK_DEADLOCK FALSE
