CONSTANTS
    r1 = r1
    r2 = r2
    i1 = i1
    i2 = i2
    None = None
    Requests = {r1, r2}
    Instances = {i1, i2}
    Server <- OneServer
    TmpPath <- SamePath
    Segments = 1
    Corrupt = {r2}
    Faults = {"io", "crash", "connection", "publish", "broker"}
    MaxFaults = 1
SPECIFICATION FairSpec
INVARIANTS TypeOK ReadyIsPlayable JobIsActionable NoLostJob NoConcurrentTranscode
PROPERTIES ReadyIsStable ImplementsCatalog AcceptedBecomesReady
CHECK_DEADLOCK FALSE
