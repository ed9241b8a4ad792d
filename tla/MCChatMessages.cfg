CONSTANTS
    c1 = c1
    c2 = c2
    c3 = c3
    None = None
    Users = {a, b}
    Members = {b}
    Calls = {c1, c2, c3}
    LastDay = 3
    MaxFaults = 1
SPECIFICATION Spec
SYMMETRY Interchangeable
INVARIANTS TypeOK OneCopy ReadIsGenuine SerialCallsLoseNothing
PROPERTIES UnreadIsKept ImplementsLog
CHECK_DEADLOCK FALSE
