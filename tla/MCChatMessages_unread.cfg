CONSTANTS
    c1 = c1
    c2 = c2
    c3 = c3
    None = None
    Users = {a, b}
    Members = {a, b}
    Calls = {c1, c2, c3}
    LastDay = 2
    MaxFaults = 0
SPECIFICATION Spec
SYMMETRY Interchangeable
INVARIANT EnterRoomShowsUnread
CHECK_DEADLOCK FALSE
