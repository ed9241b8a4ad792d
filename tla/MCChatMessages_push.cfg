CONSTANTS
    c1 = c1
    c2 = c2
    c3 = c3
    None = None
    Users = {a, b}
    Members = {a, b}
    Calls = {c1}
    LastDay = 1
    MaxFaults = 0
SPECIFICATION FairSpec
PROPERTIES MembersReceive
CHECK_DEADLOCK FALSE
