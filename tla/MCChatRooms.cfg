CONSTANTS
    a = a
    b = b
    c1 = c1
    c2 = c2
    c3 = c3
    c4 = c4
    None = None
    Users = {a, b}
    Calls = {c1, c2, c3, c4}
    MaxFaults = 1
SPECIFICATION Spec
SYMMETRY Interchangeable
INVARIANTS TypeOK GatedMembers NoDuplicateMembers PrivateByConsent AcceptedHasRoom
PROPERTY InviteesDecide
CHECK_DEADLOCK FALSE
