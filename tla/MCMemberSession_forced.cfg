CONSTANTS
    m1 = m1
    m2 = m2
    None = None
    Registrations = {m1, m2}
    Email <- OneEmail
    Calls = {c1, c2, c3}
    SessionTTL = 1
    JwtTTL = 2
    MaxFaults = 0
SPECIFICATION Spec
INVARIANTS MustLoginAgain
CHECK_DEADLOCK FALSE
