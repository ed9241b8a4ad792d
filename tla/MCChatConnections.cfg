CONSTANTS
    None = None
    Conns = {c1, c2}
    MaxEnters = 2
SPECIFICATION FairSpec
INVARIANTS TypeOK RoomFollowsRequests OpenIsServed
PROPERTIES GoroutinesEnd
CHECK_DEADLOCK FALSE
