CONSTANTS
    Retries = 3
    Selection = 1
    Patience = 7
    Delays <- TwoLate
SPECIFICATION FairSpec
INVARIANTS TypeOK StartsInTime
PROPERTIES EverybodySettles
CHECK_DEADLOCK FALSE
