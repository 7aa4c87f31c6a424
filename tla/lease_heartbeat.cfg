CONSTANTS
    Free = Free
    Orphan = Orphan
    Instances = {a, b, c}
    TTL = 8
    Period = 2
    ReplyWithin = 1
    MaxLost = 2
SPECIFICATION FairSpec
INVARIANTS
    WorksUnderLease
PROPERTIES
    ImplementsLock
    LeaseIsFreed
