SPECIFICATION Spec
CONSTANTS
    t1 = t1
    t2 = t2
    t3 = t3
    h1 = h1
    h2 = h2
    Tasks = {t1, t2, t3}
    Holders = {h1, h2}
    NoHolder = NoHolder
    HolderOf <- SharedHolder
    TTL = 2
    MaxRetries = 2
    MaxAcquires = 1
    MaxExtends = 0
    MaxBreaks = 0
    MaxFaults = 1
INVARIANTS
    TypeOK
    TokensUnique
    LiveGuardOwnsLock
PROPERTIES
    NewHolderHigher
    ImplementsFencedLock
CHECK_DEADLOCK FALSE
SYMMETRY MCSymmetry
