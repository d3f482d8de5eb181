SPECIFICATION FullSpec
CONSTANTS
    t1 = t1
    t2 = t2
    t3 = t3
    h1 = h1
    h2 = h2
    Tasks = {t1, t2, t3}
    Holders = {h1, h2}
    NoHolder = NoHolder
    HolderOf <- SharedHolder
    TTL = 1
    MaxRetries = 1
    MaxAcquires = 1
    MaxExtends = 1
    MaxBreaks = 1
    MaxFaults = 1
PROPERTY
    ReleaseKeepsOthers
CHECK_DEADLOCK FALSE
SYMMETRY MCSymmetry
