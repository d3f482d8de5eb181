SPECIFICATION ExtendSpec
CONSTANTS
    t1 = t1
    t2 = t2
    t3 = t3
    h1 = h1
    h2 = h2
    Tasks = {t1, t2}
    Holders = {h1, h2}
    NoHolder = NoHolder
    HolderOf <- OwnHolder
    TTL = 1
    MaxRetries = 1
    MaxAcquires = 2
    MaxExtends = 1
    MaxBreaks = 0
    MaxFaults = 0
PROPERTY
    NewHolderHigher
CHECK_DEADLOCK FALSE
