SPECIFICATION FairSpec
CONSTANTS
    a = a
    b = b
    c = c
    w1 = w1
    w2 = w2
    Workers = {w1, w2}
    Requests <- TwoRequests
    NoKey = NoKey
    NoPayload = NoPayload
    MaxVersion = 1
    TTL = 1
    MaxClock = 1
    MaxCrashes = 1
    Deletable = {}
    MaxDeletes = 0
PROPERTY
    ReservationEnds
