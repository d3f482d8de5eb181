SPECIFICATION Spec
CONSTANTS
    a = a
    b = b
    c = c
    w1 = w1
    w2 = w2
    Workers = {w1, w2}
    Requests <- RaceRequests
    NoKey = NoKey
    NoPayload = NoPayload
    MaxVersion = 1
    TTL = 1
    MaxClock = 2
    MaxCrashes = 1
    Deletable = {a}
    MaxDeletes = 1
INVARIANTS
    TypeOK
    LogContiguous
    AnswersAreTrue
    PayloadOutlivesReservation
PROPERTY
    ImplementsOptimisticLog
SYMMETRY WorkerSymmetry
