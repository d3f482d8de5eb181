SPECIFICATION Spec
CONSTANTS
    j = j
    k = k
    n = n
    o = o
    c1 = c1
    c2 = c2
    Calls = {c1, c2}
    Keys = {j, k}
    NoKey = NoKey
    Names = {n, o}
    NoName = NoName
    Requests <- Rivals
    Prompt = {k}
    MaxCalls = 3
    MaxDeletes = 1
    MaxCrashes = 1
INVARIANTS
    TypeOK
    KeyCreatesOne
    OutcomeTrue
CHECK_DEADLOCK FALSE
SYMMETRY CallSymmetry
