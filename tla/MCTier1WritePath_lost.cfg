SPECIFICATION Spec
CONSTANTS
    a = a
    b = b
    c = c
    Tasks = {a, b, c}
    Writers = {a, b}
    NameOf <- OwnName
    NoTask = NoTask
    SkewedClocks = TRUE
    CasMaxRetries = 2
    KeepSnapshots = 2
    Before = 0
    MaxToken = 3
    MaxId = 2
    MaxManifest = 4
    MaxCrashes = 0
INVARIANT
    AckedVisible
CHECK_DEADLOCK FALSE
SYMMETRY WriterSymmetry
