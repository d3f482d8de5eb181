SPECIFICATION Spec
CONSTANTS
    a = a
    b = b
    c = c
    Tasks = {a, b}
    Writers = {a, b}
    NameOf <- OwnName
    NoTask = NoTask
    SkewedClocks = FALSE
    CasMaxRetries = 2
    KeepSnapshots = 2
    Before = 2
    MaxToken = 4
    MaxId = 2
    MaxManifest = 5
    MaxCrashes = 2
INVARIANT
    VisibleIsReadable
CHECK_DEADLOCK FALSE
SYMMETRY WriterSymmetry
