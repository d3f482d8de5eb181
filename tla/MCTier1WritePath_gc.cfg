SPECIFICATION Spec
CONSTANTS
    a = a
    b = b
    c = c
    Tasks = {a, b, c}
    Writers = {a, b}
    NameOf <- SameName
    NoTask = NoTask
    SkewedClocks = FALSE
    CasMaxRetries = 2
    KeepSnapshots = 1
    Before = 1
    MaxToken = 3
    MaxId = 2
    MaxManifest = 4
    MaxCrashes = 1
INVARIANT
    VisibleIsReadable
CHECK_DEADLOCK FALSE
SYMMETRY WriterSymmetry
