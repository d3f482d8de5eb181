SPECIFICATION Spec
CONSTANTS
    a = a
    b = b
    c = c
    Tasks = {a, b, c}
    Writers = {a, b}
    NameOf <- SameName
    NoTask = NoTask
    SkewedClocks = FALSE
    CasMaxRetries = 2
    KeepSnapshots = 2
    Before = 2
    MaxToken = 3
    MaxId = 2
    MaxManifest = 5
    MaxCrashes = 1
INVARIANTS
    TypeOK
    AckedVisible
    NamesUnique
    VisibleIsReadable
PROPERTY
    HistoryLinear
CHECK_DEADLOCK FALSE
SYMMETRY WriterSymmetry
