SPECIFICATION Spec
CONSTANTS
    a = a
    b = b
    c = c
    Tasks = {a, b}
    Deps <- Chain
    MaxAttempts <- RetryFirst
    Ordered = FALSE
    Workers = {w1}
    Beats = {h1}
    Quiet = TRUE
    RetryTimers = TRUE
    MaxFaults = 1
    MaxId = 9
INVARIANTS
    TypeOK
    CountersMatch
    DependencySafe
PROPERTIES
    AttemptDecidedOnce
    TerminalStays
    PublishedStays
CHECK_DEADLOCK FALSE
