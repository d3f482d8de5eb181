SPECIFICATION Spec
CONSTANTS
    a = a
    b = b
    c = c
    Tasks = {a, b, c}
    Deps <- Join
    MaxAttempts <- Once
    Ordered = TRUE
    Workers = {w1}
    Beats = {}
    Quiet = FALSE
    RetryTimers = TRUE
    MaxFaults = 1
    MaxId = 0
INVARIANTS
    TypeOK
    CountersMatch
    DependencySafe
PROPERTIES
    TerminalStays
    PublishedStays
CHECK_DEADLOCK FALSE
