SPECIFICATION Spec
CONSTANTS
    a = a
    b = b
    c = c
    Tasks = {a, b}
    Deps <- Single
    MaxAttempts <- Once
    Ordered = FALSE
    Workers = {w1, w2}
    Beats = {}
    Quiet = FALSE
    RetryTimers = FALSE
    MaxFaults = 0
    MaxId = 10
INVARIANTS
    AlwaysCounted
CHECK_DEADLOCK FALSE
