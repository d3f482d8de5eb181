SPECIFICATION FairSpec
CONSTANTS
    a = a
    b = b
    c = c
    Tasks = {a}
    Deps <- Single
    MaxAttempts <- Once
    Ordered = TRUE
    Workers = {w1}
    Beats = {}
    Quiet = TRUE
    RetryTimers = FALSE
    MaxFaults = 1
    MaxId = 0
PROPERTIES
    RunAlwaysEnds
CHECK_DEADLOCK FALSE
