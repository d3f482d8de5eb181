SPECIFICATION FairSpec
CONSTANTS
    a = a
    b = b
    c = c
    Tasks = {a}
    Deps <- Single
    MaxAttempts <- RetryFirst
    Ordered = TRUE
    Workers = {w1}
    Beats = {}
    Quiet = FALSE
    RetryTimers = FALSE
    MaxFaults = 0
    MaxId = 0
PROPERTIES
    RunAlwaysEnds
CHECK_DEADLOCK FALSE
