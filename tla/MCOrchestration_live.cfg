SPECIFICATION FairSpec
CONSTANTS
    a = a
    b = b
    c = c
    Tasks = {a}
    Deps <- Single
    MaxAttempts <- RetryFirst
    Ordered = TRUE
    Workers = {w1}
    Beats = {}
    Quiet = TRUE
    RetryTimers = TRUE
    MaxFaults = 1
    MaxId = 0
PROPERTIES
    RunEnds
CHECK_DEADLOCK FALSE
