SPECIFICATION Spec
CONSTANTS
    None = None
    Actors = {a1, a2}
    Scenes <- Polls
    Selections = {s1, s2}
    Cron = {1, 3, 4}
    MaxCatchup = 2
    Window = 2
    MaxConcurrent = 2
    Lags = TRUE
CHECK_DEADLOCK FALSE
INVARIANTS
    StaleSkipped
