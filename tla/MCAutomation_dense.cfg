SPECIFICATION Spec
CONSTANTS
    None = None
    Actors = {a1}
    Scenes <- Schedules
    Selections = {s1, s2}
    Cron = {1, 2, 3}
    MaxCatchup = 2
    Window = 2
    MaxConcurrent = 2
    Lags = TRUE
CHECK_DEADLOCK FALSE
INVARIANTS
    EveryTick
