SPECIFICATION FairSpec
CONSTANTS
    None = None
    Actors = {a1}
    Scenes <- Alone
    Selections = {s1, s2}
    Cron = {1, 3, 4}
    MaxCatchup = 2
    Window = 2
    MaxConcurrent = 1
    Lags = FALSE
CHECK_DEADLOCK FALSE
PROPERTIES
    AllPlanned
