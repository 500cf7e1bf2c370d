CONSTANTS
    a = a
    b = b
    Manager <- Managers
    Applications <- Reconnections
    MaxTime = 2
    Uninitialised = {0}
    TieLosers = {a, b}
    DisconnectTimeout = 2
    MaxAttempts = 2
    Loses = FALSE
    Duplicates = FALSE
    MaxInFlight = 4
    Prompt = TRUE
SPECIFICATION Spec
PROPERTY NoConnectionDrops
CHECK_DEADLOCK FALSE
