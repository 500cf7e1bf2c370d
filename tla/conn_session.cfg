CONSTANTS
    a = a
    b = b
    Manager <- Managers
    Applications <- Sessions
    MaxTime = 2
    Uninitialised = {5}
    TieLosers = {a, b}
    DisconnectTimeout = 1
    MaxAttempts = 1
    Loses = TRUE
    Duplicates = FALSE
    MaxInFlight = 1
    Prompt = FALSE
SPECIFICATION Spec
INVARIANT TypeOK
INVARIANT EveryConnectIsMatched
INVARIANT ConnectedWasAccepted
PROPERTY DisconnectEndsItsSession
CHECK_DEADLOCK FALSE
