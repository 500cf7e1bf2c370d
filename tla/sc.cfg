CONSTANTS
    MaxMessages = 6
    MaxSequence = 4
    MaxAge = 2
    MaxBurst = 2
    Loses = TRUE
    Duplicates = TRUE
SPECIFICATION FairSpec
INVARIANT TypeOK
PROPERTY DeliversInSequence
PROPERTY LastIsDelivered
CHECK_DEADLOCK FALSE
