CONSTANTS
    a = a
    b = b
    Peer <- Ends
    POSSIBLE_MTU <- Mtus
    MAX_MTU_CHECK_ATTEMPTS = 2
    Capacities = {600, 1100, 1500}
    Numbers = {0, 1}
    Changes = 1
SPECIFICATION FairSpec
INVARIANT TypeOK
INVARIANT MtuWasConfirmed
PROPERTY ProbingEnds
PROPERTY FindsLargest
CHECK_DEADLOCK FALSE
