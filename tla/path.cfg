CONSTANTS
    t1 = t1
    t2 = t2
    Thread <- Threads
    Scripts <- BothChannels
    POSSIBLE_MTU <- Mtus
    FragmentIds = 2
    ConnectNumbers = {0, 1}
    MtuMoves = 1
    Faults = 1
SPECIFICATION FairSpec
INVARIANT TypeOK
INVARIANT SizesAreTrue
INVARIANT DatagramsFit
INVARIANT NoPartIsRefused
PROPERTY DeliversWhole
PROPERTY EveryMessageArrives
CHECK_DEADLOCK FALSE
