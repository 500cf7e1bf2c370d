CONSTANTS
    a = a
    b = b
    Peer <- Ends
    MaxMessages <- Messages
    WindowSize = 2
    MaxSequence = 8
    MaxAge = 4
    FromA = 9
    FromB = 0
    Loses = {a}
    Duplicates = TRUE
SPECIFICATION Spec
INVARIANT TypeOK
INVARIANT WindowOrder
INVARIANT NoMessageLost
INVARIANT AcksAreTrue
PROPERTY SlotsAreNotOverwritten
PROPERTY DeliversReliably
CHECK_DEADLOCK FALSE
