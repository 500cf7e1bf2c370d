CONSTANTS
    a = a
    b = b
    Peer <- Ends
    MaxMessages <- Messages
    WindowSize = 2
    MaxSequence = 8
    MaxAge = 4
    FromA = 2
    FromB = 0
    Loses = {a, b}
    Duplicates = FALSE
SPECIFICATION FairSpec
PROPERTY EverythingIsDelivered
CHECK_DEADLOCK FALSE
