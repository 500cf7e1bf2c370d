CONSTANTS
    polls = polls
    works = works
    receives = receives
    updates = updates
    User <- Users
    Poller = polls
    Receiver = receives
    Logic = updates
    MaxAttempts = 1
    MaxPeers = 2
    Inputs = 3
SPECIFICATION FairSpec
INVARIANT TypeOK
INVARIANT EndIsAnnounced
INVARIANT EndsOnce
PROPERTY AttemptEnds
PROPERTY EveryEventIsHandled
CHECK_DEADLOCK FALSE
