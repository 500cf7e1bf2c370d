CONSTANTS
    c1 = c1
    c2 = c2
    Channel <- Channels
    App = {app}
    Receiver = receiver
    WindowSize = 1
    MaxMessages <- Messages
    OnFirst = 2
    OnSecond = 0
SPECIFICATION ConfirmingSpec
PROPERTY QueuedIsSent
