\* Descriptors run out before the connections do.
SPECIFICATION LoopSpec
CONSTANTS
    MaxConnections = 6
    MaxCommands = 4
    FdLimit = 4
    Backlog = 3
INVARIANT NothingUnread
PROPERTIES ConnectionsAccepted CommandsReceived
CHECK_DEADLOCK FALSE
