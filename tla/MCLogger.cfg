SPECIFICATION LoggerSpec
CONSTANTS
    Clients = {c1, c2}
    MaxMessages = 2
INVARIANT NothingLost
PROPERTIES
    EverythingWritten
    DestructorReturns
CHECK_DEADLOCK FALSE
