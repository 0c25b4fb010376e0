SPECIFICATION Spec
CONSTANTS
    NumRequests = 3
    Disc = Disc
    HeaderLen = 2
    DataLen = 1
    MaxSignals = 2
    NoUid = NoUid
INVARIANTS
    RequestsFramed
    RepliesMatch
    HandlerUsesOpenDevice
PROPERTY RequestsAnswered
CHECK_DEADLOCK FALSE
