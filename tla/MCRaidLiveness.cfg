SPECIFICATION Spec
CONSTANTS
    ChunkSize = 2
    NumMinions = 2
    Garbage = Garbage
    NoRequest = NoRequest
    NoCallback = NoCallback
    Uids = {1, 2}
    Workload <- UnitWorkload
    MaxIoErrors = 1
    MaxSendErrors = 0
    MaxLost = 1
    MaxDuplicated = 1
    MaxRestarts = 1
    Duplicable = {"write"}
INVARIANT AckedDataSurvives
PROPERTY EveryRequestAnswered
CHECK_DEADLOCK FALSE
