SPECIFICATION Spec
CONSTANTS
    ChunkSize = 2
    NumMinions = 3
    Garbage = Garbage
    NoRequest = NoRequest
    NoCallback = NoCallback
    Uids = {1}
    Workload <- CrossingWorkload
    MaxIoErrors = 0
    MaxSendErrors = 0
    MaxLost = 0
    MaxDuplicated = 0
    MaxRestarts = 0
    Duplicable = {}
PROPERTY EveryRequestAnswered
CHECK_DEADLOCK FALSE
