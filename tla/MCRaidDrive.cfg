SPECIFICATION Spec
CONSTANTS
    ChunkSize = 2
    NumMinions = 3
    Garbage = Garbage
    NoRequest = NoRequest
    NoCallback = NoCallback
    Uids = {1, 2}
    Workload <- MixedWorkload
    MaxIoErrors = 1
    MaxSendErrors = 1
    MaxLost = 0
    MaxDuplicated = 1
    MaxRestarts = 0
    Duplicable = {"write", "answer"}
INVARIANTS
    TablesAgree
    ResponseMatchesCallback
    
PROPERTY ImplementsBlockDevice
CHECK_DEADLOCK FALSE
