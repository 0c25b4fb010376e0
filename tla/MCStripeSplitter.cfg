SPECIFICATION Spec
CONSTANTS
    ChunkSize = 3
    NumMinions = 3
    MaxLength = 11
INVARIANTS
    TypeOK
    SegmentsPlaced
    SegmentsPartition
    LoopComputesSplit
CHECK_DEADLOCK FALSE
