SPECIFICATION Spec
CONSTANTS
    BufSize = 36
    Uids = {1, 2}
    Offsets = {0, 4}
    ReadLengths = {3, 10, 11}
    WriteLengths = {2, 3, 4}
INVARIANT NothingCorrupted
PROPERTY FittingIsAnswered
CHECK_DEADLOCK FALSE
