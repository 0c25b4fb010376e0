SPECIFICATION Spec
CONSTANTS
    Garbage = Garbage
    Segments <- MCSegments
    Messages <- MCMessages
INVARIANTS
    TypeOK
    ReadServedByHealthyMirror
    WriteAckedByBothMirrors
    FailureHasCause
    DoneWhenAnswered
PROPERTY FrozenAfterResult
CHECK_DEADLOCK FALSE
