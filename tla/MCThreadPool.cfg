SPECIFICATION Spec
CONSTANTS
    Tids = {0, 1, 2}
    InitialThreads = 2
    MaxTasks = 2
    MaxPauses = 2
    MaxResizes = 2
    Sizes = {0, 1, 2, 3}
INVARIANT ThreadsBalance
PROPERTIES
    NoStartWhilePaused
    PauseReturns
    DestructorJoins
    UserTasksRun
CHECK_DEADLOCK FALSE
