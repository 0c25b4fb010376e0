SPECIFICATION Spec
CONSTANTS
    i1 = i1
    t1 = t1
    Injections <- MCInjections
    PlainTasks <- MCPlainTasks
    Tasks <- MCTasks
    MaxPolls = 3
    Intervals = {0, 1, 2}
    MaxTime = 3
    NotArmed = NotArmed
INVARIANTS
    QueueIsWatched
    DestroyedUnused
    PollsAreSerial
PROPERTIES
    RunsWhenDue
    EveryTaskRuns
    InjectionsEnd
CHECK_DEADLOCK FALSE
