\* More addresses than slots, so that addresses are reused.
SPECIFICATION BgFairSpec
CONSTANTS
    Tasks = {t1, t2, t3}
    NoTask = NoTask
    QueueBound = 4
CHECK_DEADLOCK FALSE
INVARIANTS
    QueuedIsCurrent
    SkipOnlyWhileRunning
PROPERTIES
    SlotFreed
    ExitEnds
