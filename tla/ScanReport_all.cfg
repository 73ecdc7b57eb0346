\* Every kind of filter; downloads that fail and start again.
SPECIFICATION Spec
CONSTANTS
    Tasks <- AllTasks
    Databases <- TwoDatabases
    DbSize = 2
    MaxTries = 2
    Failures = {2, 11}
    PipeBound = 1
CHECK_DEADLOCK FALSE
INVARIANTS
    ReportInv
    CountReached
    FullBarIsDone
    SessionBytes
    ToldTrue
