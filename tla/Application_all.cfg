\* Three checks; the shell may start late and restart once.
SPECIFICATION FairSpec
CONSTANTS
    Checks = {c1, c2, c3}
    NoCheck = NoCheck
    MaxRestarts = 1
    QueueBound = 3
CHECK_DEADLOCK FALSE
INVARIANTS
    CurlWhileChecking
    ResultOwned
PROPERTIES
    ExitEnds
    LateShellGetsIcon
