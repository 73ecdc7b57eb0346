\* A scan that is closed while its files are counted.
SPECIFICATION Spec
CONSTANTS
    Modes <- ScanOnly
    Policies <- NeverClose
    ExitCodes = {0, 1, 2}
    MaxLines = 2
CHECK_DEADLOCK FALSE
INVARIANT
    StoppedBeforeFreed
