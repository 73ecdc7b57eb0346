\* Every mode and policy; the user acts at any time.
SPECIFICATION FairSpec
CONSTANTS
    Modes <- AllModes
    Policies <- AllPolicies
    ExitCodes = {0, 1, 2}
    MaxLines = 2
CHECK_DEADLOCK FALSE
INVARIANTS
    DialogInv
    PatientIsSafe
PROPERTIES
    EndHandled
    CloseEnds
