\* Every mixture of files, up to two entries, two starts.
SPECIFICATION Spec
CONSTANTS
    MaxMb = 2
    MaxPort = 1
    Masks = {"*.tbb"}
    Names = {"notes"}
    Profiles <- AllProfiles
    Edits <- AllEdits
    CutPoints = {1, 2, 20}
    MaxStarts = 2
    MaxRuns = 1
CHECK_DEADLOCK FALSE
INVARIANT
    SettingsInv
PROPERTIES
    ImplementsStore
    RefusalCanBeFixed
    SavedAsShown
