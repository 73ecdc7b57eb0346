\* A pattern added, and Preferences opened and saved again.
SPECIFICATION Spec
CONSTANTS
    MaxMb = 2
    MaxPort = 1
    Masks = {"*.tbb"}
    Names = {"notes"}
    Profiles <- OneProfile
    Edits <- FilterEdits
    CutPoints = {1}
    MaxStarts = 2
    MaxRuns = 0
CHECK_DEADLOCK FALSE
INVARIANT
    FiltersKept
