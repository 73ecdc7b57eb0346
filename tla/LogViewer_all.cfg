\* Two runs in one process that write to the same log, and a viewer.
SPECIFICATION Spec
CONSTANTS
    dialog = dialog
    background = background
    Runs <- TwoRuns
    ProcessOf <- OneProcess
    Headers <- OneHeader
    Reports <- DialogReports
    Limit = 2
    ChildTexts = 1
    Ticks = {0, 1}
    Track = 4
    MinThumb = 2
    Page = 2
CHECK_DEADLOCK FALSE
INVARIANTS
    TextKept
    TrimmedInTheEnd
    ViewerInv
PROPERTY
    OnlyViewerRefuses
