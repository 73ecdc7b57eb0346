\* Two objects that share the handle table and the inheritable handles.
SPECIFICATION Spec
CONSTANTS
    Procs = {p1, p2}
    Handles = {h1, h2}
    NoProc = NoProc
    NoHandle = NoHandle
    Cap = 1
    MaxWrites = 1
SYMMETRY Symmetric
INVARIANTS
    ReaderHasContext
    DrainedBeforeReport
PROPERTIES
    ImplementsJob
    StrayKillAfterReport
