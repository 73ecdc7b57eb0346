\* One object: every interleaving of its owner, its reader and its child.
SPECIFICATION FairSpec
CONSTANTS
    Procs = {p1}
    Handles = {h1, h2}
    NoProc = NoProc
    NoHandle = NoHandle
    Cap = 1
    MaxWrites = 2
PROPERTIES
    StopReturns
    EndReported
    WriterUnblocked
