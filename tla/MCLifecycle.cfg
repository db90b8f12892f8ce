SPECIFICATION FairSpec
CONSTANTS
    Runtimes = {r1, r2}
    Contexts = {c1, c2}
    None = None
    MaxJobs = 2
    MaxObjects = 2
    MaxDepth = 5
INVARIANTS
    EntriesMatchContexts
    FramesAreAlive
    
    JobsKeepTheirContext
    NoLiveRuntimeWhenClosed
PROPERTIES
    DisposeEnds
CHECK_DEADLOCK FALSE
