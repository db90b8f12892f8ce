SPECIFICATION Spec
CONSTANTS
    Runtimes = {r1}
    Contexts = {c1}
    None = None
    MaxJobs = 1
    MaxObjects = 1
    MaxDepth = 4
INVARIANTS
    LibraryOutlivesRuntimes
CHECK_DEADLOCK FALSE
