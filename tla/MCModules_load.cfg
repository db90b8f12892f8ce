SPECIFICATION Spec
CONSTANTS
    Names = {1, 2, 3, 4}
    Worlds <- FailedLoad
    MaxDepth = 2
    Reenter = FALSE
INVARIANTS
    RequestsAreLoaded
CHECK_DEADLOCK FALSE
