SPECIFICATION KeysSpec
CONSTANTS
    Contents <- Lists
    Bytes <- Sizes
    Buffers = {b1, b2, b3, b4}
    NoContents = NoContents
    InitialSize = 1
    Retries = 4
    MaxNesting = 2
SYMMETRY Interchangeable
VIEW Reachable
INVARIANTS
    ReturnsOwnRead
    GivesUpOnGrowth
CHECK_DEADLOCK FALSE
