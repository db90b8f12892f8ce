SPECIFICATION Spec
CONSTANTS
    Addresses = {a1, a2, a3, a4}
    None = None
    MaxDepth = 2
    MaxNodes = 4
    MaxEntries = 2
    MaxBorn = 4
SYMMETRY Interchangeable
INVARIANTS
    SharingIsFaithful
    WithinLimits
CHECK_DEADLOCK FALSE
