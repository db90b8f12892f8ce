SPECIFICATION Spec
CONSTANTS
    Contexts = {c1, c2}
    Keys = {k1, k2, k3}
    Atoms = {a1, a2}
    None = None
    Limit = 2
    MaxDepth = 4
SYMMETRY Interchangeable
INVARIANTS
    AtomsInUseAreAlive
    AtomRefsBalance
PROPERTIES
    CacheStaysWithinLimit
CHECK_DEADLOCK FALSE
