SPECIFICATION Spec
CONSTANTS
    Contexts = {c1, c2}
    Handles = {h1, h2, h3}
    Objects = {plain, classy}
    Finalized = {classy}
    Nil = Nil
    MaxArgs = 2
    MaxGuest = 1
    MaxDepth = 2
SYMMETRY Interchangeable
INVARIANTS
    TypeOK
    TableAgrees
    RefsBalance
    ClosedOwnsNothing
    NoCallbackIntoClosed
PROPERTIES
    ArgsReleased
    RefinesHandleSet
CHECK_DEADLOCK FALSE
