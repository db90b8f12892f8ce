SPECIFICATION Spec
CONSTANTS
    Contexts = {c1}
    Timeouts = {1}
    CounterInit = 3
    MaxNow = 1
    MaxDepth = 4
INVARIANTS
    InterruptedBodyRejects
CHECK_DEADLOCK FALSE
