SPECIFICATION FairSpec
CONSTANTS
    Contexts = {c1, c2}
    Timeouts = {1, 2}
    CounterInit = 3
    MaxNow = 3
    MaxDepth = 3
INVARIANTS
    DeadlineIsTightest
    SecondPollFires
    CutBodyRejects
    RawInterruptIsOuter
    NoRawInterruptOutside
PROPERTIES
    OperationsEnd
CHECK_DEADLOCK FALSE
