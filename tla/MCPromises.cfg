SPECIFICATION FairSpec
CONSTANTS
    Values = {v1}
    HandlerSets = {{}, {"fulfilled", "rejected"}}
    MaxMade = 3
    MaxCaps = 4
    MaxDepth = 2
INVARIANTS
    OutcomeOfFirstCall
    ReactionsRunInOrder
    OneWayToSettle
    ReportsAgree
PROPERTIES
    WaitersAreSettled
CHECK_DEADLOCK FALSE
