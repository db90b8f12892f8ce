SPECIFICATION FairSpec
CONSTANTS
    Names = {1, 2, 3, 4}
    Worlds <- MCWorlds
    MaxDepth = 2
    Reenter = FALSE
INVARIANTS
    BodyRunsOnce
    RequestsRunFirst
    PromiseTellsOutcome
    PendingCountsWaits
    AssertsHold
PROPERTIES
    EvaluationsSettle
CHECK_DEADLOCK FALSE
