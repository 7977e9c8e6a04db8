CONSTANTS
    Workers = {w1}
    Placed = {w1}
    MaxTime = 40
    EnabledNodeReplacement = TRUE
    SlurmRestamps = FALSE
    DeleteNotReadyNodes = TRUE
    NotReadyTimeout = 1
    IgnoredByLabel = FALSE
    Scenarios <- Recoveries
    MaxGen = 1
    PromptManager = TRUE
    DistinctSeconds = TRUE
SPECIFICATION FairSpec
PROPERTY RecoveryEnds RecoveredNodeReturns UnusableNodeReplaced DrainedNodeReturns
CHECK_DEADLOCK FALSE
