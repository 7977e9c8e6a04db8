CONSTANTS
    Workers = {w1}
    Placed = {w1}
    MaxTime = 40
    EnabledNodeReplacement = FALSE
    SlurmRestamps = FALSE
    DeleteNotReadyNodes = FALSE
    NotReadyTimeout = 1
    IgnoredByLabel = FALSE
    Scenarios <- Cancellations
    MaxGen = 1
    PromptManager = TRUE
    DistinctSeconds = TRUE
SPECIFICATION Spec
PROPERTY EmptiedBeforeDeletion
CHECK_DEADLOCK FALSE
