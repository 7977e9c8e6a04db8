CONSTANTS
    Workers = {w1}
    Placed = {w1}
    MaxTime = 40
    EnabledNodeReplacement = FALSE
    SlurmRestamps = FALSE
    DeleteNotReadyNodes = FALSE
    NotReadyTimeout = 1
    IgnoredByLabel = FALSE
    Scenarios <- UnorderedReboot
    MaxGen = 0
    PromptManager = TRUE
    DistinctSeconds = TRUE
SPECIFICATION Spec
PROPERTY JobsFinishFirst
CHECK_DEADLOCK FALSE
