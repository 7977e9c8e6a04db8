CONSTANTS
    Workers = {w1, w2}
    Placed = {w1, w2}
    MaxTime = 40
    EnabledNodeReplacement = FALSE
    SlurmRestamps = FALSE
    DeleteNotReadyNodes = FALSE
    NotReadyTimeout = 1
    IgnoredByLabel = FALSE
    Scenarios <- Disturbances
    MaxGen = 0
    PromptManager = TRUE
    DistinctSeconds = TRUE
SYMMETRY Symmetric
SPECIFICATION Spec
INVARIANT TypeOK ClosedUntilReboot
PROPERTY JobsFinishFirst RebootBeforeReturn EmptiedBeforeReboot
CHECK_DEADLOCK FALSE
