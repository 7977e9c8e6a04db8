SPECIFICATION FairSpec
CONSTANTS
    NodeSets <- OneSet
    Replicas <- TwoNodes
    InitialNumber <- OneSeed
    Programs = {p1}
    Attempts = 2
    Scenarios <- TroubledCalls
    CreatedFirst = FALSE
    SerialPrograms = TRUE
    PromptPods = TRUE
PROPERTIES PodsFollowPower NodesFollowSlurm
CHECK_DEADLOCK FALSE
