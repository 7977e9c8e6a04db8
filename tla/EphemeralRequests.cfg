SPECIFICATION Spec
CONSTANTS
    NodeSets <- OneSet
    Replicas <- TwoNodes
    InitialNumber <- OneSeed
    Programs = {p1, p2}
    Attempts = 2
    Scenarios <- ThreeCalls
    CreatedFirst = TRUE
    SerialPrograms = TRUE
    PromptPods = TRUE
SYMMETRY Symmetric
INVARIANT OnlyActiveOrdinals
PROPERTIES RequestsTakeEffectOnce JobsKeepTheirPods
CHECK_DEADLOCK FALSE
