CONSTANTS
    Replicas = 3
    MaxRevision = 1
    MaxUnavailable = 70
    InPercent = TRUE
    MaxAttempts = 2
    Scenarios <- OneFault
    PromptPass = TRUE
SPECIFICATION Spec
INVARIANT WithinBudget
CHECK_DEADLOCK FALSE
