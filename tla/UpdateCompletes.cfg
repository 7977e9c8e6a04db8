CONSTANTS
    Replicas = 2
    MaxRevision = 2
    MaxUnavailable = 1
    InPercent = FALSE
    MaxAttempts = 2
    Scenarios <- Updates
    PromptPass = TRUE
SPECIFICATION FairSpec
INVARIANT TypeOK
  
CHECK_DEADLOCK FALSE
