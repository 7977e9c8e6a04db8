SPECIFICATION FairSpec
CONSTANTS
    Checks <- Two
    Nodes = {"n1"}
    CheckType <- Types
    EachWorkerJobs <- Health
    MaxNumberOfJobs <- Unlimited
    RequiresGPU <- Health
    Later = 1
    DependsOn <- OnHealth
    RunAfterCreation <- Always
    InlineScript <- Health
    Reactions <- Drains
    Scenarios <- Troubles
    Suspend <- Health
  
PROPERTIES PrerequisitesSucceedFirst  ChecksReport
CHECK_DEADLOCK FALSE
