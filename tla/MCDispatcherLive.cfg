SPECIFICATION FairSpec
CONSTANTS
    j1 = j1
    j2 = j2
    NoJob = NoJob
    Jobs = {j1, j2}
    Workers = {w1, w2}
    Priority <- MCPriority
    MaxAttempts <- MCMaxAttempts
    Type <- MCOneType
    Backoff <- MCBackoff
    MaxPark = 2
    Resubmitted = {j2}
    Horizon = 2
PROPERTIES
    EveryJobSettles
    ShutdownTerminates
CHECK_DEADLOCK FALSE
