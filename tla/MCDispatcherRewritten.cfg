SPECIFICATION Spec
CONSTANTS
    j1 = j1
    j2 = j2
    NoJob = NoJob
    Jobs = {j1, j2}
    Workers = {w1, w2}
    Priority <- MCPriority
    MaxAttempts <- MCMaxAttempts
    Type <- MCType
    Backoff <- MCBackoff
    MaxPark = 2
    Resubmitted = {j1}
    Horizon = 3
INVARIANT
    ScheduledSorted
CHECK_DEADLOCK FALSE
