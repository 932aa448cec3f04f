SPECIFICATION Spec
CONSTANTS
    j1 = j1
    j2 = j2
    NoJob = NoJob
    Jobs = {j1, j2}
    Workers = {w1, w2}
    Priority <- MCPriority
    MaxAttempts <- MCMaxAttempts
    Type <- MCType
    Backoff <- MCBackoff
    MaxPark = 2
    Resubmitted = {j2}
    Horizon = 3
SYMMETRY Symmetry
INVARIANTS
    TypeOK
    JobInOnePlace
    NoLostWakeup
    NeverOversleeps
    NeverEarly
    AttemptsBounded
PROPERTY
    TerminalIsFinal
CHECK_DEADLOCK FALSE
