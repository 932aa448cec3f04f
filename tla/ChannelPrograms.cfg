SPECIFICATION ProgramsSpec
CONSTANTS
    Topics = {t1, t2}
    Channels = {c1, c2}
    Publishers = {p1, p2}
    BufSize = 2
    MaxPublish = 2
    Workers = {w1, w2}
    JobBufferSize = 2
    MaxJobs = 7
INVARIANTS
    TypeOK
    RegistryExact
    DeliveredInOrder
    PoolTypeOK
    EveryJobOnce
    ResultsComplete
PROPERTIES
    PublishReturns
    PoolAnswers
CHECK_DEADLOCK FALSE
