SPECIFICATION FairSpec
CONSTANTS
    QueueNum = 2
    MaxBmts = 1
    BatchSize = 2
    UsageLimit = 2
    Program <- MCProgram
INVARIANTS
    TypeOK
    SameTriples
    ReuseLimited
PROPERTY
    OpsComplete
\* Once the program is through, full queues stop the generators for good.
CHECK_DEADLOCK FALSE
