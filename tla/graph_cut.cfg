SPECIFICATION RunSpec
CONSTANTS
    a = a
    NONE = NONE
    States = {0, 1, 2}
    Letters = {a}
    PIECE = 2
    CAP = 2
    RUN_WORKLOAD_LIMIT = 1
    RUN_FORK_LIMIT = 1
    MaxBudget = 1
    Descriptions <- LongLine
    TestWords <- MCWords
INVARIANTS
    GraphDelivered
CHECK_DEADLOCK FALSE
