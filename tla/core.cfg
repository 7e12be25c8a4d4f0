SPECIFICATION FairSpec
CONSTANTS
    t1 = t1
    t2 = t2
    yes = yes
    no = no
    NULL = NULL
    Testers = {t1, t2}
    Words <- MCWords
    Accepted <- MCAccepted
    Inputs <- TwoTesters
    MaxRuns = 2
    MaxLines = 3
    QueueCap = 3
    Faults = {"fork"}
    MaxFaults = 1
    SERVER_PROCESS_LIMIT = 1
    SERVER_FORK_RETRY_COUNT = 1
    SERVER_TERMINATE_ON_RUN_FAILURE = FALSE
INVARIANTS
    ActiveExact
    NothingLost
    CollectsAll
    AcceptedAddUp
PROPERTIES
    ServerStops
    ServiceSpec
CHECK_DEADLOCK FALSE
