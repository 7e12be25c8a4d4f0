SPECIFICATION FairSpec
CONSTANTS
    t1 = t1
    t2 = t2
    yes = yes
    no = no
    NULL = NULL
    Testers = {t1}
    Words <- MCWords
    Accepted <- MCAccepted
    Inputs <- ThreeWords
    MaxRuns = 3
    MaxLines = 5
    QueueCap = 1
    Faults = {"crash"}
    MaxFaults = 2
    SERVER_PROCESS_LIMIT = 2
    SERVER_FORK_RETRY_COUNT = 2
    SERVER_TERMINATE_ON_RUN_FAILURE = TRUE
INVARIANT AbnormalExitTold
PROPERTIES
    ServerEnds
CHECK_DEADLOCK FALSE
