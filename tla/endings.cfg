SPECIFICATION FairSpec
CONSTANTS
    t1 = t1
    t2 = t2
    yes = yes
    no = no
    NULL = NULL
    Testers = {t1, t2}
    Words <- MCWords
    Accepted <- MCAccepted
    Inputs <- Endings
    MaxRuns = 3
    MaxLines = 4
    QueueCap = 1
    Faults = {}
    MaxFaults = 0
    SERVER_PROCESS_LIMIT = 1
    SERVER_FORK_RETRY_COUNT = 1
    SERVER_TERMINATE_ON_RUN_FAILURE = FALSE
PROPERTIES
    TestersStop
CHECK_DEADLOCK FALSE
