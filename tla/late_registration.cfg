SPECIFICATION Spec
CONSTANTS
    t1 = t1
    t2 = t2
    yes = yes
    no = no
    NULL = NULL
    Testers = {t1}
    Words <- MCWords
    Accepted <- MCAccepted
    Inputs <- ThreeWords
    MaxRuns = 3
    MaxLines = 5
    QueueCap = 2
    Faults = {}
    MaxFaults = 0
    SERVER_PROCESS_LIMIT = 1
    SERVER_FORK_RETRY_COUNT = 2
    SERVER_TERMINATE_ON_RUN_FAILURE = FALSE
INVARIANT ReceivedAddUp
CHECK_DEADLOCK FALSE
