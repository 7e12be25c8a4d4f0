SPECIFICATION Spec
CONSTANTS
    t1 = t1
    t2 = t2
    yes = yes
    no = no
    NULL = NULL
    Testers = {t1, t2}
    Words <- MCWords
    Accepted <- MCAccepted
    Inputs <- StopWhileAsking
    MaxRuns = 4
    MaxLines = 5
    QueueCap = 1
    Faults = {}
    MaxFaults = 0
    SERVER_PROCESS_LIMIT = 3
    SERVER_FORK_RETRY_COUNT = 2
    SERVER_TERMINATE_ON_RUN_FAILURE = FALSE
INVARIANT NoStandoff
CHECK_DEADLOCK FALSE
