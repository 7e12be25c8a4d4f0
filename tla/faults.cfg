SPECIFICATION Spec
CONSTANTS
    t1 = t1
    t2 = t2
    yes = yes
    no = no
    NULL = NULL
    Testers = {t1, t2}
    Words <- MCWords
    Accepted <- MCAccepted
    Inputs <- TwoTesters
    MaxRuns = 2
    MaxLines = 3
    QueueCap = 2
    Faults = {"crash", "fork", "pipe"}
    MaxFaults = 2
    SERVER_PROCESS_LIMIT = 1
    SERVER_FORK_RETRY_COUNT = 1
    SERVER_TERMINATE_ON_RUN_FAILURE = FALSE
INVARIANTS
    TypeOK
    SlotRouting
    AnswerIntegrity
    ExitLast
    NoUnreadAnswer
PROPERTIES
    SessionsKept
CHECK_DEADLOCK FALSE
