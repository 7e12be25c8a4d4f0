SPECIFICATION MCSpec
CONSTANTS
    d1 = d1
    NULL = NULL
    Data = {d1}
    Modifier <- MCModifier
    Junk = Junk
    ARRAY_LIST_AUTORESIZE_FACTOR = 2
    FillSlack = 1
    GrowStep = 2
    b1 = b1
    b2 = b2
    b3 = b3
    b4 = b4
    Blocks = {b1, b2, b3, b4}
    L1 = L1
    L2 = L2
    Lists = {L1, L2}
    CopyChunk = 2
    Arrays = {L1, L2}
    MaxArray = 3
    Keys <- MCKeys
    HASH = 2
    InitNodes = 1
    Bucket = d1
    MaxItems = 3
    MaxNodes = 7
    Pointers = {1, 2}
    Descriptors = {0, 3, 4}
    ON_EXIT_MAX_HANDLERS_COUNT = 1
    MaxOpens = 3
    MaxChildren = 1
INVARIANTS
    ListTypeOK
    ListsWellLinked
    ArrayTypeOK
    NeverJunk
    HashMapTypeOK
    LoopVisitsAll
    LoopVisitsOnce
    RegistryExact
    DescriptorsKept
    CleanExit
PROPERTIES
    ListsAreSequences
    ArraysAreSequences
    MapIsDictionary
VIEW MCView
CHECK_DEADLOCK FALSE
