SPECIFICATION FairSpec
CONSTANTS
    SYS_THREAD_MAX = 4
    MEMP_NUM_NETCONN = 3
    Fragments <- MCFragments
    BufLen = 4
    INT_MAX = 7
    MaxRequests = 3
INVARIANTS
    PoolAccounting
    ThreadTable
    OneWritePerRequest
    PostedWasReceived
    TwoFailuresAtMost
PROPERTIES
    NeverReconnects
    ParsesRequest
    PendingServed
CHECK_DEADLOCK FALSE
