SPECIFICATION FairSpec
CONSTANTS
    MEMP_NUM_SYS_TIMEOUT = 5
    Startup <- MCStartup
    Interval <- MCInterval
    User = "user"
    UserMsecs = {0, 3}
    MaxMsgs = 3
INVARIANTS TypeOK NeverEarly ElementFound TcpTimerArmed PeriodicArmed
PROPERTY PeriodicRuns
