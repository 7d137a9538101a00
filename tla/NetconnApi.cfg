SPECIFICATION FairSpec
CONSTANTS
    Server = Server
    Senders = {s1}
    Accepts = {a1}
    Packet = Packet
    NoConn = NoConn
    QueueLength = 2
    RecvLength = 1
    NumInpkt = 1
    MaxData <- MCMaxData
INVARIANTS
    TypeOK
    WriteMsgValid
    FreeIsForgotten
    StreamIntact
    InpktAccounting
    LossEndsOperation
PROPERTIES
    CallSpec
    ShortCallsReturn
    LossWakesReader
CHECK_DEADLOCK FALSE
