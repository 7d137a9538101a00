SPECIFICATION FairSpec
CONSTANTS
    Server = Server
    Senders = {}
    Accepts = {a1}
    Packet = Packet
    NoConn = NoConn
    QueueLength = 6
    RecvLength = 6
    NumInpkt = 8
    MaxData <- MCMaxData
PROPERTY EofWakesReader
CHECK_DEADLOCK FALSE
