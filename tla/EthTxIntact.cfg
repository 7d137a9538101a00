SPECIFICATION Spec
CONSTANTS
    ETH_TXBUFNB = 3
    Callers = {"tcpip_thread"}
INVARIANT QueuedStaysIntact
