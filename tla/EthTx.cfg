SPECIFICATION FairSpec
CONSTANTS
    ETH_TXBUFNB = 3
    Callers = {"tcpip_thread", "DHCPClient"}
INVARIANTS NoStallWhenFull QueuedIsOwnCopy
PROPERTIES DamageOnlyWhenFull QueuedIsSent
