SPECIFICATION FairSpec
CONSTANTS
    peer = peer
    mGw = mGw
    mOld = mOld
    mNew = mNew
    Hosts = {gw, peer, pc}
    Gateway = gw
    Far = {far}
    NonUnicast = {bcast}
    Macs = {mGw, mOld, mNew}
    MacsOf <- MCMacsOf
    GroupMac = gmac
    NoAddr = none
    TableSize = 2
    MaxAge = 2
    MaxPending = 2
    CtimeMod = 3
INVARIANTS
    NoDuplicates
    StableIsLatest
    UnicastToOwner
PROPERTIES
    ForgetsLeastValuable
    SnoopingForgetsNone
    PendingEnds
