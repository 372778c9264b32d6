\* A failed rx buffer allocation after the commit frees c_protocol a second time.
CONSTANTS
    NULL = NULL
    NoKey = NoKey
    ProtoNames <- MCProtoNames
    Registry <- MCRegistry
    SessionSize <- MCSessionSize
    ExtNames <- MCExtNames
    ExtRegistry <- MCExtRegistry
    Statuses <- MCStatuses
    Upgrades <- MCUpgrades
    Connections <- MCConnections
    Keys <- MCKeys
    Accepts <- MCAccepts
    AcceptOf <- MCAcceptOf
    RespLen = 2
    MaxTlsRetries = 1
    Conns = {c1}
    Offers <- MCOneOffer
    ServerExts <- MCFewServerExts
    ProxyUse = {FALSE}
    SslUse = {0}
    Faults = {"RxAlloc"}
    FrameLen = 0
SPECIFICATION Spec
INVARIANT ReleasedAtMostOnce
\* Established, closed and crashed connections take no further step.
CHECK_DEADLOCK FALSE
