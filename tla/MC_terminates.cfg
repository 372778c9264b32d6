\* Every handshake ends, direct or through a proxy, on plain sockets.
CONSTANTS
    NULL = NULL
    NoKey = NoKey
    ProtoNames <- MCProtoNames
    Registry <- MCRegistry
    SessionSize <- MCSessionSize
    ExtNames <- MCExtNames
    ExtRegistry <- MCExtRegistry
    Statuses <- MCStatuses
    Upgrades <- MCUpgrades
    Connections <- MCConnections
    Keys <- MCKeys
    Accepts <- MCAccepts
    AcceptOf <- MCAcceptOf
    RespLen = 2
    MaxTlsRetries = 1
    Conns = {c1}
    Offers <- MCOffers
    ServerExts <- MCFewServerExts
    ProxyUse = {FALSE, TRUE}
    SslUse = {0}
    Faults <- MCAllFaults
    FrameLen = 1
SPECIFICATION Spec
PROPERTY HandshakeTerminates
\* Established, closed and crashed connections take no further step.
CHECK_DEADLOCK FALSE
