\* A proxied TLS connection whose SSL_connect fails waits forever.
CONSTANTS
    NULL = NULL
    NoKey = NoKey
    ProtoNames <- MCProtoNames
    Registry <- MCRegistry
    SessionSize <- MCSessionSize
    ExtNames <- MCExtNames
    ExtRegistry <- MCExtRegistry
    Statuses <- MCStatuses
    Upgrades <- MCUpgrades
    Connections <- MCConnections
    Keys <- MCKeys
    Accepts <- MCAccepts
    AcceptOf <- MCAcceptOf
    RespLen = 2
    MaxTlsRetries = 1
    Conns = {c1}
    Offers <- MCOneOffer
    ServerExts <- MCFewServerExts
    ProxyUse = {TRUE}
    SslUse = {1}
    Faults = {}
    FrameLen = 0
SPECIFICATION Spec
PROPERTY HandshakeTerminates
\* Established, closed and crashed connections take no further step.
CHECK_DEADLOCK FALSE
