\* A short proxy reply is compared with what another connection left in the shared buffer.
CONSTANTS
    NULL = NULL
    NoKey = NoKey
    ProtoNames <- MCProtoNames
    Registry <- MCRegistry
    SessionSize <- MCSessionSize
    ExtNames <- MCExtNames
    ExtRegistry <- MCExtRegistry
    Statuses = {"101"}
    Upgrades = {"WebSocket"}
    Connections = {"Upgrade"}
    Keys <- MCKeys
    Accepts <- MCAccepts
    AcceptOf <- MCAcceptOf
    RespLen = 2
    MaxTlsRetries = 0
    Conns = {c1, c2}
    Offers <- MCOneOffer
    ServerExts <- MCNoServerExts
    ProxyUse = {TRUE}
    SslUse = {1}
    Faults = {}
    FrameLen = 0
SPECIFICATION Spec
INVARIANT ProxyAcceptedOnly200
\* Established, closed and crashed connections take no further step.
CHECK_DEADLOCK FALSE
