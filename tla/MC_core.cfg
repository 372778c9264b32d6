\* The whole handshake of one connection, every collaborator failure on.
CONSTANTS
    Conns = {c1}
    NULL = NULL
    NoKey = NoKey
    ProtoNames <- MCProtoNames
    Registry <- MCRegistry
    SessionSize <- MCSessionSize
    ExtNames <- MCExtNames
    ExtRegistry <- MCExtRegistry
    Offers <- MCOffers
    ServerExts <- MCServerExts
    Statuses <- MCStatuses
    Upgrades <- MCUpgrades
    Connections <- MCConnections
    Keys <- MCKeys
    Accepts <- MCAccepts
    AcceptOf <- MCAcceptOf
    ProxyUse = {FALSE, TRUE}
    SslUse = {0, 1, 2}
    Faults <- MCAllFaults
    RespLen = 2
    FrameLen = 1
    MaxTlsRetries = 1
SPECIFICATION Spec
INVARIANTS
    HandshakeVerified
    ProtocolBound
    
    CertPolicy
    
    HeaderTokensFreedOnce
PROPERTY
    ImplementsAbstract
\* Established, closed and crashed connections take no further step.
CHECK_DEADLOCK FALSE
