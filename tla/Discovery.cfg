SPECIFICATION FairSpec
CONSTANTS
    Size = 16
    Blocks = {1, 2, 4, 8, 16}
    BitAnd <- MCBitAnd
    BitOr <- MCBitOr
    Private <- MCPrivate
    LinkLocal <- MCLinkLocal
    Lists <- MCLists
    NoMask = NoMask
    Server = {5, 9}
    Localhost = localhost
    LocalPort = 60010
    TcpPort <- MCTcpPort
    Ports <- MCPorts
    NoNumber = NoNumber
    MaxAnswers = 2
INVARIANTS TypeOK ScanIsExact TargetIsServer
PROPERTY SearchEnds
CHECK_DEADLOCK FALSE
