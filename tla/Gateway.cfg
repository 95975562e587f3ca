SPECIFICATION FairSpec
CONSTANTS
    Part <- MCPart
    Config <- MCConfig
    GlobalContext = 9
    Before <- MCBefore
    Request <- MCRequest
    ProxyKeys <- MCProxyKeys
    Status <- MCStatus
    Reply <- MCReply
INVARIANTS
    TypeOK
    TableMatches
    VerdictRight
    RoutedByName
    SuccessIsReal
    CountedRight
    ListedIsServed
PROPERTY Answered
