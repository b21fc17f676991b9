SPECIFICATION FairSpec
CONSTANTS
    com = com   co = co   a1 = a1   a2 = a2   ipv4 = ipv4
    W = 3
    HashValues <- MCHashValues
    PoolConfig <- MCPools
    Clients = {client}
    V6 = {a1, a2}
    SrcPorts = {p1}
    Seeds = {0}
    Conns = {c1}
    NoClient = NoClient
    NoPort = NoPort
    DefaultBinding <- MCDefaultBinding
    NoBinding = NoBinding
    Hosts = {com, co}
    NoName = NoName
    Cut <- MCCut
    Shuffled <- MCShuffled
    V4 = {ipv4}
    Answers <- MCAnswers
    NoAddr = NoAddr
    InitPolicies <- MCInitPolicies
    MaxConns = 2
    MaxChanges = 2
INVARIANTS
    TypeOK
    ConnFollowsPolicies
    ExitByPool
    ExitUsable
    ExitSticky
PROPERTIES
    EveryConnSettles
CHECK_DEADLOCK FALSE
