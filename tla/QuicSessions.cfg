SPECIFICATION FairSpec
CONSTANTS
    Keys = {k1, k2}
    Shard <- OneShard
    Tasks = {t1, t2}
    Sockets = {s1, s2}
    Timeout = 1
    Workers = 5
    NoSession = NoSession
    NoSocket = NoSocket
    NoKey = NoKey
INVARIANTS
    TypeOK
    SessionHasRelay
    SocketsNotShared
PROPERTIES
    AllReclaimed
