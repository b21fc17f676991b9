SPECIFICATION FairSpec
CONSTANTS
    Keys = {k1}
    Shard <- OneShard
    Tasks = {t1, t2, t3}
    Sockets = {s1}
    Timeout = 5
    Workers = 2
    NoSession = NoSession
    NoSocket = NoSocket
    NoKey = NoKey
PROPERTY
    ForwardCompletes
