SPECIFICATION Spec
CONSTANTS
    Keys = {k1}
    Shard <- OneShard
    Tasks = {t1, t2}
    Sockets = {s1, s2}
    Timeout = 2
    Workers = 4
    NoSession = NoSession
    NoSocket = NoSocket
    NoKey = NoKey
PROPERTY
    OnlyIdleSessionsRemoved
