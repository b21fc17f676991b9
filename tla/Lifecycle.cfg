SPECIFICATION FairSpec
CONSTANTS
    localhost = localhost   remote = remote   token1 = token1   token2 = token2
    Procs = {p1, p2}
    Updates = {u1, u2}
    Peers = {localhost, remote}
    Localhost = localhost
    Tokens = {token1, token2}
    NoToken = NoToken
    Addrs = 3
    Configs <- MCConfigs
    MaxEvents = 6
INVARIANTS
    TypeOK
    OneServer
    ServesWhatIsSaved
PROPERTIES
    OldAdminsAreOut
    Recovers
    StarterLoops
CHECK_DEADLOCK FALSE
