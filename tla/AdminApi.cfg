SPECIFICATION FairSpec
CONSTANTS
    t1 = t1   t2 = t2   ip1 = ip1   ip2 = ip2
    srcIp = srcIp   fiveTuple = fiveTuple   s0 = s0   s1 = s1
    raw1 = raw1   raw1b = raw1b   raw2 = raw2   rawBad = rawBad
    rule1 = rule1   rule2 = rule2   junk = junk
    Threads = {t1, t2}
    Ips = {ip1, ip2}
    HashPolicies = {srcIp, fiveTuple}
    Seeds = {s0, s1}
    DefaultPolicy = srcIp
    DefaultSeed = s0
    NoBinding = NoBinding
    RawRules = {raw1, raw1b, raw2, rawBad}
    Rules = {rule1, rule2}
    Canon <- MCCanon
    Malformed = Malformed
    Omitted = Omitted
    BuiltinDeny = {builtin}
    Junk = {junk}
    Bases <- MCBases
    Serves <- Contending
    Bodies <- PolicyBodies
    DefaultBody <- EmptyBody
    InitFiles <- MCInitFiles
    Absent = Absent
    Corrupt = Corrupt
    NoThread = NoThread
    MaxVersion = 3
INVARIANTS
    ApiTypeOK
    OwnFilterMatches
    OverlayIntent
PROPERTIES
    BindingsComeAndGo
    
