SPECIFICATION Spec
CONSTANTS
    ip1 = ip1
    ip2 = ip2
    IPs <- MCIPs
    Swapped <- MCSame
    AlwaysAllowed = {}
    LeastTTL = 1
    MostTTL = 2
    AnswerTTLs = {0, 4}
    Capacity = 2
    NoEntry = NoEntry
    NoProgram = NoProgram
    NoKey = NoKey
    MaxTime = 4
    TTLs = {1, 2}
    DNSServers <- MCServers
    MaxServers = 1
    BootTime = 1
    NoMap = NoMap
    NoCall = NoCall
INVARIANT GrantReachesFilter
CHECK_DEADLOCK FALSE
