SPECIFICATION AuditFairSpec
CONSTANTS
    ip1 = ip1
    ip2 = ip2
    d1 = d1
    d2 = d2
    h1 = h1
    IPs = {ip1, ip2}
    Domains = {d1, d2}
    ConfigDomains = {d1}
    Handlers = {h1}
    Answers <- MovingAnswers
    MaxTime = 4
    TTLCap = 3
    MinTTL = 1
    MaxTTL = 2
    TTLs = {1, 2}
    DefaultTTL = 3
    RefreshInterval = 2
    FailingDomains = {d1, d2}
    FailingIPs = {}
    MaxLag = 1
INVARIANTS TypeOK FirewallHorizon CacheCovered ReplyCovered StaleBound
PROPERTIES QueryAnswered ExpiredEntryGoes
