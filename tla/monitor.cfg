SPECIFICATION Spec
CONSTANTS
    ip1 = ip1
    ip2 = ip2
    d1 = d1
    d2 = d2
    h1 = h1
    IPs = {ip1, ip2}
    Domains = {d1, d2}
    ConfigDomains = {d1}
    Handlers = {h1}
    Answers <- StableAnswers
    MaxTime = 8
    TTLCap = 9
    MinTTL = 1
    MaxTTL = 9
    TTLs = {1, 2}
    DefaultTTL = 3
    RefreshInterval = 2
    FailingDomains = {d2}
    FailingIPs = {ip2}
    MaxLag = 1
INVARIANTS MonitoredStaysAllowed
