SPECIFICATION Spec
CONSTANTS
    ip1 = ip1
    ip2 = ip2
    IPs <- MCIPs
    MaxTime = 2
    TTLs <- MCTTLs
    DefaultTTL = 3
    MaxRules = 2
    SuffixAccepted = TRUE
    CommandsMayFail = FALSE
    Chain = Chain
PROPERTIES SetupToleratesChain
