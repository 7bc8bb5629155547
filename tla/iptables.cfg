SPECIFICATION FairSpec
CONSTANTS
    ip1 = ip1
    ip2 = ip2
    IPs <- MCIPs
    MaxTime = 4
    TTLs <- MCTTLs
    DefaultTTL = 3
    MaxRules = 2
    SuffixAccepted = TRUE
    CommandsMayFail = TRUE
    Chain = Chain
INVARIANTS TypeOK KernelInStep EntryHasRule ShutdownLeavesNothing
PROPERTIES GrantNeverShortened ImplementsContract ExpiredRuleGoes
