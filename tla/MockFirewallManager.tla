---- MODULE MockFirewallManager ----
(***************************************************************************)
(* The contract of the FirewallManager interface, as the in-memory manager *)
(* of the code keeps it: a map from an address to the instant its entry    *)
(* expires.  An address without an entry maps to NoEntry.                  *)
(*                                                                         *)
(* IPTablesManager is shown to implement this module, and DNSServer calls  *)
(* its operations.                                                         *)
(***************************************************************************)
EXTENDS Environment

CONSTANTS
    TTLs,           \* the TTLs that callers pass
    DefaultTTL      \* the TTL of AllowIP, 300 seconds

ASSUME ManagerTTLAssumption == TTLs \subseteq Nat /\ DefaultTTL \in Nat

VARIABLE allowedIPs     \* MockFirewallManager.allowedIPs: the entries' ExpiresAt

NoEntry == -1

Exists(ip) == allowedIPs[ip] # NoEntry

\* The entry exists and time.Now() is before its expiry.
Valid(ip) == Exists(ip) /\ now < allowedIPs[ip]

\* CleanupExpired's condition: the entry exists and its expiry has passed.  At the
\* instant of its expiry an entry is neither valid nor expired.
Expired(ip) == Exists(ip) /\ now > allowedIPs[ip]

ManagerInit == allowedIPs = [ip \in IPs |-> NoEntry]

\* Variant: every new expiry replaces the old one, an earlier one too.
AlwaysOverwrite(ip, ttl) == now + ttl

\* The expiry an address has after AllowIPWithTTL: a valid entry that the new TTL
\* does not extend is kept, every other one is replaced.
GrantedExpiry(ip, ttl) ==
    IF Valid(ip) /\ now + ttl <= allowedIPs[ip] THEN allowedIPs[ip] ELSE now + ttl

Grant(ip, ttl) == allowedIPs' = [allowedIPs EXCEPT ![ip] = GrantedExpiry(ip, ttl)]

Forget(ip) == allowedIPs' = [allowedIPs EXCEPT ![ip] = NoEntry]

\* Variant: an entry is taken at the very instant of its expiry only.
ForgetAtExpiry ==
    allowedIPs' = [ip \in IPs |-> IF now = allowedIPs[ip] THEN NoEntry ELSE allowedIPs[ip]]

ForgetExpired ==
    allowedIPs' = [ip \in IPs |-> IF Expired(ip) THEN NoEntry ELSE allowedIPs[ip]]

----
AllowIPWithTTL(ip, ttl) == Grant(ip, ttl) /\ UNCHANGED now

AllowIP(ip) == AllowIPWithTTL(ip, DefaultTTL)

RemoveIP(ip) == Forget(ip) /\ UNCHANGED now

CleanupExpired == ForgetExpired /\ UNCHANGED now

Cleanup == allowedIPs' = [ip \in IPs |-> NoEntry] /\ UNCHANGED now

managerVars == <<now, allowedIPs>>

ManagerNext ==
    \/ \E ip \in IPs :
          \/ \E ttl \in TTLs : AllowIPWithTTL(ip, ttl)
          \/ AllowIP(ip)
          \/ RemoveIP(ip)
    \/ CleanupExpired
    \/ Cleanup
    \/ Tick /\ UNCHANGED allowedIPs

ManagerSpec == ClockInit /\ ManagerInit /\ [][ManagerNext]_managerVars

----
ManagerTypeOK == allowedIPs \in [IPs -> Nat \cup {NoEntry}]

(* A grant is never cut short: a step that leaves an address with an        *)
(* earlier expiry than before, or without an entry, either found the entry  *)
(* no longer valid or took it away on purpose (RemoveIP, Cleanup).          *)
GrantNeverShortened ==
    [][\A ip \in IPs : Valid(ip) =>
          \/ allowedIPs'[ip] >= allowedIPs[ip]
          \/ RemoveIP(ip)
          \/ Cleanup]_managerVars

====
