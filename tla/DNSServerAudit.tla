---- MODULE DNSServerAudit ----
(***************************************************************************)
(* DNSServer with a memory of what the upstream server said: for every     *)
(* address, the latest instant until which an answer that named it was     *)
(* good.  The history variable reads the cache's updates and changes       *)
(* nothing.                                                                *)
(***************************************************************************)
EXTENDS DNSServer, FiniteSetsExt

VARIABLE dnsExpiry      \* the latest expiry of a cache record that named the address

auditVars == <<now, records, allowedIPs, task, nextRefresh, dnsExpiry>>

AuditInit == Init /\ dnsExpiry = [ip \in IPs |-> -1]

Naming(ip) == {d \in Domains : ip \in records'[d].ips}

Observe ==
    dnsExpiry' = [ip \in IPs |->
                    Max({dnsExpiry[ip]} \cup {records'[d].expiresAt : d \in Naming(ip)})]

AuditNext == Next /\ Observe

AuditSpec == AuditInit /\ [][AuditNext]_auditVars

AuditFairSpec == AuditSpec /\ Fairness

----
(* An address stays allowed past the time its DNS answers were good for, but *)
(* not for longer than one more TTL and the time that a task takes: the      *)
(* cache may hand the full TTL out again until its record expires, and what  *)
(* is granted then is the last grant.                                        *)
StaleBound == \A ip \in IPs :
    allowedIPs[ip] # NoEntry => allowedIPs[ip] <= dnsExpiry[ip] + MaxTTL + MaxLag

(* README.md:8: "Automatically allows IPs for the duration of their DNS      *)
(* TTL".  An address is not allowed past the TTL of its last answer, but for *)
(* the time that a task takes.                                               *)
AllowedForDNSTTL == \A ip \in IPs :
    allowedIPs[ip] # NoEntry => allowedIPs[ip] <= dnsExpiry[ip] + MaxLag

====
