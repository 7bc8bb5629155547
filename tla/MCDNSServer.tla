---- MODULE MCDNSServer ----
EXTENDS DNSServerAudit, TLC

CONSTANTS ip1, ip2, d1, d2, h1

A(ip, ttl) == [ip |-> ip, ttl |-> ttl]

\* The configured domain moves between two addresses and changes its TTL, one of them
\* below MinTTL, one above the cap; the other domain shares an address with it.
MovingAnswers == (d1 :> {{A(ip1, 0)}, {A(ip1, 3), A(ip2, 2)}}) @@ (d2 :> {{A(ip2, 9)}})

====
