---- MODULE MCMonitor ----
EXTENDS DNSServer, TLC

CONSTANTS ip1, ip2, d1, d2, h1

A(ip, ttl) == [ip |-> ip, ttl |-> ttl]

\* One answer for each domain.  They share an address, which the domain that is not
\* configured names with a shorter TTL.
StableAnswers == (d1 :> {{A(ip1, 4)}}) @@ (d2 :> {{A(ip1, 1), A(ip2, 4)}})

\* The configured domain's TTL is shorter than the refresh interval.
ShortAnswers == (d1 :> {{A(ip1, 1)}}) @@ (d2 :> {{A(ip2, 1)}})

====
