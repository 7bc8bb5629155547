---- MODULE DomainCache ----
(***************************************************************************)
(* The cache of resolved domains: a map from a domain to its last answer.  *)
(* A domain that has no record maps to NoRecord, whose expiry lies before  *)
(* every instant, so a lookup never returns it.                            *)
(***************************************************************************)
EXTENDS Environment

CONSTANT Domains

VARIABLE records    \* DomainCache.records

Record == [ips : SUBSET IPs, ttl : Nat, expiresAt : Int]

NoRecord == [ips |-> {}, ttl |-> 0, expiresAt |-> -1]

CacheInit == records = [d \in Domains |-> NoRecord]

\* Variant: a record is returned as long as the cleanup loop has left it.
Kept(d) == records[d] # NoRecord

\* DomainCache.Get returns a record: there is one and it is not past its expiry.
Hit(d) == now <= records[d].expiresAt

\* Get's record, as the resolver uses it.  A hit returns the TTL that the record
\* was stored with and not what is left of it.
HitIPs(d) == records[d].ips

\* Variants: what is left of the record's TTL, and the same less one.
RemainingTTL(d) == records[d].expiresAt - now
RemainingLessOne(d) == records[d].expiresAt - now - 1

HitTTL(d) == records[d].ttl

\* DomainCache.Set replaces whatever the domain had.
SetRecord(d, ips, ttl) ==
    records' = [records EXCEPT
                  ![d] = [ips |-> ips, ttl |-> ttl, expiresAt |-> now + ttl]]

\* One pass of DomainCache.cleanupLoop.
DropExpired ==
    records' = [d \in Domains |->
                  IF now > records[d].expiresAt THEN NoRecord ELSE records[d]]

====
