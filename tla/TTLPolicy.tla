---- MODULE TTLPolicy ----
(***************************************************************************)
(* How DNSResolver.ResolveWithTTL turns the TTLs of an answer's A records  *)
(* into the one TTL that the cache, the firewall and the reply use: the    *)
(* least of them and of a cap that the code calls a default, raised to     *)
(* MinTTL, then lowered to MaxTTL.                                         *)
(***************************************************************************)
EXTENDS Integers

CONSTANTS
    TTLCap,     \* the initial value of minTTL, 300 seconds
    MinTTL,     \* Config.MinTTL
    MaxTTL      \* Config.MaxTTL; nothing makes it at least MinTTL

ASSUME TTLAssumption == TTLCap \in Nat /\ MinTTL \in Nat /\ MaxTTL \in Nat

Least(S) == CHOOSE m \in S : \A s \in S : m <= s

\* The loop over the answers: minTTL starts at the cap and only goes down.
MinimumTTL(ttls) == Least(ttls \cup {TTLCap})

\* The bounds are applied in this order, so the upper one has the last word.
AtLeastMin(ttl) == IF ttl < MinTTL THEN MinTTL ELSE ttl
AtMostMax(ttl)  == IF ttl > MaxTTL THEN MaxTTL ELSE ttl

\* Variant: the upper bound is left out.
NoUpperBound(ttls) == AtLeastMin(MinimumTTL(ttls))

EffectiveTTL(ttls) == AtMostMax(AtLeastMin(MinimumTTL(ttls)))

====
