---------------------------- MODULE PacketFilter ----------------------------
(***************************************************************************)
(* The kernel's side of the eBPF variant: the maps of common.h, the program *)
(* that learns addresses from DNS responses (dns_intercept.c) and the one  *)
(* that filters packets (xdp_conn_filter of conn_filter.c).                *)
(*                                                                         *)
(* Both object files include common.h, so each load of each of them makes  *)
(* maps of its own.  An address is the number that user space makes of it; *)
(* a program reads the same bytes out of a packet as another number, on a  *)
(* little-endian machine the one in the opposite byte order.               *)
(***************************************************************************)
EXTENDS Naturals, FiniteSets

CONSTANTS
    IPs,
    Swapped,            \* what a program reads for an address
    AlwaysAllowed,      \* the numbers in the localhost and private ranges
    LeastTTL, MostTTL,  \* 5 seconds and 24 hours
    AnswerTTLs,         \* TTLs of DNS answers
    Capacity,           \* max_entries of ip_whitelist
    NoEntry, NoProgram, NoKey,
    MaxTime             \* bound: the clock stops here

ASSUME FilterAssumption ==
    /\ Swapped \in [IPs -> IPs] /\ \A ip \in IPs : Swapped[Swapped[ip]] = ip
    /\ LeastTTL \in Nat /\ MostTTL \in Nat /\ LeastTTL <= MostTTL
    /\ AnswerTTLs \subseteq Nat
    /\ NoEntry \notin Nat
    /\ MaxTime \in Nat

VARIABLES
    uptime,         \* bpf_ktime_get_ns()
    whitelist,      \* ip_whitelist of every load: when an entry expires
    servers,        \* allowed_dns_servers of every load
    attached,       \* the program on the interface and the load it comes from
    doomed          \* the map and key that the filter has found expired and will delete

filter == <<uptime, whitelist, servers, attached, doomed>>

Loads == {1, 2}     \* Setup runs at most twice
Maps == Loads \X {"dns", "conn"}

Learners == {"dns_intercept", "dns_intercept_v6"}
XDPPrograms == Learners \cup {"xdp_conn_filter"}

Has(m, key) == whitelist[m][key] # NoEntry

\* bpf_map_update_elem and bpf_map_delete_elem.
Fits(m, key) == Has(m, key) \/ Cardinality({k \in IPs : Has(m, k)}) < Capacity
Put(m, key, expiry) == whitelist' = [whitelist EXCEPT ![m][key] = expiry]
Remove(m, key) == whitelist' = [whitelist EXCEPT ![m][key] = NoEntry]

----
(* The connection filter.                                                  *)
Attached(progs) == attached # NoProgram /\ attached.prog \in progs
ReadMap == <<attached.load, IF attached.prog \in Learners THEN "dns" ELSE "conn">>

\* A packet, and which of its ports are 53: a query goes to it, a response comes from it.
Packets == [dst : IPs, src : IPs, ports : {"other", "query", "response", "both"}]

Stale(m, key) == Has(m, key) /\ uptime > whitelist[m][key]

is_ip_allowed(m, key) == key \in AlwaysAllowed \/ (Has(m, key) /\ ~Stale(m, key))

is_dns_traffic_valid(m, p) ==
    \/ p.ports = "query" /\ Swapped[p.dst] \in servers[m]
    \/ p.ports = "response" /\ Swapped[p.src] \in servers[m]
    \/ p.ports = "both"

\* XDP_PASS.
Passes(m, p) == IF p.ports = "other" THEN is_ip_allowed(m, Swapped[p.dst])
                                     ELSE is_dns_traffic_valid(m, p)

\* A packet finds the entry of its destination expired and is dropped.  The entry goes
\* a moment later, whatever has become of it.
xdp_conn_filter ==
    /\ Attached({"xdp_conn_filter"})
    /\ doomed = NoKey
    /\ \E p \in Packets : LET key == Swapped[p.dst] IN
          /\ p.ports = "other" /\ key \notin AlwaysAllowed /\ Stale(ReadMap, key)
          /\ doomed' = <<ReadMap, key>>
    /\ UNCHANGED <<uptime, whitelist, servers, attached>>

DeleteExpired ==
    /\ doomed # NoKey
    /\ Remove(doomed[1], doomed[2])
    /\ doomed' = NoKey
    /\ UNCHANGED <<uptime, servers, attached>>

----
(* The DNS program.                                                        *)
\* Variant: answers are kept for as long as they say.
AtLeast(ttl) == IF ttl < LeastTTL THEN LeastTTL ELSE ttl

Clamped(ttl) == IF ttl < LeastTTL THEN LeastTTL ELSE IF ttl > MostTTL THEN MostTTL ELSE ttl

\* One answer of a response; an entry it finds is overwritten.
dns_intercept ==
    /\ Attached(Learners)
    /\ \E ip \in IPs, ttl \in AnswerTTLs :
          /\ Fits(ReadMap, Swapped[ip])
          /\ Put(ReadMap, Swapped[ip], uptime + Clamped(ttl))
    /\ UNCHANGED <<uptime, servers, attached, doomed>>

TimePasses ==
    /\ uptime < MaxTime /\ uptime' = uptime + 1
    /\ UNCHANGED <<whitelist, servers, attached, doomed>>

\* The interface goes, and with it the attachment; another one takes its name.
InterfaceReplaced ==
    /\ attached # NoProgram
    /\ attached' = NoProgram
    /\ UNCHANGED <<uptime, whitelist, servers, doomed>>

FilterInit ==
    /\ uptime = 0
    /\ whitelist = [m \in Maps |-> [key \in IPs |-> NoEntry]]
    /\ servers = [m \in Maps |-> {}]
    /\ attached = NoProgram
    /\ doomed = NoKey

FilterNext ==
    xdp_conn_filter \/ DeleteExpired \/ dns_intercept \/ TimePasses \/ InterfaceReplaced

FilterTypeOK ==
    /\ uptime \in 0..MaxTime
    /\ whitelist \in [Maps -> [IPs -> Nat \cup {NoEntry}]]
    /\ servers \in [Maps -> SUBSET IPs]
    /\ attached \in {NoProgram} \cup [prog : XDPPrograms, load : Loads]
    /\ doomed \in {NoKey} \cup (Maps \X IPs)

=============================================================================
