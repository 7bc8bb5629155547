---------------------------- MODULE EBPFManager ----------------------------
(***************************************************************************)
(* The eBPF manager (ebpf/manager.go) and its use in main.go: main sets it *)
(* up once to see whether eBPF works, falls back to iptables when it does  *)
(* not, and then sets its firewall manager up again.  Handlers of DNS      *)
(* queries call AllowIPWithTTL while main may be cleaning up.              *)
(*                                                                         *)
(* The library keeps programs by the names of their C functions.  Setup    *)
(* asks for the names of their sections, finds none and takes any program. *)
(* Were they found, the first of them would be taken: the model's choice   *)
(* has it among its outcomes.  The interface takes one XDP program, so the *)
(* second attachment of Setup never succeeds, and that is but a warning.   *)
(***************************************************************************)
EXTENDS PacketFilter

CONSTANTS
    TTLs,           \* TTLs that callers grant, the default among them
    DNSServers,     \* Config.DNSServers
    MaxServers,     \* max_entries of allowed_dns_servers
    BootTime,       \* time.Now() when the machine started
    NoMap, NoCall

ASSUME ManagerAssumption ==
    /\ TTLs \subseteq Nat
    /\ DNSServers \subseteq IPs
    /\ BootTime \in Nat
    /\ NoMap \notin Maps
    /\ NoKey \notin Maps \X IPs

VARIABLES
    mode,       \* where main is
    mgr,        \* the Manager
    freed,      \* the maps that Collection.Close has closed
    call,       \* AllowIPWithTTL, between its check and its Put
    promised    \* history: until when the last grant of an address is to last

vars == <<filter, mode, mgr, freed, call, promised>>

Now == BootTime + uptime    \* time.Now()

\* maps: the collection whose maps the manager holds; collection: the load that Close
\* closes, none for 0; links: the loads whose program it has attached.
ManagerState ==
    [maps : Maps \cup {NoMap}, collection : {0} \cup Loads, links : SUBSET Loads,
     closed : BOOLEAN]

NewManager == [maps |-> NoMap, collection |-> 0, links |-> {}, closed |-> FALSE]

----
(* Setup, for the n-th time.  The maps of the connection filter replace    *)
(* those of the DNS program in the manager.                                *)
\* Variant: what was attached before is forgotten.
OnlyNewLinks(n) == [mgr EXCEPT !.maps = <<n, "conn">>, !.collection = n, !.links = {}]

\* Variant: the collection that was loaded last is the one to close.
ClosesFilter(n) == [mgr EXCEPT !.maps = <<n, "dns">>, !.collection = n]

Loaded(n) == [mgr EXCEPT !.maps = <<n, "conn">>, !.collection = n]

\* A file is missing or the first one does not load; the second one does not load; there
\* is no such interface, or it does not take the program.
FailedSetups(n) == {mgr, [mgr EXCEPT !.maps = <<n, "dns">>], Loaded(n)}

\* Variant: the interface takes a socket filter, too.
AnyProgram == XDPPrograms \cup {"socket_conn_filter"}

\* Setup may come upon any program; an interface takes only those for XDP.
Attachable == XDPPrograms

\* Servers that do not fit into the map are left out with a warning.
SetupSucceeds(n) ==
    /\ attached = NoProgram
    /\ mgr' = [Loaded(n) EXCEPT !.links = @ \cup {n}]
    /\ \E prog \in Attachable : attached' = [prog |-> prog, load |-> n]
    /\ \E s \in SUBSET DNSServers :
          /\ Cardinality(s) <= MaxServers
          /\ servers' = [servers EXCEPT ![<<n, "conn">>] = s]

\* Cleanup of a manager in state m: its links go, and with them its program.
Closed(m) ==
    /\ mgr' = [m EXCEPT !.closed = TRUE, !.links = {}, !.collection = 0]
    /\ attached' = IF attached # NoProgram /\ attached.load \in m.links THEN NoProgram
                                                                        ELSE attached
    /\ freed' = freed \cup {mp \in Maps : mp = <<m.collection, "dns">>}

----
(* main.                                                                   *)
\* The program file is missing, or the memory limit cannot be lifted.
FallBack ==
    /\ mode = "start"
    /\ mode' = "iptables"
    /\ UNCHANGED <<filter, mgr, freed, call, promised>>

FirstSetup ==
    /\ mode = "start"
    /\ mode' = "again"
    /\ SetupSucceeds(1)
    /\ UNCHANGED <<uptime, whitelist, doomed, freed, call, promised>>

FirstSetupFails ==
    /\ mode = "start"
    /\ mode' = "iptables"
    /\ \E m \in FailedSetups(1) : Closed(m)
    /\ UNCHANGED <<uptime, whitelist, doomed, servers, call, promised>>

\* main goes on whether the second Setup succeeds or not.
SecondSetup ==
    /\ mode = "again"
    /\ mode' = "serving"
    /\ \/ SetupSucceeds(2)
       \/ mgr' \in FailedSetups(2) /\ UNCHANGED <<servers, attached>>
    /\ UNCHANGED <<uptime, whitelist, doomed, freed, call, promised>>

\* main's deferred Cleanup; handlers may still be at work.
Cleanup ==
    /\ mode = "serving"
    /\ mode' = "stopped"
    /\ Closed(mgr)
    /\ UNCHANGED <<uptime, whitelist, doomed, servers, call, promised>>

----
(* The operations.                                                         *)
Usable == mode \in {"serving", "stopped"} /\ ~mgr.closed /\ mgr.maps # NoMap

\* Variant: the map holds how long an entry lasts.
Duration(ttl) == ttl

Expiry(ttl) == Now + ttl

\* AllowIP is AllowIPWithTTL with the default TTL.
AllowIPWithTTL(ip, ttl) ==
    /\ Usable
    /\ call = NoCall
    /\ call' = [map |-> mgr.maps, ip |-> ip, expiry |-> Expiry(ttl), until |-> Now + ttl]
    /\ UNCHANGED <<filter, mode, mgr, freed, promised>>

\* The grant succeeds; the entry that was there is overwritten.
PutEntry ==
    /\ call # NoCall
    /\ call.map \notin freed
    /\ Fits(call.map, call.ip)
    /\ Put(call.map, call.ip, call.expiry)
    /\ promised' = [promised EXCEPT ![call.ip] =
                       IF doomed = <<call.map, call.ip>> THEN 0 ELSE call.until]
    /\ call' = NoCall
    /\ UNCHANGED <<uptime, servers, doomed, attached, mode, mgr, freed>>

PutFails ==
    /\ call # NoCall
    /\ call' = NoCall
    /\ UNCHANGED <<filter, mode, mgr, freed, promised>>

RemoveIP(ip) ==
    /\ Usable
    /\ Remove(mgr.maps, ip)
    /\ promised' = [promised EXCEPT ![ip] = 0]
    /\ UNCHANGED <<uptime, servers, doomed, attached, mode, mgr, freed, call>>

AllowDNSServer(ip) ==
    /\ Usable
    /\ Cardinality(servers[mgr.maps] \cup {ip}) <= MaxServers
    /\ servers' = [servers EXCEPT ![mgr.maps] = @ \cup {ip}]
    /\ UNCHANGED <<uptime, whitelist, doomed, attached, mode, mgr, freed, call, promised>>

RemoveDNSServer(ip) ==
    /\ Usable
    /\ servers' = [servers EXCEPT ![mgr.maps] = @ \ {ip}]
    /\ UNCHANGED <<uptime, whitelist, doomed, attached, mode, mgr, freed, call, promised>>

Init ==
    /\ FilterInit
    /\ mode = "start"
    /\ mgr = NewManager
    /\ freed = {}
    /\ call = NoCall
    /\ promised = [ip \in IPs |-> 0]

Kernel == FilterNext /\ UNCHANGED <<mode, mgr, freed, call, promised>>

Next ==
    \/ FallBack \/ FirstSetup \/ FirstSetupFails \/ SecondSetup \/ Cleanup
    \/ \E ip \in IPs, ttl \in TTLs : AllowIPWithTTL(ip, ttl)
    \/ PutEntry \/ PutFails
    \/ \E ip \in IPs : RemoveIP(ip) \/ AllowDNSServer(ip) \/ RemoveDNSServer(ip)
    \/ Kernel

Spec == Init /\ [][Next]_vars

----
TypeOK ==
    /\ FilterTypeOK
    /\ mode \in {"start", "iptables", "again", "serving", "stopped"}
    /\ mgr \in ManagerState
    /\ freed \subseteq Maps
    /\ call = NoCall \/ call \in [map : Maps, ip : IPs, expiry : Nat, until : Nat]
    /\ promised \in [IPs -> Nat]

(* Once the manager is cleaned up, or main has fallen back to iptables,    *)
(* nothing of it is on the interface any more, though Setup ran twice and  *)
(* either of its calls may have failed at any point.                       *)
NothingLeftAttached == mgr.closed \/ mode = "iptables" => attached = NoProgram

(* A grant that is under way when main cleans up does not write to a map   *)
(* that Cleanup has closed: what Cleanup closes is the collection of the   *)
(* DNS program, and the manager's maps are never of that one.              *)
MapStaysOpen == call # NoCall => call.map \notin freed

(* An address keeps its entry for as long as it was last granted, though   *)
(* user space counts in time.Now() and the filter, which deletes entries,  *)
(* in time since the start of the machine.  The exception is a grant that  *)
(* the filter meets between its look at the old entry and the deletion:    *)
(* the new entry goes with it, and nothing is promised.                    *)
LastGrantKept == \A ip \in IPs : promised[ip] > Now => Has(mgr.maps, ip)

(* The map of the DNS program holds nothing for longer than the program's  *)
(* upper bound: no grant of user space, whose clock is ahead, lands there. *)
LearnedWithinBounds == Attached(Learners) =>
    \A key \in IPs : Has(ReadMap, key) => whitelist[ReadMap][key] <= uptime + MostTTL

(* "This is an outbound DNS query - destination must be allowed DNS        *)
(* server" (common.h:226), and "For DNS traffic to configured servers, it  *)
(* should pass" (main_test.go:647): the attached filter passes a query if  *)
(* and only if user space has put its destination into the map of servers. *)
QueriesGoToServers == Attached({"xdp_conn_filter"}) =>
    \A p \in Packets : p.ports = "query" => (Passes(ReadMap, p) <=> p.dst \in servers[ReadMap])

(* "AllowIPWithTTL adds an IP to the whitelist with TTL" (manager.go:176): *)
(* as long as the last grant of an address lasts, the attached filter lets *)
(* packets for it through.                                                 *)
GrantReachesFilter == Attached({"xdp_conn_filter"}) =>
    \A p \in Packets : p.ports = "other" /\ promised[p.dst] > Now => Passes(ReadMap, p)

=============================================================================
