# Verification of egress-domain-whitelist

TLA+ modules, model-checking configurations and machine-checked proofs for the DNS egress
control program (`src/main.go`), its eBPF variant (`src/ebpf`), the configuration server
(`src/config-server`) and the host agent (`src/host-agent`).

`tlc -config X.cfg M` runs a check, `tlapm M_proofs.tla` checks proofs. `PROJECT.json` lists
every run, the properties it checks, the source lines behind every definition, the variants
that show each property can fail, the findings, the hazards and the theorems.

## 1. Inventory

| Component | Source | State | Operations | Talks to |
|---|---|---|---|---|
| DNS server | `main.go` 624-757, 828-854 | one goroutine per query, the refresh loop, main's own pre-resolution | `HandleDNS`, `DomainMonitor`, pre-resolve | resolver, firewall manager |
| Resolver and TTL policy | `main.go` 106-197 | none | `ResolveWithTTL` | cache, upstream DNS |
| Domain cache | `main.go` 22-103 | `records`: domain to addresses, TTL, expiry | `Get`, `Set`, `cleanupLoop` | the clock |
| Firewall manager (contract) | `main.go` 200-208, 436-541 | `allowedIPs`: address to expiry | `AllowIPWithTTL`, `AllowIP`, `RemoveIP`, `CleanupExpired`, `Cleanup` | callers above |
| iptables manager | `main.go` 217-429, 778-826 | `allowedIPs`, and the kernel's chain beside it | the same, as iptables commands; `Setup` | iptables |
| eBPF manager | `ebpf/manager.go`, `main.go` 785-828 | BPF maps, links, `closed` | `Setup`, the same as map updates, DNS servers, `Cleanup` | kernel programs |
| Packet filter | `ebpf/src`, `ebpf/include` | BPF maps | socket, XDP and cgroup hooks, DNS interception | eBPF manager |
| WebSocket hub | `config-server/internal/api/websocket.go` | `Clients`, `HostClients`, channels | register, unregister, broadcast, `SendToHost`, pumps | API handlers, agents |
| Host and assignment API | `config-server/internal/api`, `db` | hosts, groups, configurations (SQLite) | registration, assignment, effective configuration | hub |
| Sessions | `config-server/internal/auth` | sessions with expiry | login, logout, cleanup | API middleware |
| Agent client (does not compile) | `host-agent/internal/config/client.go` | connection flags, channels | connect, read loop, reconnect, keepalive | hub, configuration manager |
| Agent configuration manager (does not compile) | `host-agent/internal/config/manager.go` | current configuration, source, time | `SetConfig`, load, save | eBPF manager of the agent |

What makes each of them correct:

* DNS server: a reply names only addresses that are open for as long as it says; every query is
  answered; configured domains stay open; nothing stays open for much longer than DNS allows.
* Cache and TTL policy: a hit is a record in force; a TTL lies within the configured bounds.
* Firewall managers: a grant is never cut short, expired entries go, map and kernel agree, a
  stop leaves nothing behind, a restart copes with what a crash left.
* Hub: Run survives and never waits for a client; a connected host is reachable; a connection
  that ends gets no more broadcasts and is not found under its host.
* Host and assignment API: a name has one host and an ID one host for ever; a reference names a
  configuration that exists; an assignment changes for a reason.
* Sessions: a session is refused once it is deleted or expired.
* eBPF manager and packet filter: user space, the DNS program and the filter agree on keys,
  maps and clock; a grant lasts; nothing stays on the interface.

Section 7 says what is left out, and why.

What makes this code hard: addresses are shared by domains and granted by several goroutines
with TTLs read earlier; the cache, the manager's map and the kernel are three records of one
fact that are updated in separate steps; kernel rules outlive the process; connections come and
go while handlers send to them; the configuration server's handlers read a row, change a copy and
write every column back, with no transaction around them; the eBPF manager is set up twice, and
shares its maps with programs that read them in another byte order and by another clock.

## 2. Modules

```
Environment            the clock and the addresses
 ├─ DomainCache        DomainCache of main.go
 ├─ MockFirewallManager  the contract of the FirewallManager interface
 ├─ IPTablesManager    manager + kernel chain; implements MockFirewallManager
TTLPolicy              the clamping of TTLs
DNSServer              = DomainCache + MockFirewallManager + TTLPolicy + tasks
 └─ DNSServerAudit     + a history variable: until when answers were good
Hub                    the WebSocket hub, its pumps and its callers
Directory              what the hosts table promises
ConfigServer           the handlers, the tables; implements Directory
PacketFilter           the BPF maps, the connection filter, the DNS program
 └─ EBPFManager        + the manager and main's use of it
IPTablesManager_proofs, Hub_proofs, ConfigServer_proofs, EBPFManager_proofs
DNSServer_proofs       types, TTLs, the steps of a task
 ├─ DNSServer_coverage_proofs    what is answered is open
 │   └─ DNSServer_monitor_proofs   configured domains stay open
 └─ DNSServerAudit_proofs        nothing stays open for long
MCIPTables, MCDNSServer, MCMonitor, MCHub, MCConfigServer, MCEBPFManager   values for TLC
```

**Environment.** `now` is `time.Now()` in ticks. An instant or a duration is a number of ticks,
so the strict and the non-strict comparisons of the code (`After`, `Before`) keep their meaning
at the boundary.

**MockFirewallManager** is the in-memory manager of the code, taken as the abstract
specification of `FirewallManager`. A total function with `NoEntry` stands for the Go map.

**IPTablesManager** runs the iptables commands of the code one after the other against a model
of the chain (`kernel`: does it exist, ACCEPT rules per address, DROP rules, jumps from OUTPUT).
Every operation holds the manager's mutex throughout and is one step, except that the process
may die between two commands of `Setup` and of `Cleanup` (`CrashInSetup`, `CrashInCleanup`).
iptables is external. Two constants say how it behaves: `SuffixAccepted`, whether it carries
out a command that has `2>/dev/null || true` among its arguments (`runCommand` uses no shell,
so they do reach iptables; the code's author expects the command to be carried out), and
`CommandsMayFail`, whether a command that could be carried out may fail. In the run `iptables` it
may, any command at any time. `faults` is a history variable: the addresses, and the chain, that
a command of this process has failed for. The code ignores most failures, so what they leave is
exempted from the properties of the kernel's rules, and only that: a failed insertion after a
deletion (`main.go:324-327`) is a step of the model, and must not take more than its own address
out of step. An iptables that refuses the suffix refuses the first command of `Setup`
(`main.go:260`): no process ever filters, which is the theorem `RefusedNeverFilters`. The real one
does refuse it, and the properties of the kernel's rules say what holds once that is mended or
where an iptables puts up with it.

**DNSServer.** Each goroutine is a task with a program counter. A step is what a task does under one
lock or between two waits: the cache lookup, the exchange and the cache update that follows it, one
`AllowIPWithTTL`, the reply. Configured domains are taken in any order. The ticker of the refresh
loop holds at most one tick, as Go's does. A handler serves one query at a time; one handler next to
the refresh loop and the pre-resolution already makes three tasks that interleave.

**Hub.** Run, the read pump and the write pump of every connection, and HTTP handlers in
`SendToHost`, with the channels between them. A rendezvous on an unbuffered channel is one step;
Run's broadcast loop takes one step per client and keeps the lock for reading meanwhile, so that
look-ups and pumps interleave with it. Messages are counted, not told apart. `process` records
what ended the process: a panic in a pump (an answer to a ping on a channel the hub has closed),
the detected race of `Drop` and `LookUp` on `HostClients`, or a panic in Run, which must not
happen. A connection begins with the host that `handleWebSocket` finds for it, `ConnHost`, to
which the authentication is reduced, or with none. From then on any peer, a browser too, may name
any ID in `register_host`, as often as it likes (`hostID`); the pump writes it before it waits
for the lock, and enters the client under it then (`ReadRegisterHost`, `EnterHost`). The entry under
an earlier name stays, after the client is gone too, and maps a host to a closed channel: a
handler that finds it panics and is recovered from (`SendPanics`). The entry of ID 0 is left
out, because handlers look up hosts that exist.

**ConfigServer.** A request is a goroutine. Its first step is the handler up to the end of its
first read (`RegisterHost`, `AssignHostToGroup`, ...), and every statement after that is a step of
its own: `ValidateConfig` and `JoinGroup` read again, `CreateHost`, `SaveHost`, `RemoveHost` and
their like for groups write, and any of them may fail and end the request with an error (`Fails`).
`req` holds the copy of the row that the handler carries from its read to its write, so an
update may write what is out of date. `was` is the assignment that the row had when it was read,
for a request that asks for no other. Requests that are refused by what they read first change
nothing and are left out.

IDs are AUTOINCREMENT: `Free` and `Gone` tell an ID that was never given out from one that was, as
sqlite does. Foreign keys are switched on by a PRAGMA (`database.go:36`), which holds for one
connection only: `bare` says that the pool has opened another one, and then any statement may run
with or without them. A restart keeps the tables and loses requests and connections. `Directory` is
the abstract specification of the hosts table: names with at most one entry, IDs that are never
given out twice. The refinement maps live rows to entries and IDs that are not `Free` to `spent`.

**PacketFilter.** Every load of each of the two object files has maps of its own, a total function
from addresses to expiry times each. The connection filter finds an entry expired and deletes it a
moment later (`doomed`), as the lookup and the deletion are two calls of the kernel. `Swapped` is
what an XDP program reads for an address that user space wrote: the filter loads the bytes of the
packet as a number of the machine, while user space writes the big-endian number. Constants let it
be either: with the two in different orders the list of DNS servers does not do what it is for
(`ebpf_dns`). The filter counts in `uptime`, user space in `BootTime + uptime`.

**EBPFManager.** main sets a manager up, falls back to iptables if that fails, and sets the
same manager up again as its firewall (`main.go:797`, `main.go:818`). The cilium/ebpf library is
external and modelled as it is used: it names programs by their C functions, `Setup`
asks for section names and then takes whatever program the map yields first, so the program on
the interface is any of the XDP ones; an interface takes one XDP program. `Setup` may stop at
each of its errors (`FailedSetups`), after it has replaced the manager's maps. A grant is a check of
`closed` and a Put, with everything else in between, `Cleanup` included. The interface may be
replaced, and the attachment goes with it.

## 3. What the runs show

| Run | Shows | Bounds |
|---|---|---|
| `iptables` | Commands may fail. `KernelInStep`: while filtering, the DROP and the jump stay, and the kernel has exactly one ACCEPT per entry, but for addresses whose own commands failed. `EntryHasRule`: an entry has a rule even in DNS-only mode over a chain left by a crash, with the same exception. `ShutdownLeavesNothing`: nothing stays behind a stop unless a command on the chain failed. `GrantNeverShortened`. `ImplementsContract`: the map refines `MockFirewallManager`. `ExpiredRuleGoes` (liveness). | 2 addresses, TTLs 1 and 2, default 3, clock to 4: an entry can be granted, extended, expire and be granted again, over two process lives |
| `iptables_setup` | violation: `Setup` does not tolerate an existing chain, against the comment at main.go:258 | as above, clock to 2 |
| `dnsserver` | `CacheCovered`: what a cache hit can hand out is allowed until the record expires, or the task that resolved it has still to allow it. `ReplyCovered`: when a reply leaves, its addresses are open for the TTL it states, counted from the query. `FirewallHorizon`: nothing is open beyond `MaxTTL` from now. `StaleBound`: nothing is open longer than one more TTL after its last answer. `QueryAnswered`, `ExpiredEntryGoes` (liveness). | 2 addresses shared by 2 domains, answers that change their addresses and TTLs (0, below, above the bounds), one handler, clock to 4, a task spends at most 1 tick on a domain, upstream may fail for any domain |
| `dns_ttl` | violation: an address stays open past the TTL of its answer (README.md:8), because a hit hands out the full TTL | no lag at all |
| `monitor` | `MonitoredStaysAllowed`: TTL 4, refresh every 2, lag 1: a configured domain's addresses are never closed, though an unconfigured domain, which may fail, grants one of them for less | clock to 8: four refreshes |
| `monitor_lapse` | violation: with TTL 1 and refresh every 3 the addresses lapse between refreshes, against main.go:715 and README.md:130 (the defaults are a minimum TTL of 5 s and a refresh of 300 s) | no lag |
| `hub` | `HubNeverPanics`, `LastHostForgotten`: after its Unregister a connection is in no broadcast and not under the host it named last, though a dropped client may still name one. `LeavingConnectionLeaves`, `DroppedConnectionCloses` (liveness): Run never waits for a pump, and a dropped connection's socket closes and its pump leaves. No deadlock check: a process that panicked has stopped, and each connection is made once | 2 connections, one per host, either of which may name the first host; buffers of 1, one handler |
| `hub_reconnect` | violation: the Unregister of an old connection removes the entry of the new one | 2 connections of one host, buffers of 1, one handler |
| `registry` | `NoForwardReference`: no row names a configuration before it is created, nor does one that a request is about to write. `SoundOnFirstConnection`: with one connection no step leaves a dangling reference, though configurations are deleted between check and write. `AssignmentChangesForAReason`. `HostsAreADirectory`: the table refines `Directory`. No deadlock check: IDs run out | 2 requests, 1 name, 2 host IDs, 2 configurations, a static and a dynamic group; from every sound database of hosts and configurations, groups empty |
| `ebpf` | `NothingLeftAttached`, `MapStaysOpen`: Cleanup closes no map that a grant under way writes. `LastGrantKept`: an entry lasts as long as the last grant, across two clocks. `LearnedWithinBounds`. No deadlock check: the clock stops | 2 addresses, each the other one backwards, one of them private, one of them a server; room for 1 entry and 1 server; TTLs 1 and 2, answers of 0 and 4 against bounds 1 and 2, clock to 4 |
| `ebpf_dns` | violation: the filter drops a query to the configured DNS server and passes one to the address with its bytes reversed, against common.h:226 and main_test.go:647 | as above |
| `ebpf_start` | violation: after main's second Setup a grant lands in a map that no program reads, against manager.go:176 and README.md:43-44 | as above, but addresses read the same both ways, room for 2 |

`registry` needs two requests for a stale write (one reads, one writes, the first writes), two IDs
of one name for a race of registrations and for an ID that is not given out again, and two
configurations for a change from one to the other. `ebpf` needs one entry too many for one map, a
grant on each side of an expiry and a clock that passes the longest grant once more.

Bounds are constants: `MaxTime` stops the clock, `MaxRules` caps the ACCEPT rules of one address
(reached in DNS-only mode over a leftover chain and after deletions that failed), `MaxLag` is the
time a task spends on one domain and the lateness of the refresh loop.

A DNS TTL of the model is a number of ticks where the code has seconds; only comparisons and sums
matter. The refusal of an address by the manager is `FailingIPs`: `CacheCovered`, `ReplyCovered`
and `MonitoredStaysAllowed` speak of the other addresses, since the code logs the error and
answers all the same. `monitor` runs with such an address.

## 4. Fairness

`IPTablesManager`: weak fairness of `CleanupExpired`, the 30 s ticker. `DNSServer`: weak fairness
of each task's work (the Go scheduler runs what can run, and the DNS client has a timeout, so an
exchange ends), of each reply, of the tickers and of the clock. No fairness for the arrival of
queries, for crashes or for operations of callers. `Hub`: weak fairness of Run's broadcasts and of
the write pumps, and of reads and writes that fail because the socket is closed; strong fairness
of Unregister and of the pumps that wait at a channel, because Go's select picks at random among
ready channels and a channel serves its waiting senders in turn. None for what peers send.
`ConfigServer` and `EBPFManager` state no fairness and no liveness: a request may be lost with its
client, and nothing in the manager waits for anything.

## 5. Proofs

All theorems hold for every value of the constants that satisfies the named assumptions
(`MaxTimeAssumption`, `TTLAssumption`, `ManagerTTLAssumption`, `ServerAssumption`,
`IPTablesAssumption`, `HubAssumption`, `FilterAssumption`, `ManagerAssumption`). Those of
`ConfigServer` and `EBPFManager` say that the values which stand for "none" are not rows or maps.

* `IPTablesManager_proofs`. `EntriesTyped`: the map keeps its type. `ContractImplemented`: the
  initial states map to initial states of `MockFirewallManager`, and every step to one of its steps
  or a stutter: `Keep` stutters, `Renew` is `AllowIPWithTTL` or stutters when the insertion failed,
  the end of the process is the contract's `Cleanup`. `GrantsKept` follows from the same case split.
  `KernelTyped` is all of `TypeOK`: the jump from OUTPUT and the final DROP never occur twice.
  `KernelStaysInStep`, `EntriesHaveRules` and `StopLeavesNothing` are the properties of the run.
  None of these theorems assumes anything of iptables: commands may fail, the suffix may be
  refused. One invariant carries the last four, `KernelInv`. `OwnRules` says that a jump or a
  rule needs a chain. A process that is down has an empty map, so whatever `Setup` finds in the
  chain is nobody's. Only a process whose `Setup` went through filters, which needs an iptables
  that takes the suffixes, so that in `filtering` the rules of an address without faults are
  exactly the map, while in `dnsOnly`, over a chain left by a crash, there may be more of them:
  that difference is why `EntryHasRule` is a conjunct of its own. `NeverFilters` is the other
  side of it, and `RefusedNeverFilters` states it with `~SuffixAccepted` as its premise: no chain,
  no entry, no process that filters.
* `DNSServer_proofs`. `EffectiveTTLBounds` on the clamping. `ServerTyped`: `TypeOK` alone is not
  inductive, since a task in `allow` or `exchange` must have a domain (`DomainsNamed`).
  `HorizonHolds`: `FirewallHorizon` needs that the TTLs on their way, in cache records and in
  tasks, are at most `MaxTTL` (`TTLsWithinMax`).
* `DNSServer_coverage_proofs`. `CacheIsCovered`: `CacheCovered` is not inductive, since the task
  that owes an address must also carry a TTL that reaches the record's expiry (`CoveredOrOwed`).
  `RepliesAreCovered`: `AnswersCovered` says of a task in `allow` that every address it has
  passed is open for long enough.
* `DNSServerAudit_proofs`. `StalenessBounded`: `StaleBound`, with no premise. `AuditInv` adds that a
  record expires within `MaxTTL` and no later than what was observed for each of its addresses,
  that a task with an address to allow began before the address's last answer expired
  (`GrantsObserved`), and that the clock waits for a task (`WithinLag`). So a grant comes at
  most `MaxLag` after that expiry, and reaches `MaxTTL` further.
* `DNSServer_monitor_proofs`. `MonitoredDomainsStayAllowed` has a premise on constants,
  `SteadyUpstream`: there are finitely many configured domains, upstream answers for each of them,
  always with the same addresses, and with TTLs that are `EnoughTime`. With `n` domains a TTL must
  reach over `RefreshInterval + (n + 1) * MaxLag`, a late tick and a whole loop, and over
  `(2n + 1) * MaxLag`, two loops in a row, the second of which comes to the domain last, while the
  ticker waits. Both are tight: the instance of `monitor` has the first one exactly, and
  TLC finds a violation with a TTL of one tick less; for the second one it does so with two
  configured domains, one of them with two addresses, an interval and a lag of 1 and TTL 4, and
  none with TTL 5. The invariant `Watched` says for each place of the loop, and for each address
  by what the loop has still to do for it, how long the address must be allowed (`Lasts`):
  until the end of the domains ahead of it, or past the next tick and another loop.
  `Ahead` counts what is left of the current loop. Where main's own
  resolution still has to come to an address `Watched` says nothing; as soon as it has, the grant
  it made is enough wherever the other loop is (`GrantLasts`).
* `Hub_proofs`. `HubSurvives` and `LastHostIsForgotten` from `HubInv`: the channel of a client in
  `Clients` is open, one that Run has not seen is open too, and what Run has still to visit is in
  `Clients`. They hold whichever hosts the peers name, ID 0 among them, which the run's bounds
  leave out. Of entries under earlier names they say nothing, since the code does not remove them.
* `ConfigServer_proofs`. Every property of `registry`, from `ServerInv`: a reference in a table or
  in a row that is about to be written was given out (`Known`); names are unique; a request other
  than a registration holds an ID that was given out, so its write never brings a row to life. The
  refinement maps `CreateHost` to `Add`, `RemoveHost` to `Remove` or, when the row is gone, a
  stutter, and all else to stutters.
* `EBPFManager_proofs`. Every property of `ebpf`, from `EBPFInv`. `Progress` ties what the manager
  and the kernel have to where main is; `MapsApart` says that the manager never holds maps of the
  collection it closes or of the DNS program on the interface (true by the order in which Setup
  fills them, even when it stops half-way); `LoadsEmpty` that the second load finds its maps empty;
  `GrantsHeld` that the entry of a grant carries a time no earlier than the grant and is
  not one the filter is about to delete.

Every invariant and every action property of the passing runs is the statement of a theorem. Only
model-checked are the five liveness properties (`ExpiredRuleGoes`, `QueryAnswered`,
`ExpiredEntryGoes`, `LeavingConnectionLeaves`, `DroppedConnectionCloses`), since the prover knows
neither fairness nor ENABLED, and, by their nature, the violations.

## 6. Plan

Done: the DNS server with its cache, TTL policy and both firewall managers of `main.go`; the hub;
the configuration server's tables; the eBPF manager with the packet filter. Left, in this order:

1. A theorem about the bounds of the resources that a run's constants hide: the number of rules of
   an address in DNS-only mode, and after deletions that failed.
2. The order of messages: two assignments of one host at once, whose messages may arrive in the
   other order than their writes, as a composition of `ConfigServer` and `Hub`. It is worth its size
   when there is an agent that compiles to receive them.
3. `ConfigClient` and `ConfigManager` of the agent, when they compile.

## 7. Not modelled

* The host agent (`src/host-agent`). It does not build, so that there is no behaviour to be faithful
  to: `client.go:194` uses `url.QueryEscape` without importing `net/url`; `client.go:206` sets a
  field that `websocket.Dialer` does not have; `manager.go:285-292` declares a variable `copy`
  and then calls the builtin of that name; `internal/config` imports an internal package of
  another module; `go.mod` does not require gorilla/websocket. `cmd/agent/main.go` does not start
  the client in managed mode either.
* Sessions and login. One map under one mutex, and `GetSession` checks the expiry itself: no order
  of login, logout and cleanup tells the difference.
* `LoadConfig`, which parses the command line once. Its values are constants.
* Of the configuration server: what a configuration contains (`updateConfiguration`), time stamps,
  status, addresses and fingerprints of hosts, and the handlers that only read, the effective
  configuration among them. Nothing that is modelled depends on them.
* Of the packet filter: the parsing of packets and DNS messages, and the socket and cgroup programs,
  which nothing attaches.
* Templates and static files, the agent's security checks (placeholders without state), build and
  container files.
