---- MODULE DNSServer ----
(***************************************************************************)
(* The DNS server of main.go at work: HandleDNS for every query that       *)
(* arrives, the loop of DomainMonitor, and main's resolution of the        *)
(* configured domains before it waits for a signal.  All of them resolve   *)
(* through the same cache and allow what they resolved with the same       *)
(* firewall manager, and none of them waits for another: each is a task    *)
(* whose steps interleave with those of the others, with the cleanup       *)
(* loops of the cache and of the manager, and with the clock.              *)
(*                                                                         *)
(* A step of a task is what it does under one lock or between two waits:   *)
(* the cache lookup, the exchange with the upstream server up to the       *)
(* cache's update, one AllowIPWithTTL, the reply.                          *)
(***************************************************************************)
EXTENDS DomainCache, MockFirewallManager, TTLPolicy

CONSTANTS
    Handlers,           \* goroutines that run HandleDNS, one query at a time each
    ConfigDomains,      \* Config.Domains
    RefreshInterval,    \* Config.RefreshInterval
    Answers,            \* Answers[d]: the sets of A records upstream may answer with
    FailingDomains,     \* domains whose exchange may fail, or return no A record
    FailingIPs,         \* addresses for which the manager may return an error
    MaxLag              \* bound: the ticks a task spends on one domain

Monitor == "monitor"        \* the goroutine of DomainMonitor
Preresolve == "preresolve"  \* main, before it waits for a signal

Tasks == Handlers \cup {Monitor, Preresolve}

ARecord == [ip : IPs, ttl : Nat]

\* NewTicker panics unless the interval is positive.
ASSUME ServerAssumption ==
    /\ Handlers \cap {Monitor, Preresolve} = {}
    /\ ConfigDomains \subseteq Domains
    /\ RefreshInterval \in Nat \ {0}
    /\ Answers \in [Domains -> SUBSET ((SUBSET ARecord) \ {{}})]
    /\ FailingDomains \subseteq Domains
    /\ FailingIPs \subseteq IPs
    /\ MaxLag \in Nat

VARIABLES
    task,           \* where every task is, and its local variables
    nextRefresh     \* when DomainMonitor's ticker fires next

vars == <<now, records, allowedIPs, task, nextRefresh>>

(* A task's program counter and locals:                                     *)
(*   idle      no query; for the loops, waiting for a tick or done           *)
(*   next      the loops: about to take the next configured domain           *)
(*   lookup    about to ask the cache for domain                             *)
(*   exchange  the cache had nothing; waiting for the upstream server        *)
(*   allow     has ips and ttl; the addresses of pending remain to be        *)
(*             allowed                                                       *)
(*   reply     a handler with its answer; error: one that answers with a     *)
(*             failure code                                                  *)
NoDomain == "none"

TaskState ==
    [pc : {"idle", "next", "lookup", "exchange", "allow", "reply", "error"},
     todo : SUBSET Domains, domain : Domains \cup {NoDomain},
     ips : SUBSET IPs, pending : SUBSET IPs, ttl : Nat, since : Nat]

Idle == [pc |-> "idle", todo |-> {}, domain |-> NoDomain,
         ips |-> {}, pending |-> {}, ttl |-> 0, since |-> 0]

Become(t, state) == task' = [task EXCEPT ![t] = state]

----
\* The state after a domain is dealt with or has failed: a handler answers, a loop
\* goes on to its next domain.
Finished(t) ==
    IF t \in Handlers THEN [task[t] EXCEPT !.pc = "reply", !.pending = {}]
                      ELSE [Idle EXCEPT !.pc = "next", !.todo = task[t].todo, !.since = now]

\* Variant: a handler asks again after a failure.
Retry(t) ==
    IF t \in Handlers THEN [task[t] EXCEPT !.pc = "lookup"] ELSE Finished(t)

Abandoned(t) ==
    IF t \in Handlers THEN [task[t] EXCEPT !.pc = "error"] ELSE Finished(t)

\* With ips and ttl in hand a task turns to the firewall.
Resolved(t, ips, ttl) ==
    [task[t] EXCEPT !.pc = "allow", !.ips = ips, !.pending = ips, !.ttl = ttl]

\* A query arrives.  One without a question, or for anything but an A record, is
\* answered with a failure code at once.
ReceiveQuery(h, d) ==
    /\ task[h].pc = "idle"
    /\ Become(h, [Idle EXCEPT !.pc = "lookup", !.domain = d, !.since = now])
    /\ UNCHANGED <<now, records, allowedIPs, nextRefresh>>

ReceiveOther(h) ==
    /\ task[h].pc = "idle"
    /\ Become(h, [Idle EXCEPT !.pc = "error", !.since = now])
    /\ UNCHANGED <<now, records, allowedIPs, nextRefresh>>

\* DomainMonitor's ticker: a tick that finds the loop at work waits in the ticker's
\* channel, further ones are lost.
RefreshTick ==
    /\ task[Monitor].pc = "idle"
    /\ now >= nextRefresh
    /\ nextRefresh' = (now \div RefreshInterval + 1) * RefreshInterval
    /\ Become(Monitor, [Idle EXCEPT !.pc = "next", !.todo = ConfigDomains, !.since = now])
    /\ UNCHANGED <<now, records, allowedIPs>>

\* The loops over Config.Domains.
TakeDomain(t) ==
    /\ task[t].pc = "next"
    /\ IF task[t].todo = {}
       THEN Become(t, Idle)
       ELSE \E d \in task[t].todo :
               Become(t, [task[t] EXCEPT !.pc = "lookup", !.todo = @ \ {d}, !.domain = d])
    /\ UNCHANGED <<now, records, allowedIPs, nextRefresh>>

\* ResolveWithTTL asks the cache.  A hit hands out the record's own TTL.
Lookup(t) ==
    /\ task[t].pc = "lookup"
    /\ LET d == task[t].domain IN
         Become(t, IF Hit(d) THEN Resolved(t, HitIPs(d), HitTTL(d))
                             ELSE [task[t] EXCEPT !.pc = "exchange"])
    /\ UNCHANGED <<now, records, allowedIPs, nextRefresh>>

\* The upstream server answered with A records: they go into the cache.
ExchangeAnswer(t) ==
    /\ task[t].pc = "exchange"
    /\ \E answer \in Answers[task[t].domain] :
          LET ips == {a.ip : a \in answer}
              ttl == EffectiveTTL({a.ttl : a \in answer})
          IN  /\ SetRecord(task[t].domain, ips, ttl)
              /\ Become(t, Resolved(t, ips, ttl))
    /\ UNCHANGED <<now, allowedIPs, nextRefresh>>

\* The exchange failed, returned another code than success, or no A record.
ExchangeError(t) ==
    /\ task[t].pc = "exchange"
    /\ task[t].domain \in FailingDomains
    /\ Become(t, Abandoned(t))
    /\ UNCHANGED <<now, records, allowedIPs, nextRefresh>>

\* Variant: the first address ends the loop.
StopAfterFirst(t, ip) == Become(t, Finished(t))

\* The loop over the addresses goes on with the next one, or ends.
PassOver(t, ip) ==
    LET left == task[t].pending \ {ip} IN
      Become(t, IF left = {} THEN Finished(t) ELSE [task[t] EXCEPT !.pending = left])

AllowNext(t) ==
    /\ task[t].pc = "allow"
    /\ \E ip \in task[t].pending : Grant(ip, task[t].ttl) /\ PassOver(t, ip)
    /\ UNCHANGED <<now, records, nextRefresh>>

\* The manager returned an error: it is logged and the loop goes on.
AllowFails(t) ==
    /\ task[t].pc = "allow"
    /\ \E ip \in task[t].pending \cap FailingIPs : PassOver(t, ip)
    /\ UNCHANGED <<now, records, allowedIPs, nextRefresh>>

\* The reply goes out: the addresses with ttl, or a failure code.
Reply(h) ==
    /\ task[h].pc \in {"reply", "error"}
    /\ Become(h, Idle)
    /\ UNCHANGED <<now, records, allowedIPs, nextRefresh>>

----
\* The 30 second loops of the cache and of the manager.
CacheCleanup == DropExpired /\ UNCHANGED <<now, allowedIPs, task, nextRefresh>>
ManagerCleanup == ForgetExpired /\ UNCHANGED <<now, records, task, nextRefresh>>

\* Time passes, but a task spends at most MaxLag ticks on a domain and DomainMonitor
\* takes its tick within MaxLag.  With a large MaxLag this is no restriction.
Busy(t) == task[t].pc # "idle"

TimePasses ==
    /\ \A t \in Tasks : Busy(t) => now < task[t].since + MaxLag
    /\ Busy(Monitor) \/ now < nextRefresh + MaxLag
    /\ Tick
    /\ UNCHANGED <<records, allowedIPs, task, nextRefresh>>

Init ==
    /\ ClockInit
    /\ CacheInit
    /\ ManagerInit
    /\ task = [t \in Tasks |-> IF t = Preresolve
                               THEN [Idle EXCEPT !.pc = "next", !.todo = ConfigDomains]
                               ELSE Idle]
    /\ nextRefresh = RefreshInterval

\* What a task does once it has something to do.
Work(t) ==
    \/ TakeDomain(t) \/ Lookup(t)
    \/ ExchangeAnswer(t) \/ ExchangeError(t)
    \/ AllowNext(t) \/ AllowFails(t)

Next ==
    \/ \E h \in Handlers :
          ReceiveOther(h) \/ Reply(h) \/ \E d \in Domains : ReceiveQuery(h, d)
    \/ \E t \in Tasks : Work(t)
    \/ RefreshTick
    \/ CacheCleanup \/ ManagerCleanup
    \/ TimePasses

Spec == Init /\ [][Next]_vars

(* Fairness: the Go scheduler runs every goroutine that can run, the DNS     *)
(* client gives up on a silent upstream server after its timeout, and the    *)
(* tickers keep firing.                                                      *)
Fairness ==
    /\ \A t \in Tasks : WF_vars(Work(t))
    /\ \A h \in Handlers : WF_vars(Reply(h))
    /\ WF_vars(RefreshTick)
    /\ WF_vars(CacheCleanup)
    /\ WF_vars(ManagerCleanup)
    /\ WF_vars(TimePasses)

FairSpec == Spec /\ Fairness

----
TypeOK ==
    /\ now \in 0..MaxTime
    /\ records \in [Domains -> Record]
    /\ ManagerTypeOK
    /\ task \in [Tasks -> TaskState]
    /\ nextRefresh \in Nat

(* No address is ever allowed for longer than MaxTTL from now on, whichever  *)
(* tasks granted it and however late: the TTL that a task carries from its   *)
(* lookup to its AllowIPWithTTL, or that the cache hands to another task, is *)
(* bounded where ResolveWithTTL computed it.                                 *)
FirewallHorizon == \A ip \in IPs : allowedIPs[ip] <= now + MaxTTL

(* What the cache answers, the firewall lets through: as long as a record    *)
(* can be hit, each of its addresses is allowed until the record's expiry at *)
(* least, unless a task that resolved the domain has still to allow it.  The *)
(* record and the entry are written in different steps, by tasks that may    *)
(* resolve the domain at the same time with different answers.               *)
(* It says nothing of addresses for which the manager returned an error.     *)
Pending(d, ip) == \E t \in Tasks :
    task[t].pc = "allow" /\ task[t].domain = d /\ ip \in task[t].pending

CacheCovered == \A d \in Domains : \A ip \in records[d].ips \ FailingIPs :
    Hit(d) => allowedIPs[ip] >= records[d].expiresAt \/ Pending(d, ip)

(* When a handler is about to send its answer, the firewall keeps each of    *)
(* the answer's addresses open for the TTL that the answer states, counted   *)
(* from the arrival of the query.                                            *)
(* It says nothing of addresses for which the manager returned an error:     *)
(* HandleDNS sends those to the client all the same.                         *)
ReplyCovered == \A h \in Handlers :
    LET until == task[h].since + task[h].ttl IN
      task[h].pc = "reply" /\ now <= until =>
          \A ip \in task[h].ips \ FailingIPs : allowedIPs[ip] >= until

(* main.go:715: "DomainMonitor monitors domains and keeps their IPs allowed".*)
(* From the end of main's own resolution on, the addresses of the configured *)
(* domains are never closed.  It is stated for an upstream server that       *)
(* always gives the same answer, and addresses the manager does not refuse.  *)
MonitoredStaysAllowed ==
    task[Preresolve].pc = "idle" =>
        \A d \in ConfigDomains : \A answer \in Answers[d] : \A a \in answer :
            a.ip \notin FailingIPs => allowedIPs[a.ip] >= now

(* Every query is answered.                                                  *)
QueryAnswered == \A h \in Handlers :
    task[h].pc = "lookup" ~> task[h].pc \in {"reply", "error"}

(* An entry whose time is over goes, or a new grant makes it valid again.    *)
ExpiredEntryGoes == \A ip \in IPs : Expired(ip) ~> ~Expired(ip)

====
