---- MODULE DNSServer_monitor_proofs ----
(***************************************************************************)
(* DomainMonitor keeps the addresses of the configured domains allowed:    *)
(* the proof of MonitoredStaysAllowed, for every number of handlers and of *)
(* configured domains, from what the TTLs must be for it to be true.       *)
(***************************************************************************)
EXTENDS DNSServer_coverage_proofs, FiniteSets, FiniteSetTheorems

USE MaxTimeAssumption, TTLAssumption, ServerAssumption

\* The time that a loop may take for the domains of S.
Lags(S) == Cardinality(S) * MaxLag

\* A grant of ttl lasts until the refresh that follows the next tick has come to the
\* domain, wherever the two loops over the domains put it.
EnoughTime(ttl) ==
    /\ ttl >= RefreshInterval + MaxLag + Lags(ConfigDomains)
    /\ ttl >= MaxLag + 2 * Lags(ConfigDomains)

Addresses(d) == {a.ip : a \in UNION Answers[d]}

\* What the theorem asks of the upstream server: it answers for every configured domain,
\* always with the same addresses, and with TTLs that are long enough for the interval.
SteadyUpstream ==
    /\ IsFiniteSet(ConfigDomains)
    /\ \A d \in ConfigDomains :
          /\ d \notin FailingDomains
          /\ \A answer \in Answers[d] :
                /\ {a.ip : a \in answer} = Addresses(d)
                /\ EnoughTime(EffectiveTTL({a.ttl : a \in answer}))

----
(* Lags.                                                                     *)

LEMMA LagsOf ==
  ASSUME IsFiniteSet(ConfigDomains), NEW S \in SUBSET ConfigDomains
  PROVE  /\ Lags(S) \in Nat
         /\ Lags(S) <= Lags(ConfigDomains)
         /\ \A d \in S : Lags(S) = Lags(S \ {d}) + MaxLag
         /\ S = {} => Lags(S) = 0
<1>1. PICK n \in Nat : n = Cardinality(ConfigDomains)
  BY FS_CardinalityType
<1>2. IsFiniteSet(S) /\ Cardinality(S) <= Cardinality(ConfigDomains)
  BY FS_Subset
<1>3. PICK k \in Nat : k = Cardinality(S)
  BY <1>2, FS_CardinalityType
<1>4. PICK L \in Nat : L = MaxLag
  BY ServerAssumption
<1>5. k * L \in Nat /\ k * L <= n * L
  <2>1. PICK more \in Nat : n = k + more
    <3>1. n - k \in Nat /\ n = k + (n - k)
      BY ONLY <1>1, <1>2, <1>3, n \in Nat, k \in Nat
    <3> QED
      BY ONLY <3>1
  <2>2. n * L = k * L + more * L
    BY ONLY <2>1, k \in Nat, more \in Nat, L \in Nat
  <2>3. k * L \in Nat /\ more * L \in Nat
    BY ONLY k \in Nat, more \in Nat, L \in Nat
  <2> QED
    BY ONLY <2>2, <2>3
<1>6. ASSUME NEW d \in S PROVE Lags(S) = Lags(S \ {d}) + MaxLag
  <2>1. Cardinality(S \ {d}) = k - 1
    BY <1>2, <1>3, FS_RemoveElement
  <2>2. k * L = (k - 1) * L + L
    BY ONLY k \in Nat, L \in Nat
  <2> QED
    BY ONLY <1>3, <1>4, <2>1, <2>2 DEF Lags
<1>7. S = {} => k = 0
  BY <1>3, FS_EmptySet
<1>8. k = 0 => k * L = 0
  BY ONLY k \in Nat, L \in Nat
<1> QED
  BY ONLY <1>1, <1>3, <1>4, <1>5, <1>6, <1>7, <1>8 DEF Lags

----
(* The steps of the two loops over the configured domains.                   *)

Loops == {Monitor, Preresolve}

\* What a loop finds in the cache, or waits for, is what upstream always answers.
RecordsSteady == \A d \in ConfigDomains :
    Hit(d) => records[d].ips = Addresses(d) /\ EnoughTime(records[d].ttl)

AtDomain(t) == task[t].pc \in {"lookup", "exchange", "allow"}

LoopsSteady == \A t \in Loops :
    /\ task[t].pc \in {"idle", "next", "lookup", "exchange", "allow"}
    /\ task[t].todo \subseteq ConfigDomains
    /\ task[t].pc = "idle" => task[t] = Idle
    /\ AtDomain(t) => task[t].domain \in ConfigDomains \ task[t].todo
    /\ task[t].pc = "allow" => EnoughTime(task[t].ttl)

Still(u) == task'[u] = task[u]

Wakes(u) ==
    /\ task[u].pc = "idle"
    /\ task'[u].pc = "next" /\ task'[u].todo = ConfigDomains /\ task'[u].since = now

Takes(u) ==
    /\ task[u].pc = "next" /\ task'[u].pc = "lookup"
    /\ task'[u].domain \in task[u].todo
    /\ task'[u].todo = task[u].todo \ {task'[u].domain}
    /\ task'[u].since = task[u].since

Rests(u) == task[u].pc = "next" /\ task[u].todo = {} /\ task'[u] = Idle

SameDomain(u) ==
    /\ task'[u].todo = task[u].todo /\ task'[u].domain = task[u].domain
    /\ task'[u].since = task[u].since

Resolves(u) ==
    /\ task[u].pc \in {"lookup", "exchange"}
    /\ SameDomain(u)
    /\ \/ task'[u].pc = "exchange"
       \/ /\ task'[u].pc = "allow"
          /\ task'[u].pending = Addresses(task[u].domain)
          /\ EnoughTime(task'[u].ttl)

\* The loop over the addresses is done with ip.
Deals(u, ip) ==
    /\ ip \in FailingIPs \/ Grant(ip, task[u].ttl)
    /\ \/ /\ task'[u].pc = "allow" /\ SameDomain(u) /\ task'[u].ttl = task[u].ttl
          /\ task'[u].pending = task[u].pending \ {ip}
       \/ /\ task[u].pending \ {ip} = {}
          /\ task'[u].pc = "next" /\ task'[u].todo = task[u].todo /\ task'[u].since = now

Passes(u) == task[u].pc = "allow" /\ \E ip \in task[u].pending : Deals(u, ip)

LoopGoesOn(u) ==
    now' = now /\ (Wakes(u) \/ Takes(u) \/ Rests(u) \/ Resolves(u) \/ Passes(u))

LEMMA PassOverDeals ==
  ASSUME TypeOK, NEW u \in Loops, NEW ip \in task[u].pending, PassOver(u, ip),
         ip \in FailingIPs \/ Grant(ip, task[u].ttl), task[u].pc = "allow"
  PROVE  Deals(u, ip)
<1> DEFINE left == task[u].pending \ {ip}
<1>1. task \in [Tasks -> TaskState] /\ u \in Tasks /\ u \notin Handlers
  BY DEF TypeOK, Loops, Tasks
<1>2. CASE left = {}
  <2>1. task'[u] = [Idle EXCEPT !.pc = "next", !.todo = task[u].todo, !.since = now]
    BY <1>1, <1>2 DEF PassOver, Become, Finished
  <2> QED
    BY <1>2, <2>1 DEF Deals, Idle
<1>3. CASE left # {}
  <2>1. task'[u] = [task[u] EXCEPT !.pending = left]
    BY <1>1, <1>3 DEF PassOver, Become
  <2>2. task[u] \in TaskState
    BY <1>1
  <2> QED
    BY <2>1, <2>2 DEF Deals, SameDomain, TaskState
<1> QED
  BY <1>2, <1>3

LEMMA LoopMoves ==
  ASSUME TypeOK, SteadyUpstream, RecordsSteady, LoopsSteady, [Next]_vars, NEW u \in Loops
  PROVE  Still(u) \/ LoopGoesOn(u)
<1> USE DEF Become
<1>1. /\ task \in [Tasks -> TaskState] /\ u \in Tasks /\ u \notin Handlers
      /\ task[u] \in TaskState
  BY DEF TypeOK, Loops, Tasks
<1> DEFINE goal == Still(u) \/ LoopGoesOn(u)
<1>2. ASSUME NEW t \in Tasks, t # u, NEW state, task' = [task EXCEPT ![t] = state] PROVE goal
  BY <1>1, <1>2 DEF Still
<1>3. ASSUME NEW h \in Handlers,
             ReceiveOther(h) \/ Reply(h) \/ \E d \in Domains : ReceiveQuery(h, d)
      PROVE  goal
  BY <1>1, <1>2, <1>3 DEF ReceiveOther, Reply, ReceiveQuery, Tasks
<1>4. CASE RefreshTick
  BY <1>1, <1>4 DEF RefreshTick, Still, LoopGoesOn, Wakes, Idle, Loops
<1>5. ASSUME TakeDomain(u) PROVE goal
  <2>1. task[u].pc = "next" /\ now' = now
    BY <1>5 DEF TakeDomain
  <2>2. CASE task[u].todo = {}
    BY <1>1, <1>5, <2>1, <2>2 DEF TakeDomain, LoopGoesOn, Rests
  <2>3. CASE task[u].todo # {}
    <3>1. PICK d \in task[u].todo :
            task'[u] = [task[u] EXCEPT !.pc = "lookup", !.todo = @ \ {d}, !.domain = d]
      BY <1>1, <1>5, <2>3 DEF TakeDomain
    <3>2. Takes(u)
      BY <1>1, <2>1, <3>1 DEF Takes, TaskState
    <3> QED
      BY <2>1, <3>2 DEF LoopGoesOn
  <2> QED
    BY <2>2, <2>3
<1>6. ASSUME Lookup(u) PROVE goal
  <2>1. task[u].pc = "lookup" /\ now' = now /\ task[u].domain \in ConfigDomains
    BY <1>6 DEF Lookup, LoopsSteady, AtDomain
  <2>2. CASE Hit(task[u].domain)
    <3>1. task'[u] = Resolved(u, records[task[u].domain].ips, records[task[u].domain].ttl)
      BY <1>1, <1>6, <2>2 DEF Lookup, HitIPs, HitTTL
    <3> QED
      BY <1>1, <2>1, <2>2, <3>1
         DEF LoopGoesOn, Resolves, SameDomain, Resolved, RecordsSteady, TaskState
  <2>3. CASE ~Hit(task[u].domain)
    <3>1. task'[u] = [task[u] EXCEPT !.pc = "exchange"]
      BY <1>1, <1>6, <2>3 DEF Lookup
    <3> QED
      BY <1>1, <2>1, <3>1 DEF LoopGoesOn, Resolves, SameDomain, TaskState
  <2> QED
    BY <2>2, <2>3
<1>7. ASSUME ExchangeAnswer(u) PROVE goal
  <2>1. task[u].pc = "exchange" /\ now' = now /\ task[u].domain \in ConfigDomains
    BY <1>7 DEF ExchangeAnswer, LoopsSteady, AtDomain
  <2>2. PICK answer \in Answers[task[u].domain] :
          task' = [task EXCEPT ![u] = Resolved(u, {a.ip : a \in answer},
                                               EffectiveTTL({a.ttl : a \in answer}))]
    BY <1>7 DEF ExchangeAnswer
  <2> DEFINE ttl == EffectiveTTL({a.ttl : a \in answer})
  <2>3. {a.ip : a \in answer} = Addresses(task[u].domain) /\ EnoughTime(ttl)
    BY <2>1 DEF SteadyUpstream
  <2> HIDE DEF ttl
  <2>4. task'[u] = Resolved(u, Addresses(task[u].domain), ttl)
    BY <1>1, <2>2, <2>3 DEF ttl
  <2> QED
    BY <1>1, <2>1, <2>3, <2>4 DEF LoopGoesOn, Resolves, SameDomain, Resolved, TaskState
<1>8. ~ExchangeError(u)
  BY DEF ExchangeError, LoopsSteady, AtDomain, SteadyUpstream
<1>9. ASSUME AllowNext(u) \/ AllowFails(u) PROVE goal
  <2>1. task[u].pc = "allow" /\ now' = now
    BY <1>9 DEF AllowNext, AllowFails
  <2>2. PICK ip \in task[u].pending :
          PassOver(u, ip) /\ (ip \in FailingIPs \/ Grant(ip, task[u].ttl))
    BY <1>9 DEF AllowNext, AllowFails
  <2> QED
    BY <2>1, <2>2, PassOverDeals DEF LoopGoesOn, Passes
<1>10. ASSUME NEW t \in Tasks, t # u, Work(t) PROVE goal
  BY <1>2, <1>10 DEF Work, TakeDomain, Lookup, ExchangeAnswer, ExchangeError, AllowNext,
                     AllowFails, PassOver
<1>11. CASE UNCHANGED task
  BY <1>11 DEF Still
<1> QED
  BY <1>3, <1>4, <1>5, <1>6, <1>7, <1>8, <1>9, <1>10, <1>11
     DEF Next, Work, CacheCleanup, ManagerCleanup, TimePasses, vars

LEMMA LoopsSteadyStep ==
  TypeOK /\ SteadyUpstream /\ RecordsSteady /\ LoopsSteady /\ [Next]_vars => LoopsSteady'
<1> SUFFICES ASSUME TypeOK, SteadyUpstream, RecordsSteady, LoopsSteady, [Next]_vars,
                    NEW u \in Loops
             PROVE  /\ task'[u].pc \in {"idle", "next", "lookup", "exchange", "allow"}
                    /\ task'[u].todo \subseteq ConfigDomains
                    /\ task'[u].pc = "idle" => task'[u] = Idle
                    /\ task'[u].pc \in {"lookup", "exchange", "allow"} =>
                          task'[u].domain \in ConfigDomains \ task'[u].todo
                    /\ task'[u].pc = "allow" => EnoughTime(task'[u].ttl)
  BY DEF LoopsSteady, AtDomain
<1> USE DEF LoopsSteady, AtDomain
<1>1. CASE Still(u)
  BY <1>1 DEF Still
<1>2. CASE Wakes(u)
  BY <1>2 DEF Wakes
<1>3. CASE Takes(u)
  BY <1>3 DEF Takes
<1>4. CASE Rests(u)
  BY <1>4 DEF Rests, Idle
<1>5. CASE Resolves(u)
  BY <1>5 DEF Resolves, SameDomain
<1>6. CASE Passes(u)
  BY <1>6 DEF Passes, Deals, SameDomain
<1> QED
  BY <1>1, <1>2, <1>3, <1>4, <1>5, <1>6, LoopMoves DEF LoopGoesOn

\* Whoever asks upstream for a configured domain, a handler too, stores what it always
\* answers.
LEMMA RecordsSteadyStep ==
  TypeOK /\ DomainsNamed /\ SteadyUpstream /\ RecordsSteady /\ [Next]_vars => RecordsSteady'
<1> SUFFICES ASSUME TypeOK, DomainsNamed, SteadyUpstream, RecordsSteady, [Next]_vars
             PROVE  RecordsSteady'
  OBVIOUS
<1>1. /\ now \in Nat /\ records \in [Domains -> Record]
      /\ \A d \in ConfigDomains : records[d].expiresAt \in Int /\ d \in Domains
  BY DEF TypeOK, Record
<1>2. ASSUME NEW t \in Tasks, ExchangeAnswer(t) PROVE RecordsSteady'
  <2> DEFINE e == task[t].domain
  <2>1. e \in Domains /\ now' = now
    BY <1>2 DEF ExchangeAnswer, DomainsNamed
  <2>2. PICK answer \in Answers[e] :
          SetRecord(e, {a.ip : a \in answer}, EffectiveTTL({a.ttl : a \in answer}))
    BY <1>2 DEF ExchangeAnswer
  <2> DEFINE ips == {a.ip : a \in answer}
             ttl == EffectiveTTL({a.ttl : a \in answer})
  <2>3. e \in ConfigDomains => ips = Addresses(e) /\ EnoughTime(ttl)
    BY DEF SteadyUpstream
  <2>4. records' = [records EXCEPT ![e] = [ips |-> ips, ttl |-> ttl, expiresAt |-> now + ttl]]
    BY <2>2 DEF SetRecord
  <2> HIDE DEF e, ips, ttl
  <2> QED
    BY <1>1, <2>1, <2>3, <2>4 DEF RecordsSteady, Hit
<1>3. CASE CacheCleanup
  BY <1>1, <1>3 DEF CacheCleanup, DropExpired, NoRecord, RecordsSteady, Hit
<1>4. CASE TimePasses
  BY <1>1, <1>4 DEF TimePasses, Tick, RecordsSteady, Hit
<1>5. CASE UNCHANGED <<now, records>>
  BY <1>5 DEF RecordsSteady, Hit
<1> QED
  BY <1>2, <1>3, <1>4, <1>5
     DEF Next, Work, ReceiveQuery, ReceiveOther, Reply, RefreshTick, TakeDomain, Lookup,
         ExchangeError, AllowNext, AllowFails, ManagerCleanup, vars

\* The ticker's next tick is never further away than the interval.
RefreshSoon == nextRefresh <= now + RefreshInterval

LEMMA TickSoon ==
  ASSUME NEW n \in Nat, NEW R \in Nat \ {0}
  PROVE  /\ (n \div R + 1) * R \in Nat
         /\ (n \div R + 1) * R <= n + R
OBVIOUS

LEMMA RefreshSoonStep == TypeOK /\ RefreshSoon /\ [Next]_vars => RefreshSoon'
<1> SUFFICES ASSUME TypeOK, RefreshSoon, [Next]_vars PROVE RefreshSoon'
  OBVIOUS
<1>1. now \in Nat /\ nextRefresh \in Nat /\ RefreshInterval \in Nat \ {0}
  BY DEF TypeOK
<1>2. CASE RefreshTick
  BY <1>1, <1>2, TickSoon DEF RefreshTick, RefreshSoon
<1>3. CASE TimePasses
  BY <1>1, <1>3 DEF TimePasses, Tick, RefreshSoon
<1>4. CASE UNCHANGED <<now, nextRefresh>>
  BY <1>4 DEF RefreshSoon
<1> QED
  BY <1>2, <1>3, <1>4
     DEF Next, Work, ReceiveQuery, ReceiveOther, Reply, TakeDomain, Lookup, ExchangeAnswer,
         ExchangeError, AllowNext, AllowFails, CacheCleanup, ManagerCleanup, vars

----
(* How long an address must be allowed, given where the loops are: m is the  *)
(* state of DomainMonitor's loop, n the clock and r the ticker's next tick.  *)

\* The loop in state m has still to allow ip for d.
Outstanding(m, d, ip) ==
    \/ d \in m.todo
    \/ /\ m.domain = d
       /\ m.pc \in {"lookup", "exchange"} \/ (m.pc = "allow" /\ ip \in m.pending)

\* The time that the loop may still need, from since on, for what it has begun.
Ahead(m) == IF m.pc = "next" THEN Lags(m.todo) ELSE MaxLag + Lags(m.todo)

AfterNextTick(r) == r + MaxLag + Lags(ConfigDomains)

Lasts(m, n, r, d, ip, x) ==
    \/ /\ m.pc = "idle"
       /\ x >= AfterNextTick(r)
       /\ x >= n + Lags(ConfigDomains)
    \/ m.pc # "idle" /\ d \in m.todo /\ x >= m.since + Ahead(m)
    \/ m.pc # "idle" /\ Outstanding(m, d, ip) /\ d \notin m.todo /\ x >= m.since + MaxLag
    \/ /\ m.pc # "idle" /\ ~Outstanding(m, d, ip)
       /\ x >= AfterNextTick(r)
       /\ x >= m.since + Ahead(m) + MaxLag + Lags(ConfigDomains)

\* The states of the loop that occur.
Sane(m, n, r) ==
    /\ m \in TaskState /\ n \in Nat /\ r \in Nat
    /\ r <= n + RefreshInterval
    /\ m.pc \in {"idle", "next", "lookup", "exchange", "allow"}
    /\ m.pc = "idle" => m = Idle
    /\ m.todo \subseteq ConfigDomains
    /\ m.pc \in {"lookup", "exchange", "allow"} => m.domain \in ConfigDomains \ m.todo
    /\ m.pc # "idle" => m.since <= n /\ n <= m.since + MaxLag

LEMMA AheadBounds ==
  ASSUME SteadyUpstream, NEW m, NEW n, NEW r, Sane(m, n, r)
  PROVE  /\ Ahead(m) \in Nat
         /\ m.pc # "idle" => Ahead(m) <= Lags(ConfigDomains)
         /\ m.todo # {} => Ahead(m) >= MaxLag
<1>1. m.todo \subseteq ConfigDomains /\ IsFiniteSet(ConfigDomains)
  BY DEF Sane, SteadyUpstream
<1>2. PICK k \in Nat : k = Lags(m.todo) /\ k <= Lags(ConfigDomains)
  BY <1>1, LagsOf
<1>3. PICK K \in Nat : K = Lags(ConfigDomains)
  BY <1>1, LagsOf
<1>4. MaxLag \in Nat
  OBVIOUS
<1>5. m.todo # {} => k >= MaxLag
  <2> SUFFICES ASSUME NEW d \in m.todo PROVE k >= MaxLag
    OBVIOUS
  <2>1. Lags(m.todo \ {d}) \in Nat /\ Lags(m.todo) = Lags(m.todo \ {d}) + MaxLag
    BY <1>1, LagsOf, m.todo \ {d} \in SUBSET ConfigDomains
  <2> QED
    BY ONLY <1>2, <1>4, <2>1
<1>6. m.pc \in {"lookup", "exchange", "allow"} => MaxLag + k <= K
  <2> SUFFICES ASSUME m.domain \in ConfigDomains \ m.todo PROVE MaxLag + k <= K
    BY DEF Sane
  <2> DEFINE T == m.todo \cup {m.domain}
  <2>1. T \in SUBSET ConfigDomains /\ m.domain \in T /\ T \ {m.domain} = m.todo
    BY <1>1
  <2> HIDE DEF T
  <2>2. Lags(T) \in Nat /\ Lags(T) <= K /\ Lags(T) = k + MaxLag
    BY ONLY <1>1, <1>2, <1>3, <2>1, LagsOf
  <2> QED
    BY ONLY <1>4, <2>2
<1>7. m.pc \in {"idle", "next", "lookup", "exchange", "allow"}
  BY DEF Sane
<1>8. Ahead(m) = IF m.pc = "next" THEN k ELSE MaxLag + k
  BY <1>2 DEF Ahead
<1> QED
  BY ONLY <1>2, <1>3, <1>4, <1>5, <1>6, <1>7, <1>8

\* A grant that has just been made is enough wherever the loop is.
LEMMA GrantLasts ==
  ASSUME SteadyUpstream, NEW m, NEW n, NEW r, Sane(m, n, r), NEW d, NEW ip,
         NEW ttl \in Nat, EnoughTime(ttl), NEW x \in Int, x >= n + ttl
  PROVE  Lasts(m, n, r, d, ip, x)
<1>1. PICK K \in Nat : K = Lags(ConfigDomains)
  BY LagsOf DEF SteadyUpstream
<1>2. PICK a \in Nat : a = Ahead(m) /\ (m.pc # "idle" => a <= K)
  BY <1>1, AheadBounds
<1>3. PICK s \in Nat : s = m.since /\ (m.pc # "idle" => s <= n)
  BY DEF Sane, TaskState
<1>4. n \in Nat /\ r \in Nat /\ r <= n + RefreshInterval
  BY DEF Sane
<1>5. ttl >= RefreshInterval + MaxLag + K /\ ttl >= MaxLag + 2 * K
  BY <1>1 DEF EnoughTime
<1>6. x >= r + MaxLag + K /\ x >= n + K
  BY ONLY <1>4, <1>5, x >= n + ttl, x \in Int, ttl \in Nat, K \in Nat, ServerAssumption
<1>7. m.pc # "idle" => x >= s + a /\ x >= s + MaxLag /\ x >= s + a + MaxLag + K
  BY ONLY <1>2, <1>3, <1>4, <1>5, x >= n + ttl, x \in Int, ttl \in Nat, K \in Nat, s \in Nat,
          a \in Nat, ServerAssumption
<1> QED
  BY ONLY <1>1, <1>2, <1>3, <1>6, <1>7 DEF Lasts, AfterNextTick

\* What lasts has not expired.
LEMMA LastsNow ==
  ASSUME SteadyUpstream, NEW m, NEW n, NEW r, Sane(m, n, r), NEW d, NEW ip,
         NEW x \in Int, Lasts(m, n, r, d, ip, x)
  PROVE  x >= n
<1>1. PICK K \in Nat : K = Lags(ConfigDomains)
  BY LagsOf DEF SteadyUpstream
<1>2. PICK a \in Nat : a = Ahead(m) /\ (m.todo # {} => a >= MaxLag)
  BY AheadBounds
<1>3. PICK s \in Nat : s = m.since /\ (m.pc # "idle" => n <= s + MaxLag)
  BY DEF Sane, TaskState
<1>4. n \in Nat /\ MaxLag \in Nat
  BY DEF Sane
<1>5. CASE m.pc = "idle"
  BY <1>1, <1>4, <1>5 DEF Lasts
<1>6. CASE m.pc # "idle"
  <2>1. \/ m.todo # {} /\ x >= s + a
        \/ x >= s + MaxLag
        \/ x >= s + a + MaxLag + K
    BY <1>1, <1>2, <1>3, <1>6 DEF Lasts
  <2> QED
    BY ONLY <1>2, <1>3, <1>4, <1>6, <2>1, K \in Nat, a \in Nat, s \in Nat, x \in Int
<1> QED
  BY <1>5, <1>6

LEMMA LongerLasts ==
  ASSUME SteadyUpstream, NEW m, NEW n, NEW r, Sane(m, n, r), NEW d, NEW ip,
         NEW x \in Int, Lasts(m, n, r, d, ip, x), NEW y \in Int, y >= x
  PROVE  Lasts(m, n, r, d, ip, y)
<1>1. PICK K \in Nat : K = Lags(ConfigDomains)
  BY LagsOf DEF SteadyUpstream
<1>2. PICK a \in Nat : a = Ahead(m)
  BY AheadBounds
<1>3. PICK s \in Nat : s = m.since
  BY DEF Sane, TaskState
<1>4. n \in Nat /\ r \in Nat /\ MaxLag \in Nat
  BY DEF Sane
<1> QED
  BY ONLY <1>1, <1>2, <1>3, <1>4, Lasts(m, n, r, d, ip, x), y >= x, x \in Int, y \in Int,
          K \in Nat, a \in Nat, s \in Nat
     DEF Lasts, AfterNextTick

----
(* The steps of the loops, on what lasts.                                    *)

Here == Sane(task[Monitor], now, nextRefresh)

LEMMA HereSane ==
  TypeOK /\ WithinLag /\ RefreshSoon /\ LoopsSteady => Here
<1> SUFFICES ASSUME TypeOK, WithinLag, RefreshSoon, LoopsSteady PROVE Here
  OBVIOUS
<1>1. Monitor \in Tasks /\ Monitor \in Loops
  BY DEF Tasks, Loops
<1>2. task[Monitor] \in TaskState /\ now \in Nat /\ nextRefresh \in Nat
  BY <1>1 DEF TypeOK
<1> QED
  BY <1>1, <1>2 DEF Here, Sane, WithinLag, Busy, RefreshSoon, LoopsSteady, AtDomain

\* ip is allowed for long enough from now on.
Granted(ip) ==
    now' = now /\ \E ttl \in Nat : EnoughTime(ttl) /\ allowedIPs'[ip] >= now + ttl

\* A loop that had to allow an address and has not any more has just allowed it.
LEMMA LoopGrants ==
  ASSUME TypeOK, SteadyUpstream, RecordsSteady, LoopsSteady, [Next]_vars, NEW u \in Loops,
         NEW d \in ConfigDomains, NEW ip \in Addresses(d) \ FailingIPs, ip \in IPs,
         Outstanding(task[u], d, ip), ~Outstanding(task'[u], d, ip)
  PROVE  Granted(ip)
<1> USE DEF Outstanding
<1>1. task[u] \in TaskState /\ u \in Tasks
  BY DEF TypeOK, Loops, Tasks
<1>2. Still(u) \/ LoopGoesOn(u)
  BY LoopMoves
<1>3. ~Still(u)
  BY DEF Still
<1>4. ~Wakes(u)
  BY DEF Wakes, LoopsSteady, Idle
<1>5. ~Takes(u)
  BY DEF Takes
<1>6. ~Rests(u)
  BY DEF Rests
<1>7. ~Resolves(u)
  BY DEF Resolves, SameDomain
<1>8. CASE Passes(u) /\ now' = now
  <2>1. PICK i \in task[u].pending : Deals(u, i)
    BY <1>8 DEF Passes
  <2>2. task[u].pc = "allow" /\ ip \in task[u].pending
    BY <1>8, <2>1 DEF Passes, Deals, SameDomain
  <2>3. i = ip
    BY <2>1, <2>2 DEF Deals, SameDomain
  <2>4. Grant(ip, task[u].ttl) /\ EnoughTime(task[u].ttl) /\ task[u].ttl \in Nat
    BY <1>1, <2>1, <2>2, <2>3 DEF Deals, LoopsSteady, TaskState
  <2>5. allowedIPs'[ip] >= now + task[u].ttl
    BY <2>4, GrantReaches
  <2> QED
    BY <1>8, <2>4, <2>5 DEF Granted
<1> QED
  BY <1>2, <1>3, <1>4, <1>5, <1>6, <1>7, <1>8 DEF LoopGoesOn

\* What lasts goes on lasting: the loop's next step, and the clock's, are in it already.
LEMMA MonitorKeeps ==
  ASSUME TypeOK, SteadyUpstream, RecordsSteady, LoopsSteady, Here, [Next]_vars,
         NEW d \in ConfigDomains, NEW ip, NEW x \in Int,
         Lasts(task[Monitor], now, nextRefresh, d, ip, x),
         Outstanding(task[Monitor], d, ip) => Outstanding(task'[Monitor], d, ip)
  PROVE  Lasts(task'[Monitor], now', nextRefresh', d, ip, x)
<1> DEFINE m == task[Monitor]
           w == task'[Monitor]
           goal == Lasts(w, now', nextRefresh', d, ip, x)
<1>1. PICK K \in Nat : K = Lags(ConfigDomains)
  BY LagsOf DEF SteadyUpstream
<1>2. PICK k \in Nat : k = Lags(m.todo)
  BY LagsOf DEF SteadyUpstream, Here, Sane
<1>3. PICK s \in Nat : s = m.since /\ (m.pc # "idle" => s <= now /\ now <= s + MaxLag)
  BY DEF Here, Sane, TaskState
<1>4. now \in Nat /\ nextRefresh \in Nat /\ MaxLag \in Nat /\ Monitor \in Loops
  BY DEF Here, Sane, Loops
<1>5. Ahead(m) = IF m.pc = "next" THEN k ELSE MaxLag + k
  BY <1>2 DEF Ahead
<1>6. m.pc = "idle" => m.todo = {}
  BY DEF Here, Sane, Idle
<1>7. \/ m.pc = "idle" /\ w.pc = "next"
      \/ nextRefresh' = nextRefresh
  BY DEF Next, Work, ReceiveQuery, ReceiveOther, Reply, RefreshTick, TakeDomain, Lookup,
         ExchangeAnswer, ExchangeError, AllowNext, AllowFails, CacheCleanup, ManagerCleanup,
         TimePasses, vars, Become, Idle, TypeOK, Tasks
<1>8. CASE Still(Monitor)
  <2>1. w = m /\ nextRefresh' = nextRefresh
    BY <1>7, <1>8 DEF Still
  <2>2. CASE m.pc # "idle"
    BY <2>1, <2>2 DEF Lasts
  <2>3. CASE m.pc = "idle"
    <3>1. now' = now \/ (now' = now + 1 /\ now < nextRefresh + MaxLag)
      BY <2>3 DEF Next, Work, ReceiveQuery, ReceiveOther, Reply, RefreshTick, TakeDomain, Lookup,
         ExchangeAnswer, ExchangeError, AllowNext, AllowFails, CacheCleanup, ManagerCleanup,
         TimePasses, Tick, Busy, vars
    <3>2. x >= nextRefresh + MaxLag + K /\ x >= now + K
      BY <1>1, <2>3 DEF Lasts, AfterNextTick
    <3>3. x >= now' + K
      BY ONLY <1>4, <3>1, <3>2, K \in Nat, x \in Int
    <3> QED
      BY <1>1, <2>1, <2>3, <3>2, <3>3 DEF Lasts, AfterNextTick
  <2> QED
    BY <2>2, <2>3
<1>9. CASE Wakes(Monitor) /\ now' = now
  <2>1. x >= now + K
    BY <1>1, <1>9 DEF Wakes, Lasts
  <2>2. w.pc = "next" /\ d \in w.todo /\ w.since = now /\ Ahead(w) = K
    BY <1>1, <1>9 DEF Wakes, Ahead
  <2> QED
    BY <2>1, <2>2 DEF Lasts
<1>10. CASE Takes(Monitor) /\ now' = now
  <2>1. m.pc = "next" /\ w.pc = "lookup" /\ w.domain \in m.todo /\ w.since = s
        /\ w.todo = m.todo \ {w.domain}
    BY <1>3, <1>10 DEF Takes
  <2>2. nextRefresh' = nextRefresh
    BY <1>7, <2>1
  <2>3. Lags(w.todo) \in Nat /\ k = Lags(w.todo) + MaxLag
    <3>1. m.todo \subseteq ConfigDomains /\ IsFiniteSet(ConfigDomains)
      BY DEF SteadyUpstream, Here, Sane
    <3>2. w.todo \in SUBSET ConfigDomains
      BY <2>1, <3>1
    <3> QED
      BY <1>2, <2>1, <3>1, <3>2, LagsOf
  <2>4. Ahead(w) = k /\ Ahead(m) = k
    <3>1. Ahead(w) = MaxLag + Lags(w.todo)
      BY <2>1 DEF Ahead
    <3>2. Ahead(m) = k
      BY <1>5, <2>1
    <3> QED
      BY ONLY <1>4, <2>3, <3>1, <3>2, k \in Nat
  <2>5. k >= MaxLag
    BY ONLY <1>4, <2>3
  <2>6. CASE d \in m.todo
    <3>1. x >= s + k
      BY <1>3, <2>1, <2>4, <2>6 DEF Lasts, Outstanding
    <3>2. x >= s + MaxLag
      BY ONLY <1>4, <2>5, <3>1, x \in Int, s \in Nat, k \in Nat
    <3> QED
      BY <2>1, <2>4, <2>6, <3>1, <3>2 DEF Lasts, Outstanding
  <2>7. CASE d \notin m.todo
    <3>1. ~Outstanding(m, d, ip) /\ ~Outstanding(w, d, ip) /\ d \notin w.todo
      BY <2>1, <2>7 DEF Outstanding
    <3>2. Lasts(m, now, nextRefresh, d, ip, x) /\ d \notin m.todo
      BY <2>7
    <3>3. Lasts(w, now', nextRefresh', d, ip, x)
      <4> HIDE DEF m, w
      <4>1. x >= AfterNextTick(nextRefresh) /\ x >= s + k + MaxLag + Lags(ConfigDomains)
        BY ONLY <1>3, <2>1, <2>4, <3>1, <3>2 DEF Lasts
      <4> QED
        BY ONLY <2>1, <2>2, <2>4, <3>1, <4>1 DEF Lasts
    <3> QED
      BY <3>3
  <2> QED
    BY <2>6, <2>7
<1>11. CASE Rests(Monitor) /\ now' = now
  <2>1. m.pc = "next" /\ m.todo = {} /\ w = Idle
    BY <1>11 DEF Rests
  <2>2. nextRefresh' = nextRefresh
    BY <1>7, <2>1 DEF Idle
  <2>3. k = 0
    BY <1>2, <2>1, LagsOf DEF SteadyUpstream
  <2>4. x >= nextRefresh + MaxLag + K /\ x >= s + k + MaxLag + K
    BY <1>1, <1>3, <1>5, <2>1 DEF Lasts, AfterNextTick, Outstanding
  <2>5. x >= now + K
    BY ONLY <1>3, <1>4, <2>1, <2>4, k \in Nat, K \in Nat, s \in Nat, x \in Int
  <2> QED
    BY <1>1, <1>11, <2>1, <2>2, <2>4, <2>5 DEF Lasts, AfterNextTick, Idle
<1>12. CASE Resolves(Monitor) /\ now' = now
  <2>1. m.pc # "idle" /\ w.pc \notin {"idle", "next"} /\ m.pc # "next" /\ SameDomain(Monitor)
    BY <1>12 DEF Resolves
  <2>2. nextRefresh' = nextRefresh
    BY <1>7, <2>1
  <2>3. Ahead(w) = Ahead(m) /\ w.since = m.since /\ w.todo = m.todo
    BY <2>1 DEF Ahead, SameDomain
  <2>4. Outstanding(w, d, ip) => Outstanding(m, d, ip)
    BY <1>12 DEF Outstanding, Resolves, SameDomain
  <2> QED
    BY <2>1, <2>2, <2>3, <2>4 DEF Lasts
<1>13. CASE Passes(Monitor) /\ now' = now
  <2>1. PICK i \in m.pending : Deals(Monitor, i)
    BY <1>13 DEF Passes
  <2>2. m.pc = "allow" /\ w.todo = m.todo
    BY <1>13, <2>1 DEF Passes, Deals, SameDomain
  <2>3. nextRefresh' = nextRefresh
    BY <1>7, <2>2
  <2>4. CASE w.pc = "allow"
    <3>1. SameDomain(Monitor) /\ w.pending \subseteq m.pending
      BY <2>1, <2>4 DEF Deals
    <3>2. Ahead(w) = Ahead(m) /\ w.since = m.since
      BY <2>2, <2>4, <3>1 DEF Ahead, SameDomain
    <3>3. Outstanding(w, d, ip) => Outstanding(m, d, ip)
      BY <2>2, <2>4, <3>1 DEF Outstanding, SameDomain
    <3> QED
      BY <2>2, <2>3, <2>4, <3>2, <3>3 DEF Lasts
  <2>5. CASE w.pc # "allow"
    <3>1. w.pc = "next" /\ w.since = now
      BY <2>1, <2>5 DEF Deals
    <3>2. Ahead(w) = k /\ Ahead(m) = MaxLag + k
      BY <1>2, <1>5, <2>2, <3>1 DEF Ahead
    <3>3. CASE d \in m.todo
      <4>1. x >= s + (MaxLag + k)
        BY <1>3, <2>2, <3>2, <3>3 DEF Lasts, Outstanding
      <4>2. x >= now + k
        BY ONLY <1>3, <1>4, <2>2, <4>1, s \in Nat, k \in Nat, x \in Int
      <4> QED
        BY <2>2, <3>1, <3>2, <3>3, <4>2 DEF Lasts
    <3>4. CASE d \notin m.todo
      <4>1. ~Outstanding(w, d, ip) /\ ~Outstanding(m, d, ip)
        BY <2>2, <3>1, <3>4 DEF Outstanding
      <4>2. x >= AfterNextTick(nextRefresh) /\ x >= s + (MaxLag + k) + MaxLag + K
        BY <1>1, <1>3, <2>2, <3>2, <3>4, <4>1 DEF Lasts
      <4>3. x >= now + k + MaxLag + K
        BY ONLY <1>3, <1>4, <2>2, <4>2, s \in Nat, k \in Nat, K \in Nat, x \in Int
      <4> QED
        BY <1>1, <2>3, <3>1, <3>2, <4>1, <4>2, <4>3 DEF Lasts
    <3> QED
      BY <3>3, <3>4
  <2> QED
    BY <2>4, <2>5
<1> QED
  BY <1>4, <1>8, <1>9, <1>10, <1>11, <1>12, <1>13, LoopMoves DEF LoopGoesOn

----
(* The inductive invariant.  An address of a configured domain that main's   *)
(* own resolution need not allow any more is allowed for long enough.        *)
Watched == \A d \in ConfigDomains : \A ip \in Addresses(d) \ FailingIPs :
    ~Outstanding(task[Preresolve], d, ip) =>
        Lasts(task[Monitor], now, nextRefresh, d, ip, allowedIPs[ip])

Settled == TypeOK /\ DomainsNamed /\ WithinLag /\ RefreshSoon /\ LoopsSteady /\ RecordsSteady

LEMMA AddressesTyped ==
  ASSUME NEW d \in ConfigDomains, NEW ip \in Addresses(d)
  PROVE  ip \in IPs
BY DEF Addresses, ARecord

LEMMA WatchedImplies == SteadyUpstream /\ Settled /\ Watched => MonitoredStaysAllowed
<1> SUFFICES ASSUME SteadyUpstream, Settled, Watched, task[Preresolve].pc = "idle",
                    NEW d \in ConfigDomains, NEW answer \in Answers[d], NEW a \in answer,
                    a.ip \notin FailingIPs
             PROVE  allowedIPs[a.ip] >= now
  BY DEF MonitoredStaysAllowed
<1>1. a.ip \in Addresses(d)
  BY DEF Addresses
<1>2. a.ip \in IPs /\ allowedIPs[a.ip] \in Int
  BY <1>1, AddressesTyped DEF Settled, TypeOK, ManagerTypeOK, NoEntry
<1>3. ~Outstanding(task[Preresolve], d, a.ip)
  BY DEF Settled, LoopsSteady, Loops, Outstanding, Idle
<1>4. Lasts(task[Monitor], now, nextRefresh, d, a.ip, allowedIPs[a.ip])
  BY <1>1, <1>3 DEF Watched
<1>5. Sane(task[Monitor], now, nextRefresh)
  BY HereSane DEF Settled, Here
<1> QED
  BY <1>2, <1>4, <1>5, LastsNow

LEMMA WatchedInit == SteadyUpstream /\ Init => Settled /\ Watched
<1> SUFFICES ASSUME SteadyUpstream, Init PROVE Settled /\ Watched
  OBVIOUS
<1>1. TypeOK /\ DomainsNamed /\ WithinLag
  BY TypeInit, NamedInit, WithinLagInit
<1>2. now = 0 /\ nextRefresh = RefreshInterval /\ \A d \in Domains : records[d] = NoRecord
  BY DEF Init, ClockInit, CacheInit
<1>3. /\ task[Monitor] = Idle
      /\ task[Preresolve].pc = "next" /\ task[Preresolve].todo = ConfigDomains
  BY DEF Init, Tasks, Monitor, Preresolve, Idle
<1>4. RefreshSoon
  BY <1>2 DEF RefreshSoon
<1>5. LoopsSteady
  BY <1>3 DEF LoopsSteady, Loops, AtDomain, Idle
<1>6. RecordsSteady
  BY <1>2 DEF RecordsSteady, Hit, NoRecord
<1>7. Watched
  BY <1>3 DEF Watched, Outstanding
<1> QED
  BY <1>1, <1>4, <1>5, <1>6, <1>7 DEF Settled

\* What has not expired is not taken away, and a grant only moves it up.
LEMMA ValidKept ==
  ASSUME TypeOK, [Next]_vars, NEW ip \in IPs, allowedIPs[ip] >= now
  PROVE  allowedIPs'[ip] >= allowedIPs[ip]
<1>1. now \in Nat /\ allowedIPs[ip] \in Int
  BY DEF TypeOK, ManagerTypeOK, NoEntry
<1>2. ASSUME NEW t \in Tasks, AllowNext(t) PROVE allowedIPs'[ip] >= allowedIPs[ip]
  <2>1. PICK i \in task[t].pending : Grant(i, task[t].ttl)
    BY <1>2 DEF AllowNext
  <2>2. i \in IPs /\ task[t].ttl \in Nat
    BY DEF TypeOK, TaskState
  <2> QED
    BY <2>1, <2>2, GrantReaches
<1>3. CASE ManagerCleanup
  BY <1>1, <1>3, CleanupKeeps DEF ManagerCleanup
<1>4. CASE UNCHANGED allowedIPs
  BY <1>1, <1>4
<1> QED
  BY <1>2, <1>3, <1>4
     DEF Next, Work, ReceiveQuery, ReceiveOther, Reply, RefreshTick, TakeDomain, Lookup,
         ExchangeAnswer, ExchangeError, AllowFails, CacheCleanup, TimePasses, vars

LEMMA WatchedStep ==
  ASSUME SteadyUpstream, Settled, Watched, [Next]_vars, Settled', Here'
  PROVE  Watched'
<1> SUFFICES ASSUME NEW d \in ConfigDomains, NEW ip \in Addresses(d) \ FailingIPs,
                    ~Outstanding(task'[Preresolve], d, ip)
             PROVE  Lasts(task'[Monitor], now', nextRefresh', d, ip, allowedIPs'[ip])
  BY DEF Watched
<1> DEFINE goal == Lasts(task'[Monitor], now', nextRefresh', d, ip, allowedIPs'[ip])
<1>1. TypeOK /\ LoopsSteady /\ RecordsSteady /\ Here
  BY HereSane DEF Settled
<1>2. ip \in IPs /\ allowedIPs[ip] \in Int /\ allowedIPs'[ip] \in Int /\ now \in Nat
  BY AddressesTyped DEF Settled, TypeOK, ManagerTypeOK, NoEntry
<1>3. Monitor \in Loops /\ Preresolve \in Loops
  BY DEF Loops
<1>4. Sane(task'[Monitor], now', nextRefresh')
  BY DEF Here
<1>5. ASSUME Granted(ip) PROVE goal
  <2>1. PICK ttl \in Nat : now' = now /\ EnoughTime(ttl) /\ allowedIPs'[ip] >= now' + ttl
    BY <1>5 DEF Granted
  <2> QED
    BY <1>2, <1>4, <2>1, GrantLasts
<1>6. CASE Outstanding(task[Preresolve], d, ip)
  BY <1>1, <1>2, <1>3, <1>5, <1>6, LoopGrants
<1>7. CASE Outstanding(task[Monitor], d, ip) /\ ~Outstanding(task'[Monitor], d, ip)
  BY <1>1, <1>2, <1>3, <1>5, <1>7, LoopGrants
<1>8. CASE /\ ~Outstanding(task[Preresolve], d, ip)
           /\ Outstanding(task[Monitor], d, ip) => Outstanding(task'[Monitor], d, ip)
  <2>1. Lasts(task[Monitor], now, nextRefresh, d, ip, allowedIPs[ip])
    BY <1>8 DEF Watched
  <2>2. allowedIPs[ip] >= now
    BY <1>1, <1>2, <2>1, LastsNow DEF Here
  <2>3. Lasts(task'[Monitor], now', nextRefresh', d, ip, allowedIPs[ip])
    BY <1>1, <1>2, <1>8, <2>1, MonitorKeeps
  <2>4. allowedIPs'[ip] >= allowedIPs[ip]
    BY <1>1, <1>2, <2>2, ValidKept
  <2> QED
    BY <1>2, <1>4, <2>3, <2>4, LongerLasts
<1> QED
  BY <1>6, <1>7, <1>8

LEMMA SettledStep == SteadyUpstream /\ Settled /\ [Next]_vars => Settled'
BY TypeStep, NamedStep, WithinLagStep, RefreshSoonStep, LoopsSteadyStep, RecordsSteadyStep
   DEF Settled

LEMMA SettledHere == Settled => Here
BY HereSane DEF Settled

(* DomainMonitor does what its comment says, "monitors domains and keeps     *)
(* their IPs allowed": from the end of main's own resolution on, an address  *)
(* of a configured domain is never closed, if upstream always answers with   *)
(* the same addresses and the TTLs reach over the refresh interval and the   *)
(* time that the loop takes for all of the domains.  The instance of         *)
(* monitor.cfg meets SteadyUpstream with no tick to spare.                   *)
THEOREM MonitoredDomainsStayAllowed ==
  ASSUME SteadyUpstream
  PROVE  Spec => []MonitoredStaysAllowed
<1>1. Init => Settled /\ Watched
  BY WatchedInit
<1>2. Settled /\ [Next]_vars => Settled'
  BY SettledStep
<1>3. Settled => Here
  BY SettledHere
<1>4. Settled /\ Watched /\ Settled' /\ Here' /\ [Next]_vars => Watched'
  BY WatchedStep
<1>5. Settled /\ Watched => MonitoredStaysAllowed
  BY WatchedImplies
<1> QED
  BY <1>1, <1>2, <1>3, <1>4, <1>5, PTL DEF Spec

====
