---- MODULE DNSServer_coverage_proofs ----
(***************************************************************************)
(* What the server has answered, the firewall lets through: the proofs of  *)
(* CacheCovered and ReplyCovered, for every number of tasks that resolve   *)
(* at the same time.                                                       *)
(***************************************************************************)
EXTENDS DNSServer_proofs

USE MaxTimeAssumption, TTLAssumption, ServerAssumption

\* A grant reaches at least as far as the entry did, and at least ttl from now on.
LEMMA GrantReaches ==
  ASSUME TypeOK, NEW ip \in IPs, NEW ttl \in Nat, Grant(ip, ttl)
  PROVE  /\ allowedIPs'[ip] >= now + ttl
         /\ \A other \in IPs : allowedIPs'[other] >= allowedIPs[other]
BY DEF TypeOK, ManagerTypeOK, Grant, GrantedExpiry, Valid, Exists, NoEntry

\* The cleanup of the manager takes only what has expired.
LEMMA CleanupKeeps ==
  ASSUME TypeOK, ForgetExpired, NEW ip \in IPs, now <= allowedIPs[ip]
  PROVE  allowedIPs'[ip] = allowedIPs[ip]
BY DEF TypeOK, ManagerTypeOK, ForgetExpired, Expired, Exists, NoEntry

----
\* The task that has still to allow ip will do so until the record's expiry at least.
Owes(t, d, ip) ==
    /\ task[t].pc = "allow"
    /\ task[t].domain = d
    /\ ip \in task[t].pending
    /\ now + task[t].ttl >= records[d].expiresAt

\* CacheCovered, with a task that owes the grant in place of one that is about to
\* allow the address.  A task with an older answer and a shorter TTL does not count.
CoveredOrOwed == \A d \in Domains : \A ip \in records[d].ips \ FailingIPs :
    Hit(d) => allowedIPs[ip] >= records[d].expiresAt \/ \E t \in Tasks : Owes(t, d, ip)

LEMMA CoveredImplies == CoveredOrOwed => CacheCovered
BY DEF CoveredOrOwed, CacheCovered, Owes, Pending

LEMMA CoveredInit == Init => CoveredOrOwed
BY DEF Init, CacheInit, NoRecord, CoveredOrOwed

\* A step that leaves the tasks in the allow loop, the records and the entries alone.
LEMMA CoveredFrame ==
  ASSUME CoveredOrOwed, UNCHANGED <<now, records, allowedIPs>>,
         \A u \in Tasks : task[u].pc = "allow" => task'[u] = task[u]
  PROVE  CoveredOrOwed'
BY DEF CoveredOrOwed, Owes, Hit

\* A task in the allow loop passes over ip and keeps the rest of its addresses.
LEMMA PassOverKeeps ==
  ASSUME TypeOK, NEW t \in Tasks, NEW ip, PassOver(t, ip), task[t].pc = "allow",
         NEW other \in task[t].pending, other # ip
  PROVE  /\ task'[t].pc = "allow" /\ task'[t].domain = task[t].domain
         /\ task'[t].ttl = task[t].ttl /\ other \in task'[t].pending
<1>1. task[t] \in TaskState /\ task \in [Tasks -> TaskState]
  BY DEF TypeOK
<1>2. task' = [task EXCEPT ![t] = [task[t] EXCEPT !.pending = task[t].pending \ {ip}]]
  BY DEF PassOver, Become
<1> QED
  BY <1>1, <1>2 DEF TaskState

LEMMA PassOverOthers ==
  ASSUME TypeOK, NEW t \in Tasks, NEW ip, PassOver(t, ip), NEW u \in Tasks, u # t
  PROVE  task'[u] = task[u]
BY DEF TypeOK, PassOver, Become

LEMMA OwesAfterPassOver ==
  ASSUME TypeOK, NEW t \in Tasks, NEW ip, PassOver(t, ip), task[t].pc = "allow",
         UNCHANGED <<now, records>>,
         NEW u \in Tasks, NEW d, NEW other, other # ip, Owes(u, d, other)
  PROVE  Owes(u, d, other)'
<1>1. CASE u = t
  BY <1>1, PassOverKeeps DEF Owes
<1>2. CASE u # t
  BY <1>2, PassOverOthers DEF Owes
<1> QED
  BY <1>1, <1>2

LEMMA CoveredStep == TypeOK /\ DomainsNamed /\ CoveredOrOwed /\ [Next]_vars => CoveredOrOwed'
<1> SUFFICES ASSUME TypeOK, DomainsNamed, CoveredOrOwed, [Next]_vars PROVE CoveredOrOwed'
  OBVIOUS
<1>1. /\ now \in Nat
      /\ task \in [Tasks -> TaskState]
      /\ records \in [Domains -> Record]
      /\ allowedIPs \in [IPs -> Nat \cup {NoEntry}]
      /\ Handlers \subseteq Tasks /\ Monitor \in Tasks
  BY DEF TypeOK, ManagerTypeOK, Tasks
<1>2. ASSUME NEW h \in Handlers, ReceiveOther(h) \/ Reply(h) PROVE CoveredOrOwed'
  BY <1>1, <1>2, CoveredFrame DEF ReceiveOther, Reply, Become
<1>3. ASSUME NEW h \in Handlers, NEW d \in Domains, ReceiveQuery(h, d) PROVE CoveredOrOwed'
  BY <1>1, <1>3, CoveredFrame DEF ReceiveQuery, Become
<1>4. CASE RefreshTick
  BY <1>1, <1>4, CoveredFrame DEF RefreshTick, Become
<1>5. ASSUME NEW t \in Tasks, TakeDomain(t) \/ Lookup(t) \/ ExchangeError(t)
      PROVE  CoveredOrOwed'
  BY <1>1, <1>5, CoveredFrame DEF TakeDomain, Lookup, ExchangeError, Become
<1>6. ASSUME NEW t \in Tasks, ExchangeAnswer(t) PROVE CoveredOrOwed'
  <2>1. PICK answer \in Answers[task[t].domain] :
          LET ips == {a.ip : a \in answer}
              ttl == EffectiveTTL({a.ttl : a \in answer})
          IN  SetRecord(task[t].domain, ips, ttl) /\ Become(t, Resolved(t, ips, ttl))
    BY <1>6 DEF ExchangeAnswer
  <2> DEFINE own == task[t].domain
             ips == {a.ip : a \in answer}
             ttl == EffectiveTTL({a.ttl : a \in answer})
  <2>2. own \in Domains /\ UNCHANGED <<now, allowedIPs>> /\ task[t].pc = "exchange"
    BY <1>6 DEF ExchangeAnswer, DomainsNamed
  <2>3. ips \in SUBSET IPs /\ ttl \in Nat
    BY <2>2, AnswerTyped
  <2>4. SetRecord(own, ips, ttl) /\ Become(t, Resolved(t, ips, ttl))
    BY <2>1
  <2> HIDE DEF ips, ttl
  <2>5. /\ records'[own] = [ips |-> ips, ttl |-> ttl, expiresAt |-> now + ttl]
        /\ \A d \in Domains : d # own => records'[d] = records[d]
    BY <1>1, <2>2, <2>4 DEF SetRecord
  <2>6. /\ task'[t].pc = "allow" /\ task'[t].domain = own
        /\ task'[t].pending = ips /\ task'[t].ttl = ttl
        /\ \A u \in Tasks : u # t => task'[u] = task[u]
    <3>1. task[t] \in TaskState
      BY <1>1
    <3> QED
      BY <1>1, <2>4, <3>1 DEF Become, Resolved, TaskState
  <2>7. ASSUME NEW d \in Domains, NEW ip \in records'[d].ips \ FailingIPs, Hit(d)'
        PROVE  allowedIPs'[ip] >= records'[d].expiresAt \/ \E u \in Tasks : Owes(u, d, ip)'
    <3>1. CASE d = own
      <4>1. Owes(t, d, ip)'
        BY <1>1, <2>2, <2>3, <2>5, <2>6, <2>7, <3>1 DEF Owes
      <4> QED
        BY <4>1
    <3>2. CASE d # own
      <4>1. Hit(d) /\ ip \in records[d].ips \ FailingIPs
        BY <2>2, <2>5, <2>7, <3>2 DEF Hit
      <4>2. CASE allowedIPs[ip] >= records[d].expiresAt
        BY <2>2, <2>5, <3>2, <4>2
      <4>3. ASSUME NEW u \in Tasks, Owes(u, d, ip) PROVE Owes(u, d, ip)'
        <5>1. u # t
          BY <2>2, <4>3 DEF Owes
        <5> QED
          BY <2>2, <2>5, <2>6, <3>2, <4>3, <5>1 DEF Owes
      <4> QED
        BY <4>1, <4>2, <4>3 DEF CoveredOrOwed
    <3> QED
      BY <3>1, <3>2
  <2> QED
    BY <2>7 DEF CoveredOrOwed
<1>7. ASSUME NEW t \in Tasks, AllowNext(t) PROVE CoveredOrOwed'
  <2>1. PICK ip \in task[t].pending : Grant(ip, task[t].ttl) /\ PassOver(t, ip)
    BY <1>7 DEF AllowNext
  <2>2. UNCHANGED <<now, records>> /\ task[t].pc = "allow"
    BY <1>7 DEF AllowNext
  <2>3. ip \in IPs /\ task[t].ttl \in Nat
    BY <1>1 DEF TaskState
  <2>4. ASSUME NEW d \in Domains, NEW other \in records[d].ips \ FailingIPs, Hit(d)
        PROVE  allowedIPs'[other] >= records[d].expiresAt \/ \E u \in Tasks : Owes(u, d, other)'
    <3>1. other \in IPs /\ records[d].expiresAt \in Int
      BY <1>1, <2>4 DEF Record
    <3>2. CASE allowedIPs[other] >= records[d].expiresAt
      <4>1. allowedIPs'[other] >= allowedIPs[other]
        BY <2>1, <2>3, <3>1, GrantReaches
      <4>2. allowedIPs[other] \in Int /\ allowedIPs'[other] \in Int
        BY <1>1, <2>1, <2>3, <3>1, GrantTyped DEF ManagerTypeOK, NoEntry
      <4> QED
        BY <3>1, <3>2, <4>1, <4>2
    <3>3. ASSUME NEW u \in Tasks, Owes(u, d, other), other # ip PROVE Owes(u, d, other)'
      BY <2>1, <2>2, <3>3, OwesAfterPassOver
    <3>4. ASSUME NEW u \in Tasks, Owes(u, d, other), other = ip, u # t PROVE Owes(u, d, other)'
      BY <2>1, <2>2, <3>4, PassOverOthers DEF Owes
    <3>5. CASE Owes(t, d, ip)
      <4>1. allowedIPs'[ip] >= now + task[t].ttl
        BY <2>1, <2>3, GrantReaches
      <4>2. allowedIPs'[ip] \in Int
        BY <2>1, <2>3, GrantTyped DEF ManagerTypeOK, NoEntry
      <4>3. now + task[t].ttl >= records[d].expiresAt
        BY <3>5 DEF Owes
      <4>4. allowedIPs'[ip] >= records[d].expiresAt
        BY <1>1, <2>3, <3>1, <4>1, <4>2, <4>3
      <4>5. CASE other = ip
        BY <4>4, <4>5
      <4>6. CASE other # ip
        BY <2>4, <3>2, <3>3, <4>6 DEF CoveredOrOwed
      <4> QED
        BY <4>5, <4>6
    <3> QED
      BY <2>4, <3>2, <3>3, <3>4, <3>5 DEF CoveredOrOwed
  <2> QED
    BY <2>2, <2>4 DEF CoveredOrOwed, Hit
<1>8. ASSUME NEW t \in Tasks, AllowFails(t) PROVE CoveredOrOwed'
  <2>1. PICK ip \in task[t].pending \cap FailingIPs : PassOver(t, ip)
    BY <1>8 DEF AllowFails
  <2>2. UNCHANGED <<now, records, allowedIPs>> /\ task[t].pc = "allow"
    BY <1>8 DEF AllowFails
  <2>3. ASSUME NEW u \in Tasks, NEW d, NEW other, other \notin FailingIPs, Owes(u, d, other)
        PROVE  Owes(u, d, other)'
    BY <2>1, <2>2, <2>3, OwesAfterPassOver
  <2> QED
    BY <2>2, <2>3 DEF CoveredOrOwed, Hit
<1>9. CASE CacheCleanup
  <2>1. \A d \in Domains : records'[d] = records[d] \/ records'[d].ips = {}
    BY <1>9 DEF CacheCleanup, DropExpired, NoRecord
  <2> QED
    BY <1>9, <2>1 DEF CacheCleanup, CoveredOrOwed, Owes, Hit
<1>10. CASE ManagerCleanup
  <2>1. ASSUME NEW ip \in IPs, now <= allowedIPs[ip] PROVE allowedIPs'[ip] = allowedIPs[ip]
    BY <1>10, <2>1, CleanupKeeps DEF ManagerCleanup
  <2>2. UNCHANGED <<now, records, task>>
    BY <1>10 DEF ManagerCleanup
  <2>3. ASSUME NEW d \in Domains, NEW ip \in records[d].ips, Hit(d),
               allowedIPs[ip] >= records[d].expiresAt
        PROVE  allowedIPs'[ip] >= records[d].expiresAt
    <3>1. ip \in IPs /\ records[d].expiresAt \in Int
      BY <1>1, <2>3 DEF Record
    <3>2. now <= allowedIPs[ip]
      BY <1>1, <2>3, <3>1 DEF Hit, NoEntry
    <3> QED
      BY <2>1, <2>3, <3>1, <3>2
  <2> QED
    BY <2>2, <2>3 DEF CoveredOrOwed, Owes, Hit
<1>11. CASE TimePasses
  <2>1. UNCHANGED <<records, allowedIPs, task>> /\ now' = now + 1
    BY <1>11 DEF TimePasses, Tick
  <2>2. \A d \in Domains : records[d].expiresAt \in Int
    BY <1>1 DEF Record
  <2>3. \A t \in Tasks : task[t].ttl \in Nat
    BY <1>1 DEF TaskState
  <2>4. ASSUME NEW d \in Domains, Hit(d)' PROVE Hit(d)
    BY <1>1, <2>1, <2>2, <2>4 DEF Hit
  <2>5. ASSUME NEW d \in Domains, NEW ip, NEW t \in Tasks, Owes(t, d, ip) PROVE Owes(t, d, ip)'
    BY <1>1, <2>1, <2>2, <2>3, <2>5 DEF Owes
  <2> QED
    BY <2>1, <2>4, <2>5 DEF CoveredOrOwed
<1>12. CASE UNCHANGED vars
  BY <1>12, CoveredFrame DEF vars
<1> QED
  BY <1>2, <1>3, <1>4, <1>5, <1>6, <1>7, <1>8, <1>9, <1>10, <1>11, <1>12 DEF Next, Work

(* As long as a record can be hit, its addresses are open until its expiry,  *)
(* or a task is about to open them.                                          *)
THEOREM CacheIsCovered == Spec => []CacheCovered
<1>1. Init => TypeOK /\ DomainsNamed /\ CoveredOrOwed
  BY TypeInit, NamedInit, CoveredInit
<1>2. TypeOK /\ DomainsNamed /\ CoveredOrOwed /\ [Next]_vars
        => (TypeOK /\ DomainsNamed /\ CoveredOrOwed)'
  BY TypeStep, NamedStep, CoveredStep
<1> QED
  BY <1>1, <1>2, CoveredImplies, PTL DEF Spec

----
\* What a task has allowed so far stays open for the TTL in its hands.
Until(t) == task[t].since + task[t].ttl

AllowedSoFar(t) ==
    task[t].pc \in {"allow", "reply"} /\ now <= Until(t) =>
        \A ip \in (task[t].ips \ task[t].pending) \ FailingIPs : allowedIPs[ip] >= Until(t)

TaskCovered(t) ==
    /\ task[t].since <= now
    /\ task[t].pc = "reply" => task[t].pending = {}
    /\ AllowedSoFar(t)

AnswersCovered == \A t \in Tasks : TaskCovered(t)

LEMMA AnswersImply == AnswersCovered => ReplyCovered
BY DEF AnswersCovered, TaskCovered, AllowedSoFar, Until, ReplyCovered, Tasks

LEMMA AnswersInit == Init => AnswersCovered
<1> SUFFICES ASSUME Init, NEW t \in Tasks PROVE TaskCovered(t)
  BY DEF AnswersCovered
<1>1. task[t].since = 0 /\ task[t].pc \in {"idle", "next"} /\ now = 0
  BY DEF Init, Idle, ClockInit
<1> QED
  BY <1>1 DEF TaskCovered, AllowedSoFar

\* A task that changes, without being in the allow loop or about to answer afterwards,
\* or with nothing allowed yet.
LEMMA AnswersFrame ==
  ASSUME TypeOK, AnswersCovered, UNCHANGED <<now, allowedIPs>>,
         NEW t \in Tasks, \A u \in Tasks : u # t => task'[u] = task[u],
         task'[t].since <= now,
         task'[t].pc # "reply",
         task'[t].pc = "allow" => task'[t].pending = task'[t].ips
  PROVE  AnswersCovered'
<1>2. TaskCovered(t)'
  BY DEF TaskCovered, AllowedSoFar
<1>3. ASSUME NEW u \in Tasks, u # t PROVE TaskCovered(u)'
  BY <1>3 DEF AnswersCovered, TaskCovered, AllowedSoFar, Until
<1> QED
  BY <1>2, <1>3 DEF AnswersCovered

\* A step that leaves the tasks alone and no entry that is still good worse off.
LEMMA AnswersKept ==
  ASSUME TypeOK, AnswersCovered, UNCHANGED task, now' \in Nat, now' >= now,
         \A ip \in IPs : now <= allowedIPs[ip] => allowedIPs'[ip] = allowedIPs[ip]
  PROVE  AnswersCovered'
<1> SUFFICES ASSUME NEW t \in Tasks PROVE TaskCovered(t)'
  BY DEF AnswersCovered
<1>1. task[t] \in TaskState /\ now \in Nat /\ allowedIPs \in [IPs -> Nat \cup {NoEntry}]
  BY DEF TypeOK, ManagerTypeOK
<1>2. Until(t) \in Nat /\ task[t].since \in Nat /\ task[t].ips \subseteq IPs
  BY <1>1 DEF Until, TaskState
<1>3. TaskCovered(t)
  BY DEF AnswersCovered
<1>4. Until(t)' = Until(t)
  BY DEF Until
<1>5. AllowedSoFar(t)'
  <2> SUFFICES ASSUME task[t].pc \in {"allow", "reply"}, now' <= Until(t),
                      NEW ip \in (task[t].ips \ task[t].pending) \ FailingIPs
               PROVE  allowedIPs'[ip] >= Until(t)
    BY <1>4 DEF AllowedSoFar
  <2>1. now <= Until(t)
    BY <1>1, <1>2
  <2>2. allowedIPs[ip] >= Until(t)
    BY <1>3, <2>1 DEF TaskCovered, AllowedSoFar
  <2>3. ip \in IPs /\ allowedIPs[ip] \in Int
    BY <1>1, <1>2 DEF NoEntry
  <2>4. now <= allowedIPs[ip]
    BY <1>1, <1>2, <2>1, <2>2, <2>3
  <2> QED
    BY <2>2, <2>3, <2>4
<1> QED
  BY <1>1, <1>2, <1>3, <1>5 DEF TaskCovered

\* A task passes over ip, which is allowed for its TTL now or cannot be allowed.
LEMMA AnswersPassOver ==
  ASSUME TypeOK, AnswersCovered, NEW t \in Tasks, task[t].pc = "allow", UNCHANGED now,
         NEW ip \in task[t].pending, PassOver(t, ip), ManagerTypeOK',
         ip \in FailingIPs \/ allowedIPs'[ip] >= now + task[t].ttl,
         \A other \in IPs : allowedIPs'[other] >= allowedIPs[other]
  PROVE  AnswersCovered'
<1>1. /\ now \in Nat /\ ip \in IPs
      /\ task \in [Tasks -> TaskState]
      /\ allowedIPs \in [IPs -> Nat \cup {NoEntry}]
      /\ allowedIPs' \in [IPs -> Nat \cup {NoEntry}]
  BY DEF TypeOK, ManagerTypeOK, TaskState
<1>2. \A u \in Tasks : /\ Until(u) \in Nat /\ task[u].ips \subseteq IPs
                       /\ task[u].since \in Nat /\ task[u].ttl \in Nat
  BY <1>1 DEF Until, TaskState
<1>3. ASSUME NEW u \in Tasks, u # t PROVE TaskCovered(u)'
  <2>1. task'[u] = task[u]
    BY <1>3, PassOverOthers
  <2>2. TaskCovered(u) /\ Until(u)' = Until(u)
    BY <2>1 DEF AnswersCovered, Until
  <2>3. ASSUME NEW other \in IPs, allowedIPs[other] >= Until(u)
        PROVE  allowedIPs'[other] >= Until(u)
    BY <1>1, <1>2, <2>3 DEF NoEntry
  <2>4. AllowedSoFar(u)'
    BY <1>2, <2>1, <2>2, <2>3 DEF TaskCovered, AllowedSoFar
  <2> QED
    BY <2>1, <2>2, <2>4 DEF TaskCovered
<1>4. ASSUME NEW other \in task[t].ips \ FailingIPs, now <= Until(t),
             other \in task[t].pending => other = ip
      PROVE  allowedIPs'[other] >= Until(t)
  <2>0. other \in IPs /\ allowedIPs'[other] \in Int /\ allowedIPs[other] \in Int
    BY <1>1, <1>2 DEF NoEntry
  <2>1. CASE other = ip
    <3>1. allowedIPs'[ip] >= now + task[t].ttl
      BY <1>4, <2>1
    <3>2. task[t].since <= now
      BY DEF AnswersCovered, TaskCovered
    <3> QED
      BY <1>1, <1>2, <2>0, <2>1, <3>1, <3>2 DEF Until
  <2>2. CASE other # ip
    <3>1. allowedIPs[other] >= Until(t)
      BY <1>4, <2>2 DEF AnswersCovered, TaskCovered, AllowedSoFar
    <3>2. allowedIPs'[other] >= allowedIPs[other]
      BY <2>0
    <3> QED
      BY <1>2, <2>0, <3>1, <3>2
  <2> QED
    BY <2>1, <2>2
<1>5. CASE task[t].pending \ {ip} # {}
  <2>1. task' = [task EXCEPT ![t] = [task[t] EXCEPT !.pending = task[t].pending \ {ip}]]
    BY <1>5 DEF PassOver, Become
  <2>2. /\ task'[t].pc = "allow" /\ task'[t].pending = task[t].pending \ {ip}
        /\ task'[t].ips = task[t].ips /\ task'[t].since = task[t].since
        /\ task'[t].ttl = task[t].ttl
    <3>1. task[t] \in TaskState
      BY <1>1
    <3> QED
      BY <1>1, <2>1, <3>1 DEF TaskState
  <2>3. TaskCovered(t)'
    BY <1>4, <2>2 DEF TaskCovered, AllowedSoFar, Until, AnswersCovered
  <2> QED
    BY <1>3, <2>3 DEF AnswersCovered
<1>6. CASE task[t].pending \ {ip} = {} /\ t \in Handlers
  <2>1. task' = [task EXCEPT ![t] = [task[t] EXCEPT !.pc = "reply", !.pending = {}]]
    BY <1>6 DEF PassOver, Become, Finished
  <2>2. /\ task'[t].pc = "reply" /\ task'[t].pending = {}
        /\ task'[t].ips = task[t].ips /\ task'[t].since = task[t].since
        /\ task'[t].ttl = task[t].ttl
    <3>1. task[t] \in TaskState
      BY <1>1
    <3> QED
      BY <1>1, <2>1, <3>1 DEF TaskState
  <2>3. TaskCovered(t)'
    BY <1>4, <1>6, <2>2 DEF TaskCovered, AllowedSoFar, Until, AnswersCovered
  <2> QED
    BY <1>3, <2>3 DEF AnswersCovered
<1>7. CASE task[t].pending \ {ip} = {} /\ t \notin Handlers
  <2>1. task'[t].pc = "next" /\ task'[t].since = now
    BY <1>1, <1>7 DEF PassOver, Become, Finished, Idle
  <2>2. TaskCovered(t)'
    BY <1>1, <2>1 DEF TaskCovered, AllowedSoFar
  <2> QED
    BY <1>3, <2>2 DEF AnswersCovered
<1> QED
  BY <1>5, <1>6, <1>7

LEMMA AnswersStep ==
  TypeOK /\ DomainsNamed /\ AnswersCovered /\ [Next]_vars => AnswersCovered'
<1> SUFFICES ASSUME TypeOK, DomainsNamed, AnswersCovered, [Next]_vars PROVE AnswersCovered'
  OBVIOUS
<1>1. /\ now \in Nat
      /\ \A t \in Tasks : task[t] \in TaskState
      /\ Handlers \subseteq Tasks /\ Monitor \in Tasks
      /\ Idle.since = 0 /\ Idle.pc = "idle"
      /\ \A t \in Tasks : task[t].since <= now
  BY DEF TypeOK, Tasks, Idle, AnswersCovered, TaskCovered
<1>0. task \in [Tasks -> TaskState]
  BY DEF TypeOK
<1>2. ASSUME NEW h \in Handlers, ReceiveOther(h) PROVE AnswersCovered'
  <2>1. UNCHANGED <<now, allowedIPs>> /\ \A u \in Tasks : u # h => task'[u] = task[u]
    BY <1>0, <1>2 DEF ReceiveOther, Become
  <2>2. task'[h].since = now /\ task'[h].pc = "error"
    BY <1>0, <1>1, <1>2 DEF ReceiveOther, Become, Idle
  <2> QED
    BY <1>1, <2>1, <2>2, AnswersFrame
<1>3. ASSUME NEW h \in Handlers, NEW d \in Domains, ReceiveQuery(h, d) PROVE AnswersCovered'
  <2>1. UNCHANGED <<now, allowedIPs>> /\ \A u \in Tasks : u # h => task'[u] = task[u]
    BY <1>0, <1>3 DEF ReceiveQuery, Become
  <2>2. task'[h].since = now /\ task'[h].pc = "lookup"
    BY <1>0, <1>1, <1>3 DEF ReceiveQuery, Become, Idle
  <2> QED
    BY <1>1, <2>1, <2>2, AnswersFrame
<1>4. ASSUME NEW h \in Handlers, Reply(h) PROVE AnswersCovered'
  <2>1. UNCHANGED <<now, allowedIPs>> /\ \A u \in Tasks : u # h => task'[u] = task[u]
    BY <1>0, <1>4 DEF Reply, Become
  <2>2. task'[h].since = 0 /\ task'[h].pc = "idle"
    BY <1>0, <1>1, <1>4 DEF Reply, Become, Idle
  <2> QED
    BY <1>1, <2>1, <2>2, AnswersFrame
<1>5. CASE RefreshTick
  <2>1. UNCHANGED <<now, allowedIPs>> /\ \A u \in Tasks : u # Monitor => task'[u] = task[u]
    BY <1>0, <1>5 DEF RefreshTick, Become
  <2>2. task'[Monitor].since = now /\ task'[Monitor].pc = "next"
    BY <1>0, <1>1, <1>5 DEF RefreshTick, Become, Idle
  <2> QED
    BY <1>1, <2>1, <2>2, AnswersFrame
<1>6. ASSUME NEW t \in Tasks, TakeDomain(t) PROVE AnswersCovered'
  <2>1. UNCHANGED <<now, allowedIPs>> /\ \A u \in Tasks : u # t => task'[u] = task[u]
    BY <1>0, <1>6 DEF TakeDomain, Become
  <2>2. task'[t].since <= now /\ task'[t].pc \in {"idle", "lookup"}
    <3>1. CASE task[t].todo = {}
      BY <1>0, <1>1, <1>6, <3>1 DEF TakeDomain, Become
    <3>2. CASE task[t].todo # {}
      <4>1. PICK d \in task[t].todo :
              Become(t, [task[t] EXCEPT !.pc = "lookup", !.todo = @ \ {d}, !.domain = d])
        BY <1>6, <3>2 DEF TakeDomain
      <4> QED
        BY <1>0, <1>1, <4>1 DEF Become, TaskState
    <3> QED
      BY <3>1, <3>2
  <2> QED
    BY <1>1, <2>1, <2>2, AnswersFrame
<1>7. ASSUME NEW t \in Tasks, Lookup(t) PROVE AnswersCovered'
  <2>1. UNCHANGED <<now, allowedIPs>> /\ \A u \in Tasks : u # t => task'[u] = task[u]
    BY <1>0, <1>7 DEF Lookup, Become
  <2>2. /\ task'[t].since <= now /\ task'[t].pc \in {"allow", "exchange"}
        /\ task'[t].pc = "allow" => task'[t].pending = task'[t].ips
    BY <1>0, <1>1, <1>7 DEF Lookup, Become, Resolved, TaskState
  <2> QED
    BY <1>1, <2>1, <2>2, AnswersFrame
<1>8. ASSUME NEW t \in Tasks, ExchangeAnswer(t) PROVE AnswersCovered'
  <2>1. UNCHANGED <<now, allowedIPs>> /\ \A u \in Tasks : u # t => task'[u] = task[u]
    BY <1>0, <1>8 DEF ExchangeAnswer, Become
  <2>2. /\ task'[t].since <= now /\ task'[t].pc = "allow"
        /\ task'[t].pending = task'[t].ips
    BY <1>0, <1>1, <1>8 DEF ExchangeAnswer, Become, Resolved, TaskState
  <2> QED
    BY <1>1, <2>1, <2>2, AnswersFrame
<1>9. ASSUME NEW t \in Tasks, ExchangeError(t) PROVE AnswersCovered'
  <2>1. UNCHANGED <<now, allowedIPs>> /\ \A u \in Tasks : u # t => task'[u] = task[u]
    BY <1>0, <1>9 DEF ExchangeError, Become
  <2>2. task'[t].since <= now /\ task'[t].pc \in {"error", "next"}
    BY <1>0, <1>1, <1>9 DEF ExchangeError, Become, Abandoned, Finished, Idle, TaskState
  <2> QED
    BY <1>1, <2>1, <2>2, AnswersFrame
<1>10. ASSUME NEW t \in Tasks, AllowNext(t) PROVE AnswersCovered'
  <2>1. PICK ip \in task[t].pending : Grant(ip, task[t].ttl) /\ PassOver(t, ip)
    BY <1>10 DEF AllowNext
  <2>2. ip \in IPs /\ task[t].ttl \in Nat
    BY <1>1 DEF TaskState
  <2> QED
    BY <1>10, <2>1, <2>2, GrantReaches, GrantTyped, AnswersPassOver DEF AllowNext
<1>11. ASSUME NEW t \in Tasks, AllowFails(t) PROVE AnswersCovered'
  <2>1. PICK ip \in task[t].pending \cap FailingIPs : PassOver(t, ip)
    BY <1>11 DEF AllowFails
  <2>2. ManagerTypeOK' /\ \A other \in IPs : allowedIPs'[other] >= allowedIPs[other]
    BY <1>11 DEF AllowFails, TypeOK, ManagerTypeOK, NoEntry
  <2> QED
    BY <1>11, <2>1, <2>2, AnswersPassOver DEF AllowFails
<1>12. CASE CacheCleanup \/ UNCHANGED vars
  BY <1>1, <1>12, AnswersKept DEF CacheCleanup, vars
<1>13. CASE ManagerCleanup
  BY <1>1, <1>13, CleanupKeeps, AnswersKept DEF ManagerCleanup
<1>14. CASE TimePasses
  BY <1>1, <1>14, AnswersKept DEF TimePasses, Tick
<1> QED
  BY <1>2, <1>3, <1>4, <1>5, <1>6, <1>7, <1>8, <1>9, <1>10, <1>11, <1>12, <1>13, <1>14
     DEF Next, Work

(* An answer that leaves the server names addresses that the firewall keeps  *)
(* open for as long as the answer says.                                      *)
THEOREM RepliesAreCovered == Spec => []ReplyCovered
<1>1. Init => TypeOK /\ DomainsNamed /\ AnswersCovered
  BY TypeInit, NamedInit, AnswersInit
<1>2. TypeOK /\ DomainsNamed /\ AnswersCovered /\ [Next]_vars
        => (TypeOK /\ DomainsNamed /\ AnswersCovered)'
  BY TypeStep, NamedStep, AnswersStep
<1> QED
  BY <1>1, <1>2, AnswersImply, PTL DEF Spec

====
