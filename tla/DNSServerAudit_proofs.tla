---- MODULE DNSServerAudit_proofs ----
(***************************************************************************)
(* How long an address can stay allowed after the last DNS answer that     *)
(* named it has expired: the proof of StaleBound, for every number of      *)
(* handlers, all TTL bounds and every set of upstream answers.             *)
(***************************************************************************)
EXTENDS DNSServerAudit, DNSServer_proofs

USE MaxTimeAssumption, ManagerTTLAssumption, TTLAssumption, ServerAssumption

LEMMA GreatestOf ==
  ASSUME NEW S \in SUBSET Int, S # {}, NEW B \in Int, \A s \in S : s <= B
  PROVE  Max(S) \in S /\ \A s \in S : Max(S) >= s
<1> DEFINE T == {B - s : s \in S}
<1>1. \A s \in S : s \in Int /\ B - s \in Nat
  OBVIOUS
<1>2. T \in SUBSET Nat /\ T # {}
  BY ONLY <1>1, S # {}
<1>3. \A s \in S : B - s \in T
  OBVIOUS
<1>5. Least(T) \in T /\ \A t \in T : Least(T) <= t
  <2> HIDE DEF T
  <2> QED
    BY ONLY <1>2, LeastOf
<1>4. PICK m \in S : Least(T) = B - m
  BY ONLY <1>5
<1> HIDE DEF T
<1>6. \A s \in S : B - m <= B - s
  BY ONLY <1>3, <1>4, <1>5
<1>7. \A s \in S : m >= s
  BY ONLY <1>1, <1>6, B \in Int
<1> QED
  BY ONLY <1>7 DEF Max

----
\* No record is good for longer than MaxTTL from now on.
RecordsBounded == \A d \in Domains : records[d].expiresAt <= now + MaxTTL

LEMMA RecordsBoundedStep ==
  TypeOK /\ DomainsNamed /\ RecordsBounded /\ [Next]_vars => RecordsBounded'
<1> SUFFICES ASSUME TypeOK, DomainsNamed, RecordsBounded, [Next]_vars PROVE RecordsBounded'
  OBVIOUS
<1> USE DEF RecordsBounded
<1>1. now \in Nat /\ \A d \in Domains : records[d] \in Record /\ records[d].expiresAt \in Int
  BY DEF TypeOK, Record
<1>2. ASSUME NEW t \in Tasks, ExchangeAnswer(t) PROVE RecordsBounded'
  <2>1. PICK answer \in Answers[task[t].domain] :
          SetRecord(task[t].domain, {a.ip : a \in answer}, EffectiveTTL({a.ttl : a \in answer}))
    BY <1>2 DEF ExchangeAnswer
  <2> DEFINE d == task[t].domain
             ips == {a.ip : a \in answer}
             ttl == EffectiveTTL({a.ttl : a \in answer})
  <2>2. d \in Domains /\ now' = now
    BY <1>2 DEF ExchangeAnswer, DomainsNamed
  <2>3. ttl \in Nat /\ ttl <= MaxTTL
    BY <2>2, AnswerTyped
  <2> HIDE DEF ips, ttl
  <2>4. \A e \in Domains : records'[e].expiresAt = IF e = d THEN now + ttl ELSE records[e].expiresAt
    BY <2>1, <2>2 DEF SetRecord, TypeOK, ips, ttl
  <2> QED
    BY <1>1, <2>2, <2>3, <2>4
<1>3. CASE CacheCleanup
  BY <1>1, <1>3 DEF CacheCleanup, DropExpired, NoRecord
<1>4. CASE TimePasses
  BY <1>1, <1>4 DEF TimePasses, Tick
<1>5. CASE UNCHANGED <<now, records>>
  BY <1>5
<1> QED
  BY <1>2, <1>3, <1>4, <1>5
     DEF Next, Work, ReceiveQuery, ReceiveOther, Reply, RefreshTick, TakeDomain, Lookup,
         ExchangeError, AllowNext, AllowFails, ManagerCleanup, vars

----
\* What Observe remembers: never less than before, and the expiry of every record.
LEMMA Observed ==
  ASSUME dnsExpiry \in [IPs -> Int], \A i \in IPs : dnsExpiry[i] >= -1,
         now' \in Nat, RecordsBounded', records' \in [Domains -> Record],
         Observe, NEW ip \in IPs
  PROVE  /\ dnsExpiry'[ip] \in Int
         /\ dnsExpiry'[ip] >= dnsExpiry[ip]
         /\ \A d \in Domains : ip \in records'[d].ips => dnsExpiry'[ip] >= records'[d].expiresAt
<1> DEFINE S == {dnsExpiry[ip]} \cup {records'[d].expiresAt : d \in Naming(ip)}
<1>12. dnsExpiry[ip] \in Int /\ dnsExpiry[ip] >= -1
  BY ONLY dnsExpiry \in [IPs -> Int], \A i \in IPs : dnsExpiry[i] >= -1, ip \in IPs
<1>1. PICK e \in Int : e = dnsExpiry[ip] /\ e >= -1
  BY ONLY <1>12
<1>2. \A d \in Domains : records'[d].expiresAt \in Int /\ records'[d].expiresAt <= now' + MaxTTL
  BY DEF RecordsBounded, Record
<1>3. Naming(ip) \subseteq Domains
  BY DEF Naming
<1>11. e + (now' + MaxTTL) + 1 \in Int
  BY ONLY now' \in Nat, TTLAssumption, e \in Int
<1>4. PICK B \in Int : B = e + (now' + MaxTTL) + 1
  BY ONLY <1>11
<1>5. e <= B /\ now' + MaxTTL <= B
  BY ONLY <1>1, <1>4, now' \in Nat, TTLAssumption, e \in Int
<1>6. S \in SUBSET Int /\ S # {}
  BY <1>1, <1>2, <1>3
<1>7. \A s \in S : s <= B
  <2>1. ASSUME NEW s \in S PROVE s = e \/ \E d \in Domains : s = records'[d].expiresAt
    BY ONLY <1>1, <1>3, s \in S
  <2>2. \A d \in Domains : records'[d].expiresAt <= B
    <3> SUFFICES ASSUME NEW d \in Domains PROVE records'[d].expiresAt <= B
      OBVIOUS
    <3>1. now' + MaxTTL \in Int
      BY ONLY now' \in Nat, TTLAssumption
    <3> QED
      BY ONLY <1>2, <1>5, <3>1, B \in Int, d \in Domains
  <2> HIDE DEF S
  <2> QED
    BY ONLY <1>5, <2>1, <2>2
<1>8. Max(S) \in S /\ \A s \in S : Max(S) >= s
  <2> HIDE DEF S
  <2> QED
    BY ONLY <1>6, <1>7, GreatestOf
<1>9. dnsExpiry'[ip] = Max(S)
  BY DEF Observe
<1>10. dnsExpiry[ip] \in S /\ \A d \in Naming(ip) : records'[d].expiresAt \in S
  OBVIOUS
<1> HIDE DEF S
<1> QED
  BY ONLY <1>6, <1>8, <1>9, <1>10 DEF Naming

----
(* The inductive invariant.  A task that has addresses to allow took them    *)
(* from a record that was good when it took them, at the start of its work   *)
(* on the domain or later, and it is done with the domain within MaxLag      *)
(* (WithinLag).                                                              *)
RecordsObserved ==
    \A d \in Domains : \A ip \in records[d].ips : records[d].expiresAt <= dnsExpiry[ip]

GrantsObserved == \A t \in Tasks :
    task[t].pc = "allow" => \A ip \in task[t].pending : task[t].since <= dnsExpiry[ip]

AuditInv ==
    /\ TypeOK /\ DomainsNamed /\ TTLsWithinMax /\ RecordsBounded
    /\ dnsExpiry \in [IPs -> Int] /\ \A ip \in IPs : dnsExpiry[ip] >= -1
    /\ WithinLag /\ RecordsObserved /\ GrantsObserved /\ StaleBound

LEMMA AuditInitial == AuditInit => AuditInv
<1> SUFFICES ASSUME AuditInit PROVE AuditInv
  OBVIOUS
<1>1. TypeOK /\ DomainsNamed /\ TTLsWithinMax
  BY TypeInit, NamedInit, HorizonInit DEF AuditInit
<1>2. now = 0 /\ (\A d \in Domains : records[d] = NoRecord)
  BY DEF AuditInit, Init, ClockInit, CacheInit
<1>3. \A ip \in IPs : allowedIPs[ip] = NoEntry
  BY DEF AuditInit, Init, ManagerInit
<1>4. \A t \in Tasks : task[t].since = 0 /\ task[t].pc # "allow"
  BY DEF AuditInit, Init, Idle
<1>5. RecordsBounded /\ RecordsObserved
  BY <1>2 DEF RecordsBounded, RecordsObserved, NoRecord
<1>6. WithinLag /\ GrantsObserved /\ StaleBound
  BY <1>2, <1>3, <1>4, WithinLagInit DEF AuditInit, GrantsObserved, StaleBound
<1>7. dnsExpiry \in [IPs -> Int] /\ \A ip \in IPs : dnsExpiry[ip] >= -1
  <2>1. dnsExpiry = [ip \in IPs |-> -1]
    BY Zenon DEF AuditInit
  <2> QED
    BY ONLY <2>1
<1> QED
  BY <1>1, <1>5, <1>6, <1>7 DEF AuditInv

\* Only AllowNext moves an expiry up.
LEMMA StaleBoundStep ==
  ASSUME AuditInv, [Next]_vars, \A ip \in IPs : dnsExpiry'[ip] >= dnsExpiry[ip],
         dnsExpiry' \in [IPs -> Int]
  PROVE  StaleBound'
<1> USE DEF StaleBound
<1>1. /\ now \in Nat
      /\ allowedIPs \in [IPs -> Nat \cup {-1}]
      /\ dnsExpiry \in [IPs -> Int]
      /\ \A t \in Tasks : task[t] \in TaskState
  BY DEF AuditInv, TypeOK, ManagerTypeOK, NoEntry
<1>2. ASSUME NEW t \in Tasks, AllowNext(t) PROVE StaleBound'
  <2>1. PICK ip \in task[t].pending : Grant(ip, task[t].ttl)
    BY <1>2 DEF AllowNext
  <2>2. task[t].ttl \in Nat /\ task[t].since \in Nat /\ ip \in IPs
    BY <1>1 DEF TaskState
  <2>3. task[t].ttl <= MaxTTL /\ task[t].since <= dnsExpiry[ip] /\ now <= task[t].since + MaxLag
    BY <1>2, <2>1 DEF AuditInv, TTLsWithinMax, GrantsObserved, WithinLag, Busy, AllowNext
  <2>4. now + task[t].ttl <= dnsExpiry[ip] + MaxTTL + MaxLag
    BY <1>1, <2>2, <2>3
  <2>5. \A other \in IPs : \/ allowedIPs'[other] = allowedIPs[other]
                           \/ other = ip /\ allowedIPs'[other] = now + task[t].ttl
    BY <1>1, <2>1, <2>2 DEF Grant, GrantedExpiry
  <2>6. \A other \in IPs : allowedIPs'[other] \in Int /\ allowedIPs[other] \in Int
    BY <1>1, <2>2, <2>5
  <2> QED
    BY <1>1, <2>2, <2>4, <2>5, <2>6 DEF AuditInv
<1>3. CASE ManagerCleanup
  BY <1>1, <1>3 DEF ManagerCleanup, ForgetExpired, NoEntry, AuditInv
<1>4. CASE UNCHANGED allowedIPs
  BY <1>1, <1>4 DEF AuditInv
<1> QED
  BY <1>2, <1>3, <1>4
     DEF Next, Work, ReceiveQuery, ReceiveOther, Reply, RefreshTick, TakeDomain, Lookup,
         ExchangeAnswer, ExchangeError, AllowFails, CacheCleanup, TimePasses, vars

LEMMA AuditStep == AuditInv /\ [AuditNext]_auditVars => AuditInv'
<1> SUFFICES ASSUME AuditInv, [AuditNext]_auditVars PROVE AuditInv'
  OBVIOUS
<1>1. [Next]_vars /\ (Observe \/ UNCHANGED <<dnsExpiry, records>>)
  BY DEF AuditNext, auditVars, vars
<1>2. TypeOK' /\ DomainsNamed' /\ TTLsWithinMax' /\ RecordsBounded' /\ WithinLag'
  BY <1>1, TypeStep, NamedStep, WithinMaxStep, RecordsBoundedStep, WithinLagStep DEF AuditInv
<1>3. /\ now' \in Nat /\ records' \in [Domains -> Record] /\ task' \in [Tasks -> TaskState]
      /\ now \in Nat /\ task \in [Tasks -> TaskState]
  BY <1>2 DEF AuditInv, TypeOK
<1>4. /\ dnsExpiry' \in [IPs -> Int]
      /\ \A ip \in IPs : dnsExpiry'[ip] >= dnsExpiry[ip]
      /\ RecordsObserved'
  <2>1. CASE Observe
    <3>1. \A ip \in IPs :
            /\ dnsExpiry'[ip] \in Int
            /\ dnsExpiry'[ip] >= dnsExpiry[ip]
            /\ \A d \in Domains :
                  ip \in records'[d].ips => dnsExpiry'[ip] >= records'[d].expiresAt
      BY <1>2, <1>3, <2>1, Observed DEF AuditInv
    <3>2. \A d \in Domains : records'[d].ips \subseteq IPs /\ records'[d].expiresAt \in Int
      BY <1>3 DEF Record
    <3>3. dnsExpiry' \in [IPs -> Int]
      BY <2>1, <3>1 DEF Observe
    <3> QED
      BY <3>1, <3>2, <3>3 DEF RecordsObserved
  <2>2. CASE UNCHANGED <<dnsExpiry, records>>
    BY <2>2 DEF AuditInv, RecordsObserved
  <2> QED
    BY <1>1, <2>1, <2>2
<1>5. GrantsObserved'
  <2> SUFFICES ASSUME NEW u \in Tasks, task'[u].pc = "allow", NEW ip \in task'[u].pending
               PROVE  task'[u].since <= dnsExpiry'[ip]
    BY DEF GrantsObserved
  <2>1. Moves(u)
    BY <1>1, TaskMoves DEF AuditInv
  <2>2. ip \in IPs /\ task[u].since \in Nat /\ task'[u].since \in Nat
        /\ dnsExpiry[ip] \in Int /\ dnsExpiry'[ip] \in Int /\ dnsExpiry'[ip] >= dnsExpiry[ip]
    BY <1>3, <1>4 DEF TaskState, AuditInv
  <2>3. CASE task'[u] = task[u]
    BY <2>2, <2>3 DEF AuditInv, GrantsObserved
  <2>4. CASE GoesOn(u) /\ task[u].pc = "allow" /\ task'[u].pending \subseteq task[u].pending
    BY <2>2, <2>4 DEF AuditInv, GrantsObserved, GoesOn
  <2>5. ASSUME GoesOn(u), NEW d \in Domains,
               task'[u].pending = records'[d].ips, now <= records'[d].expiresAt
        PROVE  task'[u].since <= dnsExpiry'[ip]
    <3>1. task'[u].since = task[u].since /\ task[u].since <= now
      BY <2>5 DEF GoesOn, AuditInv, WithinLag
    <3>2. records'[d].expiresAt <= dnsExpiry'[ip]
      BY <1>4, <2>5 DEF RecordsObserved
    <3>3. records'[d].expiresAt \in Int
      BY <1>3 DEF Record
    <3> QED
      BY <1>3, <2>2, <2>5, <3>1, <3>2, <3>3
  <2> QED
    BY <2>1, <2>3, <2>4, <2>5 DEF Moves, Started, GoesOn
<1>6. StaleBound'
  BY <1>1, <1>4, StaleBoundStep
<1>7. \A ip \in IPs : dnsExpiry'[ip] >= -1
  BY <1>4 DEF AuditInv
<1> QED
  BY <1>2, <1>4, <1>5, <1>6, <1>7 DEF AuditInv

(* The cache hands a record's full TTL out until the record expires, and an  *)
(* address may be granted it at the last moment.  That is as far as it goes: *)
(* whatever tasks resolve and allow at the same time, an address is allowed  *)
(* for at most MaxTTL, and the time a task takes, past the expiry of the     *)
(* last answer that named it.                                                *)
THEOREM StalenessBounded == AuditSpec => []StaleBound
<1>1. AuditInv => StaleBound
  BY DEF AuditInv
<1> QED
  BY <1>1, AuditInitial, AuditStep, PTL DEF AuditSpec

====
