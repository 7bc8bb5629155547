---- MODULE DNSServer_proofs ----
(***************************************************************************)
(* Theorems about DNSServer, for every number of handlers, every set of    *)
(* domains and addresses, all TTL bounds and every set of upstream answers.*)
(***************************************************************************)
EXTENDS DNSServer, WellFoundedInduction, TLAPS

USE MaxTimeAssumption, ManagerTTLAssumption, TTLAssumption, ServerAssumption

----
(* The TTL policy.                                                           *)

LEMMA LeastOf ==
  ASSUME NEW S \in SUBSET Nat, S # {}
  PROVE  Least(S) \in S /\ \A s \in S : Least(S) <= s
<1>1. \E m \in S : \A s \in S : m <= s
  <2> DEFINE below == OpToRel(<, Nat)
  <2>3. IsWellFoundedOn(below, Nat)
    BY NatLessThanWellFounded, Zenon
  <2> HIDE DEF below
  <2>4. PICK m \in S : \A s \in S : <<s, m>> \notin below
    BY ONLY <2>3, S \subseteq Nat, S # {}, WFMin, Zenon
  <2> USE DEF below
  <2>1. \A s \in S : <<s, m>> \notin OpToRel(<, Nat)
    BY <2>4, Zenon
  <2>2. ASSUME NEW s \in Nat, NEW n \in Nat, s < n PROVE <<s, n>> \in OpToRel(<, Nat)
    BY Zenon, <2>2 DEF OpToRel
  <2>5. \A s \in S : ~(s < m)
    BY <2>1, <2>2, Zenon
  <2> HIDE DEF below
  <2> QED
    BY <2>5
<1> QED
  BY <1>1 DEF Least

(* The effective TTL never exceeds MaxTTL; it is at least MinTTL if the      *)
(* bounds are in order; and it exceeds a TTL of the answer only to reach     *)
(* MinTTL.                                                                   *)
THEOREM EffectiveTTLBounds ==
  ASSUME NEW ttls \in SUBSET Nat
  PROVE  /\ EffectiveTTL(ttls) \in Nat
         /\ EffectiveTTL(ttls) <= MaxTTL
         /\ MinTTL <= MaxTTL => MinTTL <= EffectiveTTL(ttls)
         /\ \A ttl \in ttls : EffectiveTTL(ttls) <= ttl \/ EffectiveTTL(ttls) <= MinTTL
<1> DEFINE least == MinimumTTL(ttls)
<1>1. least \in Nat /\ \A ttl \in ttls : least <= ttl
  BY LeastOf, ttls \cup {TTLCap} \in SUBSET Nat DEF MinimumTTL
<1> HIDE DEF least
<1>2. EffectiveTTL(ttls) = AtMostMax(AtLeastMin(least))
  BY DEF EffectiveTTL, least
<1> QED
  BY <1>1, <1>2 DEF AtMostMax, AtLeastMin

----
(* Types.                                                                    *)

LEMMA IdleTyped == Idle \in TaskState
BY DEF Idle, TaskState

LEMMA BecomeTyped ==
  ASSUME TypeOK, NEW t \in Tasks, NEW state \in TaskState, Become(t, state)
  PROVE  task' \in [Tasks -> TaskState]
BY DEF TypeOK, Become

LEMMA FinishedTyped ==
  ASSUME TypeOK, NEW t \in Tasks
  PROVE  Finished(t) \in TaskState /\ Abandoned(t) \in TaskState
<1>1. task[t] \in TaskState /\ now \in Nat
  BY DEF TypeOK
<1> QED
  BY <1>1 DEF Finished, Abandoned, Idle, TaskState

LEMMA ResolvedTyped ==
  ASSUME TypeOK, NEW t \in Tasks, NEW ips \in SUBSET IPs, NEW ttl \in Nat
  PROVE  Resolved(t, ips, ttl) \in TaskState
<1>1. task[t] \in TaskState
  BY DEF TypeOK
<1> QED
  BY <1>1 DEF Resolved, TaskState

LEMMA PassOverTyped ==
  ASSUME TypeOK, NEW t \in Tasks, NEW ip, PassOver(t, ip)
  PROVE  task' \in [Tasks -> TaskState]
<1> DEFINE left == task[t].pending \ {ip}
<1>1. [task[t] EXCEPT !.pending = left] \in TaskState
  <2>1. task[t] \in TaskState
    BY DEF TypeOK
  <2> QED
    BY <2>1 DEF TaskState
<1>2. \/ Become(t, Finished(t))
      \/ Become(t, [task[t] EXCEPT !.pending = left])
  BY DEF PassOver
<1> QED
  BY <1>1, <1>2, FinishedTyped, BecomeTyped

LEMMA GrantTyped ==
  ASSUME TypeOK, NEW ip \in IPs, NEW ttl \in Nat, Grant(ip, ttl)
  PROVE  ManagerTypeOK'
BY DEF TypeOK, ManagerTypeOK, Grant, GrantedExpiry, NoEntry

\* What ExchangeAnswer takes from an answer.
LEMMA AnswerTyped ==
  ASSUME NEW d \in Domains, NEW answer \in Answers[d]
  PROVE  /\ {a.ip : a \in answer} \in SUBSET IPs
         /\ EffectiveTTL({a.ttl : a \in answer}) \in Nat
         /\ EffectiveTTL({a.ttl : a \in answer}) <= MaxTTL
<1>1. answer \in SUBSET ARecord
  BY DEF ARecord
<1>2. {a.ttl : a \in answer} \in SUBSET Nat
  BY <1>1 DEF ARecord
<1>3. {a.ip : a \in answer} \in SUBSET IPs
  BY <1>1 DEF ARecord
<1> QED
  BY <1>2, <1>3, EffectiveTTLBounds

LEMMA TypeInit == Init => TypeOK
<1> SUFFICES ASSUME Init PROVE TypeOK
  OBVIOUS
<1>1. now \in 0..MaxTime /\ nextRefresh \in Nat
  BY DEF Init, ClockInit
<1>2. records \in [Domains -> Record]
  BY DEF Init, CacheInit, Record, NoRecord
<1>3. ManagerTypeOK
  BY DEF Init, ManagerInit, ManagerTypeOK, NoEntry
<1>4. task \in [Tasks -> TaskState]
  <2>1. [Idle EXCEPT !.pc = "next", !.todo = ConfigDomains] \in TaskState
    BY IdleTyped DEF TaskState
  <2> QED
    BY <2>1, IdleTyped DEF Init
<1> QED
  BY <1>1, <1>2, <1>3, <1>4 DEF TypeOK

----
LEMMA OtherPartsTyped ==
  ASSUME TypeOK, NEW t \in Tasks, NEW state \in TaskState, Become(t, state),
         UNCHANGED <<now, records, allowedIPs>>, nextRefresh' \in Nat
  PROVE  TypeOK'
BY BecomeTyped DEF TypeOK, ManagerTypeOK

LEMMA StartTyped ==
  ASSUME TypeOK
  PROVE  /\ [Idle EXCEPT !.pc = "error", !.since = now] \in TaskState
         /\ \A d \in Domains :
               [Idle EXCEPT !.pc = "lookup", !.domain = d, !.since = now] \in TaskState
         /\ [Idle EXCEPT !.pc = "next", !.todo = ConfigDomains, !.since = now] \in TaskState
<1>1. now \in Nat
  BY DEF TypeOK
<1>2. ConfigDomains \in SUBSET Domains
  OBVIOUS
<1> QED
  BY <1>1, <1>2 DEF Idle, TaskState

\* A task that resolves a domain has one.  Lookup and ExchangeAnswer need it.
DomainsNamed == \A t \in Tasks :
    task[t].pc \in {"lookup", "exchange", "allow"} => task[t].domain \in Domains

LEMMA NamedStep == TypeOK /\ DomainsNamed /\ [Next]_vars => DomainsNamed'
<1> SUFFICES ASSUME TypeOK, DomainsNamed, [Next]_vars PROVE DomainsNamed'
  OBVIOUS
<1> USE DEF Become
<1>1. \A t \in Tasks : task[t] \in TaskState
  BY DEF TypeOK
<1>2. ASSUME NEW h \in Handlers, ReceiveOther(h) \/ Reply(h) PROVE DomainsNamed'
  <2>1. CASE ReceiveOther(h)
    BY <1>1, <2>1 DEF ReceiveOther, DomainsNamed, Idle, TypeOK
  <2>2. CASE Reply(h)
    BY <1>1, <2>2 DEF Reply, DomainsNamed, Idle, TypeOK
  <2> QED
    BY <1>2, <2>1, <2>2
<1>3. ASSUME NEW h \in Handlers, NEW d \in Domains, ReceiveQuery(h, d) PROVE DomainsNamed'
  BY <1>1, <1>3 DEF ReceiveQuery, DomainsNamed, Idle, TypeOK
<1>4. CASE RefreshTick
  BY <1>1, <1>4 DEF RefreshTick, DomainsNamed, Idle, TypeOK
<1>5. ASSUME NEW t \in Tasks, TakeDomain(t) PROVE DomainsNamed'
  <2>1. CASE task' = [task EXCEPT ![t] = Idle]
    BY <1>1, <1>5, <2>1 DEF TakeDomain, DomainsNamed, Idle, TypeOK
  <2>2. ASSUME NEW d \in task[t].todo,
               task' = [task EXCEPT ![t] = [task[t] EXCEPT !.pc = "lookup", !.todo = @ \ {d},
                                                           !.domain = d]]
        PROVE  DomainsNamed'
    BY ONLY TypeOK, DomainsNamed, <1>1, <2>2 DEF DomainsNamed, TypeOK, TaskState
  <2> QED
    BY <1>5, <2>1, <2>2 DEF TakeDomain
<1>6. ASSUME NEW t \in Tasks, Lookup(t) PROVE DomainsNamed'
  BY <1>1, <1>6 DEF Lookup, Resolved, DomainsNamed, TypeOK, TaskState
<1>7. ASSUME NEW t \in Tasks, ExchangeAnswer(t) PROVE DomainsNamed'
  BY <1>1, <1>7 DEF ExchangeAnswer, Resolved, DomainsNamed, TypeOK, TaskState
<1>8. ASSUME NEW t \in Tasks, ExchangeError(t) PROVE DomainsNamed'
  BY <1>1, <1>8 DEF ExchangeError, Abandoned, Finished, DomainsNamed, Idle, TypeOK, TaskState
<1>9. ASSUME NEW t \in Tasks, AllowNext(t) \/ AllowFails(t) PROVE DomainsNamed'
  <2>1. PICK ip : PassOver(t, ip)
    BY <1>9 DEF AllowNext, AllowFails
  <2>2. task[t].pc = "allow" /\ UNCHANGED records
    BY <1>9 DEF AllowNext, AllowFails
  <2>3. CASE task' = [task EXCEPT ![t] = Finished(t)]
    BY <1>1, <2>2, <2>3 DEF Finished, DomainsNamed, Idle, TypeOK, TaskState
  <2>4. CASE task' = [task EXCEPT ![t] = [task[t] EXCEPT !.pending = task[t].pending \ {ip}]]
    BY <1>1, <2>2, <2>4 DEF DomainsNamed, TypeOK, TaskState
  <2> QED
    BY <2>1, <2>3, <2>4 DEF PassOver
<1>10. CASE CacheCleanup \/ ManagerCleanup \/ TimePasses \/ UNCHANGED vars
  BY <1>10 DEF CacheCleanup, ManagerCleanup, TimePasses, vars, DomainsNamed
<1> QED
  BY <1>2, <1>3, <1>4, <1>5, <1>6, <1>7, <1>8, <1>9, <1>10 DEF Next, Work

\* The type invariant is inductive: one step for each action.
LEMMA TypeStep == TypeOK /\ DomainsNamed /\ [Next]_vars => TypeOK'
<1> SUFFICES ASSUME TypeOK, DomainsNamed, [Next]_vars PROVE TypeOK'
  OBVIOUS
<1>1. ASSUME NEW h \in Handlers, ReceiveOther(h) PROVE TypeOK'
  <2> DEFINE state == [Idle EXCEPT !.pc = "error", !.since = now]
  <2>1. Become(h, state) /\ UNCHANGED <<now, records, allowedIPs, nextRefresh>>
    BY <1>1 DEF ReceiveOther
  <2>2. state \in TaskState
    BY StartTyped
  <2> HIDE DEF state
  <2> QED
    BY <2>1, <2>2, OtherPartsTyped DEF Tasks, TypeOK
<1>2. ASSUME NEW h \in Handlers, NEW d \in Domains, ReceiveQuery(h, d) PROVE TypeOK'
  <2> DEFINE state == [Idle EXCEPT !.pc = "lookup", !.domain = d, !.since = now]
  <2>1. Become(h, state) /\ UNCHANGED <<now, records, allowedIPs, nextRefresh>>
    BY <1>2 DEF ReceiveQuery
  <2>2. state \in TaskState
    BY StartTyped
  <2> HIDE DEF state
  <2> QED
    BY <2>1, <2>2, OtherPartsTyped DEF Tasks, TypeOK
<1>3. ASSUME NEW h \in Handlers, Reply(h) PROVE TypeOK'
  BY <1>3, IdleTyped, OtherPartsTyped DEF Reply, Tasks, TypeOK
<1>4. CASE RefreshTick
  <2> DEFINE state == [Idle EXCEPT !.pc = "next", !.todo = ConfigDomains, !.since = now]
  <2>1. Become(Monitor, state) /\ UNCHANGED <<now, records, allowedIPs>>
    BY <1>4 DEF RefreshTick
  <2>2. state \in TaskState
    BY StartTyped
  <2>3. nextRefresh' \in Nat
    <3>1. now \div RefreshInterval + 1 \in Nat
      BY DEF TypeOK
    <3>2. \A m, n \in Nat : m * n \in Nat
      OBVIOUS
    <3> QED
      BY <1>4, <3>1, <3>2 DEF RefreshTick
  <2> HIDE DEF state
  <2> QED
    BY <2>1, <2>2, <2>3, OtherPartsTyped DEF Tasks
<1>5. ASSUME NEW t \in Tasks, TakeDomain(t) PROVE TypeOK'
  <2>1. ASSUME NEW d \in task[t].todo,
               Become(t, [task[t] EXCEPT !.pc = "lookup", !.todo = @ \ {d}, !.domain = d])
        PROVE  TypeOK'
    <3> DEFINE state == [task[t] EXCEPT !.pc = "lookup", !.todo = @ \ {d}, !.domain = d]
    <3>1. task[t] \in TaskState
      BY DEF TypeOK
    <3>2. state \in TaskState
      BY <3>1 DEF TaskState
    <3>3. Become(t, state)
      BY <2>1
    <3> HIDE DEF state
    <3> QED
      BY <1>5, <3>2, <3>3, OtherPartsTyped DEF TakeDomain, TypeOK
  <2>2. CASE Become(t, Idle)
    BY <1>5, <2>2, IdleTyped, OtherPartsTyped DEF TakeDomain, TypeOK
  <2> QED
    BY <1>5, <2>1, <2>2 DEF TakeDomain
<1>6. ASSUME NEW t \in Tasks, Lookup(t) PROVE TypeOK'
  <2> DEFINE d == task[t].domain
  <2>1. task[t] \in TaskState
    BY DEF TypeOK
  <2>2. CASE Become(t, [task[t] EXCEPT !.pc = "exchange"])
    <3> DEFINE state == [task[t] EXCEPT !.pc = "exchange"]
    <3>1. Become(t, state) /\ state \in TaskState
      BY <2>1, <2>2 DEF TaskState
    <3> HIDE DEF state
    <3> QED
      BY <1>6, <3>1, OtherPartsTyped DEF Lookup, TypeOK
  <2>3. CASE Hit(d) /\ Become(t, Resolved(t, HitIPs(d), HitTTL(d)))
    <3>1. records[d] \in Record
      BY <1>6 DEF Lookup, DomainsNamed, TypeOK
    <3>2. Resolved(t, HitIPs(d), HitTTL(d)) \in TaskState
      BY <3>1, ResolvedTyped DEF Record, HitIPs, HitTTL
    <3> QED
      BY <1>6, <2>3, <3>2, OtherPartsTyped DEF Lookup, TypeOK
  <2> QED
    BY <1>6, <2>2, <2>3 DEF Lookup
<1>7. ASSUME NEW t \in Tasks, ExchangeAnswer(t) PROVE TypeOK'
  <2>1. PICK answer \in Answers[task[t].domain] :
          LET ips == {a.ip : a \in answer}
              ttl == EffectiveTTL({a.ttl : a \in answer})
          IN  SetRecord(task[t].domain, ips, ttl) /\ Become(t, Resolved(t, ips, ttl))
    BY <1>7 DEF ExchangeAnswer
  <2> DEFINE d == task[t].domain
             ips == {a.ip : a \in answer}
             ttl == EffectiveTTL({a.ttl : a \in answer})
  <2>2. d \in Domains
    BY <1>7 DEF ExchangeAnswer, DomainsNamed
  <2>3. ips \in SUBSET IPs /\ ttl \in Nat
    BY <2>2, AnswerTyped
  <2>4. SetRecord(d, ips, ttl) /\ Become(t, Resolved(t, ips, ttl))
    BY <2>1
  <2> HIDE DEF ips, ttl
  <2>5. task' \in [Tasks -> TaskState]
    BY <2>3, <2>4, ResolvedTyped, BecomeTyped
  <2>6. records' \in [Domains -> Record]
    BY <2>2, <2>3, <2>4 DEF SetRecord, Record, TypeOK
  <2> QED
    BY <1>7, <2>5, <2>6 DEF ExchangeAnswer, TypeOK, ManagerTypeOK
<1>8. ASSUME NEW t \in Tasks, ExchangeError(t) PROVE TypeOK'
  BY <1>8, FinishedTyped, OtherPartsTyped DEF ExchangeError, TypeOK
<1>9. ASSUME NEW t \in Tasks, AllowNext(t) PROVE TypeOK'
  <2>1. PICK ip \in task[t].pending : Grant(ip, task[t].ttl) /\ PassOver(t, ip)
    BY <1>9 DEF AllowNext
  <2>2. ip \in IPs /\ task[t].ttl \in Nat
    BY DEF TypeOK, TaskState
  <2> QED
    BY <1>9, <2>1, <2>2, GrantTyped, PassOverTyped DEF AllowNext, TypeOK
<1>10. ASSUME NEW t \in Tasks, AllowFails(t) PROVE TypeOK'
  <2>1. PICK ip \in task[t].pending : PassOver(t, ip)
    BY <1>10 DEF AllowFails
  <2> QED
    BY <1>10, <2>1, PassOverTyped DEF AllowFails, TypeOK, ManagerTypeOK
<1>11. CASE CacheCleanup
  BY <1>11 DEF CacheCleanup, DropExpired, TypeOK, ManagerTypeOK, NoRecord, Record
<1>12. CASE ManagerCleanup
  BY <1>12 DEF ManagerCleanup, ForgetExpired, TypeOK, ManagerTypeOK, NoEntry
<1>13. CASE TimePasses
  BY <1>13 DEF TimePasses, Tick, TypeOK, ManagerTypeOK
<1>14. CASE UNCHANGED vars
  BY <1>14 DEF vars, TypeOK, ManagerTypeOK
<1> QED
  BY <1>1, <1>2, <1>3, <1>4, <1>5, <1>6, <1>7, <1>8, <1>9, <1>10, <1>11, <1>12, <1>13, <1>14
     DEF Next, Work

LEMMA NamedInit == Init => DomainsNamed
BY DEF Init, DomainsNamed, Idle

(* Every variable keeps its type: what a task carries from the cache or from *)
(* an answer to the firewall is always a set of addresses and a duration.    *)
THEOREM ServerTyped == Spec => [](TypeOK /\ DomainsNamed)
BY TypeInit, NamedInit, TypeStep, NamedStep, PTL DEF Spec

----
(* No grant reaches further than MaxTTL.  The TTLs on their way to the       *)
(* firewall, in the cache and in the hands of the tasks, are within the      *)
(* bound too.                                                                *)
TTLsWithinMax ==
    /\ \A d \in Domains : records[d].ttl <= MaxTTL
    /\ \A t \in Tasks : task[t].ttl <= MaxTTL

LEMMA WithinMaxStep ==
  TypeOK /\ DomainsNamed /\ TTLsWithinMax /\ [Next]_vars => TTLsWithinMax'
<1> SUFFICES ASSUME TypeOK, DomainsNamed, TTLsWithinMax, [Next]_vars PROVE TTLsWithinMax'
  OBVIOUS
<1> USE DEF Become, TTLsWithinMax
<1>1. /\ \A t \in Tasks : task[t] \in TaskState
      /\ \A d \in Domains : records[d] \in Record
  BY DEF TypeOK
<1>2. ASSUME NEW h \in Handlers, ReceiveOther(h) \/ Reply(h) PROVE TTLsWithinMax'
  <2>1. CASE ReceiveOther(h)
    BY <1>1, <2>1 DEF ReceiveOther, Idle, TypeOK
  <2>2. CASE Reply(h)
    BY <1>1, <2>2 DEF Reply, Idle, TypeOK
  <2> QED
    BY <1>2, <2>1, <2>2
<1>3. ASSUME NEW h \in Handlers, NEW d \in Domains, ReceiveQuery(h, d) PROVE TTLsWithinMax'
  BY <1>1, <1>3 DEF ReceiveQuery, Idle, TypeOK
<1>4. CASE RefreshTick
  BY <1>1, <1>4 DEF RefreshTick, Idle, TypeOK
<1>5. ASSUME NEW t \in Tasks, TakeDomain(t) PROVE TTLsWithinMax'
  <2>1. CASE task' = [task EXCEPT ![t] = Idle]
    <3>1. UNCHANGED records
      BY <1>5 DEF TakeDomain
    <3>2. Idle.ttl <= MaxTTL
      BY DEF Idle
    <3> QED
      BY <2>1, <3>1, <3>2 DEF TypeOK
  <2>2. ASSUME NEW d \in task[t].todo,
               task' = [task EXCEPT ![t] = [task[t] EXCEPT !.pc = "lookup", !.todo = @ \ {d},
                                                           !.domain = d]]
        PROVE  TTLsWithinMax'
    BY <1>1, <1>5, <2>2 DEF TakeDomain, TypeOK, TaskState
  <2> QED
    BY <1>5, <2>1, <2>2 DEF TakeDomain
<1>6. ASSUME NEW t \in Tasks, Lookup(t) PROVE TTLsWithinMax'
  BY <1>1, <1>6 DEF Lookup, Resolved, HitTTL, DomainsNamed, TypeOK, TaskState, Record
<1>7. ASSUME NEW t \in Tasks, ExchangeAnswer(t) PROVE TTLsWithinMax'
  <2>1. PICK answer \in Answers[task[t].domain] :
          LET ips == {a.ip : a \in answer}
              ttl == EffectiveTTL({a.ttl : a \in answer})
          IN  SetRecord(task[t].domain, ips, ttl) /\ Become(t, Resolved(t, ips, ttl))
    BY <1>7 DEF ExchangeAnswer
  <2> DEFINE d == task[t].domain
             ips == {a.ip : a \in answer}
             ttl == EffectiveTTL({a.ttl : a \in answer})
  <2>2. d \in Domains
    BY <1>7 DEF ExchangeAnswer, DomainsNamed
  <2>3. ttl \in Nat /\ ttl <= MaxTTL
    BY <2>2, AnswerTyped
  <2>4. SetRecord(d, ips, ttl) /\ Become(t, Resolved(t, ips, ttl))
    BY <2>1
  <2> HIDE DEF ips, ttl
  <2>5. \A e \in Domains : records'[e].ttl <= MaxTTL
    BY <1>1, <2>2, <2>3, <2>4 DEF SetRecord, TypeOK
  <2>6. \A u \in Tasks : task'[u].ttl <= MaxTTL
    BY <1>1, <2>3, <2>4 DEF Resolved, TypeOK, TaskState
  <2> QED
    BY <2>5, <2>6
<1>8. ASSUME NEW t \in Tasks, ExchangeError(t) PROVE TTLsWithinMax'
  BY <1>1, <1>8 DEF ExchangeError, Abandoned, Finished, Idle, TypeOK, TaskState
<1>9. ASSUME NEW t \in Tasks, AllowNext(t) \/ AllowFails(t) PROVE TTLsWithinMax'
  <2>1. PICK ip : PassOver(t, ip)
    BY <1>9 DEF AllowNext, AllowFails
  <2>2. task[t].pc = "allow" /\ UNCHANGED records
    BY <1>9 DEF AllowNext, AllowFails
  <2>3. CASE task' = [task EXCEPT ![t] = Finished(t)]
    BY <1>1, <2>2, <2>3 DEF Finished, Idle, TypeOK, TaskState
  <2>4. CASE task' = [task EXCEPT ![t] = [task[t] EXCEPT !.pending = task[t].pending \ {ip}]]
    BY <1>1, <2>2, <2>4 DEF TypeOK, TaskState
  <2> QED
    BY <2>1, <2>3, <2>4 DEF PassOver
<1>10. CASE CacheCleanup
  BY <1>10 DEF CacheCleanup, DropExpired, NoRecord
<1>11. CASE ManagerCleanup \/ TimePasses \/ UNCHANGED vars
  BY <1>11 DEF ManagerCleanup, TimePasses, vars
<1> QED
  BY <1>2, <1>3, <1>4, <1>5, <1>6, <1>7, <1>8, <1>9, <1>10, <1>11 DEF Next, Work

\* Only AllowNext moves an expiry up, and by the TTL of a task.
LEMMA HorizonStep ==
  TypeOK /\ TTLsWithinMax /\ FirewallHorizon /\ [Next]_vars => FirewallHorizon'
<1> SUFFICES ASSUME TypeOK, TTLsWithinMax, FirewallHorizon, [Next]_vars
             PROVE  FirewallHorizon'
  OBVIOUS
<1> USE DEF FirewallHorizon
<1>1. /\ now \in Nat
      /\ allowedIPs \in [IPs -> Nat \cup {-1}]
      /\ \A t \in Tasks : task[t].ttl \in Nat /\ task[t].pending \subseteq IPs
  BY DEF TypeOK, ManagerTypeOK, NoEntry, TaskState
<1>2. ASSUME NEW t \in Tasks, AllowNext(t) PROVE FirewallHorizon'
  <2>1. PICK ip \in task[t].pending : Grant(ip, task[t].ttl)
    BY <1>2 DEF AllowNext
  <2>2. task[t].ttl <= MaxTTL
    BY DEF TTLsWithinMax
  <2> QED
    BY <1>1, <1>2, <2>1, <2>2 DEF AllowNext, Grant, GrantedExpiry
<1>3. CASE ManagerCleanup
  BY <1>1, <1>3 DEF ManagerCleanup, ForgetExpired, NoEntry
<1>4. CASE TimePasses
  BY <1>1, <1>4 DEF TimePasses, Tick
<1>5. CASE UNCHANGED <<now, allowedIPs>>
  BY <1>5
<1> QED
  BY <1>2, <1>3, <1>4, <1>5
     DEF Next, Work, ReceiveQuery, ReceiveOther, Reply, RefreshTick, TakeDomain, Lookup,
         ExchangeAnswer, ExchangeError, AllowFails, CacheCleanup, vars

LEMMA HorizonInit == Init => TTLsWithinMax /\ FirewallHorizon
BY DEF Init, ClockInit, CacheInit, ManagerInit, NoRecord, NoEntry, Idle, TTLsWithinMax,
       FirewallHorizon

(* Whatever the upstream server answers and however the tasks interleave, an *)
(* address is open for at most MaxTTL from now on.                           *)
THEOREM HorizonHolds == Spec => []FirewallHorizon
<1>1. /\ Init => TypeOK /\ DomainsNamed /\ TTLsWithinMax /\ FirewallHorizon
      /\ TypeOK /\ DomainsNamed /\ TTLsWithinMax /\ FirewallHorizon /\ [Next]_vars
            => (TypeOK /\ DomainsNamed /\ TTLsWithinMax /\ FirewallHorizon)'
  BY TypeInit, NamedInit, HorizonInit, TypeStep, NamedStep, WithinMaxStep, HorizonStep
<1> QED
  BY <1>1, PTL DEF Spec

----
(* The steps of one task.                                                    *)

\* What a step may make of a task.  It gets addresses to allow from a record that is
\* good, its own new one or one that was there.
Started(u)  == task'[u].since = now /\ task'[u].pc # "allow"
GoesOn(u) ==
    /\ Busy(u)
    /\ task'[u].since = task[u].since
    /\ \/ task'[u].pc # "allow"
       \/ task[u].pc = "allow" /\ task'[u].pending \subseteq task[u].pending
       \/ \E d \in Domains :
             task'[u].pending = records'[d].ips /\ now <= records'[d].expiresAt
Moves(u) ==
    \/ task'[u] = task[u]
    \/ task'[u].pc = "idle"
    \/ now' = now /\ (Started(u) \/ GoesOn(u))

LEMMA TaskMoves ==
  ASSUME TypeOK, DomainsNamed, [Next]_vars, NEW u \in Tasks
  PROVE  Moves(u)
<1> USE DEF Become, Moves
<1>1. /\ \A t \in Tasks : task[t] \in TaskState
      /\ task \in [Tasks -> TaskState]
      /\ now \in Nat
  BY DEF TypeOK
<1>2. ASSUME NEW h \in Handlers, ReceiveOther(h) \/ Reply(h) PROVE Moves(u)
  <2>1. CASE ReceiveOther(h)
    BY <1>1, <2>1 DEF ReceiveOther, Idle, Started
  <2>2. CASE Reply(h)
    BY <1>1, <2>2 DEF Reply, Idle
  <2> QED
    BY <1>2, <2>1, <2>2
<1>3. ASSUME NEW h \in Handlers, NEW d \in Domains, ReceiveQuery(h, d) PROVE Moves(u)
  BY <1>1, <1>3 DEF ReceiveQuery, Idle, Started
<1>4. CASE RefreshTick
  BY <1>1, <1>4 DEF RefreshTick, Idle, Started
<1>5. ASSUME NEW t \in Tasks, TakeDomain(t) PROVE Moves(u)
  <2>1. CASE task' = [task EXCEPT ![t] = Idle]
    BY ONLY <1>1, <2>1, u \in Tasks DEF Idle, Moves
  <2>2. ASSUME NEW d \in task[t].todo,
               task' = [task EXCEPT ![t] = [task[t] EXCEPT !.pc = "lookup", !.todo = @ \ {d},
                                                           !.domain = d]]
        PROVE  Moves(u)
    <3>1. task[t].pc = "next" /\ now' = now
      BY <1>5 DEF TakeDomain
    <3> QED
      BY <1>1, <2>2, <3>1 DEF GoesOn, Busy, TaskState
  <2> QED
    BY <1>5, <2>1, <2>2 DEF TakeDomain
<1>6. ASSUME NEW t \in Tasks, Lookup(t) PROVE Moves(u)
  <2>1. task[t].pc = "lookup" /\ now' = now /\ records' = records /\ task[t].domain \in Domains
    BY <1>6 DEF Lookup, DomainsNamed
  <2>2. CASE Hit(task[t].domain)
    <3>1. task' = [task EXCEPT ![t] = Resolved(t, HitIPs(task[t].domain), HitTTL(task[t].domain))]
      BY <1>6, <2>2 DEF Lookup
    <3> QED
      BY <1>1, <2>1, <2>2, <3>1 DEF GoesOn, Busy, Resolved, HitIPs, Hit, TaskState
  <2>3. CASE ~Hit(task[t].domain)
    <3>1. task' = [task EXCEPT ![t] = [task[t] EXCEPT !.pc = "exchange"]]
      BY <1>6, <2>3 DEF Lookup
    <3> QED
      BY <1>1, <2>1, <3>1 DEF GoesOn, Busy, TaskState
  <2> QED
    BY <2>2, <2>3
<1>7. ASSUME NEW t \in Tasks, ExchangeAnswer(t) PROVE Moves(u)
  <2>1. PICK answer \in Answers[task[t].domain] :
          LET ips == {a.ip : a \in answer}
              ttl == EffectiveTTL({a.ttl : a \in answer})
          IN  SetRecord(task[t].domain, ips, ttl) /\ Become(t, Resolved(t, ips, ttl))
    BY <1>7 DEF ExchangeAnswer
  <2> DEFINE d == task[t].domain
             ips == {a.ip : a \in answer}
             ttl == EffectiveTTL({a.ttl : a \in answer})
  <2>2. d \in Domains /\ now' = now /\ task[t].pc = "exchange"
    BY <1>7 DEF ExchangeAnswer, DomainsNamed
  <2>3. ttl \in Nat
    BY <2>2, AnswerTyped
  <2>4. SetRecord(d, ips, ttl) /\ Become(t, Resolved(t, ips, ttl))
    BY <2>1
  <2> HIDE DEF ips, ttl
  <2>5. records'[d].ips = ips /\ records'[d].expiresAt = now + ttl
    BY <2>2, <2>4 DEF SetRecord, TypeOK
  <2>6. task'[t].pending = ips /\ task'[t].since = task[t].since
    BY <1>1, <2>4 DEF Resolved, TaskState
  <2>7. t # u => task'[u] = task[u]
    BY <1>1, <2>4
  <2>8. now <= now + ttl
    BY <1>1, <2>3
  <2> QED
    BY <2>2, <2>5, <2>6, <2>7, <2>8 DEF GoesOn, Busy
<1>8. ASSUME NEW t \in Tasks, ExchangeError(t) PROVE Moves(u)
  <2>1. task[t].pc = "exchange" /\ now' = now /\ task' = [task EXCEPT ![t] = Abandoned(t)]
    BY <1>8 DEF ExchangeError
  <2> QED
    BY <1>1, <2>1 DEF Abandoned, Finished, Idle, TaskState, Started, GoesOn, Busy
<1>9. ASSUME NEW t \in Tasks, AllowNext(t) \/ AllowFails(t) PROVE Moves(u)
  <2>1. PICK ip : PassOver(t, ip)
    BY <1>9 DEF AllowNext, AllowFails
  <2>2. task[t].pc = "allow" /\ now' = now
    BY <1>9 DEF AllowNext, AllowFails
  <2>3. CASE task' = [task EXCEPT ![t] = Finished(t)]
    BY <1>1, <2>2, <2>3 DEF Finished, Idle, TaskState, Started, GoesOn, Busy
  <2>4. CASE task' = [task EXCEPT ![t] = [task[t] EXCEPT !.pending = task[t].pending \ {ip}]]
    BY <1>1, <2>2, <2>4 DEF TaskState, GoesOn, Busy
  <2> QED
    BY <2>1, <2>3, <2>4 DEF PassOver
<1>10. CASE CacheCleanup \/ ManagerCleanup \/ TimePasses \/ UNCHANGED vars
  BY <1>10 DEF CacheCleanup, ManagerCleanup, TimePasses, vars
<1> QED
  BY <1>2, <1>3, <1>4, <1>5, <1>6, <1>7, <1>8, <1>9, <1>10 DEF Next, Work

\* A task is done with a domain within MaxLag of its start: the clock waits for it.
WithinLag == \A t \in Tasks : Busy(t) => task[t].since <= now /\ now <= task[t].since + MaxLag

LEMMA WithinLagInit == Init => WithinLag
BY DEF Init, ClockInit, Idle, WithinLag, Busy

LEMMA WithinLagStep ==
  TypeOK /\ DomainsNamed /\ WithinLag /\ [Next]_vars => WithinLag'
<1> SUFFICES ASSUME TypeOK, DomainsNamed, WithinLag, [Next]_vars, NEW u \in Tasks, Busy(u)'
             PROVE  (task[u].since <= now /\ now <= task[u].since + MaxLag)'
  BY DEF WithinLag
<1>1. Moves(u)
  BY TaskMoves
<1>2. now \in Nat /\ task[u] \in TaskState /\ task[u].since \in Nat
  BY DEF TypeOK, TaskState
<1>3. CASE TimePasses
  <2>1. now' = now + 1 /\ task' = task /\ Busy(u) /\ now < task[u].since + MaxLag
    BY <1>3 DEF TimePasses, Tick, Busy
  <2>2. task[u].since <= now
    BY <2>1 DEF WithinLag
  <2> QED
    BY ONLY <1>2, <2>1, <2>2, ServerAssumption
<1>4. CASE now' = now
  <2>1. \/ task'[u].since = now
        \/ task'[u].since = task[u].since /\ Busy(u)
    BY <1>1 DEF Moves, Started, GoesOn, Busy
  <2>2. Busy(u) => task[u].since <= now /\ now <= task[u].since + MaxLag
    BY DEF WithinLag
  <2> QED
    BY ONLY <1>2, <1>4, <2>1, <2>2, ServerAssumption
<1> QED
  BY <1>3, <1>4
     DEF Next, Work, ReceiveQuery, ReceiveOther, Reply, RefreshTick, TakeDomain, Lookup,
         ExchangeAnswer, ExchangeError, AllowNext, AllowFails, CacheCleanup, ManagerCleanup, vars

====
