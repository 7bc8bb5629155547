---- MODULE IPTablesManager_proofs ----
(***************************************************************************)
(* Theorems about IPTablesManager, for every set of addresses and of TTLs, *)
(* whether iptables takes the suffixed commands or not, and whichever of   *)
(* its commands fail.  Only the last one chooses: it says what becomes of  *)
(* the manager where the suffix is refused.                                *)
(***************************************************************************)
EXTENDS IPTablesManager, TLAPS

\* The part of TypeOK that the manager's map and the process make up.
EntriesOK ==
    /\ now \in 0..MaxTime
    /\ allowedIPs \in [IPs -> Nat \cup {NoEntry}]

USE IPTablesAssumption, MaxTimeAssumption

LEMMA EntriesInit == Init => EntriesOK
BY DEF Init, ClockInit, NoEntries, NoEntry, EntriesOK

LEMMA EntriesStep == EntriesOK /\ [Next]_vars => EntriesOK'
<1> SUFFICES ASSUME EntriesOK, [Next]_vars PROVE EntriesOK'
  OBVIOUS
<1> USE DEF EntriesOK, NoEntry, NoEntries
<1>1. ASSUME NEW ip \in IPs, NEW ttl \in Nat, AllowIPWithTTL(ip, ttl) PROVE EntriesOK'
  BY <1>1 DEF AllowIPWithTTL, Keep, Renew
<1>2. ASSUME NEW ip \in IPs, RemoveIP(ip) PROVE EntriesOK'
  BY <1>2 DEF RemoveIP
<1>3. CASE CleanupExpired
  BY <1>3 DEF CleanupExpired
<1>4. CASE Start \/ CrashInSetup \/ Cleanup
  BY <1>4 DEF Start, CrashInSetup, Cleanup
<1>5. CASE Exit \/ Crash \/ CrashInCleanup
  BY <1>5 DEF Exit, Crash, CrashInCleanup
<1>6. CASE TimePasses
  BY <1>6 DEF TimePasses, Tick
<1>7. CASE UNCHANGED vars
  BY <1>7 DEF vars
<1> QED
  BY <1>1, <1>2, <1>3, <1>4, <1>5, <1>6, <1>7 DEF Next, Operation, AllowIP

\* The clock and the map keep their types.
THEOREM EntriesTyped == Spec => []EntriesOK
BY EntriesInit, EntriesStep, PTL DEF Spec

----
\* A step that changes the map is AllowIPWithTTL, RemoveIP or CleanupExpired of the
\* contract, or its Cleanup when the process ends.
LEMMA ContractStep == EntriesOK /\ [Next]_vars => [Contract!ManagerNext]_<<now, allowedIPs>>
<1> SUFFICES ASSUME EntriesOK, [Next]_vars
             PROVE  Contract!ManagerNext \/ UNCHANGED <<now, allowedIPs>>
  BY DEF Contract!managerVars
<1> USE DEF EntriesOK, NoEntry, NoEntries
<1>1. ASSUME NEW ip \in IPs, NEW ttl \in Nat, AllowIPWithTTL(ip, ttl)
      PROVE  Contract!AllowIPWithTTL(ip, ttl) \/ UNCHANGED <<now, allowedIPs>>
  <2>1. CASE Keep(ip, ttl)
    BY <1>1, <2>1 DEF AllowIPWithTTL, Keep
  <2>2. CASE Renew(ip, ttl)
    <3>1. allowedIPs' = [allowedIPs EXCEPT ![ip] = now + ttl] \/ UNCHANGED allowedIPs
      BY <2>2 DEF Renew
    <3>2. ~(Contract!Valid(ip) /\ now + ttl <= allowedIPs[ip])
      BY <2>2 DEF Renew, Valid, Exists, Contract!Valid, Contract!Exists, Contract!NoEntry
    <3> QED
      BY <1>1, <3>1, <3>2 DEF AllowIPWithTTL, Contract!AllowIPWithTTL, Contract!Grant,
                              Contract!GrantedExpiry
  <2> QED
    BY <1>1, <2>1, <2>2 DEF AllowIPWithTTL
<1>2. ASSUME NEW ip \in IPs, RemoveIP(ip) PROVE Contract!RemoveIP(ip)
  BY <1>2 DEF RemoveIP, Contract!RemoveIP, Contract!Forget, Contract!NoEntry
<1>3. CASE CleanupExpired
  <2>1. Contract!CleanupExpired
    BY <1>3 DEF CleanupExpired, ExpiredIPs, Expired, Exists, Contract!CleanupExpired,
                Contract!ForgetExpired, Contract!Expired, Contract!Exists, Contract!NoEntry
  <2> QED
    BY <2>1 DEF Contract!ManagerNext
<1>4. CASE Start \/ CrashInSetup \/ Cleanup
  BY <1>4 DEF Start, CrashInSetup, Cleanup
<1>5. CASE Exit \/ Crash \/ CrashInCleanup
  <2>1. Contract!Cleanup
    BY <1>5 DEF Exit, Crash, CrashInCleanup, Contract!Cleanup, Contract!NoEntry
  <2> QED
    BY <2>1 DEF Contract!ManagerNext
<1>6. CASE TimePasses
  <2>1. Contract!Tick /\ UNCHANGED allowedIPs
    BY <1>6 DEF TimePasses, Tick, Contract!Tick
  <2> QED
    BY <2>1 DEF Contract!ManagerNext
<1>7. CASE UNCHANGED vars
  BY <1>7 DEF vars
<1>8. CASE \E ip \in IPs : Operation(ip)
  <2>1. PICK ip \in IPs : Operation(ip)
    BY <1>8
  <2>2. CASE \E ttl \in TTLs : AllowIPWithTTL(ip, ttl)
    BY <1>1, <2>2 DEF Contract!ManagerNext
  <2>3. CASE AllowIP(ip)
    BY <1>1, <2>3 DEF AllowIP, Contract!ManagerNext, Contract!AllowIP
  <2>4. CASE RemoveIP(ip)
    BY <1>2, <2>4 DEF Contract!ManagerNext
  <2> QED
    BY <2>1, <2>2, <2>3, <2>4 DEF Operation
<1> QED
  BY <1>3, <1>4, <1>5, <1>6, <1>7, <1>8 DEF Next

(* The map behaves as the contract of FirewallManager says: every step of    *)
(* IPTablesManager is a step of MockFirewallManager or leaves the map alone, *)
(* whatever the iptables commands do.                                        *)
THEOREM ContractImplemented == Spec => ImplementsContract
<1>1. Init => Contract!ClockInit /\ Contract!ManagerInit
  BY DEF Init, ClockInit, NoEntries, NoEntry, Contract!ClockInit, Contract!ManagerInit,
         Contract!NoEntry
<1>2. EntriesOK /\ [Next]_vars => [Contract!ManagerNext]_Contract!managerVars
  BY ContractStep DEF Contract!managerVars
<1> QED
  BY <1>1, <1>2, EntriesTyped, PTL DEF Spec, ImplementsContract, Contract!ManagerSpec

----
LEMMA ShorteningStep ==
  EntriesOK /\ [Next]_vars =>
      (\A ip \in IPs : Valid(ip) =>
          \/ allowedIPs'[ip] >= allowedIPs[ip]
          \/ RemoveIP(ip)
          \/ mode' = "down")
<1> SUFFICES ASSUME EntriesOK, [Next]_vars, NEW ip \in IPs, Valid(ip), ~RemoveIP(ip),
                    mode' # "down"
             PROVE  allowedIPs'[ip] >= allowedIPs[ip]
  OBVIOUS
<1> USE DEF EntriesOK, NoEntry
<1>1. ASSUME NEW other \in IPs, NEW ttl \in Nat, AllowIPWithTTL(other, ttl)
      PROVE  allowedIPs'[ip] >= allowedIPs[ip]
  BY <1>1 DEF AllowIPWithTTL, Keep, Renew, Valid, Exists
<1>2. ASSUME NEW other \in IPs, RemoveIP(other) PROVE allowedIPs'[ip] >= allowedIPs[ip]
  <2>1. other # ip
    BY <1>2
  <2>2. allowedIPs' = [allowedIPs EXCEPT ![other] = NoEntry]
    BY <1>2 DEF RemoveIP
  <2> QED
    BY <2>1, <2>2
<1>3. CASE CleanupExpired
  BY <1>3 DEF CleanupExpired, ExpiredIPs, Expired, Valid, Exists
<1>4. CASE Start \/ CrashInSetup \/ Cleanup \/ TimePasses \/ UNCHANGED vars
  BY <1>4 DEF Start, CrashInSetup, Cleanup, TimePasses, vars
<1>5. CASE Exit \/ Crash \/ CrashInCleanup
  BY <1>5 DEF Exit, Crash, CrashInCleanup
<1> QED
  BY <1>1, <1>2, <1>3, <1>4, <1>5 DEF Next, Operation, AllowIP

(* A valid entry never loses time but by RemoveIP or with the process.       *)
THEOREM GrantsKept == Spec => GrantNeverShortened
<1>1. EntriesOK /\ [Next]_vars =>
        [\A ip \in IPs : Valid(ip) =>
            \/ allowedIPs'[ip] >= allowedIPs[ip]
            \/ RemoveIP(ip)
            \/ mode' = "down"]_vars
  BY ShorteningStep
<1> QED
  BY <1>1, EntriesTyped, PTL DEF Spec, GrantNeverShortened

----
(***************************************************************************)
(* The kernel's rules.                                                     *)
(***************************************************************************)
Kernels == [exists : BOOLEAN, accepts : [IPs -> 0..MaxRules], drops : 0..1, jumps : 0..1]

\* k and l differ at most in their ACCEPT rules.
SameChain(k, l) == l.exists = k.exists /\ l.drops = k.drops /\ l.jumps = k.jumps

Fresh == [exists |-> TRUE, accepts |-> [ip \in IPs |-> 0], drops |-> 0, jumps |-> 0]
JumpOnly == [exists |-> TRUE, accepts |-> [ip \in IPs |-> 0], drops |-> 0, jumps |-> 1]
Filtering == [exists |-> TRUE, accepts |-> [ip \in IPs |-> 0], drops |-> 1, jumps |-> 1]

\* Two kernels with the same rules are equal.
LEMMA KernelsEqual ==
  ASSUME NEW k \in Kernels, NEW l \in Kernels, SameChain(k, l),
         \A ip \in IPs : k.accepts[ip] = l.accepts[ip]
  PROVE  k = l
<1>1. k.accepts = l.accepts
  BY DEF Kernels
<1> QED
  BY <1>1 DEF Kernels, SameChain

\* What the commands make of a chain.
LEMMA CommandsTyped ==
  ASSUME NEW k \in Kernels, NEW none \in [IPs -> 0..MaxRules]
  PROVE  /\ [k EXCEPT !.exists = TRUE] \in Kernels
         /\ [k EXCEPT !.accepts = none, !.drops = 0] \in Kernels
         /\ k.drops = 0 => [k EXCEPT !.drops = @ + 1] \in Kernels
         /\ k.jumps = 0 => [k EXCEPT !.jumps = @ + 1] \in Kernels
         /\ k.jumps > 0 => [k EXCEPT !.jumps = @ - 1] \in Kernels
<1>1. [k EXCEPT !.exists = TRUE] \in Kernels
  BY DEF Kernels
<1>2. [k EXCEPT !.accepts = none, !.drops = 0] \in Kernels
  <2> DEFINE m == [k EXCEPT !.accepts = none]
  <2>1. m \in Kernels
    BY DEF Kernels
  <2>2. [k EXCEPT !.accepts = none, !.drops = 0] = [m EXCEPT !.drops = 0]
    OBVIOUS
  <2> HIDE DEF m
  <2>3. [m EXCEPT !.drops = 0] \in Kernels
    BY <2>1 DEF Kernels
  <2> QED
    BY <2>2, <2>3
<1>3. k.drops = 0 => [k EXCEPT !.drops = @ + 1] \in Kernels
  BY DEF Kernels
<1>4. k.jumps = 0 => [k EXCEPT !.jumps = @ + 1] \in Kernels
  BY DEF Kernels
<1>5. k.jumps > 0 => [k EXCEPT !.jumps = @ - 1] \in Kernels
  BY DEF Kernels
<1> QED
  BY <1>1, <1>2, <1>3, <1>4, <1>5

\* The chain while Setup builds it.
LEMMA ChainsTyped ==
  /\ NoChain \in Kernels /\ Fresh \in Kernels /\ JumpOnly \in Kernels /\ Filtering \in Kernels
  /\ [NoChain EXCEPT !.exists = TRUE] = Fresh
  /\ [Fresh EXCEPT !.accepts = NoChain.accepts, !.drops = 0] = Fresh
  /\ [Fresh EXCEPT !.jumps = @ + 1] = JumpOnly
  /\ [JumpOnly EXCEPT !.drops = @ + 1] = Filtering
  /\ LeftChain \in Kernels
<1> DEFINE none == [ip \in IPs |-> 0]
<1>1. none \in [IPs -> 0..MaxRules]
  OBVIOUS
<1>2. /\ NoChain.accepts = none /\ NoChain.drops = 0 /\ NoChain.jumps = 0
      /\ Fresh.accepts = none /\ Fresh.drops = 0 /\ Fresh.jumps = 0 /\ Fresh.exists
      /\ JumpOnly.accepts = none /\ JumpOnly.drops = 0 /\ JumpOnly.jumps = 1 /\ JumpOnly.exists
      /\ Filtering.accepts = none /\ Filtering.drops = 1 /\ Filtering.jumps = 1
      /\ Filtering.exists
  BY DEF NoChain, Fresh, JumpOnly, Filtering
<1> HIDE DEF none
<1>3. NoChain \in Kernels /\ Fresh \in Kernels /\ JumpOnly \in Kernels /\ Filtering \in Kernels
  BY <1>1 DEF Kernels, NoChain, Fresh, JumpOnly, Filtering, none
<1>4. \A k \in Kernels, l \in Kernels :
        /\ k.exists = l.exists /\ k.drops = l.drops /\ k.jumps = l.jumps
        /\ k.accepts = l.accepts
        => k = l
  BY KernelsEqual DEF SameChain
<1>5. [NoChain EXCEPT !.exists = TRUE] = Fresh
  <2> DEFINE l == [NoChain EXCEPT !.exists = TRUE]
  <2>1. l \in Kernels
    BY <1>1, <1>3, CommandsTyped
  <2>2. /\ l.exists = Fresh.exists /\ l.drops = Fresh.drops /\ l.jumps = Fresh.jumps
        /\ l.accepts = Fresh.accepts
    BY <1>2, <1>3 DEF Kernels
  <2> HIDE DEF l
  <2>3. l = Fresh
    BY ONLY <1>3, <1>4, <2>1, <2>2
  <2> QED
    BY <1>2, <2>3 DEF l
<1>6. [Fresh EXCEPT !.accepts = NoChain.accepts, !.drops = 0] = Fresh
  <2> DEFINE l == [Fresh EXCEPT !.accepts = none, !.drops = 0]
  <2>1. l \in Kernels
    BY <1>1, <1>3, CommandsTyped
  <2>2. /\ l.exists = Fresh.exists /\ l.drops = Fresh.drops /\ l.jumps = Fresh.jumps
        /\ l.accepts = Fresh.accepts
    BY <1>2, <1>3 DEF Kernels
  <2> HIDE DEF l
  <2>3. l = Fresh
    BY ONLY <1>3, <1>4, <2>1, <2>2
  <2> QED
    BY <1>2, <2>3 DEF l
<1>7. [Fresh EXCEPT !.jumps = @ + 1] = JumpOnly
  <2> DEFINE l == [Fresh EXCEPT !.jumps = @ + 1]
  <2>1. l \in Kernels
    BY <1>1, <1>2, <1>3, CommandsTyped
  <2>2. l.exists = JumpOnly.exists /\ l.drops = JumpOnly.drops /\ l.accepts = JumpOnly.accepts
    BY <1>2, <1>3 DEF Kernels
  <2>3. l.jumps = JumpOnly.jumps
    BY <1>2, <1>3 DEF Kernels
  <2> HIDE DEF l
  <2>4. l = JumpOnly
    BY ONLY <1>3, <1>4, <2>1, <2>2, <2>3
  <2> QED
    BY <2>4 DEF l
<1>8. [JumpOnly EXCEPT !.drops = @ + 1] = Filtering
  <2> DEFINE l == [JumpOnly EXCEPT !.drops = @ + 1]
  <2>1. l \in Kernels
    BY <1>1, <1>2, <1>3, CommandsTyped
  <2>2. l.exists = Filtering.exists /\ l.jumps = Filtering.jumps /\ l.accepts = Filtering.accepts
    BY <1>2, <1>3 DEF Kernels
  <2>3. l.drops = Filtering.drops
    BY <1>2, <1>3 DEF Kernels
  <2> HIDE DEF l
  <2>4. l = Filtering
    BY ONLY <1>3, <1>4, <2>1, <2>2, <2>3
  <2> QED
    BY <2>4 DEF l
<1>9. LeftChain \in Kernels
  <2> DEFINE l == [Fresh EXCEPT !.drops = 1]
  <2>1. l \in Kernels
    BY <1>3 DEF Kernels
  <2>2. LeftChain = [l EXCEPT !.jumps = 1]
    BY <1>5 DEF LeftChain
  <2> HIDE DEF l
  <2>3. [l EXCEPT !.jumps = 1] \in Kernels
    BY <2>1 DEF Kernels
  <2> QED
    BY <2>2, <2>3
<1> QED
  BY <1>3, <1>5, <1>6, <1>7, <1>8, <1>9

\* What the commands of Setup lead to, one after the other.
LEMMA CreatedStage ==
  ASSUME NEW k \in Kernels, NEW o \in Created(k)
  PROVE  /\ o.ok => o.kernel = Fresh /\ SuffixAccepted
         /\ ~o.ok => o.kernel = k
         /\ ~SuffixAccepted => o.kernel = k
<1>1. o \in Suffixed(k, ~k.exists, Fresh)
  BY ChainsTyped DEF Created, NewChain
<1> QED
  BY <1>1 DEF Suffixed, Command, Outcome, Fault

LEMMA FlushedStage ==
  ASSUME NEW k \in Kernels, NEW o \in Flushed(k)
  PROVE  /\ o.ok => o.kernel = Fresh /\ SuffixAccepted
         /\ ~o.ok => o.kernel \in {k, Fresh}
         /\ ~SuffixAccepted => o.kernel = k
<1>1. PICK c \in Created(k) : o \in IF c.ok THEN FlushChain(c.kernel) ELSE {c}
  BY DEF Flushed, Then
<1>2. FlushChain(Fresh) = Command(Fresh, TRUE, Fresh)
  BY ChainsTyped DEF FlushChain, Fresh
<1>3. CASE c.ok
  BY <1>1, <1>2, <1>3, CreatedStage DEF Command, Outcome, Fault
<1>4. CASE ~c.ok
  BY <1>1, <1>4, CreatedStage
<1> QED
  BY <1>3, <1>4

LEMMA HookedStage ==
  ASSUME NEW k \in Kernels, NEW o \in Hooked(k)
  PROVE  /\ o.ok => o.kernel = JumpOnly /\ SuffixAccepted
         /\ ~o.ok => o.kernel \in {k, Fresh}
         /\ ~SuffixAccepted => o.kernel = k
<1>1. PICK c \in Flushed(k) : o \in IF c.ok THEN InsertJump(c.kernel) ELSE {c}
  BY DEF Hooked, Then
<1>2. InsertJump(Fresh) = Command(Fresh, TRUE, JumpOnly)
  BY ChainsTyped DEF InsertJump, Fresh
<1>3. CASE c.ok
  BY <1>1, <1>2, <1>3, FlushedStage DEF Command, Outcome, Fault
<1>4. CASE ~c.ok
  BY <1>1, <1>4, FlushedStage
<1> QED
  BY <1>3, <1>4

LEMMA SetupStage ==
  ASSUME NEW k \in Kernels, NEW o \in SetupOutcomes(k)
  PROVE  /\ o.ok => o.kernel = Filtering /\ SuffixAccepted
         /\ ~o.ok => o.kernel \in {k, Fresh, JumpOnly}
         /\ ~SuffixAccepted => o.kernel = k
<1>1. PICK c \in Hooked(k) : o \in IF c.ok THEN AppendDrop(c.kernel) ELSE {c}
  BY DEF SetupOutcomes, Then
<1>2. AppendDrop(JumpOnly) = Command(JumpOnly, TRUE, Filtering)
  BY ChainsTyped DEF AppendDrop, JumpOnly
<1>3. CASE c.ok
  BY <1>1, <1>2, <1>3, HookedStage DEF Command, Outcome, Fault
<1>4. CASE ~c.ok
  BY <1>1, <1>4, HookedStage
<1> QED
  BY <1>3, <1>4

\* One rule more.  The command fails without a chain, and may fail with one.
LEMMA InsertedAccept ==
  ASSUME NEW k \in Kernels, NEW ip \in IPs, k.accepts[ip] < MaxRules,
         NEW o \in InsertAccept(k, ip)
  PROVE  /\ o.kernel \in Kernels /\ SameChain(k, o.kernel)
         /\ \A other \in IPs \ {ip} : o.kernel.accepts[other] = k.accepts[other]
         /\ o.ok => k.exists /\ o.kernel.accepts[ip] = k.accepts[ip] + 1
         /\ ~o.ok => o.kernel = k
         /\ ~o.fault /\ k.exists => o.ok
<1> DEFINE l == [k EXCEPT !.accepts[ip] = @ + 1]
<1>1. l \in Kernels
  BY DEF Kernels
<1>2. SameChain(k, l)
  BY DEF Kernels, SameChain
<1>3. \A other \in IPs : l.accepts[other] = IF other = ip THEN k.accepts[ip] + 1
                                                          ELSE k.accepts[other]
  BY DEF Kernels
<1>4. InsertAccept(k, ip) = Command(k, k.exists, l)
  BY DEF InsertAccept
<1> HIDE DEF l
<1>5. \/ o.ok /\ k.exists /\ o.kernel = l
      \/ ~o.ok /\ o.kernel = k /\ (k.exists => o.fault)
  BY <1>4 DEF Command, Outcome, Fault
<1> QED
  BY <1>1, <1>2, <1>3, <1>5 DEF SameChain

\* One rule less, of an address that has one.
LEMMA DeletedAccept ==
  ASSUME NEW k \in Kernels, NEW ip \in IPs, NEW o \in DeleteAccept(k, ip)
  PROVE  /\ o.kernel \in Kernels /\ SameChain(k, o.kernel)
         /\ \A other \in IPs \ {ip} : o.kernel.accepts[other] = k.accepts[other]
         /\ \/ o.kernel.accepts[ip] = k.accepts[ip]
            \/ k.accepts[ip] > 0 /\ o.kernel.accepts[ip] = k.accepts[ip] - 1
         /\ SuffixAccepted /\ ~o.fault /\ k.accepts[ip] > 0
                => o.kernel.accepts[ip] = k.accepts[ip] - 1
<1> DEFINE l == [k EXCEPT !.accepts[ip] = @ - 1]
<1>1. k.accepts[ip] > 0 => l \in Kernels
  BY DEF Kernels
<1>2. SameChain(k, l)
  BY DEF Kernels, SameChain
<1>3. \A other \in IPs : l.accepts[other] = IF other = ip THEN k.accepts[ip] - 1
                                                          ELSE k.accepts[other]
  BY DEF Kernels
<1>4. DeleteAccept(k, ip) = Suffixed(k, k.accepts[ip] > 0, l)
  BY DEF DeleteAccept
<1> HIDE DEF l
<1>5. \/ k.accepts[ip] > 0 /\ o.kernel = l
      \/ o.kernel = k /\ (k.accepts[ip] > 0 /\ SuffixAccepted => o.fault)
  BY <1>4 DEF Suffixed, Command, Outcome, Fault
<1> QED
  BY <1>1, <1>2, <1>3, <1>5 DEF SameChain

\* One rule less for every address of S that has one.
LEMMA DeletedAllRules ==
  ASSUME NEW k \in Kernels, NEW S \in SUBSET IPs, NEW l \in DeletedAll(k, S)
  PROVE  /\ l \in Kernels /\ SameChain(k, l)
         /\ \A ip \in IPs \ S : l.accepts[ip] = k.accepts[ip]
         /\ \A ip \in S : \/ l.accepts[ip] = k.accepts[ip]
                          \/ k.accepts[ip] > 0 /\ l.accepts[ip] = k.accepts[ip] - 1
<1>1. PICK left \in [IPs -> 0..MaxRules] :
        /\ l = [k EXCEPT !.accepts = left]
        /\ \A ip \in IPs :
             left[ip] \in IF ip \in S THEN {o.kernel.accepts[ip] : o \in DeleteAccept(k, ip)}
                                      ELSE {k.accepts[ip]}
  BY DEF DeletedAll
<1>2. l \in Kernels /\ SameChain(k, l) /\ l.accepts = left
  BY <1>1 DEF Kernels, SameChain
<1>3. \A ip \in IPs \ S : left[ip] = k.accepts[ip]
  BY <1>1
<1>4. ASSUME NEW ip \in S
      PROVE  \/ left[ip] = k.accepts[ip]
             \/ k.accepts[ip] > 0 /\ left[ip] = k.accepts[ip] - 1
  <2>1. PICK o \in DeleteAccept(k, ip) : left[ip] = o.kernel.accepts[ip]
    BY <1>1, <1>4
  <2> QED
    BY <2>1, <1>4, DeletedAccept
<1> QED
  BY <1>2, <1>3, <1>4

----
(* Rules belong to a chain, and a chain that is gone has none.               *)
OwnRules(k) ==
    ~k.exists => k.drops = 0 /\ k.jumps = 0 /\ \A ip \in IPs : k.accepts[ip] = 0

LEMMA ChainlessEqual ==
  ASSUME NEW k \in Kernels, OwnRules(k), ~k.exists
  PROVE  k = NoChain
<1>1. k.exists = FALSE
  BY DEF Kernels
<1>2. SameChain(k, NoChain) /\ \A ip \in IPs : k.accepts[ip] = NoChain.accepts[ip]
  BY <1>1 DEF OwnRules, NoChain, SameChain
<1> QED
  BY <1>2, ChainsTyped, KernelsEqual

\* The commands of Cleanup.
LEMMA DeletedJump ==
  ASSUME NEW k \in Kernels, NEW o \in DeleteJump(k)
  PROVE  /\ o.kernel \in Kernels /\ o.kernel.exists = k.exists
         /\ o.kernel.drops = k.drops /\ o.kernel.accepts = k.accepts
         /\ o.kernel.jumps <= k.jumps
         /\ SuffixAccepted /\ ~o.fault => o.kernel.jumps = 0
<1> DEFINE l == [k EXCEPT !.jumps = @ - 1]
<1>1. k.jumps \in 0..1
  BY DEF Kernels
<1>2. l.exists = k.exists /\ l.drops = k.drops /\ l.accepts = k.accepts
  BY DEF Kernels
<1>3. l.jumps = k.jumps - 1
  BY DEF Kernels
<1>4. k.jumps > 0 => l \in Kernels
  BY DEF Kernels
<1>5. DeleteJump(k) = Suffixed(k, k.jumps > 0, l)
  BY DEF DeleteJump
<1> HIDE DEF l
<1>6. \/ k.jumps > 0 /\ o.kernel = l
      \/ o.kernel = k /\ (k.jumps > 0 /\ SuffixAccepted => o.fault)
  BY <1>5 DEF Suffixed, Command, Outcome, Fault
<1> QED
  BY <1>1, <1>2, <1>3, <1>4, <1>6

LEMMA FlushedForCleanup ==
  ASSUME NEW k \in Kernels, NEW o \in FlushForCleanup(k)
  PROVE  /\ o.kernel \in Kernels /\ o.kernel.exists = k.exists /\ o.kernel.jumps = k.jumps
         /\ \/ o.kernel = k
            \/ k.exists /\ o.kernel.drops = 0 /\ o.kernel.accepts = NoChain.accepts
         /\ SuffixAccepted /\ ~o.fault /\ k.exists =>
                o.kernel.drops = 0 /\ o.kernel.accepts = NoChain.accepts
<1> DEFINE l == [k EXCEPT !.accepts = NoChain.accepts, !.drops = 0]
<1>1. NoChain.accepts \in [IPs -> 0..MaxRules]
  BY DEF NoChain
<1>2. l \in Kernels
  BY <1>1, CommandsTyped
<1>3. l.exists = k.exists /\ l.jumps = k.jumps /\ l.drops = 0 /\ l.accepts = NoChain.accepts
  BY DEF Kernels
<1>4. FlushForCleanup(k) = Suffixed(k, k.exists, l)
  BY DEF FlushForCleanup
<1> HIDE DEF l
<1>5. \/ k.exists /\ o.kernel = l
      \/ o.kernel = k /\ (k.exists /\ SuffixAccepted => o.fault)
  BY <1>4 DEF Suffixed, Command, Outcome, Fault
<1> QED
  BY <1>2, <1>3, <1>5

LEMMA DeletedChain ==
  ASSUME NEW k \in Kernels, NEW o \in DeleteChain(k)
  PROVE  /\ o.kernel = k \/ o.kernel = NoChain
         /\ /\ SuffixAccepted /\ ~o.fault
            /\ k.exists /\ k.jumps = 0 /\ k.drops = 0 /\ k.accepts = NoChain.accepts
            => o.kernel = NoChain
BY DEF DeleteChain, Suffixed, Command, Outcome, Fault

\* Two outcomes in a row, of which the second one's kernel is left.
LEMMA MergedOutcome ==
  ASSUME NEW ok, NEW f, NEW g, NEW k, NEW o,
         o = [ok |-> ok, fault |-> f \/ g, kernel |-> k]
  PROVE  /\ o.kernel = k
         /\ ~o.fault => ~f /\ ~g
<1>1. o.kernel = k
  OBVIOUS
<1>2. o.fault = (f \/ g)
  OBVIOUS
<1>3. ~o.fault => ~f /\ ~g
  BY ONLY <1>2
<1> QED
  BY <1>1, <1>3

\* The stages of Cleanup.  Nothing is left unless a command on the chain failed.
LEMMA RulesDeletedStage ==
  ASSUME NEW k \in Kernels, OwnRules(k), NEW o \in RulesDeleted(k)
  PROVE  o.kernel \in Kernels /\ OwnRules(o.kernel) /\ o.kernel.exists = k.exists
<1>1. PICK l \in DeletedAll(k, {ip \in IPs : Exists(ip)}) : o = Outcome(TRUE, l)
  BY DEF RulesDeleted
<1>2. l \in Kernels /\ SameChain(k, l)
      /\ \A ip \in IPs : l.accepts[ip] = k.accepts[ip] \/ k.accepts[ip] > 0
  BY DeletedAllRules
<1>3. o.kernel = l
  BY <1>1 DEF Outcome
<1> QED
  BY <1>2, <1>3 DEF SameChain, OwnRules

LEMMA UnhookedStage ==
  ASSUME NEW k \in Kernels, OwnRules(k), NEW o \in Unhooked(k)
  PROVE  /\ o.kernel \in Kernels /\ OwnRules(o.kernel) /\ o.kernel.exists = k.exists
         /\ SuffixAccepted /\ ~o.fault => o.kernel.jumps = 0
<1>0. PICK c \in RulesDeleted(k) : \E n \in DeleteJump(c.kernel) :
        o = [ok |-> n.ok, fault |-> c.fault \/ n.fault, kernel |-> n.kernel]
  BY DEF Unhooked, Anyway
<1>1. PICK n \in DeleteJump(c.kernel) : o.kernel = n.kernel /\ (~o.fault => ~n.fault)
  BY <1>0, MergedOutcome
<1>2. c.kernel \in Kernels /\ OwnRules(c.kernel) /\ c.kernel.exists = k.exists
  BY RulesDeletedStage
<1>3. c.kernel.jumps \in 0..1 /\ o.kernel.jumps \in 0..1
  BY <1>1, <1>2, DeletedJump DEF Kernels
<1> QED
  BY <1>1, <1>2, <1>3, DeletedJump DEF OwnRules

LEMMA EmptiedStage ==
  ASSUME NEW k \in Kernels, OwnRules(k), NEW o \in Emptied(k)
  PROVE  /\ o.kernel \in Kernels /\ OwnRules(o.kernel) /\ o.kernel.exists = k.exists
         /\ SuffixAccepted /\ ~o.fault => o.kernel.jumps = 0
         /\ SuffixAccepted /\ ~o.fault /\ k.exists =>
                o.kernel.drops = 0 /\ o.kernel.accepts = NoChain.accepts
<1>0. PICK c \in Unhooked(k) : \E n \in FlushForCleanup(c.kernel) :
        o = [ok |-> n.ok, fault |-> c.fault \/ n.fault, kernel |-> n.kernel]
  BY DEF Emptied, Anyway
<1>1. PICK n \in FlushForCleanup(c.kernel) :
        o.kernel = n.kernel /\ (~o.fault => ~c.fault /\ ~n.fault)
  BY <1>0, MergedOutcome
<1>2. /\ c.kernel \in Kernels /\ OwnRules(c.kernel) /\ c.kernel.exists = k.exists
      /\ SuffixAccepted /\ ~c.fault => c.kernel.jumps = 0
  BY UnhookedStage
<1> QED
  BY <1>1, <1>2, FlushedForCleanup DEF OwnRules

LEMMA CleanupStage ==
  ASSUME NEW k \in Kernels, OwnRules(k), NEW o \in CleanupOutcomes(k)
  PROVE  /\ o.kernel \in Kernels /\ OwnRules(o.kernel)
         /\ SuffixAccepted /\ ~o.fault => o.kernel = NoChain
         /\ ~k.exists => o.kernel = NoChain
<1>0. PICK c \in Emptied(k) : \E n \in DeleteChain(c.kernel) :
        o = [ok |-> n.ok, fault |-> c.fault \/ n.fault, kernel |-> n.kernel]
  BY DEF CleanupOutcomes, Anyway
<1>1. PICK n \in DeleteChain(c.kernel) :
        o.kernel = n.kernel /\ (~o.fault => ~c.fault /\ ~n.fault)
  BY <1>0, MergedOutcome
<1>2. /\ c.kernel \in Kernels /\ OwnRules(c.kernel) /\ c.kernel.exists = k.exists
      /\ SuffixAccepted /\ ~c.fault => c.kernel.jumps = 0
      /\ SuffixAccepted /\ ~c.fault /\ k.exists =>
             c.kernel.drops = 0 /\ c.kernel.accepts = NoChain.accepts
  BY EmptiedStage
<1>3. NoChain \in Kernels /\ OwnRules(NoChain)
  BY ChainsTyped DEF OwnRules, NoChain
<1>4. ~c.kernel.exists => c.kernel = NoChain
  BY <1>2, ChainlessEqual
<1> QED
  BY <1>1, <1>2, <1>3, <1>4, DeletedChain

----
(* The inductive invariant.  An iptables that refuses the suffixed commands  *)
(* refuses the first command of Setup: there never is a chain, so that no    *)
(* address can be inserted and nothing ever filters.                         *)
NeverFilters == kernel = NoChain /\ allowedIPs = NoEntries /\ mode # "filtering"

KernelInv ==
    /\ TypeOK
    /\ OwnRules(kernel)
    /\ mode = "down" => allowedIPs = NoEntries
    /\ ~SuffixAccepted => NeverFilters
    /\ KernelInStep
    /\ EntryHasRule
    /\ ShutdownLeavesNothing

LEMMA TypeUnfolded ==
  TypeOK <=> EntriesOK /\ kernel \in Kernels
                       /\ mode \in {"down", "filtering", "dnsOnly", "closing"}
                       /\ faults \in SUBSET (IPs \cup {Chain})
BY DEF TypeOK, EntriesOK, Kernels

\* What AllowIPWithTTL does to the rules.
LEMMA RenewedRules ==
  ASSUME TypeOK, NEW ip \in IPs, NEW ttl \in Nat, Renew(ip, ttl)
  PROVE  /\ kernel' \in Kernels /\ SameChain(kernel, kernel')
         /\ faults' \in {faults, faults \cup {ip}}
         /\ \A other \in IPs \ {ip} :
              /\ kernel'.accepts[other] = kernel.accepts[other]
              /\ allowedIPs'[other] = allowedIPs[other]
         /\ ~kernel.exists => kernel'.accepts[ip] <= kernel.accepts[ip] /\ allowedIPs' = allowedIPs
         /\ SuffixAccepted /\ kernel.exists /\ ip \notin faults' =>
              /\ allowedIPs'[ip] # NoEntry
              /\ kernel'.accepts[ip] = IF Exists(ip) /\ kernel.accepts[ip] > 0
                                       THEN kernel.accepts[ip] ELSE kernel.accepts[ip] + 1
<1>0. PICK d \in DeleteOld(kernel, ip) : \E i \in InsertAccept(d.kernel, ip) :
        /\ kernel' = i.kernel
        /\ allowedIPs' = IF i.ok THEN [allowedIPs EXCEPT ![ip] = now + ttl] ELSE allowedIPs
        /\ faults' = Noted(d.fault \/ i.fault, ip)
        /\ kernel.accepts[ip] < MaxRules
  BY DEF Renew
<1>1. PICK i \in InsertAccept(d.kernel, ip) :
        /\ kernel' = i.kernel
        /\ allowedIPs' = IF i.ok THEN [allowedIPs EXCEPT ![ip] = now + ttl] ELSE allowedIPs
        /\ faults' = Noted(d.fault \/ i.fault, ip)
        /\ kernel.accepts[ip] < MaxRules
  BY <1>0
<1>2. kernel \in Kernels /\ kernel.accepts[ip] \in 0..MaxRules /\ EntriesOK
  BY TypeUnfolded DEF Kernels
<1>3. /\ d.kernel \in Kernels /\ SameChain(kernel, d.kernel)
      /\ \A other \in IPs \ {ip} : d.kernel.accepts[other] = kernel.accepts[other]
      /\ d.kernel.accepts[ip] \in {kernel.accepts[ip], kernel.accepts[ip] - 1}
      /\ ~Exists(ip) \/ kernel.accepts[ip] = 0 => d.kernel.accepts[ip] = kernel.accepts[ip]
      /\ SuffixAccepted /\ ~d.fault /\ Exists(ip) /\ kernel.accepts[ip] > 0
           => d.kernel.accepts[ip] = kernel.accepts[ip] - 1
  <2>1. CASE Exists(ip)
    <3>1. d \in DeleteAccept(kernel, ip)
      BY <1>1, <2>1 DEF DeleteOld
    <3> QED
      BY <1>2, <2>1, <3>1, DeletedAccept
  <2>2. CASE ~Exists(ip)
    <3>1. d.kernel = kernel
      BY <1>1, <2>2 DEF DeleteOld, Outcome
    <3> QED
      BY <1>2, <2>2, <3>1 DEF SameChain
  <2> QED
    BY <2>1, <2>2
<1>4. d.kernel.accepts[ip] < MaxRules /\ d.kernel.accepts[ip] \in 0..MaxRules
  BY <1>1, <1>2, <1>3 DEF Kernels
<1>5. /\ i.kernel \in Kernels /\ SameChain(d.kernel, i.kernel)
      /\ \A other \in IPs \ {ip} : i.kernel.accepts[other] = d.kernel.accepts[other]
      /\ i.ok => d.kernel.exists /\ i.kernel.accepts[ip] = d.kernel.accepts[ip] + 1
      /\ ~i.ok => i.kernel = d.kernel
      /\ ~i.fault /\ d.kernel.exists => i.ok
  BY <1>1, <1>3, <1>4, InsertedAccept
<1>6. /\ \A other \in IPs \ {ip} : allowedIPs'[other] = allowedIPs[other]
      /\ i.ok => allowedIPs'[ip] # NoEntry
      /\ ~i.ok => allowedIPs' = allowedIPs
  BY <1>1, <1>2 DEF EntriesOK, NoEntry
<1>7. d.kernel.exists = kernel.exists /\ SameChain(kernel, kernel')
  BY <1>1, <1>3, <1>5 DEF SameChain
<1>8. \A other \in IPs \ {ip} : kernel'.accepts[other] = kernel.accepts[other]
  BY <1>1, <1>3, <1>5
<1>9. ASSUME ~kernel.exists
      PROVE  kernel'.accepts[ip] <= kernel.accepts[ip] /\ allowedIPs' = allowedIPs
  BY <1>1, <1>2, <1>3, <1>5, <1>6, <1>7, <1>9
<1>10. /\ faults' \in {faults, faults \cup {ip}}
       /\ ip \notin faults' => ~d.fault /\ ~i.fault
  BY <1>1 DEF Noted
<1>11. ASSUME SuffixAccepted, kernel.exists, ip \notin faults'
       PROVE  /\ allowedIPs'[ip] # NoEntry
              /\ kernel'.accepts[ip] = IF Exists(ip) /\ kernel.accepts[ip] > 0
                                       THEN kernel.accepts[ip] ELSE kernel.accepts[ip] + 1
  <2>1. i.ok /\ kernel'.accepts[ip] = d.kernel.accepts[ip] + 1
    BY <1>1, <1>5, <1>7, <1>10, <1>11
  <2>2. kernel.accepts[ip] >= 0
    BY <1>2
  <2>3. CASE Exists(ip) /\ kernel.accepts[ip] > 0
    BY <1>2, <1>3, <1>6, <1>10, <1>11, <2>1, <2>3
  <2>4. CASE ~(Exists(ip) /\ kernel.accepts[ip] > 0)
    <3>1. ~Exists(ip) \/ kernel.accepts[ip] = 0
      BY <1>2, <2>4
    <3> QED
      BY <1>3, <1>6, <2>1, <2>4, <3>1
  <2> QED
    BY <2>3, <2>4
<1> QED
  BY <1>1, <1>5, <1>6, <1>7, <1>8, <1>9, <1>10, <1>11

\* An operation of a live manager changes rules and entries, and keeps the chain.
LEMMA OperationKeeps ==
  ASSUME KernelInv, EntriesOK', mode # "down", mode' = mode,
         kernel' \in Kernels, SameChain(kernel, kernel'),
         faults' \in SUBSET (IPs \cup {Chain}), faults \subseteq faults',
         ~kernel.exists => \A ip \in IPs : kernel'.accepts[ip] = 0,
         ~SuffixAccepted => allowedIPs' = NoEntries,
         SuffixAccepted /\ mode = "filtering" =>
            \A ip \in IPs \ faults' :
               kernel'.accepts[ip] = IF allowedIPs'[ip] # NoEntry THEN 1 ELSE 0,
         SuffixAccepted /\ mode = "dnsOnly" =>
            \A ip \in IPs \ faults' : allowedIPs'[ip] # NoEntry => kernel'.accepts[ip] > 0
  PROVE  KernelInv'
<1>1. TypeOK'
  <2>1. mode \in {"down", "filtering", "dnsOnly", "closing"}
    BY TypeUnfolded DEF KernelInv
  <2> QED
    BY <2>1 DEF TypeOK, EntriesOK, Kernels
<1>2. kernel'.exists = kernel.exists /\ kernel'.drops = kernel.drops /\ kernel'.jumps = kernel.jumps
  BY DEF SameChain
<1>3. OwnRules(kernel')
  BY <1>2 DEF KernelInv, OwnRules
<1>4. ~kernel.exists => kernel' = NoChain
  BY <1>2, <1>3, ChainlessEqual
<1>5. ~NoChain.exists
  BY DEF NoChain
<1>6. ~SuffixAccepted => NeverFilters'
  BY <1>4, <1>5 DEF KernelInv, NeverFilters, NoEntries, NoChain
<1>7. ShutdownLeavesNothing'
  BY <1>4, <1>5 DEF KernelInv, ShutdownLeavesNothing, NoChain
<1>8. KernelInStep'
  <2> SUFFICES ASSUME mode = "filtering"
               PROVE  /\ kernel'.exists /\ kernel'.drops = 1 /\ kernel'.jumps = 1
                      /\ \A ip \in IPs \ faults' :
                           kernel'.accepts[ip] = IF allowedIPs'[ip] # NoEntry THEN 1 ELSE 0
    BY DEF KernelInStep, Exists
  <2>1. SuffixAccepted
    BY DEF KernelInv, NeverFilters
  <2>2. kernel.exists /\ kernel.drops = 1 /\ kernel.jumps = 1
    BY DEF KernelInv, KernelInStep
  <2> QED
    BY <1>2, <2>1, <2>2
<1>9. EntryHasRule'
  <2> SUFFICES ASSUME mode \in {"filtering", "dnsOnly"}, NEW ip \in IPs, ip \notin faults',
                      allowedIPs'[ip] # NoEntry
               PROVE  kernel'.accepts[ip] > 0
    BY DEF EntryHasRule, Exists
  <2>1. SuffixAccepted
    BY DEF NoEntries
  <2> QED
    BY <2>1
<1> QED
  BY <1>1, <1>3, <1>6, <1>7, <1>8, <1>9 DEF KernelInv, OwnRules

LEMMA AllowKernel ==
  ASSUME KernelInv, EntriesOK', NEW ip \in IPs, NEW ttl \in Nat, AllowIPWithTTL(ip, ttl)
  PROVE  KernelInv'
<1>1. /\ TypeOK /\ mode # "down" /\ mode' = mode /\ kernel \in Kernels /\ EntriesOK
      /\ faults \in SUBSET (IPs \cup {Chain})
  BY TypeUnfolded DEF KernelInv, AllowIPWithTTL, Alive
<1>0. ~SuffixAccepted => ~kernel.exists /\ allowedIPs = NoEntries
  BY DEF KernelInv, NeverFilters, NoChain
<1>2. CASE Keep(ip, ttl)
  <2>1. kernel' = kernel /\ allowedIPs' = allowedIPs /\ faults' = faults
    BY <1>2 DEF Keep
  <2> QED
    BY <1>0, <1>1, <2>1, OperationKeeps
       DEF KernelInv, OwnRules, SameChain, KernelInStep, EntryHasRule, Exists
<1>3. CASE Renew(ip, ttl)
  <2>1. /\ kernel' \in Kernels /\ SameChain(kernel, kernel')
        /\ faults' \in {faults, faults \cup {ip}}
        /\ \A other \in IPs \ {ip} : /\ kernel'.accepts[other] = kernel.accepts[other]
                                     /\ allowedIPs'[other] = allowedIPs[other]
        /\ ~kernel.exists => kernel'.accepts[ip] <= kernel.accepts[ip] /\ allowedIPs' = allowedIPs
        /\ SuffixAccepted /\ kernel.exists /\ ip \notin faults' =>
             /\ allowedIPs'[ip] # NoEntry
             /\ kernel'.accepts[ip] = IF Exists(ip) /\ kernel.accepts[ip] > 0
                                      THEN kernel.accepts[ip] ELSE kernel.accepts[ip] + 1
    BY <1>1, <1>3, RenewedRules
  <2>2. ASSUME ~kernel.exists PROVE \A i \in IPs : kernel'.accepts[i] = 0
    <3>1. \A i \in IPs : kernel.accepts[i] = 0
      BY <2>2 DEF KernelInv, OwnRules
    <3>2. kernel'.accepts[ip] \in 0..MaxRules
      BY <2>1 DEF Kernels
    <3> QED
      BY <2>1, <2>2, <3>1, <3>2
  <2>3. ASSUME SuffixAccepted, mode = "filtering", NEW i \in IPs, i \notin faults'
        PROVE  kernel'.accepts[i] = IF allowedIPs'[i] # NoEntry THEN 1 ELSE 0
    <3>1. kernel.exists /\ \A j \in IPs \ faults : kernel.accepts[j] = IF Exists(j) THEN 1 ELSE 0
      BY <2>3 DEF KernelInv, KernelInStep
    <3>2. i \notin faults
      BY <2>1, <2>3
    <3> QED
      BY <2>1, <2>3, <3>1, <3>2 DEF Exists
  <2>4. ASSUME SuffixAccepted, mode = "dnsOnly", NEW i \in IPs, i \notin faults',
               allowedIPs'[i] # NoEntry
        PROVE  kernel'.accepts[i] > 0
    <3>1. \A j \in IPs \ faults : allowedIPs[j] # NoEntry => kernel.accepts[j] > 0
      BY <2>4 DEF KernelInv, EntryHasRule, Exists
    <3>2. ~kernel.exists => kernel.accepts[i] = 0
      BY DEF KernelInv, OwnRules
    <3>3. i \notin faults /\ kernel.accepts[i] \in 0..MaxRules
      BY <1>1, <2>1, <2>4 DEF Kernels
    <3> QED
      BY <2>1, <2>4, <3>1, <3>2, <3>3
  <2>5. ~SuffixAccepted => allowedIPs' = NoEntries
    BY <1>0, <2>1
  <2>6. faults' \in SUBSET (IPs \cup {Chain}) /\ faults \subseteq faults'
    BY <1>1, <2>1
  <2> QED
    BY <1>1, <2>1, <2>2, <2>3, <2>4, <2>5, <2>6, OperationKeeps
<1> QED
  BY <1>2, <1>3 DEF AllowIPWithTTL

LEMMA RemoveKernel ==
  ASSUME KernelInv, EntriesOK', NEW ip \in IPs, RemoveIP(ip)
  PROVE  KernelInv'
<1>1. /\ TypeOK /\ mode # "down" /\ mode' = mode /\ kernel \in Kernels /\ EntriesOK /\ Exists(ip)
      /\ faults \in SUBSET (IPs \cup {Chain})
  BY TypeUnfolded DEF KernelInv, RemoveIP, Alive
<1>2. PICK o \in DeleteAccept(kernel, ip) : kernel' = o.kernel /\ faults' = Noted(o.fault, ip)
  BY DEF RemoveIP
<1>3. /\ kernel' \in Kernels /\ SameChain(kernel, kernel')
      /\ \A other \in IPs \ {ip} : kernel'.accepts[other] = kernel.accepts[other]
      /\ kernel'.accepts[ip] = kernel.accepts[ip] \/ kernel.accepts[ip] > 0
      /\ SuffixAccepted /\ ~o.fault /\ kernel.accepts[ip] > 0
            => kernel'.accepts[ip] = kernel.accepts[ip] - 1
  BY <1>1, <1>2, DeletedAccept
<1>4. /\ faults' \in {faults, faults \cup {ip}} /\ (ip \notin faults' => ~o.fault)
      /\ faults' \in SUBSET (IPs \cup {Chain}) /\ faults \subseteq faults'
  BY <1>1, <1>2 DEF Noted
<1>5. allowedIPs' = [allowedIPs EXCEPT ![ip] = NoEntry]
  BY DEF RemoveIP
<1>6. allowedIPs'[ip] = NoEntry /\ \A i \in IPs \ {ip} : allowedIPs'[i] = allowedIPs[i]
  BY <1>1, <1>5 DEF EntriesOK
<1>7. SuffixAccepted
  BY <1>1 DEF KernelInv, NeverFilters, NoEntries, Exists
<1>8. ASSUME ~kernel.exists PROVE \A i \in IPs : kernel'.accepts[i] = 0
  BY <1>3, <1>8 DEF KernelInv, OwnRules
<1>9. ASSUME mode = "filtering", NEW i \in IPs, i \notin faults'
      PROVE  kernel'.accepts[i] = IF allowedIPs'[i] # NoEntry THEN 1 ELSE 0
  <2>1. \A j \in IPs \ faults : kernel.accepts[j] = IF Exists(j) THEN 1 ELSE 0
    BY <1>9 DEF KernelInv, KernelInStep
  <2> QED
    BY <1>1, <1>3, <1>4, <1>6, <1>7, <1>9, <2>1 DEF Exists
<1>10. ASSUME mode = "dnsOnly", NEW i \in IPs, i \notin faults', allowedIPs'[i] # NoEntry
      PROVE  kernel'.accepts[i] > 0
  BY <1>3, <1>4, <1>6, <1>10 DEF KernelInv, EntryHasRule, Exists
<1> QED
  BY <1>1, <1>3, <1>4, <1>7, <1>8, <1>9, <1>10, OperationKeeps

LEMMA ExpireKernel ==
  ASSUME KernelInv, EntriesOK', CleanupExpired
  PROVE  KernelInv'
<1>1. /\ TypeOK /\ mode # "down" /\ mode' = mode /\ kernel \in Kernels /\ EntriesOK
      /\ faults \in SUBSET (IPs \cup {Chain})
  BY TypeUnfolded DEF KernelInv, CleanupExpired, Alive
<1>2. kernel' \in DeletedAll(kernel, ExpiredIPs) /\ ExpiredIPs \in SUBSET IPs
  BY DEF CleanupExpired, ExpiredIPs
<1>3. /\ kernel' \in Kernels /\ SameChain(kernel, kernel')
      /\ \A ip \in IPs \ ExpiredIPs : kernel'.accepts[ip] = kernel.accepts[ip]
      /\ \A ip \in ExpiredIPs :
            \/ kernel'.accepts[ip] = kernel.accepts[ip]
            \/ kernel.accepts[ip] > 0 /\ kernel'.accepts[ip] = kernel.accepts[ip] - 1
  BY <1>1, <1>2, DeletedAllRules
<1>4. \A ip \in IPs : allowedIPs'[ip] = IF ip \in ExpiredIPs THEN NoEntry ELSE allowedIPs[ip]
  BY DEF CleanupExpired
<1>5. \A ip \in ExpiredIPs : ip \in IPs /\ Exists(ip)
  BY DEF ExpiredIPs, Expired
<1>6. /\ faults' \in SUBSET (IPs \cup {Chain}) /\ faults \subseteq faults'
      /\ \A ip \in ExpiredIPs : kernel'.accepts[ip] = kernel.accepts[ip] => ip \in faults'
  BY <1>1, <1>2 DEF CleanupExpired
<1>7. ASSUME ~kernel.exists PROVE \A ip \in IPs : kernel'.accepts[ip] = 0
  BY <1>3, <1>7 DEF KernelInv, OwnRules
<1>8. ASSUME ~SuffixAccepted PROVE allowedIPs' = NoEntries
  <2>1. allowedIPs = NoEntries
    BY <1>8 DEF KernelInv, NeverFilters
  <2>2. \A ip \in IPs : allowedIPs'[ip] = NoEntry
    BY <1>4, <2>1 DEF NoEntries
  <2> QED
    BY <2>2 DEF NoEntries, EntriesOK
<1>9. ASSUME mode = "filtering", NEW ip \in IPs, ip \notin faults'
      PROVE  kernel'.accepts[ip] = IF allowedIPs'[ip] # NoEntry THEN 1 ELSE 0
  <2>1. kernel.accepts[ip] = IF Exists(ip) THEN 1 ELSE 0
    BY <1>6, <1>9 DEF KernelInv, KernelInStep
  <2>2. CASE ip \in ExpiredIPs
    BY <1>3, <1>4, <1>5, <1>6, <1>9, <2>1, <2>2
  <2>3. CASE ip \notin ExpiredIPs
    BY <1>3, <1>4, <2>1, <2>3 DEF Exists
  <2> QED
    BY <2>2, <2>3
<1>10. ASSUME mode = "dnsOnly", NEW ip \in IPs, ip \notin faults', allowedIPs'[ip] # NoEntry
       PROVE  kernel'.accepts[ip] > 0
  <2>1. ip \notin ExpiredIPs /\ Exists(ip)
    BY <1>4, <1>10 DEF Exists
  <2> QED
    BY <1>3, <1>6, <1>10, <2>1 DEF KernelInv, EntryHasRule
<1> QED
  BY <1>1, <1>3, <1>6, <1>7, <1>8, <1>9, <1>10, OperationKeeps

\* Setup, whole or cut short.  Only a Setup that succeeds filters, and it does so with
\* the chain that it has built itself.
LEMMA StartKernel ==
  ASSUME KernelInv, EntriesOK', Start \/ CrashInSetup
  PROVE  KernelInv'
<1>1. /\ kernel \in Kernels /\ OwnRules(kernel) /\ mode = "down"
      /\ allowedIPs = NoEntries /\ allowedIPs' = NoEntries
      /\ faults' \in SUBSET (IPs \cup {Chain})
  BY TypeUnfolded DEF KernelInv, Start, CrashInSetup
<1>2. /\ Fresh \in Kernels /\ JumpOnly \in Kernels /\ Filtering \in Kernels
      /\ OwnRules(Fresh) /\ OwnRules(JumpOnly) /\ OwnRules(Filtering)
  BY ChainsTyped DEF OwnRules, Fresh, JumpOnly, Filtering
<1>3. \A ip \in IPs : allowedIPs'[ip] = NoEntry
  BY <1>1 DEF NoEntries
<1>4. CASE Start
  <2>1. PICK o \in SetupOutcomes(kernel) :
          kernel' = o.kernel /\ mode' = IF o.ok THEN "filtering" ELSE "dnsOnly"
    BY <1>4 DEF Start
  <2>2. /\ o.ok => kernel' = Filtering /\ SuffixAccepted /\ mode' = "filtering"
        /\ ~o.ok => kernel' \in {kernel, Fresh, JumpOnly} /\ mode' = "dnsOnly"
        /\ ~SuffixAccepted => kernel' = kernel
    BY <1>1, <2>1, SetupStage
  <2>3. TypeOK' /\ OwnRules(kernel')
    BY <1>1, <1>2, <2>2, TypeUnfolded DEF TypeOK, EntriesOK, Kernels
  <2>4. KernelInStep' /\ EntryHasRule'
    BY <1>3, <2>2 DEF KernelInStep, EntryHasRule, Exists, Filtering
  <2>5. ~SuffixAccepted => NeverFilters'
    BY <1>1, <2>2 DEF KernelInv, NeverFilters, NoEntries, NoChain
  <2> QED
    BY <2>2, <2>3, <2>4, <2>5 DEF KernelInv, OwnRules, ShutdownLeavesNothing
<1>5. CASE CrashInSetup
  <2>1. mode' = "down"
    BY <1>1, <1>5 DEF CrashInSetup
  <2>2. /\ kernel' \in {kernel, Fresh, JumpOnly}
        /\ ~SuffixAccepted => kernel' = kernel
    BY <1>1, <1>5, CreatedStage, FlushedStage, HookedStage DEF CrashInSetup
  <2>3. TypeOK' /\ OwnRules(kernel')
    BY <1>1, <1>2, <2>1, <2>2 DEF TypeOK, EntriesOK, Kernels
  <2>4. ~SuffixAccepted => NeverFilters'
    BY <1>1, <2>1, <2>2 DEF KernelInv, NeverFilters, NoEntries, NoChain
  <2> QED
    BY <1>1, <2>1, <2>3, <2>4
       DEF KernelInv, OwnRules, KernelInStep, EntryHasRule, ShutdownLeavesNothing, NoEntries
<1> QED
  BY <1>4, <1>5

\* The end of the process: Cleanup, whole or cut short, a crash, the exit.
LEMMA EndKernel ==
  ASSUME KernelInv, EntriesOK', Cleanup \/ Exit \/ Crash \/ CrashInCleanup
  PROVE  KernelInv'
<1>1. kernel \in Kernels /\ OwnRules(kernel) /\ faults \in SUBSET (IPs \cup {Chain})
  BY TypeUnfolded DEF KernelInv
<1>2. ~SuffixAccepted => ~kernel.exists /\ allowedIPs = NoEntries
  BY DEF KernelInv, NeverFilters, NoChain
<1>3. CASE Cleanup
  <2>1. PICK o \in CleanupOutcomes(kernel) : kernel' = o.kernel /\ faults' = Noted(o.fault, Chain)
    BY <1>3 DEF Cleanup
  <2>2. mode' = "closing" /\ allowedIPs' = allowedIPs
    BY <1>3 DEF Cleanup
  <2>3. /\ kernel' \in Kernels /\ OwnRules(kernel')
        /\ SuffixAccepted /\ ~o.fault => kernel' = NoChain
        /\ ~SuffixAccepted => kernel' = NoChain
    BY <1>1, <1>2, <2>1, CleanupStage
  <2>4. faults' \in SUBSET (IPs \cup {Chain}) /\ (Chain \notin faults' => ~o.fault)
    BY <1>1, <2>1 DEF Noted
  <2>5. TypeOK'
    BY <2>2, <2>3, <2>4 DEF TypeOK, EntriesOK, Kernels
  <2>6. ~SuffixAccepted => NeverFilters'
    BY <1>2, <2>2, <2>3 DEF NeverFilters, NoEntries, NoChain
  <2>7. ShutdownLeavesNothing'
    BY <2>3, <2>4 DEF ShutdownLeavesNothing, NoChain
  <2> QED
    BY <2>2, <2>3, <2>5, <2>6, <2>7 DEF KernelInv, OwnRules, KernelInStep, EntryHasRule
<1>4. CASE Exit \/ Crash \/ CrashInCleanup
  <2>1. mode' = "down" /\ allowedIPs' = NoEntries /\ faults' = {}
    BY <1>4 DEF Exit, Crash, CrashInCleanup
  <2>2. kernel' \in Kernels /\ OwnRules(kernel') /\ (~kernel.exists => ~kernel'.exists)
    <3>1. CASE CrashInCleanup
      BY <1>1, <3>1, RulesDeletedStage, UnhookedStage, EmptiedStage DEF CrashInCleanup
    <3>2. CASE Exit \/ Crash
      BY <1>1, <3>2 DEF Exit, Crash
    <3> QED
      BY <1>4, <3>1, <3>2
  <2>3. TypeOK'
    BY <2>1, <2>2 DEF TypeOK, EntriesOK, Kernels
  <2>4. ~SuffixAccepted => kernel' = NoChain
    BY <1>2, <2>2, ChainlessEqual
  <2>5. ~SuffixAccepted => NeverFilters'
    BY <2>1, <2>4 DEF NeverFilters, NoEntries, NoChain
  <2> QED
    BY <2>1, <2>2, <2>3, <2>5
       DEF KernelInv, OwnRules, KernelInStep, EntryHasRule, ShutdownLeavesNothing, NoEntries
<1> QED
  BY <1>3, <1>4

LEMMA KernelInit == Init => KernelInv
<1> SUFFICES ASSUME Init PROVE KernelInv
  OBVIOUS
<1>1. /\ EntriesOK /\ mode = "down" /\ allowedIPs = NoEntries /\ faults = {}
      /\ kernel \in {NoChain, LeftChain}
      /\ ~SuffixAccepted => kernel = NoChain
  BY EntriesInit DEF Init
<1>2. kernel \in Kernels
  BY <1>1, ChainsTyped
<1>3. OwnRules(kernel)
  <2>1. OwnRules(NoChain)
    BY DEF OwnRules, NoChain
  <2>2. LeftChain.exists
    BY DEF LeftChain, NoChain
  <2> QED
    BY <1>1, <2>1, <2>2 DEF OwnRules
<1>4. TypeOK
  BY <1>1, <1>2, TypeUnfolded
<1> QED
  BY <1>1, <1>3, <1>4
     DEF KernelInv, NeverFilters, KernelInStep, EntryHasRule, ShutdownLeavesNothing

LEMMA KernelStep == KernelInv /\ [Next]_vars => KernelInv'
<1> SUFFICES ASSUME KernelInv, [Next]_vars PROVE KernelInv'
  OBVIOUS
<1>1. EntriesOK'
  BY EntriesStep, TypeUnfolded DEF KernelInv
<1>2. CASE Start \/ CrashInSetup
  BY <1>1, <1>2, StartKernel
<1>3. CASE \E ip \in IPs : Operation(ip)
  <2>1. PICK ip \in IPs : Operation(ip)
    BY <1>3
  <2>2. CASE \E ttl \in TTLs : AllowIPWithTTL(ip, ttl)
    BY <1>1, <2>2, AllowKernel
  <2>3. CASE AllowIP(ip)
    BY <1>1, <2>3, AllowKernel DEF AllowIP
  <2>4. CASE RemoveIP(ip)
    BY <1>1, <2>4, RemoveKernel
  <2> QED
    BY <2>1, <2>2, <2>3, <2>4 DEF Operation
<1>4. CASE CleanupExpired
  BY <1>1, <1>4, ExpireKernel
<1>5. CASE Cleanup \/ Exit \/ Crash \/ CrashInCleanup
  BY <1>1, <1>5, EndKernel
<1>6. CASE TimePasses \/ UNCHANGED vars
  <2>1. UNCHANGED <<allowedIPs, kernel, mode, faults>>
    BY <1>6 DEF TimePasses, vars
  <2>2. TypeOK'
    <3>1. /\ kernel \in Kernels /\ mode \in {"down", "filtering", "dnsOnly", "closing"}
          /\ faults \in SUBSET (IPs \cup {Chain})
      BY TypeUnfolded DEF KernelInv
    <3> QED
      BY ONLY <1>1, <2>1, <3>1 DEF TypeOK, EntriesOK, Kernels
  <2>3. OwnRules(kernel)' /\ ShutdownLeavesNothing'
    BY <2>1 DEF KernelInv, OwnRules, ShutdownLeavesNothing, NoChain
  <2>4. KernelInStep' /\ EntryHasRule'
    BY <2>1 DEF KernelInv, KernelInStep, EntryHasRule, Exists
  <2>5. /\ mode' = "down" => allowedIPs' = NoEntries
        /\ ~SuffixAccepted => NeverFilters'
    BY <2>1 DEF KernelInv, NeverFilters, NoEntries, NoChain
  <2> QED
    BY <2>2, <2>3, <2>4, <2>5 DEF KernelInv, NoEntries
<1> QED
  BY <1>2, <1>3, <1>4, <1>5, <1>6 DEF Next

LEMMA KernelInvariant == Spec => []KernelInv
BY KernelInit, KernelStep, PTL DEF Spec

----
(* The manager's map, the clock and the kernel's rules keep their types,     *)
(* whatever iptables takes and whether its commands fail or not: OUTPUT      *)
(* never jumps to the chain twice and the chain never ends in two DROPs,     *)
(* though Setup may run again and again on what crashed processes left.      *)
THEOREM KernelTyped == Spec => []TypeOK
<1>1. KernelInv => TypeOK
  BY DEF KernelInv
<1> QED
  BY <1>1, KernelInvariant, PTL

(* A process that filters never loses the default DROP or the jump from      *)
(* OUTPUT, and every address has one ACCEPT rule if it has an entry and none *)
(* if not, after any number of grants, renewals, removals, expiries, crashes *)
(* and restarts, unless a command for this very address has failed.          *)
THEOREM KernelStaysInStep == Spec => []KernelInStep
<1>1. KernelInv => KernelInStep
  BY DEF KernelInv
<1> QED
  BY <1>1, KernelInvariant, PTL

(* An address with an entry has a rule, in DNS-only mode too, unless one of  *)
(* its own commands has failed.                                              *)
THEOREM EntriesHaveRules == Spec => []EntryHasRule
<1>1. KernelInv => EntryHasRule
  BY DEF KernelInv
<1> QED
  BY <1>1, KernelInvariant, PTL

(* Cleanup leaves no trace of the chain, with the rules of crashed processes *)
(* in it and whatever failed before, unless a command on the chain itself    *)
(* fails then; and the operations of DNS handlers that still run until the   *)
(* exit bring none back.                                                     *)
THEOREM StopLeavesNothing == Spec => []ShutdownLeavesNothing
<1>1. KernelInv => ShutdownLeavesNothing
  BY DEF KernelInv
<1> QED
  BY <1>1, KernelInvariant, PTL

(* runCommand has no shell, so that iptables gets "2>/dev/null", "||" and    *)
(* "true" as arguments.  One that refuses them makes Setup fail at its first *)
(* command (main.go:260), in every process: nothing ever filters, there is   *)
(* no chain, and no address is ever allowed.                                 *)
THEOREM RefusedNeverFilters ==
  ASSUME ~SuffixAccepted
  PROVE  Spec => []NeverFilters
<1>1. KernelInv => NeverFilters
  BY DEF KernelInv
<1> QED
  BY <1>1, KernelInvariant, PTL

====
