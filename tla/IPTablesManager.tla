---- MODULE IPTablesManager ----
(***************************************************************************)
(* IPTablesManager and the kernel rules it keeps: the chain                *)
(* EGRESS_WHITELIST with one ACCEPT rule per allowed address and a final   *)
(* DROP, and the rule of OUTPUT that jumps to the chain.                   *)
(*                                                                         *)
(* The manager runs iptables once per change and remembers, apart from the *)
(* kernel, which addresses it allowed and until when.  The process may     *)
(* crash between any two commands; the rules outlive it, its map does not. *)
(*                                                                         *)
(* Every operation holds m.mu from its first to its last line, so an       *)
(* operation is one step.                                                  *)
(***************************************************************************)
EXTENDS Environment

CONSTANTS
    TTLs,               \* the TTLs that callers pass
    DefaultTTL,         \* the TTL of AllowIP, 300 seconds
    MaxRules,           \* bound: ACCEPT rules for one address
    SuffixAccepted,     \* does iptables drop the arguments "2>/dev/null || true" ?
    CommandsMayFail,    \* may a command that could be carried out fail ?
    Chain               \* the chain itself, next to the addresses, in faults

ASSUME IPTablesAssumption ==
    /\ TTLs \subseteq Nat
    /\ DefaultTTL \in Nat
    /\ MaxRules \in Nat
    /\ SuffixAccepted \in BOOLEAN
    /\ CommandsMayFail \in BOOLEAN
    /\ Chain \notin IPs

VARIABLES
    allowedIPs,     \* the entries' ExpiresAt; NoEntry for an address without one
    kernel,         \* the packet filter's rules
    mode,           \* the process: "down", "filtering", "dnsOnly" or "closing"
    faults          \* history: what a command of this process has failed for

vars == <<now, allowedIPs, kernel, mode, faults>>

NoEntry == -1
Exists(ip) == allowedIPs[ip] # NoEntry
Valid(ip) == Exists(ip) /\ now < allowedIPs[ip]
Expired(ip) == Exists(ip) /\ now > allowedIPs[ip]
NoEntries == [ip \in IPs |-> NoEntry]

Alive == mode # "down"

----
(* The iptables program.  A command yields one of a set of outcomes: it is  *)
(* carried out and exits with 0, or it changes nothing and exits with an    *)
(* error, a fault if it could have been carried out (another program holds  *)
(* the lock of the tables).  runCommand splits the line at blanks and       *)
(* starts iptables itself, no shell sees the suffix "2>/dev/null || true":  *)
(* it reaches iptables as three more arguments and masks no failure.        *)

NoChain == [exists |-> FALSE, accepts |-> [ip \in IPs |-> 0], drops |-> 0, jumps |-> 0]

\* The chain as an earlier process left it, hooked into OUTPUT.  Where iptables refuses
\* the suffix no process could have created it.
LeftChain == [NoChain EXCEPT !.exists = TRUE, !.drops = 1, !.jumps = 1]

Outcome(ok, k) == [ok |-> ok, fault |-> FALSE, kernel |-> k]
Fault(k) == [ok |-> FALSE, fault |-> TRUE, kernel |-> k]

Command(before, applicable, after) ==
    {IF applicable THEN Outcome(TRUE, after) ELSE Outcome(FALSE, before)}
        \cup
    (IF applicable /\ CommandsMayFail THEN {Fault(before)} ELSE {})

Suffixed(before, applicable, after) ==
    IF SuffixAccepted THEN Command(before, applicable, after) ELSE {Outcome(FALSE, before)}

NewChain(k)    == Suffixed(k, ~k.exists, [NoChain EXCEPT !.exists = TRUE])
FlushChain(k)  == Command(k, k.exists, [k EXCEPT !.accepts = NoChain.accepts, !.drops = 0])
InsertJump(k)  == Command(k, k.exists, [k EXCEPT !.jumps = @ + 1])
AppendDrop(k)  == Command(k, k.exists, [k EXCEPT !.drops = @ + 1])

InsertAccept(k, ip) == Command(k, k.exists, [k EXCEPT !.accepts[ip] = @ + 1])
DeleteAccept(k, ip) == Suffixed(k, k.accepts[ip] > 0, [k EXCEPT !.accepts[ip] = @ - 1])

DeleteJump(k)      == Suffixed(k, k.jumps > 0, [k EXCEPT !.jumps = @ - 1])
FlushForCleanup(k) == Suffixed(k, k.exists, [k EXCEPT !.accepts = NoChain.accepts, !.drops = 0])
DeleteChain(k) ==
    Suffixed(k, k.exists /\ k.jumps = 0 /\ k.drops = 0 /\ k.accepts = NoChain.accepts, NoChain)

\* The next command of an operation that stops at the first failure, and of one that
\* ignores failures.
Then(outcomes, Next(_)) ==
    UNION {IF o.ok THEN Next(o.kernel) ELSE {o} : o \in outcomes}
Anyway(outcomes, Next(_)) ==
    UNION {{[ok |-> n.ok, fault |-> o.fault \/ n.fault, kernel |-> n.kernel] :
                n \in Next(o.kernel)} : o \in outcomes}

Noted(fault, what) == IF fault THEN faults \cup {what} ELSE faults

----
(* Setup: create the chain, flush it, hook it into OUTPUT, end it with DROP. *)
\* Variant: the chain's creation may fail, as the comment of the code intends.
CreatedOrThere(k) == {Outcome(TRUE, o.kernel) : o \in NewChain(k)}

Created(k) == NewChain(k)
Flushed(k) == Then(Created(k), FlushChain)
Hooked(k)  == Then(Flushed(k), InsertJump)

SetupOutcomes(k) == Then(Hooked(k), AppendDrop)

\* main: NewIPTablesManager, then Setup.  When Setup fails main goes on "in DNS-only
\* mode (no traffic filtering)", with the same manager.
Start ==
    /\ mode = "down"
    /\ \E o \in SetupOutcomes(kernel) :
          /\ kernel' = o.kernel
          /\ mode' = IF o.ok THEN "filtering" ELSE "dnsOnly"
    /\ UNCHANGED <<now, allowedIPs, faults>>

\* Killed between two of Setup's commands.
CrashInSetup ==
    /\ mode = "down"
    /\ \E o \in Created(kernel) \cup Flushed(kernel) \cup Hooked(kernel) : kernel' = o.kernel
    /\ UNCHANGED <<now, allowedIPs, mode, faults>>

----
\* Variant: a shorter TTL replaces the expiry of a valid entry.
KeepShorter(ip, ttl) ==
    /\ Valid(ip)
    /\ now + ttl <= allowedIPs[ip]
    /\ allowedIPs' = [allowedIPs EXCEPT ![ip] = now + ttl]
    /\ UNCHANGED <<kernel, faults>>

\* AllowIPWithTTL for an address that is valid already and stays so: nothing to do.
Keep(ip, ttl) ==
    /\ Valid(ip)
    /\ now + ttl <= allowedIPs[ip]
    /\ UNCHANGED <<allowedIPs, kernel, faults>>

\* The rule of an entry that was there is removed, whether that works or not.
DeleteOld(k, ip) == IF Exists(ip) THEN DeleteAccept(k, ip) ELSE {Outcome(TRUE, k)}

\* Variant: the TTL is added to the old expiry.
RenewFromOldExpiry(ip, ttl) ==
    /\ ~(Valid(ip) /\ now + ttl <= allowedIPs[ip])
    /\ kernel.accepts[ip] < MaxRules
    /\ \E d \in DeleteOld(kernel, ip) : \E i \in InsertAccept(d.kernel, ip) :
          /\ kernel' = i.kernel
          /\ allowedIPs' = IF i.ok THEN [allowedIPs EXCEPT ![ip] = @ + ttl] ELSE allowedIPs
          /\ faults' = Noted(d.fault \/ i.fault, ip)

\* AllowIPWithTTL for every other address.  When the insertion fails the entry stays
\* as it was, with its rule possibly gone.
Renew(ip, ttl) ==
    /\ ~(Valid(ip) /\ now + ttl <= allowedIPs[ip])
    /\ kernel.accepts[ip] < MaxRules
    /\ \E d \in DeleteOld(kernel, ip) : \E i \in InsertAccept(d.kernel, ip) :
          /\ kernel' = i.kernel
          /\ allowedIPs' = IF i.ok THEN [allowedIPs EXCEPT ![ip] = now + ttl] ELSE allowedIPs
          /\ faults' = Noted(d.fault \/ i.fault, ip)

AllowIPWithTTL(ip, ttl) ==
    /\ Alive
    /\ Keep(ip, ttl) \/ Renew(ip, ttl)
    /\ UNCHANGED <<now, mode>>

AllowIP(ip) == AllowIPWithTTL(ip, DefaultTTL)

\* Variant: the rule goes and the entry stays.
RemoveRuleOnly(ip) ==
    /\ Alive
    /\ Exists(ip)
    /\ \E o \in DeleteAccept(kernel, ip) : kernel' = o.kernel
    /\ UNCHANGED <<now, allowedIPs, mode, faults>>

\* RemoveIP and CleanupExpired forget the entry whether the rule goes or stays.
RemoveIP(ip) ==
    /\ Alive
    /\ Exists(ip)
    /\ allowedIPs' = [allowedIPs EXCEPT ![ip] = NoEntry]
    /\ \E o \in DeleteAccept(kernel, ip) :
          kernel' = o.kernel /\ faults' = Noted(o.fault, ip)
    /\ UNCHANGED <<now, mode>>

\* The kernels that one -D for every address of S can lead to, whatever its exit code.
DeletedAll(k, S) ==
    {[k EXCEPT !.accepts = left] : left \in
        {counts \in [IPs -> 0..MaxRules] : \A ip \in IPs :
            counts[ip] \in IF ip \in S THEN {o.kernel.accepts[ip] : o \in DeleteAccept(k, ip)}
                                       ELSE {k.accepts[ip]}}}

ExpiredIPs == {ip \in IPs : Expired(ip)}

\* Variant: the entries go and their rules stay.
ForgetOnly ==
    /\ Alive
    /\ allowedIPs' = [ip \in IPs |-> IF ip \in ExpiredIPs THEN NoEntry ELSE allowedIPs[ip]]
    /\ UNCHANGED <<now, kernel, mode, faults>>

CleanupExpired ==
    /\ Alive
    /\ kernel' \in DeletedAll(kernel, ExpiredIPs)
    /\ faults' = faults \cup {ip \in ExpiredIPs : kernel'.accepts[ip] = kernel.accepts[ip]}
    /\ allowedIPs' = [ip \in IPs |-> IF ip \in ExpiredIPs THEN NoEntry ELSE allowedIPs[ip]]
    /\ UNCHANGED <<now, mode>>

----
(* Shutdown: main's deferred Cleanup, then the process ends.  Cleanup does   *)
(* not touch allowedIPs, and DNS handlers still run until the end.           *)
RulesDeleted(k) == {Outcome(TRUE, l) : l \in DeletedAll(k, {ip \in IPs : Exists(ip)})}

\* Variant: the chain stays hooked into OUTPUT.
StillHooked(k)  == RulesDeleted(k)

Unhooked(k)     == Anyway(RulesDeleted(k), DeleteJump)
Emptied(k)      == Anyway(Unhooked(k), FlushForCleanup)

CleanupOutcomes(k) == Anyway(Emptied(k), DeleteChain)

Cleanup ==
    /\ mode \in {"filtering", "dnsOnly"}
    /\ \E o \in CleanupOutcomes(kernel) :
          kernel' = o.kernel /\ faults' = Noted(o.fault, Chain)
    /\ mode' = "closing"
    /\ UNCHANGED <<now, allowedIPs>>

\* The process ends: after Cleanup, by a crash, or by a crash within Cleanup.
Exit ==
    /\ mode = "closing"
    /\ mode' = "down"
    /\ allowedIPs' = NoEntries /\ faults' = {}
    /\ UNCHANGED <<now, kernel>>

Crash ==
    /\ mode \in {"filtering", "dnsOnly"}
    /\ mode' = "down"
    /\ allowedIPs' = NoEntries /\ faults' = {}
    /\ UNCHANGED <<now, kernel>>

CrashInCleanup ==
    /\ mode \in {"filtering", "dnsOnly"}
    /\ \E o \in RulesDeleted(kernel) \cup Unhooked(kernel) \cup Emptied(kernel) :
          kernel' = o.kernel
    /\ mode' = "down"
    /\ allowedIPs' = NoEntries /\ faults' = {}
    /\ UNCHANGED now

----
Init ==
    /\ ClockInit
    /\ allowedIPs = NoEntries
    /\ kernel \in {NoChain} \cup (IF SuffixAccepted THEN {LeftChain} ELSE {})
    /\ mode = "down"
    /\ faults = {}

Operation(ip) ==
    \/ \E ttl \in TTLs : AllowIPWithTTL(ip, ttl)
    \/ AllowIP(ip)
    \/ RemoveIP(ip)

TimePasses == Tick /\ UNCHANGED <<allowedIPs, kernel, mode, faults>>

Next ==
    \/ Start \/ CrashInSetup
    \/ \E ip \in IPs : Operation(ip)
    \/ CleanupExpired
    \/ Cleanup \/ Exit \/ Crash \/ CrashInCleanup
    \/ TimePasses

Spec == Init /\ [][Next]_vars

(* Fairness: cleanupLoop's ticker keeps firing while the process lives.      *)
FairSpec == Spec /\ WF_vars(CleanupExpired)

----
TypeOK ==
    /\ now \in 0..MaxTime
    /\ allowedIPs \in [IPs -> Nat \cup {NoEntry}]
    /\ kernel \in [exists : BOOLEAN, accepts : [IPs -> 0..MaxRules], drops : 0..1, jumps : 0..1]
    /\ mode \in {"down", "filtering", "dnsOnly", "closing"}
    /\ faults \subseteq IPs \cup {Chain}

(* While the process filters, nothing takes the default DROP or the jump     *)
(* from OUTPUT away, whatever fails, and the kernel's rules are what the map *)
(* says: one ACCEPT for every entry, none for any other address.  This is    *)
(* what AllowIPWithTTL, RemoveIP and CleanupExpired keep up with separate    *)
(* commands whose failures they mostly ignore.  A command that fails puts    *)
(* its own address out of step, and no other one.                            *)
KernelInStep ==
    mode = "filtering" =>
        /\ kernel.exists /\ kernel.drops = 1 /\ kernel.jumps = 1
        /\ \A ip \in IPs \ faults : kernel.accepts[ip] = IF Exists(ip) THEN 1 ELSE 0

(* An address with an entry has a rule, in DNS-only mode too, where the      *)
(* chain of a crashed process is still hooked into OUTPUT and the manager    *)
(* inserts into it: the address that a reply named can be reached.  It may   *)
(* not where a command of its own failed: an extension deletes the rule,     *)
(* fails to insert the new one and keeps the entry (main.go:323-327).        *)
EntryHasRule ==
    mode \in {"filtering", "dnsOnly"} =>
        \A ip \in IPs \ faults : Exists(ip) => kernel.accepts[ip] > 0

(* A graceful stop leaves the host as it was before the program first ran:   *)
(* Cleanup takes the whole chain away, the rules of earlier processes that   *)
(* crashed and rules whose own deletion failed included, so that the next    *)
(* Setup can create it.  Only a failure of the commands on the chain itself  *)
(* leaves something.                                                         *)
ShutdownLeavesNothing == mode = "closing" /\ Chain \notin faults => kernel = NoChain

(* A grant is never cut short: an entry that is valid loses time only when   *)
(* RemoveIP takes it or the process ends.                                    *)
GrantNeverShortened ==
    [][\A ip \in IPs : Valid(ip) =>
          \/ allowedIPs'[ip] >= allowedIPs[ip]
          \/ RemoveIP(ip)
          \/ mode' = "down"]_vars

(* A process that filters does not keep a rule whose entry has expired: the  *)
(* rule goes, or a new grant makes the entry valid again, or the process     *)
(* stops filtering, or a command for the address fails.                      *)
RuleOutlivesEntry(ip) == mode = "filtering" /\ kernel.accepts[ip] > 0 /\ ~Valid(ip)
                            /\ now # allowedIPs[ip]
ExpiredRuleGoes == \A ip \in IPs :
    RuleOutlivesEntry(ip) /\ ip \notin faults ~> ~RuleOutlivesEntry(ip) \/ ip \in faults

(* main.go:258 on "iptables -N": "ignore error if it already exists".  A     *)
(* process that starts where the chain exists filters all the same.          *)
SetupToleratesChain ==
    [][mode = "down" /\ mode' # "down" /\ kernel.exists => mode' = "filtering"]_vars

(* The map behaves as the contract of the interface says, whatever iptables  *)
(* does: a failed insertion changes no entry, and the end of the process is  *)
(* the contract's Cleanup.                                                   *)
Contract == INSTANCE MockFirewallManager
ImplementsContract == Contract!ManagerSpec

====
