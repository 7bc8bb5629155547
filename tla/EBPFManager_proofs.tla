------------------------- MODULE EBPFManager_proofs -------------------------
(***************************************************************************)
(* Theorems about EBPFManager, for any addresses, byte order, TTLs,        *)
(* capacities and time of boot.                                            *)
(***************************************************************************)
EXTENDS EBPFManager, TLAPS

USE FilterAssumption, ManagerAssumption DEF Loads, Maps, Learners, XDPPrograms

(* Where main is tells what the manager and the kernel have.  A program on *)
(* the interface is one whose link the manager knows, and until main has   *)
(* finished with Setup it is of the first load, so that the maps of the    *)
(* second one are empty.                                                   *)
Progress ==
    /\ mode = "start" => mgr = NewManager /\ attached = NoProgram
    /\ mode = "again" => mgr.maps = <<1, "conn">> /\ mgr.collection = 1
    /\ mode = "again" /\ attached # NoProgram => attached.load = 1
    /\ mode \in {"start", "again"} => call = NoCall /\ promised = [ip \in IPs |-> 0]
    /\ mode = "iptables" => call = NoCall /\ promised = [ip \in IPs |-> 0]
    /\ mode \in {"start", "again", "serving"} => freed = {} /\ ~mgr.closed
    /\ mode = "stopped" => mgr.closed
    /\ attached # NoProgram => mode \in {"again", "serving"} /\ attached.load \in mgr.links
    /\ mgr.maps = NoMap => promised = [ip \in IPs |-> 0]

(* The maps that the manager writes to are neither those that Cleanup      *)
(* closes nor those that the DNS program on the interface writes to.       *)
MapsApart ==
    /\ mode \in {"again", "serving"} => mgr.maps # <<mgr.collection, "dns">>
    /\ attached # NoProgram => mgr.maps # <<attached.load, "dns">>
    /\ call # NoCall => call.map = mgr.maps /\ call.expiry = call.until

LoadsEmpty ==
    /\ mode = "start" => \A m \in Maps, key \in IPs : ~Has(m, key)
    /\ mode = "again" => \A name \in {"dns", "conn"}, key \in IPs : ~Has(<<2, name>>, key)

(* The entry of a grant that lasts is good for long enough, and the filter *)
(* is not about to delete it.                                              *)
GrantsHeld == \A ip \in IPs : promised[ip] > Now =>
    /\ Has(mgr.maps, ip)
    /\ whitelist[mgr.maps][ip] >= promised[ip]
    /\ doomed # <<mgr.maps, ip>>

EBPFInv ==
    /\ TypeOK
    /\ Progress
    /\ MapStaysOpen
    /\ MapsApart
    /\ LoadsEmpty
    /\ LearnedWithinBounds
    /\ GrantsHeld

USE DEF TypeOK, FilterTypeOK, ManagerState

LEMMA EBPFInit == Init => EBPFInv
<1> SUFFICES ASSUME Init PROVE EBPFInv
  OBVIOUS
<1> USE DEF Init, FilterInit, NewManager
<1>1. TypeOK
  OBVIOUS
<1>2. Progress /\ MapStaysOpen /\ MapsApart
  BY DEF Progress, MapStaysOpen, MapsApart
<1>3. LoadsEmpty /\ LearnedWithinBounds
  BY DEF LoadsEmpty, LearnedWithinBounds, Has, Attached, ReadMap
<1>4. GrantsHeld
  BY DEF GrantsHeld, Now
<1> QED
  BY <1>1, <1>2, <1>3, <1>4 DEF EBPFInv

LEMMA ClampedBounds == \A ttl \in AnswerTTLs : Clamped(ttl) \in Nat /\ Clamped(ttl) <= MostTTL
<1> TAKE ttl \in AnswerTTLs
<1>1. ttl \in Nat /\ LeastTTL \in Nat /\ MostTTL \in Nat /\ LeastTTL <= MostTTL
  OBVIOUS
<1> QED
  BY ONLY <1>1 DEF Clamped

(* What bpf_map_update_elem and bpf_map_delete_elem do to the maps.        *)
LEMMA MapWrite ==
  ASSUME TypeOK, NEW m \in Maps, NEW k \in IPs, NEW e \in Nat \cup {NoEntry},
         whitelist' = [whitelist EXCEPT ![m][k] = e]
  PROVE  /\ whitelist' \in [Maps -> [IPs -> Nat \cup {NoEntry}]]
         /\ \A n \in Maps, key \in IPs :
               whitelist'[n][key] = IF n = m /\ key = k THEN e ELSE whitelist[n][key]
<1>1. whitelist \in [Maps -> [IPs -> Nat \cup {NoEntry}]]
  OBVIOUS
<1> HIDE DEF Maps, TypeOK
<1>2. \A n \in Maps : whitelist'[n] = IF n = m THEN [whitelist[m] EXCEPT ![k] = e]
                                               ELSE whitelist[n]
  BY <1>1
<1>3. [whitelist[m] EXCEPT ![k] = e] \in [IPs -> Nat \cup {NoEntry}]
  BY <1>1
<1>4. whitelist' \in [Maps -> [IPs -> Nat \cup {NoEntry}]]
  BY <1>1, <1>3
<1>5. ASSUME NEW n \in Maps, NEW key \in IPs
      PROVE  whitelist'[n][key] = IF n = m /\ key = k THEN e ELSE whitelist[n][key]
  BY <1>1, <1>2
<1> QED
  BY ONLY <1>4, <1>5

(* The map that the attached program works on, and the packets' addresses. *)
LEMMA ReadMapTyped ==
  ASSUME TypeOK, attached # NoProgram
  PROVE  /\ ReadMap \in Maps
         /\ Attached(Learners) => ReadMap = <<attached.load, "dns">>
BY DEF ReadMap, Attached

(* A filter that finds an entry expired has not found one that is promised. *)
LEMMA FilterStep == EBPFInv /\ xdp_conn_filter /\ UNCHANGED <<mode, mgr, freed, call, promised>>
                        => EBPFInv'
<1> SUFFICES ASSUME EBPFInv, xdp_conn_filter, UNCHANGED <<mode, mgr, freed, call, promised>>
             PROVE  EBPFInv'
  OBVIOUS
<1> USE DEF EBPFInv
<1>1. PICK p \in Packets : /\ Stale(ReadMap, Swapped[p.dst])
                           /\ doomed' = <<ReadMap, Swapped[p.dst]>>
  BY DEF xdp_conn_filter
<1>2. Swapped[p.dst] \in IPs /\ ReadMap \in Maps
  BY <1>1, ReadMapTyped DEF Packets, xdp_conn_filter, Attached
<1>3. UNCHANGED <<uptime, whitelist, servers, attached>>
  BY DEF xdp_conn_filter
<1>4. TypeOK' /\ Progress' /\ MapStaysOpen' /\ MapsApart'
  BY <1>1, <1>2, <1>3 DEF Progress, MapStaysOpen, MapsApart
<1>5. LoadsEmpty'
  BY <1>3 DEF LoadsEmpty, Has
<1>6. LearnedWithinBounds'
  BY <1>3 DEF LearnedWithinBounds, Has, Attached, ReadMap
<1>7. GrantsHeld'
  <2> SUFFICES ASSUME NEW ip \in IPs, promised[ip] > Now, doomed' = <<mgr.maps, ip>>
               PROVE  FALSE
    BY <1>3 DEF GrantsHeld, Now, Has
  <2>1. uptime > whitelist[mgr.maps][ip]
    BY <1>1 DEF Stale
  <2>2. whitelist[mgr.maps][ip] \in Nat /\ whitelist[mgr.maps][ip] >= promised[ip]
    BY <1>1, <1>2 DEF GrantsHeld, Has
  <2> QED
    BY <2>1, <2>2 DEF Now
<1> QED
  BY <1>4, <1>5, <1>6, <1>7

(* What the filter deletes is not promised.                                *)
LEMMA DeletionStep == EBPFInv /\ DeleteExpired /\ UNCHANGED <<mode, mgr, freed, call, promised>>
                          => EBPFInv'
<1> SUFFICES ASSUME EBPFInv, DeleteExpired, UNCHANGED <<mode, mgr, freed, call, promised>>
             PROVE  EBPFInv'
  OBVIOUS
<1> USE DEF EBPFInv
<1>1. PICK m \in Maps, k \in IPs : doomed = <<m, k>>
  BY DEF DeleteExpired
<1>2. /\ whitelist' \in [Maps -> [IPs -> Nat \cup {NoEntry}]]
      /\ \A n \in Maps, key \in IPs :
            whitelist'[n][key] = IF n = m /\ key = k THEN NoEntry ELSE whitelist[n][key]
  BY <1>1, MapWrite DEF DeleteExpired, Remove
<1>3. doomed' = NoKey /\ UNCHANGED <<uptime, servers, attached>>
  BY DEF DeleteExpired
<1>4. TypeOK' /\ Progress' /\ MapStaysOpen' /\ MapsApart'
  BY <1>2, <1>3 DEF Progress, MapStaysOpen, MapsApart
<1>5. LoadsEmpty'
  BY <1>2 DEF LoadsEmpty, Has
<1>6. LearnedWithinBounds'
  <2> SUFFICES ASSUME Attached(Learners)', NEW key \in IPs, Has(ReadMap, key)'
               PROVE  (whitelist[ReadMap][key] <= uptime + MostTTL)'
    BY DEF LearnedWithinBounds
  <2>1. Attached(Learners) /\ ReadMap' = ReadMap /\ ReadMap \in Maps
    BY <1>3, ReadMapTyped DEF Attached, ReadMap
  <2>2. whitelist'[ReadMap][key] = whitelist[ReadMap][key] /\ Has(ReadMap, key)
    BY <2>1, <1>2 DEF Has
  <2> QED
    BY <2>1, <2>2, <1>3 DEF LearnedWithinBounds
<1>7. GrantsHeld'
  <2> SUFFICES ASSUME NEW ip \in IPs, promised[ip] > Now
               PROVE  (/\ Has(mgr.maps, ip)
                       /\ whitelist[mgr.maps][ip] >= promised[ip]
                       /\ doomed # <<mgr.maps, ip>>)'
    BY <1>3 DEF GrantsHeld, Now
  <2>1. mgr.maps \in Maps
    BY DEF Progress, Now
  <2>2. whitelist'[mgr.maps][ip] = whitelist[mgr.maps][ip]
    BY <1>1, <1>2, <2>1 DEF GrantsHeld
  <2>3. doomed' # <<mgr.maps, ip>>
    BY <1>3, <2>1
  <2> QED
    BY <2>2, <2>3 DEF GrantsHeld, Has
<1> QED
  BY <1>4, <1>5, <1>6, <1>7

(* The DNS program writes within its bounds, and to no map of the manager. *)
LEMMA LearningStep == EBPFInv /\ dns_intercept /\ UNCHANGED <<mode, mgr, freed, call, promised>>
                          => EBPFInv'
<1> SUFFICES ASSUME EBPFInv, dns_intercept, UNCHANGED <<mode, mgr, freed, call, promised>>
             PROVE  EBPFInv'
  OBVIOUS
<1> USE DEF EBPFInv
<1>1. PICK ip \in IPs, ttl \in AnswerTTLs : Put(ReadMap, Swapped[ip], uptime + Clamped(ttl))
  BY DEF dns_intercept
<1> DEFINE k == Swapped[ip]
           e == uptime + Clamped(ttl)
<1>2. k \in IPs /\ e \in Nat /\ e <= uptime + MostTTL
  BY ClampedBounds
<1>3. UNCHANGED <<uptime, servers, attached, doomed>>
  BY DEF dns_intercept
<1>4. /\ ReadMap \in Maps /\ ReadMap = <<attached.load, "dns">>
      /\ attached # NoProgram /\ ReadMap # mgr.maps
  BY ReadMapTyped DEF dns_intercept, Attached, MapsApart
<1> HIDE DEF k, e
<1>5. /\ whitelist' \in [Maps -> [IPs -> Nat \cup {NoEntry}]]
      /\ \A n \in Maps, key \in IPs :
            whitelist'[n][key] = IF n = ReadMap /\ key = k THEN e ELSE whitelist[n][key]
  <2>1. whitelist' = [whitelist EXCEPT ![ReadMap][k] = e]
    BY <1>1 DEF Put, k, e
  <2>2. TypeOK /\ ReadMap \in Maps /\ k \in IPs /\ e \in Nat \cup {NoEntry}
    BY <1>2, <1>4
  <2> QED
    BY ONLY <2>1, <2>2, MapWrite
<1>6. TypeOK' /\ Progress' /\ MapStaysOpen' /\ MapsApart'
  BY <1>3, <1>5 DEF Progress, MapStaysOpen, MapsApart
<1>7. LoadsEmpty'
  <2>1. mode # "start" /\ (mode = "again" => ReadMap = <<1, "dns">>)
    BY ONLY EBPFInv, <1>4 DEF EBPFInv, Progress
  <2>2. ASSUME mode = "again", NEW name \in {"dns", "conn"}, NEW key \in IPs
        PROVE  whitelist'[<<2, name>>][key] = whitelist[<<2, name>>][key]
    <3> DEFINE m == <<2, name>>
    <3>1. m \in Maps /\ m # ReadMap
      BY <2>1, <2>2
    <3> HIDE DEF m
    <3>2. whitelist'[m][key] = whitelist[m][key]
      BY ONLY <3>1, <2>2, <1>5
    <3> QED
      BY <3>2 DEF m
  <2> QED
    BY <2>1, <2>2 DEF LoadsEmpty, Has
<1>8. LearnedWithinBounds'
  <2> SUFFICES ASSUME NEW key \in IPs, Has(ReadMap, key)'
               PROVE  (whitelist[ReadMap][key] <= uptime + MostTTL)'
    BY DEF LearnedWithinBounds
  <2>1. Attached(Learners) /\ ReadMap' = ReadMap
    BY <1>3 DEF Attached, ReadMap, dns_intercept
  <2>2. CASE key = k
    BY <2>1, <2>2, <1>2, <1>3, <1>4, <1>5
  <2>3. CASE key # k
    <3>1. whitelist'[ReadMap][key] = whitelist[ReadMap][key] /\ Has(ReadMap, key)
      BY ONLY <2>1, <2>3, <1>4, <1>5, Has(ReadMap, key)' DEF Has
    <3> QED
      BY <2>1, <3>1, <1>3 DEF LearnedWithinBounds
  <2> QED
    BY <2>2, <2>3
<1>9. GrantsHeld'
  <2> SUFFICES ASSUME NEW a \in IPs, promised[a] > Now
               PROVE  (/\ Has(mgr.maps, a)
                       /\ whitelist[mgr.maps][a] >= promised[a]
                       /\ doomed # <<mgr.maps, a>>)'
    BY <1>3 DEF GrantsHeld, Now
  <2>1. mgr.maps \in Maps
    BY DEF Progress, Now
  <2> QED
    BY <2>1, <1>3, <1>4, <1>5 DEF GrantsHeld, Has
<1> QED
  BY <1>6, <1>7, <1>8, <1>9

(* The clock, and the loss of the interface.                               *)
LEMMA KernelStep == EBPFInv /\ Kernel => EBPFInv'
<1> SUFFICES ASSUME EBPFInv, FilterNext, UNCHANGED <<mode, mgr, freed, call, promised>>
             PROVE  EBPFInv'
  BY DEF Kernel
<1> USE DEF EBPFInv
<1>1. ASSUME TimePasses PROVE EBPFInv'
  <2>1. uptime' = uptime + 1 /\ uptime' \in 0..MaxTime
        /\ UNCHANGED <<whitelist, servers, attached, doomed>>
    BY <1>1 DEF TimePasses
  <2>2. TypeOK' /\ Progress' /\ MapStaysOpen' /\ MapsApart'
    BY <2>1 DEF Progress, MapStaysOpen, MapsApart
  <2>3. LoadsEmpty'
    BY <2>1 DEF LoadsEmpty, Has
  <2>4. LearnedWithinBounds'
    <3> SUFFICES ASSUME Attached(Learners), NEW key \in IPs, Has(ReadMap, key)
                 PROVE  whitelist[ReadMap][key] <= uptime' + MostTTL
      BY <2>1 DEF LearnedWithinBounds, Attached, Has, ReadMap
    <3>1. whitelist[ReadMap][key] \in Nat
      BY ReadMapTyped DEF Attached, Has
    <3> QED
      BY <2>1, <3>1 DEF LearnedWithinBounds
  <2>5. GrantsHeld'
    BY <2>1 DEF GrantsHeld, Has, Now
  <2> QED
    BY <2>2, <2>3, <2>4, <2>5
<1>2. ASSUME InterfaceReplaced PROVE EBPFInv'
  <2>1. attached' = NoProgram /\ UNCHANGED <<uptime, whitelist, servers, doomed>>
    BY <1>2 DEF InterfaceReplaced
  <2>2. TypeOK' /\ Progress' /\ MapStaysOpen' /\ MapsApart'
    BY <2>1 DEF Progress, MapStaysOpen, MapsApart
  <2>3. LoadsEmpty' /\ LearnedWithinBounds'
    BY <2>1 DEF LoadsEmpty, LearnedWithinBounds, Has, Attached
  <2>4. GrantsHeld'
    BY <2>1 DEF GrantsHeld, Has, Now
  <2> QED
    BY <2>2, <2>3, <2>4
<1> QED
  BY <1>1, <1>2, FilterStep, DeletionStep, LearningStep DEF FilterNext

(* What an attempt to set up leaves of the manager, whichever way it goes. *)
LEMMA SetupTyped ==
  ASSUME TypeOK, NEW n \in Loads
  PROVE  /\ Loaded(n) \in ManagerState
         /\ FailedSetups(n) \subseteq ManagerState
         /\ \A m \in FailedSetups(n) \cup {Loaded(n)} :
               m.closed = mgr.closed /\ m.links = mgr.links
         /\ \A m \in FailedSetups(n) : \/ m = mgr
                                       \/ m.maps = <<n, "dns">> /\ m.collection = mgr.collection
                                       \/ m = Loaded(n)
         /\ Loaded(n).maps = <<n, "conn">> /\ Loaded(n).collection = n
<1> DEFINE dns == [mgr EXCEPT !.maps = <<n, "dns">>]
<1>1. mgr \in ManagerState
  OBVIOUS
<1>2. /\ Loaded(n) \in ManagerState
      /\ Loaded(n).closed = mgr.closed /\ Loaded(n).links = mgr.links
      /\ Loaded(n).maps = <<n, "conn">> /\ Loaded(n).collection = n
  BY <1>1 DEF Loaded
<1>3. /\ dns \in ManagerState /\ dns.closed = mgr.closed /\ dns.links = mgr.links
      /\ dns.maps = <<n, "dns">> /\ dns.collection = mgr.collection
  BY <1>1
<1>4. FailedSetups(n) = {mgr, dns, Loaded(n)}
  BY DEF FailedSetups
<1> HIDE DEF dns, ManagerState
<1> QED
  BY ONLY <1>1, <1>2, <1>3, <1>4

(* What Cleanup leaves of a manager.                                       *)
LEMMA ClosedTyped ==
  ASSUME TypeOK, NEW m \in ManagerState, Closed(m)
  PROVE  /\ mgr' \in ManagerState
         /\ mgr'.maps = m.maps /\ mgr'.closed = TRUE /\ mgr'.collection = 0 /\ mgr'.links = {}
         /\ freed' \subseteq Maps
         /\ freed' = freed \cup {mp \in Maps : mp = <<m.collection, "dns">>}
BY DEF Closed

(* A program that Setup attaches comes with a link that the manager keeps. *)
LEMMA SucceedsTyped ==
  ASSUME TypeOK, NEW n \in Loads, SetupSucceeds(n)
  PROVE  /\ mgr' \in ManagerState
         /\ mgr'.maps = <<n, "conn">> /\ mgr'.collection = n /\ mgr'.closed = mgr.closed
         /\ n \in mgr'.links
         /\ attached = NoProgram
         /\ attached'.prog \in XDPPrograms /\ attached'.load = n
         /\ attached' \in [prog : XDPPrograms, load : Loads]
         /\ servers' \in [Maps -> SUBSET IPs]
<1>1. /\ mgr' \in ManagerState
      /\ mgr'.maps = <<n, "conn">> /\ mgr'.collection = n /\ mgr'.closed = mgr.closed
      /\ n \in mgr'.links
  BY SetupTyped DEF SetupSucceeds, Loaded
<1>2. /\ attached = NoProgram
      /\ attached'.prog \in XDPPrograms /\ attached'.load = n
      /\ attached' \in [prog : XDPPrograms, load : Loads]
  BY DEF SetupSucceeds, Attachable
<1>3. PICK s \in SUBSET DNSServers : servers' = [servers EXCEPT ![<<n, "conn">>] = s]
  BY DEF SetupSucceeds
<1>4. servers' \in [Maps -> SUBSET IPs]
  BY <1>3
<1> QED
  BY <1>1, <1>2, <1>4

(* main gives up on eBPF, with a manager that it has never used or that it *)
(* cleans up.                                                              *)
LEMMA GiveUpStep == EBPFInv /\ (FallBack \/ FirstSetupFails) => EBPFInv'
<1> SUFFICES ASSUME EBPFInv, FallBack \/ FirstSetupFails PROVE EBPFInv'
  OBVIOUS
<1> USE DEF EBPFInv
<1>1. /\ mode = "start" /\ mode' = "iptables" /\ attached = NoProgram /\ attached' = NoProgram
      /\ UNCHANGED <<uptime, whitelist, doomed, servers, call, promised>>
  <2>1. CASE FallBack
    BY <2>1 DEF FallBack, Progress, filter
  <2>2. CASE FirstSetupFails
    <3>1. mode = "start" => attached = NoProgram
      BY DEF Progress
    <3> QED
      BY <2>2, <3>1 DEF FirstSetupFails, Closed
  <2> QED
    BY <2>1, <2>2
<1>2. mgr' \in ManagerState /\ freed' \subseteq Maps
  <2>1. CASE FallBack
    BY <2>1 DEF FallBack
  <2>2. CASE FirstSetupFails
    <3>1. PICK m \in FailedSetups(1) : Closed(m)
      BY <2>2 DEF FirstSetupFails
    <3>2. TypeOK /\ 1 \in Loads /\ FailedSetups(1) \subseteq ManagerState
      BY SetupTyped
    <3> QED
      BY ONLY <3>1, <3>2, ClosedTyped
  <2> QED
    BY <2>1, <2>2
<1>3. call = NoCall /\ promised = [ip \in IPs |-> 0]
  BY <1>1 DEF Progress
<1>4. TypeOK' /\ Progress' /\ MapStaysOpen' /\ MapsApart' /\ LoadsEmpty'
  BY <1>1, <1>2, <1>3 DEF Progress, MapStaysOpen, MapsApart, LoadsEmpty
<1>5. LearnedWithinBounds' /\ GrantsHeld'
  BY <1>1, <1>3 DEF LearnedWithinBounds, Attached, GrantsHeld, Now
<1> QED
  BY <1>4, <1>5

(* The first Setup finds every map empty.                                  *)
LEMMA FirstSetupStep == EBPFInv /\ FirstSetup => EBPFInv'
<1> SUFFICES ASSUME EBPFInv, FirstSetup PROVE EBPFInv'
  OBVIOUS
<1> USE DEF EBPFInv
<1>1. /\ mode = "start" /\ mode' = "again"
      /\ UNCHANGED <<uptime, whitelist, doomed, freed, call, promised>>
      /\ SetupSucceeds(1)
  BY DEF FirstSetup
<1>2. /\ mgr' \in ManagerState
      /\ mgr'.maps = <<1, "conn">> /\ mgr'.collection = 1 /\ mgr'.closed = mgr.closed
      /\ 1 \in mgr'.links
      /\ attached'.prog \in XDPPrograms /\ attached'.load = 1
      /\ attached' \in [prog : XDPPrograms, load : Loads]
      /\ servers' \in [Maps -> SUBSET IPs]
  BY <1>1, SucceedsTyped
<1>3. call = NoCall /\ promised = [ip \in IPs |-> 0] /\ freed = {} /\ ~mgr.closed
  BY <1>1 DEF Progress
<1>4. TypeOK' /\ Progress' /\ MapStaysOpen' /\ MapsApart'
  BY <1>1, <1>2, <1>3 DEF Progress, MapStaysOpen, MapsApart
<1>5. \A m \in Maps, key \in IPs : ~Has(m, key)'
  BY <1>1 DEF LoadsEmpty, Has
<1>6. LoadsEmpty'
  BY <1>1, <1>5 DEF LoadsEmpty
<1>7. LearnedWithinBounds'
  <2>1. Attached(Learners)' => ReadMap' \in Maps
    BY <1>4, <1>2 DEF Attached, ReadMap
  <2> QED
    BY <2>1, <1>5 DEF LearnedWithinBounds, Has
<1>8. GrantsHeld'
  BY <1>1, <1>3 DEF GrantsHeld, Now
<1> QED
  BY <1>2, <1>4, <1>6, <1>7, <1>8

(* The second Setup.  It may stop half-way, and then leave the manager     *)
(* with maps of the second load and the program of the first one attached. *)
LEMMA SecondSetupStep == EBPFInv /\ SecondSetup => EBPFInv'
<1> SUFFICES ASSUME EBPFInv, SecondSetup PROVE EBPFInv'
  OBVIOUS
<1> USE DEF EBPFInv
<1>1. /\ mode = "again" /\ mode' = "serving"
      /\ UNCHANGED <<uptime, whitelist, doomed, freed, call, promised>>
  BY DEF SecondSetup
<1>2. /\ call = NoCall /\ promised = [ip \in IPs |-> 0] /\ freed = {} /\ ~mgr.closed
      /\ mgr.maps = <<1, "conn">> /\ mgr.collection = 1
      /\ attached # NoProgram => attached.load = 1 /\ 1 \in mgr.links
  BY <1>1 DEF Progress
<1>3. \A name \in {"dns", "conn"}, key \in IPs : ~Has(<<2, name>>, key)'
  <2>1. \A name \in {"dns", "conn"}, key \in IPs : ~Has(<<2, name>>, key)
    BY <1>1 DEF LoadsEmpty
  <2>2. whitelist' = whitelist
    BY <1>1
  <2> QED
    BY ONLY <2>1, <2>2 DEF Has
<1>4. GrantsHeld'
  BY <1>1, <1>2 DEF GrantsHeld, Now
<1>5. CASE SetupSucceeds(2)
  <2>1. /\ mgr' \in ManagerState
        /\ mgr'.maps = <<2, "conn">> /\ mgr'.collection = 2 /\ mgr'.closed = mgr.closed
        /\ 2 \in mgr'.links
        /\ attached'.prog \in XDPPrograms /\ attached'.load = 2
        /\ attached' \in [prog : XDPPrograms, load : Loads]
        /\ servers' \in [Maps -> SUBSET IPs]
      BY <1>5, SucceedsTyped
  <2>2. TypeOK' /\ Progress' /\ MapStaysOpen' /\ MapsApart' /\ LoadsEmpty'
    BY <1>1, <1>2, <2>1 DEF Progress, MapStaysOpen, MapsApart, LoadsEmpty
  <2>3. LearnedWithinBounds'
    <3> SUFFICES ASSUME NEW key \in IPs, Has(ReadMap, key)' PROVE FALSE
      BY DEF LearnedWithinBounds
    <3>1. PICK name \in {"dns", "conn"} : ReadMap' = <<2, name>>
      BY <2>1 DEF ReadMap
    <3>2. ~Has(<<2, name>>, key)'
      BY <1>3
    <3> QED
      BY ONLY <3>1, <3>2, Has(ReadMap, key)' DEF Has
  <2> QED
    BY <2>1, <2>2, <2>3, <1>4
<1>6. CASE mgr' \in FailedSetups(2) /\ UNCHANGED <<servers, attached>>
  <2>1. /\ mgr' \in ManagerState /\ mgr'.closed = mgr.closed /\ mgr'.links = mgr.links
    BY <1>6, SetupTyped
  <2>2. \/ mgr'.maps = <<1, "conn">> /\ mgr'.collection = 1
        \/ mgr'.maps = <<2, "dns">> /\ mgr'.collection = 1
        \/ mgr'.maps = <<2, "conn">> /\ mgr'.collection = 2
    <3>1. /\ \/ mgr' = mgr
             \/ mgr'.maps = <<2, "dns">> /\ mgr'.collection = mgr.collection
             \/ mgr' = Loaded(2)
          /\ Loaded(2).maps = <<2, "conn">> /\ Loaded(2).collection = 2
      BY <1>6, SetupTyped
    <3> QED
      BY ONLY <3>1, <1>2
  <2>3. MapStaysOpen' /\ LoadsEmpty'
    BY <1>1, <1>2, <1>6 DEF MapStaysOpen, LoadsEmpty
  <2>7. TypeOK'
    BY <1>1, <1>6, <2>1
  <2>6. Progress'
    BY ONLY Progress, <1>1, <1>2, <1>6, <2>1, <2>2 DEF Progress
  <2>4. MapsApart'
    BY <1>1, <1>2, <1>6, <2>2 DEF MapsApart
  <2>5. LearnedWithinBounds'
    BY <1>1, <1>6 DEF LearnedWithinBounds, Has, Attached, ReadMap
  <2> QED
    BY <2>3, <2>4, <2>5, <2>6, <2>7, <1>4
<1> QED
  BY <1>5, <1>6 DEF SecondSetup

(* Cleanup closes no map that the manager writes to.                       *)
LEMMA CleanupStep == EBPFInv /\ Cleanup => EBPFInv'
<1> SUFFICES ASSUME EBPFInv, Cleanup PROVE EBPFInv'
  OBVIOUS
<1> USE DEF EBPFInv
<1>1. /\ mode = "serving" /\ mode' = "stopped"
      /\ UNCHANGED <<uptime, whitelist, doomed, servers, call, promised>>
      /\ Closed(mgr)
  BY DEF Cleanup
<1>2. /\ mgr' \in ManagerState
      /\ mgr'.maps = mgr.maps /\ mgr'.closed = TRUE
      /\ freed' \subseteq Maps
      /\ freed' = freed \cup {mp \in Maps : mp = <<mgr.collection, "dns">>}
  BY <1>1, ClosedTyped
<1>3. attached' = NoProgram
  BY <1>1 DEF Closed, Progress
<1>4. freed = {} /\ mgr.maps # <<mgr.collection, "dns">>
  BY <1>1 DEF Progress, MapsApart
<1>5. TypeOK' /\ Progress' /\ MapsApart' /\ LoadsEmpty'
  BY <1>1, <1>2, <1>3 DEF Progress, MapsApart, LoadsEmpty
<1>6. MapStaysOpen'
  BY <1>1, <1>2, <1>4 DEF MapStaysOpen, MapsApart
<1>7. LearnedWithinBounds'
  BY <1>3 DEF LearnedWithinBounds, Attached
<1>8. GrantsHeld'
  BY <1>1, <1>2 DEF GrantsHeld, Has, Now
<1> QED
  BY <1>5, <1>6, <1>7, <1>8

(* An operation finds the manager in use: main is serving, and it has maps. *)
LEMMA InUse == EBPFInv /\ Usable => mode = "serving" /\ mgr.maps \in Maps /\ freed = {}
BY DEF EBPFInv, Usable, Progress

LEMMA AllowStep ==
  ASSUME EBPFInv, NEW a \in IPs, NEW ttl \in TTLs, AllowIPWithTTL(a, ttl)
  PROVE  EBPFInv'
<1> USE DEF EBPFInv
<1>1. mode = "serving" /\ mgr.maps \in Maps /\ freed = {}
  BY InUse DEF AllowIPWithTTL
<1>2. /\ call' = [map |-> mgr.maps, ip |-> a, expiry |-> Now + ttl, until |-> Now + ttl]
      /\ UNCHANGED <<uptime, whitelist, servers, attached, doomed, mode, mgr, freed, promised>>
  BY DEF AllowIPWithTTL, Expiry, filter
<1>3. Now + ttl \in Nat
  BY DEF Now
<1>4. TypeOK' /\ Progress' /\ MapStaysOpen' /\ MapsApart'
  BY <1>1, <1>2, <1>3 DEF Progress, MapStaysOpen, MapsApart
<1>5. LoadsEmpty' /\ LearnedWithinBounds' /\ GrantsHeld'
  BY <1>1, <1>2 DEF LoadsEmpty, LearnedWithinBounds, GrantsHeld, Has, Now, Attached, ReadMap
<1> QED
  BY <1>4, <1>5

(* The entry that a grant writes lasts as long as the grant.               *)
LEMMA PutStep == EBPFInv /\ PutEntry => EBPFInv'
<1> SUFFICES ASSUME EBPFInv, PutEntry PROVE EBPFInv'
  OBVIOUS
<1> USE DEF EBPFInv
<1> DEFINE m == call.map
           k == call.ip
<1>1. /\ call # NoCall /\ call' = NoCall
      /\ whitelist' = [whitelist EXCEPT ![m][k] = call.expiry]
      /\ promised' = [promised EXCEPT ![k] = IF doomed = <<m, k>> THEN 0 ELSE call.until]
      /\ UNCHANGED <<uptime, servers, doomed, attached, mode, mgr, freed>>
  BY DEF PutEntry, Put
<1>2. /\ m \in Maps /\ m = mgr.maps /\ k \in IPs
      /\ call.expiry \in Nat /\ call.until \in Nat /\ call.expiry = call.until
  BY <1>1 DEF MapsApart
<1>3. mode \notin {"start", "again", "iptables"}
  BY <1>1 DEF Progress
<1> HIDE DEF m, k
<1>4. /\ whitelist' \in [Maps -> [IPs -> Nat \cup {NoEntry}]]
      /\ \A n \in Maps, key \in IPs :
            whitelist'[n][key] = IF n = m /\ key = k THEN call.expiry ELSE whitelist[n][key]
  <2>1. TypeOK /\ m \in Maps /\ k \in IPs /\ call.expiry \in Nat \cup {NoEntry}
    BY <1>2
  <2> QED
    BY ONLY <1>1, <2>1, MapWrite
<1>5. /\ promised' \in [IPs -> Nat]
      /\ promised'[k] = IF doomed = <<m, k>> THEN 0 ELSE call.until
      /\ \A a \in IPs \ {k} : promised'[a] = promised[a]
  BY <1>1, <1>2
<1>6. TypeOK' /\ MapStaysOpen' /\ MapsApart' /\ LoadsEmpty'
  BY <1>1, <1>3, <1>4, <1>5
     DEF MapStaysOpen, MapsApart, LoadsEmpty
<1>7. Progress'
  <2>1. mgr.maps # NoMap
    BY <1>2
  <2> QED
    BY <1>1, <1>3, <2>1 DEF Progress
<1>8. LearnedWithinBounds'
  <2> SUFFICES ASSUME Attached(Learners), NEW key \in IPs, Has(ReadMap, key)'
               PROVE  (whitelist[ReadMap][key] <= uptime + MostTTL)'
    BY <1>1 DEF LearnedWithinBounds, Attached
  <2>1. ReadMap' = ReadMap /\ ReadMap \in Maps /\ ReadMap # m
    BY <1>1, <1>2, ReadMapTyped DEF Attached, ReadMap, MapsApart
  <2>2. whitelist'[ReadMap][key] = whitelist[ReadMap][key] /\ Has(ReadMap, key)
    BY ONLY <2>1, <1>4, Has(ReadMap, key)', key \in IPs DEF Has
  <2> QED
    BY <2>1, <2>2, <1>1 DEF LearnedWithinBounds
<1>9. GrantsHeld'
  <2> SUFFICES ASSUME NEW a \in IPs, promised'[a] > Now
               PROVE  (/\ Has(mgr.maps, a)
                       /\ whitelist[mgr.maps][a] >= promised[a]
                       /\ doomed # <<mgr.maps, a>>)'
    BY <1>1 DEF GrantsHeld, Now
  <2>1. CASE a = k
    <3>1. doomed # <<m, k>> /\ promised'[k] = call.until
      BY <2>1, <1>5 DEF Now
    <3>2. whitelist'[m][k] = call.expiry
      BY ONLY <1>2, <1>4, m \in Maps, k \in IPs
    <3> QED
      BY <2>1, <3>1, <3>2, <1>1, <1>2 DEF Has
  <2>2. CASE a # k
    <3>1. promised'[a] = promised[a]
      BY <2>2, <1>5
    <3>2. whitelist'[m][a] = whitelist[m][a]
      BY ONLY <1>2, <1>4, <2>2, a \in IPs
    <3> QED
      BY <3>1, <3>2, <1>1, <1>2 DEF GrantsHeld, Has
  <2> QED
    BY <2>1, <2>2
<1> QED
  BY <1>6, <1>7, <1>8, <1>9

(* RemoveIP takes the promise back with the entry.                         *)
LEMMA RemoveStep == ASSUME EBPFInv, NEW k \in IPs, RemoveIP(k) PROVE EBPFInv'
<1> USE DEF EBPFInv
<1> DEFINE m == mgr.maps
<1>1. m \in Maps /\ mode = "serving"
  BY InUse DEF RemoveIP
<1>2. /\ whitelist' = [whitelist EXCEPT ![m][k] = NoEntry]
      /\ promised' = [promised EXCEPT ![k] = 0]
      /\ UNCHANGED <<uptime, servers, doomed, attached, mode, mgr, freed, call>>
  BY DEF RemoveIP, Remove
<1> HIDE DEF m
<1>3. /\ whitelist' \in [Maps -> [IPs -> Nat \cup {NoEntry}]]
      /\ \A n \in Maps, key \in IPs :
            whitelist'[n][key] = IF n = m /\ key = k THEN NoEntry ELSE whitelist[n][key]
  BY <1>1, <1>2, MapWrite
<1>4. /\ promised' \in [IPs -> Nat]
      /\ promised'[k] = 0
      /\ \A a \in IPs \ {k} : promised'[a] = promised[a]
  BY <1>2
<1>5. TypeOK' /\ MapStaysOpen' /\ MapsApart' /\ LoadsEmpty'
  BY <1>1, <1>2, <1>3, <1>4
     DEF MapStaysOpen, MapsApart, LoadsEmpty
<1>6. Progress'
  <2>1. mgr.maps # NoMap
    BY <1>1 DEF m
  <2> QED
    BY <1>1, <1>2, <2>1 DEF Progress
<1>7. LearnedWithinBounds'
  <2> SUFFICES ASSUME Attached(Learners), NEW key \in IPs, Has(ReadMap, key)'
               PROVE  (whitelist[ReadMap][key] <= uptime + MostTTL)'
    BY <1>2 DEF LearnedWithinBounds, Attached
  <2>1. ReadMap' = ReadMap /\ ReadMap \in Maps /\ ReadMap # m
    BY <1>2, ReadMapTyped DEF Attached, ReadMap, MapsApart, m
  <2>2. whitelist'[ReadMap][key] = whitelist[ReadMap][key] /\ Has(ReadMap, key)
    BY ONLY <2>1, <1>3, Has(ReadMap, key)', key \in IPs DEF Has
  <2> QED
    BY <2>1, <2>2, <1>2 DEF LearnedWithinBounds
<1>8. GrantsHeld'
  <2> SUFFICES ASSUME NEW a \in IPs, promised'[a] > Now
               PROVE  (/\ Has(mgr.maps, a)
                       /\ whitelist[mgr.maps][a] >= promised[a]
                       /\ doomed # <<mgr.maps, a>>)'
    BY <1>2 DEF GrantsHeld, Now
  <2>1. a # k
    BY <1>4 DEF Now
  <2>2. promised'[a] = promised[a] /\ whitelist'[m][a] = whitelist[m][a]
    BY ONLY <2>1, <1>1, <1>3, <1>4, a \in IPs
  <2> QED
    BY <2>2, <1>2 DEF GrantsHeld, Has, m
<1> QED
  BY <1>5, <1>6, <1>7, <1>8

(* The parts of the invariant that are about the entries of the maps.      *)
LEMMA Untouched ==
  ASSUME LoadsEmpty, LearnedWithinBounds, GrantsHeld,
         UNCHANGED <<uptime, whitelist, doomed, attached, mode, mgr, promised>>
  PROVE  LoadsEmpty' /\ LearnedWithinBounds' /\ GrantsHeld'
<1>1. LoadsEmpty'
  BY DEF LoadsEmpty, Has
<1>2. LearnedWithinBounds'
  BY DEF LearnedWithinBounds, Has, Attached, ReadMap
<1>3. GrantsHeld'
  BY DEF GrantsHeld, Has, Now
<1> QED
  BY <1>1, <1>2, <1>3

(* AllowDNSServer and RemoveDNSServer change nothing but servers.          *)
LEMMA ServersStep ==
  ASSUME EBPFInv, NEW ip \in IPs, AllowDNSServer(ip) \/ RemoveDNSServer(ip)
  PROVE  EBPFInv'
<1> USE DEF EBPFInv
<1>1. mgr.maps \in Maps
  BY InUse DEF AllowDNSServer, RemoveDNSServer
<1>2. UNCHANGED <<uptime, whitelist, doomed, attached, mode, mgr, freed, call, promised>>
  BY DEF AllowDNSServer, RemoveDNSServer
<1>3. PICK s \in SUBSET IPs : servers' = [servers EXCEPT ![mgr.maps] = s]
  <2>1. servers[mgr.maps] \cup {ip} \in SUBSET IPs /\ servers[mgr.maps] \ {ip} \in SUBSET IPs
    BY <1>1
  <2> QED
    BY <2>1 DEF AllowDNSServer, RemoveDNSServer
<1>4. servers' \in [Maps -> SUBSET IPs]
  BY <1>1, <1>3
<1>5. TypeOK' /\ Progress' /\ MapStaysOpen' /\ MapsApart'
  BY <1>2, <1>4 DEF Progress, MapStaysOpen, MapsApart
<1>6. LoadsEmpty' /\ LearnedWithinBounds' /\ GrantsHeld'
  BY <1>2, Untouched
<1> QED
  BY <1>4, <1>5, <1>6

(* A grant that fails, and steps that change nothing.                      *)
LEMMA NoWriteStep ==
  EBPFInv /\ call' \in {call, NoCall} /\ UNCHANGED <<filter, mode, mgr, freed, promised>>
     => EBPFInv'
<1> SUFFICES ASSUME EBPFInv, call' \in {call, NoCall},
                    UNCHANGED <<filter, mode, mgr, freed, promised>>
             PROVE  EBPFInv'
  OBVIOUS
<1> USE DEF EBPFInv, filter
<1>1. TypeOK' /\ Progress' /\ MapStaysOpen' /\ MapsApart'
  BY DEF Progress, MapStaysOpen, MapsApart
<1>2. LoadsEmpty' /\ LearnedWithinBounds' /\ GrantsHeld'
  BY Untouched
<1> QED
  BY <1>1, <1>2

LEMMA EBPFStep == EBPFInv /\ [Next]_vars => EBPFInv'
<1> SUFFICES ASSUME EBPFInv, [Next]_vars PROVE EBPFInv'
  OBVIOUS
<1> HIDE DEF TypeOK, Maps
<1>1. CASE FallBack \/ FirstSetupFails
  BY <1>1, GiveUpStep
<1>2. CASE FirstSetup
  BY <1>2, FirstSetupStep
<1>3. CASE SecondSetup
  BY <1>3, SecondSetupStep
<1>4. CASE Cleanup
  BY <1>4, CleanupStep
<1>5. ASSUME NEW ip \in IPs, NEW ttl \in TTLs, AllowIPWithTTL(ip, ttl) PROVE EBPFInv'
  BY <1>5, AllowStep
<1>6. CASE PutEntry
  BY <1>6, PutStep
<1>7. CASE PutFails \/ UNCHANGED vars
  BY <1>7, NoWriteStep DEF PutFails, vars
<1>8. ASSUME NEW ip \in IPs, RemoveIP(ip) PROVE EBPFInv'
  BY <1>8, RemoveStep
<1>9. ASSUME NEW ip \in IPs, AllowDNSServer(ip) \/ RemoveDNSServer(ip) PROVE EBPFInv'
  BY <1>9, ServersStep
<1>10. CASE Kernel
  BY <1>10, KernelStep
<1> QED
  BY ONLY <1>1, <1>2, <1>3, <1>4, <1>5, <1>6, <1>7, <1>8, <1>9, <1>10, [Next]_vars DEF Next

(* The strengthening that the theorems rest on, for main and the kernel.   *)
THEOREM EBPFInvariant == Spec => []EBPFInv
BY EBPFInit, EBPFStep, PTL DEF Spec

----
(* Every state is well-formed: maps, manager, and the grant under way.     *)
THEOREM EBPFTyped == Spec => []TypeOK
<1>1. EBPFInv => TypeOK
  BY DEF EBPFInv
<1> QED
  BY <1>1, EBPFInvariant, PTL

(* Cleanup, and a first Setup that fails, leave no program on the          *)
(* interface, whatever became of the second Setup.                         *)
THEOREM InterfaceCleared == Spec => []NothingLeftAttached
<1>1. EBPFInv => NothingLeftAttached
  BY DEF EBPFInv, Progress, NothingLeftAttached
<1> QED
  BY <1>1, EBPFInvariant, PTL

(* A Put that Cleanup overtakes finds its map open.                        *)
THEOREM PutFindsMap == Spec => []MapStaysOpen
<1>1. EBPFInv => MapStaysOpen
  BY DEF EBPFInv
<1> QED
  BY <1>1, EBPFInvariant, PTL

(* The entry of AllowIPWithTTL stays for the TTL, while the filter deletes *)
(* what it finds expired on its own clock.                                 *)
THEOREM GrantsLast == Spec => []LastGrantKept
<1>1. EBPFInv => LastGrantKept
  BY DEF EBPFInv, GrantsHeld, LastGrantKept
<1> QED
  BY <1>1, EBPFInvariant, PTL

(* What dns_intercept has learned expires within its bounds.               *)
THEOREM LearnedBounded == Spec => []LearnedWithinBounds
<1>1. EBPFInv => LearnedWithinBounds
  BY DEF EBPFInv
<1> QED
  BY <1>1, EBPFInvariant, PTL

=============================================================================
