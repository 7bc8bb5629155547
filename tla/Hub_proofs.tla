---- MODULE Hub_proofs ----
(***************************************************************************)
(* Theorems about Hub, for any number of connections, hosts and handlers,  *)
(* whichever connections share a host, and for all buffer sizes.           *)
(***************************************************************************)
EXTENDS Hub, TLAPS

USE HubAssumption

(* HubNeverPanics is not inductive by itself.  The channel of a client in  *)
(* Clients is open, and so is that of a connection that Run has not seen   *)
(* yet.  LastHostForgotten needs no more than types: the pump of c writes  *)
(* Client.HostID and enters c, both before it leaves.                      *)
HubInv ==
    /\ TypeOK
    /\ HubNeverPanics
    /\ clients \cap closed = {}
    /\ \A c \in Conns : reader[c] = "away" => c \notin clients \cup closed
    /\ LastHostForgotten

LEMMA HubInit == Init => HubInv
BY DEF Init, HubInv, TypeOK, HubNeverPanics, LastHostForgotten

LEMMA MappedKeeps ==
  ASSUME TypeOK, NEW c \in Conns
  PROVE  /\ Mapped(c) \in [Hosts -> Conns \cup {NoConn}]
         /\ \A h \in Hosts : Mapped(c)[h] \in {c, hostClients[h]}
BY DEF TypeOK, Mapped

LEMMA UnmappedKeeps ==
  ASSUME TypeOK, NEW c \in Conns
  PROVE  /\ Unmapped(c) \in [Hosts -> Conns \cup {NoConn}]
         /\ hostID[c] # NoHost => Unmapped(c)[hostID[c]] # c
         /\ \A h \in Hosts : Unmapped(c)[h] \in {NoConn, hostClients[h]}
BY DEF TypeOK, Unmapped

LEMMA HubStep == HubInv /\ [Next]_vars => HubInv'
<1> SUFFICES ASSUME HubInv, [Next]_vars PROVE HubInv'
  OBVIOUS
<1> USE DEF HubInv, TypeOK, HubNeverPanics, LastHostForgotten, registry,
            channels, pumps, Running, ReaderAt, Writing, Visiting, Sending, Full, Enqueue
<1>1. ASSUME NEW c \in Conns, Register(c) PROVE HubInv'
  <2>1. /\ hostClients' \in [Hosts -> Conns \cup {NoConn}]
        /\ \A h \in Hosts : hostClients'[h] \in {c, hostClients[h]}
    BY <1>1, MappedKeeps DEF Register
  <2> QED
    BY <1>1, <2>1 DEF Register
<1>2. ASSUME NEW c \in Conns, StartPumps(c) PROVE HubInv'
  BY <1>2 DEF StartPumps
<1>3. ASSUME NEW c \in Conns, Unregister(c) PROVE HubInv'
  <2>1. /\ hostClients' \in [Hosts -> Conns \cup {NoConn}]
        /\ hostID[c] # NoHost => hostClients'[hostID[c]] # c
        /\ \A h \in Hosts : hostClients'[h] \in {NoConn, hostClients[h]}
    BY <1>3, UnmappedKeeps DEF Unregister, Forgotten
  <2>2. /\ clients' = clients \ {c}
        /\ closed' \in {closed, closed \cup {c}}
        /\ UNCHANGED process
    BY <1>3 DEF Unregister, Leave, Close
  <2> QED
    BY <1>3, <2>1, <2>2 DEF Unregister, Unlocked
<1>4. ASSUME NEW c \in Conns, EnterHost(c) PROVE HubInv'
  <2>1. /\ hostClients' \in [Hosts -> Conns \cup {NoConn}]
        /\ \A h \in Hosts : hostClients'[h] \in {c, hostClients[h]}
    BY <1>4, MappedKeeps DEF EnterHost
  <2> QED
    BY <1>4, <2>1 DEF EnterHost
<1>5. ASSUME NEW c \in Conns, ReadPing(c) \/ ReadStatus(c) \/ ReadFails(c) PROVE HubInv'
  BY <1>5 DEF ReadPing, ReadStatus, ReadFails, Reads
<1>6. ASSUME NEW c \in Conns, NEW h \in Named, ReadRegisterHost(c, h) PROVE HubInv'
  BY <1>6 DEF ReadRegisterHost, Reads
<1>7. ASSUME NEW c \in Conns, Pong(c) \/ PongPanics(c) PROVE HubInv'
  BY <1>7 DEF Pong, PongPanics
<1>8. ASSUME NEW c \in Conns, Announce(c) PROVE HubInv'
  BY <1>8 DEF Announce
<1>9. ASSUME NEW c \in Conns, WriteFrame(c) \/ WriteClose(c) PROVE HubInv'
  BY <1>9 DEF WriteFrame, WriteClose, WriterEnds
<1>10. ASSUME NEW c \in Conns, WriteFails(c) PROVE HubInv'
  BY <1>10 DEF WriteFails, WriterEnds
<1>11. CASE TakeBroadcast
  BY <1>11 DEF TakeBroadcast
<1>12. ASSUME NEW c \in Conns, Visit(c) PROVE HubInv'
  BY <1>12 DEF Visit, SendOrPanic
<1>13. ASSUME NEW c \in Conns, Drop(c) PROVE HubInv'
  <2>1. /\ hostClients' \in [Hosts -> Conns \cup {NoConn}]
        /\ \A h \in Hosts : hostClients'[h] \in {NoConn, hostClients[h]}
    BY <1>13, UnmappedKeeps DEF Drop
  <2>2. closed' = closed \cup {c} /\ UNCHANGED process
    BY <1>13 DEF Drop, Close
  <2> QED
    BY <1>13, <2>1, <2>2 DEF Drop
<1>14. ASSUME NEW s \in Handlers, NEW h \in Hosts, LookUp(s, h) PROVE HubInv'
  BY <1>14 DEF LookUp
<1>15. ASSUME NEW s \in Handlers, Send(s) \/ SendPanics(s) PROVE HubInv'
  BY <1>15 DEF Send, SendPanics, Returns
<1>16. ASSUME NEW s \in Handlers, NEW c \in Conns, MapRace(s, c) PROVE HubInv'
  BY <1>16 DEF MapRace
<1>17. CASE UNCHANGED vars
  BY <1>17 DEF vars
<1> QED
  BY <1>1, <1>2, <1>3, <1>4, <1>5, <1>6, <1>7, <1>8, <1>9, <1>10, <1>11, <1>12, <1>13, <1>14,
     <1>15, <1>16, <1>17 DEF Next, ReadPump, Answer, WritePump, VisitNext

LEMMA HubInvHolds == Spec => []HubInv
BY HubInit, HubStep, PTL DEF Spec

(* Every variable keeps its type and no buffer grows beyond its capacity.    *)
THEOREM HubTyped == Spec => []TypeOK
<1>1. HubInv => TypeOK
  BY DEF HubInv
<1> QED
  BY <1>1, HubInvHolds, PTL

(* Run closes every channel once and sends on open channels only.            *)
THEOREM HubSurvives == Spec => []HubNeverPanics
<1>1. HubInv => HubNeverPanics
  BY DEF HubInv
<1> QED
  BY <1>1, HubInvHolds, PTL

(* A connection whose read pump has left gets no broadcast and is not found  *)
(* under the host it named last, whoever else names that host.               *)
THEOREM LastHostIsForgotten == Spec => []LastHostForgotten
<1>1. HubInv => LastHostForgotten
  BY DEF HubInv
<1> QED
  BY <1>1, HubInvHolds, PTL

====
