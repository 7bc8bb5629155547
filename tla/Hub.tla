---- MODULE Hub ----
(***************************************************************************)
(* The WebSocket hub of the configuration server: its main loop Run, the   *)
(* read pump and the write pump of every connection, and the HTTP handlers *)
(* that call SendToHost.                                                   *)
(*                                                                         *)
(* They meet at Go channels.  Register and Unregister have no buffer: the  *)
(* sender's step and Run's are one.  Every client has a buffered channel   *)
(* Send, which the hub closes to end the connection.  To send on a closed  *)
(* channel, or to close one twice, panics: in a pump or in Run that ends   *)
(* the process, in an HTTP handler the server recovers from it.            *)
(***************************************************************************)
EXTENDS Naturals

CONSTANTS
    Conns,          \* connections, each made once
    Hosts,          \* host IDs
    NoHost,         \* HostID 0: no host
    NoConn,         \* no entry in HostClients
    ConnHost,       \* ConnHost[c]: the host whose agent made connection c, NoHost for a
                    \* connection of the web interface
    Named,          \* IDs that peers send as host_id
    Handlers,       \* HTTP handlers that call SendToHost
    SendSize,       \* capacity of Client.Send, 256
    BroadcastSize   \* capacity of Hub.Broadcast, 256

ASSUME HubAssumption ==
    /\ NoHost \notin Hosts
    /\ NoConn \notin Conns
    /\ ConnHost \in [Conns -> Hosts \cup {NoHost}]
    /\ Named \subseteq Hosts \cup {NoHost}
    /\ SendSize \in Nat \ {0}
    /\ BroadcastSize \in Nat \ {0}

VARIABLES
    clients,        \* Hub.Clients
    hostClients,    \* Hub.HostClients, without the entry of ID 0, which no handler looks up
    hostID,         \* Client.HostID: whatever the peer last named
    visiting,       \* the clients that Run's broadcast loop has still to visit
    pending,        \* how many messages wait in Hub.Broadcast
    queued,         \* how many messages wait in every client's Send
    closed,         \* the clients whose Send is closed
    reader,         \* the read pumps
    writer,         \* the write pumps
    open,           \* the connections whose socket this side has not closed
    handler,        \* HTTP handlers within SendToHost: the client they found, or NoConn
    process         \* "up", or what ended the process

registry == <<clients, hostClients, hostID, visiting, pending>>
channels == <<queued, closed>>
pumps    == <<reader, writer, open>>
vars     == <<registry, channels, pumps, handler, process>>

Running == process = "up"

ReaderAt(c, pc) == Running /\ reader[c] = pc
Writing(c)      == Running /\ writer[c] = "writing"
Visiting(c)     == Running /\ c \in visiting
Sending(s)      == Running /\ handler[s] # NoConn

Full(c) == queued[c] = SendSize
Enqueue(c) == queued' = [queued EXCEPT ![c] = @ + 1]

\* Variant: Run does not finish a broadcast before it turns to other channels.
NeverLocked == TRUE

\* Run is at its select and Hub.Mu free for writing: Run holds it for reading as long
\* as it broadcasts.
Unlocked == visiting = {}

Mapped(c) == IF hostID[c] # NoHost THEN [hostClients EXCEPT ![hostID[c]] = c]
                                   ELSE hostClients
\* The entry of the host that c names goes, whichever connection it has, and those of
\* hosts that c named before stay.
Unmapped(c) == IF hostID[c] # NoHost THEN [hostClients EXCEPT ![hostID[c]] = NoConn]
                                     ELSE hostClients

----
(* Connecting: handleWebSocket finds the host, hands the client to Run and  *)
(* starts the pumps.                                                        *)
Register(c) ==
    /\ ReaderAt(c, "away")
    /\ Unlocked
    /\ clients' = clients \cup {c}
    /\ hostClients' = Mapped(c)
    /\ open' = open \cup {c}
    /\ reader' = [reader EXCEPT ![c] = "starting"]
    /\ UNCHANGED <<hostID, visiting, pending, channels, writer, handler, process>>

StartPumps(c) ==
    /\ ReaderAt(c, "starting")
    /\ reader' = [reader EXCEPT ![c] = "reading"]
    /\ writer' = [writer EXCEPT ![c] = "writing"]
    /\ UNCHANGED <<registry, channels, open, handler, process>>

----
(* The read pump.  A message of the peer arrives, or the read fails.        *)
Reads(c, next) ==
    /\ ReaderAt(c, "reading")
    /\ c \in open
    /\ reader' = [reader EXCEPT ![c] = next]

ReadPing(c) ==
    /\ Reads(c, "ponging")
    /\ UNCHANGED <<registry, channels, writer, open, handler, process>>

ReadStatus(c) ==
    /\ Reads(c, "announcing")
    /\ UNCHANGED <<registry, channels, writer, open, handler, process>>

\* register_host with a host_id, any one, from an agent or the web interface.  The pump
\* writes Client.HostID before it asks for the lock.
ReadRegisterHost(c, h) ==
    /\ Reads(c, "naming")
    /\ hostID' = [hostID EXCEPT ![c] = h]
    /\ UNCHANGED <<clients, hostClients, visiting, pending, channels, writer, open, handler,
                   process>>

\* A closed socket, the peer's close, or PongWait without a sign of life.
ReadFails(c) ==
    /\ ReaderAt(c, "reading")
    /\ reader' = [reader EXCEPT ![c] = "leaving"]
    /\ UNCHANGED <<registry, channels, writer, open, handler, process>>

\* The entry of a host that was named before stays.
EnterHost(c) ==
    /\ ReaderAt(c, "naming")
    /\ Unlocked
    /\ hostClients' = Mapped(c)
    /\ reader' = [reader EXCEPT ![c] = "reading"]
    /\ UNCHANGED <<clients, hostID, visiting, pending, channels, writer, open, handler,
                   process>>

\* The answer to a ping waits for room in Send.
Pong(c) ==
    /\ ReaderAt(c, "ponging")
    /\ c \notin closed
    /\ ~Full(c)
    /\ Enqueue(c)
    /\ reader' = [reader EXCEPT ![c] = "reading"]
    /\ UNCHANGED <<registry, closed, writer, open, handler, process>>

PongPanics(c) ==
    /\ ReaderAt(c, "ponging")
    /\ c \in closed
    /\ process' = "pumpPanic"
    /\ UNCHANGED <<registry, channels, pumps, handler>>

\* BroadcastHostStatusUpdate waits for room in Broadcast.
Announce(c) ==
    /\ ReaderAt(c, "announcing")
    /\ pending < BroadcastSize
    /\ pending' = pending + 1
    /\ reader' = [reader EXCEPT ![c] = "reading"]
    /\ UNCHANGED <<clients, hostClients, hostID, visiting, channels, writer, open, handler,
                   process>>

----
(* Run: Unregister and Broadcast.                                           *)
\* Closing a channel twice panics.
Close(c) ==
    IF c \in closed THEN process' = "hubPanic" /\ UNCHANGED closed
                    ELSE closed' = closed \cup {c} /\ UNCHANGED process

\* Variant: the channel of a client that was dropped before is closed again.
CloseAlways(c) == clients' = clients \ {c} /\ Close(c)

Leave(c) ==
    IF c \in clients THEN clients' = clients \ {c} /\ Close(c)
                     ELSE UNCHANGED <<clients, closed, process>>

\* Variant: only a client that is still registered gives up its host's entry.
ForgetIfClient(c) == IF c \in clients THEN Unmapped(c) ELSE hostClients

Forgotten(c) == Unmapped(c)

\* The read pump's last act, and Run's answer.
Unregister(c) ==
    /\ ReaderAt(c, "leaving")
    /\ Unlocked
    /\ Leave(c)
    /\ hostClients' = Forgotten(c)
    /\ reader' = [reader EXCEPT ![c] = "done"]
    /\ open' = open \ {c}
    /\ UNCHANGED <<hostID, visiting, pending, queued, writer, handler>>

TakeBroadcast ==
    /\ Running
    /\ Unlocked
    /\ pending > 0
    /\ pending' = pending - 1
    /\ visiting' = clients
    /\ UNCHANGED <<clients, hostClients, hostID, channels, pumps, handler, process>>

\* Sending on a closed channel panics, whether the buffer has room or not.
SendOrPanic(c) ==
    IF c \in closed THEN process' = "hubPanic" /\ UNCHANGED queued
                    ELSE Enqueue(c) /\ UNCHANGED process

\* One round of the loop over the clients: the message fits into the buffer, or the
\* client is dropped.
Visit(c) ==
    /\ Visiting(c)
    /\ c \in closed \/ ~Full(c)
    /\ SendOrPanic(c)
    /\ visiting' = visiting \ {c}
    /\ UNCHANGED <<clients, hostClients, hostID, pending, closed, pumps, handler>>

\* Variant: Run waits until the client's buffer has room.
WaitForRoom(c) == Visiting(c) /\ Full(c) /\ UNCHANGED vars

\* Run reads Client.HostID twice, without a lock against the pump that writes it: whichever
\* values it sees, the outcome is that of the write before or after.
Drop(c) ==
    /\ Visiting(c)
    /\ c \notin closed
    /\ Full(c)
    /\ Close(c)
    /\ clients' = clients \ {c}
    /\ hostClients' = Unmapped(c)
    /\ visiting' = visiting \ {c}
    /\ UNCHANGED <<hostID, pending, queued, pumps, handler>>

----
(* The write pump.                                                          *)
\* What waits in Send goes out as one frame.
WriteFrame(c) ==
    /\ Writing(c)
    /\ c \in open
    /\ queued[c] > 0
    /\ queued' = [queued EXCEPT ![c] = 0]
    /\ UNCHANGED <<registry, closed, pumps, handler, process>>

WriterEnds(c) ==
    /\ writer' = [writer EXCEPT ![c] = "done"]
    /\ open' = open \ {c}

\* Variant: the write pump ends and leaves the socket open.
SocketLeftOpen(c) ==
    /\ Writing(c)
    /\ c \in closed /\ queued[c] = 0
    /\ writer' = [writer EXCEPT ![c] = "done"]
    /\ UNCHANGED <<registry, channels, reader, open, handler, process>>

\* Send is closed and empty: the close message goes out.
WriteClose(c) ==
    /\ Writing(c)
    /\ c \in closed /\ queued[c] = 0
    /\ WriterEnds(c)
    /\ UNCHANGED <<registry, channels, reader, handler, process>>

\* A write fails: that of a ping, of a frame's first message or of the whole frame.
WriteFails(c) ==
    /\ Writing(c)
    /\ \E taken \in {0, 1, queued[c]} :
          taken <= queued[c] /\ queued' = [queued EXCEPT ![c] = @ - taken]
    /\ WriterEnds(c)
    /\ UNCHANGED <<registry, closed, reader, handler, process>>

----
(* SendToHost: the look-up under the lock, the send after it.               *)
LookUp(s, h) ==
    /\ Running
    /\ handler[s] = NoConn
    /\ hostClients[h] # NoConn
    /\ handler' = [handler EXCEPT ![s] = hostClients[h]]
    /\ UNCHANGED <<registry, channels, pumps, process>>

Returns(s) ==
    /\ handler' = [handler EXCEPT ![s] = NoConn]
    /\ UNCHANGED <<registry, closed, pumps, process>>

\* A message that does not fit is given up.
Send(s) ==
    /\ Sending(s)
    /\ handler[s] \notin closed
    /\ IF Full(handler[s]) THEN UNCHANGED queued ELSE Enqueue(handler[s])
    /\ Returns(s)

\* The channel was closed after the look-up.  The HTTP server recovers.
SendPanics(s) ==
    /\ Sending(s)
    /\ handler[s] \in closed
    /\ UNCHANGED queued
    /\ Returns(s)

\* Drop deletes from HostClients with the lock held for reading, and a look-up may read
\* the map at the same time: the Go runtime may end the process.
MapRace(s, c) ==
    /\ handler[s] = NoConn
    /\ Visiting(c)
    /\ Full(c)
    /\ hostID[c] # NoHost
    /\ process' = "mapRace"
    /\ UNCHANGED <<registry, channels, pumps, handler>>

----
Init ==
    /\ clients = {}
    /\ hostClients = [h \in Hosts |-> NoConn]
    /\ hostID = ConnHost
    /\ visiting = {}
    /\ pending = 0
    /\ queued = [c \in Conns |-> 0]
    /\ closed = {}
    /\ reader = [c \in Conns |-> "away"]
    /\ writer = [c \in Conns |-> "none"]
    /\ open = {}
    /\ handler = [s \in Handlers |-> NoConn]
    /\ process = "up"

ReadPump(c) ==
    \/ ReadPing(c) \/ ReadStatus(c) \/ ReadFails(c)
    \/ \E h \in Named : ReadRegisterHost(c, h)
Answer(c) == Pong(c) \/ PongPanics(c) \/ Announce(c) \/ EnterHost(c)
WritePump(c) == WriteFrame(c) \/ WriteClose(c)
VisitNext == \E c \in Conns : Visit(c) \/ Drop(c)

Next ==
    \/ \E c \in Conns :
          \/ Register(c) \/ StartPumps(c) \/ Unregister(c)
          \/ ReadPump(c) \/ Answer(c)
          \/ WritePump(c) \/ WriteFails(c)
    \/ TakeBroadcast \/ VisitNext
    \/ \E s \in Handlers :
          \/ \E h \in Hosts : LookUp(s, h)
          \/ Send(s) \/ SendPanics(s)
          \/ \E c \in Conns : MapRace(s, c)

Spec == Init /\ [][Next]_vars

(* Fairness: Run, the pumps and whoever waits at a channel go on.  Go's      *)
(* select picks among the channels that are ready at random, and senders     *)
(* that wait at a channel or for the lock are served in turn: none is passed *)
(* over for ever.  A read or a write on a socket that is closed fails.  The  *)
(* peer owes nothing: it need not send, nor close.                           *)
FairSpec ==
    /\ Spec
    /\ WF_vars(TakeBroadcast)
    /\ WF_vars(VisitNext)
    /\ \A c \in Conns :
          /\ WF_vars(StartPumps(c))
          /\ SF_vars(Unregister(c))
          /\ SF_vars(Answer(c))
          /\ WF_vars(WritePump(c))
          /\ WF_vars(c \notin open /\ (ReadFails(c) \/ WriteFails(c)))

----
TypeOK ==
    /\ clients \subseteq Conns
    /\ hostClients \in [Hosts -> Conns \cup {NoConn}]
    /\ hostID \in [Conns -> Hosts \cup {NoHost}]
    /\ visiting \subseteq clients
    /\ pending \in 0..BroadcastSize
    /\ queued \in [Conns -> 0..SendSize]
    /\ closed \subseteq Conns
    /\ reader \in [Conns -> {"away", "starting", "reading", "naming", "ponging",
                             "announcing", "leaving", "done"}]
    /\ writer \in [Conns -> {"none", "writing", "done"}]
    /\ open \subseteq Conns
    /\ handler \in [Handlers -> Conns \cup {NoConn}]
    /\ process \in {"up", "pumpPanic", "mapRace", "hubPanic"}

(* Run never panics: it closes the channel of a client once, whether the     *)
(* client left or was dropped or both, and sends only on open ones, though   *)
(* pumps leave while it broadcasts and it drops clients that are about to    *)
(* leave.                                                                    *)
HubNeverPanics == process # "hubPanic"

(* A connection that has left gets no more broadcasts, and the host that it  *)
(* named last is not looked up at it.  A client that was dropped may still   *)
(* enter itself with a register_host that was under way; its Unregister      *)
(* takes that entry out, though the client is no longer in Clients.  The     *)
(* entries of hosts that it named earlier are promised nothing: they stay.   *)
LastHostForgotten == \A c \in Conns : reader[c] = "done" =>
    /\ c \notin clients
    /\ hostID[c] # NoHost => hostClients[hostID[c]] # c

(* A read pump that is through gets away: Run comes back to its select       *)
(* however many clients' buffers are full, and takes the pump's Unregister.  *)
LeavingConnectionLeaves == \A c \in Conns :
    reader[c] = "leaving" ~> reader[c] = "done" \/ process # "up"

(* websocket.go:85: "Client buffer full, close connection".  The hub only    *)
(* closes the channel; the write pump closes the socket, the read pump       *)
(* notices and leaves.                                                       *)
DroppedConnectionCloses == \A c \in Conns :
    c \in closed ~> reader[c] = "done" \/ process # "up"

(* websocket.go:37 calls HostClients the "Host to client mapping", and       *)
(* websocket.go:98 says "SendToHost sends a message to a specific host by    *)
(* ID".  The entry of a host goes only when the client it names leaves, or   *)
(* when another one takes its place.                                         *)
ReachableWhileConnected ==
    [][\A h \in Hosts : hostClients[h] # NoConn /\ hostClients'[h] = NoConn
          => hostClients[h] \notin clients']_vars

====
