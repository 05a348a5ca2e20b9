---------------------------- MODULE TCPProtocol ----------------------------
(***************************************************************************)
(* TCPProtocol_c of lab18/src/TCPProtocol.cpp on one server host and some  *)
(* client hosts, driven by the two applications of TCPApp.cpp: a client    *)
(* connects, writes its file, sleeps and closes; the server accepts one    *)
(* connection, reads until tcp_sock_read returns 0, and closes.            *)
(*                                                                         *)
(* Every host runs four threads: the packet receiver (Receive actions),    *)
(* the application, ACKTimeOutThread and timeWaitThread.  One action is    *)
(* one critical section of TCPSockTable_mutex, or one exit from a spin     *)
(* loop outside it.                                                        *)
(*                                                                         *)
(* A socket is named by its host (a client's socket, or the listening      *)
(* socket of the server), or by a member of Children.                      *)
(***************************************************************************)
EXTENDS TCPSocket, SequencesExt

CONSTANTS
  Children,      \* names for the sockets handleSYN1 allocates
  NoChild,       \* the server application has accepted nothing
  FileLen,       \* bytes every client writes
  Garbage,       \* values `new' can leave in snd_una and snd_nxt
  GarbageTiming, \* values `new' can leave in timingOpen
  Reordering,    \* may the network deliver out of order?
  Prompt,        \* is every slower clock slower than everything faster?
  MaxLoss, MaxDuplicate, \* bounds: segments lost, duplicated
  MaxTimeouts, MaxInFlight \* bounds on timeouts that are not Prompt

ASSUME ProtocolAssumption ==
  /\ Children \cap Hosts = {} /\ NoChild \notin Children
  /\ FileLen \in Nat /\ Clients \X (1 .. FileLen) \subseteq Byte
  /\ Garbage \subseteq Nat /\ Garbage # {}
  /\ GarbageTiming \subseteq BOOLEAN /\ GarbageTiming # {}
  /\ Reordering \in BOOLEAN /\ Prompt \in BOOLEAN
  /\ {MaxLoss, MaxDuplicate, MaxTimeouts, MaxInFlight} \subseteq Nat

VARIABLES
  sock,             \* the tcp_sock objects
  listenTable, establishedTable, \* the sockets in the two maps of each host
  synRcvdList, acceptList, \* the children in the two maps of the server's parent
  net,              \* segments in flight to each host
  aborted,          \* hosts whose process has died
  cpc, maxSend,     \* each client's place in TCPClient, and MAXSend
  spc, csk,         \* the server's place in TCPServer, and the accepted socket
  delivered,        \* the bytes tcp_sock_read has returned
  lost, duplicated, timeouts \* how much of the bounds is used

tables == <<listenTable, establishedTable, synRcvdList, acceptList>>
apps   == <<cpc, maxSend, spc, csk, delivered>>
bounds == <<lost, duplicated, timeouts>>
vars   == <<sock, tables, net, aborted, apps, bounds>>

Sock == Hosts \cup Children

\* Byte i of the file of client c
File(c) == [i \in 1 .. FileLen |-> <<c, i>>]

\* a tcp_sock as the heap hands it out
Fresh(local, peer) ==
  {alloc_tcp_sock(local, peer, una, nxt, timing) :
     una \in Garbage, nxt \in Garbage, timing \in GarbageTiming}

\* The applications have allocated their sockets, and a client has set its
\* peerAddr; the record of a child not yet allocated is a placeholder.
Init ==
  /\ \E una, nxt \in [Hosts -> Garbage], timing \in [Hosts -> GarbageTiming] :
       sock = [s \in Sock |->
                 IF s \in Hosts
                 THEN alloc_tcp_sock(s, IF s = Server THEN NoPeer ELSE Server,
                                     una[s], nxt[s], timing[s])
                 ELSE alloc_tcp_sock(Server, NoPeer, 0, 0, FALSE)]
  /\ listenTable = {} /\ establishedTable = {}
  /\ synRcvdList = {} /\ acceptList = {}
  /\ net = [h \in Hosts |-> <<>>]
  /\ aborted = {}
  /\ cpc = [c \in Clients |-> "start"] /\ maxSend = [c \in Clients |-> 0]
  /\ spc = "start" /\ csk = NoChild /\ delivered = <<>>
  /\ lost = 0 /\ duplicated = 0 /\ timeouts = 0

Alive(h) == h \notin aborted

\* All segments of one context have the same destination.
Transmit(flight, tx) ==
  IF tx = <<>> THEN flight ELSE [flight EXCEPT ![Head(tx).dst] = @ \o tx]

\* The end of a critical section on socket s: an assert that failed has
\* ended the process before anything was sent.
Commit(s, result, flight) ==
  \E c \in {result} :
  IF c.ok
  THEN /\ sock' = [sock EXCEPT ![s] = c.sk]
       /\ net' = Transmit(flight, c.tx)
       /\ UNCHANGED aborted
  ELSE /\ aborted' = aborted \cup {sock[s].local}
       /\ net' = flight
       /\ UNCHANGED sock

-----------------------------------------------------------------------------
(* What the threads wait for.                                              *)

Closed(s)       == sock[s].TCPState = "CLOSED"
CanReturn(c)    == cpc[c] = "connect" /\ sock[c].TCPState = "ESTABLISHED"
CanAccept       == spc = "accept" /\ acceptList # {}
CanRead         == spc \in {"read", "sleep"} /\ (Unread(sock[csk]) > 0 \/ Closed(csk))
Remaining(c)    == maxSend[c] - sock[c].snd_nxt
CanWrite(c)     == /\ cpc[c] = "write" /\ Remaining(c) > 0
                   /\ MaySend(sock[c], SegmentSize(Remaining(c)))

\* Under Prompt a thread that sleeps for milliseconds wakes only when the
\* wires are empty and no thread is out of its spin loop: the links of
\* lab18/mininet have 1 ms delay, a spin loop polls at most every 100 us.
Quiet ==
  /\ \A h \in Hosts : net[h] = <<>>
  /\ Alive(Server) => spc \notin {"start", "close"} /\ ~CanAccept /\ ~CanRead
  /\ \A c \in Clients :
       Alive(c) => cpc[c] # "connected" /\ ~CanReturn(c) /\ ~CanWrite(c)

\* Under Prompt a sleep of a second or more also outlasts every resend that
\* the timer of s makes before it could give up.
LongSleepOver(s) ==
  /\ Quiet
  /\ sock[s].sendBuffer # <<>> =>
       Head(sock[s].sendBuffer).resendTime > MAX_RESEND

-----------------------------------------------------------------------------
(* The client application: TCPClient.                                      *)

\* tcp_sock_connect up to its spin loop; the application has slept 2 s, the
\* server's only 1 s before it listens.
ClientConnect(c) ==
  /\ Alive(c) /\ cpc[c] = "start"
  /\ Prompt => spc # "start"
  /\ listenTable' = listenTable \cup {c}
  /\ Commit(c, Connect(Enter(sock[c])), net)
  /\ cpc' = [cpc EXCEPT ![c] = "connect"]
  /\ UNCHANGED <<establishedTable, synRcvdList, acceptList,
                 maxSend, spc, csk, delivered, bounds>>

\* The spin loop of tcp_sock_connect ends and the socket changes tables.
ClientConnected(c) ==
  /\ Alive(c) /\ CanReturn(c)
  /\ listenTable' = listenTable \ {c}
  /\ establishedTable' = establishedTable \cup {c}
  /\ cpc' = [cpc EXCEPT ![c] = "connected"]
  /\ UNCHANGED <<sock, synRcvdList, acceptList, net, aborted,
                 maxSend, spc, csk, delivered, bounds>>

\* tcp_sock_write reads snd_nxt before it takes the lock.
ClientWriteBegin(c) ==
  /\ Alive(c) /\ cpc[c] = "connected"
  /\ maxSend' = [maxSend EXCEPT ![c] = sock[c].snd_nxt + FileLen]
  /\ cpc' = [cpc EXCEPT ![c] = "write"]
  /\ UNCHANGED <<sock, tables, net, aborted, spc, csk, delivered, bounds>>

\* One round of the loop of tcp_sock_write that sends.
ClientWrite(c) ==
  /\ Alive(c) /\ CanWrite(c)
  /\ LET offset == FileLen - Remaining(c)
         size   == SegmentSize(Remaining(c))
     IN  Commit(c, Write(Enter(sock[c]),
                         SubSeq(File(c), offset + 1, offset + size)), net)
  /\ UNCHANGED <<tables, apps, bounds>>

ClientWritten(c) ==
  /\ Alive(c) /\ cpc[c] = "write" /\ Remaining(c) = 0
  /\ cpc' = [cpc EXCEPT ![c] = "sleep"]
  /\ UNCHANGED <<sock, tables, net, aborted, maxSend, spc, csk, delivered, bounds>>

\* sleep(1), then tcp_sock_close up to its spin loop.  This application
\* calls it only on an ESTABLISHED socket.
ClientClose(c) ==
  /\ Alive(c) /\ cpc[c] = "sleep" /\ sock[c].TCPState = "ESTABLISHED"
  /\ Prompt => LongSleepOver(c)
  /\ Commit(c, Close(Enter(sock[c])), net)
  /\ cpc' = [cpc EXCEPT ![c] = "close"]
  /\ UNCHANGED <<tables, maxSend, spc, csk, delivered, bounds>>

ClientClosed(c) ==
  /\ Alive(c) /\ cpc[c] = "close" /\ Closed(c)
  /\ establishedTable' = establishedTable \ {c}
  /\ cpc' = [cpc EXCEPT ![c] = "done"]
  /\ UNCHANGED <<sock, listenTable, synRcvdList, acceptList, net, aborted,
                 maxSend, spc, csk, delivered, bounds>>

-----------------------------------------------------------------------------
(* The server application: TCPServer.                                      *)

ServerListen ==
  /\ spc = "start"
  /\ sock' = [sock EXCEPT ![Server].TCPState = "LISTEN"]
  /\ listenTable' = listenTable \cup {Server}
  /\ spc' = "accept"
  /\ UNCHANGED <<establishedTable, synRcvdList, acceptList, net, aborted,
                 cpc, maxSend, csk, delivered, bounds>>

ServerAccept(k) ==
  /\ Alive(Server) /\ CanAccept /\ k \in acceptList
  /\ acceptList' = acceptList \ {k}
  /\ csk' = k
  /\ spc' = "read"
  /\ UNCHANGED <<sock, listenTable, establishedTable, synRcvdList, net, aborted,
                 cpc, maxSend, delivered, bounds>>

\* The spin loop of tcp_sock_read finds the ring empty and sleeps 100 us.
ServerReadSleep ==
  /\ Alive(Server) /\ spc = "read" /\ Unread(sock[csk]) = 0
  /\ spc' = "sleep"
  /\ UNCHANGED <<sock, tables, net, aborted, cpc, maxSend, csk, delivered, bounds>>

\* It wakes: return 0 on a closed socket, without a second look at the ring.
ServerReadWake ==
  /\ Alive(Server) /\ spc = "sleep"
  /\ spc' = IF Closed(csk) THEN "close" ELSE "read"
  /\ UNCHANGED <<sock, tables, net, aborted, cpc, maxSend, csk, delivered, bounds>>

ServerRead ==
  /\ Alive(Server) /\ spc = "read" /\ Unread(sock[csk]) > 0
  /\ Commit(csk, Read(Enter(sock[csk])), net)
  /\ delivered' = delivered \o UnreadBytes(sock[csk])
  /\ UNCHANGED <<tables, cpc, maxSend, spc, csk, bounds>>

\* tcp_sock_close on the CLOSED socket
ServerClose ==
  /\ Alive(Server) /\ spc = "close"
  /\ establishedTable' = establishedTable \ {csk}
  /\ spc' = "done"
  /\ UNCHANGED <<sock, listenTable, synRcvdList, acceptList, net, aborted,
                 cpc, maxSend, csk, delivered, bounds>>

-----------------------------------------------------------------------------
(* The network (the IP stack below, the links and the router between).     *)

Deliverable(h) == IF Reordering THEN DOMAIN net[h] ELSE DOMAIN net[h] \cap {1}

Without(h, i) == [net EXCEPT ![h] = RemoveAt(@, i)]

Lose(h, i) ==
  /\ lost < MaxLoss /\ i \in DOMAIN net[h]
  /\ net' = Without(h, i)
  /\ lost' = lost + 1
  /\ UNCHANGED <<sock, tables, aborted, apps, duplicated, timeouts>>

Duplicate(h, i) ==
  /\ duplicated < MaxDuplicate /\ i \in DOMAIN net[h]
  /\ net' = [net EXCEPT ![h] = Append(@, net[h][i])]
  /\ duplicated' = duplicated + 1
  /\ UNCHANGED <<sock, tables, aborted, apps, lost, timeouts>>

-----------------------------------------------------------------------------
(* handlePacket: the receiver thread of host h takes the i-th segment.     *)

\* establishedTable.find((local, peer)) and listenTable.find(local)
Established(h, peer) ==
  {s \in establishedTable : sock[s].local = h /\ sock[s].peer = peer}
Listener(h) == {s \in listenTable : sock[s].local = h}

\* The socket the segment is for is s, in the established map or, failing
\* that, in the listen map.
ToEstablished(h, i, s) ==
  /\ Alive(h) /\ i \in Deliverable(h)
  /\ s \in Established(h, net[h][i].src)

\* Mutant: the listen map is searched before the established map.
ToListener_First(h, i, s) ==
  Alive(h) /\ i \in Deliverable(h) /\ s \in Listener(h)

ToListener(h, i, s) ==
  /\ Alive(h) /\ i \in Deliverable(h)
  /\ Established(h, net[h][i].src) = {}
  /\ s \in Listener(h)

\* What handlePacket_handleACK has made of socket s.
Acked(h, i, s) == OnSegment(Enter(sock[s]), net[h][i])

\* The handlers that change nothing but their own socket.
Handle(h, i, s, Handler(_, _)) ==
  /\ \E c \in {Acked(h, i, s)} : Commit(s, Handler(c, net[h][i]), Without(h, i))
  /\ UNCHANGED <<tables, apps, bounds>>

ReceiveFIN1(h, i, s) ==
  /\ ToEstablished(h, i, s)
  /\ sock[s].TCPState = "ESTABLISHED" /\ "FIN" \in net[h][i].flags
  /\ Handle(h, i, s, handleFIN1)

ReceiveData(h, i, s) ==
  /\ ToEstablished(h, i, s)
  /\ sock[s].TCPState = "ESTABLISHED" /\ "FIN" \notin net[h][i].flags
  /\ Handle(h, i, s, handleSaveData)

\* Any segment at all moves FIN_WAIT_1 to FIN_WAIT_2.
ReceiveFIN2(h, i, s) ==
  /\ ToEstablished(h, i, s)
  /\ sock[s].TCPState = "FIN_WAIT_1" /\ "FIN" \notin net[h][i].flags
  /\ Handle(h, i, s, handleFIN2)

\* From FIN_WAIT_1 the code runs handleFIN2 first; what that assigns,
\* handleFIN3 assigns again.
ReceiveFIN3(h, i, s) ==
  /\ ToEstablished(h, i, s)
  /\ sock[s].TCPState \in {"FIN_WAIT_1", "FIN_WAIT_2"}
  /\ "FIN" \in net[h][i].flags
  /\ Handle(h, i, s, handleFIN3)

\* Any segment at all moves LAST_ACK to CLOSED.
ReceiveFIN4(h, i, s) ==
  /\ ToEstablished(h, i, s)
  /\ sock[s].TCPState = "LAST_ACK"
  /\ Handle(h, i, s, handleFIN4)

ReceiveOnlyAck(h, i, s) ==
  /\ ToEstablished(h, i, s)
  /\ \/ sock[s].TCPState \in {"TIME_WAIT", "CLOSED"}
     \/ sock[s].TCPState = "FIN_WAIT_2" /\ "FIN" \notin net[h][i].flags
  /\ Handle(h, i, s, Ignore)

\* Children that no table and no application refers to; a leaked socket's
\* name is used again.
FreeChildren ==
  Children \ (establishedTable \cup synRcvdList \cup acceptList
               \cup (IF spc = "done" THEN {} ELSE {csk}))

\* handleSYN1 does not look at the flags: any segment to a listening socket
\* opens a connection.
ReceiveSYN1(h, i, s, k) ==
  /\ ToListener(h, i, s)
  /\ sock[s].TCPState = "LISTEN"
  /\ k \in FreeChildren
  /\ \E child \in Fresh(Server, net[h][i].src),
        c \in {handleSYN1(Acked(h, i, s), net[h][i])} :
           IF c.ok
           THEN /\ sock' = [sock EXCEPT ![s] = c.sk, ![k] = child]
                /\ net' = Transmit(Without(h, i), c.tx)
                /\ synRcvdList' = synRcvdList \cup {k}
                /\ UNCHANGED aborted
           ELSE /\ aborted' = aborted \cup {h}
                /\ net' = Without(h, i)
                /\ UNCHANGED <<sock, synRcvdList>>
  /\ UNCHANGED <<listenTable, establishedTable, acceptList, apps, bounds>>

\* handleSYN2 if the segment carries ACK, then handleSYN3 if it carries SYN
ReceiveSYN3(h, i, s) ==
  /\ ToListener(h, i, s)
  /\ sock[s].TCPState = "SYN_SENT"
  /\ Handle(h, i, s, handleSYN23)

\* The child waiting for this peer in synRcvdList
SynRcvd(peer) == {k \in synRcvdList : sock[k].peer = peer}

\* Mutant: the child is not erased from synRcvdList.
ReceiveSYN4_NotErased(h, i, s, k) ==
  /\ ToListener(h, i, s)
  /\ sock[s].TCPState = "SYN_RECV"
  /\ k \in SynRcvd(net[h][i].src)
  /\ \E p \in {net[h][i]}, c \in {Acked(h, i, s)} :
       sock' = [sock EXCEPT ![s] = [c.sk EXCEPT !.TCPState = "LISTEN"],
                            ![k] = handleSYN4(@, p, c.sk.snd_nxt)]
  /\ acceptList' = acceptList \cup {k}
  /\ establishedTable' = establishedTable \cup {k}
  /\ net' = Without(h, i)
  /\ UNCHANGED <<aborted, listenTable, synRcvdList, apps, bounds>>

\* handleSYN4 does not look at the flags either.
ReceiveSYN4(h, i, s, k) ==
  /\ ToListener(h, i, s)
  /\ sock[s].TCPState = "SYN_RECV"
  /\ k \in SynRcvd(net[h][i].src)
  /\ \E p \in {net[h][i]}, c \in {Acked(h, i, s)} :
         IF c.ok
         THEN /\ sock' = [sock EXCEPT ![s] = [c.sk EXCEPT !.TCPState = "LISTEN"],
                                      ![k] = handleSYN4(@, p, c.sk.snd_nxt)]
              /\ synRcvdList' = synRcvdList \ {k}
              /\ acceptList' =
                   {a \in acceptList : sock[a].peer # p.src} \cup {k}
              /\ establishedTable' = establishedTable \cup {k}
              /\ UNCHANGED aborted
         ELSE /\ aborted' = aborted \cup {h}
              /\ UNCHANGED <<sock, synRcvdList, acceptList, establishedTable>>
  /\ net' = Without(h, i)
  /\ UNCHANGED <<listenTable, apps, bounds>>

\* synRcvdList.find(peer) is end(), and its ->second is dereferenced: the
\* process dies on the wild pointer.
ReceiveSYN4NoChild(h, i, s) ==
  /\ ToListener(h, i, s)
  /\ sock[s].TCPState = "SYN_RECV"
  /\ SynRcvd(net[h][i].src) = {}
  /\ aborted' = aborted \cup {h}
  /\ net' = Without(h, i)
  /\ UNCHANGED <<sock, tables, apps, bounds>>

\* A client's socket that connect has not yet moved: ESTABLISHED, but still
\* in listenTable, where handlePacket only looks at the ack.
ReceiveBeforeMove(h, i, s) ==
  /\ ToListener(h, i, s)
  /\ sock[s].TCPState = "ESTABLISHED"
  /\ Handle(h, i, s, Ignore)

\* No socket, or no process, takes the segment.
ReceiveNoSocket(h, i) ==
  /\ i \in Deliverable(h)
  /\ Alive(h) => Established(h, net[h][i].src) = {} /\ Listener(h) = {}
  /\ net' = Without(h, i)
  /\ UNCHANGED <<sock, tables, aborted, apps, bounds>>

-----------------------------------------------------------------------------
(* The timer threads.                                                      *)

MayTimeOut(s) ==
  IF Prompt THEN Quiet
  ELSE timeouts < MaxTimeouts /\ \A h \in Hosts : Len(net[h]) < MaxInFlight

\* ACKTimeOutThread finds the timer of s expired.  The counters
\* ACKPendingTime and ACKTimeOut only decide when; a pass that finds several
\* timers expired is a sequence of these steps.
AckTimeOut(s) ==
  /\ s \in listenTable \cup establishedTable
  /\ Alive(sock[s].local)
  /\ sock[s].timingOpen /\ MayTimeOut(s)
  /\ Commit(s, HandleTimeOut(Enter(sock[s])), net)
  /\ timeouts' = IF Prompt THEN timeouts ELSE timeouts + 1
  /\ UNCHANGED <<tables, apps, lost, duplicated>>

\* timeWaitThread: TIME_WAIT lasts 2 * TCP_MSL seconds
TimeWaitOver(s) ==
  /\ s \in establishedTable
  /\ Alive(sock[s].local)
  /\ sock[s].TCPState = "TIME_WAIT"
  /\ Prompt => LongSleepOver(s)
  /\ sock' = [sock EXCEPT ![s].TCPState = "CLOSED"]
  /\ UNCHANGED <<tables, net, aborted, apps, bounds>>

-----------------------------------------------------------------------------

Client(c) ==
  \/ ClientConnect(c) \/ ClientConnected(c)
  \/ ClientWriteBegin(c) \/ ClientWrite(c) \/ ClientWritten(c)
  \/ ClientClose(c) \/ ClientClosed(c)

ServerApp ==
  \/ ServerListen \/ (\E k \in Children : ServerAccept(k))
  \/ ServerReadSleep \/ ServerReadWake \/ ServerRead
  \/ ServerClose

ReceiveAt(h, i) ==
  \/ ReceiveNoSocket(h, i)
  \/ \E s \in Sock :
       \/ ReceiveFIN1(h, i, s) \/ ReceiveData(h, i, s)
       \/ ReceiveFIN2(h, i, s) \/ ReceiveFIN3(h, i, s) \/ ReceiveFIN4(h, i, s)
       \/ ReceiveOnlyAck(h, i, s)
       \/ ReceiveSYN3(h, i, s) \/ ReceiveBeforeMove(h, i, s)
       \/ ReceiveSYN4NoChild(h, i, s)
       \/ \E k \in Children : ReceiveSYN1(h, i, s, k) \/ ReceiveSYN4(h, i, s, k)

Receive(h) == \E i \in DOMAIN net[h] : ReceiveAt(h, i)

Network(h) == \E i \in DOMAIN net[h] : Lose(h, i) \/ Duplicate(h, i)

Next ==
  \/ \E c \in Clients : Client(c)
  \/ ServerApp
  \/ \E h \in Hosts : Receive(h) \/ Network(h)
  \/ \E s \in Sock : AckTimeOut(s) \/ TimeWaitOver(s)

Spec == Init /\ [][Next]_vars

\* Every thread keeps running, a segment that is not lost arrives, an armed
\* timer goes off and a sleep ends: the last three can be enabled only now
\* and then under Prompt, where they wait for the faster threads.
Fairness ==
  /\ \A c \in Clients : WF_vars(Client(c)) /\ SF_vars(ClientClose(c))
  /\ WF_vars(ServerApp)
  /\ \A h \in Hosts : WF_vars(Receive(h))
  /\ \A s \in Sock : SF_vars(AckTimeOut(s)) /\ SF_vars(TimeWaitOver(s))

FairSpec == Spec /\ Fairness
=============================================================================
