-------------------------- MODULE TCPStreamProofs --------------------------
(***************************************************************************)
(* Theorems about the connections and the streams of TCPProtocol, for      *)
(* every number of clients, every file length and every loss, duplication, *)
(* reordering and timing.  ConnInv says who is connected to whom and how a *)
(* FIN travels; StreamInv follows the bytes of each client's file from its *)
(* send buffer over the wires into the ring of the child that serves it    *)
(* and on to the server's application.  DeathsExplained says which asserts *)
(* can fail.                                                               *)
(***************************************************************************)
EXTENDS TCPProofs

-----------------------------------------------------------------------------
(* Who is connected to whom, and how a FIN travels.                        *)

On(flight, h) == {flight[h][i] : i \in DOMAIN flight[h]}

InFlight(h) == On(net, h)

HasFin(sk) == \E e \in Logged(sk) : "FIN" \in e.flags

\* The application of client c has closed its socket.
Closing(c) == cpc[c] \in {"close", "done"}

\* The server has taken client c's FIN.
FinSeen(c) ==
  \/ spc = "done"
  \/ \E k \in Peers(c) : sock[k].TCPState \in {"LAST_ACK", "CLOSED"}

\* Every socket stays at its host, the clients talk to the server, and every
\* segment is on its way between a client and the server.
Homes ==
  /\ \A s \in Sock : sock[s].local = IF s \in Hosts THEN s ELSE Server
  /\ \A c \in Clients : sock[c].peer = Server
  /\ \A s \in Children \cup {Server} : sock[s].peer \in Clients \cup {NoPeer}
  /\ \A m \in InFlight(Server) : m.src \in Clients
  /\ \A c \in Clients : \A m \in InFlight(c) : m.src = Server

\* The states a client's socket can be in, and the table that holds it, by
\* the place of its application in TCPClient.
ClientLife(c) ==
  /\ c \in listenTable => cpc[c] = "connect"
  /\ c \in establishedTable => cpc[c] \in {"connected", "write", "sleep", "close"}
  /\ cpc[c] = "start" => sock[c].TCPState = "CLOSED" /\ sock[c].rcv_nxt = 0
  /\ cpc[c] = "connect" => sock[c].TCPState \in {"SYN_SENT", "ESTABLISHED"}
  /\ cpc[c] \in {"connected", "write", "sleep"} => sock[c].TCPState = "ESTABLISHED"
  /\ cpc[c] = "close" =>
       sock[c].TCPState \in {"FIN_WAIT_1", "FIN_WAIT_2", "TIME_WAIT", "CLOSED"}
  /\ cpc[c] = "done" => sock[c].TCPState = "CLOSED"
  /\ cpc[c] = "write" => sock[c].snd_nxt <= maxSend[c]

Lives ==
  /\ \A c \in Clients : ClientLife(c)
  /\ Server \notin establishedTable
  /\ sock[Server].TCPState \in {"CLOSED", "LISTEN", "SYN_RECV"}
  /\ \A k \in Children : sock[k].TCPState \in {"CLOSED", "ESTABLISHED", "LAST_ACK"}

\* A FIN is on the wire or waits to be resent only when its sender has closed:
\* the server's side closes after it has taken the client's FIN.
Fins ==
  /\ ~HasFin(sock[Server])
  /\ \A c \in Clients : HasFin(sock[c]) => Closing(c)
  /\ \A c \in Clients : \A m \in InFlight(Server) :
       "FIN" \in m.flags /\ m.src = c => Closing(c)
  /\ \A c \in Clients, k \in Children :
       HasFin(sock[k]) /\ sock[k].peer = c => Closing(c) /\ FinSeen(c)
  /\ \A c \in Clients : \A m \in InFlight(c) :
       "FIN" \in m.flags => Closing(c) /\ FinSeen(c)
  /\ \A c \in Clients : sock[c].TCPState = "TIME_WAIT" => FinSeen(c)

ConnInv == Homes /\ Lives /\ Fins /\ OneSocketPerKey

\* A step in which only the sockets in F may log or send a first FIN; what it
\* puts on the wire goes from a socket to that socket's peer.
Talk(F) ==
  /\ \A s \in Sock : sock'[s].local = sock[s].local
  /\ \A c \in Clients : sock'[c].peer = sock[c].peer
  /\ \A s \in Children \cup {Server} : sock'[s].peer \in Clients \cup {NoPeer}
  /\ \A s \in Sock :
       HasFin(sock'[s]) => s \in F \/ (HasFin(sock[s]) /\ sock'[s].peer = sock[s].peer)
  /\ \A h \in Hosts : \A m \in InFlight(h)' :
       \/ m \in InFlight(h)
       \/ \E s \in Sock :
            /\ m.src = sock[s].local /\ h = sock'[s].peer
            /\ "FIN" \in m.flags =>
                 s \in F \/ (HasFin(sock[s]) /\ sock'[s].peer = sock[s].peer)

LEMMA SockCases ==
  /\ Hosts = Clients \cup {Server} /\ Sock = Hosts \cup Children
  /\ Server \notin Clients /\ Server \notin Children /\ Clients \cap Children = {}
  /\ NoPeer \notin Hosts
  BY SocketAssumption, ProtocolAssumption DEF Hosts, Sock

LEMMA HomesStep ==
  ASSUME Homes, NEW F, Talk(F) PROVE Homes'
<1>1. \A s \in Sock : sock'[s].local = IF s \in Hosts THEN s ELSE Server
  BY DEF Talk, Homes
<1>2. \A c \in Clients : sock'[c].peer = Server  BY DEF Talk, Homes
<1>3. \A s \in Children \cup {Server} : sock'[s].peer \in Clients \cup {NoPeer}
  BY DEF Talk
<1>4. ASSUME NEW h \in Hosts, NEW m \in InFlight(h)', m \notin InFlight(h)
      PROVE  IF h = Server THEN m.src \in Clients ELSE m.src = Server
  <2>1. PICK s \in Sock : m.src = sock[s].local /\ h = sock'[s].peer
    BY <1>4 DEF Talk
  <2>2. sock[s].local = IF s \in Hosts THEN s ELSE Server  BY DEF Homes
  <2>3. CASE s \in Clients  BY <1>2, <2>1, <2>2, <2>3, SockCases
  <2>4. CASE s \in Children \cup {Server}  BY <1>3, <2>1, <2>2, <2>4, SockCases
  <2> QED  BY <2>3, <2>4, SockCases
<1>5. \A m \in InFlight(Server)' : m.src \in Clients
  BY <1>4, SockCases DEF Homes
<1>6. \A c \in Clients : \A m \in InFlight(c)' : m.src = Server
  BY <1>4, SockCases DEF Homes
<1> QED  BY <1>1, <1>2, <1>3, <1>5, <1>6 DEF Homes

LEMMA FinsStep ==
  ASSUME Homes, Fins, NEW F, Talk(F),
         \A c \in Clients : Closing(c) => Closing(c)',
         \A c \in Clients : FinSeen(c) => FinSeen(c)',
         \A c \in Clients : sock'[c].TCPState = "TIME_WAIT" =>
           sock[c].TCPState = "TIME_WAIT" \/ FinSeen(c)',
         F \subseteq Clients \cup Children,
         \A c \in F \cap Clients : Closing(c)',
         \A k \in F \cap Children : \A c \in Clients :
           sock'[k].peer = c => Closing(c)' /\ FinSeen(c)'
  PROVE  Fins'
<1>1. ~HasFin(sock'[Server])  BY SockCases DEF Fins, Talk
<1>2. \A c \in Clients : HasFin(sock'[c]) => Closing(c)'
  BY SockCases DEF Fins, Talk
<1>3. ASSUME NEW c \in Clients, NEW k \in Children, HasFin(sock'[k]), sock'[k].peer = c
      PROVE  Closing(c)' /\ FinSeen(c)'
  <2>1. CASE k \in F  BY <1>3, <2>1
  <2>2. CASE k \notin F
    <3>1. HasFin(sock[k]) /\ sock[k].peer = c  BY <1>3, <2>2, SockCases DEF Talk
    <3> QED  BY <3>1 DEF Fins
  <2> QED  BY <2>1, <2>2

\* What is new on the wire comes from a socket
<1>4. ASSUME NEW h \in Hosts, NEW m \in InFlight(h)', m \notin InFlight(h), "FIN" \in m.flags
      PROVE  \E s \in Clients \cup Children :
               /\ m.src = sock[s].local /\ h = sock'[s].peer
               /\ s \in F \/ (HasFin(sock[s]) /\ sock'[s].peer = sock[s].peer)
  BY <1>4, SockCases DEF Talk, Fins
<1>5. ASSUME NEW c \in Clients, NEW m \in InFlight(Server)', "FIN" \in m.flags, m.src = c
      PROVE  Closing(c)'
  <2>1. CASE m \in InFlight(Server)  BY <1>5, <2>1 DEF Fins
  <2>2. CASE m \notin InFlight(Server)
    <3>1. PICK s \in Clients \cup Children :
            /\ m.src = sock[s].local /\ Server = sock'[s].peer
            /\ s \in F \/ (HasFin(sock[s]) /\ sock'[s].peer = sock[s].peer)
      BY <1>4, <1>5, <2>2, SockCases
    <3>2. s \in Clients  BY <3>1, SockCases DEF Talk
    <3>3. s = c  BY <1>5, <3>1, <3>2, SockCases DEF Homes
    <3> QED  BY <3>1, <3>2, <3>3 DEF Fins
  <2> QED  BY <2>1, <2>2
<1>6. ASSUME NEW c \in Clients, NEW m \in InFlight(c)', "FIN" \in m.flags
      PROVE  Closing(c)' /\ FinSeen(c)'
  <2>1. CASE m \in InFlight(c)  BY <1>6, <2>1 DEF Fins
  <2>2. CASE m \notin InFlight(c)
    <3>1. PICK s \in Clients \cup Children :
            /\ m.src = sock[s].local /\ c = sock'[s].peer
            /\ s \in F \/ (HasFin(sock[s]) /\ sock'[s].peer = sock[s].peer)
      BY <1>4, <1>6, <2>2, SockCases
    <3>2. s \in Children  BY <3>1, SockCases DEF Talk, Homes
    <3>3. CASE s \in F  BY <3>1, <3>2, <3>3
    <3>4. CASE HasFin(sock[s]) /\ sock'[s].peer = sock[s].peer
      <4>1. Closing(c) /\ FinSeen(c)  BY <3>1, <3>2, <3>4 DEF Fins
      <4> QED  BY <4>1
    <3> QED  BY <3>1, <3>3, <3>4
  <2> QED  BY <2>1, <2>2
<1>7. \A c \in Clients : sock'[c].TCPState = "TIME_WAIT" => FinSeen(c)'
  BY DEF Fins
<1> HIDE DEF Talk
<1> QED  BY <1>1, <1>2, <1>3, <1>5, <1>6, <1>7 DEF Fins

LEMMA TransmitOn ==
  ASSUME NEW flight \in Wires, NEW tx \in Seq(Segment), NEW h \in Hosts,
         NEW m \in On(Transmit(flight, tx), h), m \notin On(flight, h)
  PROVE  \E i, j \in DOMAIN tx : m = tx[i] /\ h = tx[j].dst
<1>1. tx # <<>>  BY DEF Transmit
<1>2. 1 \in DOMAIN tx /\ Head(tx) = tx[1]  BY <1>1
<1>3. Transmit(flight, tx) = [flight EXCEPT ![Head(tx).dst] = @ \o tx]
  BY <1>1 DEF Transmit
<1>4. CASE h # Head(tx).dst
  <2>1. Transmit(flight, tx)[h] = flight[h]  BY <1>3, <1>4 DEF Wires
  <2> QED  BY <2>1 DEF On
<1>5. CASE h = Head(tx).dst
  <2>1. Transmit(flight, tx)[h] = flight[h] \o tx /\ flight[h] \in Seq(Segment)
    BY <1>3, <1>5 DEF Wires
  <2> DEFINE r == flight[h] \o tx
  <2>2. PICK i \in DOMAIN r : m = r[i]  BY <2>1 DEF On
  <2>3. \/ i \in DOMAIN flight[h] /\ r[i] = flight[h][i]
        \/ i - Len(flight[h]) \in DOMAIN tx /\ r[i] = tx[i - Len(flight[h])]
    BY <2>1, <2>2
  <2> HIDE DEF r
  <2>4. ~(i \in DOMAIN flight[h] /\ r[i] = flight[h][i])  BY <2>2 DEF On
  <2> QED  BY <1>2, <1>5, <2>2, <2>3, <2>4
<1> QED  BY <1>4, <1>5

LEMMA RemoveAtFrom ==
  ASSUME NEW w \in Seq(Segment), NEW i \in DOMAIN w, NEW j \in DOMAIN RemoveAt(w, i)
  PROVE  \E k \in DOMAIN w : RemoveAt(w, i)[j] = w[k]
<1> DEFINE a == SubSeq(w, 1, i - 1)
           b == SubSeq(w, i + 1, Len(w))
<1>1. i \in 1 .. Len(w) /\ Len(w) \in Nat /\ DOMAIN w = 1 .. Len(w)  OBVIOUS
<1>2. /\ a \in Seq(Segment) /\ Len(a) = i - 1
      /\ \A n \in 1 .. i - 1 : a[n] = w[n]
  <2>1. \A n \in 1 .. i - 1 : w[n] \in Segment  BY <1>1
  <2>2. /\ a \in Seq(Segment)
        /\ Len(a) = IF 1 <= i - 1 THEN (i - 1) - 1 + 1 ELSE 0
        /\ \A n \in 1 .. (i - 1) - 1 + 1 : a[n] = w[1 + n - 1]
    BY <1>1, <2>1, SubSeqProperties
  <2>3. (i - 1) - 1 + 1 = i - 1 /\ \A n \in 1 .. i - 1 : 1 + n - 1 = n  BY <1>1
  <2>4. Len(a) = i - 1  BY <1>1, <2>2
  <2> HIDE DEF a
  <2> QED  BY <2>2, <2>3, <2>4
<1>3. /\ b \in Seq(Segment) /\ Len(b) = Len(w) - i
      /\ \A n \in 1 .. Len(w) - i : b[n] = w[i + n]
  <2>1. \A n \in i + 1 .. Len(w) : w[n] \in Segment  BY <1>1
  <2>2. /\ b \in Seq(Segment)
        /\ Len(b) = IF i + 1 <= Len(w) THEN Len(w) - (i + 1) + 1 ELSE 0
        /\ \A n \in 1 .. Len(w) - (i + 1) + 1 : b[n] = w[(i + 1) + n - 1]
    BY <1>1, <2>1, SubSeqProperties, SMTT(25)
  <2>3. /\ Len(w) - (i + 1) + 1 = Len(w) - i
        /\ \A n \in 1 .. Len(w) - i : (i + 1) + n - 1 = i + n
    BY <1>1
  <2>4. Len(b) = Len(w) - i  BY <1>1, <2>2
  <2> HIDE DEF b
  <2> QED  BY <2>2, <2>3, <2>4
<1>4. RemoveAt(w, i) = a \o b  BY DEF RemoveAt
<1> HIDE DEF a, b
<1>5. j \in 1 .. Len(a) + Len(b)  BY <1>2, <1>3, <1>4
<1>6. CASE j <= Len(a)
  <2>1. (a \o b)[j] = a[j] /\ j \in 1 .. i - 1  BY <1>1, <1>2, <1>3, <1>5, <1>6
  <2> QED  BY <1>1, <1>2, <1>4, <2>1
<1>7. CASE j > Len(a)
  <2>1. (a \o b)[j] = b[j - Len(a)] /\ j - Len(a) \in 1 .. Len(w) - i
    BY <1>1, <1>2, <1>3, <1>5, <1>7
  <2>2. i + (j - Len(a)) \in DOMAIN w  BY <1>1, <1>2, <2>1
  <2> QED  BY <1>3, <1>4, <2>1, <2>2
<1> QED  BY <1>2, <1>5, <1>6, <1>7

LEMMA WithoutOn ==
  ASSUME TypeOK, NEW h \in Hosts, NEW i \in DOMAIN net[h], NEW g \in Hosts
  PROVE  On(Without(h, i), g) \subseteq InFlight(g)
<1>1. net \in Wires /\ net[h] \in Seq(Segment)  BY WiresType DEF TypeOK
<1>2. CASE g # h  BY <1>1, <1>2 DEF Without, On, InFlight, Wires
<1>3. CASE g = h
  <2>1. Without(h, i)[g] = RemoveAt(net[h], i)  BY <1>1, <1>3 DEF Without, Wires
  <2>2. \A j \in DOMAIN RemoveAt(net[h], i) :
          \E k \in DOMAIN net[h] : RemoveAt(net[h], i)[j] = net[h][k]
    BY <1>1, RemoveAtFrom
  <2> QED  BY <1>3, <2>1, <2>2 DEF On, InFlight
<1> QED  BY <1>2, <1>3

LEMMA PacketFrom ==
  ASSUME NEW sk, NEW entries, NEW m \in Packets(sk, entries)
  PROVE  m.src = sk.local /\ m.dst = sk.peer /\ \E e \in entries : m.flags = e.flags
  BY DEF Packets, SegmentOf

\* A critical section on one socket, which keeps its peer
LEMMA CommitTalk ==
  ASSUME TypeOK, Homes, NEW s \in Sock, NEW d \in Context, NEW new,
         d.sk.local = sock[s].local, d.sk.peer = sock[s].peer,
         Logged(d.sk) \subseteq Logged(sock[s]) \cup new,
         Said(d) \subseteq Packets(sock[s], Logged(sock[s])) \cup Packets(d.sk, new),
         NEW flight \in Wires, \A g \in Hosts : On(flight, g) \subseteq InFlight(g),
         Commit(s, d, flight),
         NEW F, \A e \in new : "FIN" \in e.flags => s \in F
  PROVE  \/ Talk(F) /\ sock' = [sock EXCEPT ![s] = d.sk]
         \/ Talk({}) /\ sock' = sock
<1>1. sock \in [Sock -> tcp_sock] /\ d.tx \in Seq(Segment)  BY DEF TypeOK, Context
<1>2. CASE d.ok
  <2>1. sock' = [sock EXCEPT ![s] = d.sk] /\ net' = Transmit(flight, d.tx)
    BY <1>2 DEF Commit
  <2>2. \A r \in Sock : sock'[r] = IF r = s THEN d.sk ELSE sock[r]  BY <1>1, <2>1
  <2>3. HasFin(d.sk) => s \in F \/ HasFin(sock[s])  BY DEF HasFin
  <2>4. \A r \in Sock :
          /\ sock'[r].local = sock[r].local /\ sock'[r].peer = sock[r].peer
          /\ HasFin(sock'[r]) => r \in F \/ HasFin(sock[r])
    BY <2>2, <2>3
  <2>5. ASSUME NEW h \in Hosts, NEW m \in InFlight(h)', m \notin InFlight(h)
        PROVE  /\ m.src = sock[s].local /\ h = sock[s].peer
               /\ "FIN" \in m.flags => s \in F \/ HasFin(sock[s])
    <3>1. PICK i \in DOMAIN d.tx, j \in DOMAIN d.tx : m = d.tx[i] /\ h = d.tx[j].dst
      <4>1. m \in On(Transmit(flight, d.tx), h) /\ m \notin On(flight, h)
        BY <2>1, <2>5 DEF InFlight
      <4> QED  BY <1>1, <4>1, TransmitOn
    <3>2. m \in Said(d) /\ d.tx[j] \in Said(d)  BY <3>1 DEF Said
    <3>3. \A q \in Said(d) : /\ q.src = sock[s].local /\ q.dst = sock[s].peer
                              /\ \E e \in Logged(sock[s]) \cup new : q.flags = e.flags
      BY PacketFrom
    <3> QED  BY <3>1, <3>2, <3>3 DEF HasFin
  <2>6. \A r \in Children \cup {Server} : sock'[r].peer \in Clients \cup {NoPeer}
    BY <2>4, SockCases DEF Homes
  <2> QED  BY <2>1, <2>4, <2>5, <2>6, SockCases DEF Talk
<1>3. CASE ~d.ok
  <2>1. sock' = sock /\ net' = flight  BY <1>3 DEF Commit
  <2> QED  BY <2>1 DEF Talk, Homes, InFlight
<1> QED  BY <1>2, <1>3

\* A step that sends nothing new
LEMMA QuietTalk ==
  ASSUME Homes, sock' = sock, \A h \in Hosts : InFlight(h)' \subseteq InFlight(h)
  PROVE  Talk({})
  BY DEF Talk, Homes

LEMMA OneKeyKept ==
  ASSUME TypeOK, Homes, OneSocketPerKey, NEW F, Talk(F), establishedTable' \subseteq Sock,
         Server \notin establishedTable', establishedTable' \cap Children \subseteq establishedTable,
         \A k \in establishedTable \cap Children : sock'[k].peer = sock[k].peer
  PROVE  OneSocketPerKey'
<1> SUFFICES ASSUME NEW s \in establishedTable', NEW t \in establishedTable',
                    sock'[s].local = sock'[t].local, sock'[s].peer = sock'[t].peer
             PROVE  s = t
  BY DEF OneSocketPerKey
<1>1. /\ sock'[s].local = IF s \in Hosts THEN s ELSE Server
      /\ sock'[t].local = IF t \in Hosts THEN t ELSE Server
  BY HomesStep DEF Homes
<1>2. CASE s \in Children /\ t \in Children
  BY <1>2 DEF OneSocketPerKey, Talk, TypeOK
<1>3. CASE s \in Clients \/ t \in Clients  BY <1>1, <1>3, SockCases
<1> QED  BY <1>2, <1>3, SockCases

LEMMA FinSeenKept ==
  ASSUME NEW c \in Clients, FinSeen(c), TypeOK,
         spc = "done" => spc' = "done",
         \A k \in establishedTable \cap Children :
           /\ sock'[k].peer = sock[k].peer
           /\ sock[k].TCPState \in {"LAST_ACK", "CLOSED"} =>
                sock'[k].TCPState \in {"LAST_ACK", "CLOSED"}
           /\ k \in establishedTable' \/ spc' = "done"
  PROVE  FinSeen(c)'
  BY DEF FinSeen, Peers

LEMMA ConnStep ==
  ASSUME TypeOK, TypeOK', ConnInv, NEW F, Talk(F), F \subseteq Clients \cup Children,
         \A c \in Clients : ClientLife(c)',
         Server \notin establishedTable',
         sock'[Server].TCPState \in {"CLOSED", "LISTEN", "SYN_RECV"},
         \A k \in Children : sock'[k].TCPState \in {"CLOSED", "ESTABLISHED", "LAST_ACK"},
         \A c \in Clients : Closing(c) => Closing(c)',
         spc = "done" => spc' = "done",
         \A k \in establishedTable \cap Children :
           /\ sock'[k].peer = sock[k].peer
           /\ sock[k].TCPState \in {"LAST_ACK", "CLOSED"} =>
                sock'[k].TCPState \in {"LAST_ACK", "CLOSED"}
           /\ k \in establishedTable' \/ spc' = "done",
         \A c \in Clients : sock'[c].TCPState = "TIME_WAIT" =>
           sock[c].TCPState = "TIME_WAIT" \/ FinSeen(c),
         \A c \in F \cap Clients : Closing(c)',
         \A k \in F \cap Children :
           /\ k \in establishedTable' /\ sock'[k].TCPState = "LAST_ACK"
           /\ \A c \in Clients : sock'[k].peer = c => Closing(c),
         \/ OneSocketPerKey'
         \/ establishedTable' \cap Children \subseteq establishedTable
  PROVE  ConnInv'
<1>1. Homes'  BY HomesStep DEF ConnInv
<1>2. \A c \in Clients : FinSeen(c) => FinSeen(c)'  BY FinSeenKept
<1>3. \A k \in F \cap Children : \A c \in Clients :
        sock'[k].peer = c => Closing(c)' /\ FinSeen(c)'
  BY DEF FinSeen, Peers
<1>4. Fins'  BY <1>2, <1>3, FinsStep DEF ConnInv
<1>5. Lives'  BY DEF Lives
<1>6. OneSocketPerKey'
  BY OneKeyKept DEF ConnInv, TypeOK
<1> QED  BY <1>1, <1>4, <1>5, <1>6 DEF ConnInv

\* A step that leaves the tables and the applications alone
LEMMA ConnQuiet ==
  ASSUME TypeOK, TypeOK', ConnInv, NEW F, Talk(F), F \subseteq Children,
         UNCHANGED <<listenTable, establishedTable, cpc, maxSend, spc>>,
         \A c \in Clients :
           /\ sock'[c].rcv_nxt = sock[c].rcv_nxt \/ cpc[c] # "start"
           /\ \/ sock'[c].TCPState = sock[c].TCPState
              \/ cpc[c] = "connect" /\ sock'[c].TCPState = "ESTABLISHED"
              \/ /\ cpc[c] = "close"
                 /\ sock'[c].TCPState \in {"FIN_WAIT_2", "TIME_WAIT", "CLOSED"}
                 /\ sock'[c].TCPState = "TIME_WAIT" => FinSeen(c)
           /\ cpc[c] = "write" => sock'[c].snd_nxt <= maxSend[c],
         sock'[Server].TCPState \in {"CLOSED", "LISTEN", "SYN_RECV"},
         \A k \in Children : sock'[k].TCPState \in {"CLOSED", "ESTABLISHED", "LAST_ACK"},
         \A k \in establishedTable \cap Children :
           /\ sock'[k].peer = sock[k].peer
           /\ sock[k].TCPState \in {"LAST_ACK", "CLOSED"} =>
                sock'[k].TCPState \in {"LAST_ACK", "CLOSED"},
         \A k \in F :
           /\ k \in establishedTable /\ sock'[k].TCPState = "LAST_ACK"
           /\ \A c \in Clients : sock'[k].peer = c => Closing(c)
  PROVE  ConnInv'
<1>1. ASSUME NEW c \in Clients PROVE ClientLife(c)'
  <2>1. ClientLife(c)  BY DEF ConnInv, Lives
  <2>2. /\ (c \in listenTable)' = (c \in listenTable)
        /\ (c \in establishedTable)' = (c \in establishedTable)
        /\ cpc'[c] = cpc[c] /\ maxSend'[c] = maxSend[c]
    OBVIOUS
  <2> QED  BY <2>1, <2>2 DEF ClientLife
<1>2. Server \notin establishedTable'  BY DEF ConnInv, Lives
<1>3. \A c \in Clients : Closing(c) <=> Closing(c)'  BY DEF Closing
<1>4. \A c \in Clients : sock'[c].TCPState = "TIME_WAIT" =>
        sock[c].TCPState = "TIME_WAIT" \/ FinSeen(c)
  OBVIOUS
<1>5. F \cap Clients = {} /\ F \cap Children = F  BY SockCases
<1> QED  BY <1>1, <1>2, <1>3, <1>4, <1>5, ConnStep

\* The same for a step that leaves no trace in any socket
LEMMA ConnStill ==
  ASSUME TypeOK, TypeOK', ConnInv, Talk({}), sock' = sock,
         UNCHANGED <<listenTable, establishedTable, cpc, maxSend, spc>>
  PROVE  ConnInv'
<1>1. /\ \A c \in Clients :
           /\ sock'[c] = sock[c]
           /\ cpc[c] = "write" => sock'[c].snd_nxt <= maxSend[c]
      /\ sock'[Server].TCPState \in {"CLOSED", "LISTEN", "SYN_RECV"}
      /\ \A k \in Children :
           sock'[k] = sock[k] /\ sock'[k].TCPState \in {"CLOSED", "ESTABLISHED", "LAST_ACK"}
  BY DEF ConnInv, Lives, ClientLife
<1>2. {} \subseteq Children  OBVIOUS
<1> QED  BY <1>1, <1>2, ConnQuiet

\* A critical section on socket s, which ends with the fields of sk
LEMMA ConnCommit ==
  ASSUME TypeOK, TypeOK', ConnInv, NEW s \in Sock,
         NEW c, NEW d \in Context, NEW sk, NEW new,
         Repeats(sock[s], c), Says(c, d, new), KeepsRest(sk, d.sk),
         sk.local = sock[s].local, sk.peer = sock[s].peer,
         NEW flight \in Wires, \A g \in Hosts : On(flight, g) \subseteq InFlight(g),
         Commit(s, d, flight),
         UNCHANGED <<listenTable, establishedTable, cpc, maxSend, spc>>,
         \A e \in new : "FIN" \in e.flags =>
           /\ s \in establishedTable \cap Children /\ sk.TCPState = "LAST_ACK"
           /\ \A g \in Clients : sock[s].peer = g => Closing(g),
         s \in Clients =>
           /\ sk.rcv_nxt = sock[s].rcv_nxt \/ cpc[s] # "start"
           /\ \/ sk.TCPState = sock[s].TCPState
              \/ cpc[s] = "connect" /\ sk.TCPState = "ESTABLISHED"
              \/ /\ cpc[s] = "close"
                 /\ sk.TCPState \in {"FIN_WAIT_2", "TIME_WAIT", "CLOSED"}
                 /\ sk.TCPState = "TIME_WAIT" => FinSeen(s)
           /\ cpc[s] = "write" => sk.snd_nxt <= maxSend[s],
         s = Server => sk.TCPState \in {"CLOSED", "LISTEN", "SYN_RECV"},
         s \in Children =>
           /\ sk.TCPState \in {"CLOSED", "ESTABLISHED", "LAST_ACK"}
           /\ sock[s].TCPState \in {"LAST_ACK", "CLOSED"} =>
                sk.TCPState \in {"LAST_ACK", "CLOSED"}
  PROVE  ConnInv'
<1> DEFINE F == IF \E e \in new : "FIN" \in e.flags THEN {s} ELSE {}
<1>0. /\ \A e \in new : "FIN" \in e.flags => s \in F
      /\ F \subseteq Children
      /\ \A k \in F : /\ k = s /\ s \in establishedTable /\ sk.TCPState = "LAST_ACK"
                     /\ \A g \in Clients : sock[s].peer = g => Closing(g)
  OBVIOUS
<1> HIDE DEF F
<1>1. /\ d.sk.local = sock[s].local /\ d.sk.peer = sock[s].peer
      /\ d.sk.TCPState = sk.TCPState /\ d.sk.rcv_nxt = sk.rcv_nxt
      /\ d.sk.snd_nxt = sk.snd_nxt
  BY DEF KeepsRest
<1>2. /\ Logged(d.sk) \subseteq Logged(sock[s]) \cup new
      /\ Said(d) \subseteq Packets(sock[s], Logged(sock[s])) \cup Packets(d.sk, new)
  BY DEF Repeats, Says
<1>3. \/ Talk(F) /\ sock' = [sock EXCEPT ![s] = d.sk]
      \/ Talk({}) /\ sock' = sock
  BY <1>0, <1>1, <1>2, CommitTalk DEF ConnInv
<1>4. CASE Talk({}) /\ sock' = sock  BY <1>4, ConnStill
<1>5. CASE Talk(F) /\ sock' = [sock EXCEPT ![s] = d.sk]
  <2>1. \A r \in Sock : sock'[r] = IF r = s THEN d.sk ELSE sock[r]
    BY <1>5 DEF TypeOK
  <2>2. \A g \in Clients : /\ cpc[g] = "write" => sock[g].snd_nxt <= maxSend[g]
                           /\ g \in Sock
    BY SockCases DEF ConnInv, Lives, ClientLife
  <2>3. /\ sock[Server].TCPState \in {"CLOSED", "LISTEN", "SYN_RECV"} /\ Server \in Sock
        /\ \A k \in Children : /\ sock[k].TCPState \in {"CLOSED", "ESTABLISHED", "LAST_ACK"}
                              /\ k \in Sock
    BY SockCases DEF ConnInv, Lives
  <2>4. \A g \in Clients :
           /\ sock'[g].rcv_nxt = sock[g].rcv_nxt \/ cpc[g] # "start"
           /\ \/ sock'[g].TCPState = sock[g].TCPState
              \/ cpc[g] = "connect" /\ sock'[g].TCPState = "ESTABLISHED"
              \/ /\ cpc[g] = "close"
                 /\ sock'[g].TCPState \in {"FIN_WAIT_2", "TIME_WAIT", "CLOSED"}
                 /\ sock'[g].TCPState = "TIME_WAIT" => FinSeen(g)
           /\ cpc[g] = "write" => sock'[g].snd_nxt <= maxSend[g]
    BY <1>1, <2>1, <2>2
  <2>5. sock'[Server].TCPState \in {"CLOSED", "LISTEN", "SYN_RECV"}
    BY <1>1, <2>1, <2>3
  <2>6. \A k \in Children : sock'[k].TCPState \in {"CLOSED", "ESTABLISHED", "LAST_ACK"}
    BY <1>1, <2>1, <2>3
  <2>7. \A k \in establishedTable \cap Children :
           /\ sock'[k].peer = sock[k].peer
           /\ sock[k].TCPState \in {"LAST_ACK", "CLOSED"} =>
                sock'[k].TCPState \in {"LAST_ACK", "CLOSED"}
    BY <1>1, <2>1, <2>3
  <2>8. \A k \in F :
           /\ k \in establishedTable /\ sock'[k].TCPState = "LAST_ACK"
           /\ \A g \in Clients : sock'[k].peer = g => Closing(g)
    BY <1>0, <1>1, <2>1
  <2> QED  BY <1>0, <1>5, <2>4, <2>5, <2>6, <2>7, <2>8, ConnQuiet
<1> QED  BY <1>3, <1>4, <1>5

LEMMA SaysNothing ==
  ASSUME NEW c PROVE Says(c, c, {})
  BY DEF Says

LEMMA EnterRepeats ==
  ASSUME NEW sk \in tcp_sock PROVE Repeats(sk, Enter(sk))
  BY DEF Repeats, Enter, KeepsRest, Said

\* The socket that takes a segment
LEMMA Receiver ==
  ASSUME TypeOK, ConnInv, NEW h \in Hosts, NEW i \in DOMAIN net[h], NEW s \in Sock
  PROVE  /\ net[h][i] \in InFlight(h) /\ net[h][i] \in Segment
         /\ ToEstablished(h, i, s) =>
              /\ s \in establishedTable /\ sock[s].peer = net[h][i].src
              /\ \/ h \in Clients /\ s = h
                 \/ h = Server /\ s \in Children
         /\ ToListener(h, i, s) =>
              s = h /\ (s \in Clients => cpc[s] = "connect")
<1>1. net[h][i] \in InFlight(h) /\ net[h][i] \in Segment
  BY WithoutType DEF InFlight, On
<1>2. sock[s].local = IF s \in Hosts THEN s ELSE Server  BY DEF ConnInv, Homes
<1>3. ASSUME ToEstablished(h, i, s)
      PROVE  /\ s \in establishedTable /\ sock[s].peer = net[h][i].src
             /\ \/ h \in Clients /\ s = h
                \/ h = Server /\ s \in Children
  <2>1. s \in establishedTable /\ sock[s].local = h /\ sock[s].peer = net[h][i].src
    BY <1>3 DEF ToEstablished, Established
  <2>2. s # Server  BY <2>1 DEF ConnInv, Lives
  <2> QED  BY <1>2, <2>1, <2>2, SockCases
<1>4. ASSUME ToListener(h, i, s) PROVE s = h /\ (s \in Clients => cpc[s] = "connect")
  <2>1. s \in listenTable /\ sock[s].local = h  BY <1>4 DEF ToListener, Listener
  <2>2. s \in Hosts  BY <2>1 DEF TypeOK
  <2> QED  BY <1>2, <2>1, <2>2 DEF ConnInv, Lives, ClientLife
<1> QED  BY <1>1, <1>3, <1>4

LEMMA AckedRepeats ==
  ASSUME TypeOK, NEW h \in Hosts, NEW i \in DOMAIN net[h], NEW s \in Sock
  PROVE  Repeats(sock[s], Acked(h, i, s))
  BY SockType, WithoutType, OnSegmentRepeats DEF Acked

\* A receive step that runs handlePacket on socket s and ends in context d
LEMMA ConnHandled ==
  ASSUME TypeOK, TypeOK', ConnInv, NEW h \in Hosts, NEW i \in DOMAIN net[h], NEW s \in Sock,
         NEW d \in Context, NEW sk, NEW new,
         Says(Acked(h, i, s), d, new), KeepsRest(sk, d.sk),
         sk.local = sock[s].local, sk.peer = sock[s].peer,
         Commit(s, d, Without(h, i)), UNCHANGED <<tables, apps>>,
         \A e \in new : "FIN" \in e.flags =>
           /\ s \in establishedTable \cap Children /\ sk.TCPState = "LAST_ACK"
           /\ \A g \in Clients : sock[s].peer = g => Closing(g),
         s \in Clients =>
           /\ sk.rcv_nxt = sock[s].rcv_nxt \/ cpc[s] # "start"
           /\ \/ sk.TCPState = sock[s].TCPState
              \/ cpc[s] = "connect" /\ sk.TCPState = "ESTABLISHED"
              \/ /\ cpc[s] = "close"
                 /\ sk.TCPState \in {"FIN_WAIT_2", "TIME_WAIT", "CLOSED"}
                 /\ sk.TCPState = "TIME_WAIT" => FinSeen(s)
           /\ sk.snd_nxt = sock[s].snd_nxt,
         s = Server => sk.TCPState \in {"CLOSED", "LISTEN", "SYN_RECV"},
         s \in Children =>
           /\ sk.TCPState \in {"CLOSED", "ESTABLISHED", "LAST_ACK"}
           /\ sock[s].TCPState \in {"LAST_ACK", "CLOSED"} =>
                sk.TCPState \in {"LAST_ACK", "CLOSED"}
  PROVE  ConnInv'
<1>1. Repeats(sock[s], Acked(h, i, s))  BY AckedRepeats
<1>2. Without(h, i) \in Wires /\ \A g \in Hosts : On(Without(h, i), g) \subseteq InFlight(g)
  BY WithoutType, WithoutOn
<1>3. UNCHANGED <<listenTable, establishedTable, cpc, maxSend, spc>>  BY DEF tables, apps
<1>4. s \in Clients => (cpc[s] = "write" => sk.snd_nxt <= maxSend[s])
  BY DEF ConnInv, Lives, ClientLife
<1> QED  BY <1>1, <1>2, <1>3, <1>4, ConnCommit

\* The fields of a socket, after handlePacket_handleACK
LEMMA AckedFields ==
  ASSUME TypeOK, NEW h \in Hosts, NEW i \in DOMAIN net[h], NEW s \in Sock
  PROVE  LET c == Acked(h, i, s)
         IN  /\ c \in Context /\ c.sk \in tcp_sock /\ sock[s] \in tcp_sock
             /\ KeepsRest(sock[s], c.sk)
  BY SockType, AckedType, AckedRepeats DEF Repeats

\* A client that is still writing never meets a FIN.
LEMMA NoEarlyFin ==
  ASSUME TypeOK, ConnInv, NEW h \in Hosts, NEW i \in DOMAIN net[h], NEW s \in Sock,
         ToEstablished(h, i, s)
  PROVE  /\ s \in Clients => cpc[s] \in {"connected", "write", "sleep", "close"}
         /\ s \in Clients /\ "FIN" \in net[h][i].flags => cpc[s] = "close" /\ FinSeen(s)
         /\ s \in Children /\ "FIN" \in net[h][i].flags =>
              \A g \in Clients : sock[s].peer = g => Closing(g)
<1>1. s \in establishedTable /\ net[h][i] \in InFlight(h) /\ sock[s].peer = net[h][i].src
      /\ ((h \in Clients /\ s = h) \/ (h = Server /\ s \in Children))
  BY Receiver
<1>2. s \in Clients => cpc[s] \in {"connected", "write", "sleep", "close"}
  BY <1>1 DEF ConnInv, Lives, ClientLife
<1>3. s \in Clients /\ "FIN" \in net[h][i].flags => Closing(s) /\ FinSeen(s)
  BY <1>1, SockCases DEF ConnInv, Fins
<1>4. s \in Children /\ "FIN" \in net[h][i].flags =>
        \A g \in Clients : sock[s].peer = g => Closing(g)
  BY <1>1, SockCases DEF ConnInv, Fins
<1> QED  BY <1>2, <1>3, <1>4 DEF Closing

LEMMA ConnFIN1 ==
  ASSUME TypeOK, TypeOK', ConnInv, NEW h \in Hosts, NEW i \in DOMAIN net[h], NEW s \in Sock,
         ReceiveFIN1(h, i, s)
  PROVE  ConnInv'
<1> DEFINE c == Acked(h, i, s)
           p == net[h][i]
           d == handleFIN1(c, p)
           sk == [c.sk EXCEPT !.TCPState = "LAST_ACK", !.snd_una = p.ack,
                              !.rcv_nxt = p.seq + 1, !.snd_nxt = @ + 1]
           new == {Plain(c.sk, <<>>, {"FIN", "ACK"})}
<1>1. /\ ToEstablished(h, i, s) /\ sock[s].TCPState = "ESTABLISHED" /\ "FIN" \in p.flags
      /\ Commit(s, d, Without(h, i)) /\ UNCHANGED <<tables, apps>>
  BY DEF ReceiveFIN1, Handle
<1>2. p \in Segment /\ s \in establishedTable /\ s \in Clients \cup Children
  BY <1>1, Receiver
<1>3. s \notin Clients
  <2>1. s \in Clients => cpc[s] = "close"  BY <1>1, NoEarlyFin
  <2>2. s \in Clients => ClientLife(s)  BY DEF ConnInv, Lives
  <2> QED  BY <1>1, <2>1, <2>2 DEF ClientLife
<1>4. \A g \in Clients : sock[s].peer = g => Closing(g)
  BY <1>1, <1>2, <1>3, NoEarlyFin
<1>5. c \in Context /\ c.sk \in tcp_sock /\ KeepsRest(sock[s], c.sk)  BY AckedFields
<1> HIDE DEF c, p
<1>6. d \in Context /\ Says(c, d, new) /\ KeepsRest(sk, d.sk)
  BY <1>2, <1>5, handleFIN1Type, handleFIN1Says
<1>7. sk.local = sock[s].local /\ sk.peer = sock[s].peer /\ sk.TCPState = "LAST_ACK"
  BY <1>5 DEF KeepsRest, tcp_sock
<1> HIDE DEF d, sk, new
<1>8. s # Server /\ s \in establishedTable \cap Children
  BY <1>2, <1>3, SockCases
<1>9. Says(Acked(h, i, s), d, new)  BY <1>6 DEF c
<1> QED  BY <1>1, <1>3, <1>4, <1>6, <1>7, <1>8, <1>9, ConnHandled

LEMMA PlainFlags ==
  ASSUME NEW sk, NEW data, NEW flags
  PROVE  \A e \in {Plain(sk, data, flags)} : e.flags = flags
  BY DEF Plain

LEMMA ConnData ==
  ASSUME TypeOK, TypeOK', ConnInv, NEW h \in Hosts, NEW i \in DOMAIN net[h], NEW s \in Sock,
         ReceiveData(h, i, s)
  PROVE  ConnInv'
<1> DEFINE c == Acked(h, i, s)
           p == net[h][i]
           d == handleSaveData(c, p)
           buf == writeToBuffer(c.sk, p)
           k  == Contiguous(buf, c.sk.tail)
           sk == [c.sk EXCEPT !.buf = buf, !.snd_una = p.ack, !.tail = @ + k,
                              !.rcv_nxt = @ + k, !.rcv_wnd = p.rwnd]
           new == {Plain(c.sk, <<>>, {"ACK"})}
<1>1. /\ ToEstablished(h, i, s) /\ sock[s].TCPState = "ESTABLISHED"
      /\ Commit(s, d, Without(h, i)) /\ UNCHANGED <<tables, apps>>
  BY DEF ReceiveData, Handle
<1>2. p \in Segment /\ s \in Clients \cup Children  BY <1>1, Receiver
<1>3. s \in Clients => cpc[s] # "start"  BY <1>1, NoEarlyFin
<1>4. c \in Context /\ c.sk \in tcp_sock /\ KeepsRest(sock[s], c.sk)  BY AckedFields
<1> HIDE DEF c, p
<1>5. d \in Context /\ Says(c, d, new) /\ KeepsRest(sk, d.sk)
  BY <1>2, <1>4, handleSaveDataType, handleSaveDataSays
<1> HIDE DEF buf, k
<1>6. /\ sk.local = sock[s].local /\ sk.peer = sock[s].peer
      /\ sk.TCPState = "ESTABLISHED" /\ sk.snd_nxt = sock[s].snd_nxt
  BY <1>1, <1>4 DEF KeepsRest, tcp_sock
<1>7. \A e \in new : "FIN" \notin e.flags  BY PlainFlags
<1> HIDE DEF d, sk, new
<1>8. s # Server  BY <1>2, SockCases
<1>9. Says(Acked(h, i, s), d, new)  BY <1>5 DEF c
<1> QED  BY <1>1, <1>3, <1>5, <1>6, <1>7, <1>8, <1>9, ConnHandled

LEMMA ConnFIN2 ==
  ASSUME TypeOK, TypeOK', ConnInv, NEW h \in Hosts, NEW i \in DOMAIN net[h], NEW s \in Sock,
         ReceiveFIN2(h, i, s)
  PROVE  ConnInv'
<1> DEFINE c == Acked(h, i, s)
           p == net[h][i]
           d == handleFIN2(c, p)
           sk == [c.sk EXCEPT !.TCPState = "FIN_WAIT_2", !.snd_una = p.ack]
<1>1. /\ ToEstablished(h, i, s) /\ sock[s].TCPState = "FIN_WAIT_1"
      /\ Commit(s, d, Without(h, i)) /\ UNCHANGED <<tables, apps>>
  BY DEF ReceiveFIN2, Handle
<1>2. p \in Segment /\ s \in Clients \cup Children  BY <1>1, Receiver
<1>3. s \in Clients => cpc[s] = "close"
  BY <1>1, NoEarlyFin DEF ConnInv, Lives, ClientLife
<1>4. s \notin Children /\ s # Server  BY <1>1, <1>2, SockCases DEF ConnInv, Lives
<1>5. c \in Context /\ c.sk \in tcp_sock /\ KeepsRest(sock[s], c.sk)  BY AckedFields
<1> HIDE DEF c, p
<1>6. d \in Context /\ Says(c, d, {}) /\ KeepsRest(sk, d.sk)
  BY <1>2, <1>5, handleFIN2Type, SilentHandlers
<1>7. /\ sk.local = sock[s].local /\ sk.peer = sock[s].peer
      /\ sk.TCPState = "FIN_WAIT_2" /\ sk.snd_nxt = sock[s].snd_nxt
  BY <1>1, <1>5 DEF KeepsRest, tcp_sock
<1> HIDE DEF d, sk
<1>8. Says(Acked(h, i, s), d, {})  BY <1>6 DEF c
<1> QED  BY <1>1, <1>3, <1>4, <1>6, <1>7, <1>8, ConnHandled

LEMMA ConnFIN3 ==
  ASSUME TypeOK, TypeOK', ConnInv, NEW h \in Hosts, NEW i \in DOMAIN net[h], NEW s \in Sock,
         ReceiveFIN3(h, i, s)
  PROVE  ConnInv'
<1> DEFINE c == Acked(h, i, s)
           p == net[h][i]
           d == handleFIN3(c, p)
           sk == [c.sk EXCEPT !.TCPState = "TIME_WAIT", !.snd_una = p.ack,
                              !.rcv_nxt = p.seq + 1]
           new == {Plain(c.sk, <<>>, {"ACK"})}
<1>1. /\ ToEstablished(h, i, s) /\ sock[s].TCPState \in {"FIN_WAIT_1", "FIN_WAIT_2"}
      /\ "FIN" \in p.flags
      /\ Commit(s, d, Without(h, i)) /\ UNCHANGED <<tables, apps>>
  BY DEF ReceiveFIN3, Handle
<1>2. p \in Segment /\ s \in Clients \cup Children  BY <1>1, Receiver
<1>3. s \in Clients => cpc[s] = "close" /\ FinSeen(s)  BY <1>1, NoEarlyFin
<1>4. s \notin Children /\ s # Server  BY <1>1, <1>2, SockCases DEF ConnInv, Lives
<1>5. c \in Context /\ c.sk \in tcp_sock /\ KeepsRest(sock[s], c.sk)  BY AckedFields
<1> HIDE DEF c, p
<1>6. d \in Context /\ Says(c, d, new) /\ KeepsRest(sk, d.sk)
  BY <1>2, <1>5, handleFIN3Type, handleFIN3Says
<1>7. /\ sk.local = sock[s].local /\ sk.peer = sock[s].peer
      /\ sk.TCPState = "TIME_WAIT" /\ sk.snd_nxt = sock[s].snd_nxt
  BY <1>1, <1>5 DEF KeepsRest, tcp_sock
<1>8. \A e \in new : "FIN" \notin e.flags  BY PlainFlags
<1> HIDE DEF d, sk, new
<1>9. Says(Acked(h, i, s), d, new)  BY <1>6 DEF c
<1> QED  BY <1>1, <1>3, <1>4, <1>6, <1>7, <1>8, <1>9, ConnHandled

LEMMA ConnFIN4 ==
  ASSUME TypeOK, TypeOK', ConnInv, NEW h \in Hosts, NEW i \in DOMAIN net[h], NEW s \in Sock,
         ReceiveFIN4(h, i, s)
  PROVE  ConnInv'
<1> DEFINE c == Acked(h, i, s)
           p == net[h][i]
           d == handleFIN4(c, p)
           sk == [c.sk EXCEPT !.TCPState = "CLOSED"]
<1>1. /\ ToEstablished(h, i, s) /\ sock[s].TCPState = "LAST_ACK"
      /\ Commit(s, d, Without(h, i)) /\ UNCHANGED <<tables, apps>>
  BY DEF ReceiveFIN4, Handle
<1>2. p \in Segment /\ s \in Clients \cup Children  BY <1>1, Receiver
<1>3. s \notin Clients
  BY <1>1, NoEarlyFin DEF ConnInv, Lives, ClientLife
<1>4. s # Server  BY <1>2, SockCases
<1>5. c \in Context /\ c.sk \in tcp_sock /\ KeepsRest(sock[s], c.sk)  BY AckedFields
<1> HIDE DEF c, p
<1>6. d \in Context /\ Says(c, d, {}) /\ KeepsRest(sk, d.sk)
  BY <1>2, <1>5, handleFIN4Type, SilentHandlers
<1>7. sk.local = sock[s].local /\ sk.peer = sock[s].peer /\ sk.TCPState = "CLOSED"
  BY <1>1, <1>5 DEF KeepsRest, tcp_sock
<1> HIDE DEF d, sk
<1>8. Says(Acked(h, i, s), d, {})  BY <1>6 DEF c
<1> QED  BY <1>1, <1>3, <1>4, <1>6, <1>7, <1>8, ConnHandled

LEMMA ConnIgnore ==
  ASSUME TypeOK, TypeOK', ConnInv, NEW h \in Hosts, NEW i \in DOMAIN net[h], NEW s \in Sock,
         ReceiveOnlyAck(h, i, s) \/ ReceiveBeforeMove(h, i, s)
  PROVE  ConnInv'
<1> DEFINE c == Acked(h, i, s)
           p == net[h][i]
           d == Ignore(c, p)
<1>1. Commit(s, d, Without(h, i)) /\ UNCHANGED <<tables, apps>>
  BY DEF ReceiveOnlyAck, ReceiveBeforeMove, Handle
<1>2. p \in Segment  BY Receiver
<1>3. c \in Context /\ c.sk \in tcp_sock /\ KeepsRest(sock[s], c.sk)  BY AckedFields
<1> HIDE DEF c, p
<1>4. d \in Context /\ Says(c, d, {}) /\ KeepsRest(c.sk, d.sk)
  BY <1>2, <1>3, SilentHandlers DEF Ignore
<1>5. /\ c.sk.local = sock[s].local /\ c.sk.peer = sock[s].peer
      /\ c.sk.TCPState = sock[s].TCPState /\ c.sk.snd_nxt = sock[s].snd_nxt
      /\ c.sk.rcv_nxt = sock[s].rcv_nxt
  BY <1>3 DEF KeepsRest
<1>6. /\ s = Server => sock[s].TCPState \in {"CLOSED", "LISTEN", "SYN_RECV"}
      /\ s \in Children => sock[s].TCPState \in {"CLOSED", "ESTABLISHED", "LAST_ACK"}
  BY DEF ConnInv, Lives
<1> HIDE DEF d
<1>7. Says(Acked(h, i, s), d, {})  BY <1>4 DEF c
<1> QED  BY <1>1, <1>4, <1>5, <1>6, <1>7, ConnHandled

LEMMA ConnSYN3 ==
  ASSUME TypeOK, TypeOK', ConnInv, NEW h \in Hosts, NEW i \in DOMAIN net[h], NEW s \in Sock,
         ReceiveSYN3(h, i, s)
  PROVE  ConnInv'
<1> DEFINE c == Acked(h, i, s)
           p == net[h][i]
           d == handleSYN23(c, p)
           b == IF "ACK" \in p.flags THEN [c.sk EXCEPT !.snd_una = p.ack] ELSE c.sk
           sk == [b EXCEPT !.TCPState = "ESTABLISHED",
                           !.head = p.seq + 1, !.tail = p.seq + 1,
                           !.rcv_nxt = p.seq + 1, !.rcv_wnd = p.rwnd]
           new == {Plain(c.sk, <<>>, {"ACK"})}
<1>1. /\ ToListener(h, i, s) /\ sock[s].TCPState = "SYN_SENT"
      /\ Commit(s, d, Without(h, i)) /\ UNCHANGED <<tables, apps>>
  BY DEF ReceiveSYN3, Handle
<1>2. p \in Segment /\ s \in Hosts /\ (s \in Clients => cpc[s] = "connect")
  BY <1>1, Receiver
<1>3. s \in Clients /\ s # Server /\ s \notin Children
  BY <1>1, <1>2, SockCases DEF ConnInv, Lives
<1>4. c \in Context /\ c.sk \in tcp_sock /\ KeepsRest(sock[s], c.sk)  BY AckedFields
<1> HIDE DEF c, p
<1>5. d \in Context /\ \/ Says(c, d, {}) /\ KeepsRest(b, d.sk)
                       \/ Says(c, d, new) /\ KeepsRest(sk, d.sk)
  BY <1>2, <1>4, handleSYN23Type, handleSYN23Says
<1>6. b \in tcp_sock /\ KeepsRest(sock[s], [b EXCEPT !.snd_una = sock[s].snd_una])
  BY <1>2, <1>4 DEF KeepsRest, tcp_sock, Segment
<1> HIDE DEF b
<1>7. /\ b.local = sock[s].local /\ b.peer = sock[s].peer /\ b.rcv_nxt = sock[s].rcv_nxt
      /\ b.TCPState = sock[s].TCPState /\ b.snd_nxt = sock[s].snd_nxt
  BY <1>6 DEF KeepsRest, tcp_sock
<1>8. /\ sk.local = sock[s].local /\ sk.peer = sock[s].peer
      /\ sk.TCPState = "ESTABLISHED" /\ sk.snd_nxt = sock[s].snd_nxt
  BY <1>6, <1>7 DEF tcp_sock
<1>9. \A e \in new : "FIN" \notin e.flags  BY PlainFlags
<1> HIDE DEF d, sk, new
<1>10. CASE Says(c, d, {}) /\ KeepsRest(b, d.sk)
  <2>1. Says(Acked(h, i, s), d, {}) /\ KeepsRest(b, d.sk)  BY <1>10 DEF c
  <2> QED  BY <1>1, <1>3, <1>5, <1>7, <2>1, ConnHandled
<1>11. CASE Says(c, d, new) /\ KeepsRest(sk, d.sk)
  <2>1. Says(Acked(h, i, s), d, new) /\ KeepsRest(sk, d.sk)  BY <1>11 DEF c
  <2> QED  BY <1>1, <1>2, <1>3, <1>5, <1>8, <1>9, <2>1, ConnHandled
<1> QED  BY <1>5, <1>10, <1>11

\* A step that loses, repeats or drops segments
LEMMA ConnWires ==
  ASSUME TypeOK, TypeOK', ConnInv, sock' = sock, UNCHANGED <<tables, apps>>,
         \A g \in Hosts : InFlight(g)' \subseteq InFlight(g)
  PROVE  ConnInv'
  BY QuietTalk, ConnStill DEF ConnInv, tables, apps

LEMMA ConnDropped ==
  ASSUME TypeOK, TypeOK', ConnInv, NEW h \in Hosts, NEW i \in DOMAIN net[h],
         ReceiveNoSocket(h, i) \/ (\E s \in Sock : ReceiveSYN4NoChild(h, i, s)) \/ Lose(h, i)
  PROVE  ConnInv'
<1>1. net' = Without(h, i) /\ sock' = sock /\ UNCHANGED <<tables, apps>>
  BY DEF ReceiveNoSocket, ReceiveSYN4NoChild, Lose
<1>2. \A g \in Hosts : InFlight(g)' \subseteq InFlight(g)
  BY <1>1, WithoutOn DEF InFlight
<1> QED  BY <1>1, <1>2, ConnWires

LEMMA DuplicateOn ==
  ASSUME TypeOK, NEW h \in Hosts, NEW i \in DOMAIN net[h], Duplicate(h, i)
  PROVE  \A g \in Hosts : InFlight(g)' \subseteq InFlight(g)
<1>1. net' = [net EXCEPT ![h] = Append(@, net[h][i])]  BY DEF Duplicate
<1>2. net \in Wires /\ net[h] \in Seq(Segment)  BY WiresType DEF TypeOK
<1>3. ASSUME NEW g \in Hosts PROVE On(net', g) \subseteq On(net, g)
  <2>1. CASE g # h  BY <1>1, <1>2, <2>1 DEF On, Wires
  <2>2. CASE g = h
    <3> DEFINE w == net[h]
               r == Append(w, w[i])
    <3>1. net'[g] = r  BY <1>1, <1>2, <2>2 DEF Wires
    <3>2. \A j \in DOMAIN r : \E k \in DOMAIN w : r[j] = w[k]  BY <1>2
    <3> HIDE DEF r
    <3> QED  BY <2>2, <3>1, <3>2 DEF On
  <2> QED  BY <2>1, <2>2
<1> QED  BY <1>3 DEF InFlight

LEMMA ConnDuplicate ==
  ASSUME TypeOK, TypeOK', ConnInv, NEW h \in Hosts, NEW i \in DOMAIN net[h], Duplicate(h, i)
  PROVE  ConnInv'
<1>1. sock' = sock /\ UNCHANGED <<tables, apps>>  BY DEF Duplicate
<1>2. \A g \in Hosts : InFlight(g)' \subseteq InFlight(g)  BY DuplicateOn
<1> QED  BY <1>1, <1>2, ConnWires

LEMMA ConnAckTimeOut ==
  ASSUME TypeOK, TypeOK', ConnInv, NEW s \in Sock, AckTimeOut(s)
  PROVE  ConnInv'
<1> DEFINE c == Enter(sock[s])
           d == HandleTimeOut(c)
<1>1. Commit(s, d, net) /\ UNCHANGED <<tables, apps>>  BY DEF AckTimeOut
<1>2. c \in Context /\ c.sk = sock[s] /\ c.tx = <<>> /\ sock[s] \in tcp_sock
  BY SockType DEF Enter
<1> HIDE DEF c
<1>3. Repeats(sock[s], d) /\ d \in Context
  BY <1>2, HandleTimeOutType, HandleTimeOutRepeats
<1> HIDE DEF d
<1>4. Says(d, d, {}) /\ KeepsRest(sock[s], d.sk)  BY <1>3, SaysNothing DEF Repeats
<1>5. net \in Wires /\ \A g \in Hosts : On(net, g) \subseteq InFlight(g)
  BY WiresType DEF InFlight
<1>6. /\ s = Server => sock[s].TCPState \in {"CLOSED", "LISTEN", "SYN_RECV"}
      /\ s \in Children => sock[s].TCPState \in {"CLOSED", "ESTABLISHED", "LAST_ACK"}
      /\ s \in Clients => (cpc[s] = "write" => sock[s].snd_nxt <= maxSend[s])
  BY DEF ConnInv, Lives, ClientLife
<1>7. UNCHANGED <<listenTable, establishedTable, cpc, maxSend, spc>>
  BY <1>1 DEF tables, apps
<1> QED  BY <1>1, <1>3, <1>4, <1>5, <1>6, <1>7, ConnCommit

\* A step that assigns the state of one socket and does nothing else
LEMMA StateTalk ==
  ASSUME TypeOK, ConnInv, NEW s \in Sock, NEW state,
         sock' = [sock EXCEPT ![s].TCPState = state], net' = net
  PROVE  /\ Talk({})
         /\ \A r \in Sock : r # s => sock'[r] = sock[r]
         /\ sock'[s].local = sock[s].local /\ sock'[s].peer = sock[s].peer
         /\ sock'[s].sendBuffer = sock[s].sendBuffer /\ sock'[s].rcv_nxt = sock[s].rcv_nxt
         /\ sock'[s].snd_nxt = sock[s].snd_nxt /\ sock'[s].TCPState = state
<1>1. sock \in [Sock -> tcp_sock]  BY DEF TypeOK
<1>2. /\ \A r \in Sock : r # s => sock'[r] = sock[r]
      /\ sock'[s] = [sock[s] EXCEPT !.TCPState = state]
  BY <1>1
<1>3. /\ sock'[s].local = sock[s].local /\ sock'[s].peer = sock[s].peer
      /\ sock'[s].sendBuffer = sock[s].sendBuffer /\ sock'[s].rcv_nxt = sock[s].rcv_nxt
      /\ sock'[s].snd_nxt = sock[s].snd_nxt /\ sock'[s].TCPState = state
  BY <1>1, <1>2 DEF tcp_sock
<1>4. Logged(sock'[s]) = Logged(sock[s])  BY <1>3 DEF Logged
<1>5. ASSUME NEW r \in Sock
      PROVE  /\ sock'[r].local = sock[r].local /\ sock'[r].peer = sock[r].peer
             /\ HasFin(sock'[r]) <=> HasFin(sock[r])
  <2>1. CASE r = s  BY <1>3, <1>4, <2>1 DEF HasFin
  <2>2. CASE r # s  BY <1>2, <2>2
  <2> QED  BY <2>1, <2>2
<1>6. \A h \in Hosts : InFlight(h)' = InFlight(h)  BY DEF InFlight
<1>7. /\ \A c \in Clients : sock[c].peer = Server
      /\ \A r \in Children \cup {Server} : sock[r].peer \in Clients \cup {NoPeer}
  BY DEF ConnInv, Homes
<1>8. Talk({})  BY <1>5, <1>6, <1>7, SockCases DEF Talk
<1> QED  BY <1>2, <1>3, <1>8

LEMMA ConnTimeWait ==
  ASSUME TypeOK, TypeOK', ConnInv, NEW s \in Sock, TimeWaitOver(s)
  PROVE  ConnInv'
<1>1. /\ s \in establishedTable /\ sock[s].TCPState = "TIME_WAIT"
      /\ sock' = [sock EXCEPT ![s].TCPState = "CLOSED"]
      /\ UNCHANGED <<tables, net, apps>>
  BY DEF TimeWaitOver
<1>2. /\ Talk({})
      /\ \A r \in Sock : r # s => sock'[r] = sock[r]
      /\ sock'[s].rcv_nxt = sock[s].rcv_nxt
      /\ sock'[s].snd_nxt = sock[s].snd_nxt /\ sock'[s].TCPState = "CLOSED"
  BY <1>1, StateTalk
<1>3. s \in Clients /\ cpc[s] = "close"
  <2>1. s \in Clients  BY <1>1, SockCases DEF ConnInv, Lives
  <2>2. ClientLife(s)  BY <2>1 DEF ConnInv, Lives
  <2> QED  BY <1>1, <2>1, <2>2 DEF ClientLife
<1>4. /\ \A c \in Clients :
           /\ sock'[c].rcv_nxt = sock[c].rcv_nxt
           /\ \/ sock'[c].TCPState = sock[c].TCPState
              \/ cpc[c] = "close" /\ sock'[c].TCPState = "CLOSED"
           /\ cpc[c] = "write" => sock'[c].snd_nxt <= maxSend[c]
      /\ sock'[Server].TCPState \in {"CLOSED", "LISTEN", "SYN_RECV"}
      /\ \A k \in Children :
           sock'[k] = sock[k] /\ sock'[k].TCPState \in {"CLOSED", "ESTABLISHED", "LAST_ACK"}
  BY <1>2, <1>3, SockCases DEF ConnInv, Lives, ClientLife
<1>5. UNCHANGED <<listenTable, establishedTable, cpc, maxSend, spc>>
  BY <1>1 DEF tables, apps
<1>6. {} \subseteq Children  OBVIOUS
<1> QED  BY <1>2, <1>4, <1>5, <1>6, ConnQuiet

-----------------------------------------------------------------------------
(* The listening socket.                                                   *)

\* The listening socket of the server, and what handlePacket_handleACK does
\* to it.
LEMMA ListenerFacts ==
  ASSUME TypeOK, ConnInv, NEW h \in Hosts, NEW i \in DOMAIN net[h], NEW s \in Sock,
         ToListener(h, i, s), sock[s].TCPState \in {"LISTEN", "SYN_RECV"}
  PROVE  /\ s = Server /\ h = Server /\ net[h][i].src \in Clients
         /\ net[h][i] \in Segment
         /\ Acked(h, i, s).tx = <<>> /\ ~HasFin(Acked(h, i, s).sk)
<1>1. s = h /\ (s \in Clients => cpc[s] = "connect") /\ net[h][i] \in InFlight(h)
      /\ net[h][i] \in Segment
  BY Receiver
<1>2. s = Server  BY <1>1, SockCases DEF ConnInv, Lives, ClientLife
<1>3. net[h][i].src \in Clients  BY <1>1, <1>2 DEF ConnInv, Homes
<1>4. Acked(h, i, s).tx = <<>> /\ Repeats(sock[s], Acked(h, i, s))
  BY <1>1, SockType, OnSegmentRepeats DEF Acked
<1>5. ~HasFin(Acked(h, i, s).sk)
  BY <1>2, <1>4 DEF ConnInv, Fins, Repeats, HasFin
<1> QED  BY <1>1, <1>2, <1>3, <1>4, <1>5

LEMMA FreshFields ==
  ASSUME NEW peer, NEW child \in Fresh(Server, peer)
  PROVE  /\ child.local = Server /\ child.peer = peer
         /\ child.TCPState = "CLOSED" /\ child.sendBuffer = <<>>
  BY DEF Fresh, alloc_tcp_sock

\* handleSYN1: a new child, and the answer of the listening socket
LEMMA ConnSYN1 ==
  ASSUME TypeOK, TypeOK', ConnInv, NEW h \in Hosts, NEW i \in DOMAIN net[h], NEW s \in Sock,
         NEW k \in Children, ReceiveSYN1(h, i, s, k)
  PROVE  ConnInv'
<1> DEFINE c == Acked(h, i, s)
           p == net[h][i]
           d == handleSYN1(c, p)
           flight == Without(h, i)
           sk == [c.sk EXCEPT !.TCPState = "SYN_RECV", !.peer = p.src,
                              !.rcv_nxt = p.seq + 1, !.snd_nxt = @ + 1]
           new == {Plain(c.sk, <<>>, {"SYN", "ACK"})}
<1>1. /\ s = Server /\ h = Server /\ p.src \in Clients /\ p \in Segment
      /\ c.tx = <<>> /\ ~HasFin(c.sk)
  BY ListenerFacts DEF ReceiveSYN1
<1>2. PICK child \in Fresh(Server, p.src) :
        IF d.ok
        THEN sock' = [sock EXCEPT ![s] = d.sk, ![k] = child] /\ net' = Transmit(flight, d.tx)
        ELSE sock' = sock /\ net' = flight
  BY DEF ReceiveSYN1
<1>3. /\ child.local = Server /\ child.peer = p.src /\ child.TCPState = "CLOSED"
      /\ child.sendBuffer = <<>>
  BY FreshFields
<1>4. UNCHANGED <<listenTable, establishedTable, cpc, maxSend, spc>> /\ k \notin establishedTable
  BY DEF ReceiveSYN1, FreeChildren, apps
<1>5. c \in Context /\ c.sk \in tcp_sock /\ KeepsRest(sock[s], c.sk)  BY AckedFields
<1>6. flight \in Wires /\ \A g \in Hosts : On(flight, g) \subseteq InFlight(g)
  BY WithoutType, WithoutOn
<1>7. sock \in [Sock -> tcp_sock] /\ k \in Sock /\ k # s
  BY <1>1, SockCases DEF TypeOK
<1> HIDE DEF c, p, flight
<1>8. d \in Context /\ Says(c, d, new) /\ KeepsRest(sk, d.sk)
  BY <1>1, <1>5, handleSYN1Type, handleSYN1Says
<1>9. sk.local = sock[s].local /\ sk.peer = p.src /\ sk.TCPState = "SYN_RECV"
  BY <1>5 DEF KeepsRest, tcp_sock
<1>10. \A e \in new : "FIN" \notin e.flags  BY PlainFlags
<1> HIDE DEF d, sk, new
<1>11. /\ d.sk.local = Server /\ d.sk.peer = p.src /\ d.sk.TCPState = "SYN_RECV"
       /\ ~HasFin(d.sk)
  <2>1. sock[s].local = Server  BY <1>1, SockCases DEF ConnInv, Homes
  <2>2. ~HasFin(d.sk)  BY <1>1, <1>8, <1>10 DEF HasFin, Says
  <2> QED  BY <1>8, <1>9, <2>1, <2>2 DEF KeepsRest
<1>12. CASE ~d.ok
  <2>1. sock' = sock /\ \A g \in Hosts : InFlight(g)' \subseteq InFlight(g)
    BY <1>2, <1>6, <1>12 DEF InFlight
  <2> QED  BY <1>4, <2>1, QuietTalk, ConnStill DEF ConnInv
<1>13. CASE d.ok
  <2>1. net' = Transmit(flight, d.tx)
        /\ \A r \in Sock : sock'[r] = IF r = k THEN child
                                      ELSE IF r = s THEN d.sk ELSE sock[r]
    BY <1>2, <1>7, <1>13
  <2>2. ASSUME NEW g \in Hosts, NEW m \in InFlight(g)', m \notin InFlight(g)
        PROVE  m.src = sock[s].local /\ g = sock'[s].peer /\ "FIN" \notin m.flags
    <3>1. PICK a \in DOMAIN d.tx, b \in DOMAIN d.tx : m = d.tx[a] /\ g = d.tx[b].dst
      <4>1. m \in On(Transmit(flight, d.tx), g) /\ m \notin On(flight, g)
        BY <1>6, <2>1, <2>2 DEF InFlight
      <4>2. d.tx \in Seq(Segment)  BY <1>8 DEF Context
      <4> QED  BY <1>6, <4>1, <4>2, TransmitOn
    <3>2. m \in Said(d) /\ d.tx[b] \in Said(d)  BY <3>1 DEF Said
    <3>3. Said(d) \subseteq Packets(d.sk, new)  BY <1>1, <1>8 DEF Says, Said
    <3>4. \A q \in Said(d) : q.src = Server /\ q.dst = p.src /\ "FIN" \notin q.flags
      BY <1>10, <1>11, <3>3, PacketFrom
    <3>5. sock[s].local = Server /\ sock'[s].peer = p.src
      BY <1>1, <1>7, <1>11, <2>1, SockCases DEF ConnInv, Homes
    <3> QED  BY <3>1, <3>2, <3>4, <3>5
  <2>3. ~HasFin(sock'[k]) /\ ~HasFin(sock'[s])
    BY <1>3, <1>7, <1>11, <2>1 DEF HasFin, Logged
  <2>4. /\ \A r \in Sock : sock'[r].local = sock[r].local
        /\ \A g \in Clients : sock'[g] = sock[g] /\ sock[g].peer = Server
        /\ \A r \in Children \cup {Server} : sock'[r].peer \in Clients \cup {NoPeer}
    <3>1. /\ \A r \in Sock : sock[r].local = IF r \in Hosts THEN r ELSE Server
          /\ \A g \in Clients : sock[g].peer = Server
          /\ \A r \in Children \cup {Server} : sock[r].peer \in Clients \cup {NoPeer}
      BY DEF ConnInv, Homes
    <3> QED  BY <1>1, <1>3, <1>7, <1>11, <2>1, <3>1, SockCases
  <2>5. \A r \in Sock : HasFin(sock'[r]) =>
          HasFin(sock[r]) /\ sock'[r].peer = sock[r].peer
    BY <1>7, <2>1, <2>3
  <2>6. Talk({})
    BY <1>7, <2>2, <2>4, <2>5 DEF Talk
  <2>7. /\ \A g \in Clients :
             sock'[g] = sock[g] /\ (cpc[g] = "write" => sock'[g].snd_nxt <= maxSend[g])
        /\ sock'[Server].TCPState \in {"CLOSED", "LISTEN", "SYN_RECV"}
        /\ \A q \in Children : sock'[q].TCPState \in {"CLOSED", "ESTABLISHED", "LAST_ACK"}
        /\ \A q \in establishedTable \cap Children : sock'[q] = sock[q]
    BY <1>1, <1>3, <1>4, <1>7, <1>11, <2>1, SockCases DEF ConnInv, Lives, ClientLife
  <2>8. {} \subseteq Children  OBVIOUS
  <2> QED  BY <1>4, <2>6, <2>7, <2>8, ConnQuiet
<1> QED  BY <1>12, <1>13

\* handleSYN4: the child joins the established map, where nobody has its key.
LEMMA ConnSYN4 ==
  ASSUME TypeOK, TypeOK', ChildrenApart, ConnInv,
         NEW h \in Hosts, NEW i \in DOMAIN net[h], NEW s \in Sock,
         NEW k \in Children, ReceiveSYN4(h, i, s, k)
  PROVE  ConnInv'
<1> DEFINE c == Acked(h, i, s)
           p == net[h][i]
           parent == [c.sk EXCEPT !.TCPState = "LISTEN"]
           child == handleSYN4(sock[k], p, c.sk.snd_nxt)
<1>1. /\ s = Server /\ h = Server /\ p.src \in Clients /\ p \in Segment
      /\ ~HasFin(c.sk)
  BY ListenerFacts DEF ReceiveSYN4
<1>2. /\ net' = Without(h, i)
      /\ IF c.ok
         THEN /\ sock' = [sock EXCEPT ![s] = parent,
                                      ![k] = handleSYN4(@, p, c.sk.snd_nxt)]
              /\ establishedTable' = establishedTable \cup {k}
         ELSE UNCHANGED <<sock, establishedTable>>
      /\ UNCHANGED <<listenTable, cpc, maxSend, spc>>
      /\ k \in synRcvdList /\ sock[k].peer = p.src
      /\ Established(h, p.src) = {}
  BY DEF ReceiveSYN4, apps, SynRcvd, ToListener
<1>3. k \notin establishedTable  BY <1>2 DEF ChildrenApart
<1>4. c \in Context /\ c.sk \in tcp_sock /\ KeepsRest(sock[s], c.sk)  BY AckedFields
<1>5. \A g \in Hosts : InFlight(g)' \subseteq InFlight(g)
  BY <1>2, WithoutOn DEF InFlight
<1>6. /\ sock \in [Sock -> tcp_sock] /\ k \in Sock /\ k # s /\ s \in Sock
      /\ establishedTable \subseteq Sock
  BY <1>1, SockCases DEF TypeOK
<1> HIDE DEF c, p
<1>7. parent.local = sock[s].local /\ parent.peer = sock[s].peer /\ parent.TCPState = "LISTEN"
      /\ parent.sendBuffer = c.sk.sendBuffer
  BY <1>4 DEF KeepsRest, tcp_sock
<1>8. child.local = sock[k].local /\ child.peer = sock[k].peer
      /\ child.TCPState = "ESTABLISHED" /\ child.sendBuffer = sock[k].sendBuffer
  BY <1>6 DEF handleSYN4, tcp_sock
<1> HIDE DEF parent
<1>9. CASE ~c.ok
  <2>1. sock' = sock /\ establishedTable' = establishedTable  BY <1>2, <1>9
  <2> QED  BY <1>2, <1>5, <2>1, QuietTalk, ConnStill DEF ConnInv
<1>10. CASE c.ok
  <2>1. sock' = [sock EXCEPT ![s] = parent, ![k] = child]
        /\ establishedTable' = establishedTable \cup {k}
    BY <1>2, <1>6, <1>10
  <2> HIDE DEF child
  <2>2. \A r \in Sock : sock'[r] = IF r = k THEN child
                                   ELSE IF r = s THEN parent ELSE sock[r]
    BY <1>6, <2>1
  <2>3. \A r \in Sock : sock'[r].local = sock[r].local /\ sock'[r].peer = sock[r].peer
    BY <1>7, <1>8, <2>2
  <2>4. \A r \in Sock : HasFin(sock'[r]) => HasFin(sock[r])
    BY <1>1, <1>7, <1>8, <2>2 DEF HasFin, Logged
  <2>5. Talk({})
    <3>1. /\ \A g \in Clients : sock[g].peer = Server
          /\ \A r \in Children \cup {Server} : sock[r].peer \in Clients \cup {NoPeer}
      BY DEF ConnInv, Homes
    <3> QED  BY <1>5, <2>3, <2>4, <3>1, SockCases DEF Talk
  <2>6. \A g \in Clients : ClientLife(g)'
    <3>1. ASSUME NEW g \in Clients PROVE ClientLife(g)'
      <4>1. ClientLife(g)  BY DEF ConnInv, Lives
      <4>2. sock'[g] = sock[g] /\ (g \in establishedTable' => g \in establishedTable)
        BY <1>1, <2>1, <2>2, SockCases
      <4> QED  BY <1>2, <4>1, <4>2 DEF ClientLife
    <3> QED  BY <3>1
  <2>7. Server \notin establishedTable'  BY <2>1, SockCases DEF ConnInv, Lives
  <2>8. /\ sock'[Server].TCPState \in {"CLOSED", "LISTEN", "SYN_RECV"}
        /\ \A q \in Children : sock'[q].TCPState \in {"CLOSED", "ESTABLISHED", "LAST_ACK"}
        /\ \A q \in establishedTable \cap Children : sock'[q] = sock[q]
        /\ \A g \in Clients : sock'[g] = sock[g]
    BY <1>1, <1>3, <1>7, <1>8, <2>2, SockCases DEF ConnInv, Lives
  <2>9. OneSocketPerKey'
    <3> SUFFICES ASSUME NEW a \in establishedTable', NEW b \in establishedTable',
                        sock'[a].local = sock'[b].local, sock'[a].peer = sock'[b].peer
                 PROVE  a = b
      BY DEF OneSocketPerKey
    <3>1. a \in Sock /\ b \in Sock  BY <1>6, <2>1
    <3>2. sock[a].local = sock[b].local /\ sock[a].peer = sock[b].peer
      BY <2>3, <3>1
    <3>3. sock[k].local = h  BY <1>1, <1>6, SockCases DEF ConnInv, Homes
    <3>4. \A r \in establishedTable : ~(sock[r].local = h /\ sock[r].peer = p.src)
      BY <1>2 DEF Established
    <3> QED  BY <1>2, <2>1, <3>2, <3>3, <3>4 DEF ConnInv, OneSocketPerKey
  <2>10. /\ \A g \in Clients : Closing(g) => Closing(g)'
         /\ establishedTable \subseteq establishedTable' /\ spc' = spc
    BY <1>2, <2>1 DEF Closing
  <2>11. {} \subseteq Clients \cup Children  OBVIOUS
  <2> QED  BY <2>5, <2>6, <2>7, <2>8, <2>9, <2>10, <2>11, ConnStep
<1> QED  BY <1>9, <1>10

-----------------------------------------------------------------------------
(* The two applications.                                                   *)

\* A step of client c's application
LEMMA ConnClient ==
  ASSUME TypeOK, TypeOK', ConnInv, NEW c \in Clients, NEW F, F \subseteq {c}, Talk(F),
         F # {} => Closing(c)',
         \A r \in Sock : r # c => sock'[r] = sock[r],
         \A g \in Clients : g # c => cpc'[g] = cpc[g] /\ maxSend'[g] = maxSend[g],
         spc' = spc,
         listenTable' \subseteq listenTable \cup {c},
         establishedTable' \subseteq establishedTable \cup {c},
         establishedTable \subseteq establishedTable' \cup {c},
         ClientLife(c)', Closing(c) => Closing(c)',
         sock'[c].TCPState = "TIME_WAIT" => sock[c].TCPState = "TIME_WAIT"
  PROVE  ConnInv'
<1>1. c \in Sock /\ c # Server /\ c \notin Children /\ Server \in Sock /\ Children \subseteq Sock
      /\ Clients \subseteq Sock
  BY SockCases
<1>2. ASSUME NEW g \in Clients, g # c PROVE ClientLife(g)' /\ (Closing(g) => Closing(g)')
  <2>1. ClientLife(g)  BY DEF ConnInv, Lives
  <2>2. sock'[g] = sock[g] /\ cpc'[g] = cpc[g] /\ maxSend'[g] = maxSend[g]
        /\ (g \in listenTable' => g \in listenTable)
        /\ (g \in establishedTable' => g \in establishedTable)
    BY <1>1, <1>2
  <2> QED  BY <2>1, <2>2 DEF ClientLife, Closing
<1>3. \A g \in Clients : ClientLife(g)' /\ (Closing(g) => Closing(g)')  BY <1>2
<1>4. /\ sock'[Server].TCPState \in {"CLOSED", "LISTEN", "SYN_RECV"}
      /\ Server \notin establishedTable'
      /\ \A k \in Children : /\ sock'[k] = sock[k]
                             /\ sock'[k].TCPState \in {"CLOSED", "ESTABLISHED", "LAST_ACK"}
                             /\ k \in establishedTable' <=> k \in establishedTable
      /\ establishedTable' \cap Children \subseteq establishedTable
  BY <1>1 DEF ConnInv, Lives
<1>5. \A g \in Clients : sock'[g].TCPState = "TIME_WAIT" => sock[g].TCPState = "TIME_WAIT"
  BY <1>1
<1>6. F \cap Children = {} /\ F \subseteq Clients \cup Children
      /\ \A g \in F \cap Clients : Closing(g)'
  BY <1>1
<1> QED  BY <1>3, <1>4, <1>5, <1>6, ConnStep

\* The same when it sends a SYN or a FIN
LEMMA ClientSends ==
  ASSUME TypeOK, ConnInv, NEW c \in Clients, NEW d \in Context, d.ok, NEW e, NEW sk,
         Says(Enter(sock[c]), d, {e}), KeepsRest(sk, d.sk),
         sk.local = sock[c].local, sk.peer = sock[c].peer, Commit(c, d, net),
         NEW F, "FIN" \in e.flags => c \in F
  PROVE  /\ Talk(F) /\ \A r \in Sock : r # c => sock'[r] = sock[r]
         /\ sock'[c] = d.sk
<1>1. c \in Sock /\ sock[c] \in tcp_sock /\ sock \in [Sock -> tcp_sock]
  BY HostsAreSockets, SockType DEF TypeOK
<1>2. Repeats(sock[c], Enter(sock[c]))  BY <1>1, EnterRepeats
<1>3. /\ Logged(d.sk) \subseteq Logged(sock[c]) \cup {e}
      /\ Said(d) \subseteq Packets(sock[c], Logged(sock[c])) \cup Packets(d.sk, {e})
  BY <1>2 DEF Repeats, Says
<1>4. net \in Wires /\ \A g \in Hosts : On(net, g) \subseteq InFlight(g)
  BY WiresType DEF InFlight
<1>5. d.sk.local = sock[c].local /\ d.sk.peer = sock[c].peer  BY DEF KeepsRest
<1>6. sock' = [sock EXCEPT ![c] = d.sk]  BY DEF Commit
<1>7. \/ Talk(F) /\ sock' = [sock EXCEPT ![c] = d.sk]
      \/ Talk({}) /\ sock' = sock
  BY <1>1, <1>3, <1>4, <1>5, CommitTalk DEF ConnInv
<1>8. Talk({}) => Talk(F)  BY DEF Talk
<1> QED  BY <1>1, <1>6, <1>7, <1>8

LEMMA ControlOk ==
  ASSUME NEW sk \in tcp_sock PROVE Connect(Enter(sk)).ok /\ Close(Enter(sk)).ok
<1>1. \A flags : SendControl(Enter(sk), flags).ok
  BY DEF SendControl, sendAndLogPacket, Enter
<1> QED  BY <1>1 DEF Connect, Close

LEMMA ConnConnect ==
  ASSUME TypeOK, TypeOK', ConnInv, NEW c \in Clients, ClientConnect(c)
  PROVE  ConnInv'
<1> DEFINE d == Connect(Enter(sock[c]))
           sk == [sock[c] EXCEPT !.TCPState = "SYN_SENT", !.snd_nxt = @ + 1]
           e == Plain(sock[c], <<>>, {"SYN"})
<1>1. /\ cpc[c] = "start" /\ Commit(c, d, net)
      /\ listenTable' = listenTable \cup {c} /\ establishedTable' = establishedTable
      /\ cpc' = [cpc EXCEPT ![c] = "connect"] /\ maxSend' = maxSend /\ spc' = spc
  BY DEF ClientConnect
<1>2. ClientLife(c)  BY DEF ConnInv, Lives
<1>3. sock[c].rcv_nxt = 0 /\ c \notin establishedTable  BY <1>1, <1>2 DEF ClientLife
<1>4. sock[c] \in tcp_sock /\ Enter(sock[c]) \in Context /\ Enter(sock[c]).sk = sock[c]
  BY HostsAreSockets, SockType DEF Enter
<1>5. d \in Context /\ d.ok /\ Says(Enter(sock[c]), d, {e}) /\ KeepsRest(sk, d.sk)
  BY <1>3, <1>4, ConnectType, ConnectSays, ControlOk
<1>6. sk.local = sock[c].local /\ sk.peer = sock[c].peer /\ sk.TCPState = "SYN_SENT"
  BY <1>4 DEF tcp_sock
<1>7. "FIN" \notin e.flags  BY DEF Plain
<1> HIDE DEF d, e, sk
<1>8. /\ Talk({}) /\ \A r \in Sock : r # c => sock'[r] = sock[r]
      /\ sock'[c] = d.sk
  BY <1>1, <1>5, <1>6, <1>7, ClientSends
<1>9. sock'[c].TCPState = "SYN_SENT"  BY <1>5, <1>6, <1>8 DEF KeepsRest
<1>10. cpc'[c] = "connect" /\ \A g \in Clients : g # c => cpc'[g] = cpc[g]
  BY <1>1 DEF TypeOK
<1>11. ClientLife(c)'  BY <1>1, <1>3, <1>9, <1>10 DEF ClientLife
<1>12. ~Closing(c) /\ {} \subseteq {c}  BY <1>1 DEF Closing
<1> QED  BY <1>1, <1>8, <1>9, <1>10, <1>11, <1>12, ConnClient

LEMMA ConnClose ==
  ASSUME TypeOK, TypeOK', ConnInv, NEW c \in Clients, ClientClose(c)
  PROVE  ConnInv'
<1> DEFINE d == Close(Enter(sock[c]))
           sk == [sock[c] EXCEPT !.TCPState = "FIN_WAIT_1", !.snd_nxt = @ + 1]
           e == Plain(sock[c], <<>>, {"FIN", "ACK"})
<1>1. /\ cpc[c] = "sleep" /\ Commit(c, d, net)
      /\ listenTable' = listenTable /\ establishedTable' = establishedTable
      /\ cpc' = [cpc EXCEPT ![c] = "close"] /\ maxSend' = maxSend /\ spc' = spc
  BY DEF ClientClose, tables
<1>2. ClientLife(c)  BY DEF ConnInv, Lives
<1>3. c \notin listenTable  BY <1>1, <1>2 DEF ClientLife
<1>4. sock[c] \in tcp_sock /\ Enter(sock[c]) \in Context /\ Enter(sock[c]).sk = sock[c]
  BY HostsAreSockets, SockType DEF Enter
<1>5. d \in Context /\ d.ok /\ Says(Enter(sock[c]), d, {e}) /\ KeepsRest(sk, d.sk)
  BY <1>4, CloseType, CloseSays, ControlOk
<1>6. sk.local = sock[c].local /\ sk.peer = sock[c].peer /\ sk.TCPState = "FIN_WAIT_1"
  BY <1>4 DEF tcp_sock
<1> HIDE DEF d, e, sk
<1>7. /\ Talk({c}) /\ \A r \in Sock : r # c => sock'[r] = sock[r]
      /\ sock'[c] = d.sk
  BY <1>1, <1>5, <1>6, ClientSends
<1>8. sock'[c].TCPState = "FIN_WAIT_1"  BY <1>5, <1>6, <1>7 DEF KeepsRest
<1>9. cpc'[c] = "close" /\ \A g \in Clients : g # c => cpc'[g] = cpc[g]
  BY <1>1 DEF TypeOK
<1>10. ClientLife(c)' /\ Closing(c)'  BY <1>1, <1>3, <1>8, <1>9 DEF ClientLife, Closing
<1> QED  BY <1>1, <1>7, <1>8, <1>9, <1>10, ConnClient

LEMMA ConnWrite ==
  ASSUME TypeOK, TypeOK', WritesItsFile, ConnInv, NEW c \in Clients, ClientWrite(c)
  PROVE  ConnInv'
<1> DEFINE offset == FileLen - Remaining(c)
           size   == SegmentSize(Remaining(c))
           data   == SubSeq(File(c), offset + 1, offset + size)
           d      == Write(Enter(sock[c]), data)
           sk     == [sock[c] EXCEPT !.snd_nxt = @ + Len(data)]
           new    == {Plain(sock[c], data, {"ACK"})}
<1>1. /\ CanWrite(c) /\ Commit(c, d, net) /\ UNCHANGED <<tables, apps>>
  BY DEF ClientWrite
<1>2. data \in Seq(Byte)  BY <1>1, FileDataType
<1>3. c \in Sock /\ c # Server /\ c \notin Children /\ sock[c] \in tcp_sock
      /\ Enter(sock[c]) \in Context /\ Enter(sock[c]).sk = sock[c]
  BY SockCases, SockType DEF Enter
<1>4. /\ cpc[c] = "write" /\ maxSend[c] \in Nat /\ sock[c].snd_nxt \in Nat
      /\ Remaining(c) = maxSend[c] - sock[c].snd_nxt /\ Remaining(c) > 0
      /\ maxSend[c] <= sock[c].snd_nxt + FileLen /\ FileLen \in Nat
  BY <1>1, <1>3, ProtocolAssumption DEF CanWrite, Remaining, TypeOK, tcp_sock, WritesItsFile
<1>5. Len(data) <= Remaining(c) /\ Len(data) \in Nat
  <2>1. Remaining(c) \in 1 .. FileLen  BY <1>4
  <2>2. size \in 1 .. Remaining(c)  BY <2>1, SlotFacts DEF SegmentSize
  <2>3. offset \in Nat /\ offset + size <= FileLen /\ offset + size \in Nat
    BY <1>4, <2>1, <2>2
  <2> HIDE DEF offset, size
  <2>4. \A j \in offset + 1 .. offset + size : File(c)[j] \in Byte
    <3>1. \A j \in offset + 1 .. offset + size : j \in 1 .. FileLen  BY <2>3, <1>4
    <3> QED  BY <3>1, ProtocolAssumption DEF File
  <2>5. Len(data) = IF offset + 1 <= offset + size
                    THEN (offset + size) - (offset + 1) + 1 ELSE 0
    BY <2>3, <2>4, SubSeqProperties
  <2>6. Len(data) = size  BY <2>2, <2>3, <2>5
  <2>7. size \in Nat /\ size <= Remaining(c)  BY <1>4, <2>1, <2>2
  <2> HIDE DEF data
  <2> QED  BY <2>6, <2>7
<1> HIDE DEF data
<1>6. d \in Context /\ Says(Enter(sock[c]), d, new) /\ KeepsRest(sk, d.sk)
  BY <1>2, <1>3, WriteType, WriteSays
<1>7. /\ sk.local = sock[c].local /\ sk.peer = sock[c].peer /\ sk.rcv_nxt = sock[c].rcv_nxt
      /\ sk.TCPState = sock[c].TCPState /\ sk.snd_nxt = sock[c].snd_nxt + Len(data)
  BY <1>3 DEF tcp_sock
<1>8. sk.snd_nxt <= maxSend[c]  BY <1>4, <1>5, <1>7
<1>9. \A e \in new : "FIN" \notin e.flags  BY PlainFlags
<1>10. Repeats(sock[c], Enter(sock[c]))  BY <1>3, EnterRepeats
<1>11. net \in Wires /\ \A g \in Hosts : On(net, g) \subseteq InFlight(g)
  BY WiresType DEF InFlight
<1>12. UNCHANGED <<listenTable, establishedTable, cpc, maxSend, spc>>
  BY <1>1 DEF tables, apps
<1> HIDE DEF d, sk, new
<1> QED  BY <1>1, <1>3, <1>6, <1>7, <1>8, <1>9, <1>10, <1>11, <1>12, ConnCommit

\* The other steps of a client leave the sockets and the wires alone.
LEMMA ConnClientQuiet ==
  ASSUME TypeOK, TypeOK', ConnInv, NEW c \in Clients,
         ClientConnected(c) \/ ClientWriteBegin(c) \/ ClientWritten(c) \/ ClientClosed(c)
  PROVE  ConnInv'
<1>1. sock' = sock /\ net' = net /\ spc' = spc
  BY DEF ClientConnected, ClientWriteBegin, ClientWritten, ClientClosed
<1>2. Talk({})
  BY <1>1, QuietTalk DEF ConnInv, InFlight
<1>3. c \in Sock /\ sock[c].snd_nxt \in Nat /\ FileLen \in Nat
  BY SockCases, SockType, ProtocolAssumption DEF tcp_sock
<1>4. cpc \in [Clients -> {"start", "connect", "connected", "write", "sleep",
                           "close", "done"}] /\ maxSend \in [Clients -> Nat]
  BY DEF TypeOK
<1>5. ClientLife(c)  BY DEF ConnInv, Lives
<1>6. /\ \A g \in Clients : g # c => cpc'[g] = cpc[g] /\ maxSend'[g] = maxSend[g]
      /\ listenTable' \subseteq listenTable
      /\ establishedTable' \subseteq establishedTable \cup {c}
      /\ establishedTable \subseteq establishedTable' \cup {c}
      /\ Closing(c) => Closing(c)'
      /\ ClientLife(c)'
  <2>1. CASE ClientConnected(c)
    BY <1>1, <1>4, <1>5, <2>1 DEF ClientConnected, CanReturn, ClientLife, Closing
  <2>2. CASE ClientWriteBegin(c)
    <3>1. maxSend'[c] = sock[c].snd_nxt + FileLen  BY <1>4, <2>2 DEF ClientWriteBegin
    <3>2. sock[c].snd_nxt <= maxSend'[c]  BY <1>3, <3>1
    <3> QED  BY <1>1, <1>4, <1>5, <2>2, <3>2 DEF ClientWriteBegin, ClientLife, Closing, tables
  <2>3. CASE ClientWritten(c)
    BY <1>1, <1>4, <1>5, <2>3 DEF ClientWritten, ClientLife, Closing, tables
  <2>4. CASE ClientClosed(c)
    BY <1>1, <1>4, <1>5, <2>4 DEF ClientClosed, Closed, ClientLife, Closing
  <2> QED  BY <2>1, <2>2, <2>3, <2>4
<1> QED  BY <1>1, <1>2, <1>6, ConnClient

\* A step of the server's application
LEMMA ConnServer ==
  ASSUME TypeOK, TypeOK', ConnInv, Talk({}),
         \A r \in Sock : r # Server => sock'[r] = sock[r],
         sock'[Server].TCPState \in {"CLOSED", "LISTEN", "SYN_RECV"},
         UNCHANGED <<cpc, maxSend>>,
         listenTable' \subseteq listenTable \cup {Server},
         establishedTable' \subseteq establishedTable,
         spc' # "done" => spc # "done" /\ establishedTable' = establishedTable,
         establishedTable \cap Clients \subseteq establishedTable'
  PROVE  ConnInv'
<1>1. ASSUME NEW g \in Clients PROVE ClientLife(g)' /\ (Closing(g) => Closing(g)')
  <2>1. ClientLife(g)  BY DEF ConnInv, Lives
  <2>2. sock'[g] = sock[g] /\ cpc'[g] = cpc[g] /\ maxSend'[g] = maxSend[g]
        /\ (g \in listenTable' => g \in listenTable)
        /\ (g \in establishedTable' => g \in establishedTable)
    BY SockCases
  <2> QED  BY <2>1, <2>2 DEF ClientLife, Closing
<1>2. /\ \A g \in Clients : sock'[g] = sock[g]
      /\ \A k \in Children : /\ sock'[k] = sock[k]
                             /\ sock'[k].TCPState \in {"CLOSED", "ESTABLISHED", "LAST_ACK"}
      /\ Server \notin establishedTable'
  BY SockCases DEF ConnInv, Lives
<1>3. {} \subseteq Clients \cup Children  OBVIOUS
<1> QED  BY <1>1, <1>2, <1>3, ConnStep

LEMMA ConnServerRead ==
  ASSUME TypeOK, TypeOK', ConnInv, ServerRead
  PROVE  ConnInv'
<1> DEFINE d == Read(Enter(sock[csk]))
           sk == [sock[csk] EXCEPT !.buf = Emptied(sock[csk]), !.head = sock[csk].tail]
           new == {Plain(sock[csk], <<>>, {"ACK"})}
<1>1. /\ Commit(csk, d, net) /\ UNCHANGED <<tables, cpc, maxSend, spc>> /\ csk \in Children
  BY DEF ServerRead, TypeOK
<1>2. csk \in Sock /\ csk # Server /\ csk \notin Clients /\ sock[csk] \in tcp_sock
      /\ Enter(sock[csk]) \in Context /\ Enter(sock[csk]).sk = sock[csk]
  BY <1>1, SockCases, SockType DEF Enter
<1>3. d \in Context /\ Says(Enter(sock[csk]), d, new) /\ KeepsRest(sk, d.sk)
  BY <1>2, ReadType, ReadSays
<1>4. sk.local = sock[csk].local /\ sk.peer = sock[csk].peer /\ sk.TCPState = sock[csk].TCPState
  BY <1>2 DEF tcp_sock
<1>5. \A e \in new : "FIN" \notin e.flags  BY PlainFlags
<1>6. Repeats(sock[csk], Enter(sock[csk]))  BY <1>2, EnterRepeats
<1>7. net \in Wires /\ \A g \in Hosts : On(net, g) \subseteq InFlight(g)
  BY WiresType DEF InFlight
<1>8. UNCHANGED <<listenTable, establishedTable, cpc, maxSend, spc>>
  BY <1>1 DEF tables
<1>9. sock[csk].TCPState \in {"CLOSED", "ESTABLISHED", "LAST_ACK"}
  BY <1>1 DEF ConnInv, Lives
<1> HIDE DEF d, sk, new
<1> QED  BY <1>1, <1>2, <1>3, <1>4, <1>5, <1>6, <1>7, <1>8, <1>9, ConnCommit

LEMMA ConnServerApp ==
  ASSUME TypeOK, TypeOK', ConnInv, ServerApp
  PROVE  ConnInv'
<1>1. sock[Server].TCPState \in {"CLOSED", "LISTEN", "SYN_RECV"}  BY DEF ConnInv, Lives
<1>2. CASE ServerListen
  <2>1. sock' = [sock EXCEPT ![Server].TCPState = "LISTEN"] /\ net' = net
    BY <1>2 DEF ServerListen
  <2>2. Server \in Sock  BY SockCases
  <2>3. Talk({}) /\ sock'[Server].TCPState = "LISTEN"
        /\ \A r \in Sock : r # Server => sock'[r] = sock[r]
    BY <2>1, <2>2, StateTalk
  <2> QED  BY <1>2, <2>3, ConnServer DEF ServerListen
<1>3. CASE (\E k \in Children : ServerAccept(k)) \/ ServerReadSleep \/ ServerReadWake
  <2>1. /\ sock' = sock /\ net' = net /\ UNCHANGED <<cpc, maxSend, listenTable, establishedTable>>
        /\ spc # "done"
    BY <1>3 DEF ServerAccept, ServerReadSleep, ServerReadWake, tables, CanAccept
  <2>2. Talk({})  BY <2>1, QuietTalk DEF ConnInv, InFlight
  <2> QED  BY <1>1, <2>1, <2>2, ConnServer
<1>4. CASE ServerRead  BY <1>4, ConnServerRead
<1>5. CASE ServerClose
  <2>1. /\ sock' = sock /\ net' = net /\ UNCHANGED <<cpc, maxSend, listenTable>>
        /\ establishedTable' = establishedTable \ {csk} /\ spc' = "done" /\ csk \in Children
    BY <1>5 DEF ServerClose, TypeOK
  <2>2. Talk({})  BY <2>1, QuietTalk DEF ConnInv, InFlight
  <2>3. csk \notin Clients  BY <2>1, SockCases
  <2> QED  BY <1>1, <2>1, <2>2, <2>3, ConnServer
<1> QED  BY <1>2, <1>3, <1>4, <1>5 DEF ServerApp

-----------------------------------------------------------------------------
(* The theorems about connections.                                         *)

LEMMA ConnInit == ASSUME Init PROVE ConnInv
<1>1. \A s \in Sock :
        /\ sock[s].local = IF s \in Hosts THEN s ELSE Server
        /\ sock[s].peer = IF s \in Clients THEN Server ELSE NoPeer
        /\ sock[s].TCPState = "CLOSED" /\ sock[s].rcv_nxt = 0 /\ sock[s].sendBuffer = <<>>
  BY SockCases DEF Init, alloc_tcp_sock
<1>2. /\ listenTable = {} /\ establishedTable = {}
      /\ \A c \in Clients : cpc[c] = "start"
      /\ \A h \in Hosts : net[h] = <<>>
  BY DEF Init
<1>3. \A s \in Sock : ~HasFin(sock[s])  BY <1>1 DEF HasFin, Logged
<1>4. \A h \in Hosts : InFlight(h) = {}  BY <1>2 DEF InFlight, On
<1>5. Homes  BY <1>1, <1>4, SockCases DEF Homes
<1>6. Lives  BY <1>1, <1>2, SockCases DEF Lives, ClientLife
<1>7. Fins  BY <1>1, <1>3, <1>4, SockCases DEF Fins
<1>8. OneSocketPerKey  BY <1>2 DEF OneSocketPerKey
<1> QED  BY <1>5, <1>6, <1>7, <1>8 DEF ConnInv

\* One step of the receiver thread of host h
LEMMA ConnReceive ==
  ASSUME TypeOK, TypeOK', ChildrenApart, ConnInv, NEW h \in Hosts, Receive(h)
  PROVE  ConnInv'
<1>1. PICK i \in DOMAIN net[h] : ReceiveAt(h, i)  BY DEF Receive
<1>2. CASE ReceiveNoSocket(h, i) \/ \E s \in Sock : ReceiveSYN4NoChild(h, i, s)
  BY <1>2, ConnDropped
<1>3. ASSUME NEW s \in Sock,
             \/ ReceiveFIN1(h, i, s) \/ ReceiveFIN2(h, i, s) \/ ReceiveFIN3(h, i, s)
             \/ ReceiveFIN4(h, i, s) \/ ReceiveData(h, i, s)
      PROVE  ConnInv'
  BY <1>3, ConnFIN1, ConnFIN2, ConnFIN3, ConnFIN4, ConnData
<1>4. ASSUME NEW s \in Sock,
             ReceiveOnlyAck(h, i, s) \/ ReceiveBeforeMove(h, i, s) \/ ReceiveSYN3(h, i, s)
      PROVE  ConnInv'
  BY <1>4, ConnIgnore, ConnSYN3
<1>5. ASSUME NEW s \in Sock, NEW k \in Children,
             ReceiveSYN1(h, i, s, k) \/ ReceiveSYN4(h, i, s, k)
      PROVE  ConnInv'
  BY <1>5, ConnSYN1, ConnSYN4
<1> QED  BY <1>1, <1>2, <1>3, <1>4, <1>5 DEF ReceiveAt

LEMMA ConnNext ==
  ASSUME TypeOK, WritesItsFile, ChildrenApart, ConnInv, [Next]_vars
  PROVE  ConnInv'
<1>1. TypeOK'  BY TypeStep
<1>2. CASE UNCHANGED vars
  BY <1>1, <1>2, ConnWires DEF vars, InFlight
<1>3. ASSUME NEW c \in Clients, Client(c) PROVE ConnInv'
  BY <1>1, <1>3, ConnConnect, ConnWrite, ConnClose, ConnClientQuiet DEF Client
<1>4. CASE ServerApp  BY <1>1, <1>4, ConnServerApp
<1>5. ASSUME NEW h \in Hosts, Receive(h) PROVE ConnInv'  BY <1>1, <1>5, ConnReceive
<1>6. ASSUME NEW h \in Hosts, Network(h) PROVE ConnInv'
  BY <1>1, <1>6, ConnDropped, ConnDuplicate DEF Network
<1>7. ASSUME NEW s \in Sock, AckTimeOut(s) \/ TimeWaitOver(s) PROVE ConnInv'
  BY <1>1, <1>7, ConnAckTimeOut, ConnTimeWait
<1> QED  BY <1>2, <1>3, <1>4, <1>5, <1>6, <1>7 DEF Next

LEMMA ConnCorrect == Spec => [](TypeOK /\ ConnInv)
<1> DEFINE Inv == TypeOK /\ WritesItsFile /\ ChildrenApart /\ ConnInv
<1>1. Init => Inv
  BY TypeInit, ConnInit DEF Init, ChildrenApart
<1>2. Inv /\ [Next]_vars => Inv'
  <2> SUFFICES ASSUME Inv, [Next]_vars PROVE Inv'
    OBVIOUS
  <2>1. TypeOK' /\ WritesItsFile'  BY TypeStep
  <2>2. ChildrenApart'  BY TablesStep DEF ChildrenApart
  <2> QED  BY <2>1, <2>2, ConnNext
<1>3. Inv => TypeOK /\ ConnInv  OBVIOUS
<1> QED  BY <1>1, <1>2, <1>3, PTL DEF Spec

\* Whatever is lost, repeated or reordered, the established map of a host
\* never holds two sockets with one pair of addresses: handleSYN4 adopts a
\* child only when no socket has its key, and nothing changes the addresses
\* of a socket that is in the map.
THEOREM OneSocketCorrect == Spec => []OneSocketPerKey
<1>1. ConnInv => OneSocketPerKey  BY DEF ConnInv
<1> QED  BY <1>1, ConnCorrect, PTL

\* A client's connection stays open under tcp_sock_write, whatever segments
\* reach it: the server sends its FIN only after the client's own, and the
\* client sends that after it has written.
THEOREM WriterCorrect == Spec => []WriterUndisturbed
<1>1. ConnInv => WriterUndisturbed
  BY DEF ConnInv, Lives, ClientLife, WriterUndisturbed
<1> QED  BY <1>1, ConnCorrect, PTL

\* A client whose socket is in TIME_WAIT has met the FIN of the one child that
\* serves it, which that child sends when it has taken the client's.
THEOREM CloseCorrect == Spec => []CloseIsMutual
<1>1. ASSUME TypeOK, ConnInv PROVE CloseIsMutual
  <2> SUFFICES ASSUME NEW c \in Clients, sock[c].TCPState = "TIME_WAIT", NEW k \in Peers(c),
                      k = csk /\ spc \in {"read", "sleep", "close"}
               PROVE  sock[k].TCPState \in {"LAST_ACK", "CLOSED"}
    BY DEF CloseIsMutual
  <2>1. FinSeen(c)  BY <1>1 DEF ConnInv, Fins
  <2>2. PICK q \in Peers(c) : sock[q].TCPState \in {"LAST_ACK", "CLOSED"}
    BY <2>1 DEF FinSeen
  <2>3. /\ k \in establishedTable \cap Children /\ q \in establishedTable \cap Children
        /\ sock[k].peer = c /\ sock[q].peer = c
    BY DEF Peers
  <2>4. sock[k].local = Server /\ sock[q].local = Server
    BY <1>1, <2>3, SockCases DEF ConnInv, Homes
  <2>5. q = k  BY <1>1, <2>3, <2>4 DEF ConnInv, OneSocketPerKey
  <2> QED  BY <2>2, <2>5
<1> QED  BY <1>1, ConnCorrect, PTL

-----------------------------------------------------------------------------
(* The stream of one client, from its file to the server's application.    *)

\* The sequence number of the first byte of c's file
Base(c) == IF cpc[c] \in {"start", "connect", "connected"} THEN sock[c].snd_nxt
           ELSE FirstByte(c)

\* The first number after the bytes that tcp_sock_write has sent
End(c) == IF Closing(c) THEN maxSend[c] ELSE sock[c].snd_nxt

\* Until both applications are done with c's connection
Streams(c) == spc # "done" \/ ~Closing(c)

Carries(c, e) == Carried(e, c, Base(c), End(c)) /\ e.seq <= sock[c].snd_nxt

\* A number the server has let the client send up to
Allowed(c, n) == n <= Base(c) + Window \/ \E k \in Peers(c) : n <= sock[k].head + Window

\* A number below which the server has every byte
Reached(c, n) == n <= Base(c) \/ \E k \in Peers(c) : n <= sock[k].tail

\* What the client sends comes from its file.
Sending(c) ==
  /\ Base(c) <= sock[c].snd_nxt
  /\ cpc[c] = "sleep" => sock[c].snd_nxt = maxSend[c]
  /\ \A e \in Logged(sock[c]) : cpc[c] # "start" /\ Carries(c, e)
  /\ \A m \in InFlight(Server) : m.src = c => cpc[c] # "start" /\ Carries(c, m)

\* The server promises only what its ring has room for, acknowledges only what
\* is there, and the client keeps to both.
Offered(c) ==
  /\ \A m \in InFlight(c) : "ACK" \in m.flags
  /\ ~Closing(c) =>
       /\ \A m \in InFlight(c) : Allowed(c, m.ack + m.rwnd) /\ Reached(c, m.ack)
       /\ sock[c].TCPState = "ESTABLISHED" =>
            Allowed(c, sock[c].snd_una + sock[c].rcv_wnd) /\ Reached(c, sock[c].snd_una)
       /\ cpc[c] # "start" => Reached(c, FirstLogged(sock[c]))
  /\ Streams(c) => Allowed(c, End(c))

\* The server has answered nothing yet; all that c has said is its SYN.
Untouched(c) ==
  /\ cpc[c] \in {"start", "connect"} /\ sock[c].TCPState # "ESTABLISHED"
  /\ InFlight(c) = {}
  /\ \A e \in Logged(sock[c]) : e.seq + 1 = Base(c)
  /\ \A m \in InFlight(Server) : m.src = c => m.seq + 1 = Base(c)

\* The listening socket answers a client with the start of its file; a client
\* it has turned away from has a child.
Greeted(c) ==
  /\ sock[Server].peer = c \/ Peers(c) # {} => cpc[c] # "start"
  /\ Streams(c) /\ sock[Server].peer = c =>
       /\ sock[Server].rcv_nxt = Base(c)
       /\ Peers(c) = {} => sock[Server].TCPState = "SYN_RECV"
  /\ Streams(c) /\ Peers(c) = {} /\ sock[Server].peer # c => Untouched(c)

\* The ring of the child k that serves c
Ring(c, k) ==
  /\ RingHolds(sock[k], c, Base(c), End(c))
  /\ sock[k].TCPState = "ESTABLISHED" => sock[k].rcv_nxt = sock[k].tail
  /\ sock[k].TCPState # "ESTABLISHED" => Closing(c)

ClientInv(c) ==
  /\ Sending(c) /\ Offered(c) /\ Greeted(c)
  /\ Streams(c) => \A k \in Peers(c) : Ring(c, k)

\* The listening socket and the child it waits for
Listening ==
  /\ spc = "start" => Server \notin listenTable /\ sock[Server].TCPState = "CLOSED"
  /\ sock[Server].head = 0 /\ sock[Server].tail = 0
  /\ \A s \in Children \cup {Server} : \A e \in Logged(sock[s]) : "ACK" \in e.flags
  /\ IF sock[Server].TCPState = "SYN_RECV"
     THEN \E k \in Children : synRcvdList = {k} /\ sock[k].peer = sock[Server].peer
     ELSE synRcvdList = {}
  /\ sock[Server].TCPState = "SYN_RECV" => sock[Server].peer \in Clients
  /\ \A k \in synRcvdList : \A i \in Slot : sock[k].buf[i] = NoByte
  /\ \A k \in establishedTable \cap Children : sock[k].peer \in Clients

\* What the server's application has read ends just before head.
Reading ==
  /\ acceptList \subseteq Children /\ (spc # "done" => acceptList \subseteq establishedTable)
  /\ spc \in {"start", "accept"} => delivered = <<>>
  /\ spc \in {"read", "sleep", "close"} => csk \in establishedTable
  /\ \A c \in Clients :
       spc \in {"read", "sleep", "close"} /\ delivered # <<>> /\ sock[csk].peer = c =>
         /\ Base(c) <= sock[csk].head - 1 /\ sock[csk].head - 1 < End(c)
         /\ delivered[Len(delivered)] = <<c, sock[csk].head - Base(c)>>
  /\ spc = "close" => sock[csk].TCPState # "ESTABLISHED"
  /\ DeliveredInOrder

StreamInv == (\A c \in Clients : ClientInv(c)) /\ Listening /\ Reading

-----------------------------------------------------------------------------
(* How one client's part of the invariant survives a step.                 *)

LEMMA StreamTypes ==
  ASSUME TypeOK, NEW c \in Clients
  PROVE  /\ sock[c] \in tcp_sock /\ sock[c].snd_nxt \in Nat /\ sock[c].snd_una \in Nat
         /\ sock[c].rcv_wnd \in Nat
         /\ Base(c) \in Int /\ End(c) \in Nat /\ maxSend[c] \in Nat
         /\ FirstLogged(sock[c]) \in Nat
<1>1. sock[c] \in tcp_sock  BY SockType, HostsAreSockets
<1>2. maxSend[c] \in Nat /\ FileLen \in Nat  BY ProtocolAssumption DEF TypeOK
<1>3. /\ sock[c].snd_nxt \in Nat /\ sock[c].snd_una \in Nat /\ sock[c].rcv_wnd \in Nat
      /\ sock[c].sendBuffer \in Seq(TCPPacketInfo_c)
  BY <1>1 DEF tcp_sock
<1>4. FirstLogged(sock[c]) \in Nat
  <2>1. CASE sock[c].sendBuffer = <<>>  BY <1>3, <2>1 DEF FirstLogged
  <2>2. CASE sock[c].sendBuffer # <<>>
    <3>1. sock[c].sendBuffer[1] \in TCPPacketInfo_c  BY <1>3, <2>2
    <3> QED  BY <2>2, <3>1 DEF FirstLogged, TCPPacketInfo_c
  <2> QED  BY <2>1, <2>2
<1> QED  BY <1>1, <1>2, <1>3, <1>4 DEF Base, End, FirstByte

LEMMA StreamTypesNext ==
  ASSUME TypeOK', NEW c \in Clients
  PROVE  /\ sock'[c] \in tcp_sock /\ sock'[c].snd_nxt \in Nat /\ sock'[c].snd_una \in Nat
         /\ sock'[c].rcv_wnd \in Nat
         /\ Base(c)' \in Int /\ End(c)' \in Nat /\ maxSend'[c] \in Nat
         /\ FirstLogged(sock'[c]) \in Nat
<1>1. sock'[c] \in tcp_sock  BY HostsAreSockets DEF TypeOK
<1>2. maxSend'[c] \in Nat /\ FileLen \in Nat  BY ProtocolAssumption DEF TypeOK
<1>3. /\ sock'[c].snd_nxt \in Nat /\ sock'[c].snd_una \in Nat /\ sock'[c].rcv_wnd \in Nat
      /\ sock'[c].sendBuffer \in Seq(TCPPacketInfo_c)
  BY <1>1 DEF tcp_sock
<1>4. FirstLogged(sock'[c]) \in Nat
  <2>1. CASE sock'[c].sendBuffer = <<>>  BY <1>3, <2>1 DEF FirstLogged
  <2>2. CASE sock'[c].sendBuffer # <<>>
    <3>1. sock'[c].sendBuffer[1] \in TCPPacketInfo_c  BY <1>3, <2>2
    <3> QED  BY <2>2, <3>1 DEF FirstLogged, TCPPacketInfo_c
  <2> QED  BY <2>1, <2>2
<1> QED  BY <1>1, <1>2, <1>3, <1>4 DEF Base, End, FirstByte

\* What the entries of a send buffer and the segments on a wire are
LEMMA CarrierTypes ==
  ASSUME TypeOK
  PROVE  /\ \A s \in Sock : \A e \in Logged(sock[s]) : e.seq \in Nat /\ e.data \in Seq(Byte)
         /\ \A h \in Hosts : \A m \in InFlight(h) :
              /\ m.seq \in Nat /\ m.data \in Seq(Byte) /\ m \in Segment
              /\ m.ack \in Nat /\ m.rwnd \in Nat
<1>1. ASSUME NEW s \in Sock, NEW e \in Logged(sock[s])
      PROVE  e.seq \in Nat /\ e.data \in Seq(Byte)
  <2>1. sock[s].sendBuffer \in Seq(TCPPacketInfo_c)  BY SockType DEF tcp_sock
  <2>2. PICK i \in DOMAIN sock[s].sendBuffer : e = Logging(sock[s].sendBuffer[i])
    BY DEF Logged
  <2>3. sock[s].sendBuffer[i] \in TCPPacketInfo_c  BY <2>1, <2>2
  <2> QED  BY <2>2, <2>3 DEF Logging, TCPPacketInfo_c
<1>2. ASSUME NEW h \in Hosts, NEW m \in InFlight(h)
      PROVE  m \in Segment
  BY WithoutType DEF InFlight, On
<1> QED  BY <1>1, <1>2 DEF Segment

LEMMA MayMore ==
  ASSUME TypeOK, TypeOK', NEW c \in Clients, Base(c)' = Base(c),
         \A k \in Peers(c) : /\ k \in Peers(c)'
                             /\ sock[k].head <= sock'[k].head
                             /\ sock[k].tail <= sock'[k].tail,
         NEW n \in Int
  PROVE  /\ Allowed(c, n) => Allowed(c, n)'
         /\ Reached(c, n) => Reached(c, n)'
<1>1. \A k \in Peers(c) : /\ sock[k].head \in Nat /\ sock'[k].head \in Nat
                          /\ sock[k].tail \in Nat /\ sock'[k].tail \in Nat
  <2>1. \A k \in Peers(c) : k \in Sock  BY SockCases DEF Peers
  <2> QED  BY <2>1 DEF TypeOK, tcp_sock
<1>2. Window \in Int  BY WindowSize
<1>3. \A k \in Peers(c) : n <= sock[k].head + Window => n <= sock'[k].head + Window
  BY <1>1, <1>2
<1>4. \A k \in Peers(c) : n <= sock[k].tail => n <= sock'[k].tail
  BY <1>1
<1>5. ASSUME Allowed(c, n) PROVE Allowed(c, n)'
  <2>1. CASE n <= Base(c) + Window
    <3>1. n <= Base(c)' + Window  BY <2>1
    <3> QED  BY <3>1 DEF Allowed
  <2>2. CASE \E k \in Peers(c) : n <= sock[k].head + Window
    <3>1. PICK k \in Peers(c) : n <= sock[k].head + Window  BY <2>2
    <3>2. k \in Peers(c)' /\ n <= sock'[k].head + Window  BY <1>3, <3>1
    <3> QED  BY <3>2 DEF Allowed
  <2> QED  BY <1>5, <2>1, <2>2 DEF Allowed
<1>6. ASSUME Reached(c, n) PROVE Reached(c, n)'
  <2>1. CASE n <= Base(c)
    <3>1. n <= Base(c)'  BY <2>1
    <3> QED  BY <3>1 DEF Reached
  <2>2. CASE \E k \in Peers(c) : n <= sock[k].tail
    <3>1. PICK k \in Peers(c) : n <= sock[k].tail  BY <2>2
    <3>2. k \in Peers(c)' /\ n <= sock'[k].tail  BY <1>4, <3>1
    <3> QED  BY <3>2 DEF Reached
  <2> QED  BY <1>6, <2>1, <2>2 DEF Reached
<1> QED  BY <1>5, <1>6

LEMMA RingStill ==
  ASSUME TypeOK, TypeOK', NEW c \in Clients, NEW k \in Children, Ring(c, k),
         sock'[k] = sock[k], Base(c)' = Base(c), End(c) <= End(c)',
         Closing(c) => Closing(c)'
  PROVE  Ring(c, k)'
<1>1. Base(c) \in Int /\ End(c) \in Nat /\ End(c)' \in Nat  BY StreamTypes, StreamTypesNext
<1>2. sock[k].head \in Nat  BY SockCases, SockType DEF tcp_sock
<1>3. RingHolds(sock[k], c, Base(c), End(c))  BY DEF Ring
<1> DEFINE sk == sock[k]  b == Base(c)  e == End(c)  f == End(c)'
<1>4. sk.head \in Nat /\ b \in Int /\ e \in Nat /\ f \in Nat /\ e <= f /\ RingHolds(sk, c, b, e)
  BY <1>1, <1>2, <1>3
<1> HIDE DEF sk, b, e, f
<1>5. RingHolds(sk, c, b, f)  BY <1>4, RingKept
<1>6. RingHolds(sock[k], c, Base(c), End(c)')  BY <1>5 DEF sk, b, f
<1>7. RingHolds(sock'[k], c, Base(c)', End(c)')  BY <1>6
<1> QED  BY <1>7 DEF Ring

LEMMA CarriedOn ==
  ASSUME TypeOK, TypeOK', NEW c \in Clients, NEW e, e.seq \in Nat, e.data \in Seq(Byte),
         Carries(c, e), Base(c)' = Base(c), End(c) <= End(c)',
         sock[c].snd_nxt <= sock'[c].snd_nxt
  PROVE  Carries(c, e)'
<1>1. Base(c) \in Int /\ End(c) \in Nat /\ End(c)' \in Nat  BY StreamTypes, StreamTypesNext
<1> DEFINE b == Base(c)  n == End(c)  f == End(c)'
<1>2. b \in Int /\ n \in Nat /\ f \in Nat /\ n <= f /\ Carried(e, c, b, n)
  BY <1>1 DEF Carries
<1> HIDE DEF b, n, f
<1>3. Carried(e, c, b, f)  BY <1>2, CarriedMore
<1>4. Carried(e, c, Base(c)', End(c)')  BY <1>3 DEF b, f
<1>5. e.seq <= sock'[c].snd_nxt
  <2>1. e.seq <= sock[c].snd_nxt  BY DEF Carries
  <2> QED  BY <2>1, StreamTypes, StreamTypesNext
<1> QED  BY <1>4, <1>5 DEF Carries

\* What a step must do with one client, its child and the wires between them
LEMMA ClientStep ==
  ASSUME TypeOK, TypeOK', NEW c \in Clients, ClientInv(c),
         cpc[c] # "start" => cpc'[c] # "start", Closing(c) => Closing(c)',
         spc = "done" => spc' = "done",
         Base(c)' = Base(c), End(c) <= End(c)', Base(c) <= sock'[c].snd_nxt,
         sock[c].snd_nxt <= sock'[c].snd_nxt,
         cpc'[c] = "sleep" => sock'[c].snd_nxt = maxSend'[c],
         \A e \in Logged(sock'[c]) :
           e \in Logged(sock[c]) \/ (cpc'[c] # "start" /\ Carries(c, e)'),
         \A m \in InFlight(Server)' : m.src = c =>
           m \in InFlight(Server) \/ (cpc'[c] # "start" /\ Carries(c, m)'),
         \A m \in InFlight(c)' :
           \/ m \in InFlight(c)
           \/ /\ "ACK" \in m.flags
              /\ ~Closing(c)' => Allowed(c, m.ack + m.rwnd)' /\ Reached(c, m.ack)',
         ~Closing(c)' =>
           /\ sock'[c].TCPState = "ESTABLISHED" =>
                \/ /\ sock[c].TCPState = "ESTABLISHED"
                   /\ sock'[c].snd_una = sock[c].snd_una /\ sock'[c].rcv_wnd = sock[c].rcv_wnd
                \/ /\ Allowed(c, sock[c].snd_una + sock[c].rcv_wnd)'
                   /\ Reached(c, sock[c].snd_una)'
           /\ cpc'[c] # "start" =>
                \/ cpc[c] # "start" /\ FirstLogged(sock'[c]) = FirstLogged(sock[c])
                \/ Reached(c, FirstLogged(sock[c]))',
         Streams(c)' =>
           /\ End(c)' = End(c) \/ Allowed(c, End(c))'
           /\ \A k \in Peers(c) : /\ k \in Peers(c)'
                                  /\ sock[k].head <= sock'[k].head
                                  /\ sock[k].tail <= sock'[k].tail,
         Greeted(c)', Streams(c)' => \A k \in Peers(c)' : Ring(c, k)'
  PROVE  ClientInv(c)'
<1>1. Sending(c) /\ Offered(c)  BY DEF ClientInv
<1>2. ~Closing(c)' => ~Closing(c) /\ Streams(c)'  BY DEF Streams
<1>3. Streams(c)' => Streams(c)  BY DEF Streams
<1>4. Streams(c)' => \A n \in Int : /\ Allowed(c, n) => Allowed(c, n)'
                                    /\ Reached(c, n) => Reached(c, n)'
  BY MayMore
<1>5. /\ \A e \in Logged(sock[c]) : e.seq \in Nat /\ e.data \in Seq(Byte)
      /\ \A m \in InFlight(Server) : m.seq \in Nat /\ m.data \in Seq(Byte)
      /\ \A m \in InFlight(c) : m.ack \in Nat /\ m.rwnd \in Nat
  BY CarrierTypes, HostsAreSockets DEF Hosts
<1>6. Sending(c)'
  <2>1. \A e \in Logged(sock'[c]) : cpc'[c] # "start" /\ Carries(c, e)'
    <3> SUFFICES ASSUME NEW e \in Logged(sock'[c]) PROVE cpc'[c] # "start" /\ Carries(c, e)'
      OBVIOUS
    <3>1. CASE e \in Logged(sock[c])
      <4>1. cpc[c] # "start" /\ Carries(c, e)  BY <1>1, <3>1 DEF Sending
      <4> QED  BY <1>5, <3>1, <4>1, CarriedOn
    <3> QED  BY <3>1
  <2>2. \A m \in InFlight(Server)' : m.src = c => cpc'[c] # "start" /\ Carries(c, m)'
    <3> SUFFICES ASSUME NEW m \in InFlight(Server)', m.src = c
                 PROVE  cpc'[c] # "start" /\ Carries(c, m)'
      OBVIOUS
    <3>1. CASE m \in InFlight(Server)
      <4>1. cpc[c] # "start" /\ Carries(c, m)  BY <1>1, <3>1 DEF Sending
      <4> QED  BY <1>5, <3>1, <4>1, CarriedOn
    <3> QED  BY <3>1
  <2>3. Base(c)' <= sock'[c].snd_nxt  OBVIOUS
  <2> QED  BY <2>1, <2>2, <2>3 DEF Sending
<1>7. Offered(c)'
  <2>1. \A m \in InFlight(c)' : "ACK" \in m.flags  BY <1>1 DEF Offered
  <2>2. ASSUME ~Closing(c)'
        PROVE  \A m \in InFlight(c)' : Allowed(c, m.ack + m.rwnd)' /\ Reached(c, m.ack)'
    <3> SUFFICES ASSUME NEW m \in InFlight(c)'
                 PROVE  Allowed(c, m.ack + m.rwnd)' /\ Reached(c, m.ack)'
      OBVIOUS
    <3>1. CASE m \in InFlight(c)
      <4>1. Allowed(c, m.ack + m.rwnd) /\ Reached(c, m.ack)
        BY <1>1, <1>2, <2>2, <3>1 DEF Offered
      <4>2. m.ack + m.rwnd \in Int /\ m.ack \in Int  BY <1>5, <3>1
      <4> QED  BY <1>2, <1>4, <2>2, <4>1, <4>2
    <3> QED  BY <2>2, <3>1
  <2>3. ASSUME ~Closing(c)', sock'[c].TCPState = "ESTABLISHED"
        PROVE  /\ Allowed(c, sock[c].snd_una + sock[c].rcv_wnd)'
               /\ Reached(c, sock[c].snd_una)'
    <3>1. CASE /\ sock[c].TCPState = "ESTABLISHED"
               /\ sock'[c].snd_una = sock[c].snd_una /\ sock'[c].rcv_wnd = sock[c].rcv_wnd
      <4>1. PICK u \in Int, w \in Int : u = sock[c].snd_una /\ w = sock[c].rcv_wnd
        BY StreamTypes
      <4>2. Allowed(c, u + w) /\ Reached(c, u)
        BY <1>1, <1>2, <2>3, <3>1, <4>1 DEF Offered
      <4>3. Allowed(c, u + w)' /\ Reached(c, u)'  BY <1>2, <1>4, <2>3, <4>2
      <4>4. u = sock'[c].snd_una /\ w = sock'[c].rcv_wnd  BY <3>1, <4>1
      <4> QED  BY <4>3, <4>4
    <3> QED  BY <2>3, <3>1
  <2>4. ASSUME ~Closing(c)', cpc'[c] # "start" PROVE Reached(c, FirstLogged(sock[c]))'
    <3>1. CASE cpc[c] # "start" /\ FirstLogged(sock'[c]) = FirstLogged(sock[c])
      <4>1. PICK n \in Int : n = FirstLogged(sock[c])  BY StreamTypes
      <4>2. Reached(c, n)  BY <1>1, <1>2, <2>4, <3>1, <4>1 DEF Offered
      <4>3. Reached(c, n)'  BY <1>2, <1>4, <2>4, <4>2
      <4>4. n = FirstLogged(sock'[c])  BY <3>1, <4>1
      <4> QED  BY <4>3, <4>4
    <3> QED  BY <2>4, <3>1
  <2>5. ASSUME Streams(c)' PROVE Allowed(c, End(c))'
    <3>1. CASE End(c)' = End(c)
      <4>1. Allowed(c, End(c))  BY <1>1, <1>3, <2>5 DEF Offered
      <4>2. End(c) \in Int  BY StreamTypes
      <4> QED  BY <1>4, <2>5, <3>1, <4>1, <4>2
    <3> QED  BY <2>5, <3>1
  <2> QED  BY <2>1, <2>2, <2>3, <2>4, <2>5 DEF Offered
<1> QED  BY <1>6, <1>7 DEF ClientInv

LEMMA GreetedKept ==
  ASSUME NEW c \in Clients, Greeted(c), Base(c)' = Base(c),
         cpc[c] # "start" => cpc'[c] # "start", Streams(c)' => Streams(c),
         sock'[Server].peer = c => sock[Server].peer = c \/ Peers(c) # {},
         Peers(c)' # {} => Peers(c) # {},
         Streams(c)' =>
           /\ Peers(c)' = {} => Peers(c) = {}
           /\ sock'[Server].peer = c =>
                /\ sock[Server].peer = c
                /\ sock'[Server].rcv_nxt = sock[Server].rcv_nxt
                /\ \/ sock'[Server].TCPState = sock[Server].TCPState
                   \/ Peers(c) # {}
           /\ Peers(c) = {} /\ sock'[Server].peer # c => sock[Server].peer # c
           /\ Peers(c) = {} /\ sock[Server].peer # c /\ Untouched(c) => Untouched(c)'
  PROVE  Greeted(c)'
<1>1. sock'[Server].peer = c \/ Peers(c)' # {} => cpc'[c] # "start"
  BY DEF Greeted
<1>2. ASSUME Streams(c)', sock'[Server].peer = c
      PROVE  /\ sock'[Server].rcv_nxt = Base(c)'
             /\ Peers(c)' = {} => sock'[Server].TCPState = "SYN_RECV"
  BY <1>2 DEF Greeted
<1>3. ASSUME Streams(c)', Peers(c)' = {}, sock'[Server].peer # c PROVE Untouched(c)'
  BY <1>3 DEF Greeted
<1> QED  BY <1>1, <1>2, <1>3 DEF Greeted

\* A client that the step does not touch, nor its child, unless the server's
\* application closes that
LEMMA ClientFrame ==
  ASSUME TypeOK, TypeOK', NEW c \in Clients, ClientInv(c),
         sock'[c] = sock[c], cpc'[c] = cpc[c], maxSend'[c] = maxSend[c],
         spc = "done" => spc' = "done",
         InFlight(c)' \subseteq InFlight(c),
         \A m \in InFlight(Server)' : m.src = c => m \in InFlight(Server),
         Peers(c)' \subseteq Peers(c),
         Streams(c)' => Peers(c)' = Peers(c) /\ \A k \in Peers(c) : sock'[k] = sock[k],
         sock'[Server].peer = c => sock[Server].peer = c,
         Streams(c)' =>
           /\ sock'[Server].peer = c =>
                /\ sock'[Server].rcv_nxt = sock[Server].rcv_nxt
                /\ \/ sock'[Server].TCPState = sock[Server].TCPState
                   \/ Peers(c) # {}
           /\ Peers(c) = {} /\ sock'[Server].peer # c => sock[Server].peer # c
  PROVE  ClientInv(c)'
<1>1. Base(c)' = Base(c) /\ End(c)' = End(c) /\ (Closing(c)' <=> Closing(c))
  BY DEF Base, End, Closing, FirstByte
<1>2. Streams(c)' => Streams(c)  BY <1>1 DEF Streams
<1>3. Untouched(c) => Untouched(c)'  BY <1>1 DEF Untouched
<1>4. Greeted(c)  BY DEF ClientInv
<1>5. Greeted(c)'
  <2>1. Peers(c)' # {} => Peers(c) # {}  OBVIOUS
  <2> QED  BY <1>1, <1>2, <1>3, <1>4, <2>1, GreetedKept
<1>6. /\ Base(c) \in Int /\ End(c) \in Nat /\ sock[c].snd_nxt \in Nat
      /\ End(c) <= End(c)' /\ sock[c].snd_nxt <= sock'[c].snd_nxt
  BY <1>1, StreamTypes
<1>7. Base(c) <= sock'[c].snd_nxt /\ (cpc'[c] = "sleep" => sock'[c].snd_nxt = maxSend'[c])
  BY DEF ClientInv, Sending
<1>8. FirstLogged(sock'[c]) = FirstLogged(sock[c])  OBVIOUS
<1>9. Streams(c)' => \A k \in Peers(c)' : Ring(c, k)'
  <2> SUFFICES ASSUME Streams(c)', NEW k \in Peers(c)' PROVE Ring(c, k)'
    OBVIOUS
  <2>1. k \in Peers(c) /\ sock'[k] = sock[k]  OBVIOUS
  <2>2. k \in Children /\ Ring(c, k)  BY <1>2, <2>1 DEF ClientInv, Peers
  <2> QED  BY <1>1, <1>6, <2>1, <2>2, RingStill
<1>10. \A k \in Peers(c) : sock'[k] = sock[k] =>
         sock[k].head <= sock'[k].head /\ sock[k].tail <= sock'[k].tail
  <2>1. \A k \in Peers(c) : sock[k] \in tcp_sock  BY SockCases, SockType DEF Peers
  <2> QED  BY <2>1 DEF tcp_sock
<1> QED  BY <1>1, <1>5, <1>6, <1>7, <1>8, <1>9, <1>10, ClientStep

LEMMA ListeningKept ==
  ASSUME Listening, TypeOK,
         spc' = "start" => spc = "start" /\ (Server \in listenTable' => Server \in listenTable),
         sock'[Server].TCPState = sock[Server].TCPState,
         sock'[Server].peer = sock[Server].peer,
         sock'[Server].head = sock[Server].head, sock'[Server].tail = sock[Server].tail,
         synRcvdList' = synRcvdList,
         \A k \in synRcvdList : sock'[k].buf = sock[k].buf,
         \A k \in Children : sock'[k].peer = sock[k].peer,
         establishedTable' \cap Children \subseteq establishedTable,
         \A s \in Children \cup {Server} : \A e \in Logged(sock'[s]) :
           e \in Logged(sock[s]) \/ "ACK" \in e.flags
  PROVE  Listening'
  BY DEF Listening, TypeOK

LEMMA ReadingMore ==
  ASSUME TypeOK, TypeOK', Reading, UNCHANGED <<spc, csk, delivered>>,
         acceptList' \subseteq Children,
         spc # "done" => acceptList' \subseteq establishedTable',
         establishedTable \cap Children \subseteq establishedTable',
         \A k \in establishedTable \cap Children :
           /\ sock'[k].peer = sock[k].peer /\ sock'[k].head = sock[k].head
           /\ sock[k].TCPState # "ESTABLISHED" => sock'[k].TCPState # "ESTABLISHED",
         \A c \in Clients : Peers(c) # {} => Base(c)' = Base(c) /\ End(c) <= End(c)'
  PROVE  Reading'
<1>1. acceptList' \subseteq Children /\ (spc' # "done" => acceptList' \subseteq establishedTable')
  OBVIOUS
<1>2. spc' \in {"start", "accept"} => delivered' = <<>>  BY DEF Reading
<1>3. spc \in {"read", "sleep", "close"} => csk \in establishedTable \cap Children
  BY DEF Reading, TypeOK
<1>4. spc' \in {"read", "sleep", "close"} => csk' \in establishedTable'  BY <1>3
<1>5. ASSUME NEW c \in Clients, spc' \in {"read", "sleep", "close"}, delivered' # <<>>,
             sock'[csk'].peer = c
      PROVE  /\ Base(c)' <= sock'[csk'].head - 1 /\ sock'[csk'].head - 1 < End(c)'
             /\ delivered'[Len(delivered')] = <<c, sock'[csk'].head - Base(c)'>>
  <2>1. csk \in establishedTable \cap Children  BY <1>3, <1>5
  <2>2. /\ sock'[csk].head = sock[csk].head /\ sock[csk].peer = c /\ csk \in Peers(c)
        /\ csk' = csk /\ delivered' = delivered
    BY <1>5, <2>1 DEF Peers
  <2>3. Base(c)' = Base(c) /\ End(c) <= End(c)'  BY <2>2
  <2>4. /\ Base(c) <= sock[csk].head - 1 /\ sock[csk].head - 1 < End(c)
        /\ delivered[Len(delivered)] = <<c, sock[csk].head - Base(c)>>
    BY <1>5, <2>2 DEF Reading
  <2>5. Base(c) \in Int /\ End(c) \in Nat /\ End(c)' \in Nat /\ sock[csk].head \in Nat
    <3>1. sock[csk].head \in Nat  BY <2>1, SockCases, SockType DEF tcp_sock
    <3> QED  BY <3>1, StreamTypes, StreamTypesNext
  <2>6. sock[csk].head - 1 < End(c)'  BY <2>3, <2>4, <2>5
  <2> QED  BY <2>2, <2>3, <2>4, <2>6
<1>6. spc' = "close" => sock'[csk'].TCPState # "ESTABLISHED"
  BY <1>3 DEF Reading
<1>7. DeliveredInOrder'  BY DEF Reading, DeliveredInOrder
<1> QED  BY <1>1, <1>2, <1>4, <1>5, <1>6, <1>7 DEF Reading

LEMMA ReadingKept ==
  ASSUME TypeOK, TypeOK', Reading, UNCHANGED <<spc, csk, delivered, acceptList>>,
         establishedTable \cap Children \subseteq establishedTable',
         \A k \in establishedTable \cap Children :
           /\ sock'[k].peer = sock[k].peer /\ sock'[k].head = sock[k].head
           /\ sock[k].TCPState # "ESTABLISHED" => sock'[k].TCPState # "ESTABLISHED",
         \A c \in Clients : Peers(c) # {} => Base(c)' = Base(c) /\ End(c) <= End(c)'
  PROVE  Reading'
<1>1. acceptList' \subseteq Children /\ (spc # "done" => acceptList' \subseteq establishedTable')
  BY DEF Reading, TypeOK
<1> QED  BY <1>1, ReadingMore

LEMMA PacketIs ==
  ASSUME NEW sk, NEW entries, NEW m \in Packets(sk, entries)
  PROVE  /\ m.src = sk.local /\ m.dst = sk.peer
         /\ m.ack = sk.rcv_nxt /\ m.rwnd = Advertised(sk)
         /\ \E e \in entries : m.seq = e.seq /\ m.data = e.data /\ m.flags = e.flags
  BY DEF Packets, SegmentOf

\* What a critical section on socket s puts on the wires
LEMMA CommitWire ==
  ASSUME TypeOK, NEW s \in Sock, NEW d \in Context, NEW new,
         d.sk.local = sock[s].local, d.sk.peer = sock[s].peer,
         Said(d) \subseteq Packets(sock[s], Logged(sock[s])) \cup Packets(d.sk, new),
         NEW flight \in Wires, \A g \in Hosts : On(flight, g) \subseteq InFlight(g),
         Commit(s, d, flight)
  PROVE  \/ sock' = sock /\ \A h \in Hosts : InFlight(h)' \subseteq InFlight(h)
         \/ /\ sock' = [sock EXCEPT ![s] = d.sk]
            /\ sock'[s] = d.sk /\ \A r \in Sock : r # s => sock'[r] = sock[r]
            /\ \A h \in Hosts : \A m \in InFlight(h)' :
                 \/ m \in InFlight(h)
                 \/ /\ h = sock[s].peer /\ m.src = sock[s].local
                    /\ \/ m \in Packets(sock[s], Logged(sock[s]))
                       \/ m \in Packets(d.sk, new)
<1>1. sock \in [Sock -> tcp_sock] /\ d.tx \in Seq(Segment)  BY DEF TypeOK, Context
<1>2. CASE d.ok
  <2>1. sock' = [sock EXCEPT ![s] = d.sk] /\ net' = Transmit(flight, d.tx)
    BY <1>2 DEF Commit
  <2>2. sock'[s] = d.sk /\ \A r \in Sock : r # s => sock'[r] = sock[r]  BY <1>1, <2>1
  <2>3. ASSUME NEW h \in Hosts, NEW m \in InFlight(h)', m \notin InFlight(h)
        PROVE  /\ h = sock[s].peer /\ m.src = sock[s].local
               /\ \/ m \in Packets(sock[s], Logged(sock[s]))
                  \/ m \in Packets(d.sk, new)
    <3>1. PICK i \in DOMAIN d.tx, j \in DOMAIN d.tx : m = d.tx[i] /\ h = d.tx[j].dst
      <4>1. m \in On(Transmit(flight, d.tx), h) /\ m \notin On(flight, h)
        BY <2>1, <2>3 DEF InFlight
      <4> QED  BY <1>1, <4>1, TransmitOn
    <3>2. m \in Said(d) /\ d.tx[j] \in Said(d)  BY <3>1 DEF Said
    <3>3. \A q \in Said(d) : q.src = sock[s].local /\ q.dst = sock[s].peer
      BY PacketFrom
    <3> QED  BY <3>1, <3>2, <3>3
  <2> QED  BY <2>1, <2>2, <2>3
<1>3. CASE ~d.ok
  <2>1. sock' = sock /\ net' = flight  BY <1>3 DEF Commit
  <2> QED  BY <2>1 DEF InFlight
<1> QED  BY <1>2, <1>3

LEMMA StreamStill ==
  ASSUME TypeOK, TypeOK', StreamInv, sock' = sock, UNCHANGED <<tables, apps>>,
         \A h \in Hosts : InFlight(h)' \subseteq InFlight(h)
  PROVE  StreamInv'
<1>1. /\ UNCHANGED <<listenTable, establishedTable, synRcvdList, acceptList>>
      /\ UNCHANGED <<cpc, maxSend, spc, csk, delivered>>
  BY DEF tables, apps
<1>2. Clients \subseteq Hosts /\ Server \in Hosts  BY SockCases
<1>3. \A c \in Clients : ClientInv(c)'
  <2> SUFFICES ASSUME NEW c \in Clients PROVE ClientInv(c)'
    OBVIOUS
  <2>1. ClientInv(c) /\ Peers(c)' = Peers(c)  BY <1>1 DEF StreamInv, Peers
  <2> QED  BY <1>1, <1>2, <2>1, ClientFrame
<1>4. Listening'  BY <1>1, ListeningKept DEF StreamInv
<1>5. \A c \in Clients : Base(c)' = Base(c) /\ End(c)' = End(c) /\ End(c) \in Nat
  BY <1>1, StreamTypes DEF Base, End, FirstByte, Closing
<1>6. \A c \in Clients : End(c) <= End(c)'  BY <1>5
<1>7. Reading'  BY <1>1, <1>5, <1>6, ReadingKept DEF StreamInv
<1> QED  BY <1>3, <1>4, <1>7 DEF StreamInv

\* What a step on client c's socket or application must do
LEMMA ClientMoves ==
  ASSUME TypeOK, TypeOK', ConnInv, StreamInv, NEW c \in Clients, NEW new,
         \A r \in Sock : r # c => sock'[r] = sock[r],
         \A g \in Clients : g # c => cpc'[g] = cpc[g] /\ maxSend'[g] = maxSend[g],
         UNCHANGED <<spc, csk, delivered, acceptList, synRcvdList>>,
         Server \in listenTable' => Server \in listenTable,
         establishedTable' \cap Children = establishedTable \cap Children,
         cpc[c] # "start", cpc'[c] # "start", Closing(c) => Closing(c)',
         Base(c)' = Base(c), End(c) <= End(c)', Base(c) <= sock'[c].snd_nxt,
         sock[c].snd_nxt <= sock'[c].snd_nxt,
         cpc'[c] = "sleep" => sock'[c].snd_nxt = maxSend'[c],
         Logged(sock'[c]) \subseteq Logged(sock[c]) \cup new,
         \A e \in new : Carries(c, e)',
         \A h \in Hosts : \A m \in InFlight(h)' :
           \/ m \in InFlight(h)
           \/ /\ h = Server
              /\ \E e \in Logged(sock[c]) \cup new :
                   m.src = c /\ m.seq = e.seq /\ m.data = e.data /\ m.flags = e.flags,
         ~Closing(c)' =>
           /\ sock'[c].TCPState = "ESTABLISHED" =>
                \/ /\ sock[c].TCPState = "ESTABLISHED"
                   /\ sock'[c].snd_una = sock[c].snd_una /\ sock'[c].rcv_wnd = sock[c].rcv_wnd
                \/ /\ Allowed(c, sock'[c].snd_una + sock'[c].rcv_wnd)
                   /\ Reached(c, sock'[c].snd_una)
           /\ \/ FirstLogged(sock'[c]) = FirstLogged(sock[c])
              \/ Reached(c, FirstLogged(sock'[c])),
         Streams(c) => End(c)' = End(c) \/ Allowed(c, End(c)'),
         \/ ~Untouched(c)
         \/ new = {} /\ cpc'[c] = cpc[c] /\ sock'[c].TCPState = sock[c].TCPState
  PROVE  StreamInv'
<1>1. /\ c \in Sock /\ c \in Hosts /\ c # Server /\ c \notin Children /\ Server \in Sock
      /\ Server \in Hosts /\ Children \subseteq Sock /\ Clients \subseteq Hosts
      /\ Server \notin Clients /\ Clients \subseteq Sock
  BY SockCases
<1>2. sock'[Server] = sock[Server] /\ \A k \in Children : sock'[k] = sock[k]
  BY <1>1
<1>3. \A g \in Clients : Peers(g)' = Peers(g)
  BY <1>2 DEF Peers
<1>4. ASSUME NEW g \in Clients, g # c PROVE ClientInv(g)'
  <2>1. ClientInv(g) /\ g \in Hosts /\ g # Server  BY <1>1 DEF StreamInv
  <2>2. sock'[g] = sock[g]  BY <1>1, <1>4
  <2>3. InFlight(g)' \subseteq InFlight(g)  BY <2>1
  <2>4. \A m \in InFlight(Server)' : m.src = g => m \in InFlight(Server)
    BY <1>1, <1>4
  <2>5. Peers(g)' = Peers(g) /\ \A k \in Peers(g) : sock'[k] = sock[k]
    BY <1>2, <1>3 DEF Peers
  <2> QED  BY <1>2, <1>4, <2>1, <2>2, <2>3, <2>4, <2>5, ClientFrame
<1>5. ClientInv(c)
  BY DEF StreamInv
<1>6. /\ Base(c) \in Int /\ End(c) \in Nat /\ End(c)' \in Nat
      /\ sock'[c].snd_una \in Nat /\ sock'[c].rcv_wnd \in Nat
      /\ FirstLogged(sock'[c]) \in Nat
  BY StreamTypes, StreamTypesNext
<1>7. \A k \in Peers(c) : /\ k \in Peers(c)'
                          /\ sock[k].head <= sock'[k].head
                          /\ sock[k].tail <= sock'[k].tail
  <2>1. \A k \in Peers(c) : sock[k] \in tcp_sock /\ sock'[k] = sock[k]
    BY <1>1, <1>2, SockType DEF Peers
  <2> QED  BY <1>3, <2>1 DEF tcp_sock
<1>8. \A n \in Int : /\ Allowed(c, n) => Allowed(c, n)'
                     /\ Reached(c, n) => Reached(c, n)'
  BY <1>7, MayMore
<1>9. ClientInv(c)'
  <2>1. \A e \in Logged(sock[c]) : /\ Carries(c, e)
                                   /\ e.seq \in Nat /\ e.data \in Seq(Byte)
    BY <1>1, <1>5, CarrierTypes DEF ClientInv, Sending
  <2>2. \A e \in Logged(sock[c]) : Carries(c, e)'
    BY <2>1, CarriedOn
  <2>3. \A e \in Logged(sock'[c]) : cpc'[c] # "start" /\ Carries(c, e)'
    BY <2>2
  <2>4. ASSUME NEW m \in InFlight(Server)', m.src = c
        PROVE  m \in InFlight(Server) \/ (cpc'[c] # "start" /\ Carries(c, m)')
    <3>1. CASE \E e \in Logged(sock[c]) \cup new :
                 m.src = c /\ m.seq = e.seq /\ m.data = e.data /\ m.flags = e.flags
      <4>1. PICK e \in Logged(sock[c]) \cup new :
              m.seq = e.seq /\ m.data = e.data /\ m.flags = e.flags
        BY <3>1
      <4>2. Carries(c, e)'  BY <2>2
      <4>3. Carried(e, c, Base(c)', End(c)') /\ e.seq <= sock'[c].snd_nxt
        BY <4>2 DEF Carries
      <4>4. Carried(m, c, Base(c)', End(c)') /\ m.seq <= sock'[c].snd_nxt
        BY <4>1, <4>3 DEF Carried
      <4>5. Carries(c, m)'  BY <4>4 DEF Carries
      <4> QED  BY <4>5
    <3> QED  BY <1>1, <2>4, <3>1
  <2>5. \A m \in InFlight(c)' : m \in InFlight(c)  BY <1>1
  <2>6. ASSUME ~Closing(c)'
        PROVE  /\ sock'[c].TCPState = "ESTABLISHED" =>
                    \/ /\ sock[c].TCPState = "ESTABLISHED"
                       /\ sock'[c].snd_una = sock[c].snd_una
                       /\ sock'[c].rcv_wnd = sock[c].rcv_wnd
                    \/ /\ Allowed(c, sock[c].snd_una + sock[c].rcv_wnd)'
                       /\ Reached(c, sock[c].snd_una)'
               /\ \/ FirstLogged(sock'[c]) = FirstLogged(sock[c])
                  \/ Reached(c, FirstLogged(sock[c]))'
    <3>1. ASSUME sock'[c].TCPState = "ESTABLISHED",
                 Allowed(c, sock'[c].snd_una + sock'[c].rcv_wnd), Reached(c, sock'[c].snd_una)
          PROVE  /\ Allowed(c, sock[c].snd_una + sock[c].rcv_wnd)'
                 /\ Reached(c, sock[c].snd_una)'
      <4>1. PICK u \in Int, w \in Int : u = sock'[c].snd_una /\ w = sock'[c].rcv_wnd
        BY <1>6
      <4>2. Allowed(c, u + w) /\ Reached(c, u)  BY <3>1, <4>1
      <4>3. Allowed(c, u + w)' /\ Reached(c, u)'  BY <1>8, <4>2
      <4> QED  BY <4>1, <4>3
    <3>2. ASSUME Reached(c, FirstLogged(sock'[c])) PROVE Reached(c, FirstLogged(sock[c]))'
      <4>1. PICK f \in Int : f = FirstLogged(sock'[c])  BY <1>6
      <4>2. Reached(c, f)  BY <3>2, <4>1
      <4>3. Reached(c, f)'  BY <1>8, <4>2
      <4> QED  BY <4>1, <4>3
    <3> QED  BY <2>6, <3>1, <3>2
  <2>7. ASSUME Streams(c)' PROVE End(c)' = End(c) \/ Allowed(c, End(c))'
    <3>1. Streams(c)  BY <2>7 DEF Streams
    <3>2. PICK n \in Int : n = End(c)'  BY <1>6
    <3>3. Allowed(c, n) => Allowed(c, n)'  BY <1>8
    <3> QED  BY <3>1, <3>2, <3>3
  <2>8. Greeted(c)'
    <3>1. Untouched(c) => Untouched(c)'
      <4> SUFFICES ASSUME Untouched(c) PROVE Untouched(c)'
        OBVIOUS
      <4>1. new = {} /\ cpc'[c] = cpc[c] /\ sock'[c].TCPState = sock[c].TCPState  OBVIOUS
      <4>2. \A e \in Logged(sock'[c]) : e.seq + 1 = Base(c)'  BY <4>1 DEF Untouched
      <4>3. \A m \in InFlight(Server)' : m.src = c => m.seq + 1 = Base(c)'
        BY <1>1, <4>1 DEF Untouched
      <4>4. InFlight(c)' = {}  BY <2>5 DEF Untouched
      <4>5. cpc'[c] \in {"start", "connect"} /\ sock'[c].TCPState # "ESTABLISHED"
        BY <4>1 DEF Untouched
      <4> QED  BY <4>2, <4>3, <4>4, <4>5 DEF Untouched
    <3>2. Greeted(c)  BY <1>5 DEF ClientInv
    <3>3. Streams(c)' => Streams(c)  BY DEF Streams
    <3> QED  BY <1>2, <1>3, <3>1, <3>2, <3>3, GreetedKept
  <2>9. Streams(c)' => \A k \in Peers(c)' : Ring(c, k)'
    <3> SUFFICES ASSUME Streams(c)', NEW k \in Peers(c)' PROVE Ring(c, k)'
      OBVIOUS
    <3>1. k \in Peers(c) /\ k \in Children /\ sock'[k] = sock[k]  BY <1>2, <1>3 DEF Peers
    <3>2. Ring(c, k)  BY <1>5, <3>1 DEF ClientInv, Streams
    <3> QED  BY <3>1, <3>2, RingStill
  <2> QED  BY <1>5, <1>7, <2>3, <2>4, <2>5, <2>6, <2>7, <2>8, <2>9, ClientStep
<1>10. Listening'
  <2>1. \A s \in Children \cup {Server} : sock'[s] = sock[s]  BY <1>2
  <2> QED  BY <2>1, ListeningKept DEF StreamInv, TypeOK
<1>11. \A g \in Clients : Base(g)' = Base(g) /\ End(g) <= End(g)'
  <2>1. \A g \in Clients : g # c => Base(g)' = Base(g) /\ End(g)' = End(g) /\ End(g) \in Nat
    BY <1>1, StreamTypes DEF Base, End, FirstByte, Closing
  <2>2. \A g \in Clients : g # c => Base(g)' = Base(g) /\ End(g) <= End(g)'  BY <2>1
  <2> QED  BY <2>2
<1>12. Reading'
  BY <1>2, <1>11, ReadingKept DEF StreamInv
<1> QED  BY <1>4, <1>9, <1>10, <1>12 DEF StreamInv

LEMMA AdvertisedType == ASSUME NEW sk \in tcp_sock PROVE Advertised(sk) \in Nat
<1>1. RINGBUFFER_SIZE - (sk.tail - sk.head) \in Int  BY RingSize DEF tcp_sock
<1> QED  BY <1>1, ModType DEF Advertised

LEMMA OnePeer ==
  ASSUME TypeOK, ConnInv, NEW c \in Clients, NEW k \in Peers(c), NEW q \in Peers(c)
  PROVE  q = k
<1>1. /\ k \in establishedTable \cap Children /\ q \in establishedTable \cap Children
      /\ sock[k].peer = c /\ sock[q].peer = c
  BY DEF Peers
<1>2. sock[k].local = Server /\ sock[q].local = Server
  BY <1>1, SockCases DEF ConnInv, Homes
<1> QED  BY <1>1, <1>2 DEF ConnInv, OneSocketPerKey

\* The ring that serves c has room for all that c may send.
LEMMA RoomFor ==
  ASSUME TypeOK, ConnInv, NEW c \in Clients, ClientInv(c), Streams(c), NEW k \in Peers(c)
  PROVE  /\ End(c) <= Base(c) + Window \/ End(c) <= sock[k].head + Window
         /\ sock[k].tail <= sock[k].head + Window
         /\ sock[k].tail + Advertised(sock[k]) <= sock[k].head + Window
         /\ End(c) <= sock[k].head + RINGBUFFER_SIZE
<1>1. End(c) <= Base(c) + Window \/ End(c) <= sock[k].head + Window
  <2>1. Allowed(c, End(c))  BY DEF ClientInv, Offered
  <2>2. \A q \in Peers(c) : q = k  BY OnePeer
  <2> QED  BY <2>1, <2>2 DEF Allowed
<1>2. RingHolds(sock[k], c, Base(c), End(c))  BY DEF ClientInv, Ring
<1>3. sock[k] \in tcp_sock /\ Base(c) \in Int /\ End(c) \in Nat
  BY SockCases, SockType, StreamTypes DEF Peers
<1> QED  BY <1>1, <1>2, <1>3, RingRoom

\* What a step on the child k that serves client c must do
LEMMA ChildMoves ==
  ASSUME TypeOK, TypeOK', ChildrenApart, ConnInv, StreamInv,
         NEW k \in establishedTable \cap Children,
         NEW c \in Clients, sock[k].peer = c, NEW new,
         \A r \in Sock : r # k => sock'[r] = sock[r],
         sock'[k].peer = sock[k].peer,
         UNCHANGED <<tables, cpc, maxSend, spc>>,
         \A e \in new : "ACK" \in e.flags,
         Logged(sock'[k]) \subseteq Logged(sock[k]) \cup new,
         \A h \in Hosts : \A m \in InFlight(h)' :
           \/ m \in InFlight(h)
           \/ /\ h = c /\ m.src = Server
              /\ \/ m \in Packets(sock[k], Logged(sock[k]))
                 \/ m \in Packets(sock'[k], new),
         Streams(c) => /\ Ring(c, k)'
                       /\ sock[k].head <= sock'[k].head /\ sock[k].tail <= sock'[k].tail,
         Reading'
  PROVE  StreamInv'
<1>1. /\ c \in Hosts /\ c # Server /\ Server \in Sock /\ Server \notin Children /\ k \in Sock
      /\ Server \in Hosts /\ Children \subseteq Sock /\ Clients \subseteq Hosts
      /\ Server \notin Clients /\ Clients \subseteq Sock /\ Clients \cap Children = {}
  BY SockCases
<1>2. sock'[Server] = sock[Server] /\ \A g \in Clients : sock'[g] = sock[g]
  BY <1>1
<1>3. /\ \A q \in Children : sock'[q].peer = sock[q].peer
      /\ UNCHANGED <<listenTable, establishedTable, synRcvdList, acceptList>>
  BY <1>1 DEF tables
<1>4. \A g \in Clients : Peers(g)' = Peers(g)
  BY <1>3 DEF Peers
<1>5. k \in Peers(c)  BY DEF Peers
<1>6. \A g \in Clients : Base(g)' = Base(g) /\ End(g)' = End(g)
                         /\ (Closing(g)' <=> Closing(g)) /\ (Streams(g)' <=> Streams(g))
  BY <1>2 DEF Base, End, Closing, FirstByte, Streams
<1>7. ASSUME NEW g \in Clients, g # c PROVE ClientInv(g)'
  <2>1. ClientInv(g) /\ g \in Hosts /\ g # Server  BY <1>1 DEF StreamInv
  <2>2. InFlight(g)' \subseteq InFlight(g)  BY <1>7, <2>1
  <2>3. \A m \in InFlight(Server)' : m \in InFlight(Server)
    BY <1>1
  <2>4. Peers(g)' = Peers(g) /\ \A q \in Peers(g) : sock'[q] = sock[q]
    <3>1. \A q \in Peers(g) : q \in Sock /\ q # k  BY <1>1, <1>7 DEF Peers
    <3> QED  BY <1>4, <3>1
  <2> QED  BY <1>2, <2>1, <2>2, <2>3, <2>4, ClientFrame
<1>8. ClientInv(c)  BY DEF StreamInv
<1>9. /\ Base(c) \in Int /\ End(c) \in Nat /\ sock[c].snd_nxt \in Nat
      /\ Window \in Nat
  BY StreamTypes, WindowSize
<1>10. /\ sock[k] \in tcp_sock /\ sock'[k] \in tcp_sock
       /\ sock[k].head \in Nat /\ sock[k].tail \in Nat
       /\ sock'[k].head \in Nat /\ sock'[k].tail \in Nat
  BY <1>1 DEF TypeOK, tcp_sock
<1>11. ASSUME ~Closing(c), NEW m,
              m \in Packets(sock[k], Logged(sock[k])) \/ m \in Packets(sock'[k], new)
       PROVE  Allowed(c, m.ack + m.rwnd)' /\ Reached(c, m.ack)'
  <2>1. Streams(c) /\ ~Closing(c)'  BY <1>6, <1>11 DEF Streams
  <2>2. /\ End(c) <= Base(c) + Window \/ End(c) <= sock[k].head + Window
        /\ sock[k].tail + Advertised(sock[k]) <= sock[k].head + Window
    BY <1>5, <1>8, <2>1, RoomFor
  <2>3. Ring(c, k) /\ Ring(c, k)'  BY <1>5, <1>8, <2>1 DEF ClientInv
  <2>4. sock[k].rcv_nxt = sock[k].tail /\ sock'[k].rcv_nxt = sock'[k].tail
    BY <1>11, <2>1, <2>3 DEF Ring
  <2>5. sock[k].head <= sock'[k].head /\ sock[k].tail <= sock'[k].tail  BY <2>1
  <2>6. sock'[k].tail + Advertised(sock'[k]) <= sock'[k].head + Window
    <3>1. RingHolds(sock'[k], c, Base(c), End(c))  BY <1>6, <2>3 DEF Ring
    <3>2. End(c) <= Base(c) + Window \/ End(c) <= sock'[k].head + Window
      BY <1>9, <1>10, <2>2, <2>5
    <3> DEFINE sk == sock'[k]  b == Base(c)  f == End(c)
    <3>3. sk \in tcp_sock /\ b \in Int /\ f \in Nat /\ RingHolds(sk, c, b, f)
          /\ (f <= b + Window \/ f <= sk.head + Window)
      BY <1>9, <1>10, <3>1, <3>2
    <3> HIDE DEF sk, b, f
    <3>4. sk.tail + Advertised(sk) <= sk.head + Window  BY <3>3, RingRoom
    <3> QED  BY <3>4 DEF sk
  <2>7. Advertised(sock[k]) \in Nat /\ Advertised(sock'[k]) \in Nat
    BY <1>10, AdvertisedType
  <2>8. PICK a \in Nat, w \in Nat :
          /\ a = m.ack /\ w = m.rwnd
          /\ a <= sock'[k].tail /\ a + w <= sock'[k].head + Window
    <3>1. CASE m \in Packets(sock[k], Logged(sock[k]))
      <4>1. m.ack = sock[k].tail /\ m.rwnd = Advertised(sock[k])
        BY <2>4, <3>1, PacketIs
      <4>2. PICK a \in Nat, w \in Nat, h \in Nat, h2 \in Nat :
              /\ a = sock[k].tail /\ w = Advertised(sock[k])
              /\ h = sock[k].head /\ h2 = sock'[k].head
        BY <1>10, <2>7
      <4>3. a + w <= h + Window /\ h <= h2  BY <2>2, <2>5, <4>2
      <4>4. a + w <= h2 + Window  BY <1>9, <4>3
      <4>5. a <= sock'[k].tail  BY <2>5, <4>2
      <4>6. a = m.ack /\ w = m.rwnd  BY <4>1, <4>2
      <4> QED  BY <4>2, <4>4, <4>5, <4>6
    <3>2. CASE m \in Packets(sock'[k], new)
      <4>1. m.ack = sock'[k].tail /\ m.rwnd = Advertised(sock'[k])
        BY <2>4, <3>2, PacketIs
      <4>2. sock'[k].tail <= sock'[k].tail  BY <1>10
      <4> QED  BY <1>10, <2>6, <2>7, <4>1, <4>2
    <3> QED  BY <1>11, <3>1, <3>2
  <2>9. k \in Peers(c)'  BY <1>4, <1>5
  <2>10. Allowed(c, a + w)' /\ Reached(c, a)'  BY <2>8, <2>9 DEF Allowed, Reached
  <2> QED  BY <2>8, <2>10
<1>12. \A e \in Logged(sock[k]) \cup new : "ACK" \in e.flags
  BY DEF StreamInv, Listening
<1>13. ClientInv(c)'
  <2>1. sock'[c] = sock[c]  BY <1>2
  <2>2. Base(c) <= sock'[c].snd_nxt /\ (cpc'[c] = "sleep" => sock'[c].snd_nxt = maxSend'[c])
    BY <1>8, <2>1 DEF ClientInv, Sending
  <2>3. \A m \in InFlight(Server)' : m \in InFlight(Server)  BY <1>1
  <2>4. ASSUME NEW m \in InFlight(c)'
        PROVE  \/ m \in InFlight(c)
               \/ /\ "ACK" \in m.flags
                  /\ ~Closing(c)' => Allowed(c, m.ack + m.rwnd)' /\ Reached(c, m.ack)'
    <3>1. CASE m \in Packets(sock[k], Logged(sock[k])) \/ m \in Packets(sock'[k], new)
      <4>1. \E e \in Logged(sock[k]) \cup new : m.flags = e.flags
        BY <3>1, PacketIs
      <4>2. "ACK" \in m.flags  BY <1>12, <4>1
      <4> QED  BY <1>6, <1>11, <3>1, <4>2
    <3> QED  BY <1>1, <3>1
  <2>5. FirstLogged(sock'[c]) = FirstLogged(sock[c])  BY <2>1
  <2>6. \A q \in Peers(c) : q = k  BY <1>5, OnePeer
  <2>7. Streams(c)' => \A q \in Peers(c)' : Ring(c, q)'
    BY <1>4, <1>6, <2>6
  <2>8. Streams(c)' =>
          \A q \in Peers(c) : /\ q \in Peers(c)'
                              /\ sock[q].head <= sock'[q].head
                              /\ sock[q].tail <= sock'[q].tail
    BY <1>4, <1>6, <2>6
  <2>9. Greeted(c)'
    <3>1. Peers(c) # {} /\ Peers(c)' # {}  BY <1>4, <1>5
    <3>2. Greeted(c)  BY <1>8 DEF ClientInv
    <3> QED  BY <1>2, <1>6, <3>1, <3>2, GreetedKept
  <2>10. End(c) <= End(c)' /\ sock[c].snd_nxt <= sock'[c].snd_nxt
    <3>1. sock[c].snd_nxt \in Nat  BY StreamTypes
    <3> QED  BY <1>6, <1>9, <2>1, <3>1
  <2> QED
    BY <1>6, <1>8, <2>1, <2>2, <2>3, <2>4, <2>5, <2>7, <2>8, <2>9, <2>10, ClientStep
<1>14. Listening'
  <2>1. \A q \in synRcvdList : sock'[q].buf = sock[q].buf
    <3>1. \A q \in synRcvdList : q \in Sock /\ q # k
      BY <1>1 DEF TypeOK, ChildrenApart
    <3> QED  BY <3>1
  <2>2. \A s \in Children \cup {Server} : \A e \in Logged(sock'[s]) :
          e \in Logged(sock[s]) \/ "ACK" \in e.flags
    <3>1. \A s \in Children \cup {Server} : s # k => sock'[s] = sock[s]  BY <1>1
    <3> QED  BY <3>1
  <2> QED  BY <1>2, <1>3, <2>1, <2>2, ListeningKept DEF StreamInv
<1> QED  BY <1>7, <1>13, <1>14 DEF StreamInv

\* A critical section on client c's socket, which ends with the fields of sk
LEMMA ClientCommit ==
  ASSUME TypeOK, TypeOK', ConnInv, StreamInv, NEW c \in Clients,
         NEW b, NEW d \in Context, NEW sk, NEW new,
         Repeats(sock[c], b), Says(b, d, new), KeepsRest(sk, d.sk),
         sk.local = sock[c].local, sk.peer = sock[c].peer,
         NEW flight \in Wires, \A g \in Hosts : On(flight, g) \subseteq InFlight(g),
         Commit(c, d, flight), UNCHANGED <<tables, apps>>, cpc[c] # "start",
         \/ sk.snd_nxt = sock[c].snd_nxt
         \/ /\ cpc[c] = "write" /\ sock[c].snd_nxt <= sk.snd_nxt
            /\ Streams(c) => Allowed(c, sk.snd_nxt),
         \A e \in new :
           /\ Carried(e, c, Base(c), IF Closing(c) THEN maxSend[c] ELSE sk.snd_nxt)
           /\ e.seq <= sk.snd_nxt,
         ~Closing(c) =>
           /\ sk.TCPState = "ESTABLISHED" =>
                \/ /\ sock[c].TCPState = "ESTABLISHED"
                   /\ sk.snd_una = sock[c].snd_una /\ sk.rcv_wnd = sock[c].rcv_wnd
                \/ Allowed(c, sk.snd_una + sk.rcv_wnd) /\ Reached(c, sk.snd_una)
           /\ FirstLogged(d.sk) = FirstLogged(sock[c]) \/ Reached(c, FirstLogged(d.sk)),
         ~Untouched(c) \/ (new = {} /\ sk.TCPState = sock[c].TCPState)
  PROVE  StreamInv'
<1>1. c \in Sock /\ c \in Hosts /\ sock[c].local = c /\ sock[c].peer = Server
  BY SockCases DEF ConnInv, Homes
<1>2. /\ d.sk.local = sock[c].local /\ d.sk.peer = sock[c].peer
      /\ d.sk.TCPState = sk.TCPState /\ d.sk.snd_nxt = sk.snd_nxt
      /\ d.sk.snd_una = sk.snd_una /\ d.sk.rcv_wnd = sk.rcv_wnd
  BY DEF KeepsRest
<1>3. /\ Logged(d.sk) \subseteq Logged(sock[c]) \cup new
      /\ Said(d) \subseteq Packets(sock[c], Logged(sock[c])) \cup Packets(d.sk, new)
  BY DEF Repeats, Says
<1>4. \/ sock' = sock /\ \A h \in Hosts : InFlight(h)' \subseteq InFlight(h)
      \/ /\ sock'[c] = d.sk /\ \A r \in Sock : r # c => sock'[r] = sock[r]
         /\ \A h \in Hosts : \A m \in InFlight(h)' :
              \/ m \in InFlight(h)
              \/ /\ h = Server /\ m.src = c
                 /\ \/ m \in Packets(sock[c], Logged(sock[c]))
                    \/ m \in Packets(d.sk, new)
  BY <1>1, <1>2, <1>3, CommitWire
<1>5. CASE sock' = sock /\ \A h \in Hosts : InFlight(h)' \subseteq InFlight(h)
  BY <1>5, StreamStill
<1>6. CASE /\ sock'[c] = d.sk /\ \A r \in Sock : r # c => sock'[r] = sock[r]
           /\ \A h \in Hosts : \A m \in InFlight(h)' :
                \/ m \in InFlight(h)
                \/ /\ h = Server /\ m.src = c
                   /\ \/ m \in Packets(sock[c], Logged(sock[c]))
                      \/ m \in Packets(d.sk, new)
  <2>1. /\ UNCHANGED <<spc, csk, delivered, cpc, maxSend>>
        /\ UNCHANGED <<listenTable, establishedTable, synRcvdList, acceptList>>
    BY DEF tables, apps
  <2>2. \A h \in Hosts : \A m \in InFlight(h)' :
          \/ m \in InFlight(h)
          \/ /\ h = Server
             /\ \E e \in Logged(sock[c]) \cup new :
                  m.src = c /\ m.seq = e.seq /\ m.data = e.data /\ m.flags = e.flags
    BY <1>6, PacketIs
  <2>3. /\ Base(c) \in Int /\ End(c) \in Nat /\ sock[c].snd_nxt \in Nat
        /\ sock'[c].snd_nxt \in Nat /\ maxSend[c] \in Nat
    BY StreamTypes, StreamTypesNext
  <2>4. sock'[c].snd_nxt = sk.snd_nxt /\ sock[c].snd_nxt <= sk.snd_nxt
    BY <1>2, <1>6, <2>3
  <2>5. /\ Base(c)' = Base(c) /\ (Closing(c)' <=> Closing(c))
        /\ End(c)' = IF Closing(c) THEN maxSend[c] ELSE sk.snd_nxt
    BY <1>2, <1>6, <2>1 DEF Base, FirstByte, Closing, End
  <2>6. End(c) <= End(c)'  BY <2>3, <2>4, <2>5 DEF End
  <2>7. \A e \in new : Carries(c, e)'  BY <2>4, <2>5 DEF Carries
  <2>8. ClientInv(c)  BY DEF StreamInv
  <2>9. Base(c) <= sock[c].snd_nxt /\ (cpc[c] = "sleep" => sock[c].snd_nxt = maxSend[c])
    BY <2>8 DEF ClientInv, Sending
  <2>10. Base(c) <= sock'[c].snd_nxt  BY <2>3, <2>4, <2>9
  <2>11. cpc'[c] = "sleep" => sock'[c].snd_nxt = maxSend'[c]
    BY <2>1, <2>4, <2>9
  <2>12. Streams(c) => End(c)' = End(c) \/ Allowed(c, End(c)')
    <3>1. CASE Closing(c)  BY <2>5, <3>1 DEF End
    <3>2. CASE ~Closing(c)  BY <2>4, <2>5, <3>2 DEF End
    <3> QED  BY <3>1, <3>2
  <2>13. Logged(sock'[c]) \subseteq Logged(sock[c]) \cup new  BY <1>3, <1>6
  <2>14. ~Closing(c)' =>
           /\ sock'[c].TCPState = "ESTABLISHED" =>
                \/ /\ sock[c].TCPState = "ESTABLISHED"
                   /\ sock'[c].snd_una = sock[c].snd_una /\ sock'[c].rcv_wnd = sock[c].rcv_wnd
                \/ /\ Allowed(c, sock'[c].snd_una + sock'[c].rcv_wnd)
                   /\ Reached(c, sock'[c].snd_una)
           /\ \/ FirstLogged(sock'[c]) = FirstLogged(sock[c])
              \/ Reached(c, FirstLogged(sock'[c]))
    BY <1>2, <1>6, <2>5
  <2>15. \/ ~Untouched(c)
         \/ new = {} /\ cpc'[c] = cpc[c] /\ sock'[c].TCPState = sock[c].TCPState
    BY <1>2, <1>6, <2>1
  <2> QED
    BY <1>6, <2>1, <2>2, <2>4, <2>5, <2>6, <2>7, <2>10, <2>11, <2>12, <2>13, <2>14, <2>15, ClientMoves
<1> QED  BY <1>4, <1>5, <1>6

\* What client c takes from a segment p that is on its way to it
LEMMA Received ==
  ASSUME TypeOK, StreamInv, NEW c \in Clients, NEW i \in DOMAIN net[c]
  PROVE  /\ ~Untouched(c) /\ "ACK" \in net[c][i].flags
         /\ ~Closing(c) => /\ Allowed(c, net[c][i].ack + net[c][i].rwnd)
                           /\ Reached(c, net[c][i].ack)
<1>1. net[c][i] \in InFlight(c)  BY DEF InFlight, On
<1>2. Offered(c)  BY DEF StreamInv, ClientInv
<1> QED  BY <1>1, <1>2 DEF Offered, Untouched

\* What client c's send buffer starts with after an acknowledgement
LEMMA AckedFirst ==
  ASSUME TypeOK, SendBuffersUnbroken, ConnInv, StreamInv, NEW c \in Clients,
         NEW i \in DOMAIN net[c], ~Closing(c)
  PROVE  \/ FirstLogged(Acked(c, i, c).sk) = FirstLogged(sock[c])
         \/ Reached(c, FirstLogged(Acked(c, i, c).sk))
<1> DEFINE p == net[c][i]
           f == FirstLogged(Acked(c, i, c).sk)
<1>1. /\ c \in Hosts /\ c \in Sock /\ sock[c] \in tcp_sock /\ SendBufferUnbroken(sock[c])
      /\ p \in Segment /\ p.ack \in Nat
  BY SockCases, SockType, WithoutType DEF SendBuffersUnbroken, Segment
<1>2. \/ f = FirstLogged(sock[c])
      \/ \E e \in Logged(sock[c]) : Covered(e, p.ack) /\ f = e.seq + Span(e)
  <2> DEFINE sk == sock[c]
             q == p
             after == OnSegment(Enter(sk), q).sk
  <2>1. sk \in tcp_sock /\ q \in Segment /\ SendBufferUnbroken(sk)  BY <1>1
  <2> HIDE DEF sk, q
  <2>2. \/ FirstLogged(after) = FirstLogged(sk)
        \/ \E e \in Logged(sk) : Covered(e, q.ack) /\ FirstLogged(after) = e.seq + Span(e)
    BY <2>1, OnSegmentFirst
  <2> QED  BY <2>2 DEF sk, q, Acked
<1>3. Reached(c, p.ack)  BY Received
<1> HIDE DEF p, f
<1>4. ASSUME NEW e \in Logged(sock[c]), Covered(e, p.ack), f = e.seq + Span(e)
      PROVE  Reached(c, f)
  <2>1. e.seq \in Nat /\ e.data \in Seq(Byte) /\ Len(e.data) \in Nat
    BY <1>1, CarrierTypes
  <2>2. "FIN" \notin e.flags  BY DEF ConnInv, Fins, HasFin
  <2>3. Carried(e, c, Base(c), End(c))  BY DEF StreamInv, ClientInv, Sending, Carries
  <2>4. CASE "SYN" \in e.flags
    <3>1. e.seq + 1 = Base(c) /\ Len(e.data) = 0 /\ e.flags \cap {"SYN", "FIN"} # {}
      BY <2>3, <2>4 DEF Carried
    <3>2. f = Base(c) /\ f \in Int  BY <1>4, <2>1, <3>1 DEF Span
    <3> QED  BY <3>2 DEF Reached
  <2>5. CASE "SYN" \notin e.flags
    <3> DEFINE n == Len(e.data)
    <3>1. e.flags \cap {"SYN", "FIN"} = {}  BY <2>2, <2>5
    <3>2a. n \in Nat /\ e.seq + n <= p.ack  BY <1>4, <2>1 DEF Covered
    <3>2b. Span(e) = n + 0  BY <3>1 DEF Span
    <3> HIDE DEF n
    <3>2. n \in Nat /\ f = e.seq + n /\ e.seq + n <= p.ack
      BY <1>4, <3>2a, <3>2b
    <3>3. f <= p.ack /\ f \in Int  BY <2>1, <3>2
    <3>4. Base(c) \in Int /\ \A k \in Peers(c) : sock[k].tail \in Int
      BY StreamTypes, SockCases, SockType DEF Peers, tcp_sock
    <3>5. CASE p.ack <= Base(c)
      <4>1. f <= Base(c)  BY <1>1, <3>3, <3>4, <3>5
      <4> QED  BY <4>1 DEF Reached
    <3>6. ASSUME NEW k \in Peers(c), p.ack <= sock[k].tail PROVE Reached(c, f)
      <4>1. f <= sock[k].tail  BY <1>1, <3>3, <3>4, <3>6
      <4> QED  BY <4>1 DEF Reached
    <3> QED  BY <1>3, <3>5, <3>6 DEF Reached
  <2> QED  BY <2>4, <2>5
<1> QED  BY <1>2, <1>4 DEF f

\* A bare ACK that client c sends
LEMMA ClientAck ==
  ASSUME TypeOK, StreamInv, NEW c \in Clients, NEW sk, sk.snd_nxt = sock[c].snd_nxt, NEW end
  PROVE  \A e \in {Plain(sk, <<>>, {"ACK"})} : Carried(e, c, Base(c), end)
<1>1. sk.snd_nxt \in Nat /\ Base(c) \in Int /\ Base(c) <= sk.snd_nxt
  BY StreamTypes DEF StreamInv, ClientInv, Sending
<1> DEFINE b == Base(c)
<1>2. b \in Int /\ b <= sk.snd_nxt  BY <1>1
<1> HIDE DEF b
<1>3. Carried(Plain(sk, <<>>, {"ACK"}), c, b, end)  BY <1>1, <1>2, PlainCarried
<1> QED  BY <1>3 DEF b

\* A receive step on client s that ends in context d
LEMMA ClientHandled ==
  ASSUME TypeOK, TypeOK', SendBuffersUnbroken, ConnInv, StreamInv,
         NEW s \in Clients, NEW i \in DOMAIN net[s], cpc[s] # "start",
         NEW d \in Context, NEW sk, NEW new,
         Says(Acked(s, i, s), d, new), KeepsRest(sk, d.sk),
         sk.local = sock[s].local, sk.peer = sock[s].peer, sk.snd_nxt = sock[s].snd_nxt,
         new = {} \/ new = {Plain(Acked(s, i, s).sk, <<>>, {"ACK"})},
         Commit(s, d, Without(s, i)), UNCHANGED <<tables, apps>>,
         ~Closing(s) =>
           /\ sk.TCPState = "ESTABLISHED" =>
                \/ /\ sock[s].TCPState = "ESTABLISHED"
                   /\ sk.snd_una = sock[s].snd_una /\ sk.rcv_wnd = sock[s].rcv_wnd
                \/ sk.snd_una = net[s][i].ack /\ sk.rcv_wnd = net[s][i].rwnd
           /\ FirstLogged(d.sk) = FirstLogged(Acked(s, i, s).sk)
  PROVE  StreamInv'
<1> DEFINE c == Acked(s, i, s)
           p == net[s][i]
<1>1. s \in Hosts /\ s \in Sock  BY SockCases
<1>2. /\ ~Untouched(s)
      /\ ~Closing(s) => Allowed(s, p.ack + p.rwnd) /\ Reached(s, p.ack)
  BY Received
<1>3. c \in Context /\ c.sk \in tcp_sock /\ KeepsRest(sock[s], c.sk)  BY <1>1, AckedFields
<1>4. ~Closing(s) => FirstLogged(c.sk) = FirstLogged(sock[s]) \/ Reached(s, FirstLogged(c.sk))
  BY AckedFirst
<1>5. Without(s, i) \in Wires /\ \A g \in Hosts : On(Without(s, i), g) \subseteq InFlight(g)
  BY <1>1, WithoutType, WithoutOn
<1>6. Repeats(sock[s], c)  BY <1>1, AckedRepeats
<1>7. \A e \in new :
        /\ Carried(e, s, Base(s), IF Closing(s) THEN maxSend[s] ELSE sk.snd_nxt)
        /\ e.seq <= sk.snd_nxt
  <2>1. c.sk.snd_nxt = sock[s].snd_nxt  BY <1>3 DEF KeepsRest
  <2>2. \A e \in {Plain(c.sk, <<>>, {"ACK"})} :
          Carried(e, s, Base(s), IF Closing(s) THEN maxSend[s] ELSE sk.snd_nxt)
    BY <2>1, ClientAck
  <2>3. Plain(c.sk, <<>>, {"ACK"}).seq <= sk.snd_nxt
    <3>1. sock[s].snd_nxt \in Nat  BY StreamTypes
    <3> QED  BY <2>1, <3>1 DEF Plain
  <2> QED  BY <2>2, <2>3
<1>8. Says(c, d, new) /\ (~Closing(s) => FirstLogged(d.sk) = FirstLogged(c.sk))
  OBVIOUS
<1> HIDE DEF c, p
<1>9. ~Closing(s) =>
           /\ sk.TCPState = "ESTABLISHED" =>
                \/ /\ sock[s].TCPState = "ESTABLISHED"
                   /\ sk.snd_una = sock[s].snd_una /\ sk.rcv_wnd = sock[s].rcv_wnd
                \/ Allowed(s, sk.snd_una + sk.rcv_wnd) /\ Reached(s, sk.snd_una)
           /\ FirstLogged(d.sk) = FirstLogged(sock[s]) \/ Reached(s, FirstLogged(d.sk))
  BY <1>2, <1>4, <1>8 DEF p
<1> QED  BY <1>2, <1>5, <1>6, <1>7, <1>8, <1>9, ClientCommit

LEMMA ClientData ==
  ASSUME TypeOK, TypeOK', SendBuffersUnbroken, ConnInv, StreamInv,
         NEW s \in Clients, NEW i \in DOMAIN net[s], ReceiveData(s, i, s)
  PROVE  StreamInv'
<1> DEFINE c == Acked(s, i, s)
           p == net[s][i]
           d == handleSaveData(c, p)
           buf == writeToBuffer(c.sk, p)
           k  == Contiguous(buf, c.sk.tail)
           sk == [c.sk EXCEPT !.buf = buf, !.snd_una = p.ack, !.tail = @ + k,
                              !.rcv_nxt = @ + k, !.rcv_wnd = p.rwnd]
           new == {Plain(c.sk, <<>>, {"ACK"})}
<1>0. s \in Hosts /\ s \in Sock  BY SockCases
<1>1. /\ ToEstablished(s, i, s) /\ Commit(s, d, Without(s, i)) /\ UNCHANGED <<tables, apps>>
  BY DEF ReceiveData, Handle
<1>2. p \in Segment /\ cpc[s] # "start"  BY <1>0, <1>1, Receiver, NoEarlyFin
<1>3. c \in Context /\ c.sk \in tcp_sock /\ KeepsRest(sock[s], c.sk)  BY <1>0, AckedFields
<1> HIDE DEF c
<1>4. d \in Context /\ Says(c, d, new) /\ KeepsRest(sk, d.sk)
  BY <1>2, <1>3, handleSaveDataType, handleSaveDataSays
<1>5. FirstLogged(d.sk) = FirstLogged(c.sk)  BY <1>2, <1>3, SaveDataFirst
<1> HIDE DEF buf, k
<1>6. /\ sk.local = sock[s].local /\ sk.peer = sock[s].peer
      /\ sk.snd_una = p.ack /\ sk.rcv_wnd = p.rwnd /\ sk.snd_nxt = sock[s].snd_nxt
  BY <1>3 DEF KeepsRest, tcp_sock
<1> HIDE DEF d, sk
<1> QED  BY <1>1, <1>2, <1>4, <1>5, <1>6, ClientHandled DEF c

LEMMA ClientFIN2 ==
  ASSUME TypeOK, TypeOK', SendBuffersUnbroken, ConnInv, StreamInv,
         NEW s \in Clients, NEW i \in DOMAIN net[s], ReceiveFIN2(s, i, s)
  PROVE  StreamInv'
<1> DEFINE c == Acked(s, i, s)
           p == net[s][i]
           d == handleFIN2(c, p)
           sk == [c.sk EXCEPT !.TCPState = "FIN_WAIT_2", !.snd_una = p.ack]
<1>0. s \in Hosts /\ s \in Sock  BY SockCases
<1>1. /\ ToEstablished(s, i, s) /\ sock[s].TCPState = "FIN_WAIT_1"
      /\ Commit(s, d, Without(s, i)) /\ UNCHANGED <<tables, apps>>
  BY DEF ReceiveFIN2, Handle
<1>2. p \in Segment  BY <1>0, Receiver
<1>3. cpc[s] = "close" /\ Closing(s)
  BY <1>0, <1>1, NoEarlyFin DEF ConnInv, Lives, ClientLife, Closing
<1>4. c \in Context /\ c.sk \in tcp_sock /\ KeepsRest(sock[s], c.sk)  BY <1>0, AckedFields
<1> HIDE DEF c
<1>5. d \in Context /\ Says(c, d, {}) /\ KeepsRest(sk, d.sk)
  BY <1>2, <1>4, handleFIN2Type, SilentHandlers
<1>6. sk.local = sock[s].local /\ sk.peer = sock[s].peer /\ sk.snd_nxt = sock[s].snd_nxt
  BY <1>4 DEF KeepsRest, tcp_sock
<1> HIDE DEF d, sk
<1>7. Says(Acked(s, i, s), d, {})  BY <1>5 DEF c
<1> QED  BY <1>1, <1>3, <1>5, <1>6, <1>7, ClientHandled

LEMMA ClientFIN3 ==
  ASSUME TypeOK, TypeOK', SendBuffersUnbroken, ConnInv, StreamInv,
         NEW s \in Clients, NEW i \in DOMAIN net[s], ReceiveFIN3(s, i, s)
  PROVE  StreamInv'
<1> DEFINE c == Acked(s, i, s)
           p == net[s][i]
           d == handleFIN3(c, p)
           sk == [c.sk EXCEPT !.TCPState = "TIME_WAIT", !.snd_una = p.ack,
                              !.rcv_nxt = p.seq + 1]
           new == {Plain(c.sk, <<>>, {"ACK"})}
<1>0. s \in Hosts /\ s \in Sock  BY SockCases
<1>1. /\ ToEstablished(s, i, s) /\ "FIN" \in p.flags
      /\ Commit(s, d, Without(s, i)) /\ UNCHANGED <<tables, apps>>
  BY DEF ReceiveFIN3, Handle
<1>2. p \in Segment  BY <1>0, Receiver
<1>3. cpc[s] = "close" /\ Closing(s)  BY <1>0, <1>1, NoEarlyFin DEF Closing
<1>4. c \in Context /\ c.sk \in tcp_sock /\ KeepsRest(sock[s], c.sk)  BY <1>0, AckedFields
<1> HIDE DEF c
<1>5. d \in Context /\ Says(c, d, new) /\ KeepsRest(sk, d.sk)
  BY <1>2, <1>4, handleFIN3Type, handleFIN3Says
<1>6. sk.local = sock[s].local /\ sk.peer = sock[s].peer /\ sk.snd_nxt = sock[s].snd_nxt
  BY <1>4 DEF KeepsRest, tcp_sock
<1> HIDE DEF d, sk
<1>7. Says(Acked(s, i, s), d, new) /\ new = {Plain(Acked(s, i, s).sk, <<>>, {"ACK"})}
  BY <1>5 DEF c
<1> HIDE DEF new
<1> QED  BY <1>1, <1>3, <1>5, <1>6, <1>7, ClientHandled

LEMMA ClientIgnore ==
  ASSUME TypeOK, TypeOK', SendBuffersUnbroken, ConnInv, StreamInv,
         NEW s \in Clients, NEW i \in DOMAIN net[s],
         ReceiveOnlyAck(s, i, s) \/ ReceiveBeforeMove(s, i, s)
  PROVE  StreamInv'
<1> DEFINE c == Acked(s, i, s)
           d == Ignore(c, net[s][i])
<1>0. s \in Hosts /\ s \in Sock  BY SockCases
<1>1. /\ Commit(s, d, Without(s, i)) /\ UNCHANGED <<tables, apps>>
      /\ ToEstablished(s, i, s) \/ ToListener(s, i, s)
  BY DEF ReceiveOnlyAck, ReceiveBeforeMove, Handle
<1>2. cpc[s] # "start"  BY <1>0, <1>1, Receiver, NoEarlyFin
<1>3. c \in Context /\ KeepsRest(sock[s], c.sk)  BY <1>0, AckedFields
<1>4. d = c  BY DEF Ignore
<1> HIDE DEF d
<1>5. /\ c.sk.local = sock[s].local /\ c.sk.peer = sock[s].peer
      /\ c.sk.snd_nxt = sock[s].snd_nxt /\ c.sk.TCPState = sock[s].TCPState
      /\ c.sk.snd_una = sock[s].snd_una /\ c.sk.rcv_wnd = sock[s].rcv_wnd
  BY <1>3 DEF KeepsRest
<1>6. Says(c, d, {}) /\ KeepsRest(c.sk, d.sk) /\ d \in Context
      /\ FirstLogged(d.sk) = FirstLogged(c.sk)
  BY <1>3, <1>4, SaysNothing DEF KeepsRest
<1> DEFINE sk == c.sk
<1>7. /\ sk.local = sock[s].local /\ sk.peer = sock[s].peer
      /\ sk.snd_nxt = sock[s].snd_nxt /\ sk.TCPState = sock[s].TCPState
      /\ sk.snd_una = sock[s].snd_una /\ sk.rcv_wnd = sock[s].rcv_wnd
      /\ KeepsRest(sk, d.sk)
  BY <1>5, <1>6
<1> HIDE DEF c, sk
<1>8. Says(Acked(s, i, s), d, {}) /\ FirstLogged(d.sk) = FirstLogged(Acked(s, i, s).sk)
  BY <1>6 DEF c
<1> QED  BY <1>1, <1>2, <1>6, <1>7, <1>8, ClientHandled

LEMMA ClientSYN3 ==
  ASSUME TypeOK, TypeOK', SendBuffersUnbroken, ConnInv, StreamInv,
         NEW s \in Clients, NEW i \in DOMAIN net[s], ReceiveSYN3(s, i, s)
  PROVE  StreamInv'
<1> DEFINE c == Acked(s, i, s)
           p == net[s][i]
           d == handleSYN23(c, p)
           b == IF "ACK" \in p.flags THEN [c.sk EXCEPT !.snd_una = p.ack] ELSE c.sk
           sk == [b EXCEPT !.TCPState = "ESTABLISHED",
                           !.head = p.seq + 1, !.tail = p.seq + 1,
                           !.rcv_nxt = p.seq + 1, !.rcv_wnd = p.rwnd]
           new == {Plain(c.sk, <<>>, {"ACK"})}
<1>0. s \in Hosts /\ s \in Sock  BY SockCases
<1>1. /\ ToListener(s, i, s) /\ sock[s].TCPState = "SYN_SENT"
      /\ Commit(s, d, Without(s, i)) /\ UNCHANGED <<tables, apps>>
  BY DEF ReceiveSYN3, Handle
<1>2. p \in Segment /\ cpc[s] = "connect" /\ "ACK" \in p.flags
  BY <1>0, <1>1, Receiver, Received
<1>4. c \in Context /\ c.sk \in tcp_sock /\ KeepsRest(sock[s], c.sk)  BY <1>0, AckedFields
<1> HIDE DEF c
<1>5. d \in Context /\ \/ Says(c, d, {}) /\ KeepsRest(b, d.sk)
                       \/ Says(c, d, new) /\ KeepsRest(sk, d.sk)
  BY <1>2, <1>4, handleSYN23Type, handleSYN23Says
<1>6. FirstLogged(d.sk) = FirstLogged(c.sk)  BY <1>2, <1>4, SYN23First
<1>7. b = [c.sk EXCEPT !.snd_una = p.ack]  BY <1>2
<1>8. b \in tcp_sock  BY <1>2, <1>4, <1>7 DEF tcp_sock, Segment
<1>9. /\ b.local = sock[s].local /\ b.peer = sock[s].peer /\ b.snd_nxt = sock[s].snd_nxt
      /\ b.TCPState = "SYN_SENT" /\ b.snd_una = p.ack
  BY <1>1, <1>4, <1>7 DEF KeepsRest, tcp_sock
<1> HIDE DEF b
<1>10. /\ sk.local = sock[s].local /\ sk.peer = sock[s].peer /\ sk.snd_nxt = sock[s].snd_nxt
       /\ sk.snd_una = p.ack /\ sk.rcv_wnd = p.rwnd
  BY <1>8, <1>9 DEF tcp_sock
<1> HIDE DEF d, sk
<1>11. new = {Plain(Acked(s, i, s).sk, <<>>, {"ACK"})}
       /\ FirstLogged(d.sk) = FirstLogged(Acked(s, i, s).sk)
  BY <1>6 DEF c
<1> HIDE DEF new
<1>12. CASE Says(c, d, {}) /\ KeepsRest(b, d.sk)
  <2>1. Says(Acked(s, i, s), d, {})  BY <1>12 DEF c
  <2> QED  BY <1>1, <1>2, <1>5, <1>9, <1>11, <1>12, <2>1, ClientHandled
<1>13. CASE Says(c, d, new) /\ KeepsRest(sk, d.sk)
  <2>1. Says(Acked(s, i, s), d, new)  BY <1>13 DEF c
  <2> QED  BY <1>1, <1>2, <1>5, <1>10, <1>11, <1>13, <2>1, ClientHandled
<1> QED  BY <1>5, <1>12, <1>13

LEMMA ClientAckTimeOut ==
  ASSUME TypeOK, TypeOK', ConnInv, StreamInv, NEW s \in Clients, AckTimeOut(s)
  PROVE  StreamInv'
<1> DEFINE c == Enter(sock[s])
           d == HandleTimeOut(c)
<1>0. s \in Hosts /\ s \in Sock  BY SockCases
<1>1. /\ Commit(s, d, net) /\ UNCHANGED <<tables, apps>>
      /\ s \in listenTable \cup establishedTable
  BY DEF AckTimeOut
<1>2. c \in Context /\ c.sk = sock[s] /\ c.tx = <<>>
  BY <1>0, SockType DEF Enter
<1> HIDE DEF c
<1>3. Repeats(sock[s], d) /\ d \in Context /\ FirstLogged(d.sk) = FirstLogged(sock[s])
  BY <1>2, HandleTimeOutType, HandleTimeOutRepeats, TimeOutFirst
<1> HIDE DEF d
<1>4. Says(d, d, {}) /\ KeepsRest(sock[s], d.sk)  BY <1>3, SaysNothing DEF Repeats
<1>5. net \in Wires /\ \A g \in Hosts : On(net, g) \subseteq InFlight(g)
  BY WiresType DEF InFlight
<1>6. cpc[s] # "start"  BY <1>1 DEF ConnInv, Lives, ClientLife
<1> DEFINE sk == sock[s]
<1>7. /\ sk = sock[s] /\ sk.local = sock[s].local /\ sk.peer = sock[s].peer
      /\ sk.snd_nxt = sock[s].snd_nxt /\ sk.TCPState = sock[s].TCPState
      /\ sk.snd_una = sock[s].snd_una /\ sk.rcv_wnd = sock[s].rcv_wnd
      /\ KeepsRest(sk, d.sk)
  BY <1>4
<1> HIDE DEF sk
<1> QED  BY <1>1, <1>3, <1>4, <1>5, <1>6, <1>7, ClientCommit

LEMMA AllowedLess ==
  ASSUME TypeOK, NEW c \in Clients, NEW m \in Int, NEW n \in Int, m <= n, Allowed(c, n)
  PROVE  Allowed(c, m)
<1>1. /\ Base(c) \in Int /\ Window \in Int
      /\ \A k \in Peers(c) : sock[k].head \in Int
  BY StreamTypes, WindowSize, SockCases, SockType DEF Peers, tcp_sock
<1>2. CASE n <= Base(c) + Window
  <2>1. m <= Base(c) + Window  BY <1>1, <1>2
  <2> QED  BY <2>1 DEF Allowed
<1>3. ASSUME NEW k \in Peers(c), n <= sock[k].head + Window PROVE Allowed(c, m)
  <2>1. m <= sock[k].head + Window  BY <1>1, <1>3
  <2> QED  BY <2>1 DEF Allowed
<1> QED  BY <1>2, <1>3 DEF Allowed

\* What the window lets tcp_sock_write send ends where the last advertised
\* window ends, or before.
LEMMA WindowKept ==
  ASSUME NEW sk \in tcp_sock, NEW size \in Nat, MaySend(sk, size)
  PROVE  sk.snd_nxt + size <= sk.snd_una + sk.rcv_wnd
<1> DEFINE congestion == (MAX_DATA_SIZE * getCwnd(sk.cc)) % UINT16
<1>0. getCwnd(sk.cc) \in Nat
  <2>1. sk.cc.cwnd \in Nat /\ sk.cc.numDupack \in Nat
    BY CongestionConstants DEF tcp_sock, Congestion
  <2>2. sk.cc.cwnd \div CWND_ONE \in Nat  BY <2>1, CongestionConstants, DivType
  <2>3. sk.cc.cwnd \div CWND_ONE + sk.cc.numDupack \in Int  BY <2>1, <2>2
  <2>4. (sk.cc.cwnd \div CWND_ONE + sk.cc.numDupack) % UINT16 \in Nat
    BY <2>3, RingSize, ModType
  <2> QED  BY <2>4 DEF getCwnd
<1>1. /\ sk.rcv_wnd \in Nat /\ sk.snd_una \in Nat /\ sk.snd_nxt \in Nat
      /\ MAX_DATA_SIZE \in Nat /\ getCwnd(sk.cc) \in Nat
  BY <1>0, SocketAssumption DEF tcp_sock
<1>2. MAX_DATA_SIZE * getCwnd(sk.cc) \in Int  BY <1>1
<1>3. congestion \in Nat  BY <1>2, ModType
<1>4. SendWindow(sk) = IF sk.rcv_wnd < congestion THEN sk.rcv_wnd ELSE congestion
  BY DEF SendWindow
<1> HIDE DEF congestion
<1>5. SendWindow(sk) \in Nat /\ SendWindow(sk) <= sk.rcv_wnd  BY <1>1, <1>3, <1>4
<1>6. size <= SendWindow(sk) - (sk.snd_nxt - sk.snd_una)  BY DEF MaySend
<1> QED  BY <1>1, <1>5, <1>6

\* The bytes tcp_sock_write hands over are those of the file at snd_nxt.
LEMMA FileData ==
  ASSUME TypeOK, WritesItsFile, NEW c \in Clients, CanWrite(c)
  PROVE  LET offset == FileLen - Remaining(c)
             size   == SegmentSize(Remaining(c))
             data   == SubSeq(File(c), offset + 1, offset + size)
         IN  /\ size \in Nat /\ size <= Remaining(c)
             /\ data \in Seq(Byte) /\ Len(data) = size
             /\ \A j \in DOMAIN data : data[j] = <<c, sock[c].snd_nxt + j - FirstByte(c)>>
<1> DEFINE offset == FileLen - Remaining(c)
           size   == SegmentSize(Remaining(c))
           data   == SubSeq(File(c), offset + 1, offset + size)
<1>1. maxSend[c] \in Nat /\ sock[c].snd_nxt \in Nat /\ FileLen \in Nat
  BY SockType, HostsAreSockets, ProtocolAssumption DEF TypeOK, tcp_sock
<1>2. Remaining(c) \in 1 .. FileLen
  BY <1>1 DEF CanWrite, Remaining, WritesItsFile
<1>3. size \in 1 .. Remaining(c)
  BY <1>2, SlotFacts DEF SegmentSize
<1>4. offset \in Nat /\ offset + size <= FileLen /\ offset + size \in Nat
  BY <1>1, <1>2, <1>3
<1>5. offset = sock[c].snd_nxt - FirstByte(c) /\ FirstByte(c) \in Int
  BY <1>1 DEF Remaining, FirstByte
<1>6. data \in Seq(Byte)  BY FileDataType
<1> HIDE DEF offset, size
<1>7. \A i \in offset + 1 .. offset + size : File(c)[i] \in Byte /\ File(c)[i] = <<c, i>>
  <2>1. \A i \in offset + 1 .. offset + size : i \in 1 .. FileLen  BY <1>1, <1>4
  <2> QED  BY <2>1, ProtocolAssumption DEF File
<1>8. /\ Len(data) = IF offset + 1 <= offset + size
                     THEN (offset + size) - (offset + 1) + 1 ELSE 0
      /\ \A j \in 1 .. (offset + size) - (offset + 1) + 1 :
           data[j] = File(c)[(offset + 1) + j - 1]
  BY <1>4, <1>7, SubSeqProperties
<1>9. (offset + size) - (offset + 1) + 1 = size  BY <1>2, <1>3, <1>4
<1>10. Len(data) = size  BY <1>2, <1>3, <1>4, <1>8
<1>11. \A j \in 1 .. size : data[j] = File(c)[(offset + 1) + j - 1]  BY <1>8, <1>9
<1> HIDE DEF data
<1>12. ASSUME NEW j \in DOMAIN data PROVE data[j] = <<c, sock[c].snd_nxt + j - FirstByte(c)>>
  <2>1. j \in 1 .. size  BY <1>6, <1>10
  <2>2. (offset + 1) + j - 1 = offset + j /\ offset + j \in offset + 1 .. offset + size
    BY <1>2, <1>3, <1>4, <2>1
  <2>3. offset + j = sock[c].snd_nxt + j - FirstByte(c)  BY <1>1, <1>5, <2>1
  <2> QED  BY <1>7, <1>11, <2>1, <2>2, <2>3
<1>13. size \in Nat /\ size <= Remaining(c)  BY <1>2, <1>3
<1> QED  BY <1>6, <1>10, <1>12, <1>13 DEF offset, size, data

LEMMA ClientWriteStep ==
  ASSUME TypeOK, TypeOK', WritesItsFile, ConnInv, StreamInv, NEW c \in Clients,
         ClientWrite(c)
  PROVE  StreamInv'
<1> DEFINE offset == FileLen - Remaining(c)
           size   == SegmentSize(Remaining(c))
           data   == SubSeq(File(c), offset + 1, offset + size)
           d      == Write(Enter(sock[c]), data)
           sk     == [sock[c] EXCEPT !.snd_nxt = @ + Len(data)]
           e      == Plain(sock[c], data, {"ACK"})
<1>1. /\ CanWrite(c) /\ Commit(c, d, net) /\ UNCHANGED <<tables, apps>>
      /\ cpc[c] = "write" /\ MaySend(sock[c], size)
  BY DEF ClientWrite, CanWrite
<1>2. /\ size \in Nat /\ data \in Seq(Byte) /\ Len(data) = size
      /\ \A j \in DOMAIN data : data[j] = <<c, sock[c].snd_nxt + j - FirstByte(c)>>
  BY <1>1, FileData
<1>3. c \in Sock /\ sock[c] \in tcp_sock
      /\ Enter(sock[c]) \in Context /\ Enter(sock[c]).sk = sock[c]
  BY SockCases, SockType DEF Enter
<1> HIDE DEF data, size
<1>4. d \in Context /\ Says(Enter(sock[c]), d, {e}) /\ KeepsRest(sk, d.sk)
      /\ FirstLogged(d.sk) = FirstLogged(sock[c])
  BY <1>2, <1>3, WriteType, WriteSays, WriteFirst
<1>5. /\ sk.local = sock[c].local /\ sk.peer = sock[c].peer
      /\ sk.TCPState = sock[c].TCPState /\ sk.snd_nxt = sock[c].snd_nxt + size
      /\ sk.snd_una = sock[c].snd_una /\ sk.rcv_wnd = sock[c].rcv_wnd
  BY <1>2, <1>3 DEF tcp_sock
<1>6. Repeats(sock[c], Enter(sock[c]))  BY <1>3, EnterRepeats
<1>7. net \in Wires /\ \A g \in Hosts : On(net, g) \subseteq InFlight(g)
  BY WiresType DEF InFlight
<1>8. ClientInv(c) /\ sock[c].TCPState = "ESTABLISHED" /\ ~Closing(c) /\ ~Untouched(c)
  BY <1>1 DEF StreamInv, ConnInv, Lives, ClientLife, Closing, Untouched
<1>9. /\ Base(c) = FirstByte(c) /\ Base(c) \in Int /\ sock[c].snd_nxt \in Nat
      /\ sock[c].snd_una \in Nat /\ sock[c].rcv_wnd \in Nat /\ Base(c) <= sock[c].snd_nxt
  BY <1>1, <1>8, StreamTypes DEF Base, ClientInv, Sending
<1>10. Allowed(c, sk.snd_nxt)
  <2>0. sk.snd_nxt \in Int /\ sock[c].snd_una + sock[c].rcv_wnd \in Int
    BY <1>2, <1>5, <1>9
  <2>1. PICK m \in Int, n \in Int :
          m = sk.snd_nxt /\ n = sock[c].snd_una + sock[c].rcv_wnd
    BY <2>0
  <2>2. m <= n  BY <1>1, <1>2, <1>3, <1>5, <2>1, WindowKept
  <2>3. Allowed(c, n)  BY <1>8, <2>1 DEF ClientInv, Offered
  <2>4. Allowed(c, m)  BY <2>2, <2>3, AllowedLess
  <2> QED  BY <2>1, <2>4
<1>11. e.seq = sock[c].snd_nxt /\ e.data = data /\ e.flags = {"ACK"}  BY DEF Plain
<1>12. sock[c].snd_nxt <= sk.snd_nxt  BY <1>2, <1>5, <1>9
<1> HIDE DEF d, sk, e
<1>13. Carried(e, c, Base(c), sk.snd_nxt)
  <2>1. Base(c) <= e.seq /\ Base(c) <= e.seq + 1  BY <1>9, <1>11
  <2>2. e.seq + Len(e.data) <= sk.snd_nxt  BY <1>2, <1>5, <1>9, <1>11, <1>12
  <2>3. \A j \in DOMAIN e.data : e.data[j] = <<c, e.seq + j - Base(c)>>
    BY <1>2, <1>9, <1>11
  <2> QED  BY <1>11, <2>1, <2>2, <2>3 DEF Carried
<1>14. \A f \in {e} :
         /\ Carried(f, c, Base(c), IF Closing(c) THEN maxSend[c] ELSE sk.snd_nxt)
         /\ f.seq <= sk.snd_nxt
  BY <1>8, <1>11, <1>12, <1>13
<1> QED
  BY <1>1, <1>4, <1>5, <1>6, <1>7, <1>8, <1>10, <1>12, <1>14, ClientCommit

LEMMA ClientCloseStep ==
  ASSUME TypeOK, TypeOK', ConnInv, StreamInv, NEW c \in Clients, ClientClose(c)
  PROVE  StreamInv'
<1> DEFINE d == Close(Enter(sock[c]))
           sk == [sock[c] EXCEPT !.TCPState = "FIN_WAIT_1", !.snd_nxt = @ + 1]
           fin == Plain(sock[c], <<>>, {"FIN", "ACK"})
<1>1. /\ cpc[c] = "sleep" /\ Commit(c, d, net)
      /\ UNCHANGED <<listenTable, establishedTable, synRcvdList, acceptList>>
      /\ cpc' = [cpc EXCEPT ![c] = "close"]
      /\ UNCHANGED <<maxSend, spc, csk, delivered>>
  BY DEF ClientClose, tables
<1>2. /\ c \in Sock /\ sock[c] \in tcp_sock
      /\ Enter(sock[c]) \in Context /\ Enter(sock[c]).sk = sock[c]
  BY SockCases, SockType DEF Enter
<1>3. d \in Context /\ d.ok /\ Says(Enter(sock[c]), d, {fin}) /\ KeepsRest(sk, d.sk)
  BY <1>2, CloseType, CloseSays, ControlOk
<1>4. sk.local = sock[c].local /\ sk.peer = sock[c].peer /\ sk.snd_nxt = sock[c].snd_nxt + 1
  BY <1>2 DEF tcp_sock
<1>5. fin.seq = sock[c].snd_nxt /\ fin.data = <<>> /\ fin.flags = {"FIN", "ACK"}  BY DEF Plain
<1>6. Repeats(sock[c], Enter(sock[c]))  BY <1>2, EnterRepeats
<1> HIDE DEF d, fin, sk
<1>7. /\ \A r \in Sock : r # c => sock'[r] = sock[r]
      /\ sock'[c] = d.sk
  <2>1. "FIN" \in fin.flags => c \in {c}  OBVIOUS
  <2> QED  BY <1>1, <1>3, <1>4, <2>1, ClientSends
<1>8. d.sk.local = sock[c].local /\ d.sk.peer = sock[c].peer /\ d.sk.snd_nxt = sock[c].snd_nxt + 1
  BY <1>3, <1>4 DEF KeepsRest
<1>9. sock[c].local = c /\ sock[c].peer = Server
  BY <1>2, SockCases DEF ConnInv, Homes
<1>10. /\ Logged(d.sk) \subseteq Logged(sock[c]) \cup {fin}
       /\ Said(d) \subseteq Packets(sock[c], Logged(sock[c])) \cup Packets(d.sk, {fin})
  BY <1>3, <1>6 DEF Repeats, Says
<1>11. net \in Wires /\ \A g \in Hosts : On(net, g) \subseteq InFlight(g)
  BY WiresType DEF InFlight
<1>12. \A h \in Hosts : \A m \in InFlight(h)' :
         \/ m \in InFlight(h)
         \/ /\ h = Server
            /\ \E e \in Logged(sock[c]) \cup {fin} :
                 m.src = c /\ m.seq = e.seq /\ m.data = e.data /\ m.flags = e.flags
  <2>1. \/ \A h \in Hosts : InFlight(h)' \subseteq InFlight(h)
        \/ \A h \in Hosts : \A m \in InFlight(h)' :
             \/ m \in InFlight(h)
             \/ /\ h = sock[c].peer /\ m.src = sock[c].local
                /\ \/ m \in Packets(sock[c], Logged(sock[c]))
                   \/ m \in Packets(d.sk, {fin})
    BY <1>1, <1>2, <1>3, <1>8, <1>10, <1>11, CommitWire, ZenonT(40)
  <2> QED  BY <1>9, <2>1, PacketIs
<1>13. cpc'[c] = "close" /\ \A g \in Clients : g # c => cpc'[g] = cpc[g] /\ maxSend'[g] = maxSend[g]
  BY <1>1 DEF TypeOK
<1>14. ClientInv(c)  BY DEF StreamInv
<1>15. /\ Base(c) \in Int /\ sock[c].snd_nxt \in Nat /\ maxSend[c] \in Nat
       /\ Base(c) <= sock[c].snd_nxt /\ sock[c].snd_nxt = maxSend[c]
  BY <1>1, <1>14, StreamTypes DEF ClientInv, Sending
<1>16. Base(c)' = Base(c)  BY <1>1, <1>13 DEF Base, FirstByte
<1>17. ~Closing(c) /\ Closing(c)' /\ End(c)' = End(c) /\ End(c) <= End(c)'
  BY <1>1, <1>13, <1>15 DEF Closing, End
<1>18. Base(c) <= sock'[c].snd_nxt /\ sock[c].snd_nxt <= sock'[c].snd_nxt
  BY <1>7, <1>8, <1>15
<1>28. Base(c)' = Base(c) /\ Base(c) <= sock'[c].snd_nxt /\ sock[c].snd_nxt <= sock'[c].snd_nxt
  BY <1>16, <1>18
<1>19. \A e \in {fin} : Carries(c, e)'
  <2> DEFINE b == Base(c)  n == End(c)'  sc == sock[c]
  <2>1. b \in Int /\ sc.snd_nxt \in Nat /\ b <= sc.snd_nxt  BY <1>15
  <2> HIDE DEF b, n, sc
  <2>2. Carried(Plain(sc, <<>>, {"FIN", "ACK"}), c, b, n)  BY <2>1, PlainCarried
  <2>3. Carried(fin, c, Base(c)', End(c)')  BY <1>16, <2>2 DEF b, n, sc, fin
  <2>4. fin.seq <= sock'[c].snd_nxt  BY <1>5, <1>18
  <2> QED  BY <2>3, <2>4 DEF Carries
<1>20. ~Untouched(c)  BY <1>1 DEF Untouched
<1>21. /\ UNCHANGED <<spc, csk, delivered, acceptList, synRcvdList>>
       /\ Server \in listenTable' => Server \in listenTable
       /\ establishedTable' \cap Children = establishedTable \cap Children
       /\ cpc[c] # "start" /\ cpc'[c] # "start" /\ cpc'[c] # "sleep"
  BY <1>1, <1>13
<1>22. Logged(sock'[c]) \subseteq Logged(sock[c]) \cup {fin}  BY <1>7, <1>10
<1>27. PICK new : new = {fin}  OBVIOUS
<1>23. /\ Logged(sock'[c]) \subseteq Logged(sock[c]) \cup new
       /\ \A e \in new : Carries(c, e)'
       /\ \A h \in Hosts : \A m \in InFlight(h)' :
            \/ m \in InFlight(h)
            \/ /\ h = Server
               /\ \E e \in Logged(sock[c]) \cup new :
                    m.src = c /\ m.seq = e.seq /\ m.data = e.data /\ m.flags = e.flags
  BY <1>12, <1>19, <1>22, <1>27
<1>24. ~Closing(c)' =>
         /\ sock'[c].TCPState = "ESTABLISHED" =>
              \/ /\ sock[c].TCPState = "ESTABLISHED"
                 /\ sock'[c].snd_una = sock[c].snd_una /\ sock'[c].rcv_wnd = sock[c].rcv_wnd
              \/ /\ Allowed(c, sock'[c].snd_una + sock'[c].rcv_wnd)
                 /\ Reached(c, sock'[c].snd_una)
         /\ \/ FirstLogged(sock'[c]) = FirstLogged(sock[c])
            \/ Reached(c, FirstLogged(sock'[c]))
  BY <1>17
<1>25. /\ cpc'[c] = "sleep" => sock'[c].snd_nxt = maxSend'[c]
       /\ \A g \in Clients : g # c => cpc'[g] = cpc[g] /\ maxSend'[g] = maxSend[g]
  BY <1>13, <1>21
<1>26. /\ \A r \in Sock : r # c => sock'[r] = sock[r]
       /\ Closing(c) => Closing(c)'
       /\ Streams(c) => End(c)' = End(c) \/ Allowed(c, End(c)')
       /\ \/ ~Untouched(c)
          \/ new = {} /\ cpc'[c] = cpc[c] /\ sock'[c].TCPState = sock[c].TCPState
       /\ cpc[c] # "start" /\ cpc'[c] # "start"
       /\ End(c) <= End(c)'
  BY <1>7, <1>17, <1>20, <1>21
<1> QED
  BY <1>21, <1>23, <1>24, <1>25, <1>26, <1>28, ClientMoves

\* The client's steps that leave every socket as it is, and the end of TIME_WAIT
LEMMA ClientQuiet ==
  ASSUME TypeOK, TypeOK', ConnInv, StreamInv, NEW c \in Clients,
         \/ ClientConnected(c) \/ ClientWriteBegin(c) \/ ClientWritten(c) \/ ClientClosed(c)
         \/ TimeWaitOver(c)
  PROVE  StreamInv'
<1>1. /\ c \in Sock /\ c # Server /\ c \notin Children /\ sock[c] \in tcp_sock
      /\ sock[c].snd_nxt \in Nat /\ FileLen \in Nat
  BY SockCases, SockType, ProtocolAssumption DEF tcp_sock
<1>2. /\ net' = net /\ UNCHANGED <<spc, csk, delivered, acceptList, synRcvdList>>
      /\ listenTable' \subseteq listenTable
      /\ \A r \in Sock : r # c => sock'[r] = sock[r]
      /\ \A g \in Clients : g # c => cpc'[g] = cpc[g] /\ maxSend'[g] = maxSend[g]
  BY DEF ClientConnected, ClientWriteBegin, ClientWritten, ClientClosed, TimeWaitOver,
         tables, apps, TypeOK
<1>3. establishedTable' \cap Children = establishedTable \cap Children
  BY <1>1 DEF ClientConnected, ClientWriteBegin, ClientWritten, ClientClosed, TimeWaitOver,
              tables
<1>4. ClientInv(c) /\ ClientLife(c)  BY DEF StreamInv, ConnInv, Lives
<1>5. /\ Base(c) \in Int /\ End(c) \in Nat /\ maxSend[c] \in Nat
      /\ Base(c) <= sock[c].snd_nxt
  BY <1>4, StreamTypes DEF ClientInv, Sending
<1>6. /\ sock'[c].snd_nxt = sock[c].snd_nxt /\ Logged(sock'[c]) = Logged(sock[c])
      /\ FirstLogged(sock'[c]) = FirstLogged(sock[c])
      /\ sock'[c] = sock[c] \/ (cpc[c] = "close" /\ cpc'[c] = "close")
  <2>1. CASE TimeWaitOver(c)
    <3>1. sock'[c] = [sock[c] EXCEPT !.TCPState = "CLOSED"] /\ cpc' = cpc
          /\ sock[c].TCPState = "TIME_WAIT"
      BY <1>1, <2>1 DEF TimeWaitOver, TypeOK, apps
    <3>2. sock'[c].snd_nxt = sock[c].snd_nxt /\ sock'[c].sendBuffer = sock[c].sendBuffer
      BY <1>1, <3>1 DEF tcp_sock
    <3>3. cpc[c] = "close"  BY <1>4, <3>1 DEF ClientLife, TypeOK
    <3> QED  BY <3>1, <3>2, <3>3 DEF Logged, FirstLogged
  <2>2. CASE ~TimeWaitOver(c)
    <3>1. sock' = sock
      BY <2>2 DEF ClientConnected, ClientWriteBegin, ClientWritten, ClientClosed
    <3> QED  BY <3>1
  <2> QED  BY <2>1, <2>2
<1>7. /\ cpc[c] # "start" /\ cpc'[c] # "start" /\ (Closing(c) <=> Closing(c)')
      /\ maxSend'[c] = maxSend[c] \/ ~Closing(c)
      /\ ~Untouched(c)
      /\ Base(c)' = Base(c)
      /\ cpc'[c] = "sleep" => sock[c].snd_nxt = maxSend'[c]
  <2>1. CASE ClientConnected(c)
    <3>1. cpc[c] = "connect" /\ cpc'[c] = "connected" /\ maxSend' = maxSend
          /\ sock[c].TCPState = "ESTABLISHED"
      BY <2>1 DEF ClientConnected, CanReturn, TypeOK
    <3> QED  BY <1>6, <3>1 DEF Closing, Untouched, Base
  <2>2. CASE ClientWriteBegin(c)
    <3>1. cpc[c] = "connected" /\ cpc'[c] = "write" /\ maxSend'[c] = sock[c].snd_nxt + FileLen
      BY <2>2 DEF ClientWriteBegin, TypeOK
    <3>2. maxSend'[c] - FileLen = sock[c].snd_nxt  BY <1>1, <3>1
    <3> QED  BY <1>6, <3>1, <3>2 DEF Closing, Untouched, Base, FirstByte
  <2>3. CASE ClientWritten(c)
    <3>1. cpc[c] = "write" /\ cpc'[c] = "sleep" /\ maxSend' = maxSend
          /\ maxSend[c] - sock[c].snd_nxt = 0
      BY <2>3 DEF ClientWritten, TypeOK, Remaining
    <3>2. sock[c].snd_nxt = maxSend'[c]  BY <1>1, <1>5, <3>1
    <3> QED  BY <1>6, <3>1, <3>2 DEF Closing, Untouched, Base, FirstByte
  <2>4. CASE ClientClosed(c)
    <3>1. cpc[c] = "close" /\ cpc'[c] = "done" /\ maxSend' = maxSend
      BY <2>4 DEF ClientClosed, TypeOK
    <3> QED  BY <1>6, <3>1 DEF Closing, Untouched, Base, FirstByte
  <2>5. CASE TimeWaitOver(c)
    <3>1. cpc[c] = "close" /\ cpc' = cpc /\ maxSend' = maxSend
      BY <1>1, <1>4, <2>5 DEF TimeWaitOver, apps, ClientLife, TypeOK
    <3> QED  BY <1>6, <3>1 DEF Closing, Untouched, Base, FirstByte
  <2> QED  BY <2>1, <2>2, <2>3, <2>4, <2>5
<1>8. End(c)' = End(c) /\ End(c) <= End(c)'  BY <1>5, <1>6, <1>7 DEF End
<1>9. \A h \in Hosts : InFlight(h)' = InFlight(h)  BY <1>2 DEF InFlight
<1>10. ~Closing(c)' => sock'[c] = sock[c]  BY <1>6 DEF Closing
<1>11. /\ Base(c) <= sock'[c].snd_nxt /\ sock[c].snd_nxt <= sock'[c].snd_nxt
       /\ cpc'[c] = "sleep" => sock'[c].snd_nxt = maxSend'[c]
  <2>1. sock[c].snd_nxt <= sock'[c].snd_nxt  BY <1>1, <1>6
  <2> QED  BY <1>5, <1>6, <1>7, <2>1
<1> DEFINE new == {}
<1>12. /\ Logged(sock'[c]) \subseteq Logged(sock[c]) \cup new
       /\ \A e \in new : Carries(c, e)'
  BY <1>6
<1>13. \A h \in Hosts : \A m \in InFlight(h)' :
         \/ m \in InFlight(h)
         \/ /\ h = Server
            /\ \E e \in Logged(sock[c]) \cup new :
                 m.src = c /\ m.seq = e.seq /\ m.data = e.data /\ m.flags = e.flags
  BY <1>9
<1>14. ~Closing(c)' =>
         /\ sock'[c].TCPState = "ESTABLISHED" =>
              \/ /\ sock[c].TCPState = "ESTABLISHED"
                 /\ sock'[c].snd_una = sock[c].snd_una /\ sock'[c].rcv_wnd = sock[c].rcv_wnd
              \/ /\ Allowed(c, sock'[c].snd_una + sock'[c].rcv_wnd)
                 /\ Reached(c, sock'[c].snd_una)
         /\ \/ FirstLogged(sock'[c]) = FirstLogged(sock[c])
            \/ Reached(c, FirstLogged(sock'[c]))
  BY <1>10
<1>15. Server \in listenTable' => Server \in listenTable  BY <1>2
<1> HIDE DEF new
<1> QED
  BY <1>2, <1>3, <1>7, <1>8, <1>11, <1>12, <1>13, <1>14, <1>15, ClientMoves

LEMMA ClientConnectStep ==
  ASSUME TypeOK, TypeOK', ConnInv, StreamInv, NEW c \in Clients, ClientConnect(c)
  PROVE  StreamInv'
<1> DEFINE d == Connect(Enter(sock[c]))
           sk == [sock[c] EXCEPT !.TCPState = "SYN_SENT", !.snd_nxt = @ + 1]
           syn == Plain(sock[c], <<>>, {"SYN"})
<1>1. /\ cpc[c] = "start" /\ Commit(c, d, net)
      /\ listenTable' = listenTable \cup {c}
      /\ UNCHANGED <<establishedTable, synRcvdList, acceptList>>
      /\ cpc' = [cpc EXCEPT ![c] = "connect"]
      /\ UNCHANGED <<maxSend, spc, csk, delivered>>
  BY DEF ClientConnect
<1>2. /\ c \in Sock /\ c \in Hosts /\ c # Server /\ c \notin Children /\ Server \in Sock
      /\ Server \in Hosts /\ Children \subseteq Sock /\ Clients \subseteq Hosts
      /\ Clients \subseteq Sock /\ Server \notin Clients
      /\ sock[c] \in tcp_sock /\ Enter(sock[c]) \in Context /\ Enter(sock[c]).sk = sock[c]
  BY SockCases, SockType DEF Enter
<1>3. sock[c].rcv_nxt = 0  BY <1>1 DEF ConnInv, Lives, ClientLife
<1>4. d \in Context /\ d.ok /\ Says(Enter(sock[c]), d, {syn}) /\ KeepsRest(sk, d.sk)
  BY <1>2, <1>3, ConnectType, ConnectSays, ControlOk
<1>5. /\ sk.local = sock[c].local /\ sk.peer = sock[c].peer /\ sk.TCPState = "SYN_SENT"
      /\ sk.snd_nxt = sock[c].snd_nxt + 1
  BY <1>2 DEF tcp_sock
<1>6. syn.seq = sock[c].snd_nxt /\ syn.data = <<>> /\ syn.flags = {"SYN"}  BY DEF Plain
<1>7. Repeats(sock[c], Enter(sock[c]))  BY <1>2, EnterRepeats
<1>35. PICK f : /\ f = syn /\ f.seq = sock[c].snd_nxt /\ f.data = <<>> /\ f.flags = {"SYN"}
  BY <1>6
<1> HIDE DEF d, syn, sk
<1>8. /\ \A r \in Sock : r # c => sock'[r] = sock[r]
      /\ sock'[c] = d.sk
  <2>1. "FIN" \in f.flags => c \in {}  BY <1>35
  <2> QED  BY <1>1, <1>4, <1>5, <1>35, <2>1, ClientSends
<1>9. /\ d.sk.local = sock[c].local /\ d.sk.peer = sock[c].peer /\ d.sk.TCPState = "SYN_SENT"
      /\ d.sk.snd_nxt = sock[c].snd_nxt + 1
  BY <1>4, <1>5 DEF KeepsRest
<1>10. sock[c].local = c /\ sock[c].peer = Server
  BY <1>2 DEF ConnInv, Homes
<1>11. ClientInv(c)  BY DEF StreamInv
<1>12. Logged(sock[c]) = {} /\ \A m \in InFlight(Server) : m.src # c
  BY <1>1, <1>11 DEF ClientInv, Sending
<1>13. /\ Logged(d.sk) \subseteq {f}
       /\ Said(d) \subseteq Packets(sock[c], Logged(sock[c])) \cup Packets(d.sk, {f})
  BY <1>4, <1>7, <1>12, <1>35 DEF Repeats, Says
<1>14. net \in Wires /\ \A g \in Hosts : On(net, g) \subseteq InFlight(g)
  BY WiresType DEF InFlight
<1>15. \A h \in Hosts : \A m \in InFlight(h)' :
         \/ m \in InFlight(h)
         \/ /\ h = Server /\ m.src = c
            /\ m.seq = f.seq /\ m.data = f.data /\ m.flags = f.flags
  <2>1. \/ \A h \in Hosts : InFlight(h)' \subseteq InFlight(h)
        \/ \A h \in Hosts : \A m \in InFlight(h)' :
             \/ m \in InFlight(h)
             \/ /\ h = sock[c].peer /\ m.src = sock[c].local
                /\ \/ m \in Packets(sock[c], Logged(sock[c]))
                   \/ m \in Packets(d.sk, {f})
    BY <1>1, <1>2, <1>4, <1>9, <1>13, <1>14, CommitWire
  <2>2. \A m \in Packets(sock[c], Logged(sock[c])) : FALSE  BY <1>12, PacketIs
  <2>3. \A m \in Packets(d.sk, {f}) :
          m.seq = f.seq /\ m.data = f.data /\ m.flags = f.flags
    BY PacketIs
  <2> QED  BY <1>10, <2>1, <2>2, <2>3
<1>16. cpc'[c] = "connect" /\ \A g \in Clients : g # c => cpc'[g] = cpc[g]
  BY <1>1 DEF TypeOK
<1>17. sock'[Server] = sock[Server] /\ \A k \in Children : sock'[k] = sock[k]
  BY <1>2, <1>8
<1>18. \A g \in Clients : Peers(g)' = Peers(g)  BY <1>1, <1>17 DEF Peers
<1>19. ASSUME NEW g \in Clients, g # c PROVE ClientInv(g)'
  <2>1. ClientInv(g) /\ g \in Hosts /\ g # Server  BY <1>2 DEF StreamInv
  <2>2. sock'[g] = sock[g]  BY <1>2, <1>8, <1>19
  <2>3. InFlight(g)' \subseteq InFlight(g)  BY <1>15, <2>1
  <2>4. \A m \in InFlight(Server)' : m.src = g => m \in InFlight(Server)
    BY <1>2, <1>15, <1>19
  <2>5. Peers(g)' = Peers(g) /\ \A k \in Peers(g) : sock'[k] = sock[k]
    BY <1>17, <1>18 DEF Peers
  <2> QED  BY <1>1, <1>16, <1>17, <1>19, <2>1, <2>2, <2>3, <2>4, <2>5, ClientFrame
<1>20. /\ sock[Server].peer # c /\ Peers(c) = {} /\ InFlight(c) = {}
  <2>1. sock[Server].peer # c /\ Peers(c) = {}  BY <1>1, <1>11 DEF ClientInv, Greeted
  <2>2. Streams(c)  BY <1>1 DEF Streams, Closing
  <2>3. Untouched(c)  BY <1>11, <2>1, <2>2 DEF ClientInv, Greeted
  <2> QED  BY <2>1, <2>3 DEF Untouched
<1>21. /\ sock[c].snd_nxt \in Nat /\ Base(c)' = sock[c].snd_nxt + 1
       /\ End(c)' = sock[c].snd_nxt + 1 /\ ~Closing(c)' /\ Window \in Nat
  <2>1. sock[c].snd_nxt \in Nat /\ Window \in Nat  BY StreamTypes, WindowSize
  <2>2. ~Closing(c)'  BY <1>16 DEF Closing
  <2>3. sock'[c].snd_nxt = sock[c].snd_nxt + 1  BY <1>8, <1>9
  <2> QED  BY <1>16, <2>1, <2>2, <2>3 DEF Base, End
<1>22. Carries(c, f)'
  <2>1. Carried(f, c, Base(c)', End(c)')  BY <1>35, <1>21 DEF Carried
  <2>2. f.seq <= sock'[c].snd_nxt  BY <1>8, <1>9, <1>21, <1>35
  <2> QED  BY <2>1, <2>2 DEF Carries
<1>23. \A m \in InFlight(Server)' : m.src = c =>
         m.seq = f.seq /\ m.data = f.data /\ m.flags = f.flags
  BY <1>2, <1>12, <1>15
<1>24. InFlight(c)' = {}  BY <1>2, <1>15, <1>20
<1>25. Logged(sock'[c]) \subseteq {f}  BY <1>8, <1>13
<1>26. Sending(c)'
  <2>1. \A m \in InFlight(Server)' : m.src = c => cpc'[c] # "start" /\ Carries(c, m)'
    <3> SUFFICES ASSUME NEW m \in InFlight(Server)', m.src = c PROVE Carries(c, m)'
      BY <1>16
    <3>1. m.seq = f.seq /\ m.data = f.data /\ m.flags = f.flags  BY <1>23
    <3>2. Carried(f, c, Base(c)', End(c)') /\ f.seq <= sock'[c].snd_nxt  BY <1>22 DEF Carries
    <3>3. Carried(m, c, Base(c)', End(c)') /\ m.seq <= sock'[c].snd_nxt
      BY <3>1, <3>2 DEF Carried
    <3> QED  BY <3>3 DEF Carries
  <2>2. ASSUME NEW e \in Logged(sock'[c]) PROVE cpc'[c] # "start" /\ Carries(c, e)'
    <3>1. e = f  BY <1>25
    <3> QED  BY <1>16, <1>22, <3>1
  <2>3. Base(c)' <= sock'[c].snd_nxt  BY <1>8, <1>9, <1>21
  <2> QED  BY <1>16, <2>1, <2>2, <2>3 DEF Sending
<1>27. FirstLogged(sock'[c]) \in Nat /\ FirstLogged(sock'[c]) <= Base(c)'
  <2>1. sock'[c].snd_nxt = Base(c)'  BY <1>8, <1>9, <1>21
  <2>2. FirstLogged(sock'[c]) \in Nat  BY StreamTypesNext
  <2>3. CASE sock'[c].sendBuffer = <<>>
    BY <1>21, <2>1, <2>3 DEF FirstLogged
  <2>4. CASE sock'[c].sendBuffer # <<>>
    <3>1. sock'[c].sendBuffer \in Seq(TCPPacketInfo_c)
      BY <1>2, StreamTypesNext DEF tcp_sock
    <3>2. Logging(sock'[c].sendBuffer[1]) \in Logged(sock'[c])  BY <2>4, <3>1 DEF Logged
    <3>3. sock'[c].sendBuffer[1].seq = sock[c].snd_nxt
      BY <1>35, <1>25, <3>2 DEF Logging
    <3> QED  BY <1>21, <2>4, <3>3 DEF FirstLogged
  <2> QED  BY <2>2, <2>3, <2>4
<1>28. Offered(c)'
  <2>1. sock'[c].TCPState # "ESTABLISHED"  BY <1>8, <1>9
  <2>2. Reached(c, FirstLogged(sock[c]))'
    <3>1. FirstLogged(sock[c])' = FirstLogged(sock'[c])  OBVIOUS
    <3> QED  BY <1>27 DEF Reached
  <2>3. End(c)' <= Base(c)' + Window  BY <1>21
  <2>4. Allowed(c, End(c))'  BY <2>3 DEF Allowed
  <2> QED  BY <1>24, <2>1, <2>2, <2>4 DEF Offered
<1>29. Untouched(c)'
  <2>1. cpc'[c] \in {"start", "connect"} /\ sock'[c].TCPState # "ESTABLISHED"
    BY <1>8, <1>9, <1>16
  <2>2. f.seq + 1 = Base(c)'  BY <1>35, <1>21
  <2>3. \A e \in Logged(sock'[c]) : e.seq + 1 = Base(c)'  BY <1>25, <2>2
  <2>4. \A m \in InFlight(Server)' : m.src = c => m.seq + 1 = Base(c)'  BY <1>23, <2>2
  <2> QED  BY <1>24, <2>1, <2>3, <2>4 DEF Untouched
<1>30. Greeted(c)'  BY <1>16, <1>17, <1>18, <1>20, <1>29 DEF Greeted
<1>31. ClientInv(c)'  BY <1>18, <1>20, <1>26, <1>28, <1>30 DEF ClientInv
<1>32. Listening'
  <2>1. \A s \in Children \cup {Server} : sock'[s] = sock[s]  BY <1>17
  <2>2. Server \in listenTable' => Server \in listenTable  BY <1>1, <1>2
  <2> QED  BY <1>1, <2>1, <2>2, ListeningKept DEF StreamInv, TypeOK
<1>33. \A g \in Clients : Peers(g) # {} => Base(g)' = Base(g) /\ End(g) <= End(g)'
  <2>1. \A g \in Clients : g # c => Base(g)' = Base(g) /\ End(g)' = End(g) /\ End(g) \in Nat
    BY <1>1, <1>2, <1>8, <1>16, StreamTypes DEF Base, End, FirstByte, Closing
  <2>2. \A g \in Clients : g # c => Base(g)' = Base(g) /\ End(g) <= End(g)'  BY <2>1
  <2> QED  BY <1>20, <2>2
<1>34. Reading'
  BY <1>1, <1>17, <1>33, ReadingKept DEF StreamInv
<1> QED  BY <1>19, <1>31, <1>32, <1>34 DEF StreamInv

-----------------------------------------------------------------------------
(* The steps of the child that serves a client.                            *)

\* A critical section on the child k that serves client c
LEMMA ChildCommit ==
  ASSUME TypeOK, TypeOK', ChildrenApart, ConnInv, StreamInv,
         NEW k \in establishedTable \cap Children, NEW c \in Clients, sock[k].peer = c,
         NEW b, NEW d \in Context, NEW sk, NEW new,
         Repeats(sock[k], b), Says(b, d, new), KeepsRest(sk, d.sk),
         sk.local = sock[k].local, sk.peer = sock[k].peer,
         NEW flight \in Wires, \A g \in Hosts : On(flight, g) \subseteq InFlight(g),
         Commit(k, d, flight), UNCHANGED <<tables, apps>>,
         \A e \in new : "ACK" \in e.flags,
         sk.head = sock[k].head,
         sock[k].TCPState # "ESTABLISHED" => sk.TCPState # "ESTABLISHED",
         Streams(c) =>
           /\ RingHolds(sk, c, Base(c), End(c)) /\ sock[k].tail <= sk.tail
           /\ sk.TCPState = "ESTABLISHED" => sk.rcv_nxt = sk.tail
           /\ sk.TCPState # "ESTABLISHED" => Closing(c)
  PROVE  StreamInv'
<1>1. /\ k \in Sock /\ c \in Hosts /\ sock[k].local = Server
      /\ \A g \in Clients : g \in Sock /\ g # k
  BY SockCases DEF ConnInv, Homes
<1>2. /\ d.sk.local = sock[k].local /\ d.sk.peer = sock[k].peer
      /\ d.sk.TCPState = sk.TCPState /\ d.sk.rcv_nxt = sk.rcv_nxt
      /\ d.sk.head = sk.head /\ d.sk.tail = sk.tail /\ d.sk.buf = sk.buf
  BY DEF KeepsRest
<1>3. /\ Logged(d.sk) \subseteq Logged(sock[k]) \cup new
      /\ Said(d) \subseteq Packets(sock[k], Logged(sock[k])) \cup Packets(d.sk, new)
  BY DEF Repeats, Says
<1>4. \/ sock' = sock /\ \A h \in Hosts : InFlight(h)' \subseteq InFlight(h)
      \/ /\ sock'[k] = d.sk /\ \A r \in Sock : r # k => sock'[r] = sock[r]
         /\ \A h \in Hosts : \A m \in InFlight(h)' :
              \/ m \in InFlight(h)
              \/ /\ h = c /\ m.src = Server
                 /\ \/ m \in Packets(sock[k], Logged(sock[k]))
                    \/ m \in Packets(d.sk, new)
  BY <1>1, <1>2, <1>3, CommitWire
<1>5. CASE sock' = sock /\ \A h \in Hosts : InFlight(h)' \subseteq InFlight(h)
  BY <1>5, StreamStill
<1>6. CASE /\ sock'[k] = d.sk /\ \A r \in Sock : r # k => sock'[r] = sock[r]
           /\ \A h \in Hosts : \A m \in InFlight(h)' :
                \/ m \in InFlight(h)
                \/ /\ h = c /\ m.src = Server
                   /\ \/ m \in Packets(sock[k], Logged(sock[k]))
                      \/ m \in Packets(d.sk, new)
  <2>1. /\ UNCHANGED <<spc, csk, delivered, cpc, maxSend>>
        /\ UNCHANGED <<listenTable, establishedTable, synRcvdList, acceptList>>
    BY DEF tables, apps
  <2>2. \A g \in Clients : sock'[g] = sock[g]  BY <1>1, <1>6
  <2>3. \A g \in Clients : /\ Base(g)' = Base(g) /\ End(g)' = End(g) /\ End(g) \in Nat
                           /\ (Closing(g)' <=> Closing(g))
    BY <2>1, <2>2, StreamTypes DEF Base, End, FirstByte, Closing
  <2>4. Reading'
    <3>1. \A q \in establishedTable \cap Children :
            /\ sock'[q].peer = sock[q].peer /\ sock'[q].head = sock[q].head
            /\ sock[q].TCPState # "ESTABLISHED" => sock'[q].TCPState # "ESTABLISHED"
      <4> SUFFICES ASSUME NEW q \in establishedTable \cap Children
                   PROVE  /\ sock'[q].peer = sock[q].peer /\ sock'[q].head = sock[q].head
                          /\ sock[q].TCPState # "ESTABLISHED" =>
                               sock'[q].TCPState # "ESTABLISHED"
        OBVIOUS
      <4>1. CASE q = k  BY <1>2, <1>6, <4>1
      <4>2. CASE q # k
        <5>1. q \in Sock  BY SockCases
        <5> QED  BY <1>6, <4>2, <5>1
      <4> QED  BY <4>1, <4>2
    <3>2. \A g \in Clients : Peers(g) # {} => Base(g)' = Base(g) /\ End(g) <= End(g)'
      BY <2>3
    <3> QED  BY <2>1, <3>1, <3>2, ReadingKept DEF StreamInv
  <2>5. ASSUME Streams(c)
        PROVE  /\ Ring(c, k)'
               /\ sock[k].head <= sock'[k].head /\ sock[k].tail <= sock'[k].tail
    <3>1. /\ sock[k].head \in Nat /\ Base(c) \in Int /\ End(c) \in Nat
      BY <1>1, SockType, StreamTypes DEF tcp_sock
    <3> DEFINE after == d.sk  base == Base(c)  end == End(c)
    <3>2. /\ base \in Int /\ end \in Nat /\ end <= end /\ sk.head \in Nat
          /\ RingHolds(sk, c, base, end)
          /\ after.head = sk.head /\ after.tail = sk.tail /\ after.buf = sk.buf
      BY <1>2, <2>5, <3>1
    <3> HIDE DEF after, base, end
    <3>3. RingHolds(after, c, base, end)  BY <3>2, RingKept
    <3>4. RingHolds(sock'[k], c, Base(c)', End(c)')
      BY <1>6, <2>3, <3>3 DEF after, base, end
    <3>5. /\ sock'[k].TCPState = "ESTABLISHED" => sock'[k].rcv_nxt = sock'[k].tail
          /\ sock'[k].TCPState # "ESTABLISHED" => Closing(c)'
      BY <1>2, <1>6, <2>3, <2>5
    <3>6. sock[k].head <= sock'[k].head /\ sock[k].tail <= sock'[k].tail
      BY <1>2, <1>6, <2>5, <3>1
    <3> QED  BY <3>4, <3>5, <3>6 DEF Ring
  <2>6. Logged(sock'[k]) \subseteq Logged(sock[k]) \cup new  BY <1>3, <1>6
  <2>7. \A h \in Hosts : \A m \in InFlight(h)' :
          \/ m \in InFlight(h)
          \/ /\ h = c /\ m.src = Server
             /\ \/ m \in Packets(sock[k], Logged(sock[k]))
                \/ m \in Packets(sock'[k], new)
    BY <1>6
  <2>8. sock'[k].peer = sock[k].peer  BY <1>2, <1>6
  <2>9. \A r \in Sock : r # k => sock'[r] = sock[r]  BY <1>6
  <2>10. UNCHANGED <<tables, cpc, maxSend, spc>>  BY <2>1
  <2> QED  BY <2>4, <2>5, <2>6, <2>7, <2>8, <2>9, <2>10, ChildMoves
<1> QED  BY <1>4, <1>5, <1>6

\* What a step leaves of the ring when it does not touch its bytes
LEMMA RingUntouched ==
  ASSUME TypeOK, StreamInv, NEW c \in Clients, NEW k \in Peers(c), NEW sk,
         sk.head = sock[k].head, sk.tail = sock[k].tail, sk.buf = sock[k].buf,
         sk.TCPState = "ESTABLISHED" =>
           sock[k].TCPState = "ESTABLISHED" /\ sk.rcv_nxt = sock[k].rcv_nxt,
         sk.TCPState # "ESTABLISHED" => sock[k].TCPState # "ESTABLISHED" \/ Closing(c)
  PROVE  Streams(c) =>
           /\ RingHolds(sk, c, Base(c), End(c)) /\ sock[k].tail <= sk.tail
           /\ sk.TCPState = "ESTABLISHED" => sk.rcv_nxt = sk.tail
           /\ sk.TCPState # "ESTABLISHED" => Closing(c)
<1> SUFFICES ASSUME Streams(c)
             PROVE  /\ RingHolds(sk, c, Base(c), End(c)) /\ sock[k].tail <= sk.tail
                    /\ sk.TCPState = "ESTABLISHED" => sk.rcv_nxt = sk.tail
                    /\ sk.TCPState # "ESTABLISHED" => Closing(c)
  OBVIOUS
<1>1. Ring(c, k)  BY DEF StreamInv, ClientInv
<1>2. /\ sock[k].head \in Nat /\ sock[k].tail \in Nat /\ Base(c) \in Int /\ End(c) \in Nat
  BY SockCases, SockType, StreamTypes DEF Peers, tcp_sock
<1>3. RingHolds(sk, c, Base(c), End(c))
  <2> DEFINE before == sock[k]  base == Base(c)  end == End(c)
  <2>1. /\ base \in Int /\ end \in Nat /\ end <= end /\ before.head \in Nat
        /\ RingHolds(before, c, base, end)
        /\ sk.head = before.head /\ sk.tail = before.tail /\ sk.buf = before.buf
    BY <1>1, <1>2 DEF Ring
  <2> HIDE DEF before, base, end
  <2>2. RingHolds(sk, c, base, end)  BY <2>1, RingKept
  <2> QED  BY <2>2 DEF base, end
<1>4. sock[k].tail <= sk.tail  BY <1>2
<1> QED  BY <1>1, <1>3, <1>4 DEF Ring

\* A receive step on the child k that ends in context d
LEMMA ChildHandled ==
  ASSUME TypeOK, TypeOK', ChildrenApart, ConnInv, StreamInv,
         NEW i \in DOMAIN net[Server], NEW k \in establishedTable \cap Children,
         NEW c \in Clients, sock[k].peer = c,
         NEW d \in Context, NEW sk, NEW new,
         Says(Acked(Server, i, k), d, new), KeepsRest(sk, d.sk),
         sk.local = sock[k].local, sk.peer = sock[k].peer,
         Commit(k, d, Without(Server, i)), UNCHANGED <<tables, apps>>,
         \A e \in new : "ACK" \in e.flags,
         sk.head = sock[k].head,
         sock[k].TCPState # "ESTABLISHED" => sk.TCPState # "ESTABLISHED",
         Streams(c) =>
           /\ RingHolds(sk, c, Base(c), End(c)) /\ sock[k].tail <= sk.tail
           /\ sk.TCPState = "ESTABLISHED" => sk.rcv_nxt = sk.tail
           /\ sk.TCPState # "ESTABLISHED" => Closing(c)
  PROVE  StreamInv'
<1>1. k \in Sock /\ Server \in Hosts  BY SockCases
<1>2. /\ Without(Server, i) \in Wires
      /\ \A g \in Hosts : On(Without(Server, i), g) \subseteq InFlight(g)
  BY <1>1, WithoutType, WithoutOn
<1>3. Repeats(sock[k], Acked(Server, i, k))  BY <1>1, AckedRepeats
<1> QED  BY <1>2, <1>3, ChildCommit

\* The client whose segment a child takes
LEMMA ChildTakes ==
  ASSUME TypeOK, ConnInv, StreamInv, NEW h \in Hosts, NEW i \in DOMAIN net[h],
         NEW k \in Children, ToEstablished(h, i, k)
  PROVE  /\ h = Server /\ k \in establishedTable \cap Children /\ k \in Sock
         /\ net[h][i] \in Segment
         /\ sock[k].peer \in Clients /\ k \in Peers(sock[k].peer)
         /\ Carries(sock[k].peer, net[h][i])
<1>1. /\ k \in Sock /\ k \notin Clients  BY SockCases
<1>2. /\ h = Server /\ k \in establishedTable /\ sock[k].peer = net[h][i].src
      /\ net[h][i] \in InFlight(h) /\ net[h][i] \in Segment
  BY <1>1, Receiver
<1>3. sock[k].peer \in Clients  BY <1>2 DEF StreamInv, Listening
<1>4. k \in Peers(sock[k].peer)  BY <1>2 DEF Peers
<1>5. Sending(sock[k].peer)  BY <1>3 DEF StreamInv, ClientInv
<1>6. Carries(sock[k].peer, net[h][i])
  BY <1>2, <1>5 DEF Sending
<1> QED  BY <1>1, <1>2, <1>3, <1>4, <1>6

LEMMA ChildData ==
  ASSUME TypeOK, TypeOK', ChildrenApart, ConnInv, StreamInv,
         NEW h \in Hosts, NEW i \in DOMAIN net[h], NEW s \in Children, ReceiveData(h, i, s)
  PROVE  StreamInv'
<1> DEFINE b == Acked(h, i, s)
           p == net[h][i]
           d == handleSaveData(b, p)
           buf == writeToBuffer(b.sk, p)
           n == Contiguous(buf, b.sk.tail)
           sk == [b.sk EXCEPT !.buf = buf, !.snd_una = p.ack, !.tail = @ + n,
                              !.rcv_nxt = @ + n, !.rcv_wnd = p.rwnd]
           new == {Plain(b.sk, <<>>, {"ACK"})}
           c == sock[s].peer
<1>1. /\ ToEstablished(h, i, s) /\ Commit(s, d, Without(h, i)) /\ UNCHANGED <<tables, apps>>
      /\ sock[s].TCPState = "ESTABLISHED"
  BY DEF ReceiveData, Handle
<1>2. /\ h = Server /\ s \in establishedTable \cap Children /\ s \in Sock
      /\ p \in Segment /\ c \in Clients /\ s \in Peers(c) /\ Carries(c, p)
  BY <1>1, ChildTakes
<1>3. b \in Context /\ b.sk \in tcp_sock /\ KeepsRest(sock[s], b.sk)
  BY <1>2, AckedFields
<1> HIDE DEF b, p
<1>4. d \in Context /\ Says(b, d, new) /\ KeepsRest(sk, d.sk)
  BY <1>2, <1>3, handleSaveDataType, handleSaveDataSays
<1>5. n \in Nat  BY ContiguousType
<1> HIDE DEF n
<1>6. /\ sk.local = sock[s].local /\ sk.peer = sock[s].peer
      /\ sk.TCPState = "ESTABLISHED" /\ sk.head = sock[s].head
      /\ sk.buf = buf /\ sk.tail = b.sk.tail + n /\ sk.rcv_nxt = b.sk.rcv_nxt + n
      /\ sk.head = b.sk.head /\ b.sk.tail = sock[s].tail /\ b.sk.rcv_nxt = sock[s].rcv_nxt
      /\ b.sk.buf = sock[s].buf
  BY <1>1, <1>3 DEF KeepsRest, tcp_sock
<1> HIDE DEF sk
<1>7. ASSUME Streams(c)
      PROVE  /\ RingHolds(sk, c, Base(c), End(c)) /\ sock[s].tail <= sk.tail
             /\ sk.rcv_nxt = sk.tail
  <2>1. Ring(c, s) /\ ClientInv(c)  BY <1>2, <1>7 DEF StreamInv, ClientInv
  <2>2. End(c) <= sock[s].head + RINGBUFFER_SIZE  BY <1>2, <1>7, <2>1, RoomFor
  <2>3. Base(c) \in Int /\ End(c) \in Nat /\ sock[s].head \in Nat
    BY <1>2, SockType, StreamTypes DEF tcp_sock
  <2> DEFINE r == b.sk  base == Base(c)  end == End(c)  g == c  before == sock[s]
  <2>4. RingHolds(r, g, base, end)
    <3>1. /\ base \in Int /\ end \in Nat /\ end <= end /\ before.head \in Nat
          /\ RingHolds(before, g, base, end)
          /\ r.head = before.head /\ r.tail = before.tail /\ r.buf = before.buf
      BY <1>6, <2>1, <2>3 DEF Ring
    <3> HIDE DEF before, base, end, g, r
    <3> QED  BY <3>1, RingKept
  <2>5. /\ r \in tcp_sock /\ base \in Int /\ end \in Nat /\ Carried(p, g, base, end)
        /\ end <= r.head + RINGBUFFER_SIZE /\ p \in Segment
        /\ sk.head = r.head /\ sk.buf = writeToBuffer(r, p)
        /\ sk.tail = r.tail + Contiguous(writeToBuffer(r, p), r.tail)
    BY <1>2, <1>3, <1>6, <2>2, <2>3 DEF Carries, n
  <2> HIDE DEF r, base, end, g
  <2>6. RingHolds(sk, g, base, end) /\ r.tail <= sk.tail  BY <2>4, <2>5, RingSaved
  <2>7. sk.rcv_nxt = sk.tail  BY <1>1, <1>6, <2>1 DEF Ring
  <2> QED  BY <1>6, <2>6, <2>7 DEF r, base, end, g
<1>8. \A e \in new : "ACK" \in e.flags
  BY PlainFlags
<1> HIDE DEF d, new, c
<1> QED  BY <1>1, <1>2, <1>4, <1>6, <1>7, <1>8, ChildHandled DEF b, c

LEMMA ChildFIN1 ==
  ASSUME TypeOK, TypeOK', ChildrenApart, ConnInv, StreamInv,
         NEW h \in Hosts, NEW i \in DOMAIN net[h], NEW s \in Children, ReceiveFIN1(h, i, s)
  PROVE  StreamInv'
<1> DEFINE b == Acked(h, i, s)
           p == net[h][i]
           d == handleFIN1(b, p)
           sk == [b.sk EXCEPT !.TCPState = "LAST_ACK", !.snd_una = p.ack,
                              !.rcv_nxt = p.seq + 1, !.snd_nxt = @ + 1]
           new == {Plain(b.sk, <<>>, {"FIN", "ACK"})}
           c == sock[s].peer
<1>1. /\ ToEstablished(h, i, s) /\ "FIN" \in p.flags
      /\ Commit(s, d, Without(h, i)) /\ UNCHANGED <<tables, apps>>
  BY DEF ReceiveFIN1, Handle
<1>2. /\ h = Server /\ s \in establishedTable \cap Children /\ s \in Sock
      /\ p \in Segment /\ c \in Clients /\ s \in Peers(c)
  BY <1>1, ChildTakes
<1>3. Closing(c)  BY <1>1, <1>2, NoEarlyFin
<1>4. b \in Context /\ b.sk \in tcp_sock /\ KeepsRest(sock[s], b.sk)
  BY <1>2, AckedFields
<1> HIDE DEF b, p
<1>5. d \in Context /\ Says(b, d, new) /\ KeepsRest(sk, d.sk)
  BY <1>2, <1>4, handleFIN1Type, handleFIN1Says
<1>6. /\ sk.local = sock[s].local /\ sk.peer = sock[s].peer /\ sk.TCPState = "LAST_ACK"
      /\ sk.head = sock[s].head /\ sk.tail = sock[s].tail /\ sk.buf = sock[s].buf
  BY <1>4 DEF KeepsRest, tcp_sock
<1>7. \A e \in new : "ACK" \in e.flags  BY PlainFlags
<1> HIDE DEF d, sk, new, c
<1>8. Streams(c) =>
           /\ RingHolds(sk, c, Base(c), End(c)) /\ sock[s].tail <= sk.tail
           /\ sk.TCPState = "ESTABLISHED" => sk.rcv_nxt = sk.tail
           /\ sk.TCPState # "ESTABLISHED" => Closing(c)
  BY <1>2, <1>3, <1>6, RingUntouched
<1>9. Says(Acked(Server, i, s), d, new) /\ Commit(s, d, Without(Server, i))
  BY <1>1, <1>2, <1>5 DEF b
<1> QED  BY <1>1, <1>2, <1>5, <1>6, <1>7, <1>8, <1>9, ChildHandled DEF c

LEMMA ChildFIN4 ==
  ASSUME TypeOK, TypeOK', ChildrenApart, ConnInv, StreamInv,
         NEW h \in Hosts, NEW i \in DOMAIN net[h], NEW s \in Children, ReceiveFIN4(h, i, s)
  PROVE  StreamInv'
<1> DEFINE b == Acked(h, i, s)
           p == net[h][i]
           d == handleFIN4(b, p)
           sk == [b.sk EXCEPT !.TCPState = "CLOSED"]
           c == sock[s].peer
<1>1. /\ ToEstablished(h, i, s) /\ sock[s].TCPState = "LAST_ACK"
      /\ Commit(s, d, Without(h, i)) /\ UNCHANGED <<tables, apps>>
  BY DEF ReceiveFIN4, Handle
<1>2. /\ h = Server /\ s \in establishedTable \cap Children /\ s \in Sock
      /\ p \in Segment /\ c \in Clients /\ s \in Peers(c)
  BY <1>1, ChildTakes
<1>4. b \in Context /\ b.sk \in tcp_sock /\ KeepsRest(sock[s], b.sk)
  BY <1>2, AckedFields
<1> HIDE DEF b, p
<1>5. d \in Context /\ Says(b, d, {}) /\ KeepsRest(sk, d.sk)
  BY <1>2, <1>4, handleFIN4Type, SilentHandlers
<1>6. /\ sk.local = sock[s].local /\ sk.peer = sock[s].peer /\ sk.TCPState = "CLOSED"
      /\ sk.head = sock[s].head /\ sk.tail = sock[s].tail /\ sk.buf = sock[s].buf
  BY <1>4 DEF KeepsRest, tcp_sock
<1> HIDE DEF d, sk, c
<1>8. Streams(c) =>
           /\ RingHolds(sk, c, Base(c), End(c)) /\ sock[s].tail <= sk.tail
           /\ sk.TCPState = "ESTABLISHED" => sk.rcv_nxt = sk.tail
           /\ sk.TCPState # "ESTABLISHED" => Closing(c)
  BY <1>1, <1>2, <1>6, RingUntouched
<1>9. Says(Acked(Server, i, s), d, {}) /\ Commit(s, d, Without(Server, i))
  BY <1>1, <1>2, <1>5 DEF b
<1> QED  BY <1>1, <1>2, <1>5, <1>6, <1>8, <1>9, ChildHandled DEF c

LEMMA ChildIgnore ==
  ASSUME TypeOK, TypeOK', ChildrenApart, ConnInv, StreamInv,
         NEW h \in Hosts, NEW i \in DOMAIN net[h], NEW s \in Children,
         ReceiveOnlyAck(h, i, s)
  PROVE  StreamInv'
<1> DEFINE b == Acked(h, i, s)
           p == net[h][i]
           d == Ignore(b, p)
           sk == b.sk
           c == sock[s].peer
<1>1. /\ ToEstablished(h, i, s) /\ Commit(s, d, Without(h, i)) /\ UNCHANGED <<tables, apps>>
  BY DEF ReceiveOnlyAck, Handle
<1>2. /\ h = Server /\ s \in establishedTable \cap Children /\ s \in Sock
      /\ p \in Segment /\ c \in Clients /\ s \in Peers(c)
  BY <1>1, ChildTakes
<1>4. b \in Context /\ b.sk \in tcp_sock /\ KeepsRest(sock[s], b.sk)
  BY <1>2, AckedFields
<1> HIDE DEF b, p
<1>5. d \in Context /\ Says(b, d, {}) /\ KeepsRest(sk, d.sk)
  BY <1>2, <1>4, SilentHandlers DEF Ignore
<1>6. /\ sk.local = sock[s].local /\ sk.peer = sock[s].peer
      /\ sk.TCPState = sock[s].TCPState /\ sk.rcv_nxt = sock[s].rcv_nxt
      /\ sk.head = sock[s].head /\ sk.tail = sock[s].tail /\ sk.buf = sock[s].buf
  BY <1>4 DEF KeepsRest
<1> HIDE DEF d, sk, c
<1>8. Streams(c) =>
           /\ RingHolds(sk, c, Base(c), End(c)) /\ sock[s].tail <= sk.tail
           /\ sk.TCPState = "ESTABLISHED" => sk.rcv_nxt = sk.tail
           /\ sk.TCPState # "ESTABLISHED" => Closing(c)
  BY <1>2, <1>6, RingUntouched
<1>9. Says(Acked(Server, i, s), d, {}) /\ Commit(s, d, Without(Server, i))
  BY <1>1, <1>2, <1>5 DEF b
<1> QED  BY <1>1, <1>2, <1>5, <1>6, <1>8, <1>9, ChildHandled DEF c

LEMMA ChildAckTimeOut ==
  ASSUME TypeOK, TypeOK', ChildrenApart, ConnInv, StreamInv,
         NEW s \in Children, AckTimeOut(s)
  PROVE  StreamInv'
<1> DEFINE b == Enter(sock[s])
           d == HandleTimeOut(b)
           sk == sock[s]
           c == sock[s].peer
<1>0. s \in Sock /\ s \notin Hosts  BY SockCases
<1>1. /\ Commit(s, d, net) /\ UNCHANGED <<tables, apps>>
      /\ s \in establishedTable \cap Children
  BY <1>0 DEF AckTimeOut, TypeOK
<1>2. c \in Clients /\ s \in Peers(c)
  BY <1>1 DEF StreamInv, Listening, Peers
<1>3. b \in Context /\ b.sk = sock[s] /\ b.tx = <<>> /\ sock[s] \in tcp_sock
  BY <1>0, SockType DEF Enter
<1> HIDE DEF b
<1>4. Repeats(sock[s], d) /\ d \in Context
  BY <1>3, HandleTimeOutType, HandleTimeOutRepeats
<1> HIDE DEF d
<1>5. Says(d, d, {}) /\ KeepsRest(sk, d.sk)  BY <1>4, SaysNothing DEF Repeats
<1>6. net \in Wires /\ \A g \in Hosts : On(net, g) \subseteq InFlight(g)
  BY WiresType DEF InFlight
<1>7. Streams(c) =>
           /\ RingHolds(sk, c, Base(c), End(c)) /\ sock[s].tail <= sk.tail
           /\ sk.TCPState = "ESTABLISHED" => sk.rcv_nxt = sk.tail
           /\ sk.TCPState # "ESTABLISHED" => Closing(c)
  BY <1>2, RingUntouched
<1>8. sk.local = sock[s].local /\ sk.peer = sock[s].peer /\ sk.TCPState = sock[s].TCPState
      /\ sk.head = sock[s].head
  OBVIOUS
<1> HIDE DEF sk, c
<1> QED  BY <1>1, <1>2, <1>4, <1>5, <1>6, <1>7, <1>8, ChildCommit DEF c

\* What tcp_sock_read returns of the ring
LEMMA UnreadAre ==
  ASSUME NEW sk \in tcp_sock, NEW c, NEW base \in Int, NEW end \in Nat,
         RingHolds(sk, c, base, end), sk.tail <= sk.head + RINGBUFFER_SIZE
  PROVE  /\ Unread(sk) \in Nat /\ Len(UnreadBytes(sk)) = Unread(sk)
         /\ \A i \in 1 .. Unread(sk) :
              /\ base <= sk.head + i - 1 /\ sk.head + i - 1 < end
              /\ UnreadBytes(sk)[i] = <<c, sk.head + i - base>>
<1>1. sk.head \in Nat /\ sk.tail \in Nat /\ sk.head <= sk.tail
  BY DEF tcp_sock, RingHolds
<1>2. Unread(sk) \in Nat /\ sk.head + Unread(sk) = sk.tail  BY <1>1 DEF Unread
<1>3. Len(UnreadBytes(sk)) = Unread(sk)  BY <1>2 DEF UnreadBytes
<1>4. ASSUME NEW i \in 1 .. Unread(sk)
      PROVE  /\ base <= sk.head + i - 1 /\ sk.head + i - 1 < end
             /\ UnreadBytes(sk)[i] = <<c, sk.head + i - base>>
  <2> DEFINE n == sk.head + i - 1
  <2>1. /\ n \in sk.head .. sk.head + RINGBUFFER_SIZE - 1 /\ n < sk.tail
        /\ n - base + 1 = sk.head + i - base
    BY <1>1, <1>2, RingSize, SMTT(25)
  <2>2. UnreadBytes(sk)[i] = sk.buf[n % RINGBUFFER_SIZE]  BY DEF UnreadBytes
  <2> HIDE DEF n
  <2>3. /\ base <= n /\ n < end
        /\ sk.buf[n % RINGBUFFER_SIZE] = <<c, n - base + 1>>
    BY <2>1 DEF RingHolds
  <2>4. UnreadBytes(sk)[i] = <<c, sk.head + i - base>>  BY <2>1, <2>2, <2>3
  <2> QED  BY <2>3, <2>4 DEF n
<1> QED  BY <1>2, <1>3, <1>4

\* The bytes of one file in order
InOrder(bytes) ==
  \A i \in 1 .. Len(bytes) - 1 :
    \E c \in Clients, n \in 1 .. FileLen - 1 :
      bytes[i] = <<c, n>> /\ bytes[i + 1] = <<c, n + 1>>

\* Where two neighbours of a concatenation lie: in the first part, on the
\* seam, or in the second part
LEMMA Neighbours ==
  ASSUME NEW l \in Nat, NEW m \in Nat, NEW i \in 1 .. l + m - 1
  PROVE  /\ i \in 1 .. l + m /\ i + 1 \in 1 .. l + m
         /\ \/ i <= l /\ i + 1 <= l /\ i \in 1 .. l - 1
            \/ i = l /\ l > 0 /\ ~(i + 1 <= l) /\ (i + 1) - l = 1 /\ 1 \in 1 .. m
            \/ /\ ~(i <= l) /\ ~(i + 1 <= l) /\ (i + 1) - l = (i - l) + 1
               /\ i - l \in 1 .. m /\ (i - l) + 1 \in 1 .. m
  OBVIOUS

\* What is read next continues what was read before.
LEMMA OrderKept ==
  ASSUME NEW B, NEW old \in Seq(B), NEW more \in Seq(B), NEW c \in Clients,
         NEW head \in Nat, NEW base \in Int, NEW end \in Nat, end <= base + FileLen,
         InOrder(old),
         old # <<>> => base <= head - 1 /\ old[Len(old)] = <<c, head - base>>,
         \A i \in 1 .. Len(more) :
           /\ base <= head + i - 1 /\ head + i - 1 < end
           /\ more[i] = <<c, head + i - base>>
  PROVE  InOrder(old \o more)
<1> DEFINE all == old \o more  l == Len(old)  m == Len(more)
<1>1. /\ l \in Nat /\ m \in Nat /\ Len(all) = l + m
      /\ \A i \in 1 .. l + m : all[i] = IF i <= l THEN old[i] ELSE more[i - l]
  BY ConcatProperties
<1>2. FileLen \in Nat  BY ProtocolAssumption
<1>3. l > 0 => old # <<>>  OBVIOUS
<1>4. \A i \in 1 .. l - 1 : \E g \in Clients, n \in 1 .. FileLen - 1 :
        old[i] = <<g, n>> /\ old[i + 1] = <<g, n + 1>>
  BY DEF InOrder
<1>5. old # <<>> => base <= head - 1 /\ old[l] = <<c, head - base>>
  OBVIOUS
<1>6. \A i \in 1 .. m : /\ base <= head + i - 1 /\ head + i - 1 < end
                        /\ more[i] = <<c, head + i - base>>
  OBVIOUS
<1> HIDE DEF all, l, m
<1>7. ASSUME NEW i \in 1 .. l + m - 1
      PROVE  \E g \in Clients, n \in 1 .. FileLen - 1 :
               all[i] = <<g, n>> /\ all[i + 1] = <<g, n + 1>>
  <2>1. i \in 1 .. l + m /\ i + 1 \in 1 .. l + m
    BY <1>1, Neighbours
  <2>2. CASE i <= l /\ i + 1 <= l /\ i \in 1 .. l - 1
    <3>1. all[i] = old[i] /\ all[i + 1] = old[i + 1]  BY <1>1, <2>1, <2>2
    <3> QED  BY <1>4, <2>2, <3>1
  <2>3. CASE i = l /\ l > 0 /\ ~(i + 1 <= l) /\ (i + 1) - l = 1 /\ 1 \in 1 .. m
    <3>1. all[i] = old[l] /\ all[i + 1] = more[1]
      <4>1. l <= l  BY <1>1
      <4>2. all[i] = old[i] /\ all[i + 1] = more[(i + 1) - l]  BY <1>1, <2>1, <2>3, <4>1
      <4> QED  BY <2>3, <4>2
    <3>2. /\ all[i] = <<c, head - base>> /\ base <= head - 1
          /\ all[i + 1] = <<c, head + 1 - base>> /\ head + 1 - 1 < end
      BY <1>3, <1>5, <1>6, <2>3, <3>1
    <3>3. head - base \in 1 .. FileLen - 1 /\ head + 1 - base = (head - base) + 1
      BY <1>2, <3>2
    <3> QED  BY <3>2, <3>3
  <2>4. CASE /\ ~(i <= l) /\ ~(i + 1 <= l) /\ (i + 1) - l = (i - l) + 1
             /\ i - l \in 1 .. m /\ (i - l) + 1 \in 1 .. m
    <3>1. PICK j \in 1 .. m : j = i - l  BY <2>4
    <3>2. all[i] = more[j] /\ all[i + 1] = more[j + 1]
      <4>1. all[i] = more[i - l] /\ all[i + 1] = more[(i + 1) - l]  BY <1>1, <2>1, <2>4
      <4> QED  BY <2>4, <3>1, <4>1
    <3>3. j \in 1 .. m /\ j + 1 \in 1 .. m  BY <2>4, <3>1
    <3>4. /\ base <= head + j - 1 /\ head + (j + 1) - 1 < end
          /\ more[j] = <<c, head + j - base>> /\ more[j + 1] = <<c, head + (j + 1) - base>>
      BY <1>6, <3>3
    <3>5. /\ head + j - base \in 1 .. FileLen - 1
          /\ head + (j + 1) - base = (head + j - base) + 1
      <4>1. j \in Int /\ base <= head + j - 1 /\ head + (j + 1) - 1 < end
        BY <3>3, <3>4
      <4> QED  BY <1>2, <4>1
    <3> QED  BY <3>2, <3>4, <3>5
  <2> QED
    <3>1. l \in Nat /\ m \in Nat  BY <1>1
    <3>2. \/ i <= l /\ i + 1 <= l /\ i \in 1 .. l - 1
          \/ i = l /\ l > 0 /\ ~(i + 1 <= l) /\ (i + 1) - l = 1 /\ 1 \in 1 .. m
          \/ /\ ~(i <= l) /\ ~(i + 1 <= l) /\ (i + 1) - l = (i - l) + 1
             /\ i - l \in 1 .. m /\ (i - l) + 1 \in 1 .. m
      BY <3>1, Neighbours
    <3> QED  BY <2>2, <2>3, <2>4, <3>2
<1>8. Len(all) - 1 = l + m - 1  BY <1>1
<1> QED  BY <1>7, <1>8 DEF InOrder, all

LEMMA LastOfBoth ==
  ASSUME NEW B, NEW old \in Seq(B), NEW more \in Seq(B), Len(more) > 0
  PROVE  (old \o more)[Len(old \o more)] = more[Len(more)]
<1> DEFINE l == Len(old)  m == Len(more)
<1>1. /\ l \in Nat /\ m \in Nat /\ m > 0 /\ Len(old \o more) = l + m
      /\ \A i \in 1 .. l + m : (old \o more)[i] = IF i <= l THEN old[i] ELSE more[i - l]
  BY ConcatProperties
<1> HIDE DEF l, m
<1>2. l + m \in 1 .. l + m /\ ~(l + m <= l) /\ (l + m) - l = m  BY <1>1
<1> QED  BY <1>1, <1>2 DEF l, m

\* The last byte that a client can have sent
LEMMA WithinFile ==
  ASSUME TypeOK, ConnInv, StreamInv, NEW c \in Clients
  PROVE  End(c) <= Base(c) + FileLen
<1>1. /\ sock[c].snd_nxt \in Nat /\ maxSend[c] \in Nat /\ FileLen \in Nat
      /\ cpc[c] \in {"start", "connect", "connected", "write", "sleep", "close", "done"}
  BY StreamTypes, ProtocolAssumption DEF TypeOK
<1>2. /\ cpc[c] = "write" => sock[c].snd_nxt <= maxSend[c]
      /\ cpc[c] = "sleep" => sock[c].snd_nxt = maxSend[c]
  BY DEF ConnInv, Lives, ClientLife, StreamInv, ClientInv, Sending
<1> QED  BY <1>1, <1>2 DEF End, Base, FirstByte, Closing

LEMMA ReadOk ==
  ASSUME NEW c \in Context
  PROVE  Read(c).ok <=> c.ok /\ Unread(c.sk) < RINGBUFFER_SIZE
  BY DEF Read, sendAndLogPacket, Context

\* The application takes what the ring of its child holds.
LEMMA ChildRead ==
  ASSUME TypeOK, TypeOK', ChildrenApart, ConnInv, StreamInv, ServerRead,
         NEW k \in Children, k = csk, NEW c \in Clients, c = sock[k].peer
  PROVE  StreamInv'
<1> DEFINE before == sock[k]
           d == Read(Enter(before))
           sk == [before EXCEPT !.buf = Emptied(before), !.head = before.tail]
           new == {Plain(before, <<>>, {"ACK"})}
<1>1. /\ spc = "read" /\ Unread(before) > 0 /\ Commit(k, d, net)
      /\ delivered' = delivered \o UnreadBytes(before)
      /\ UNCHANGED <<tables, cpc, maxSend, spc, csk>>
  BY DEF ServerRead, TypeOK
<1>2. /\ k \in establishedTable \cap Children /\ k \in Sock /\ before \in tcp_sock
      /\ k \in Peers(c) /\ before.peer = c /\ Streams(c) /\ c \in Hosts
      /\ before.local = Server
  <2>1. k \in establishedTable \cap Children  BY <1>1 DEF StreamInv, Reading
  <2>2. k \in Sock /\ before \in tcp_sock /\ before.local = Server
    BY <1>1, SockCases, SockType DEF ConnInv, Homes
  <2>3. c \in Hosts  BY SockCases
  <2> QED  BY <1>1, <2>1, <2>2, <2>3 DEF Peers, Streams
<1>3. /\ Enter(before) \in Context /\ Enter(before).sk = before /\ Enter(before).ok
      /\ Enter(before).tx = <<>>
  BY <1>2 DEF Enter, Context
<1>4. /\ d \in Context /\ Says(Enter(before), d, new) /\ KeepsRest(sk, d.sk)
      /\ (d.ok <=> Unread(before) < RINGBUFFER_SIZE)
  BY <1>3, ReadType, ReadSays, ReadOk
<1>5. /\ sk.local = before.local /\ sk.peer = before.peer /\ sk.TCPState = before.TCPState
      /\ sk.head = before.tail /\ sk.tail = before.tail /\ sk.buf = Emptied(before)
      /\ sk.rcv_nxt = before.rcv_nxt
  BY <1>2 DEF tcp_sock
<1>6. /\ ClientInv(c) /\ Ring(c, k)
      /\ RingHolds(before, c, Base(c), End(c))
      /\ before.tail <= before.head + Window
      /\ Base(c) \in Int /\ End(c) \in Nat
      /\ before.head \in Nat /\ before.tail \in Nat
  <2>1. ClientInv(c) /\ Ring(c, k)  BY <1>2 DEF StreamInv, ClientInv
  <2>2. before.tail <= before.head + Window  BY <1>2, <2>1, RoomFor
  <2> QED  BY <1>2, <2>1, <2>2, StreamTypes DEF Ring, tcp_sock
<1>7. before.tail <= before.head + RINGBUFFER_SIZE /\ d.ok /\ before.tail # before.head
  <2>1. Window < RINGBUFFER_SIZE /\ Window \in Nat  BY WindowSize
  <2>2. Unread(before) < RINGBUFFER_SIZE /\ before.tail <= before.head + RINGBUFFER_SIZE
        /\ before.tail # before.head
    BY <1>1, <1>6, <2>1, RingSize, SMTT(25) DEF Unread
  <2> QED  BY <1>4, <2>2
<1> HIDE DEF d, sk, new
<1>8. /\ d.sk.local = Server /\ d.sk.peer = c /\ d.sk.TCPState = before.TCPState
      /\ d.sk.head = before.tail /\ d.sk.tail = before.tail /\ d.sk.buf = Emptied(before)
      /\ d.sk.rcv_nxt = before.rcv_nxt
  BY <1>2, <1>4, <1>5 DEF KeepsRest
<1>9. Said(d) \subseteq Packets(before, Logged(before)) \cup Packets(d.sk, new)
      /\ Logged(d.sk) \subseteq Logged(before) \cup new
  BY <1>3, <1>4 DEF Says, Said
<1>10. sock'[k] = d.sk
  BY <1>1, <1>2, <1>7 DEF Commit, TypeOK
<1>11. /\ \A r \in Sock : r # k => sock'[r] = sock[r]
       /\ \A h \in Hosts : \A m \in InFlight(h)' :
            \/ m \in InFlight(h)
            \/ /\ h = c /\ m.src = Server
               /\ m \in Packets(before, Logged(before)) \/ m \in Packets(sock'[k], new)
  <2>1. net \in Wires /\ \A g \in Hosts : On(net, g) \subseteq InFlight(g)
    BY WiresType DEF InFlight
  <2>2. sock' # sock  BY <1>7, <1>8, <1>10
  <2>3. d.sk.local = sock[k].local /\ d.sk.peer = sock[k].peer
        /\ Said(d) \subseteq Packets(sock[k], Logged(sock[k])) \cup Packets(d.sk, new)
    BY <1>2, <1>8, <1>9
  <2>4. /\ \A r \in Sock : r # k => sock'[r] = sock[r]
        /\ \A h \in Hosts : \A m \in InFlight(h)' :
             \/ m \in InFlight(h)
             \/ /\ h = sock[k].peer /\ m.src = sock[k].local
                /\ \/ m \in Packets(sock[k], Logged(sock[k]))
                   \/ m \in Packets(d.sk, new)
    <3>1. Commit(k, d, net) /\ k \in Sock /\ d \in Context  BY <1>1, <1>2, <1>4
    <3> HIDE DEF before
    <3> QED  BY <2>1, <2>2, <2>3, <3>1, CommitWire
  <2> QED  BY <1>2, <1>10, <2>4
<1>12. \A g \in Clients : sock'[g] = sock[g]
  <2>1. \A g \in Clients : g \in Sock /\ g # k  BY <1>1, SockCases
  <2> QED  BY <1>11, <2>1
<1>13. /\ \A g \in Clients : Base(g)' = Base(g) /\ End(g)' = End(g)
                             /\ (Closing(g)' <=> Closing(g))
       /\ UNCHANGED <<listenTable, establishedTable, synRcvdList, acceptList>>
  BY <1>1, <1>12 DEF Base, End, FirstByte, Closing, tables
<1>14. /\ Ring(c, k)' /\ sock[k].head <= sock'[k].head /\ sock[k].tail <= sock'[k].tail
  <2> DEFINE after == d.sk  base == Base(c)  end == End(c)  g == c
  <2>1. /\ before \in tcp_sock /\ base \in Int /\ end \in Nat /\ RingHolds(before, g, base, end)
        /\ before.tail <= before.head + RINGBUFFER_SIZE
        /\ after.head = before.tail /\ after.tail = before.tail /\ after.buf = Emptied(before)
    BY <1>2, <1>6, <1>7, <1>8
  <2> HIDE DEF before, after, base, end, g
  <2>2. RingHolds(after, g, base, end) /\ before.head <= after.head  BY <2>1, RingRead
  <2>3. RingHolds(sock'[k], c, Base(c)', End(c)')
    BY <1>2, <1>10, <1>13, <2>2 DEF after, base, end, g
  <2>4. /\ sock'[k].TCPState = "ESTABLISHED" => sock'[k].rcv_nxt = sock'[k].tail
        /\ sock'[k].TCPState # "ESTABLISHED" => Closing(c)'
    BY <1>2, <1>6, <1>8, <1>10, <1>13 DEF Ring, before
  <2>5. sock[k].head <= sock'[k].head /\ sock[k].tail <= sock'[k].tail
    BY <1>6, <1>8, <1>10, <2>2 DEF before, after
  <2> QED  BY <2>3, <2>4, <2>5 DEF Ring
<1>15. Reading'
  <2> DEFINE more == UnreadBytes(before)  n == Unread(before)
  <2>1. /\ n \in Nat /\ n > 0 /\ Len(more) = n /\ more \in Seq(Byte \cup {NoByte})
        /\ \A i \in 1 .. n :
             /\ Base(c) <= before.head + i - 1 /\ before.head + i - 1 < End(c)
             /\ more[i] = <<c, before.head + i - Base(c)>>
    <3> DEFINE b == before  base == Base(c)  end == End(c)  g == c
    <3>1. /\ b \in tcp_sock /\ base \in Int /\ end \in Nat /\ RingHolds(b, g, base, end)
          /\ b.tail <= b.head + RINGBUFFER_SIZE /\ Unread(b) > 0
      BY <1>1, <1>2, <1>6, <1>7
    <3> HIDE DEF b, base, end, g
    <3>2. /\ Unread(b) \in Nat /\ Len(UnreadBytes(b)) = Unread(b)
          /\ UnreadBytes(b) \in Seq(Byte \cup {NoByte})
          /\ \A i \in 1 .. Unread(b) :
               /\ base <= b.head + i - 1 /\ b.head + i - 1 < end
               /\ UnreadBytes(b)[i] = <<g, b.head + i - base>>
      BY <3>1, UnreadAre, UnreadBytesType
    <3> QED  BY <3>1, <3>2 DEF b, base, end, g
  <2>2. delivered \in Seq(Byte \cup {NoByte}) /\ InOrder(delivered)
    BY DEF TypeOK, StreamInv, Reading, DeliveredInOrder, InOrder
  <2>3. delivered # <<>> =>
          /\ Base(c) <= before.head - 1
          /\ delivered[Len(delivered)] = <<c, before.head - Base(c)>>
    BY <1>1, <1>2 DEF StreamInv, Reading
  <2>4. End(c) <= Base(c) + FileLen  BY <1>2, WithinFile
  <2> HIDE DEF more, n
  <2>5. InOrder(delivered \o more)
    <3> DEFINE base == Base(c)  end == End(c)  head == before.head  g == c  old == delivered
    <3>1. /\ old \in Seq(Byte \cup {NoByte}) /\ InOrder(old) /\ g \in Clients
          /\ head \in Nat /\ base \in Int /\ end \in Nat /\ end <= base + FileLen
          /\ old # <<>> => base <= head - 1 /\ old[Len(old)] = <<g, head - base>>
          /\ more \in Seq(Byte \cup {NoByte})
          /\ \A i \in 1 .. Len(more) :
               /\ base <= head + i - 1 /\ head + i - 1 < end
               /\ more[i] = <<g, head + i - base>>
      BY <1>2, <1>6, <2>1, <2>2, <2>3, <2>4
    <3> HIDE DEF base, end, head, g, old
    <3>2. InOrder(old \o more)  BY <3>1, OrderKept
    <3> QED  BY <3>2 DEF old
  <2>6. DeliveredInOrder'
    <3>1. delivered' = delivered \o more  BY <1>1 DEF more
    <3> QED  BY <2>5, <3>1 DEF InOrder, DeliveredInOrder
  <2>7. /\ Base(c)' <= sock'[k].head - 1 /\ sock'[k].head - 1 < End(c)'
        /\ delivered'[Len(delivered')] = <<c, sock'[k].head - Base(c)'>>
    <3>1. /\ before.head + n = before.tail  BY <1>6 DEF n, Unread
    <3>2. /\ Base(c) <= before.head + n - 1 /\ before.head + n - 1 < End(c)
          /\ more[n] = <<c, before.head + n - Base(c)>>
      BY <2>1
    <3>3. delivered'[Len(delivered')] = more[n]
      <4>1. delivered' = delivered \o more /\ Len(more) = n /\ n > 0
        BY <1>1, <2>1 DEF more
      <4> DEFINE old == delivered  B == Byte \cup {NoByte}
      <4>2. old \in Seq(B) /\ more \in Seq(B) /\ Len(more) > 0  BY <2>1, <2>2
      <4> HIDE DEF old, B
      <4>3. (old \o more)[Len(old \o more)] = more[Len(more)]  BY <4>2, LastOfBoth
      <4> QED  BY <4>1, <4>3 DEF old
    <3>4. sock'[k].head = before.head + n  BY <1>8, <1>10, <3>1
    <3>5. Base(c)' = Base(c) /\ End(c)' = End(c)  BY <1>13
    <3> DEFINE base == Base(c)  end == End(c)  m == before.head + n  last == delivered'[Len(delivered')]
               base1 == Base(c)'  end1 == End(c)'  head == sock'[k].head
    <3>6. /\ base <= m - 1 /\ m - 1 < end /\ head = m /\ base1 = base /\ end1 = end
          /\ last = <<c, m - base>>
      <4>1. base <= m - 1 /\ m - 1 < end  BY <1>6, <2>1, <3>2, SMTT(25)
      <4>2. before.head + n - base = m - base  BY <1>6, <2>1
      <4>3. more[n] = <<c, m - base>>  BY <3>2, <4>2
      <4>4. last = more[n]  BY <3>3
      <4>5. head = m  BY <3>4
      <4>6. base1 = base /\ end1 = end  BY <3>5
      <4> HIDE DEF base, end, m, last, base1, end1, head
      <4> QED  BY <4>1, <4>3, <4>4, <4>5, <4>6
    <3> HIDE DEF base, end, m, last, base1, end1, head
    <3>7. base1 <= head - 1 /\ head - 1 < end1 /\ last = <<c, head - base1>>  BY <3>6
    <3> QED  BY <3>7 DEF base1, end1, head, last
  <2>8. sock'[k].peer = c /\ csk' = k /\ spc' = "read"  BY <1>1, <1>8, <1>10
  <2>9. acceptList \subseteq Children /\ (spc # "done" => acceptList \subseteq establishedTable)
    BY DEF StreamInv, Reading
  <2> HIDE DEF before
  <2> QED  BY <1>1, <1>2, <1>13, <2>6, <2>7, <2>8, <2>9 DEF Reading
<1>16. \A e \in new : "ACK" \in e.flags  BY PlainFlags DEF new
<1>17. Logged(sock'[k]) \subseteq Logged(sock[k]) \cup new  BY <1>9, <1>10
<1>18. sock'[k].peer = sock[k].peer  BY <1>8, <1>10
<1>19. \A h \in Hosts : \A m \in InFlight(h)' :
            \/ m \in InFlight(h)
            \/ /\ h = c /\ m.src = Server
               /\ \/ m \in Packets(sock[k], Logged(sock[k]))
                  \/ m \in Packets(sock'[k], new)
  BY <1>11
<1>20. UNCHANGED <<tables, cpc, maxSend, spc>>  BY <1>1
<1>21. sock[k].peer = c  OBVIOUS
<1> HIDE DEF before
<1> QED
  BY <1>2, <1>11, <1>14, <1>15, <1>16, <1>17, <1>18, <1>19, <1>20, <1>21, ChildMoves

LEMMA StreamServerRead ==
  ASSUME TypeOK, TypeOK', ChildrenApart, ConnInv, StreamInv, ServerRead
  PROVE  StreamInv'
<1>1. csk \in establishedTable \cap Children
  BY DEF ServerRead, TypeOK, StreamInv, Reading
<1>2. sock[csk].peer \in Clients  BY <1>1 DEF StreamInv, Listening
<1>3. PICK k \in Children, c \in Clients : k = csk /\ c = sock[k].peer  BY <1>1, <1>2
<1> QED  BY <1>3, ChildRead

-----------------------------------------------------------------------------
(* The steps of the listening socket.                                      *)

\* A step of the listening socket that answers client c and may start c's child
LEMMA ListenerMoves ==
  ASSUME TypeOK, TypeOK', StreamInv, NEW c \in Clients,
         \A g \in Clients : sock'[g] = sock[g], UNCHANGED <<cpc, maxSend, spc>>,
         \A h \in Hosts : \A m \in InFlight(h)' :
           \/ m \in InFlight(h)
           \/ /\ h = c /\ "ACK" \in m.flags
              /\ Streams(c) => m.ack = Base(c) /\ m.rwnd = Window,
         cpc[c] # "start",
         \A k \in Peers(c) : k \in Peers(c)' /\ sock'[k] = sock[k],
         \A g \in Clients : g # c =>
           Peers(g)' = Peers(g) /\ \A k \in Peers(g) : sock'[k] = sock[k],
         sock'[Server].peer = c,
         sock[Server].peer = c \/ sock[Server].TCPState # "SYN_RECV",
         Streams(c) =>
           /\ sock'[Server].rcv_nxt = Base(c)
           /\ Peers(c)' = {} => sock'[Server].TCPState = "SYN_RECV"
           /\ \A k \in Peers(c)' : k \in Peers(c) \/ Ring(c, k)'
  PROVE  \A g \in Clients : ClientInv(g)'
<1>1. Clients \subseteq Hosts /\ Server \in Hosts /\ Server \notin Clients  BY SockCases
<1>2. ASSUME NEW g \in Clients, g # c PROVE ClientInv(g)'
  <2>1. ClientInv(g) /\ g \in Hosts /\ g # Server  BY <1>1 DEF StreamInv
  <2>2. Streams(g)' => Streams(g)  BY DEF Streams, Closing
  <2>3. InFlight(g)' \subseteq InFlight(g)  BY <1>2, <2>1
  <2>4. \A m \in InFlight(Server)' : m.src = g => m \in InFlight(Server)  BY <1>1
  <2>5. Peers(g)' = Peers(g) /\ \A k \in Peers(g) : sock'[k] = sock[k]  BY <1>2
  <2>6. Streams(g)' => (Peers(g) = {} /\ sock'[Server].peer # g => sock[Server].peer # g)
    BY <1>2, <2>1, <2>2 DEF ClientInv, Greeted
  <2> QED  BY <1>2, <2>1, <2>3, <2>4, <2>5, <2>6, ClientFrame
<1>3. ClientInv(c) /\ c \in Hosts /\ c # Server  BY <1>1 DEF StreamInv
<1>4. /\ Base(c)' = Base(c) /\ End(c)' = End(c) /\ (Closing(c)' <=> Closing(c))
      /\ (Streams(c)' <=> Streams(c)) /\ Base(c) \in Int /\ End(c) \in Nat
      /\ End(c) <= End(c)'
  <2>1. /\ Base(c)' = Base(c) /\ End(c)' = End(c) /\ (Closing(c)' <=> Closing(c))
        /\ (Streams(c)' <=> Streams(c))
    BY DEF Base, End, FirstByte, Closing, Streams
  <2> QED  BY <2>1, StreamTypes
<1>5. \A k \in Peers(c) : /\ k \in Peers(c)'
                          /\ sock[k].head <= sock'[k].head
                          /\ sock[k].tail <= sock'[k].tail
  <2>1. \A k \in Peers(c) : sock[k] \in tcp_sock /\ sock'[k] = sock[k]
    BY SockCases, SockType DEF Peers
  <2> QED  BY <2>1 DEF tcp_sock
<1>6. \A m \in InFlight(c)' :
        \/ m \in InFlight(c)
        \/ /\ "ACK" \in m.flags
           /\ ~Closing(c)' => Allowed(c, m.ack + m.rwnd)' /\ Reached(c, m.ack)'
  <2> SUFFICES ASSUME NEW m \in InFlight(c)', m \notin InFlight(c)
               PROVE  /\ "ACK" \in m.flags
                      /\ ~Closing(c)' => Allowed(c, m.ack + m.rwnd)' /\ Reached(c, m.ack)'
    OBVIOUS
  <2>1. "ACK" \in m.flags /\ (Streams(c) => m.ack = Base(c) /\ m.rwnd = Window)
    BY <1>3
  <2>2. ASSUME ~Closing(c)' PROVE Allowed(c, m.ack + m.rwnd)' /\ Reached(c, m.ack)'
    <3>1. Streams(c)  BY <1>4, <2>2 DEF Streams
    <3>2. m.ack = Base(c)' /\ m.rwnd = Window  BY <1>4, <2>1, <3>1
    <3>3. Base(c)' \in Int /\ Window \in Int  BY <1>4, WindowSize
    <3>4. m.ack + m.rwnd <= Base(c)' + Window /\ m.ack <= Base(c)'  BY <3>2, <3>3
    <3> QED  BY <3>4 DEF Allowed, Reached
  <2> QED  BY <2>1, <2>2
<1>7. \A m \in InFlight(Server)' : m.src = c => m \in InFlight(Server)  BY <1>1, <1>3
<1>8. Greeted(c)'  BY <1>4 DEF Greeted
<1>9. ASSUME Streams(c)', NEW k \in Peers(c)' PROVE Ring(c, k)'
  <2>1. CASE k \in Peers(c)
    <3>1. k \in Children /\ sock'[k] = sock[k]  BY <2>1 DEF Peers
    <3>2. Ring(c, k)  BY <1>3, <1>4, <1>9, <2>1 DEF ClientInv
    <3> QED  BY <1>4, <3>1, <3>2, RingStill
  <2>2. CASE k \notin Peers(c)  BY <1>4, <1>9, <2>2
  <2> QED  BY <2>1, <2>2
<1>10. /\ Base(c) <= sock'[c].snd_nxt /\ sock[c].snd_nxt <= sock'[c].snd_nxt
       /\ cpc'[c] = "sleep" => sock'[c].snd_nxt = maxSend'[c]
       /\ FirstLogged(sock'[c]) = FirstLogged(sock[c])
  <2>1. sock[c].snd_nxt \in Nat  BY StreamTypes
  <2> QED  BY <1>3, <2>1 DEF ClientInv, Sending
<1>11. ClientInv(c)'
  BY <1>3, <1>4, <1>5, <1>6, <1>7, <1>8, <1>9, <1>10, ClientStep
<1> QED  BY <1>2, <1>11

\* The steps of the server's application that leave the sockets alone
LEMMA StreamServerWaits ==
  ASSUME TypeOK, TypeOK', ConnInv, StreamInv,
         (\E k \in Children : ServerAccept(k)) \/ ServerReadSleep \/ ServerReadWake
  PROVE  StreamInv'
<1>1. /\ sock' = sock /\ net' = net /\ spc \in {"accept", "read", "sleep"}
      /\ UNCHANGED <<listenTable, establishedTable, synRcvdList, cpc, maxSend, delivered>>
  BY DEF ServerAccept, ServerReadSleep, ServerReadWake, CanAccept, tables
<1>2. spc' \in {"read", "sleep", "close"}
  BY DEF ServerAccept, ServerReadSleep, ServerReadWake
<1>3. \A h \in Hosts : InFlight(h)' = InFlight(h)  BY <1>1 DEF InFlight
<1>4. Clients \subseteq Hosts /\ Server \in Hosts  BY SockCases
<1>5. \A c \in Clients : ClientInv(c)'
  <2> SUFFICES ASSUME NEW c \in Clients PROVE ClientInv(c)'
    OBVIOUS
  <2>1. ClientInv(c) /\ Peers(c)' = Peers(c)  BY <1>1 DEF StreamInv, Peers
  <2> QED  BY <1>1, <1>2, <1>3, <1>4, <2>1, ClientFrame
<1>6. Listening'  BY <1>1, <1>2, ListeningKept DEF StreamInv
<1>7. \A c \in Clients : Base(c)' = Base(c) /\ End(c)' = End(c)
  BY <1>1 DEF Base, End, FirstByte, Closing
<1>8. DeliveredInOrder'  BY <1>1 DEF StreamInv, Reading, DeliveredInOrder
<1>9. Reading  BY DEF StreamInv
<1>10. CASE \E k \in Children : ServerAccept(k)
  <2>1. PICK k \in Children : ServerAccept(k)  BY <1>10
  <2>2. /\ spc = "accept" /\ k \in acceptList /\ acceptList' = acceptList \ {k}
        /\ csk' = k /\ spc' = "read"
    BY <2>1 DEF ServerAccept, CanAccept
  <2>3. delivered' = <<>> /\ k \in establishedTable  BY <1>1, <1>9, <2>2 DEF Reading
  <2>4. Reading'  BY <1>1, <1>8, <1>9, <2>2, <2>3 DEF Reading
  <2> QED  BY <1>5, <1>6, <2>4 DEF StreamInv
<1>11. CASE ServerReadSleep \/ ServerReadWake
  <2>1. /\ spc \in {"read", "sleep"} /\ csk' = csk /\ acceptList' = acceptList
        /\ spc' = "close" => Closed(csk)
    BY <1>11 DEF ServerReadSleep, ServerReadWake, tables
  <2>2. spc' = "close" => sock'[csk'].TCPState # "ESTABLISHED"
    BY <1>1, <2>1 DEF Closed
  <2>3. Reading'  BY <1>1, <1>2, <1>7, <1>8, <1>9, <2>1, <2>2 DEF Reading
  <2> QED  BY <1>5, <1>6, <2>3 DEF StreamInv
<1> QED  BY <1>10, <1>11

\* The server closes the socket that its client has closed.
LEMMA StreamServerClose ==
  ASSUME TypeOK, TypeOK', ConnInv, StreamInv, ServerClose
  PROVE  StreamInv'
<1>1. /\ spc = "close" /\ spc' = "done" /\ establishedTable' = establishedTable \ {csk}
      /\ UNCHANGED <<sock, listenTable, synRcvdList, acceptList, net, cpc, maxSend, csk, delivered>>
  BY DEF ServerClose
<1>2. \A h \in Hosts : InFlight(h)' = InFlight(h)  BY <1>1 DEF InFlight
<1>3. Clients \subseteq Hosts /\ Server \in Hosts  BY SockCases
<1>4. \A c \in Clients : ClientInv(c)'
  <2> SUFFICES ASSUME NEW c \in Clients PROVE ClientInv(c)'
    OBVIOUS
  <2>1. ClientInv(c) /\ Peers(c)' \subseteq Peers(c)  BY <1>1 DEF StreamInv, Peers
  <2>2. ASSUME Streams(c)' PROVE Peers(c)' = Peers(c)
    <3>1. Streams(c) /\ ~Closing(c)  BY <1>1, <2>2 DEF Streams, Closing
    <3>2. csk \notin Peers(c)
      <4>1. sock[csk].TCPState # "ESTABLISHED"  BY <1>1 DEF StreamInv, Reading
      <4> QED  BY <2>1, <3>1, <4>1 DEF ClientInv, Ring
    <3> QED  BY <1>1, <3>2 DEF Peers
  <2> QED  BY <1>1, <1>2, <1>3, <2>1, <2>2, ClientFrame
<1>5. Listening'  BY <1>1, ListeningKept DEF StreamInv
<1>6. DeliveredInOrder'  BY <1>1 DEF StreamInv, Reading, DeliveredInOrder
<1>7. Reading'  BY <1>1, <1>6 DEF StreamInv, Reading
<1> QED  BY <1>4, <1>5, <1>7 DEF StreamInv

\* tcp_sock_listen
LEMMA StreamServerListen ==
  ASSUME TypeOK, TypeOK', ConnInv, StreamInv, ServerListen
  PROVE  StreamInv'
<1>1. /\ spc = "start" /\ spc' = "accept" /\ net' = net
      /\ sock' = [sock EXCEPT ![Server].TCPState = "LISTEN"]
      /\ UNCHANGED <<establishedTable, synRcvdList, acceptList, cpc, maxSend, csk, delivered>>
  BY DEF ServerListen
<1>2. Clients \subseteq Hosts /\ Server \in Hosts /\ Server \in Sock /\ Server \notin Clients
      /\ Server \notin Children /\ Clients \subseteq Sock /\ Children \subseteq Sock
  BY SockCases
<1>3. /\ \A r \in Sock : r # Server => sock'[r] = sock[r]
      /\ sock'[Server] = [sock[Server] EXCEPT !.TCPState = "LISTEN"]
  BY <1>1, <1>2 DEF TypeOK
<1>4. sock[Server] \in tcp_sock  BY <1>2, SockType
<1>5. /\ sock'[Server].TCPState = "LISTEN" /\ sock'[Server].peer = sock[Server].peer
      /\ sock'[Server].rcv_nxt = sock[Server].rcv_nxt
      /\ sock'[Server].head = sock[Server].head /\ sock'[Server].tail = sock[Server].tail
      /\ sock'[Server].sendBuffer = sock[Server].sendBuffer
  BY <1>3, <1>4 DEF tcp_sock
<1>6. /\ \A c \in Clients : sock'[c] = sock[c]
      /\ \A k \in Children : sock'[k] = sock[k]
      /\ \A h \in Hosts : InFlight(h)' = InFlight(h)
      /\ Logged(sock'[Server]) = Logged(sock[Server])
  BY <1>1, <1>2, <1>3, <1>5 DEF InFlight, Logged
<1>7. sock[Server].TCPState = "CLOSED"  BY <1>1 DEF StreamInv, Listening
<1>8. \A c \in Clients : ClientInv(c)'
  <2> SUFFICES ASSUME NEW c \in Clients PROVE ClientInv(c)'
    OBVIOUS
  <2>1. ClientInv(c) /\ Peers(c)' = Peers(c) /\ \A k \in Peers(c) : sock'[k] = sock[k]
    BY <1>1, <1>6 DEF StreamInv, Peers
  <2>2. Streams(c)' => Streams(c)  BY <1>1 DEF Streams
  <2>3. Streams(c)' => (sock'[Server].peer = c => Peers(c) # {})
    BY <1>5, <1>7, <2>1, <2>2 DEF ClientInv, Greeted
  <2> QED  BY <1>1, <1>2, <1>5, <1>6, <2>1, <2>3, ClientFrame
<1>9. Listening'
  <2>1. Listening  BY DEF StreamInv
  <2>2. synRcvdList' = {}  BY <1>1, <1>7, <2>1 DEF Listening
  <2> QED  BY <1>1, <1>5, <1>6, <2>1, <2>2 DEF Listening
<1>10. \A c \in Clients : Base(c)' = Base(c) /\ End(c)' = End(c)
  BY <1>1, <1>6 DEF Base, End, FirstByte, Closing
<1>11. Reading'
  <2>1. DeliveredInOrder'  BY <1>1 DEF StreamInv, Reading, DeliveredInOrder
  <2> QED  BY <1>1, <2>1 DEF StreamInv, Reading
<1> QED  BY <1>8, <1>9, <1>11 DEF StreamInv

\* What the listening socket advertises: it never fills its ring.
LEMMA WholeWindow ==
  ASSUME NEW sk, sk.head = 0, sk.tail = 0 PROVE Advertised(sk) = Window
<1>1. RINGBUFFER_SIZE - (sk.tail - sk.head) = RINGBUFFER_SIZE  BY RingSize
<1> QED  BY <1>1 DEF Advertised, Window

\* The timer of the listening socket resends its SYN|ACK.
LEMMA ListenerAckTimeOut ==
  ASSUME TypeOK, TypeOK', ConnInv, StreamInv, AckTimeOut(Server)
  PROVE  StreamInv'
<1> DEFINE s == Server
           b == Enter(sock[s])
           d == HandleTimeOut(b)
<1>1. /\ Commit(s, d, net) /\ UNCHANGED <<tables, apps>>
  BY DEF AckTimeOut
<1>2. /\ s \in Sock /\ s \in Hosts /\ Clients \subseteq Sock /\ Children \subseteq Sock
      /\ s \notin Clients /\ s \notin Children /\ Clients \subseteq Hosts
  BY SockCases
<1>3. b \in Context /\ b.sk = sock[s] /\ b.tx = <<>> /\ sock[s] \in tcp_sock
  BY <1>2, SockType DEF Enter
<1>4. Listening  BY DEF StreamInv
<1>5. sock[s].local = Server /\ sock[s].head = 0 /\ sock[s].tail = 0
      /\ \A e \in Logged(sock[s]) : "ACK" \in e.flags
  BY <1>2, <1>4 DEF ConnInv, Homes, Listening
<1> HIDE DEF b, s
<1>6. Repeats(sock[s], d) /\ d \in Context
  BY <1>3, HandleTimeOutType, HandleTimeOutRepeats
<1> HIDE DEF d
<1>7. KeepsRest(sock[s], d.sk) /\ Logged(d.sk) \subseteq Logged(sock[s])
      /\ Said(d) \subseteq Packets(sock[s], Logged(sock[s])) \cup Packets(d.sk, {})
      /\ d.sk.local = sock[s].local /\ d.sk.peer = sock[s].peer
  BY <1>6 DEF Repeats, KeepsRest
<1>8. net \in Wires /\ \A g \in Hosts : On(net, g) \subseteq InFlight(g)
  BY WiresType DEF InFlight
<1>9. \/ sock' = sock /\ \A h \in Hosts : InFlight(h)' \subseteq InFlight(h)
      \/ /\ sock' = [sock EXCEPT ![s] = d.sk]
         /\ sock'[s] = d.sk /\ \A r \in Sock : r # s => sock'[r] = sock[r]
         /\ \A h \in Hosts : \A m \in InFlight(h)' :
              \/ m \in InFlight(h)
              \/ /\ h = sock[s].peer /\ m.src = sock[s].local
                 /\ \/ m \in Packets(sock[s], Logged(sock[s]))
                    \/ m \in Packets(d.sk, {})
  BY <1>1, <1>2, <1>6, <1>7, <1>8, CommitWire
<1>10. CASE sock' = sock /\ \A h \in Hosts : InFlight(h)' \subseteq InFlight(h)
  BY <1>1, <1>10, StreamStill
<1>11. CASE /\ sock'[s] = d.sk /\ \A r \in Sock : r # s => sock'[r] = sock[r]
            /\ \A h \in Hosts : \A m \in InFlight(h)' :
                 \/ m \in InFlight(h)
                 \/ /\ h = sock[s].peer /\ m.src = sock[s].local
                    /\ \/ m \in Packets(sock[s], Logged(sock[s]))
                       \/ m \in Packets(d.sk, {})
  <2>1. /\ \A c \in Clients : sock'[c] = sock[c]
        /\ \A k \in Children : sock'[k] = sock[k]
        /\ KeepsRest(sock[Server], sock'[Server])
        /\ Logged(sock'[Server]) \subseteq Logged(sock[Server])
    BY <1>2, <1>7, <1>11 DEF s
  <2>2. UNCHANGED <<listenTable, establishedTable, synRcvdList, acceptList,
                    cpc, maxSend, spc, csk, delivered>>
    BY <1>1 DEF tables, apps
  <2>3. ASSUME NEW h \in Hosts, NEW m \in InFlight(h)', m \notin InFlight(h)
        PROVE  /\ h = sock[Server].peer /\ "ACK" \in m.flags
               /\ m.ack = sock[Server].rcv_nxt /\ m.rwnd = Window
    <3>1. h = sock[s].peer /\ m \in Packets(sock[s], Logged(sock[s]))
      <4>1. Packets(d.sk, {}) = {}  BY DEF Packets
      <4> QED  BY <1>11, <2>3, <4>1
    <3>2. PICK e \in Logged(sock[s]) : m.flags = e.flags
      BY <3>1, PacketIs
    <3>3. m.ack = sock[s].rcv_nxt /\ m.rwnd = Advertised(sock[s])  BY <3>1, PacketIs
    <3>4. Advertised(sock[s]) = Window  BY <1>5, WholeWindow
    <3> QED  BY <1>5, <3>1, <3>2, <3>3, <3>4 DEF s
  <2>4. \A g \in Clients : Peers(g)' = Peers(g) /\ \A k \in Peers(g) : sock'[k] = sock[k]
    BY <2>1, <2>2 DEF Peers
  <2>5. /\ sock'[Server].peer = sock[Server].peer
        /\ sock'[Server].TCPState = sock[Server].TCPState
        /\ sock'[Server].rcv_nxt = sock[Server].rcv_nxt
        /\ sock'[Server].head = sock[Server].head /\ sock'[Server].tail = sock[Server].tail
    BY <2>1 DEF KeepsRest
  <2>6. \A g \in Clients : ClientInv(g)'
    <3>1. CASE sock[Server].peer \in Clients
      <4>1. PICK c \in Clients : sock[Server].peer = c  BY <3>1
      <4>2. ClientInv(c)  BY DEF StreamInv
      <4>3. /\ cpc[c] # "start"
            /\ Streams(c) => /\ sock[Server].rcv_nxt = Base(c)
                             /\ Peers(c) = {} => sock[Server].TCPState = "SYN_RECV"
        BY <4>1, <4>2 DEF ClientInv, Greeted
      <4>4. \A h \in Hosts : \A m \in InFlight(h)' :
              \/ m \in InFlight(h)
              \/ /\ h = c /\ "ACK" \in m.flags
                 /\ Streams(c) => m.ack = Base(c) /\ m.rwnd = Window
        BY <2>3, <4>1, <4>3
      <4> QED  BY <2>1, <2>2, <2>4, <2>5, <4>1, <4>3, <4>4, ListenerMoves
    <3>2. CASE sock[Server].peer \notin Clients
      <4> SUFFICES ASSUME NEW g \in Clients PROVE ClientInv(g)'
        OBVIOUS
      <4>1. ClientInv(g) /\ g \in Hosts  BY <1>2 DEF StreamInv
      <4>2. InFlight(g)' \subseteq InFlight(g)  BY <2>3, <3>2, <4>1
      <4>3. s # sock[Server].peer
        BY <1>2, SockCases DEF ConnInv, Homes, s
      <4>4. \A m \in InFlight(Server)' : m \in InFlight(Server)
        BY <1>2, <2>3, <4>3 DEF s
      <4> QED  BY <2>1, <2>2, <2>4, <2>5, <3>2, <4>1, <4>2, <4>4, ClientFrame
    <3> QED  BY <3>1, <3>2
  <2>7. Listening'
    <3>1. \A r \in Children \cup {Server} : \A e \in Logged(sock'[r]) :
            e \in Logged(sock[r]) \/ "ACK" \in e.flags
      BY <2>1
    <3>2. \A k \in synRcvdList : sock'[k].buf = sock[k].buf
      BY <2>1 DEF TypeOK
    <3>3. \A k \in Children : sock'[k].peer = sock[k].peer  BY <2>1
    <3>4. /\ spc' = "start" => spc = "start" /\ (Server \in listenTable' => Server \in listenTable)
          /\ synRcvdList' = synRcvdList
          /\ establishedTable' \cap Children \subseteq establishedTable
      BY <2>2
    <3> QED  BY <1>4, <2>5, <3>1, <3>2, <3>3, <3>4, ListeningKept
  <2>8. \A c \in Clients : Base(c)' = Base(c) /\ End(c)' = End(c) /\ End(c) \in Nat
    BY <2>1, <2>2, StreamTypes DEF Base, End, FirstByte, Closing
  <2>9. \A c \in Clients : Base(c)' = Base(c) /\ End(c) <= End(c)'  BY <2>8
  <2>10. Reading'  BY <2>1, <2>2, <2>9, ReadingKept DEF StreamInv
  <2> QED  BY <2>6, <2>7, <2>10 DEF StreamInv
<1> QED  BY <1>9, <1>10, <1>11

\* A step that only loses, repeats or drops segments
LEMMA StreamDropped ==
  ASSUME TypeOK, TypeOK', StreamInv, NEW h \in Hosts, NEW i \in DOMAIN net[h],
         \/ ReceiveNoSocket(h, i) \/ (\E s \in Sock : ReceiveSYN4NoChild(h, i, s))
         \/ Lose(h, i)
  PROVE  StreamInv'
<1>1. net' = Without(h, i) /\ sock' = sock /\ UNCHANGED <<tables, apps>>
  BY DEF ReceiveNoSocket, ReceiveSYN4NoChild, Lose
<1>2. \A g \in Hosts : InFlight(g)' \subseteq InFlight(g)
  BY <1>1, WithoutOn DEF InFlight
<1> QED  BY <1>1, <1>2, StreamStill

LEMMA StreamDuplicate ==
  ASSUME TypeOK, TypeOK', StreamInv, NEW h \in Hosts, NEW i \in DOMAIN net[h], Duplicate(h, i)
  PROVE  StreamInv'
<1>1. sock' = sock /\ UNCHANGED <<tables, apps>>  BY DEF Duplicate
<1>2. \A g \in Hosts : InFlight(g)' \subseteq InFlight(g)  BY DuplicateOn
<1> QED  BY <1>1, <1>2, StreamStill

\* The ring of a new socket is empty.
LEMMA FreshRing ==
  ASSUME NEW peer, NEW child \in Fresh(Server, peer)
  PROVE  \A i \in Slot : child.buf[i] = NoByte
  BY DEF Fresh, alloc_tcp_sock

\* handleSYN1 answers a client that it has not met with the start of its file.
LEMMA StreamSYN1 ==
  ASSUME TypeOK, TypeOK', ChildrenApart, ConnInv, StreamInv,
         NEW h \in Hosts, NEW i \in DOMAIN net[h], NEW s \in Sock,
         NEW k \in Children, ReceiveSYN1(h, i, s, k)
  PROVE  StreamInv'
<1> DEFINE b == Acked(h, i, s)
           p == net[h][i]
           d == handleSYN1(b, p)
           flight == Without(h, i)
           sk == [b.sk EXCEPT !.TCPState = "SYN_RECV", !.peer = p.src,
                              !.rcv_nxt = p.seq + 1, !.snd_nxt = @ + 1]
           new == {Plain(b.sk, <<>>, {"SYN", "ACK"})}
           c == p.src
<1>1. /\ s = Server /\ h = Server /\ c \in Clients /\ p \in Segment /\ b.tx = <<>>
      /\ p \in InFlight(Server)
  BY ListenerFacts, Receiver DEF ReceiveSYN1
<1>2. PICK child \in Fresh(Server, c) :
        IF d.ok
        THEN /\ sock' = [sock EXCEPT ![s] = d.sk, ![k] = child] /\ net' = Transmit(flight, d.tx)
             /\ synRcvdList' = synRcvdList \cup {k}
        ELSE sock' = sock /\ net' = flight /\ synRcvdList' = synRcvdList
  BY DEF ReceiveSYN1
<1>3. /\ child.local = Server /\ child.peer = c /\ child.sendBuffer = <<>>
      /\ \A n \in Slot : child.buf[n] = NoByte
  BY FreshFields, FreshRing
<1>4. /\ UNCHANGED <<listenTable, establishedTable, acceptList, cpc, maxSend, spc, csk, delivered>>
      /\ k \notin establishedTable
      /\ sock[s].TCPState = "LISTEN" /\ Established(h, c) = {}
  BY DEF ReceiveSYN1, FreeChildren, apps, ToListener
<1>5. b \in Context /\ b.sk \in tcp_sock /\ KeepsRest(sock[s], b.sk)
      /\ Logged(b.sk) \subseteq Logged(sock[s])
  BY AckedFields, AckedRepeats DEF Repeats
<1>6. flight \in Wires /\ \A g \in Hosts : On(flight, g) \subseteq InFlight(g)
  BY WithoutType, WithoutOn
<1>7. /\ sock \in [Sock -> tcp_sock] /\ k \in Sock /\ k # s
      /\ Clients \subseteq Sock /\ Children \subseteq Sock /\ Clients \subseteq Hosts
      /\ Server \notin Clients /\ Server \in Hosts /\ Server \notin Children
      /\ \A g \in Clients : g # k /\ g # s
  BY <1>1, SockCases, SMTT(25) DEF TypeOK
<1> HIDE DEF b, p, flight, c
<1>8. d \in Context /\ Says(b, d, new) /\ KeepsRest(sk, d.sk)
  BY <1>1, <1>5, handleSYN1Type, handleSYN1Says
<1>9. /\ sk.local = sock[s].local /\ sk.peer = c /\ sk.TCPState = "SYN_RECV"
      /\ sk.rcv_nxt = p.seq + 1 /\ sk.head = sock[s].head /\ sk.tail = sock[s].tail
  BY <1>5 DEF KeepsRest, tcp_sock, c
<1>10. \A e \in new : "ACK" \in e.flags  BY DEF Plain
<1> HIDE DEF d, sk, new
<1>11. Listening /\ ClientInv(c)  BY <1>1 DEF StreamInv
<1>12. /\ d.sk.local = Server /\ d.sk.peer = c /\ d.sk.TCPState = "SYN_RECV"
       /\ d.sk.rcv_nxt = p.seq + 1 /\ d.sk.head = 0 /\ d.sk.tail = 0
       /\ \A e \in Logged(d.sk) : "ACK" \in e.flags
  <2>1. sock[s].local = Server  BY <1>1, SockCases DEF ConnInv, Homes
  <2>2. sock[s].head = 0 /\ sock[s].tail = 0 /\ \A e \in Logged(sock[s]) : "ACK" \in e.flags
    BY <1>1, <1>11 DEF Listening
  <2>3. \A e \in Logged(d.sk) : "ACK" \in e.flags
    BY <1>5, <1>8, <1>10, <2>2 DEF Says
  <2> QED  BY <1>8, <1>9, <2>1, <2>2, <2>3 DEF KeepsRest
<1>13. CASE ~d.ok
  <2>1. sock' = sock /\ \A g \in Hosts : InFlight(g)' \subseteq InFlight(g)
    BY <1>2, <1>6, <1>13 DEF InFlight
  <2>2. UNCHANGED <<tables, apps>>  BY <1>2, <1>4, <1>13 DEF tables, apps
  <2> QED  BY <2>1, <2>2, StreamStill
<1>14. CASE d.ok
  <2>1. /\ net' = Transmit(flight, d.tx) /\ synRcvdList' = synRcvdList \cup {k}
        /\ \A r \in Sock : sock'[r] = IF r = k THEN child
                                      ELSE IF r = s THEN d.sk ELSE sock[r]
    BY <1>2, <1>7, <1>14
  <2>2. /\ \A g \in Clients : sock'[g] = sock[g]
        /\ \A q \in Children : q # k => sock'[q] = sock[q]
        /\ sock'[Server] = d.sk /\ sock'[k] = child
    BY <1>1, <1>7, <2>1
  <2>3. \A g \in Clients : Peers(g)' = Peers(g) /\ \A q \in Peers(g) : sock'[q] = sock[q]
    <3>1. \A q \in establishedTable \cap Children : sock'[q] = sock[q]  BY <1>4, <2>2
    <3> QED  BY <1>4, <3>1 DEF Peers
  <2>4. Peers(c) = {}
    <3>1. \A q \in Children : sock[q].local = Server
      BY <1>7, SockCases DEF ConnInv, Homes
    <3> QED  BY <1>1, <1>4, <3>1 DEF Peers, Established
  <2>5. cpc[c] # "start"  BY <1>1, <1>11 DEF ClientInv, Sending, c
  <2>6. Streams(c) => p.seq + 1 = Base(c)
    <3> SUFFICES ASSUME Streams(c) PROVE p.seq + 1 = Base(c)
      OBVIOUS
    <3>1. sock[Server].peer # c  BY <1>1, <1>4, <1>11, <2>4 DEF ClientInv, Greeted
    <3>2. Untouched(c)  BY <1>11, <2>4, <3>1 DEF ClientInv, Greeted
    <3> QED  BY <1>1, <3>2 DEF Untouched, c
  <2>7. ASSUME NEW g \in Hosts, NEW m \in InFlight(g)', m \notin InFlight(g)
        PROVE  g = c /\ "ACK" \in m.flags /\ m.ack = p.seq + 1 /\ m.rwnd = Window
    <3>1. PICK x \in DOMAIN d.tx, y \in DOMAIN d.tx : m = d.tx[x] /\ g = d.tx[y].dst
      <4>1. m \in On(Transmit(flight, d.tx), g) /\ m \notin On(flight, g)
        BY <1>6, <2>1, <2>7 DEF InFlight
      <4>2. d.tx \in Seq(Segment)  BY <1>8 DEF Context
      <4> QED  BY <1>6, <4>1, <4>2, TransmitOn
    <3>2. m \in Said(d) /\ d.tx[y] \in Said(d)  BY <3>1 DEF Said
    <3>3. Said(d) \subseteq Packets(d.sk, new)  BY <1>1, <1>8 DEF Says, Said
    <3>4. g = c /\ m.ack = d.sk.rcv_nxt /\ m.rwnd = Advertised(d.sk)
      BY <1>12, <3>1, <3>2, <3>3, PacketIs
    <3>5. PICK e \in new : m.flags = e.flags  BY <3>2, <3>3, PacketIs
    <3> QED  BY <1>10, <1>12, <3>4, <3>5, WholeWindow
  <2>8. \A g \in Clients : ClientInv(g)'
    <3>1. \A g \in Hosts : \A m \in InFlight(g)' :
            \/ m \in InFlight(g)
            \/ /\ g = c /\ "ACK" \in m.flags
               /\ Streams(c) => m.ack = Base(c) /\ m.rwnd = Window
      BY <2>6, <2>7
    <3>2. sock'[Server].peer = c /\ sock'[Server].TCPState = "SYN_RECV"
          /\ (Streams(c) => sock'[Server].rcv_nxt = Base(c))
      BY <1>12, <2>2, <2>6
    <3>3. sock[Server].TCPState # "SYN_RECV"  BY <1>1, <1>4
    <3> QED  BY <1>1, <1>4, <2>2, <2>3, <2>4, <2>5, <3>1, <3>2, <3>3, ListenerMoves
  <2>9. Listening'
    <3>1. synRcvdList' = {k}  BY <1>1, <1>4, <1>11, <2>1 DEF Listening
    <3>2. \A r \in Children \cup {Server} : \A e \in Logged(sock'[r]) : "ACK" \in e.flags
      <4>1. Logged(child) = {}  BY <1>3 DEF Logged
      <4> QED  BY <1>11, <1>12, <2>2, <4>1 DEF Listening
    <3>3. \A q \in establishedTable' \cap Children : sock'[q].peer \in Clients
      BY <1>4, <1>11, <2>2 DEF Listening
    <3>4. spc' # "start"  BY <1>1, <1>4, <1>11 DEF Listening
    <3>5. sock'[Server].head = 0 /\ sock'[Server].tail = 0
          /\ sock'[Server].TCPState = "SYN_RECV" /\ sock'[Server].peer = c
      BY <1>12, <2>2
    <3>6. /\ k \in Children /\ sock'[k].peer = c
          /\ \A n \in Slot : sock'[k].buf[n] = NoByte
      BY <1>3, <2>2
    <3> QED  BY <1>1, <3>1, <3>2, <3>3, <3>4, <3>5, <3>6 DEF Listening
  <2>10. \A g \in Clients : Base(g)' = Base(g) /\ End(g)' = End(g) /\ End(g) \in Nat
    BY <1>4, <2>2, StreamTypes DEF Base, End, FirstByte, Closing
  <2>11. \A g \in Clients : Base(g)' = Base(g) /\ End(g) <= End(g)'  BY <2>10
  <2>12. \A q \in establishedTable \cap Children : sock'[q] = sock[q]  BY <1>4, <2>2
  <2>13. Reading'  BY <1>4, <2>11, <2>12, ReadingKept DEF StreamInv
  <2> QED  BY <2>8, <2>9, <2>13 DEF StreamInv
<1> QED  BY <1>13, <1>14

\* An empty ring that starts no earlier than the SYN
LEMMA RingEmpty ==
  ASSUME NEW sk, sk.head \in Nat, sk.tail = sk.head, NEW c, NEW base \in Int, NEW end \in Nat,
         base <= sk.head + 1, \A n \in Slot : sk.buf[n] = NoByte
  PROVE  RingHolds(sk, c, base, end)
<1>1. base - 1 <= sk.head /\ sk.head <= sk.tail  OBVIOUS
<1>2. \A n \in sk.head .. sk.head + RINGBUFFER_SIZE - 1 :
        sk.buf[n % RINGBUFFER_SIZE] = NoByte /\ ~(n < sk.tail)
  <2> SUFFICES ASSUME NEW n \in sk.head .. sk.head + RINGBUFFER_SIZE - 1
               PROVE  sk.buf[n % RINGBUFFER_SIZE] = NoByte /\ ~(n < sk.tail)
    OBVIOUS
  <2>1. n \in Nat /\ ~(n < sk.tail)  BY RingSize
  <2>2. n % RINGBUFFER_SIZE \in Slot  BY <2>1, RingSize, DivIs
  <2> QED  BY <2>1, <2>2
<1> QED  BY <1>1, <1>2 DEF RingHolds

\* handleSYN4 starts the ring of the child where the segment starts.
LEMMA StreamSYN4 ==
  ASSUME TypeOK, TypeOK', ChildrenApart, ConnInv, StreamInv,
         NEW h \in Hosts, NEW i \in DOMAIN net[h], NEW s \in Sock,
         NEW k \in Children, ReceiveSYN4(h, i, s, k)
  PROVE  StreamInv'
<1> DEFINE b == Acked(h, i, s)
           p == net[h][i]
           parent == [b.sk EXCEPT !.TCPState = "LISTEN"]
           child == handleSYN4(sock[k], p, b.sk.snd_nxt)
<1>0. PICK c \in Clients : c = p.src  BY ListenerFacts DEF ReceiveSYN4
<1>1. /\ s = Server /\ h = Server /\ c = p.src /\ p \in Segment
      /\ p \in InFlight(Server) /\ p.seq \in Nat
  <2>1. /\ s = Server /\ h = Server /\ p \in Segment /\ p \in InFlight(Server)
    BY ListenerFacts, Receiver DEF ReceiveSYN4
  <2> QED  BY <1>0, <2>1 DEF Segment
<1>2. /\ net' = Without(h, i)
      /\ IF b.ok
         THEN /\ sock' = [sock EXCEPT ![s] = parent,
                                      ![k] = handleSYN4(@, p, b.sk.snd_nxt)]
              /\ establishedTable' = establishedTable \cup {k}
              /\ synRcvdList' = synRcvdList \ {k}
              /\ acceptList' \subseteq acceptList \cup {k}
         ELSE UNCHANGED <<sock, establishedTable, synRcvdList, acceptList>>
      /\ UNCHANGED <<listenTable, cpc, maxSend, spc, csk, delivered>>
      /\ k \in synRcvdList /\ sock[k].peer = c
      /\ Established(h, c) = {} /\ sock[s].TCPState = "SYN_RECV"
  BY <1>0 DEF ReceiveSYN4, apps, SynRcvd, ToListener
<1>3. k \notin establishedTable  BY <1>2 DEF ChildrenApart
<1>4. b \in Context /\ b.sk \in tcp_sock /\ KeepsRest(sock[s], b.sk)
      /\ Logged(b.sk) \subseteq Logged(sock[s])
  BY AckedFields, AckedRepeats DEF Repeats
<1>5. \A g \in Hosts : InFlight(g)' \subseteq InFlight(g)
  BY <1>2, WithoutOn DEF InFlight
<1>6. /\ sock \in [Sock -> tcp_sock] /\ k \in Sock /\ k # s
      /\ Clients \subseteq Sock /\ Children \subseteq Sock /\ Clients \subseteq Hosts
      /\ Server \notin Clients /\ Server \in Hosts /\ Server \notin Children
      /\ \A g \in Clients : g # k /\ g # s
  BY <1>1, SockCases, SMTT(25) DEF TypeOK
<1>7. sock[k] \in tcp_sock /\ sock[k].sendBuffer = <<>>
  BY <1>2, <1>6, SockType DEF ChildrenApart
<1> HIDE DEF b, p
<1>8. /\ parent.peer = sock[s].peer /\ parent.TCPState = "LISTEN"
      /\ parent.head = sock[s].head /\ parent.tail = sock[s].tail
      /\ parent.rcv_nxt = sock[s].rcv_nxt /\ parent.sendBuffer = b.sk.sendBuffer
  BY <1>4 DEF KeepsRest, tcp_sock
<1>9. /\ child.peer = c /\ child.TCPState = "ESTABLISHED" /\ child.sendBuffer = <<>>
      /\ child.head = p.seq /\ child.tail = p.seq /\ child.rcv_nxt = p.seq
      /\ child.buf = sock[k].buf
  BY <1>2, <1>7 DEF handleSYN4, tcp_sock
<1> HIDE DEF parent
<1>10. Listening /\ ClientInv(c) /\ Reading  BY <1>1 DEF StreamInv
<1>11. CASE ~b.ok
  <2>1. UNCHANGED <<tables, apps>> /\ sock' = sock  BY <1>2, <1>11 DEF tables, apps
  <2> QED  BY <1>5, <2>1, StreamStill
<1>12. CASE b.ok
  <2>1. /\ sock' = [sock EXCEPT ![s] = parent, ![k] = child]
        /\ establishedTable' = establishedTable \cup {k}
        /\ synRcvdList' = synRcvdList \ {k}
        /\ acceptList' \subseteq acceptList \cup {k}
    BY <1>2, <1>6, <1>12
  <2> HIDE DEF child
  <2>2. \A r \in Sock : sock'[r] = IF r = k THEN child
                                   ELSE IF r = s THEN parent ELSE sock[r]
    BY <1>6, <2>1
  <2>3. /\ \A g \in Clients : sock'[g] = sock[g]
        /\ \A q \in Children : q # k => sock'[q] = sock[q]
        /\ sock'[Server] = parent /\ sock'[k] = child
    BY <1>1, <1>6, <2>2
  <2>4. /\ \A q \in establishedTable \cap Children : sock'[q] = sock[q]
    BY <1>3, <2>3
  <2>5. Peers(c) = {} /\ Peers(c)' = {k}
    <3>1. \A q \in Children : sock[q].local = Server
      BY <1>6, SockCases DEF ConnInv, Homes
    <3>2. Peers(c) = {}  BY <1>1, <1>2, <3>1 DEF Peers, Established
    <3>3. \A q \in establishedTable' \cap Children :
            q = k \/ (q \in establishedTable \cap Children /\ sock'[q] = sock[q])
      BY <2>1, <2>4
    <3>4. k \in establishedTable' \cap Children /\ sock'[k].peer = c  BY <1>9, <2>1, <2>3
    <3> QED  BY <3>2, <3>3, <3>4 DEF Peers
  <2>6. \A g \in Clients : g # c =>
          Peers(g)' = Peers(g) /\ \A q \in Peers(g) : sock'[q] = sock[q]
    <3> SUFFICES ASSUME NEW g \in Clients, g # c
                 PROVE  Peers(g)' = Peers(g) /\ \A q \in Peers(g) : sock'[q] = sock[q]
      OBVIOUS
    <3>1. \A q \in Peers(g) : sock'[q] = sock[q]  BY <2>4 DEF Peers
    <3>2. sock'[k].peer # g  BY <1>9, <2>3
    <3> QED  BY <2>1, <2>4, <3>1, <3>2 DEF Peers
  <2>7. sock[Server].peer = c /\ synRcvdList = {k}
    BY <1>1, <1>2, <1>10 DEF Listening
  <2>8. cpc[c] # "start" /\ Carries(c, p)  BY <1>1, <1>10 DEF ClientInv, Sending
  <2>9. Base(c)' = Base(c) /\ End(c)' = End(c) /\ Base(c) \in Int /\ End(c) \in Nat
    BY <1>1, <1>2, <2>3, StreamTypes DEF Base, End, FirstByte, Closing
  <2>10. Ring(c, k)'
    <3> DEFINE base == Base(c)  end == End(c)
    <3>1. base <= p.seq + 1  BY <2>8 DEF Carries, Carried
    <3>2. \A n \in Slot : child.buf[n] = NoByte
      BY <1>9, <1>2, <1>10 DEF Listening
    <3>3. base \in Int /\ end \in Nat  BY <2>9
    <3> HIDE DEF base, end
    <3>4. RingHolds(child, c, base, end)
      BY <1>1, <1>9, <3>1, <3>2, <3>3, RingEmpty
    <3>5. RingHolds(sock'[k], c, Base(c)', End(c)')
      BY <2>3, <2>9, <3>4 DEF base, end
    <3> QED  BY <1>9, <2>3, <3>5 DEF Ring
  <2>11. \A g \in Clients : ClientInv(g)'
    <3>1. Streams(c) => sock'[Server].rcv_nxt = Base(c)
      BY <1>1, <1>8, <1>10, <2>3, <2>7 DEF ClientInv, Greeted
    <3>2. sock'[Server].peer = c  BY <1>1, <1>8, <2>3, <2>7
    <3>3. \A q \in Peers(c)' : Ring(c, q)'  BY <2>5, <2>10
    <3>4. Peers(c)' # {}  BY <2>5
    <3>5. UNCHANGED <<cpc, maxSend, spc>>  BY <1>2
    <3> QED  BY <1>1, <1>5, <2>3, <2>5, <2>6, <2>7, <2>8, <3>1, <3>2, <3>3, <3>4, <3>5,
                ListenerMoves
  <2>12. Listening'
    <3>1. synRcvdList' = {}  BY <2>1, <2>7
    <3>2. \A r \in Children \cup {Server} : \A e \in Logged(sock'[r]) : "ACK" \in e.flags
      <4>1. Logged(child) = {}  BY <1>9 DEF Logged
      <4>2. Logged(parent) \subseteq Logged(sock[Server])
        BY <1>1, <1>4, <1>8 DEF Logged
      <4> QED  BY <1>10, <2>3, <4>1, <4>2 DEF Listening
    <3>3. \A q \in establishedTable' \cap Children : sock'[q].peer \in Clients
      <4>1. \A q \in establishedTable' \cap Children :
              q = k \/ (q \in establishedTable \cap Children /\ sock'[q] = sock[q])
        BY <2>1, <2>4
      <4>2. sock'[k].peer \in Clients  BY <1>9, <2>3
      <4> QED  BY <1>10, <4>1, <4>2 DEF Listening
    <3>4. spc' # "start"  BY <1>1, <1>2, <1>10 DEF Listening
    <3>5. sock'[Server].head = 0 /\ sock'[Server].tail = 0
          /\ sock'[Server].TCPState = "LISTEN"
      BY <1>1, <1>8, <1>10, <2>3 DEF Listening
    <3> QED  BY <3>1, <3>2, <3>3, <3>4, <3>5 DEF Listening
  <2>13. \A g \in Clients : Base(g)' = Base(g) /\ End(g)' = End(g) /\ End(g) \in Nat
    BY <1>2, <2>3, StreamTypes DEF Base, End, FirstByte, Closing
  <2>14. \A g \in Clients : Base(g)' = Base(g) /\ End(g) <= End(g)'  BY <2>13
  <2>15. /\ acceptList' \subseteq Children
         /\ spc # "done" => acceptList' \subseteq establishedTable'
         /\ establishedTable \cap Children \subseteq establishedTable'
    BY <1>10, <2>1 DEF Reading
  <2>16. Reading'
    BY <1>2, <1>10, <2>4, <2>14, <2>15, ReadingMore
  <2> QED  BY <2>11, <2>12, <2>16 DEF StreamInv
<1> QED  BY <1>11, <1>12

LEMMA StreamInit == ASSUME Init, TypeOK PROVE StreamInv
<1>1. \A s \in Sock :
        /\ sock[s].peer = IF s \in Clients THEN Server ELSE NoPeer
        /\ sock[s].TCPState = "CLOSED" /\ sock[s].sendBuffer = <<>>
        /\ sock[s].head = 0 /\ sock[s].tail = 0
  BY SockCases DEF Init, alloc_tcp_sock
<1>2. /\ listenTable = {} /\ establishedTable = {} /\ synRcvdList = {} /\ acceptList = {}
      /\ \A c \in Clients : cpc[c] = "start"
      /\ \A h \in Hosts : net[h] = <<>>
      /\ spc = "start" /\ delivered = <<>>
  BY DEF Init
<1>3. \A s \in Sock : Logged(sock[s]) = {}  BY <1>1 DEF Logged
<1>4. \A h \in Hosts : InFlight(h) = {}  BY <1>2 DEF InFlight, On
<1>5. /\ Clients \subseteq Sock /\ Clients \subseteq Hosts /\ Children \subseteq Sock
      /\ Server \in Sock /\ Server \in Hosts /\ Server \notin Clients
  BY SockCases
<1>6. ASSUME NEW c \in Clients PROVE ClientInv(c)
  <2>1. Base(c) = sock[c].snd_nxt /\ End(c) = sock[c].snd_nxt /\ ~Closing(c) /\ Peers(c) = {}
    BY <1>2 DEF Base, End, Closing, Peers
  <2>2. sock[c].snd_nxt \in Nat /\ Window \in Nat  BY StreamTypes, WindowSize
  <2>3. Sending(c)  BY <1>2, <1>3, <1>4, <1>5, <2>1, <2>2 DEF Sending
  <2>4. Allowed(c, End(c))  BY <2>1, <2>2 DEF Allowed
  <2>5. Offered(c)  BY <1>1, <1>2, <1>4, <1>5, <2>4 DEF Offered
  <2>6. sock[Server].peer # c  BY <1>1, <1>5, SockCases
  <2>7. Untouched(c)  BY <1>1, <1>2, <1>3, <1>4, <1>5 DEF Untouched
  <2>8. Greeted(c)  BY <2>1, <2>6, <2>7 DEF Greeted
  <2> QED  BY <2>1, <2>3, <2>5, <2>8 DEF ClientInv
<1>7. Listening  BY <1>1, <1>2, <1>3, <1>5 DEF Listening
<1>8. DeliveredInOrder  BY <1>2 DEF DeliveredInOrder
<1>9. Reading  BY <1>2, <1>8 DEF Reading
<1> QED  BY <1>6, <1>7, <1>9 DEF StreamInv

\* One step of the receiver thread of host h
LEMMA StreamReceive ==
  ASSUME TypeOK, TypeOK', ChildrenApart, SendBuffersUnbroken, ConnInv, StreamInv,
         NEW h \in Hosts, Receive(h)
  PROVE  StreamInv'
<1>1. PICK i \in DOMAIN net[h] : ReceiveAt(h, i)  BY DEF Receive
<1>2. CASE ReceiveNoSocket(h, i) \/ \E s \in Sock : ReceiveSYN4NoChild(h, i, s)
  BY <1>2, StreamDropped
<1>3. ASSUME NEW s \in Sock
      PROVE  /\ ToEstablished(h, i, s) => (s \in Clients /\ h = s) \/ s \in Children
             /\ ToListener(h, i, s) => s = h
  BY Receiver
<1>4. \A c \in Clients : ClientLife(c)  BY DEF ConnInv, Lives
<1>5. ASSUME NEW s \in Sock, ReceiveFIN1(h, i, s) PROVE StreamInv'
  <2>1. ToEstablished(h, i, s) /\ sock[s].TCPState = "ESTABLISHED" /\ "FIN" \in net[h][i].flags
    BY <1>5 DEF ReceiveFIN1
  <2>2. s \in Clients => cpc[s] = "close"  BY <2>1, NoEarlyFin
  <2>3. s \in Children  BY <1>3, <1>4, <2>1, <2>2 DEF ClientLife
  <2> QED  BY <1>5, <2>3, ChildFIN1
<1>6. ASSUME NEW s \in Sock, ReceiveData(h, i, s) PROVE StreamInv'
  <2>1. ToEstablished(h, i, s)  BY <1>6 DEF ReceiveData
  <2> QED  BY <1>3, <1>6, <2>1, ClientData, ChildData
<1>7. ASSUME NEW s \in Sock, ReceiveFIN2(h, i, s) \/ ReceiveFIN3(h, i, s) PROVE StreamInv'
  <2>1. ToEstablished(h, i, s) /\ sock[s].TCPState \in {"FIN_WAIT_1", "FIN_WAIT_2"}
    BY <1>7 DEF ReceiveFIN2, ReceiveFIN3
  <2>2. s \notin Children  BY <2>1 DEF ConnInv, Lives
  <2> QED  BY <1>3, <1>7, <2>1, <2>2, ClientFIN2, ClientFIN3
<1>8. ASSUME NEW s \in Sock, ReceiveFIN4(h, i, s) PROVE StreamInv'
  <2>1. ToEstablished(h, i, s) /\ sock[s].TCPState = "LAST_ACK"
    BY <1>8 DEF ReceiveFIN4
  <2>2. s \in Clients => cpc[s] \in {"connected", "write", "sleep", "close"}
    BY <2>1, NoEarlyFin
  <2>3. s \in Children  BY <1>3, <1>4, <2>1, <2>2 DEF ClientLife
  <2> QED  BY <1>8, <2>3, ChildFIN4
<1>9. ASSUME NEW s \in Sock, ReceiveOnlyAck(h, i, s) PROVE StreamInv'
  <2>1. ToEstablished(h, i, s)  BY <1>9 DEF ReceiveOnlyAck
  <2> QED  BY <1>3, <1>9, <2>1, ClientIgnore, ChildIgnore
<1>10. ASSUME NEW s \in Sock, ReceiveBeforeMove(h, i, s) \/ ReceiveSYN3(h, i, s)
       PROVE  StreamInv'
  <2>1. ToListener(h, i, s) /\ sock[s].TCPState \in {"ESTABLISHED", "SYN_SENT"}
    BY <1>10 DEF ReceiveBeforeMove, ReceiveSYN3
  <2>2. s = h /\ s # Server  BY <1>3, <2>1 DEF ConnInv, Lives
  <2>3. s \in Clients  BY <2>2, SockCases
  <2> QED  BY <1>10, <2>2, <2>3, ClientIgnore, ClientSYN3
<1>11. ASSUME NEW s \in Sock, NEW k \in Children,
              ReceiveSYN1(h, i, s, k) \/ ReceiveSYN4(h, i, s, k)
       PROVE  StreamInv'
  BY <1>11, StreamSYN1, StreamSYN4
<1> QED
  BY <1>1, <1>2, <1>5, <1>6, <1>7, <1>8, <1>9, <1>10, <1>11 DEF ReceiveAt

LEMMA StreamNext ==
  ASSUME TypeOK, WritesItsFile, ChildrenApart, SendBuffersUnbroken, ConnInv, StreamInv,
         [Next]_vars
  PROVE  StreamInv'
<1>1. TypeOK'  BY TypeStep
<1>2. CASE UNCHANGED vars
  BY <1>1, <1>2, StreamStill DEF vars, InFlight
<1>3. ASSUME NEW c \in Clients, Client(c) PROVE StreamInv'
  BY <1>1, <1>3, ClientConnectStep, ClientWriteStep, ClientCloseStep, ClientQuiet DEF Client
<1>4. CASE ServerApp
  BY <1>1, <1>4, StreamServerListen, StreamServerWaits, StreamServerRead, StreamServerClose
     DEF ServerApp
<1>5. ASSUME NEW h \in Hosts, Receive(h) PROVE StreamInv'  BY <1>1, <1>5, StreamReceive
<1>6. ASSUME NEW h \in Hosts, Network(h) PROVE StreamInv'
  BY <1>1, <1>6, StreamDropped, StreamDuplicate DEF Network
<1>7. ASSUME NEW s \in Sock, AckTimeOut(s) PROVE StreamInv'
  BY <1>1, <1>7, SockCases, ClientAckTimeOut, ListenerAckTimeOut, ChildAckTimeOut
<1>8. ASSUME NEW s \in Sock, TimeWaitOver(s) PROVE StreamInv'
  <2>1. s \in Clients
    BY <1>8, SockCases DEF TimeWaitOver, ConnInv, Lives
  <2> QED  BY <1>1, <1>8, <2>1, ClientQuiet
<1> QED  BY <1>2, <1>3, <1>4, <1>5, <1>6, <1>7, <1>8 DEF Next

\* What the theorems about the stream rest on
LEMMA StreamCorrect == Spec => [](TypeOK /\ SendBuffersUnbroken /\ ConnInv /\ StreamInv)
<1> DEFINE Inv == /\ TypeOK /\ WritesItsFile /\ ChildrenApart /\ SendBuffersUnbroken
                  /\ ConnInv /\ StreamInv
<1>1. Init => Inv
  BY TypeInit, ConnInit, UnbrokenInit, StreamInit DEF Init, ChildrenApart
<1>2. Inv /\ [Next]_vars => Inv'
  <2> SUFFICES ASSUME Inv, [Next]_vars PROVE Inv'
    OBVIOUS
  <2>1. TypeOK' /\ WritesItsFile'  BY TypeStep
  <2>2. ChildrenApart'  BY TablesStep DEF ChildrenApart
  <2> QED  BY <2>1, <2>2, UnbrokenNext, ConnNext, StreamNext
<1>3. Inv => TypeOK /\ SendBuffersUnbroken /\ ConnInv /\ StreamInv  OBVIOUS
<1> QED  BY <1>1, <1>2, <1>3, PTL DEF Spec

\* What the ring of its child means to a client that transfers
LEMMA RingOf ==
  ASSUME TypeOK, ConnInv, StreamInv, NEW c \in Clients, NEW k \in Peers(c), Streams(c)
  PROVE  /\ RingHolds(sock[k], c, Base(c), End(c))
         /\ sock[k].tail <= sock[k].head + Window
         /\ End(c) <= sock[k].head + RINGBUFFER_SIZE
<1>1. sock[k] \in tcp_sock  BY SockCases, SockType DEF Peers
<1>2. Base(c) \in Int /\ End(c) \in Nat /\ RingHolds(sock[k], c, Base(c), End(c))
  BY StreamTypes DEF StreamInv, ClientInv, Ring
<1>3. End(c) <= Base(c) + Window \/ End(c) <= sock[k].head + Window
  <2>1. \A q \in Peers(c) : q = k  BY OnePeer
  <2>2. Allowed(c, End(c))  BY DEF StreamInv, ClientInv, Offered
  <2> QED  BY <2>1, <2>2 DEF Allowed
<1> DEFINE sk == sock[k]  b == Base(c)  e == End(c)
<1>4. /\ sk \in tcp_sock /\ b \in Int /\ e \in Nat /\ RingHolds(sk, c, b, e)
      /\ e <= b + Window \/ e <= sk.head + Window
  BY <1>1, <1>2, <1>3
<1> HIDE DEF sk, b, e
<1>5. sk.tail <= sk.head + Window /\ e <= sk.head + RINGBUFFER_SIZE
  BY <1>4, RingRoom
<1> QED  BY <1>2, <1>5 DEF sk, e

\* What a client sends ends within one lap of its child's head.
LEMMA EndsInLap ==
  ASSUME TypeOK, ConnInv, StreamInv, NEW c \in Clients, NEW k \in Peers(c), ~Closing(c),
         NEW e, e.seq \in Nat, e.data \in Seq(Byte), Carries(c, e)
  PROVE  e.seq + Len(e.data) <= sock[k].head + RINGBUFFER_SIZE
<1>1. End(c) <= sock[k].head + RINGBUFFER_SIZE  BY RingOf DEF Streams
<1>2. End(c) = sock[c].snd_nxt /\ End(c) \in Nat  BY StreamTypes DEF End
<1>3. sock[k].head \in Nat /\ RINGBUFFER_SIZE \in Nat
  BY SockCases, SockType, RingSize DEF Peers, tcp_sock
<1>4. Len(e.data) \in Nat  OBVIOUS
<1>5. CASE e.data = <<>>
  <2>1. Len(e.data) = 0 /\ e.seq <= End(c)  BY <1>2, <1>5 DEF Carries
  <2> QED  BY <1>1, <1>2, <1>3, <2>1
<1>6. CASE e.data # <<>>
  <2>1. e.seq + Len(e.data) <= End(c)  BY <1>6 DEF Carries, Carried
  <2> QED  BY <1>1, <1>2, <1>3, <1>4, <2>1
<1> QED  BY <1>5, <1>6

\* The receive window keeps the sender within one lap of the ring, so no slot
\* that tcp_sock_read has not emptied is ever written again.
THEOREM WithinOneLapCorrect == Spec => []WithinOneLap
<1>1. ASSUME TypeOK, ConnInv, StreamInv, NEW c \in Clients, NEW k \in Peers(c),
             sock[c].TCPState = "ESTABLISHED"
      PROVE  /\ \A i \in DOMAIN sock[c].sendBuffer :
                  LET e == sock[c].sendBuffer[i]
                  IN  e.seq + Len(e.data) <= sock[k].head + RINGBUFFER_SIZE
             /\ \A i \in DOMAIN net[Server] :
                  LET p == net[Server][i]
                  IN  p.src = c => p.seq + Len(p.data) <= sock[k].head + RINGBUFFER_SIZE
  <2>1. ~Closing(c)  BY <1>1 DEF ConnInv, Lives, ClientLife, Closing
  <2>2. /\ \A e \in Logged(sock[c]) : Carries(c, e)
        /\ \A m \in InFlight(Server) : m.src = c => Carries(c, m)
    BY <1>1 DEF StreamInv, ClientInv, Sending
  <2>3. c \in Sock /\ Server \in Hosts  BY SockCases
  <2>4. ASSUME NEW i \in DOMAIN sock[c].sendBuffer
        PROVE  sock[c].sendBuffer[i].seq + Len(sock[c].sendBuffer[i].data)
                 <= sock[k].head + RINGBUFFER_SIZE
    <3> DEFINE e == Logging(sock[c].sendBuffer[i])
    <3>1. e \in Logged(sock[c])  BY DEF Logged
    <3>2. e.seq = sock[c].sendBuffer[i].seq /\ e.data = sock[c].sendBuffer[i].data
      BY DEF Logging
    <3> HIDE DEF e
    <3>3. e.seq \in Nat /\ e.data \in Seq(Byte) /\ Carries(c, e)
      BY <1>1, <2>2, <2>3, <3>1, CarrierTypes
    <3>4. e.seq + Len(e.data) <= sock[k].head + RINGBUFFER_SIZE
      BY <1>1, <2>1, <3>3, EndsInLap
    <3> QED  BY <3>2, <3>4
  <2>5. ASSUME NEW i \in DOMAIN net[Server], net[Server][i].src = c
        PROVE  net[Server][i].seq + Len(net[Server][i].data) <= sock[k].head + RINGBUFFER_SIZE
    <3> DEFINE m == net[Server][i]
    <3>1. m \in InFlight(Server) /\ m.src = c  BY <2>5 DEF InFlight, On
    <3> HIDE DEF m
    <3>2. m.seq \in Nat /\ m.data \in Seq(Byte) /\ Carries(c, m)
      BY <1>1, <2>2, <2>3, <3>1, CarrierTypes
    <3>3. m.seq + Len(m.data) <= sock[k].head + RINGBUFFER_SIZE
      BY <1>1, <2>1, <3>2, EndsInLap
    <3> QED  BY <3>3 DEF m
  <2> QED  BY <2>4, <2>5
<1>2. TypeOK /\ ConnInv /\ StreamInv => WithinOneLap
  BY <1>1 DEF WithinOneLap
<1> QED  BY <1>2, StreamCorrect, PTL

\* Whatever the network loses, duplicates or delays, tcp_sock_read gives the
\* application consecutive bytes of one client's file.
THEOREM DeliveryCorrect == Spec => []DeliveredInOrder
<1>1. StreamInv => DeliveredInOrder  BY DEF StreamInv, Reading
<1> QED  BY <1>1, StreamCorrect, PTL

\* Every number from the first logged one to snd_nxt is in some entry.
LEMMA EntryAt ==
  ASSUME NEW sk \in tcp_sock, SendBufferUnbroken(sk), NEW n \in Int,
         FirstLogged(sk) <= n, n < sk.snd_nxt
  PROVE  \E i \in DOMAIN sk.sendBuffer :
           /\ sk.sendBuffer[i].seq <= n
           /\ n < sk.sendBuffer[i].seq + Span(sk.sendBuffer[i])
<1> DEFINE b == sk.sendBuffer
           S == {i \in 1 .. Len(b) : n < b[i].seq + Span(b[i])}
<1>1. b \in Seq(TCPPacketInfo_c) /\ Len(b) \in Nat /\ DOMAIN b = 1 .. Len(b)
      /\ sk.snd_nxt \in Nat
  BY DEF tcp_sock
<1>2. \A i \in 1 .. Len(b) : b[i].seq \in Nat /\ Span(b[i]) \in Nat
  <2>1. \A i \in 1 .. Len(b) : b[i] \in TCPPacketInfo_c  BY <1>1
  <2> QED  BY <2>1, SpanType DEF TCPPacketInfo_c
<1>3. b # <<>> /\ b[1].seq <= n /\ Len(b) \in 1 .. Len(b)
  <2>1. b # <<>>  BY <1>1 DEF FirstLogged
  <2> QED  BY <1>1, <2>1 DEF FirstLogged
<1>4. \A i \in 1 .. Len(b) :
        b[i].seq + Span(b[i]) = IF i = Len(b) THEN sk.snd_nxt ELSE b[i + 1].seq
  BY <1>1 DEF SendBufferUnbroken
<1> HIDE DEF b
<1>5. S \in SUBSET Nat /\ S # {}
  <2>1. Len(b) \in S  BY <1>3, <1>4
  <2> QED  BY <2>1
<1>6. PICK i \in S : \A j \in S : i <= j
  <2> HIDE DEF S
  <2> QED  BY <1>5, LeastExists
<1>7. i \in 1 .. Len(b) /\ n < b[i].seq + Span(b[i])  BY <1>6
<1>8. b[i].seq <= n
  <2>1. CASE i = 1  BY <1>3, <2>1
  <2>2. CASE i # 1
    <3>1. i - 1 \in 1 .. Len(b) /\ i - 1 # Len(b) /\ (i - 1) + 1 = i
      BY <1>1, <1>7, <2>2
    <3>2. i - 1 \notin S  BY <1>1, <1>6, <1>7
    <3>3. b[i - 1].seq + Span(b[i - 1]) = b[i].seq  BY <1>4, <3>1
    <3>4. ~(n < b[i].seq)  BY <3>1, <3>2, <3>3
    <3> QED  BY <1>2, <1>7, <3>4
  <2> QED  BY <2>1, <2>2
<1> QED  BY <1>1, <1>7, <1>8 DEF b

\* A byte that the client counts as acknowledged, or that it can no longer
\* resend, has reached the server's ring: no loss is ever beyond repair.
THEOREM AcknowledgedCorrect == Spec => []AckedIsReceived
<1>1. ASSUME TypeOK, SendBuffersUnbroken, ConnInv, StreamInv,
             NEW c \in Clients, NEW k \in Peers(c), cpc[c] \in {"write", "sleep"},
             NEW n \in FirstByte(c) .. sock[c].snd_nxt - 1, ~(n < sock[k].tail)
      PROVE  /\ n >= sock[c].snd_una
             /\ \E i \in DOMAIN sock[c].sendBuffer :
                  LET e == sock[c].sendBuffer[i]
                  IN  e.seq <= n /\ n < e.seq + Len(e.data)
  <2>1. /\ ~Closing(c) /\ cpc[c] # "start" /\ sock[c].TCPState = "ESTABLISHED"
        /\ Base(c) = FirstByte(c)
    BY <1>1 DEF Closing, Base, ConnInv, Lives, ClientLife
  <2>2. /\ c \in Sock /\ sock[c] \in tcp_sock /\ SendBufferUnbroken(sock[c])
        /\ Base(c) \in Int /\ sock[c].snd_nxt \in Nat /\ sock[c].snd_una \in Nat
        /\ FirstLogged(sock[c]) \in Nat
    BY <1>1, SockCases, StreamTypes DEF SendBuffersUnbroken
  <2>3. n \in Int /\ Base(c) <= n /\ n < sock[c].snd_nxt
    BY <1>1, <2>1, <2>2
  <2>4. \A q \in Peers(c) : q = k  BY <1>1, OnePeer
  <2>5. sock[k].tail \in Nat /\ sock[k].tail <= n
    <3>1. sock[k].tail \in Nat  BY <1>1, SockCases, SockType DEF Peers, tcp_sock
    <3> QED  BY <1>1, <2>3, <3>1
  <2>6. \A m \in Int : Reached(c, m) => m <= n
    BY <2>2, <2>3, <2>4, <2>5 DEF Reached
  <2>7. sock[c].snd_una <= n /\ FirstLogged(sock[c]) <= n
    <3>1. Reached(c, sock[c].snd_una) /\ Reached(c, FirstLogged(sock[c]))
      BY <1>1, <2>1 DEF StreamInv, ClientInv, Offered
    <3> QED  BY <2>2, <2>6, <3>1
  <2>8. PICK i \in DOMAIN sock[c].sendBuffer :
          /\ sock[c].sendBuffer[i].seq <= n
          /\ n < sock[c].sendBuffer[i].seq + Span(sock[c].sendBuffer[i])
    <3> DEFINE sk == sock[c]
    <3>1. /\ sk \in tcp_sock /\ SendBufferUnbroken(sk) /\ FirstLogged(sk) <= n
          /\ n < sk.snd_nxt /\ n \in Int
      BY <2>2, <2>3, <2>7
    <3> HIDE DEF sk
    <3>2. \E i \in DOMAIN sk.sendBuffer :
            /\ sk.sendBuffer[i].seq <= n
            /\ n < sk.sendBuffer[i].seq + Span(sk.sendBuffer[i])
      BY <3>1, EntryAt
    <3> QED  BY <3>2 DEF sk
  <2> DEFINE e == Logging(sock[c].sendBuffer[i])
  <2>9. /\ e \in Logged(sock[c]) /\ e.seq = sock[c].sendBuffer[i].seq
        /\ e.data = sock[c].sendBuffer[i].data /\ e.flags = sock[c].sendBuffer[i].flags
    BY DEF Logging, Logged
  <2>10. e.seq <= n /\ n < e.seq + Span(e)
    <3>1. Span(e) = Span(sock[c].sendBuffer[i])  BY <2>9 DEF Span
    <3> QED  BY <2>8, <2>9, <3>1
  <2> HIDE DEF e
  <2>11. e.seq \in Nat /\ Len(e.data) \in Nat  BY <1>1, <2>2, <2>9, CarrierTypes
  <2>12. Carried(e, c, Base(c), End(c))
    BY <1>1, <2>9 DEF StreamInv, ClientInv, Sending, Carries
  <2>13. "FIN" \notin e.flags  BY <1>1, <2>1, <2>9 DEF ConnInv, Fins, HasFin
  <2>14. "SYN" \notin e.flags
    <3> SUFFICES ASSUME "SYN" \in e.flags PROVE FALSE
      OBVIOUS
    <3>1. e.seq + 1 = Base(c) /\ Len(e.data) = 0  BY <2>12 DEF Carried
    <3>2. e.flags \cap {"SYN", "FIN"} # {}  OBVIOUS
    <3>3. Span(e) = 0 + 1  BY <3>1, <3>2 DEF Span
    <3> QED  BY <2>2, <2>3, <2>10, <2>11, <3>1, <3>3
  <2>15. Span(e) = Len(e.data) + 0  BY <2>13, <2>14 DEF Span
  <2>16. Span(e) = Len(e.data)  BY <2>11, <2>15
  <2> QED  BY <2>2, <2>3, <2>7, <2>9, <2>10, <2>16
<1>2. TypeOK /\ SendBuffersUnbroken /\ ConnInv /\ StreamInv => AckedIsReceived
  BY <1>1 DEF AckedIsReceived
<1> QED  BY <1>2, StreamCorrect, PTL

-----------------------------------------------------------------------------
(* The steps of TCPProtocol as steps of OrderedStream.                     *)

\* What a client has written lies between the start of its file and snd_nxt.
LEMMA WrittenIs ==
  ASSUME TypeOK, WritesItsFile, ConnInv, StreamInv, NEW c \in Clients
  PROVE  Written(c) \in 0 .. FileLen /\ End(c) = Base(c) + Written(c)
<1>1. /\ sock[c].snd_nxt \in Nat /\ maxSend[c] \in Nat /\ FileLen \in Nat
      /\ cpc[c] \in {"start", "connect", "connected", "write", "sleep", "close", "done"}
  BY StreamTypes, ProtocolAssumption DEF TypeOK
<1>2. /\ cpc[c] = "write" => sock[c].snd_nxt <= maxSend[c]
      /\ cpc[c] = "write" => maxSend[c] <= sock[c].snd_nxt + FileLen
      /\ cpc[c] = "sleep" => sock[c].snd_nxt = maxSend[c]
  BY DEF WritesItsFile, ConnInv, Lives, ClientLife, StreamInv, ClientInv, Sending
<1> QED  BY <1>1, <1>2 DEF Written, Remaining, End, Base, FirstByte, Closing

\* The places of a client's application, and what each step between them does
LEMMA ClientGoesOn ==
  ASSUME TypeOK, [Next]_vars, NEW c \in Clients
  PROVE  \/ cpc'[c] = cpc[c] /\ maxSend'[c] = maxSend[c]
         \/ /\ cpc[c] \in {"start", "connect"} /\ cpc'[c] \in {"connect", "connected"}
         \/ /\ cpc[c] = "connected" /\ cpc'[c] = "write" /\ sock' = sock
            /\ maxSend'[c] = sock[c].snd_nxt + FileLen
         \/ /\ cpc[c] = "write" /\ cpc'[c] = "sleep"
            /\ sock' = sock /\ maxSend'[c] = maxSend[c]
         \/ cpc[c] \in {"sleep", "close"} /\ cpc'[c] \in {"close", "done"}
<1>1. CASE cpc' = cpc /\ maxSend' = maxSend  BY <1>1
<1>2. ASSUME NEW d \in Clients, Client(d)
      PROVE  \/ cpc'[c] = cpc[c] /\ maxSend'[c] = maxSend[c]
             \/ /\ cpc[c] \in {"start", "connect"} /\ cpc'[c] \in {"connect", "connected"}
             \/ /\ cpc[c] = "connected" /\ cpc'[c] = "write" /\ sock' = sock
                /\ maxSend'[c] = sock[c].snd_nxt + FileLen
             \/ /\ cpc[c] = "write" /\ cpc'[c] = "sleep"
                /\ sock' = sock /\ maxSend'[c] = maxSend[c]
             \/ cpc[c] \in {"sleep", "close"} /\ cpc'[c] \in {"close", "done"}
  <2>1. cpc \in [Clients -> {"start", "connect", "connected", "write", "sleep",
                             "close", "done"}] /\ maxSend \in [Clients -> Nat]
    BY DEF TypeOK
  <2>2. CASE ClientConnect(d)  BY <2>1, <2>2 DEF ClientConnect
  <2>3. CASE ClientConnected(d)  BY <2>1, <2>3 DEF ClientConnected, CanReturn
  <2>4. CASE ClientWriteBegin(d)  BY <2>1, <2>4 DEF ClientWriteBegin
  <2>5. CASE ClientWrite(d)  BY <2>5 DEF ClientWrite, apps
  <2>6. CASE ClientWritten(d)  BY <2>1, <2>6 DEF ClientWritten
  <2>7. CASE ClientClose(d)  BY <2>1, <2>7 DEF ClientClose
  <2>8. CASE ClientClosed(d)  BY <2>1, <2>8 DEF ClientClosed
  <2> QED  BY <1>2, <2>2, <2>3, <2>4, <2>5, <2>6, <2>7, <2>8 DEF Client
<1>3. CASE UNCHANGED vars  BY <1>1, <1>3 DEF vars, apps
<1>4. CASE ServerApp
  BY <1>1, <1>4 DEF ServerApp, ServerListen, ServerAccept, ServerReadSleep,
                    ServerReadWake, ServerRead, ServerClose
<1>5. ASSUME NEW h \in Hosts, Receive(h) PROVE cpc' = cpc /\ maxSend' = maxSend
  BY <1>5 DEF Receive, ReceiveAt, ReceiveNoSocket, ReceiveSYN1, ReceiveSYN4,
              ReceiveFIN1, ReceiveData, ReceiveFIN2, ReceiveFIN3, ReceiveFIN4,
              ReceiveOnlyAck, ReceiveSYN3, ReceiveBeforeMove, ReceiveSYN4NoChild,
              Handle, apps
<1>6. ASSUME NEW h \in Hosts, Network(h) PROVE cpc' = cpc /\ maxSend' = maxSend
  BY <1>6 DEF Network, Lose, Duplicate, apps
<1>7. ASSUME NEW s \in Sock, AckTimeOut(s) \/ TimeWaitOver(s)
      PROVE  cpc' = cpc /\ maxSend' = maxSend
  BY <1>7 DEF AckTimeOut, TimeWaitOver, apps
<1> QED  BY <1>1, <1>2, <1>3, <1>4, <1>5, <1>6, <1>7 DEF Next

\* Nothing that was written is taken back.
LEMMA WrittenGrows ==
  ASSUME TypeOK, WritesItsFile, ConnInv, StreamInv, TypeOK', WritesItsFile', ConnInv',
         StreamInv', [Next]_vars, NEW c \in Clients
  PROVE  Written(c)' \in 0 .. FileLen /\ Written(c) <= Written(c)'
<1>1. /\ sock[c].snd_nxt \in Nat /\ maxSend[c] \in Nat /\ FileLen \in Nat
      /\ cpc[c] \in {"start", "connect", "connected", "write", "sleep", "close", "done"}
  BY StreamTypes, ProtocolAssumption DEF TypeOK
<1>2. /\ cpc[c] = "write" => maxSend[c] <= sock[c].snd_nxt + FileLen
      /\ cpc[c] = "write" => sock[c].snd_nxt <= maxSend[c]
      /\ cpc[c] = "sleep" => sock[c].snd_nxt = maxSend[c]
  BY DEF WritesItsFile, ConnInv, Lives, ClientLife, StreamInv, ClientInv, Sending
<1>3. /\ sock'[c].snd_nxt \in Nat /\ maxSend'[c] \in Nat
      /\ cpc'[c] \in {"start", "connect", "connected", "write", "sleep", "close", "done"}
  BY StreamTypesNext DEF TypeOK
<1>4. /\ cpc'[c] = "write" => maxSend'[c] <= sock'[c].snd_nxt + FileLen
      /\ cpc'[c] = "write" => sock'[c].snd_nxt <= maxSend'[c]
      /\ cpc'[c] = "sleep" => sock'[c].snd_nxt = maxSend'[c]
  BY DEF WritesItsFile, ConnInv, Lives, ClientLife, StreamInv, ClientInv, Sending
<1>5. sock[c].snd_nxt <= sock'[c].snd_nxt
  <2>1. SocketStep  BY NextSocketStep
  <2>2. c \in Sock /\ c \notin Children  BY SockCases
  <2> QED  BY <2>1, <2>2 DEF SocketStep, Advances
<1> DEFINE w == Written(c)  v == Written(c)'
<1>6. /\ cpc[c] \in {"start", "connect", "connected"} => w = 0
      /\ cpc[c] \in {"write", "sleep"} => w = FileLen - (maxSend[c] - sock[c].snd_nxt)
      /\ cpc[c] \in {"close", "done"} => w = FileLen
  BY <1>1 DEF Written, Remaining
<1>7. /\ cpc'[c] \in {"start", "connect", "connected"} => v = 0
      /\ cpc'[c] \in {"write", "sleep"} => v = FileLen - (maxSend'[c] - sock'[c].snd_nxt)
      /\ cpc'[c] \in {"close", "done"} => v = FileLen
  BY <1>3 DEF Written, Remaining
<1> HIDE DEF w, v
<1>8. v \in 0 .. FileLen  BY <1>1, <1>3, <1>4, <1>7
<1>9. w <= v
  <2>1. CASE cpc'[c] = cpc[c] /\ maxSend'[c] = maxSend[c]
    BY <1>1, <1>2, <1>3, <1>4, <1>5, <1>6, <1>7, <2>1
  <2>2. CASE cpc[c] \in {"start", "connect"}  BY <1>1, <1>6, <1>8, <2>2
  <2>3. CASE cpc[c] = "connected"  BY <1>1, <1>6, <1>8, <2>3
  <2>4. CASE cpc[c] = "write" /\ cpc'[c] = "sleep" /\ sock' = sock /\ maxSend'[c] = maxSend[c]
    BY <1>1, <1>6, <1>7, <2>4
  <2>5. CASE cpc[c] \in {"sleep", "close"} /\ cpc'[c] \in {"close", "done"}
    BY <1>1, <1>2, <1>6, <1>7, <2>5
  <2> QED  BY ClientGoesOn, <2>1, <2>2, <2>3, <2>4, <2>5
<1> QED  BY <1>8, <1>9 DEF w, v

\* A step changes the socket or the application of one client at most.
LEMMA OneMoves ==
  ASSUME TypeOK, Next
  PROVE  \E s \in Sock : \A c \in Clients \ {s} :
           sock'[c] = sock[c] /\ cpc'[c] = cpc[c] /\ maxSend'[c] = maxSend[c]
<1>1. /\ sock \in [Sock -> tcp_sock] /\ maxSend \in [Clients -> Nat]
      /\ cpc \in [Clients -> {"start", "connect", "connected", "write", "sleep",
                              "close", "done"}]
      /\ Clients \subseteq Sock
      /\ Server \in Sock /\ Children \subseteq Sock /\ Clients \cap Children = {}
  BY SockCases DEF TypeOK
<1>2. ASSUME NEW s \in Sock, NEW result, NEW flight, Commit(s, result, flight)
      PROVE  \A c \in Clients \ {s} : sock'[c] = sock[c]
  BY <1>1, <1>2 DEF Commit
<1>3. ASSUME NEW d \in Clients, Client(d)
      PROVE  \A c \in Clients \ {d} :
               sock'[c] = sock[c] /\ cpc'[c] = cpc[c] /\ maxSend'[c] = maxSend[c]
  <2>1. CASE ClientConnect(d)  BY <1>1, <1>2, <2>1 DEF ClientConnect
  <2>2. CASE ClientConnected(d)  BY <1>1, <2>2 DEF ClientConnected
  <2>3. CASE ClientWriteBegin(d)  BY <1>1, <2>3 DEF ClientWriteBegin
  <2>4. CASE ClientWrite(d)  BY <1>1, <1>2, <2>4 DEF ClientWrite, apps
  <2>5. CASE ClientWritten(d)  BY <1>1, <2>5 DEF ClientWritten
  <2>6. CASE ClientClose(d)  BY <1>1, <1>2, <2>6 DEF ClientClose
  <2>7. CASE ClientClosed(d)  BY <1>1, <2>7 DEF ClientClosed
  <2> QED  BY <1>3, <2>1, <2>2, <2>3, <2>4, <2>5, <2>6, <2>7 DEF Client
<1>4. CASE ServerApp
  <2>1. cpc' = cpc /\ maxSend' = maxSend
    BY <1>4 DEF ServerApp, ServerListen, ServerAccept, ServerReadSleep,
                ServerReadWake, ServerRead, ServerClose
  <2>2. CASE ServerListen
    <3>1. \A c \in Clients \ {Server} : sock'[c] = sock[c]  BY <1>1, <2>2 DEF ServerListen
    <3> QED  BY <1>1, <2>1, <3>1
  <2>3. CASE ServerRead
    <3>1. csk \in Sock /\ Commit(csk, Read(Enter(sock[csk])), net)
      BY <1>1, <2>3 DEF ServerRead, TypeOK
    <3>2. \A c \in Clients \ {csk} : sock'[c] = sock[c]  BY <1>2, <3>1
    <3> QED  BY <2>1, <3>1, <3>2
  <2>4. CASE sock' = sock  BY <1>1, <2>1, <2>4
  <2> QED  BY <1>4, <2>2, <2>3, <2>4
           DEF ServerApp, ServerAccept, ServerReadSleep, ServerReadWake, ServerClose
<1>5. ASSUME NEW h \in Hosts, Receive(h)
      PROVE  \E s \in Sock : \A c \in Clients \ {s} :
               sock'[c] = sock[c] /\ cpc'[c] = cpc[c] /\ maxSend'[c] = maxSend[c]
  <2>1. cpc' = cpc /\ maxSend' = maxSend
    BY <1>5 DEF Receive, ReceiveAt, ReceiveNoSocket, ReceiveSYN1, ReceiveSYN4,
                ReceiveFIN1, ReceiveData, ReceiveFIN2, ReceiveFIN3, ReceiveFIN4,
                ReceiveOnlyAck, ReceiveSYN3, ReceiveBeforeMove, ReceiveSYN4NoChild,
                Handle, apps
  <2>2. PICK i : ReceiveAt(h, i)  BY <1>5 DEF Receive
  <2>3. CASE ReceiveNoSocket(h, i)  BY <1>1, <2>1, <2>3 DEF ReceiveNoSocket
  <2>4. ASSUME NEW s \in Sock,
               \/ ReceiveFIN1(h, i, s) \/ ReceiveData(h, i, s)
               \/ ReceiveFIN2(h, i, s) \/ ReceiveFIN3(h, i, s) \/ ReceiveFIN4(h, i, s)
               \/ ReceiveOnlyAck(h, i, s)
               \/ ReceiveSYN3(h, i, s) \/ ReceiveBeforeMove(h, i, s)
        PROVE  \A c \in Clients \ {s} : sock'[c] = sock[c]
    <3>1. PICK result : Commit(s, result, Without(h, i))
      BY <2>4 DEF ReceiveFIN1, ReceiveData, ReceiveFIN2, ReceiveFIN3, ReceiveFIN4,
                  ReceiveOnlyAck, ReceiveSYN3, ReceiveBeforeMove, Handle
    <3> QED  BY <1>2, <3>1
  <2>5. ASSUME NEW s \in Sock, NEW k \in Children,
               ReceiveSYN1(h, i, s, k) \/ ReceiveSYN4(h, i, s, k)
        PROVE  \A c \in Clients \ {s} : sock'[c] = sock[c]
    BY <1>1, <2>5 DEF ReceiveSYN1, ReceiveSYN4
  <2>6. ASSUME NEW s \in Sock, ReceiveSYN4NoChild(h, i, s)
        PROVE  \A c \in Clients \ {s} : sock'[c] = sock[c]
    BY <2>6 DEF ReceiveSYN4NoChild
  <2> QED  BY <2>1, <2>2, <2>3, <2>4, <2>5, <2>6 DEF ReceiveAt
<1>6. ASSUME NEW h \in Hosts, Network(h) PROVE UNCHANGED <<sock, cpc, maxSend>>
  BY <1>6 DEF Network, Lose, Duplicate, apps
<1>7. ASSUME NEW s \in Sock, AckTimeOut(s) \/ TimeWaitOver(s)
      PROVE  \A c \in Clients \ {s} :
               sock'[c] = sock[c] /\ cpc'[c] = cpc[c] /\ maxSend'[c] = maxSend[c]
  BY <1>1, <1>2, <1>7 DEF AckTimeOut, TimeWaitOver, apps
<1> QED  BY <1>1, <1>3, <1>4, <1>5, <1>6, <1>7 DEF Next

\* What the client of a step that reads is served is the next stretch of its file.
LEMMA ReadDelivers ==
  ASSUME TypeOK, WritesItsFile, ConnInv, StreamInv, ServerRead
  PROVE  \E c \in Clients : Ordered!Deliver(c)
<1>1. csk \in establishedTable \cap Children
  BY DEF ServerRead, TypeOK, StreamInv, Reading
<1>2. sock[csk].peer \in Clients  BY <1>1 DEF StreamInv, Listening
<1>3. PICK k \in Children, c \in Clients : k = csk /\ c = sock[k].peer  BY <1>1, <1>2
<1> DEFINE b == Base(c)  e == End(c)  w == Written(c)  sk == sock[k]  h == sk.head
           n == Unread(sk)  more == UnreadBytes(sk)
<1>4. /\ spc = "read" /\ spc' = "read" /\ n > 0 /\ delivered' = delivered \o more
      /\ cpc' = cpc /\ maxSend' = maxSend /\ Commit(k, Read(Enter(sk)), net)
  BY <1>3 DEF ServerRead
<1>5. k \in Peers(c) /\ Streams(c) /\ sk \in tcp_sock /\ k \in Sock /\ k \notin Clients
  BY <1>1, <1>3, <1>4, SockCases, SockType DEF Peers, Streams
<1>6. /\ RingHolds(sk, c, b, e) /\ sk.tail <= sk.head + Window
      /\ b \in Int /\ e \in Nat /\ h \in Nat /\ sk.tail \in Nat
  BY <1>5, RingOf, StreamTypes DEF tcp_sock
<1>7. sk.tail <= sk.head + RINGBUFFER_SIZE
  BY <1>6, WindowSize, RingSize, SMTT(25)
<1>8. /\ n \in Nat /\ Len(more) = n
      /\ \A i \in 1 .. n : b <= h + i - 1 /\ h + i - 1 < e /\ more[i] = <<c, h + i - b>>
  <2> HIDE DEF b, e, sk
  <2> QED  BY <1>5, <1>6, <1>7, UnreadAre DEF h, n, more
<1>9. w \in 0 .. FileLen /\ e = b + w /\ FileLen \in Nat  BY WrittenIs, ProtocolAssumption
<1>10. delivered # <<>> => delivered[Len(delivered)] = <<c, h - b>>
  BY <1>3, <1>4 DEF StreamInv, Reading
<1>11. more = [i \in 1 .. n |-> more[i]]
  BY DEF more, n, UnreadBytes
<1>12. [g \in Clients |-> Written(g)]' = [g \in Clients |-> Written(g)]
  <2>1. PICK result : Commit(k, result, net)  BY <1>4
  <2>2. sock \in [Sock -> tcp_sock] /\ Clients \subseteq Sock  BY SockCases DEF TypeOK
  <2>3. \A g \in Clients : sock'[g] = sock[g]  BY <1>5, <2>1, <2>2 DEF Commit
  <2> QED  BY <1>4, <2>3 DEF Written, Remaining
<1> HIDE DEF b, e, w, h, n, more
<1>13. PICK first, last : first = (h - b) + 1 /\ last = (h - b) + n  OBVIOUS
<1>14. /\ first \in 1 .. FileLen /\ last \in first .. w /\ first - 1 = h - b
       /\ (last - first) + 1 = n
  <2>1. b <= h + 1 - 1 /\ h + n - 1 < e  BY <1>4, <1>8
  <2> QED  BY <1>4, <1>6, <1>8, <1>9, <1>13, <2>1
<1>15. \A i \in 1 .. n : more[i] = <<c, first + i - 1>>
  <2> SUFFICES ASSUME NEW i \in 1 .. n PROVE more[i] = <<c, first + i - 1>>
    OBVIOUS
  <2>1. first + i - 1 = h + i - b  BY <1>6, <1>8, <1>13
  <2> QED  BY <1>8, <2>1
<1>16. more = Ordered!Run(c, first, last)
  <2>1. last - first + 1 = n  BY <1>14
  <2>2. more = [i \in 1 .. n |-> <<c, first + i - 1>>]  BY <1>11, <1>15
  <2> QED  BY <2>1, <2>2 DEF Ordered!Run
<1>17. delivered # <<>> => delivered[Len(delivered)] = <<c, first - 1>>
  BY <1>10, <1>14
<1>18. ~(spc \in {"close", "done"}) /\ ~(spc' \in {"close", "done"})  BY <1>4
<1>19. last \in first .. [g \in Clients |-> Written(g)][c]  BY <1>14 DEF w
<1> QED
  BY <1>4, <1>12, <1>14, <1>16, <1>17, <1>18, <1>19 DEF Ordered!Deliver

\* Nobody else touches what the server's application has read.
LEMMA OthersDeliverNothing ==
  ASSUME [Next]_vars, ~ServerRead
  PROVE  /\ delivered' = delivered
         /\ \/ (spc' \in {"close", "done"}) = (spc \in {"close", "done"})
            \/ ServerReadWake /\ spc = "sleep" /\ spc' = "close"
<1>1. CASE UNCHANGED apps  BY <1>1 DEF apps
<1>2. CASE UNCHANGED vars  BY <1>1, <1>2 DEF vars
<1>3. ASSUME NEW d \in Clients, Client(d) PROVE spc' = spc /\ delivered' = delivered
  BY <1>3 DEF Client, ClientConnect, ClientConnected, ClientWriteBegin,
              ClientWrite, ClientWritten, ClientClose, ClientClosed, apps
<1>4. CASE ServerApp
  <2>1. CASE ServerListen  BY <2>1 DEF ServerListen
  <2>2. ASSUME NEW k \in Children, ServerAccept(k)
        PROVE  spc = "accept" /\ spc' = "read" /\ delivered' = delivered
    BY <2>2 DEF ServerAccept, CanAccept
  <2>3. CASE ServerReadSleep  BY <2>3 DEF ServerReadSleep
  <2>4. CASE ServerReadWake  BY <2>4 DEF ServerReadWake
  <2>5. CASE ServerClose  BY <2>5 DEF ServerClose
  <2> QED  BY <1>4, <2>1, <2>2, <2>3, <2>4, <2>5 DEF ServerApp
<1>5. ASSUME NEW h \in Hosts, Receive(h) PROVE UNCHANGED apps
  BY <1>5 DEF Receive, ReceiveAt, ReceiveNoSocket, ReceiveSYN1, ReceiveSYN4,
              ReceiveFIN1, ReceiveData, ReceiveFIN2, ReceiveFIN3, ReceiveFIN4,
              ReceiveOnlyAck, ReceiveSYN3, ReceiveBeforeMove, ReceiveSYN4NoChild, Handle
<1>6. ASSUME NEW h \in Hosts, Network(h) PROVE UNCHANGED apps
  BY <1>6 DEF Network, Lose, Duplicate
<1>7. ASSUME NEW s \in Sock, AckTimeOut(s) \/ TimeWaitOver(s) PROVE UNCHANGED apps
  BY <1>7 DEF AckTimeOut, TimeWaitOver
<1> QED  BY <1>1, <1>2, <1>3, <1>4, <1>5, <1>6, <1>7 DEF Next

LEMMA OrderedStep ==
  ASSUME TypeOK, WritesItsFile, ConnInv, StreamInv, TypeOK', WritesItsFile', ConnInv',
         StreamInv', [Next]_vars
  PROVE  [Ordered!Next]_(Ordered!vars)
<1>1. CASE ServerRead  BY <1>1, ReadDelivers DEF Ordered!Next
<1>2. CASE UNCHANGED vars
  BY <1>2 DEF vars, apps, Ordered!vars, Written, Remaining
<1>3. CASE ServerReadWake /\ spc = "sleep" /\ spc' = "close"
  <2>1. /\ sock' = sock /\ cpc' = cpc /\ maxSend' = maxSend /\ delivered' = delivered
    BY <1>3 DEF ServerReadWake
  <2>2. [c \in Clients |-> Written(c)]' = [c \in Clients |-> Written(c)]
    BY <2>1 DEF Written, Remaining
  <2>3. Ordered!EndOfStream  BY <1>3, <2>1, <2>2 DEF Ordered!EndOfStream
  <2> QED  BY <2>3 DEF Ordered!Next
<1>4. CASE /\ Next /\ delivered' = delivered
           /\ (spc' \in {"close", "done"}) = (spc \in {"close", "done"})
  <2>1. PICK s \in Sock : \A c \in Clients \ {s} :
               sock'[c] = sock[c] /\ cpc'[c] = cpc[c] /\ maxSend'[c] = maxSend[c]
    BY <1>4, OneMoves
  <2>2. \A c \in Clients \ {s} : Written(c)' = Written(c)
    BY <2>1 DEF Written, Remaining
  <2>3. CASE s \in Clients /\ Written(s)' # Written(s)
    <3>1. /\ Written(s) \in Nat /\ Written(s)' \in 0 .. FileLen /\ Written(s) <= Written(s)'
          /\ FileLen \in Nat
      BY <2>3, WrittenIs, WrittenGrows, ProtocolAssumption
    <3>2. Written(s)' \in Written(s) + 1 .. FileLen  BY <2>3, <3>1
    <3> DEFINE w == [c \in Clients |-> Written(c)]  v == [c \in Clients |-> Written(c)']
    <3>3. PICK n : n = Written(s)'  OBVIOUS
    <3>4. \A c \in Clients : v[c] = IF c = s THEN n ELSE w[c]  BY <2>2, <3>3
    <3>5. v = [w EXCEPT ![s] = n] /\ n \in w[s] + 1 .. FileLen
      BY <2>3, <3>2, <3>3, <3>4
    <3>6. Ordered!Take(s)  BY <1>4, <3>5 DEF Ordered!Take
    <3> QED  BY <2>3, <3>6 DEF Ordered!Next
  <2>4. CASE ~(s \in Clients /\ Written(s)' # Written(s))
    <3>1. \A c \in Clients : Written(c)' = Written(c)  BY <2>2, <2>4
    <3>2. [c \in Clients |-> Written(c)]' = [c \in Clients |-> Written(c)]  BY <3>1
    <3> QED  BY <1>4, <3>2 DEF Ordered!vars
  <2> QED  BY <2>3, <2>4
<1> QED  BY <1>1, <1>2, <1>3, <1>4, OthersDeliverNothing

LEMMA OrderedInit == ASSUME Init PROVE Ordered!Init
  BY DEF Init, Ordered!Init, Written

\* On every network and with any number of clients the server's application
\* reads a stretch of one client's file as it was written: each step of the
\* sockets, the wires and the applications is a step of OrderedStream or none.
THEOREM OrderedStreamCorrect == Spec => ImplementsOrderedStream
<1>1. Init => Ordered!Init  BY OrderedInit
<1>2. /\ TypeOK /\ WritesItsFile /\ ConnInv /\ StreamInv
      /\ (TypeOK /\ WritesItsFile /\ ConnInv /\ StreamInv)'
      /\ [Next]_vars
      => [Ordered!Next]_(Ordered!vars)
  BY OrderedStep
<1> QED
  BY <1>1, <1>2, TypeCorrect, StreamCorrect, PTL
     DEF Spec, ImplementsOrderedStream, Ordered!Spec

-----------------------------------------------------------------------------
(* The asserts.                                                            *)

\* A data segment of the send buffer has been resent MAX_RESEND times.
WornOut(sk) ==
  \E i \in DOMAIN sk.sendBuffer :
    /\ sk.sendBuffer[i].data # <<>> /\ "FIN" \notin sk.sendBuffer[i].flags
    /\ sk.sendBuffer[i].resendTime >= MAX_RESEND

\* Every process that has died had such a segment, or a socket whose timingOpen
\* was still what alloc_tcp_sock left there, or is the server and died on the
\* wild pointer that two handshakes at a time leave it with.
DeathsExplained ==
  \A h \in aborted :
    \/ \E s \in Sock : sock[s].local = h /\ (WornOut(sock[s]) \/ Unset(sock[s]))
    \/ h = Server /\ \E c, d \in Clients : c # d

LEMMA ResendOk ==
  ASSUME NEW c \in Context, c.ok, c.sk.sendBuffer # <<>>, ~resend(c).ok
  PROVE  WornOut(c.sk)
<1> DEFINE b == c.sk.sendBuffer
           e == Head(b)
           times == IF e.resendTime > MAX_RESEND THEN e.resendTime
                    ELSE e.resendTime + 1
<1>1. b \in Seq(TCPPacketInfo_c) /\ b # <<>>  BY DEF Context, tcp_sock
<1> HIDE DEF b
<1>2. 1 \in DOMAIN b /\ e = b[1] /\ e.resendTime \in Nat /\ MAX_RESEND \in Nat
  <2>1. 1 \in DOMAIN b /\ e = b[1] /\ e \in TCPPacketInfo_c  BY <1>1
  <2>2. MAX_RESEND \in Nat  BY SocketAssumption
  <2> HIDE DEF e
  <2> QED  BY <2>1, <2>2 DEF TCPPacketInfo_c
<1>3. times > MAX_RESEND /\ "FIN" \notin e.flags /\ e.data # <<>>
  <2> SUFFICES ASSUME ~(times > MAX_RESEND /\ "FIN" \notin e.flags /\ e.data # <<>>)
               PROVE  resend(c).ok
    OBVIOUS
  <2>1. resend(c) = [c EXCEPT !.tx = Append(@, SegmentOf(c.sk, e.seq, e.data, e.flags)),
                              !.sk.sendBuffer[1].resendTime = times]
    BY DEF resend, b
  <2> HIDE DEF e, times
  <2> QED  BY <2>1 DEF Context
<1>4. e.resendTime >= MAX_RESEND  BY <1>2, <1>3
<1> QED  BY <1>2, <1>3, <1>4 DEF WornOut, b

\* handlePacket_handleACK fails only when it gives up resending, or on a timer
\* without a segment.
LEMMA AckOk ==
  ASSUME NEW sk \in tcp_sock, TimerConsistent(sk), NEW ack \in Nat,
         ~handleACK(Enter(sk), ack).ok
  PROVE  WornOut(sk)
<1> DEFINE c == Enter(sk)
           d == AckPopped(c, ack)
           n == PopCount(sk.sendBuffer, ack)
<1>1. c \in Context /\ c.sk = sk /\ c.ok  BY EnterType DEF Enter
<1> HIDE DEF c
<1>2. d \in Context  BY <1>1, AckPoppedType
<1>3. d.sk.sendBuffer = Pop(sk.sendBuffer, ack) /\ d.ok
  BY <1>1 DEF AckPopped, Context, tcp_sock
<1>4. \/ handleACK(c, ack) = d
      \/ handleACK(c, ack) = resend(d) /\ Pop(sk.sendBuffer, ack) # <<>>
  BY <1>1 DEF handleACK, AckPopped
<1> HIDE DEF d
<1>5. WornOut(d.sk)
  BY <1>2, <1>3, <1>4, ResendOk DEF c
<1>6. sk.sendBuffer \in Seq(TCPPacketInfo_c)  BY DEF tcp_sock
<1>7. n \in 0 .. Len(sk.sendBuffer)  BY <1>6, PopCountRange
<1>8. PICK i \in DOMAIN d.sk.sendBuffer :
        /\ d.sk.sendBuffer[i].data # <<>> /\ "FIN" \notin d.sk.sendBuffer[i].flags
        /\ d.sk.sendBuffer[i].resendTime >= MAX_RESEND
  BY <1>5 DEF WornOut
<1>9. d.sk.sendBuffer = SubSeq(sk.sendBuffer, n + 1, Len(sk.sendBuffer))
  BY <1>3 DEF Pop
<1> HIDE DEF n
<1>10. n + i \in DOMAIN sk.sendBuffer /\ d.sk.sendBuffer[i] = sk.sendBuffer[n + i]
  <2> DEFINE b == sk.sendBuffer
  <2>1. b \in Seq(TCPPacketInfo_c) /\ n \in 0 .. Len(b)
        /\ i \in DOMAIN SubSeq(b, n + 1, Len(b))
    BY <1>6, <1>7, <1>8, <1>9
  <2> HIDE DEF b
  <2>2. n + i \in DOMAIN b /\ SubSeq(b, n + 1, Len(b))[i] = b[n + i]
    BY <2>1
  <2> QED  BY <1>9, <2>2 DEF b
<1> QED  BY <1>8, <1>10 DEF WornOut

LEMMA AckedOk ==
  ASSUME TypeOK, AllTimed,
         NEW h \in Hosts, NEW i \in DOMAIN net[h], NEW s \in Sock, ~Acked(h, i, s).ok
  PROVE  WornOut(sock[s]) \/ Unset(sock[s])
<1>1. sock[s] \in tcp_sock /\ net[h][i] \in Segment /\ net[h][i].ack \in Nat
  BY SockType, WithoutType DEF Segment
<1>2. TimerConsistent(sock[s]) \/ Unset(sock[s])  BY DEF AllTimed, Timed
<1>3. ~handleACK(Enter(sock[s]), net[h][i].ack).ok
  BY DEF Acked, OnSegment, Enter
<1> QED  BY <1>1, <1>2, <1>3, AckOk

\* The handlers after it do not fail.
LEMMA HandlersOk ==
  ASSUME NEW c \in Context, NEW p
  PROVE  /\ handleFIN1(c, p).ok = c.ok /\ handleSaveData(c, p).ok = c.ok
         /\ handleFIN2(c, p).ok = c.ok /\ handleFIN3(c, p).ok = c.ok
         /\ handleFIN4(c, p).ok = c.ok /\ Ignore(c, p).ok = c.ok
         /\ handleSYN23(c, p).ok = c.ok /\ handleSYN1(c, p).ok = c.ok
<1> DEFINE Same(d) == DOMAIN d = DOMAIN c /\ d.ok = c.ok
<1>0. "ok" \in DOMAIN c  BY DEF Context
<1>1. ASSUME NEW d, NEW data, NEW flags, Same(d)
      PROVE  Same(sendAndLogPacket(d, data, flags))
  BY <1>0, <1>1 DEF sendAndLogPacket
<1>2. ASSUME NEW d, NEW flags, Same(d)
      PROVE  Same(SendControl(d, flags))
  <2>1. Same(sendAndLogPacket(d, <<>>, flags))  BY <1>1, <1>2
  <2> QED  BY <1>0, <2>1 DEF SendControl
<1>4. /\ Same(handleFIN2(c, p)) /\ Same(handleFIN4(c, p)) /\ Same(Ignore(c, p))
      /\ Same(handleSYN2(c, p))
  BY <1>0 DEF handleFIN2, handleFIN4, Ignore, handleSYN2
<1>5. ASSUME NEW d, Same(d) PROVE Same(handleSYN3(d, p))
  <2> DEFINE g == [d EXCEPT !.sk.TCPState = "ESTABLISHED",
              !.sk.head = p.seq + 1, !.sk.tail = p.seq + 1,
              !.sk.rcv_nxt = p.seq + 1, !.sk.rcv_wnd = p.rwnd]
  <2>1. Same(g)  BY <1>0, <1>5
  <2> HIDE DEF g
  <2>2. Same(sendAndLogPacket(g, <<>>, {"ACK"}))  BY <1>1, <2>1
  <2> QED  BY <2>2 DEF handleSYN3, g
<1>6. Same(handleSYN23(c, p))
  BY <1>4, <1>5 DEF handleSYN23
<1>7. Same(handleFIN1(c, p))
  <2> DEFINE g == [c EXCEPT !.sk.TCPState = "LAST_ACK", !.sk.snd_una = p.ack,
                        !.sk.rcv_nxt = p.seq + 1]
  <2>1. Same(g)  BY <1>0
  <2> HIDE DEF g
  <2>2. Same(SendControl(g, {"FIN", "ACK"}))  BY <1>2, <2>1
  <2> QED  BY <2>2 DEF handleFIN1, g
<1>8. Same(handleSYN1(c, p))
  <2> DEFINE g == [c EXCEPT !.sk.TCPState = "SYN_RECV", !.sk.peer = p.src,
                        !.sk.rcv_nxt = p.seq + 1]
  <2>1. Same(g)  BY <1>0
  <2> HIDE DEF g
  <2>2. Same(SendControl(g, {"SYN", "ACK"}))  BY <1>2, <2>1
  <2> QED  BY <2>2 DEF handleSYN1, g
<1>9. Same(handleFIN3(c, p))
  <2> DEFINE g == [c EXCEPT !.sk.TCPState = "TIME_WAIT", !.sk.snd_una = p.ack,
                        !.sk.rcv_nxt = p.seq + 1]
  <2>1. Same(g)  BY <1>0
  <2> HIDE DEF g
  <2>2. Same(sendAndLogPacket(g, <<>>, {"ACK"}))  BY <1>1, <2>1
  <2> QED  BY <2>2 DEF handleFIN3, g
<1>10. Same(handleSaveData(c, p))
  <2> DEFINE buf == writeToBuffer(c.sk, p)
             k == Contiguous(buf, c.sk.tail)
             g == [c EXCEPT !.sk.buf = buf, !.sk.snd_una = p.ack,
                         !.sk.tail = @ + k, !.sk.rcv_nxt = @ + k,
                         !.sk.rcv_wnd = p.rwnd]
  <2>1. Same(g)  BY <1>0
  <2> HIDE DEF g
  <2>2. Same(sendAndLogPacket(g, <<>>, {"ACK"}))  BY <1>1, <2>1
  <2> QED  BY <2>1, <2>2 DEF handleSaveData, g
<1> QED
  BY <1>4, <1>6, <1>7, <1>8, <1>9, <1>10

LEMMA TimeOutOk ==
  ASSUME NEW sk \in tcp_sock, sk.timingOpen, ~HandleTimeOut(Enter(sk)).ok
  PROVE  WornOut(sk) \/ Unset(sk)
<1> DEFINE c == Enter(sk)
           reduced == [c EXCEPT !.sk.cc = RTO(@)]
<1>1. c \in Context /\ c.sk = sk /\ c.ok  BY EnterType DEF Enter
<1> HIDE DEF c
<1>2. reduced \in Context
  <2>1. RTO(c.sk.cc) \in Congestion  BY <1>1, RTOType DEF Context, tcp_sock
  <2> QED  BY <1>1, <2>1 DEF Context, tcp_sock
<1>3. reduced.sk.sendBuffer = sk.sendBuffer /\ reduced.ok
  BY <1>1 DEF Context, tcp_sock
<1>4. CASE sk.sendBuffer = <<>>  BY <1>4 DEF Unset
<1>5. CASE sk.sendBuffer # <<>>
  <2>1. HandleTimeOut(c) = resend(reduced)
    BY <1>1, <1>5 DEF HandleTimeOut
  <2> HIDE DEF reduced
  <2>2. WornOut(reduced.sk)  BY <1>2, <1>3, <1>5, <2>1, ResendOk DEF c
  <2> QED  BY <1>3, <2>2 DEF WornOut
<1> QED  BY <1>4, <1>5

\* A critical section on a socket of a live host
LEMMA DeathsCommit ==
  ASSUME TypeOK, DeathsExplained, NEW s \in Sock, Alive(sock[s].local),
         NEW d, NEW flight, Commit(s, d, flight),
         ~d.ok => WornOut(sock[s]) \/ Unset(sock[s])
  PROVE  DeathsExplained'
<1>1. CASE d.ok
  <2>1. sock' = [sock EXCEPT ![s] = d.sk] /\ aborted' = aborted
    BY <1>1 DEF Commit
  <2>2. \A t \in Sock : t # s => sock'[t] = sock[t]
    BY <2>1 DEF TypeOK
  <2> QED  BY <2>1, <2>2 DEF DeathsExplained, Alive
<1>2. CASE ~d.ok
  <2>1. sock' = sock /\ aborted' = aborted \cup {sock[s].local}
    BY <1>2 DEF Commit
  <2> QED  BY <1>2, <2>1 DEF DeathsExplained
<1> QED  BY <1>1, <1>2

\* What leaves the dead as they are
LEMMA DeathsKept ==
  ASSUME DeathsExplained, aborted' = aborted,
         \A s \in Sock : sock[s].local \in aborted =>
           /\ sock'[s].local = sock[s].local
           /\ sock'[s].sendBuffer = sock[s].sendBuffer
           /\ sock'[s].timingOpen = sock[s].timingOpen
  PROVE  DeathsExplained'
<1> SUFFICES ASSUME NEW h \in aborted, ~(h = Server /\ \E c, d \in Clients : c # d)
             PROVE  \E s \in Sock :
                      sock'[s].local = h /\ (WornOut(sock'[s]) \/ Unset(sock'[s]))
  BY DEF DeathsExplained
<1>1. PICK s \in Sock : sock[s].local = h /\ (WornOut(sock[s]) \/ Unset(sock[s]))
  BY DEF DeathsExplained
<1> QED  BY <1>1 DEF WornOut, Unset

\* A receive step that runs a handler which does not fail after handleACK
LEMMA DeathsHandled ==
  ASSUME TypeOK, AllTimed, DeathsExplained,
         NEW h \in Hosts, NEW i \in DOMAIN net[h], NEW s \in Sock,
         Alive(h), sock[s].local = h, NEW d, d.ok = Acked(h, i, s).ok,
         Commit(s, d, Without(h, i))
  PROVE  DeathsExplained'
  BY AckedOk, DeathsCommit

LEMMA DeathsReceive ==
  ASSUME TypeOK, AllTimed, DeathsExplained, ConnInv, StreamInv,
         NEW h \in Hosts, NEW i \in DOMAIN net[h], ReceiveAt(h, i)
  PROVE  DeathsExplained'
<1>1. ASSUME NEW s \in Sock, ToEstablished(h, i, s) \/ ToListener(h, i, s)
      PROVE  Alive(h) /\ sock[s].local = h
  BY <1>1 DEF ToEstablished, Established, ToListener, Listener
<1> DEFINE c(s) == Acked(h, i, s)
           p == net[h][i]
<1>2. ASSUME NEW s \in Sock
      PROVE  /\ handleFIN1(c(s), p).ok = c(s).ok /\ handleSaveData(c(s), p).ok = c(s).ok
             /\ handleFIN2(c(s), p).ok = c(s).ok /\ handleFIN3(c(s), p).ok = c(s).ok
             /\ handleFIN4(c(s), p).ok = c(s).ok /\ Ignore(c(s), p).ok = c(s).ok
             /\ handleSYN23(c(s), p).ok = c(s).ok /\ handleSYN1(c(s), p).ok = c(s).ok
  BY AckedType, HandlersOk
<1>3. ASSUME NEW s \in Sock,
             \/ ReceiveFIN1(h, i, s) \/ ReceiveData(h, i, s)
             \/ ReceiveFIN2(h, i, s) \/ ReceiveFIN3(h, i, s) \/ ReceiveFIN4(h, i, s)
             \/ ReceiveOnlyAck(h, i, s)
             \/ ReceiveSYN3(h, i, s) \/ ReceiveBeforeMove(h, i, s)
      PROVE  DeathsExplained'
  <2>1. Alive(h) /\ sock[s].local = h
    BY <1>1, <1>3 DEF ReceiveFIN1, ReceiveData, ReceiveFIN2, ReceiveFIN3, ReceiveFIN4,
       ReceiveOnlyAck, ReceiveSYN3, ReceiveBeforeMove
  <2>2. \/ Commit(s, handleFIN1(c(s), p), Without(h, i))
        \/ Commit(s, handleSaveData(c(s), p), Without(h, i))
        \/ Commit(s, handleFIN2(c(s), p), Without(h, i))
        \/ Commit(s, handleFIN3(c(s), p), Without(h, i))
        \/ Commit(s, handleFIN4(c(s), p), Without(h, i))
        \/ Commit(s, Ignore(c(s), p), Without(h, i))
        \/ Commit(s, handleSYN23(c(s), p), Without(h, i))
    BY <1>3 DEF ReceiveFIN1, ReceiveData, ReceiveFIN2, ReceiveFIN3, ReceiveFIN4,
       ReceiveOnlyAck, ReceiveSYN3, ReceiveBeforeMove, Handle
  <2> HIDE DEF p
  <2>3. \E d : Commit(s, d, Without(h, i)) /\ d.ok = c(s).ok
    BY <1>2, <2>2
  <2> QED  BY <2>1, <2>3, DeathsHandled
<1>4. ASSUME NEW s \in Sock, NEW k \in Children, ReceiveSYN1(h, i, s, k)
      PROVE  DeathsExplained'
  <2>1. ToListener(h, i, s) /\ sock[s].TCPState = "LISTEN"
    BY <1>4 DEF ReceiveSYN1
  <2>2. s = Server /\ h = Server  BY <2>1, ListenerFacts
  <2>3. Alive(Server) /\ sock[k].local = Server /\ sock[s].local = Server
    BY <1>1, <2>1, <2>2, SockCases DEF ConnInv, Homes
  <2>4. PICK child \in Fresh(Server, p.src) :
          LET d == handleSYN1(c(s), p)
          IN  IF d.ok THEN sock' = [sock EXCEPT ![s] = d.sk, ![k] = child] /\ aborted' = aborted
              ELSE aborted' = aborted \cup {h} /\ sock' = sock
    BY <1>4 DEF ReceiveSYN1
  <2>5. CASE handleSYN1(c(s), p).ok
    <3>1. aborted' = aborted /\ \A t \in Sock : t # s /\ t # k => sock'[t] = sock[t]
      BY <2>4, <2>5 DEF TypeOK
    <3> QED  BY <2>3, <3>1, DeathsKept DEF Alive
  <2>6. CASE ~handleSYN1(c(s), p).ok
    <3>1. WornOut(sock[s]) \/ Unset(sock[s])  BY <1>2, <2>6, AckedOk
    <3>2. aborted' = aborted \cup {h} /\ sock' = sock  BY <2>4, <2>6
    <3> QED  BY <2>2, <2>3, <3>1, <3>2 DEF DeathsExplained
  <2> QED  BY <2>5, <2>6
<1>5. ASSUME NEW s \in Sock, NEW k \in Children, ReceiveSYN4(h, i, s, k)
      PROVE  DeathsExplained'
  <2>1. ToListener(h, i, s) /\ sock[s].TCPState = "SYN_RECV"
    BY <1>5 DEF ReceiveSYN4
  <2>2. s = Server /\ h = Server  BY <2>1, ListenerFacts
  <2>3. Alive(Server) /\ sock[k].local = Server /\ sock[s].local = Server
    BY <1>1, <2>1, <2>2, SockCases DEF ConnInv, Homes
  <2>4. IF c(s).ok
        THEN /\ sock' = [sock EXCEPT ![s] = [c(s).sk EXCEPT !.TCPState = "LISTEN"],
                                     ![k] = handleSYN4(@, p, c(s).sk.snd_nxt)]
             /\ aborted' = aborted
        ELSE aborted' = aborted \cup {h} /\ sock' = sock
    BY <1>5 DEF ReceiveSYN4
  <2>5. CASE c(s).ok
    <3>1. aborted' = aborted /\ \A t \in Sock : t # s /\ t # k => sock'[t] = sock[t]
      BY <2>4, <2>5 DEF TypeOK
    <3> QED  BY <2>3, <3>1, DeathsKept DEF Alive
  <2>6. CASE ~c(s).ok
    <3>1. WornOut(sock[s]) \/ Unset(sock[s])  BY <2>6, AckedOk
    <3>2. aborted' = aborted \cup {h} /\ sock' = sock  BY <2>4, <2>6
    <3> QED  BY <2>2, <2>3, <3>1, <3>2 DEF DeathsExplained
  <2> QED  BY <2>5, <2>6
<1>6. ASSUME NEW s \in Sock, ReceiveSYN4NoChild(h, i, s)
      PROVE  DeathsExplained'
  <2>1. /\ ToListener(h, i, s) /\ sock[s].TCPState = "SYN_RECV" /\ SynRcvd(p.src) = {}
        /\ aborted' = aborted \cup {h} /\ sock' = sock
    BY <1>6 DEF ReceiveSYN4NoChild
  <2>2. s = Server /\ h = Server /\ p.src \in Clients  BY <2>1, ListenerFacts
  <2>3. PICK k \in Children : synRcvdList = {k} /\ sock[k].peer = sock[Server].peer
    BY <2>1, <2>2 DEF StreamInv, Listening
  <2>4. sock[Server].peer \in Clients  BY <2>1, <2>2 DEF StreamInv, Listening
  <2>5. sock[Server].peer # p.src  BY <2>1, <2>3 DEF SynRcvd
  <2> HIDE DEF p
  <2>6. \E f, g \in Clients : f # g  BY <2>2, <2>4, <2>5
  <2> QED  BY <2>1, <2>2, <2>6 DEF DeathsExplained
<1>7. ASSUME ReceiveNoSocket(h, i) PROVE DeathsExplained'
  BY <1>7, DeathsKept DEF ReceiveNoSocket
<1> QED
  BY <1>3, <1>4, <1>5, <1>6, <1>7 DEF ReceiveAt

LEMMA DeathsNext ==
  ASSUME TypeOK, AllTimed, DeathsExplained, ConnInv, StreamInv,
         [Next]_vars
  PROVE  DeathsExplained'
<1>1. \A s \in Sock : sock[s] \in tcp_sock /\ (s \in Hosts => sock[s].local = s)
  BY SockType DEF ConnInv, Homes
<1>2. ASSUME NEW c \in Clients, Client(c)
      PROVE  DeathsExplained'
  <2>1. c \in Sock /\ sock[c].local = c /\ sock[c] \in tcp_sock  BY <1>1, SockCases
  <2>2. CASE ClientConnect(c)
    BY <2>1, <2>2, ControlOk, DeathsCommit DEF ClientConnect
  <2>3. CASE ClientWrite(c)
    <3>1. \A data : Write(Enter(sock[c]), data).ok
      BY DEF Write, sendAndLogPacket, Enter
    <3> QED  BY <2>1, <2>3, <3>1, DeathsCommit DEF ClientWrite
  <2>4. CASE ClientClose(c)
    BY <2>1, <2>4, ControlOk, DeathsCommit DEF ClientClose
  <2>5. CASE ClientConnected(c) \/ ClientWriteBegin(c) \/ ClientWritten(c) \/ ClientClosed(c)
    <3>1. aborted' = aborted /\ sock' = sock
      BY <2>5 DEF ClientConnected, ClientWriteBegin, ClientWritten, ClientClosed
    <3> QED  BY <3>1, DeathsKept
  <2> QED  BY <1>2, <2>2, <2>3, <2>4, <2>5 DEF Client
<1>3. ASSUME ServerApp
      PROVE  DeathsExplained'
  <2>1. CASE ServerListen
    <3>1. aborted' = aborted /\ sock' = [sock EXCEPT ![Server].TCPState = "LISTEN"]
      BY <2>1 DEF ServerListen
    <3>2. \A s \in Sock : sock'[s].local = sock[s].local
                          /\ sock'[s].sendBuffer = sock[s].sendBuffer
                          /\ sock'[s].timingOpen = sock[s].timingOpen
      BY <1>1, <3>1 DEF TypeOK, tcp_sock
    <3> QED  BY <3>1, <3>2, DeathsKept
  <2>2. CASE ServerRead
    <3>1. /\ Alive(Server) /\ spc = "read" /\ Commit(csk, Read(Enter(sock[csk])), net)
      BY <2>2 DEF ServerRead
    <3>2. csk \in establishedTable \cap Children /\ csk \in Sock
      BY <3>1, SockCases DEF StreamInv, Reading, TypeOK
    <3>3. sock[csk].local = Server /\ sock[csk].peer \in Clients
      BY <3>2, SockCases DEF ConnInv, Homes, StreamInv, Listening
    <3>4. csk \in Peers(sock[csk].peer) /\ Streams(sock[csk].peer)
      BY <3>1, <3>2 DEF Peers, Streams
    <3>5. /\ sock[csk].tail <= sock[csk].head + Window
          /\ sock[csk].tail \in Nat /\ sock[csk].head \in Nat
      BY <1>1, <3>2, <3>3, <3>4, RingOf DEF tcp_sock
    <3>6. Unread(sock[csk]) < RINGBUFFER_SIZE
      BY <3>5, WindowSize, RingSize DEF Unread
    <3>7. Read(Enter(sock[csk])).ok
      BY <1>1, <3>2, <3>6, EnterType, ReadOk DEF Enter
    <3> QED  BY <3>1, <3>2, <3>3, <3>7, DeathsCommit
  <2>3. CASE (\E k \in Children : ServerAccept(k)) \/ ServerReadSleep \/ ServerReadWake
             \/ ServerClose
    <3>1. aborted' = aborted /\ sock' = sock
      BY <2>3 DEF ServerAccept, ServerReadSleep, ServerReadWake, ServerClose
    <3> QED  BY <3>1, DeathsKept
  <2> QED  BY <1>3, <2>1, <2>2, <2>3 DEF ServerApp
<1>4. ASSUME NEW h \in Hosts, Receive(h)
      PROVE  DeathsExplained'
  BY <1>4, DeathsReceive DEF Receive
<1>5. ASSUME NEW h \in Hosts, Network(h)
      PROVE  DeathsExplained'
  <2>1. aborted' = aborted /\ sock' = sock
    BY <1>5 DEF Network, Lose, Duplicate
  <2> QED  BY <2>1, DeathsKept
<1>6. ASSUME NEW s \in Sock, AckTimeOut(s)
      PROVE  DeathsExplained'
  BY <1>1, <1>6, TimeOutOk, DeathsCommit DEF AckTimeOut
<1>7. ASSUME NEW s \in Sock, TimeWaitOver(s)
      PROVE  DeathsExplained'
  <2>1. aborted' = aborted /\ sock' = [sock EXCEPT ![s].TCPState = "CLOSED"]
    BY <1>7 DEF TimeWaitOver
  <2>2. \A t \in Sock : sock'[t].local = sock[t].local
                        /\ sock'[t].sendBuffer = sock[t].sendBuffer
                        /\ sock'[t].timingOpen = sock[t].timingOpen
    BY <1>1, <2>1 DEF TypeOK, tcp_sock
  <2> QED  BY <2>1, <2>2, DeathsKept
<1>8. CASE UNCHANGED vars
  <2>1. aborted' = aborted /\ sock' = sock
    BY <1>8 DEF vars
  <2> QED  BY <2>1, DeathsKept
<1> QED
  BY <1>2, <1>3, <1>4, <1>5, <1>6, <1>7, <1>8 DEF Next

\* Whatever the network, the timing and the memory that `new' returns, no
\* process dies but one that has resent a data segment MAX_RESEND times (the
\* assert of resend), one that has a socket on which nothing has been sent
\* since alloc_tcp_sock left timingOpen set (the asserts on the timer), or, with
\* several clients, the server (handleSYN4).  The assert of tcp_sock_read that
\* the ring is not full always holds.
THEOREM AbortCauses == Spec => []DeathsExplained
<1>1. Init => DeathsExplained
  BY DEF Init, DeathsExplained
<1>2. /\ (TypeOK /\ SendBuffersUnbroken /\ ConnInv /\ StreamInv) /\ AllTimed
      /\ DeathsExplained /\ [Next]_vars
      => DeathsExplained'
  BY DeathsNext
<1> QED
  BY <1>1, <1>2, TimedCorrect, StreamCorrect, PTL DEF Spec

\* With one client no assert fails anywhere until a data segment has been
\* resent MAX_RESEND times or a new socket comes with timingOpen set: the
\* server's handshakes never meet, so handleSYN4 finds its child, and no other
\* assert can fail (TCPProtocol.cpp).
THEOREM NoAbortCorrect ==
  ASSUME \A c, d \in Clients : c = d
  PROVE  Spec => []((\A s \in Sock : ~WornOut(sock[s]) /\ ~Unset(sock[s])) => NoAbort)
<1>1. DeathsExplained =>
        ((\A s \in Sock : ~WornOut(sock[s]) /\ ~Unset(sock[s])) => NoAbort)
  BY DEF DeathsExplained, NoAbort
<1> QED
  BY <1>1, AbortCauses, PTL

=============================================================================
