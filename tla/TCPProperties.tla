--------------------------- MODULE TCPProperties ---------------------------
(***************************************************************************)
(* What TCPProtocol is meant to guarantee.  Which network and which timing *)
(* each property needs is said by the runs that check it.                  *)
(***************************************************************************)
EXTENDS TCPProtocol

\* The type of the sockets, the maps, the wires and the applications.
TypeOK ==
  /\ sock \in [Sock -> tcp_sock]
  /\ listenTable \subseteq Hosts /\ establishedTable \subseteq Sock
  /\ synRcvdList \subseteq Children /\ acceptList \subseteq Children
  /\ net \in [Hosts -> Seq(Segment)]
  /\ aborted \subseteq Hosts
  /\ cpc \in [Clients -> {"start", "connect", "connected", "write", "sleep",
                          "close", "done"}]
  /\ maxSend \in [Clients -> Nat]
  /\ spc \in {"start", "accept", "read", "sleep", "close", "done"}
  /\ csk \in Children \cup {NoChild}
  /\ spc \in {"read", "sleep", "close", "done"} => csk \in Children
  /\ delivered \in Seq(Byte \cup {NoByte})
  /\ lost \in Nat /\ duplicated \in Nat /\ timeouts \in Nat

\* lab17Report.md:25: "timingOpen is at any time the inverse of whether
\* sendBuffer is empty", which each assert of handlePacket_handleACK and of
\* ACKTimeOutThread_handleTImeOut relies on.  No step of a handler, a timer or
\* an application ends with the two apart: what alloc_tcp_sock leaves unset in
\* a new socket, until that socket sends for the first time, is the only way.
TimerMatchesSendBuffer ==
  [][\A s \in Sock :
       \/ TimerConsistent(sock'[s])
       \/ Unset(sock'[s]) /\ (Unset(sock[s]) \/ s \in synRcvdList' \ synRcvdList)]_vars

\* Sequence numbers a logged segment takes: its data, or one for SYN or FIN
Span(e) == Len(e.data) + (IF e.flags \cap {"SYN", "FIN"} # {} THEN 1 ELSE 0)

\* sendBuffer is the unbroken run of segments that ends at snd_nxt, so
\* resending its head and popping by a cumulative ack never skips a byte.
SendBufferUnbroken(sk) ==
  \A i \in DOMAIN sk.sendBuffer :
    sk.sendBuffer[i].seq + Span(sk.sendBuffer[i]) =
      IF i = Len(sk.sendBuffer) THEN sk.snd_nxt ELSE sk.sendBuffer[i + 1].seq

SendBuffersUnbroken == \A s \in Sock : SendBufferUnbroken(sock[s])

\* The tables of the server never disagree about a child: while handleSYN1's
\* child waits in synRcvdList it is in no other table, no application holds
\* it, and nothing has been sent on it, so handleSYN4 may give it the
\* parent's snd_nxt.
ChildrenApart ==
  /\ synRcvdList \cap (establishedTable \cup acceptList) = {}
  /\ spc # "done" => csk \notin synRcvdList
  /\ \A k \in synRcvdList : sock[k].sendBuffer = <<>>

\* Two sockets never compete for the segments of one pair of addresses: a
\* repeated SYN or a second handshake does not replace a socket that is in
\* establishedTable, whose key this is, and lose its data.
OneSocketPerKey ==
  \A s, t \in establishedTable :
    sock[s].local = sock[t].local /\ sock[s].peer = sock[t].peer => s = t

\* tcp_sock_write never sends bytes from before its buffer: MAXSend, computed
\* from an unlocked read of snd_nxt, stays within one file of snd_nxt.
WritesItsFile ==
  \A c \in Clients : cpc[c] = "write" => maxSend[c] <= sock[c].snd_nxt + FileLen

\* Nobody closes a connection under its writer, and its snd_nxt never passes
\* MAXSend: the unsigned MAXSend - snd_nxt would wrap and tcp_sock_write send
\* for ever from beyond its buffer.
WriterUndisturbed ==
  \A c \in Clients :
    /\ cpc[c] \in {"connected", "write", "sleep"} => sock[c].TCPState = "ESTABLISHED"
    /\ cpc[c] = "write" => sock[c].snd_nxt <= maxSend[c]

\* The child that the established map of the server holds for client c
Peers(c) == {k \in establishedTable \cap Children : sock[k].peer = c}

\* The first position of c's file in the sequence space
FirstByte(c) == maxSend[c] - FileLen

\* No byte is forgotten before it is safe: while a client transfers, a byte
\* below its snd_una (tcp_sock_write counts it as out of flight) or popped
\* from its sendBuffer is in the server's ring or was read from it.
AckedIsReceived ==
  \A c \in Clients : \A k \in Peers(c) :
    cpc[c] \in {"write", "sleep"} =>
      \A n \in FirstByte(c) .. sock[c].snd_nxt - 1 :
        \/ n < sock[k].tail
        \/ /\ n >= sock[c].snd_una
           /\ \E i \in DOMAIN sock[c].sendBuffer :
                LET e == sock[c].sendBuffer[i]
                IN  e.seq <= n /\ n < e.seq + Len(e.data)

\* tcp_sock_read returns bytes of one client's file with no gap, repetition
\* or reordering, whatever the network does to the segments.
DeliveredInOrder ==
  \A i \in 1 .. Len(delivered) - 1 :
    \E c \in Clients, n \in 1 .. FileLen - 1 :
      delivered[i] = <<c, n>> /\ delivered[i + 1] = <<c, n + 1>>

\* No segment that is in flight or may be resent can overwrite an unread slot
\* of the ring: rwnd keeps every position within one lap of head.
WithinOneLap ==
  \A c \in Clients : \A k \in Peers(c) :
    sock[c].TCPState = "ESTABLISHED" =>
      /\ \A i \in DOMAIN sock[c].sendBuffer :
           LET e == sock[c].sendBuffer[i]
           IN  e.seq + Len(e.data) <= sock[k].head + RINGBUFFER_SIZE
      /\ \A i \in DOMAIN net[Server] :
           LET p == net[Server][i]
           IN  p.src = c => p.seq + Len(p.data) <= sock[k].head + RINGBUFFER_SIZE

\* A client reaches TIME_WAIT only when the server has seen its FIN: the
\* server's side of the connection is no longer open.
CloseIsMutual ==
  \A c \in Clients :
    sock[c].TCPState = "TIME_WAIT" =>
      \A k \in Peers(c) :
        k = csk /\ spc \in {"read", "sleep", "close"} => sock[k].TCPState \in {"LAST_ACK", "CLOSED"}

\* The whole file of the accepted client has been read.
AllRead == csk # NoChild /\ delivered = File(sock[csk].peer)

\* lab17Report.md:56: the received file equals the sent file.  When
\* tcp_sock_read returns 0 the server takes the transmission as finished.
ReadToTheEnd == spc \in {"close", "done"} => AllRead

\* No assert fails anywhere: not those on the timer, not the resend limit.
NoAbort == aborted = {}

\* The whole file is read and both applications return from tcp_sock_close.
TransferCompletes ==
  <>(AllRead /\ spc = "done" /\ \A c \in Clients : cpc[c] = "done")

\* What tcp_sock_write has put into sequence numbers of c's file
Written(c) ==
  IF cpc[c] \in {"start", "connect", "connected"} THEN 0
  ELSE IF cpc[c] \in {"close", "done"} THEN FileLen
  ELSE FileLen - Remaining(c)

\* Whatever the network does, and however many clients there are, the server's
\* application reads a stretch of one client's file: in order, without a gap,
\* nothing before tcp_sock_write has taken it, nothing after the end.
Ordered ==
  INSTANCE OrderedStream WITH Writers <- Clients, Length <- FileLen,
    written <- [c \in Clients |-> Written(c)], received <- delivered,
    ended <- spc \in {"close", "done"}

ImplementsOrderedStream == Ordered!Spec

\* With one client, and no loss, the two applications see a reliable stream.
TheClient == CHOOSE c \in Clients : TRUE

Stream ==
  INSTANCE ReliableStream WITH Bytes <- File(TheClient), written <- Written(TheClient),
    received <- delivered, ended <- spc \in {"close", "done"}

\* The detailed protocol implements ReliableStream, liveness included.
ImplementsStream == Stream!Spec
=============================================================================
