----------------------------- MODULE TCPSocket -----------------------------
(***************************************************************************)
(* One tcp_sock of lab18/src/TCPProtocol.{h,cpp} and what the handlers do  *)
(* to it.  A handler runs from lock() to unlock() of TCPSockTable_mutex,   *)
(* so it is an operator on a CONTEXT: the socket, the segments it has      *)
(* given to TCPPacketModule so far, and whether every assert so far held.  *)
(*                                                                         *)
(* Stream positions are natural numbers (the uint32_t sequence space does  *)
(* not wrap in a transfer shorter than 4 GB that starts low).              *)
(***************************************************************************)
EXTENDS CongestionControl, Sequences, FiniteSets

CONSTANTS
  Clients, Server,   \* hosts: one socket address per client, and the server
  NoPeer,            \* an unset peerAddr
  MAX_DATA_SIZE,     \* bytes of data in a full segment
  RINGBUFFER_SIZE,   \* bytes of the receive ring
  MAX_RESEND,        \* resends of a data segment before assert(false)
  Byte, NoByte       \* contents of a ring slot that is filled / not filled

ASSUME SocketAssumption ==
  /\ Server \notin Clients /\ NoPeer \notin Clients \cup {Server}
  /\ MAX_DATA_SIZE \in Nat \ {0}
  /\ RINGBUFFER_SIZE \in Nat /\ RINGBUFFER_SIZE > MAX_DATA_SIZE
  /\ MAX_RESEND \in Nat
  /\ NoByte \notin Byte

\* The ring of 127 KB is longer than the window field can say.
ASSUME RingAssumption == UINT16 <= RINGBUFFER_SIZE

Hosts == Clients \cup {Server}

\* CLOSE_WAIT and CLOSING are in the enum but no statement assigns them.
TCPState_c == {"CLOSED", "LISTEN", "SYN_RECV", "SYN_SENT", "ESTABLISHED",
               "LAST_ACK", "FIN_WAIT_1", "FIN_WAIT_2", "TIME_WAIT"}
Flag == {"SYN", "ACK", "FIN"}

Slot == 0 .. RINGBUFFER_SIZE - 1

TCPPacketInfo_c ==
  [seq : Nat, data : Seq(Byte), flags : SUBSET Flag, resendTime : Nat]

Segment ==
  [src : Hosts, dst : Hosts \cup {NoPeer}, seq : Nat, ack : Nat,
   flags : SUBSET Flag, rwnd : Nat, data : Seq(Byte)]

tcp_sock ==
  [local : Hosts, peer : Hosts \cup {NoPeer}, TCPState : TCPState_c,
   head : Nat, tail : Nat, buf : [Slot -> Byte \cup {NoByte}],
   snd_una : Nat, snd_nxt : Nat, rcv_nxt : Nat, rcv_wnd : Nat,
   timingOpen : BOOLEAN, sendBuffer : Seq(TCPPacketInfo_c),
   cc : Congestion]

\* alloc_tcp_sock: `new tcp_sock' leaves snd_una, snd_nxt and timingOpen with
\* whatever the heap held; the arguments are those values.  rcv_nxt and
\* rcv_wnd are left unset too, but nothing reads them before they are written.
alloc_tcp_sock(local, peer, una, nxt, timing) ==
  [local |-> local, peer |-> peer, TCPState |-> "CLOSED",
   head |-> 0, tail |-> 0, buf |-> [i \in Slot |-> NoByte],
   snd_una |-> una, snd_nxt |-> nxt, rcv_nxt |-> 0, rcv_wnd |-> 0,
   timingOpen |-> timing, sendBuffer |-> <<>>, cc |-> InitCongestion]

-----------------------------------------------------------------------------
(* Contexts, and the two ways a segment leaves a socket.                   *)

Context == [sk : tcp_sock, tx : Seq(Segment), ok : BOOLEAN]

Enter(sk) == [sk |-> sk, tx |-> <<>>, ok |-> TRUE]

Require(c, holds) == [c EXCEPT !.ok = @ /\ holds]

\* The uint16_t rwnd field: the free part of the ring, truncated.
Advertised(sk) == (RINGBUFFER_SIZE - (sk.tail - sk.head)) % UINT16

SegmentOf(sk, seq, data, flags) ==
  [src |-> sk.local, dst |-> sk.peer, seq |-> seq, ack |-> sk.rcv_nxt,
   flags |-> flags, rwnd |-> Advertised(sk), data |-> data]

\* Mutant: only data arms the timer.
sendAndLogPacket_DataTimer(c, data, flags) ==
  [c EXCEPT
     !.tx = Append(@, SegmentOf(c.sk, c.sk.snd_nxt, data, flags)),
     !.sk.timingOpen = @ \/ data # <<>>,
     !.sk.sendBuffer = Append(@, [seq |-> c.sk.snd_nxt, data |-> data,
                                  flags |-> flags, resendTime |-> 0])]

\* sendAndLogPacket, and the push_back that follows each of its calls
sendAndLogPacket(c, data, flags) ==
  [c EXCEPT
     !.tx = Append(@, SegmentOf(c.sk, c.sk.snd_nxt, data, flags)),
     !.sk.timingOpen = @ \/ c.sk.sendBuffer = <<>>,
     !.sk.sendBuffer = Append(@, [seq |-> c.sk.snd_nxt, data |-> data,
                                  flags |-> flags, resendTime |-> 0])]

\* The same for a SYN or a FIN, which takes one sequence number.
SendControl(c, flags) ==
  LET sent == sendAndLogPacket(c, <<>>, flags)
  IN  [sent EXCEPT !.sk.snd_nxt = @ + 1]

\* resend of the head of sendBuffer.  Only resendTime > MAX_RESEND is ever
\* tested, so the counter saturates one above it.
resend(c) ==
  LET e       == Head(c.sk.sendBuffer)
      times   == IF e.resendTime > MAX_RESEND THEN e.resendTime
                 ELSE e.resendTime + 1
      gaveUp  == times > MAX_RESEND /\ "FIN" \notin e.flags /\ e.data # <<>>
  IN  IF gaveUp
      THEN Require(c, FALSE)
      ELSE [c EXCEPT !.tx = Append(@, SegmentOf(c.sk, e.seq, e.data, e.flags)),
                     !.sk.sendBuffer[1].resendTime = times]

-----------------------------------------------------------------------------
(* Timeouts and acknowledgements.                                          *)

\* ACKTimeOutThread_handleTImeOut
HandleTimeOut(c) ==
  LET reduced == [c EXCEPT !.sk.cc = RTO(@)]
  IN  IF c.sk.sendBuffer = <<>> THEN Require(reduced, FALSE)
      ELSE resend(reduced)

\* Mutant: an ack covers the segment that starts at it.
Covered_OffByOne(e, ack) == e.seq <= ack

\* The loop of handlePacket_handleACK pops from the head and stops at the
\* first entry that ack does not cover.  A SYN or a FIN counts for nothing.
Covered(e, ack) == e.seq + Len(e.data) <= ack

PopCount(sendBuffer, ack) ==
  Cardinality({i \in DOMAIN sendBuffer :
                 \A j \in 1 .. i : Covered(sendBuffer[j], ack)})

Pop(sendBuffer, ack) ==
  SubSeq(sendBuffer, PopCount(sendBuffer, ack) + 1, Len(sendBuffer))

\* The asserts of the loop: timingOpen says whether sendBuffer is empty.
TimerConsistent(sk) == sk.timingOpen <=> sk.sendBuffer # <<>>

\* timingOpen is what `new' left there, and nothing has been logged since.
Unset(sk) == sk.timingOpen /\ sk.sendBuffer = <<>>

\* The calls handlePacket_handleACK makes to congestionControl.
CongestionOnAck(sk, ack) ==
  LET counted == IF ack = sk.snd_una THEN dupack(sk.cc, ack)
                 ELSE successTransfer(sk.cc, ack)
  IN  [counted EXCEPT !.cc = checkRecovery(@, ack)]

\* Mutant: the timer stays armed when the last segment is acknowledged.
handleACK_TimerKept(c, ack) ==
  [c EXCEPT !.ok = @ /\ TimerConsistent(c.sk),
            !.sk.cc = CongestionOnAck(c.sk, ack).cc,
            !.sk.sendBuffer = Pop(@, ack)]

handleACK(c, ack) ==
  LET cong   == CongestionOnAck(c.sk, ack)
      left   == Pop(c.sk.sendBuffer, ack)
      popped == [c EXCEPT
                   !.ok = @ /\ TimerConsistent(c.sk),
                   !.sk.cc = cong.cc,
                   !.sk.sendBuffer = left,
                   !.sk.timingOpen = @ /\ left # <<>>]
  IN  IF /\ cong.retrans
         /\ left # <<>>
         /\ c.sk.timingOpen
         /\ c.sk.TCPState = "ESTABLISHED"
      THEN resend(popped)
      ELSE popped

\* handlePacket looks at the ack field only under the ACK flag.
OnSegment(c, p) == IF "ACK" \in p.flags THEN handleACK(c, p.ack) ELSE c

\* A state whose handler does nothing more than that
Ignore(c, p) == c

-----------------------------------------------------------------------------
(* The handshake.                                                          *)

Connect(c) ==
  LET sent == SendControl(c, {"SYN"})
  IN  [sent EXCEPT !.sk.TCPState = "SYN_SENT", !.sk.rcv_nxt = 0]

handleSYN1(c, p) ==
  SendControl([c EXCEPT !.sk.TCPState = "SYN_RECV", !.sk.peer = p.src,
                        !.sk.rcv_nxt = p.seq + 1], {"SYN", "ACK"})

handleSYN2(c, p) == [c EXCEPT !.sk.snd_una = p.ack]

handleSYN3(c, p) ==
  sendAndLogPacket(
    [c EXCEPT !.sk.TCPState = "ESTABLISHED",
              !.sk.head = p.seq + 1, !.sk.tail = p.seq + 1,
              !.sk.rcv_nxt = p.seq + 1, !.sk.rcv_wnd = p.rwnd],
    <<>>, {"ACK"})

\* What a client in SYN_SENT does: its SYN|ACK goes through both.
handleSYN23(c, p) ==
  LET acked == IF "ACK" \in p.flags THEN handleSYN2(c, p) ELSE c
  IN  IF "SYN" \in p.flags THEN handleSYN3(acked, p) ELSE acked

\* Mutant: the ring starts after seq, as in handleSYN3, where a SYN took it.
handleSYN4_SkipsByte(child, p, nxt) ==
  [child EXCEPT !.TCPState = "ESTABLISHED", !.snd_una = p.ack, !.snd_nxt = nxt,
                !.head = p.seq + 1, !.tail = p.seq + 1, !.rcv_nxt = p.seq + 1,
                !.rcv_wnd = p.rwnd]

\* The child's half of handleSYN4; nxt is the parent's snd_nxt.
handleSYN4(child, p, nxt) ==
  [child EXCEPT !.TCPState = "ESTABLISHED", !.snd_una = p.ack, !.snd_nxt = nxt,
                !.head = p.seq, !.tail = p.seq, !.rcv_nxt = p.seq,
                !.rcv_wnd = p.rwnd]

-----------------------------------------------------------------------------
(* The ring buffer and the data path.                                      *)

\* Mutant: bytes that were received before are written to the ring again.
Stored_Again(sk, p) == p.seq .. p.seq + Len(p.data) - 1

\* Slots that writeToBuffer fills: the part of the segment from tail on.
Stored(sk, p) ==
  {n \in p.seq .. p.seq + Len(p.data) - 1 : n >= sk.tail}

writeToBuffer(sk, p) ==
  [i \in Slot |->
     IF \E n \in Stored(sk, p) : n % RINGBUFFER_SIZE = i
     THEN LET n == CHOOSE n \in Stored(sk, p) : n % RINGBUFFER_SIZE = i
          IN  p.data[n - p.seq + 1]
     ELSE sk.buf[i]]

\* How far the loop over filled[tail % size] moves tail
Contiguous(buf, tail) ==
  Cardinality({k \in Slot :
                 \A j \in 0 .. k : buf[(tail + j) % RINGBUFFER_SIZE] # NoByte})

\* Mutant: tail advances over a segment that did not arrive in order.
handleSaveData_Gap(c, p) ==
  LET last  == p.seq + Len(p.data)
      saved == [c EXCEPT !.sk.buf = writeToBuffer(c.sk, p), !.sk.snd_una = p.ack,
                         !.sk.tail = IF last > @ THEN last ELSE @,
                         !.sk.rcv_nxt = IF last > @ THEN last ELSE @,
                         !.sk.rcv_wnd = p.rwnd]
  IN  IF p.data = <<>> THEN saved
      ELSE sendAndLogPacket(saved, <<>>, {"ACK"})

handleSaveData(c, p) ==
  LET buf   == writeToBuffer(c.sk, p)
      k     == Contiguous(buf, c.sk.tail)
      saved == [c EXCEPT !.sk.buf = buf, !.sk.snd_una = p.ack,
                         !.sk.tail = @ + k, !.sk.rcv_nxt = @ + k,
                         !.sk.rcv_wnd = p.rwnd]
  IN  IF p.data = <<>> THEN saved
      ELSE sendAndLogPacket(saved, <<>>, {"ACK"})

Unread(sk) == sk.tail - sk.head

UnreadBytes(sk) ==
  [i \in 1 .. Unread(sk) |-> sk.buf[(sk.head + i - 1) % RINGBUFFER_SIZE]]

\* The locked part of tcp_sock_read: readFromBuffer and the window update.
Read(c) ==
  LET emptied == [i \in Slot |->
                    IF \E n \in c.sk.head .. c.sk.tail - 1 :
                         n % RINGBUFFER_SIZE = i
                    THEN NoByte ELSE c.sk.buf[i]]
  IN  sendAndLogPacket(
        [c EXCEPT !.ok = @ /\ Unread(c.sk) < RINGBUFFER_SIZE,
                  !.sk.buf = emptied, !.sk.head = c.sk.tail],
        <<>>, {"ACK"})

-----------------------------------------------------------------------------
(* The data the sender may put on the wire, and the four FIN handlers.     *)

\* Mutant: the congestion window alone limits the sender.
SendWindow_Congestion(sk) == (MAX_DATA_SIZE * getCwnd(sk.cc)) % UINT16

\* min(rcv_wnd, (uint16_t)(MAX_DATA_SIZE * getCwnd()))
SendWindow(sk) ==
  LET congestion == (MAX_DATA_SIZE * getCwnd(sk.cc)) % UINT16
  IN  IF sk.rcv_wnd < congestion THEN sk.rcv_wnd ELSE congestion

\* The size tcp_sock_write chooses next, if its test lets it send.  When
\* snd_una is ahead of snd_nxt the unsigned difference exceeds any window.
SegmentSize(remaining) ==
  IF MAX_DATA_SIZE < remaining THEN MAX_DATA_SIZE ELSE remaining

MaySend(sk, size) ==
  /\ sk.snd_una <= sk.snd_nxt
  /\ size <= SendWindow(sk) - (sk.snd_nxt - sk.snd_una)


\* Mutant: the last, shorter segment counts as a full one.
Write_FullSize(c, data) ==
  LET sent == sendAndLogPacket(c, data, {"ACK"})
  IN  [sent EXCEPT !.sk.snd_nxt = @ + MAX_DATA_SIZE]

Write(c, data) ==
  LET sent == sendAndLogPacket(c, data, {"ACK"})
  IN  [sent EXCEPT !.sk.snd_nxt = @ + Len(data)]

Close(c) ==
  LET sent == SendControl(c, {"FIN", "ACK"})
  IN  [sent EXCEPT !.sk.TCPState = "FIN_WAIT_1"]

\* Mutant: the passive side waits in CLOSE_WAIT, which nothing leaves.
handleFIN1_CloseWait(c, p) ==
  sendAndLogPacket([c EXCEPT !.sk.TCPState = "CLOSE_WAIT", !.sk.snd_una = p.ack,
                             !.sk.rcv_nxt = p.seq + 1], <<>>, {"ACK"})

\* Mutant: the passive side acknowledges the FIN and sends none of its own.
handleFIN1_NoFIN(c, p) ==
  sendAndLogPacket([c EXCEPT !.sk.TCPState = "LAST_ACK", !.sk.snd_una = p.ack,
                             !.sk.rcv_nxt = p.seq + 1], <<>>, {"ACK"})

handleFIN1(c, p) ==
  SendControl([c EXCEPT !.sk.TCPState = "LAST_ACK", !.sk.snd_una = p.ack,
                        !.sk.rcv_nxt = p.seq + 1], {"FIN", "ACK"})

\* Mutant: the active side does not wait for the peer's FIN.
handleFIN2_NoFIN(c, p) == [c EXCEPT !.sk.TCPState = "TIME_WAIT", !.sk.snd_una = p.ack]

handleFIN2(c, p) == [c EXCEPT !.sk.TCPState = "FIN_WAIT_2", !.sk.snd_una = p.ack]

handleFIN3(c, p) ==
  sendAndLogPacket([c EXCEPT !.sk.TCPState = "TIME_WAIT", !.sk.snd_una = p.ack,
                             !.sk.rcv_nxt = p.seq + 1], <<>>, {"ACK"})

handleFIN4(c, p) == [c EXCEPT !.sk.TCPState = "CLOSED"]
=============================================================================
