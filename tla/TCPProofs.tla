----------------------------- MODULE TCPProofs -----------------------------
(***************************************************************************)
(* Lemmas about the operators of CongestionControl and TCPSocket: every    *)
(* handler returns a well-typed context, moves the sending half of its     *)
(* socket forward, says what it puts on the wire, and keeps the bytes of   *)
(* its ring.  Theorems about TCPProtocol for every number of clients,      *)
(* every file length and every loss, duplication, reordering and timing:   *)
(* its types, its timers, its tables and its send buffers.                 *)
(***************************************************************************)
EXTENDS TCPProperties, TLAPS, FiniteSetTheorems, SequenceTheorems, NumberLemmas

-----------------------------------------------------------------------------
(* Arithmetic of the fixed-point window and of uint16_t.                   *)

LEMMA DivType == ASSUME NEW a \in Nat, NEW b \in Nat \ {0} PROVE a \div b \in Nat
  BY Z3

LEMMA ModType == ASSUME NEW a \in Int PROVE a % UINT16 \in Nat
  BY CongestionAssumption, Z3

LEMMA HalvedType == ASSUME NEW a \in Nat \ {0} PROVE Halved(a) \in Nat \ {0}
  BY Z3 DEF Halved

LEMMA HalfType == ASSUME NEW cc \in Congestion PROVE HalfInSegments(cc) \in Nat
<1>1. cc.cwnd \div 2 \in Nat  BY Z3 DEF Congestion
<1>2. (cc.cwnd \div 2) \div CWND_ONE \in Nat
  BY <1>1, DivType, CongestionAssumption
<1> QED  BY <1>2, ModType DEF HalfInSegments

LEMMA GrownType == ASSUME NEW cc \in Congestion PROVE Grown(cc) \in Nat \ {0}
<1>1. cc.cwnd \in Nat \ {0}  BY DEF Congestion
<1>2. CWND_ONE * CWND_ONE \in Nat  BY CongestionAssumption
<1>3. (CWND_ONE * CWND_ONE) \div cc.cwnd \in Nat  BY <1>1, <1>2, DivType
<1> QED  BY <1>1, <1>3, CongestionAssumption DEF Grown

-----------------------------------------------------------------------------
(* Congestion control.                                                     *)

LEMMA CongestionConstants == UINT16 \in Nat /\ CWND_ONE \in Nat \ {0} /\ INIT_SSTHRESH \in Nat
  BY CongestionAssumption

LEMMA InitCongestionType == InitCongestion \in Congestion
  BY CongestionConstants DEF InitCongestion, Congestion

LEMMA dupackType ==
  ASSUME NEW cc \in Congestion, NEW ack \in Nat
  PROVE  dupack(cc, ack).cc \in Congestion
<1> DEFINE counted == CountDupack(cc)
           entered == EnterRecovery(counted, ack)
<1>1. counted \in Congestion  BY DEF CountDupack, Congestion
<1>2. HalfInSegments(counted) \in Nat /\ Halved(counted.cwnd) \in Nat \ {0}
  BY <1>1, HalfType, HalvedType DEF Congestion
<1>3. entered \in Congestion
  <2> HIDE DEF counted
  <2> QED  BY <1>1, <1>2 DEF EnterRecovery, Congestion
<1> HIDE DEF entered
<1>4. dupack(cc, ack).cc = [entered EXCEPT !.alradyRetrans = @ \/
                              (entered.congestState = "RECOVERY" /\ ~entered.alradyRetrans)]
  BY DEF dupack, entered, counted
<1> QED  BY <1>3, <1>4 DEF Congestion

LEMMA successTransferType ==
  ASSUME NEW cc \in Congestion, NEW ack \in Nat
  PROVE  successTransfer(cc, ack).cc \in Congestion
  BY GrownType DEF successTransfer, Congestion

LEMMA RTOType == ASSUME NEW cc \in Congestion PROVE RTO(cc) \in Congestion
  BY HalfType, CongestionConstants DEF RTO, Congestion

LEMMA checkRecoveryType ==
  ASSUME NEW cc \in Congestion, NEW ack \in Nat
  PROVE  checkRecovery(cc, ack) \in Congestion
  BY DEF checkRecovery, Congestion

-----------------------------------------------------------------------------
(* Sending.                                                                *)

LEMMA SlotFacts == RINGBUFFER_SIZE \in Nat \ {0} /\ MAX_DATA_SIZE \in Nat \ {0}
  BY SocketAssumption

LEMMA SegmentOfType ==
  ASSUME NEW sk \in tcp_sock, NEW seq \in Nat, NEW data \in Seq(Byte),
         NEW flags \in SUBSET Flag
  PROVE  SegmentOf(sk, seq, data, flags) \in Segment
<1>1. RINGBUFFER_SIZE - (sk.tail - sk.head) \in Int
  BY SlotFacts DEF tcp_sock
<1>2. Advertised(sk) \in Nat
  BY <1>1, ModType DEF Advertised
<1> QED  BY <1>2 DEF SegmentOf, Segment, tcp_sock

LEMMA sendAndLogPacketType ==
  ASSUME NEW c \in Context, NEW data \in Seq(Byte), NEW flags \in SUBSET Flag
  PROVE  sendAndLogPacket(c, data, flags) \in Context
<1> DEFINE e == [seq |-> c.sk.snd_nxt, data |-> data, flags |-> flags, resendTime |-> 0]
           m == SegmentOf(c.sk, c.sk.snd_nxt, data, flags)
<1>1. c.sk \in tcp_sock /\ c.tx \in Seq(Segment) /\ c.ok \in BOOLEAN
  BY DEF Context
<1>2. m \in Segment
  BY <1>1, SegmentOfType DEF tcp_sock
<1>3. e \in TCPPacketInfo_c
  BY <1>1 DEF TCPPacketInfo_c, tcp_sock
<1>4. Append(c.tx, m) \in Seq(Segment)
  BY <1>1, <1>2
<1>5. Append(c.sk.sendBuffer, e) \in Seq(TCPPacketInfo_c)
  BY <1>1, <1>3 DEF tcp_sock
<1>6. sendAndLogPacket(c, data, flags) =
        [c EXCEPT !.tx = Append(c.tx, m),
                  !.sk = [c.sk EXCEPT !.timingOpen = @ \/ c.sk.sendBuffer = <<>>,
                                      !.sendBuffer = Append(c.sk.sendBuffer, e)]]
  BY <1>1 DEF sendAndLogPacket, tcp_sock, Context
<1> HIDE DEF e, m
<1>7. [c.sk EXCEPT !.timingOpen = @ \/ c.sk.sendBuffer = <<>>,
                   !.sendBuffer = Append(c.sk.sendBuffer, e)] \in tcp_sock
  BY <1>1, <1>5 DEF tcp_sock
<1> QED  BY <1>1, <1>4, <1>6, <1>7 DEF Context

LEMMA EmptyDataType == <<>> \in Seq(Byte)
  OBVIOUS

LEMMA SendControlType ==
  ASSUME NEW c \in Context, NEW flags \in SUBSET Flag
  PROVE  SendControl(c, flags) \in Context
<1> DEFINE sent == sendAndLogPacket(c, <<>>, flags)
<1>1. sent \in Context  BY EmptyDataType, sendAndLogPacketType
<1> HIDE DEF sent
<1>2. sent.sk \in tcp_sock  BY <1>1 DEF Context
<1>3. [sent.sk EXCEPT !.snd_nxt = @ + 1] \in tcp_sock  BY <1>2, SMTT(60) DEF tcp_sock
<1>4. [sent EXCEPT !.sk = [sent.sk EXCEPT !.snd_nxt = @ + 1]] \in Context
  BY <1>1, <1>3 DEF Context
<1> QED  BY <1>4 DEF SendControl, sent

LEMMA RequireType ==
  ASSUME NEW c \in Context, NEW holds \in BOOLEAN
  PROVE  Require(c, holds) \in Context
  BY DEF Require, Context

LEMMA resendType ==
  ASSUME NEW c \in Context, c.sk.sendBuffer # <<>>
  PROVE  resend(c) \in Context
<1> DEFINE e == Head(c.sk.sendBuffer)
           times == IF e.resendTime > MAX_RESEND THEN e.resendTime
                    ELSE e.resendTime + 1
           m == SegmentOf(c.sk, e.seq, e.data, e.flags)
           buffer == [c.sk.sendBuffer EXCEPT ![1].resendTime = times]
           resent == [c EXCEPT !.tx = Append(@, m), !.sk.sendBuffer = buffer]
<1>1. c.sk \in tcp_sock /\ c.tx \in Seq(Segment) /\ c.ok \in BOOLEAN
  BY DEF Context
<1>2. e \in TCPPacketInfo_c /\ c.sk.sendBuffer \in Seq(TCPPacketInfo_c)
      /\ e = c.sk.sendBuffer[1] /\ 1 \in 1 .. Len(c.sk.sendBuffer)
  BY <1>1 DEF tcp_sock
<1>3. times \in Nat  BY <1>2, SocketAssumption, SMTT(25) DEF TCPPacketInfo_c
<1>4. m \in Segment  BY <1>1, <1>2, SegmentOfType DEF TCPPacketInfo_c
<1>5. [c.sk.sendBuffer[1] EXCEPT !.resendTime = times] \in TCPPacketInfo_c
  <2> HIDE DEF times
  <2> QED  BY <1>2, <1>3 DEF TCPPacketInfo_c
<1>6. buffer \in Seq(TCPPacketInfo_c)
  <2> HIDE DEF times
  <2> QED  BY <1>2, <1>5, ExceptSeq
<1>7. Append(c.tx, m) \in Seq(Segment)  BY <1>1, <1>4
<1>8. resent \in Context
  <2> HIDE DEF buffer, m
  <2>1. [c.sk EXCEPT !.sendBuffer = buffer] \in tcp_sock
    BY <1>1, <1>6 DEF tcp_sock
  <2> QED  BY <1>1, <1>7, <2>1 DEF Context
<1>9. resend(c) \in {Require(c, FALSE), resent}
  BY DEF resend
<1> HIDE DEF resent
<1> QED  BY <1>8, <1>9, RequireType

-----------------------------------------------------------------------------
(* Timeouts and acknowledgements.                                          *)

LEMMA HandleTimeOutType ==
  ASSUME NEW c \in Context
  PROVE  HandleTimeOut(c) \in Context
<1> DEFINE reduced == [c EXCEPT !.sk.cc = RTO(@)]
<1>1. reduced \in Context
  <2>1. RTO(c.sk.cc) \in Congestion  BY RTOType DEF Context, tcp_sock
  <2> QED  BY <2>1 DEF Context, tcp_sock
<1>2. HandleTimeOut(c) = IF c.sk.sendBuffer = <<>> THEN Require(reduced, FALSE)
                         ELSE resend(reduced)
  BY DEF HandleTimeOut
<1>3. reduced.sk.sendBuffer = c.sk.sendBuffer
  BY DEF Context, tcp_sock
<1> HIDE DEF reduced
<1> QED  BY <1>1, <1>2, <1>3, RequireType, resendType

LEMMA PopCountRange ==
  ASSUME NEW b \in Seq(TCPPacketInfo_c), NEW ack \in Nat
  PROVE  PopCount(b, ack) \in 0 .. Len(b)
<1> DEFINE P == {i \in DOMAIN b : \A j \in 1 .. i : Covered(b[j], ack)}
<1>1. Len(b) \in Nat /\ DOMAIN b = 1 .. Len(b)  OBVIOUS
<1>2. IsFiniteSet(1 .. Len(b)) /\ Cardinality(1 .. Len(b)) = Len(b)
  BY <1>1, FS_Interval
<1>3. P \subseteq 1 .. Len(b)  BY <1>1
<1> HIDE DEF P
<1>4. IsFiniteSet(P) /\ Cardinality(P) <= Len(b)
  BY <1>2, <1>3, FS_Subset
<1>5. Cardinality(P) \in Nat  BY <1>4, FS_CardinalityType
<1> QED  BY <1>1, <1>4, <1>5 DEF PopCount, P

LEMMA PopType ==
  ASSUME NEW b \in Seq(TCPPacketInfo_c), NEW ack \in Nat
  PROVE  Pop(b, ack) \in Seq(TCPPacketInfo_c)
  BY PopCountRange, SubSeqProperties, SMTT(25) DEF Pop

LEMMA CongestionOnAckType ==
  ASSUME NEW sk \in tcp_sock, NEW ack \in Nat
  PROVE  CongestionOnAck(sk, ack).cc \in Congestion
<1>1. sk.cc \in Congestion  BY DEF tcp_sock
<1> DEFINE counted == IF ack = sk.snd_una THEN dupack(sk.cc, ack)
                      ELSE successTransfer(sk.cc, ack)
<1>2. counted.cc \in Congestion
  BY <1>1, dupackType, successTransferType
<1>3. counted = [cc |-> counted.cc, retrans |-> counted.retrans]
  BY DEF dupack, successTransfer
<1> HIDE DEF counted
<1>4. CongestionOnAck(sk, ack) = [counted EXCEPT !.cc = checkRecovery(@, ack)]
  BY DEF CongestionOnAck, counted
<1>5. CongestionOnAck(sk, ack).cc = checkRecovery(counted.cc, ack)
  BY <1>3, <1>4
<1> QED  BY <1>2, <1>5, checkRecoveryType

\* What handleACK makes of the socket before a fast retransmission
AckPopped(c, ack) ==
  [c EXCEPT !.ok = @ /\ TimerConsistent(c.sk),
            !.sk.cc = CongestionOnAck(c.sk, ack).cc,
            !.sk.sendBuffer = Pop(c.sk.sendBuffer, ack),
            !.sk.timingOpen = @ /\ Pop(c.sk.sendBuffer, ack) # <<>>]

LEMMA AckPoppedType ==
  ASSUME NEW c \in Context, NEW ack \in Nat
  PROVE  AckPopped(c, ack) \in Context
<1>1. c.sk \in tcp_sock  BY DEF Context
<1>2. CongestionOnAck(c.sk, ack).cc \in Congestion  BY <1>1, CongestionOnAckType
<1>3. Pop(c.sk.sendBuffer, ack) \in Seq(TCPPacketInfo_c)
  BY <1>1, PopType DEF tcp_sock
<1> QED  BY <1>1, <1>2, <1>3 DEF AckPopped, Context, tcp_sock, TimerConsistent

LEMMA handleACKType ==
  ASSUME NEW c \in Context, NEW ack \in Nat
  PROVE  handleACK(c, ack) \in Context
<1>1. AckPopped(c, ack) \in Context  BY AckPoppedType
<1>2. AckPopped(c, ack).sk.sendBuffer = Pop(c.sk.sendBuffer, ack)
  BY DEF AckPopped, Context, tcp_sock
<1>3. \/ handleACK(c, ack) = AckPopped(c, ack)
      \/ /\ handleACK(c, ack) = resend(AckPopped(c, ack))
         /\ Pop(c.sk.sendBuffer, ack) # <<>>
  BY DEF handleACK, AckPopped
<1> QED  BY <1>1, <1>2, <1>3, resendType

LEMMA OnSegmentType ==
  ASSUME NEW sk \in tcp_sock, NEW p \in Segment
  PROVE  OnSegment(Enter(sk), p) \in Context
<1>1. Enter(sk) \in Context  BY DEF Enter, Context
<1>2. p.ack \in Nat  BY DEF Segment
<1> QED  BY <1>1, <1>2, handleACKType DEF OnSegment

-----------------------------------------------------------------------------
(* The handlers of handlePacket.                                           *)

LEMMA FlagSets ==
  /\ {"SYN"} \in SUBSET Flag /\ {"ACK"} \in SUBSET Flag
  /\ {"SYN", "ACK"} \in SUBSET Flag /\ {"FIN", "ACK"} \in SUBSET Flag
  BY DEF Flag

LEMMA UpdateType ==
  ASSUME NEW c \in Context, NEW sk \in tcp_sock
  PROVE  [c EXCEPT !.sk = sk] \in Context
  BY DEF Context

LEMMA SendAckType ==
  ASSUME NEW c \in Context, NEW sk \in tcp_sock
  PROVE  sendAndLogPacket([c EXCEPT !.sk = sk], <<>>, {"ACK"}) \in Context
<1>1. [c EXCEPT !.sk = sk] \in Context  BY UpdateType
<1> QED  BY <1>1, sendAndLogPacketType, EmptyDataType, FlagSets

LEMMA States ==
  {"CLOSED", "SYN_RECV", "SYN_SENT", "ESTABLISHED", "LAST_ACK", "FIN_WAIT_1",
   "FIN_WAIT_2", "TIME_WAIT", "LISTEN"} \subseteq TCPState_c
  BY DEF TCPState_c

\* What a handler reads of the socket and of the segment
LEMMA HandlerFacts ==
  ASSUME NEW c \in Context, NEW p \in Segment
  PROVE  /\ c.sk \in tcp_sock
         /\ p.src \in Hosts \cup {NoPeer} /\ p.seq \in Nat /\ p.seq + 1 \in Nat
         /\ p.ack \in Nat /\ p.rwnd \in Nat
  BY DEF Context, Segment

LEMMA ConnectType ==
  ASSUME NEW c \in Context PROVE Connect(c) \in Context
<1> DEFINE sent == SendControl(c, {"SYN"})
<1>1. sent \in Context  BY SendControlType, FlagSets
<1> HIDE DEF sent
<1>2. [sent.sk EXCEPT !.TCPState = "SYN_SENT", !.rcv_nxt = 0] \in tcp_sock
  BY <1>1 DEF Context, tcp_sock, TCPState_c
<1>3. Connect(c) = [sent EXCEPT !.sk = [sent.sk EXCEPT !.TCPState = "SYN_SENT",
                                                      !.rcv_nxt = 0]]
  BY <1>1 DEF Connect, sent, Context, tcp_sock
<1> QED  BY <1>1, <1>2, <1>3, UpdateType

LEMMA WriteType ==
  ASSUME NEW c \in Context, NEW data \in Seq(Byte)
  PROVE  Write(c, data) \in Context
<1> DEFINE sent == sendAndLogPacket(c, data, {"ACK"})
<1>1. sent \in Context  BY sendAndLogPacketType, FlagSets
<1> HIDE DEF sent
<1>2. sent.sk \in tcp_sock /\ Len(data) \in Nat  BY <1>1 DEF Context
<1>3. sent.sk.snd_nxt + Len(data) \in Nat  BY <1>2 DEF tcp_sock
<1>4. [sent.sk EXCEPT !.snd_nxt = @ + Len(data)] \in tcp_sock
  BY <1>2, <1>3 DEF tcp_sock
<1>5. Write(c, data) = [sent EXCEPT !.sk = [sent.sk EXCEPT !.snd_nxt = @ + Len(data)]]
  BY DEF Write, sent
<1> QED  BY <1>1, <1>4, <1>5, UpdateType

LEMMA CloseType ==
  ASSUME NEW c \in Context PROVE Close(c) \in Context
<1> DEFINE sent == SendControl(c, {"FIN", "ACK"})
<1>1. sent \in Context  BY SendControlType, FlagSets
<1> HIDE DEF sent
<1>2. [sent.sk EXCEPT !.TCPState = "FIN_WAIT_1"] \in tcp_sock
  BY <1>1 DEF Context, tcp_sock, TCPState_c
<1>3. Close(c) = [sent EXCEPT !.sk = [sent.sk EXCEPT !.TCPState = "FIN_WAIT_1"]]
  BY DEF Close, sent
<1> QED  BY <1>1, <1>2, <1>3, UpdateType

LEMMA handleSYN1Type ==
  ASSUME NEW c \in Context, NEW p \in Segment
  PROVE  handleSYN1(c, p) \in Context
<1> DEFINE sk == [c.sk EXCEPT !.TCPState = "SYN_RECV", !.peer = p.src,
                              !.rcv_nxt = p.seq + 1]
<1>1. sk \in tcp_sock  BY HandlerFacts, States DEF tcp_sock
<1>2. handleSYN1(c, p) = SendControl([c EXCEPT !.sk = sk], {"SYN", "ACK"})
  BY DEF handleSYN1, Context, tcp_sock
<1> HIDE DEF sk
<1> QED  BY <1>1, <1>2, UpdateType, SendControlType, FlagSets

LEMMA handleSYN23Type ==
  ASSUME NEW c \in Context, NEW p \in Segment
  PROVE  handleSYN23(c, p) \in Context
<1> DEFINE acked == IF "ACK" \in p.flags THEN handleSYN2(c, p) ELSE c
           sk == [acked.sk EXCEPT !.TCPState = "ESTABLISHED",
                                  !.head = p.seq + 1, !.tail = p.seq + 1,
                                  !.rcv_nxt = p.seq + 1, !.rcv_wnd = p.rwnd]
<1>1. acked \in Context
  <2>1. [c.sk EXCEPT !.snd_una = p.ack] \in tcp_sock
    BY DEF Context, tcp_sock, Segment
  <2> QED  BY <2>1, UpdateType DEF handleSYN2
<1>2. handleSYN23(c, p) = IF "SYN" \in p.flags THEN handleSYN3(acked, p) ELSE acked
  BY DEF handleSYN23
<1> HIDE DEF acked
<1>3. acked.sk \in tcp_sock  BY <1>1 DEF Context
<1>4. sk \in tcp_sock  BY <1>3, HandlerFacts, States DEF tcp_sock
<1>5. handleSYN3(acked, p) =
        sendAndLogPacket([acked EXCEPT !.sk = sk], <<>>, {"ACK"})
  BY <1>1 DEF handleSYN3, Context, tcp_sock
<1> HIDE DEF sk
<1> QED  BY <1>1, <1>2, <1>4, <1>5, SendAckType

LEMMA handleSYN4Type ==
  ASSUME NEW child \in tcp_sock, NEW p \in Segment, NEW nxt \in Nat
  PROVE  handleSYN4(child, p, nxt) \in tcp_sock
  BY DEF handleSYN4, tcp_sock, TCPState_c, Segment

LEMMA writeToBufferType ==
  ASSUME NEW sk \in tcp_sock, NEW p \in Segment
  PROVE  writeToBuffer(sk, p) \in [Slot -> Byte \cup {NoByte}]
<1> SUFFICES ASSUME NEW i \in Slot, NEW n \in Stored(sk, p)
             PROVE  p.data[n - p.seq + 1] \in Byte
  BY DEF writeToBuffer, tcp_sock
<1>1. p.data \in Seq(Byte) /\ p.seq \in Nat  BY DEF Segment
<1>2. n - p.seq + 1 \in 1 .. Len(p.data)  BY <1>1 DEF Stored
<1> QED  BY <1>1, <1>2

LEMMA ContiguousType ==
  ASSUME NEW buf, NEW tail PROVE Contiguous(buf, tail) \in Nat
<1>1. IsFiniteSet(Slot)  BY SlotFacts, FS_Interval DEF Slot
<1> QED  BY <1>1, FS_Subset, FS_CardinalityType DEF Contiguous

LEMMA ReceiveSums ==
  ASSUME NEW sk \in tcp_sock, NEW k \in Nat
  PROVE  sk.tail + k \in Nat /\ sk.rcv_nxt + k \in Nat
<1>1. sk.tail \in Nat /\ sk.rcv_nxt \in Nat  BY DEF tcp_sock
<1> QED  BY <1>1

LEMMA handleSaveDataType ==
  ASSUME NEW c \in Context, NEW p \in Segment
  PROVE  handleSaveData(c, p) \in Context
<1> DEFINE buf == writeToBuffer(c.sk, p)
           k   == Contiguous(buf, c.sk.tail)
           sk  == [c.sk EXCEPT !.buf = buf, !.snd_una = p.ack, !.tail = @ + k,
                               !.rcv_nxt = @ + k, !.rcv_wnd = p.rwnd]
<1>1. c.sk \in tcp_sock  BY DEF Context
<1>2. buf \in [Slot -> Byte \cup {NoByte}]  BY <1>1, writeToBufferType
<1>3. k \in Nat  BY ContiguousType
<1>4. \/ handleSaveData(c, p) = [c EXCEPT !.sk = sk]
      \/ handleSaveData(c, p) = sendAndLogPacket([c EXCEPT !.sk = sk], <<>>, {"ACK"})
  <2> HIDE DEF buf
  <2> QED  BY <1>1 DEF handleSaveData, Context, tcp_sock, buf
<1> HIDE DEF buf, k
<1>5. c.sk.tail + k \in Nat /\ c.sk.rcv_nxt + k \in Nat
  BY <1>1, <1>3, ReceiveSums
<1>6. sk \in tcp_sock  BY <1>1, <1>2, <1>5, HandlerFacts DEF tcp_sock
<1> HIDE DEF sk
<1> QED  BY <1>4, <1>6, UpdateType, SendAckType

LEMMA ReadType ==
  ASSUME NEW c \in Context PROVE Read(c) \in Context
<1> DEFINE emptied == [i \in Slot |->
                         IF \E n \in c.sk.head .. c.sk.tail - 1 :
                              n % RINGBUFFER_SIZE = i
                         THEN NoByte ELSE c.sk.buf[i]]
           sk == [c.sk EXCEPT !.buf = emptied, !.head = c.sk.tail]
           checked == [c EXCEPT !.ok = @ /\ Unread(c.sk) < RINGBUFFER_SIZE]
<1>1. c.sk \in tcp_sock  BY DEF Context
<1>2. emptied \in [Slot -> Byte \cup {NoByte}]  BY <1>1 DEF tcp_sock
<1>3. checked \in Context  BY DEF Context
<1>4. Read(c) = sendAndLogPacket([checked EXCEPT !.sk = sk], <<>>, {"ACK"})
  <2> HIDE DEF emptied
  <2> QED  BY <1>1 DEF Read, Context, tcp_sock, emptied
<1> HIDE DEF emptied, checked
<1>5. sk \in tcp_sock  BY <1>1, <1>2 DEF tcp_sock
<1> HIDE DEF sk
<1> QED  BY <1>3, <1>4, <1>5, SendAckType

LEMMA handleFIN1Type ==
  ASSUME NEW c \in Context, NEW p \in Segment
  PROVE  handleFIN1(c, p) \in Context
<1> DEFINE sk == [c.sk EXCEPT !.TCPState = "LAST_ACK", !.snd_una = p.ack,
                              !.rcv_nxt = p.seq + 1]
<1>1. sk \in tcp_sock  BY HandlerFacts, States DEF tcp_sock
<1>2. handleFIN1(c, p) = SendControl([c EXCEPT !.sk = sk], {"FIN", "ACK"})
  BY DEF handleFIN1, Context, tcp_sock
<1> HIDE DEF sk
<1> QED  BY <1>1, <1>2, UpdateType, SendControlType, FlagSets

LEMMA handleFIN2Type ==
  ASSUME NEW c \in Context, NEW p \in Segment
  PROVE  handleFIN2(c, p) \in Context
<1>1. [c.sk EXCEPT !.TCPState = "FIN_WAIT_2", !.snd_una = p.ack] \in tcp_sock
  BY DEF Context, tcp_sock, TCPState_c, Segment
<1> QED  BY <1>1 DEF handleFIN2, Context, tcp_sock

LEMMA handleFIN3Type ==
  ASSUME NEW c \in Context, NEW p \in Segment
  PROVE  handleFIN3(c, p) \in Context
<1> DEFINE sk == [c.sk EXCEPT !.TCPState = "TIME_WAIT", !.snd_una = p.ack,
                              !.rcv_nxt = p.seq + 1]
<1>1. sk \in tcp_sock  BY HandlerFacts, States DEF tcp_sock
<1>2. handleFIN3(c, p) = sendAndLogPacket([c EXCEPT !.sk = sk], <<>>, {"ACK"})
  BY DEF handleFIN3, Context, tcp_sock
<1> HIDE DEF sk
<1> QED  BY <1>1, <1>2, SendAckType

LEMMA handleFIN4Type ==
  ASSUME NEW c \in Context, NEW p
  PROVE  handleFIN4(c, p) \in Context
<1>1. [c.sk EXCEPT !.TCPState = "CLOSED"] \in tcp_sock
  BY DEF Context, tcp_sock, TCPState_c
<1> QED  BY <1>1, UpdateType DEF handleFIN4

-----------------------------------------------------------------------------
(* What a handler may do to the sending half of a socket.                  *)

\* A socket that logs something is timed, and once timingOpen says whether
\* sendBuffer is empty it goes on saying so.
Timed(sk) == TimerConsistent(sk) \/ Unset(sk)

TimerFollows(sk, after) ==
  Timed(sk) => TimerConsistent(after) \/ (Unset(sk) /\ Unset(after))

Advances(sk, after) ==
  /\ sk.snd_nxt <= after.snd_nxt
  /\ TimerFollows(sk, after)
  /\ SendBufferUnbroken(sk) => SendBufferUnbroken(after)

\* The fields Advances is about are untouched.
Keeps(sk, after) ==
  /\ after.snd_nxt = sk.snd_nxt
  /\ after.timingOpen = sk.timingOpen
  /\ after.sendBuffer = sk.sendBuffer

LEMMA KeepsAdvances ==
  ASSUME NEW sk \in tcp_sock, NEW after, Keeps(sk, after)
  PROVE  Advances(sk, after)
  BY DEF Keeps, Advances, TimerFollows, Timed, TimerConsistent, Unset,
         SendBufferUnbroken, tcp_sock

LEMMA AdvancesTrans ==
  ASSUME NEW a \in tcp_sock, NEW b \in tcp_sock, NEW c \in tcp_sock,
         Advances(a, b), Advances(b, c)
  PROVE  Advances(a, c)
<1>1. a.snd_nxt \in Nat /\ b.snd_nxt \in Nat /\ c.snd_nxt \in Nat
  BY DEF tcp_sock
<1>2. a.snd_nxt <= b.snd_nxt /\ b.snd_nxt <= c.snd_nxt  BY DEF Advances
<1>3. a.snd_nxt <= c.snd_nxt  BY <1>1, <1>2
<1>4. TimerFollows(a, b) /\ TimerFollows(b, c)  BY DEF Advances
<1>5. TimerConsistent(b) => ~Unset(b)  BY DEF TimerConsistent, Unset
<1>6. TimerFollows(a, c)  BY <1>4, <1>5 DEF TimerFollows, Timed
<1> QED  BY <1>3, <1>6 DEF Advances

LEMMA SpanType == ASSUME NEW e \in TCPPacketInfo_c PROVE Span(e) \in Nat
  BY DEF Span, TCPPacketInfo_c

\* An entry appended at snd_nxt, with snd_nxt moved past it
LEMMA AppendUnbroken ==
  ASSUME NEW sk \in tcp_sock, NEW after \in tcp_sock, NEW e \in TCPPacketInfo_c,
         e.seq = sk.snd_nxt,
         after.sendBuffer = Append(sk.sendBuffer, e),
         after.snd_nxt = e.seq + Span(e),
         SendBufferUnbroken(sk)
  PROVE  SendBufferUnbroken(after)
<1> DEFINE b == sk.sendBuffer
           r == after.sendBuffer
<1>1. b \in Seq(TCPPacketInfo_c) /\ Len(b) \in Nat  BY DEF tcp_sock
<1>2. /\ Len(r) = Len(b) + 1
      /\ \A i \in 1 .. Len(b) : r[i] = b[i]
      /\ r[Len(b) + 1] = e
      /\ DOMAIN r = 1 .. Len(b) + 1
  BY <1>1
<1>3. \A i \in 1 .. Len(b) :
        b[i].seq + Span(b[i]) = IF i = Len(b) THEN sk.snd_nxt ELSE b[i + 1].seq
  BY <1>1 DEF SendBufferUnbroken
<1> SUFFICES ASSUME NEW i \in 1 .. Len(b) + 1
             PROVE  r[i].seq + Span(r[i]) =
                      IF i = Len(b) + 1 THEN after.snd_nxt
                      ELSE r[i + 1].seq
  BY <1>2 DEF SendBufferUnbroken
<1> HIDE DEF b, r
<1>4. CASE i = Len(b) + 1  BY <1>2, <1>4
<1>5. CASE i = Len(b)      BY <1>1, <1>2, <1>3, <1>5
<1>6. CASE i < Len(b)
  <2>1. i \in 1 .. Len(b) /\ i + 1 \in 1 .. Len(b) /\ i # Len(b) /\ i # Len(b) + 1
    BY <1>1, <1>6
  <2>2. b[i].seq + Span(b[i]) = b[i + 1].seq  BY <1>3, <2>1
  <2>3. r[i] = b[i] /\ r[i + 1] = b[i + 1]
    BY <1>2, <2>1
  <2> QED  BY <2>1, <2>2, <2>3
<1> QED  BY <1>1, <1>4, <1>5, <1>6

\* What is left when entries are popped from the head
LEMMA SuffixUnbroken ==
  ASSUME NEW sk \in tcp_sock, NEW after \in tcp_sock,
         NEW m \in 0 .. Len(sk.sendBuffer),
         after.sendBuffer = SubSeq(sk.sendBuffer, m + 1, Len(sk.sendBuffer)),
         after.snd_nxt = sk.snd_nxt,
         SendBufferUnbroken(sk)
  PROVE  SendBufferUnbroken(after)
<1> DEFINE b == sk.sendBuffer
           r == after.sendBuffer
<1>1. b \in Seq(TCPPacketInfo_c) /\ Len(b) \in Nat  BY DEF tcp_sock
<1>2. /\ Len(r) = Len(b) - m
      /\ DOMAIN r = 1 .. Len(b) - m
      /\ \A i \in 1 .. Len(b) - m : r[i] = b[i + m]
  <2>1. m + 1 \in 1 .. Len(b) + 1 /\ Len(b) \in m .. Len(b)  BY <1>1
  <2> QED  BY <1>1, <2>1, SubSeqProperties
<1>3. \A i \in 1 .. Len(b) :
        b[i].seq + Span(b[i]) = IF i = Len(b) THEN sk.snd_nxt ELSE b[i + 1].seq
  BY <1>1 DEF SendBufferUnbroken
<1> SUFFICES ASSUME NEW i \in 1 .. Len(b) - m
             PROVE  r[i].seq + Span(r[i]) =
                      IF i = Len(b) - m THEN sk.snd_nxt ELSE r[i + 1].seq
  BY <1>2 DEF SendBufferUnbroken
<1> HIDE DEF b, r
<1>4. i + m \in 1 .. Len(b) /\ r[i] = b[i + m]  BY <1>1, <1>2
<1>5. CASE i = Len(b) - m  BY <1>1, <1>3, <1>4, <1>5
<1>6. CASE i # Len(b) - m
  <2>1. i + 1 \in 1 .. Len(b) - m /\ i + m # Len(b) /\ (i + 1) + m = (i + m) + 1
    BY <1>1, <1>6
  <2>2. r[i + 1] = b[(i + m) + 1]  BY <1>2, <2>1
  <2> QED  BY <1>3, <1>4, <1>6, <2>1, <2>2
<1> QED  BY <1>5, <1>6

\* Counting a resend touches no sequence number.
LEMMA CountedUnbroken ==
  ASSUME NEW sk \in tcp_sock, NEW after \in tcp_sock,
         after.snd_nxt = sk.snd_nxt,
         Len(after.sendBuffer) = Len(sk.sendBuffer),
         \A i \in 1 .. Len(sk.sendBuffer) :
           /\ after.sendBuffer[i].seq = sk.sendBuffer[i].seq
           /\ Span(after.sendBuffer[i]) = Span(sk.sendBuffer[i]),
         SendBufferUnbroken(sk)
  PROVE  SendBufferUnbroken(after)
<1> DEFINE b == sk.sendBuffer
<1>1. b \in Seq(TCPPacketInfo_c) /\ Len(b) \in Nat /\ DOMAIN b = 1 .. Len(b)
      /\ DOMAIN after.sendBuffer = 1 .. Len(b)
  BY DEF tcp_sock
<1> SUFFICES ASSUME NEW i \in 1 .. Len(b)
             PROVE  after.sendBuffer[i].seq + Span(after.sendBuffer[i]) =
                      IF i = Len(b) THEN sk.snd_nxt ELSE after.sendBuffer[i + 1].seq
  BY <1>1 DEF SendBufferUnbroken
<1>2. b[i].seq + Span(b[i]) = IF i = Len(b) THEN sk.snd_nxt ELSE b[i + 1].seq
  BY <1>1 DEF SendBufferUnbroken
<1>3. i # Len(b) => i + 1 \in 1 .. Len(b)  BY <1>1
<1> HIDE DEF b
<1> QED  BY <1>2, <1>3 DEF b

-----------------------------------------------------------------------------
(* Every operator of TCPSocket advances the socket it is given.            *)

LEMMA SendAdvances ==
  ASSUME NEW sk \in tcp_sock, NEW after \in tcp_sock, NEW e \in TCPPacketInfo_c,
         e.seq = sk.snd_nxt,
         after.sendBuffer = Append(sk.sendBuffer, e),
         after.snd_nxt = e.seq + Span(e),
         after.timingOpen = (sk.timingOpen \/ sk.sendBuffer = <<>>)
  PROVE  Advances(sk, after)
<1>1. sk.snd_nxt <= after.snd_nxt  BY SpanType, SMTT(25) DEF tcp_sock
<1>2. TimerFollows(sk, after)
  <2>1. sk.sendBuffer \in Seq(TCPPacketInfo_c)  BY DEF tcp_sock
  <2>2. after.sendBuffer # <<>>  BY <2>1, AppendProperties
  <2>3. sk.timingOpen \in BOOLEAN /\ after.timingOpen \in BOOLEAN  BY DEF tcp_sock
  <2> QED  BY <2>2, <2>3 DEF TimerFollows, Timed, TimerConsistent, Unset
<1> QED  BY <1>1, <1>2, AppendUnbroken DEF Advances

\* The entry that sendAndLogPacket logs
Entry(sk, data, flags) ==
  [seq |-> sk.snd_nxt, data |-> data, flags |-> flags, resendTime |-> 0]

LEMMA EntryType ==
  ASSUME NEW sk \in tcp_sock, NEW data \in Seq(Byte), NEW flags \in SUBSET Flag
  PROVE  Entry(sk, data, flags) \in TCPPacketInfo_c
  BY DEF Entry, TCPPacketInfo_c, tcp_sock

LEMMA SentFields ==
  ASSUME NEW c \in Context, NEW data \in Seq(Byte), NEW flags \in SUBSET Flag
  PROVE  LET after == sendAndLogPacket(c, data, flags).sk
         IN  /\ after.snd_nxt = c.sk.snd_nxt
             /\ after.sendBuffer = Append(c.sk.sendBuffer, Entry(c.sk, data, flags))
             /\ after.timingOpen = (c.sk.timingOpen \/ c.sk.sendBuffer = <<>>)
  BY DEF sendAndLogPacket, Entry, Context, tcp_sock

LEMMA SendAckAdvances ==
  ASSUME NEW c \in Context, NEW sk \in tcp_sock, Keeps(c.sk, sk)
  PROVE  Advances(c.sk, sendAndLogPacket([c EXCEPT !.sk = sk], <<>>, {"ACK"}).sk)
<1> DEFINE b == [c EXCEPT !.sk = sk]
           after == sendAndLogPacket(b, <<>>, {"ACK"}).sk
           e == Entry(c.sk, <<>>, {"ACK"})
<1>1. b \in Context /\ b.sk = sk  BY UpdateType DEF Context
<1>2. c.sk \in tcp_sock  BY DEF Context
<1>3. after \in tcp_sock  BY SendAckType DEF Context
<1>4. e \in TCPPacketInfo_c  BY <1>2, EntryType, EmptyDataType, FlagSets
<1> HIDE DEF b
<1>5. /\ after.snd_nxt = sk.snd_nxt
      /\ after.sendBuffer = Append(sk.sendBuffer, Entry(sk, <<>>, {"ACK"}))
      /\ after.timingOpen = (sk.timingOpen \/ sk.sendBuffer = <<>>)
  BY <1>1, SentFields, EmptyDataType, FlagSets
<1>6. /\ after.snd_nxt = c.sk.snd_nxt
      /\ after.sendBuffer = Append(c.sk.sendBuffer, e)
      /\ after.timingOpen = (c.sk.timingOpen \/ c.sk.sendBuffer = <<>>)
  BY <1>5 DEF Keeps, Entry
<1>7. e.seq = c.sk.snd_nxt /\ Span(e) = 0
  BY DEF Entry, Span
<1>8. after.snd_nxt = e.seq + Span(e)  BY <1>2, <1>6, <1>7, SMTT(25) DEF tcp_sock
<1> HIDE DEF after, e
<1>9. Advances(c.sk, after)
  BY <1>2, <1>3, <1>4, <1>6, <1>7, <1>8, SendAdvances
<1> QED  BY <1>9 DEF after, b

LEMMA SendControlAdvances ==
  ASSUME NEW c \in Context, NEW flags \in SUBSET Flag, flags \cap {"SYN", "FIN"} # {}
  PROVE  Advances(c.sk, SendControl(c, flags).sk)
<1> DEFINE sent == sendAndLogPacket(c, <<>>, flags)
           after == SendControl(c, flags).sk
           e == Entry(c.sk, <<>>, flags)
<1>1. c.sk \in tcp_sock  BY DEF Context
<1>2. after \in tcp_sock  BY SendControlType DEF Context
<1>3. e \in TCPPacketInfo_c  BY <1>1, EntryType, EmptyDataType
<1>4. /\ sent.sk.snd_nxt = c.sk.snd_nxt
      /\ sent.sk.sendBuffer = Append(c.sk.sendBuffer, e)
      /\ sent.sk.timingOpen = (c.sk.timingOpen \/ c.sk.sendBuffer = <<>>)
  BY SentFields, EmptyDataType
<1>5. sent \in Context  BY sendAndLogPacketType, EmptyDataType
<1> HIDE DEF sent
<1>6. after = [sent.sk EXCEPT !.snd_nxt = @ + 1]
  BY <1>5 DEF SendControl, sent, Context
<1>7. /\ after.snd_nxt = c.sk.snd_nxt + 1
      /\ after.sendBuffer = Append(c.sk.sendBuffer, e)
      /\ after.timingOpen = (c.sk.timingOpen \/ c.sk.sendBuffer = <<>>)
  <2>1. sent.sk \in tcp_sock  BY <1>5 DEF Context
  <2> HIDE DEF e
  <2> QED  BY <1>4, <1>6, <2>1 DEF tcp_sock
<1>8. e.seq = c.sk.snd_nxt /\ Span(e) = 1  BY DEF Entry, Span
<1> HIDE DEF after, e
<1>9. Advances(c.sk, after)  BY <1>1, <1>2, <1>3, <1>7, <1>8, SendAdvances
<1> QED  BY <1>9 DEF after

LEMMA WriteAdvances ==
  ASSUME NEW c \in Context, NEW data \in Seq(Byte)
  PROVE  Advances(c.sk, Write(c, data).sk)
<1> DEFINE sent == sendAndLogPacket(c, data, {"ACK"})
           after == Write(c, data).sk
           e == Entry(c.sk, data, {"ACK"})
<1>1. c.sk \in tcp_sock  BY DEF Context
<1>2. after \in tcp_sock  BY WriteType DEF Context
<1>3. e \in TCPPacketInfo_c  BY <1>1, EntryType, FlagSets
<1>4. /\ sent.sk.snd_nxt = c.sk.snd_nxt
      /\ sent.sk.sendBuffer = Append(c.sk.sendBuffer, e)
      /\ sent.sk.timingOpen = (c.sk.timingOpen \/ c.sk.sendBuffer = <<>>)
  BY SentFields, FlagSets
<1>5. sent \in Context  BY sendAndLogPacketType, FlagSets
<1> HIDE DEF sent
<1>6. after = [sent.sk EXCEPT !.snd_nxt = @ + Len(data)]
  BY <1>5 DEF Write, sent, Context
<1>7. /\ after.snd_nxt = c.sk.snd_nxt + Len(data)
      /\ after.sendBuffer = Append(c.sk.sendBuffer, e)
      /\ after.timingOpen = (c.sk.timingOpen \/ c.sk.sendBuffer = <<>>)
  <2>1. sent.sk \in tcp_sock  BY <1>5 DEF Context
  <2> HIDE DEF e
  <2> QED  BY <1>4, <1>6, <2>1 DEF tcp_sock
<1>8. e.seq = c.sk.snd_nxt /\ Span(e) = Len(data)  BY DEF Entry, Span
<1> HIDE DEF after, e
<1>9. Advances(c.sk, after)  BY <1>1, <1>2, <1>3, <1>7, <1>8, SendAdvances
<1> QED  BY <1>9 DEF after

LEMMA resendAdvances ==
  ASSUME NEW c \in Context, c.sk.sendBuffer # <<>>
  PROVE  Advances(c.sk, resend(c).sk)
<1> DEFINE e == Head(c.sk.sendBuffer)
           times == IF e.resendTime > MAX_RESEND THEN e.resendTime
                    ELSE e.resendTime + 1
           buffer == [c.sk.sendBuffer EXCEPT ![1].resendTime = times]
           after == [c.sk EXCEPT !.sendBuffer = buffer]
<1>1. c.sk \in tcp_sock  BY DEF Context
<1>2. \/ resend(c).sk = c.sk
      \/ resend(c).sk = after
  BY DEF resend, Require, Context
<1>3. resend(c).sk \in tcp_sock  BY resendType DEF Context
<1>4. Advances(c.sk, c.sk)  BY <1>1, KeepsAdvances DEF Keeps
<1>5. ASSUME resend(c).sk = after PROVE Advances(c.sk, after)
  <2>1. after \in tcp_sock  BY <1>3, <1>5
  <2>2. c.sk.sendBuffer \in Seq(TCPPacketInfo_c) /\ 1 \in 1 .. Len(c.sk.sendBuffer)
    BY <1>1 DEF tcp_sock
  <2> HIDE DEF times
  <2>3. /\ Len(buffer) = Len(c.sk.sendBuffer)
        /\ \A i \in 1 .. Len(c.sk.sendBuffer) :
             buffer[i] = IF i = 1 THEN [c.sk.sendBuffer[1] EXCEPT !.resendTime = times]
                         ELSE c.sk.sendBuffer[i]
    BY <2>2
  <2>4. after.sendBuffer = buffer /\ after.snd_nxt = c.sk.snd_nxt
        /\ after.timingOpen = c.sk.timingOpen
    BY <1>1 DEF tcp_sock
  <2>5. c.sk.sendBuffer[1] \in TCPPacketInfo_c  BY <2>2
  <2> HIDE DEF buffer, after
  <2>6. \A i \in 1 .. Len(c.sk.sendBuffer) :
          /\ buffer[i].seq = c.sk.sendBuffer[i].seq
          /\ Span(buffer[i]) = Span(c.sk.sendBuffer[i])
    BY <2>3, <2>5, ZenonT(40) DEF Span, TCPPacketInfo_c
  <2>7. SendBufferUnbroken(c.sk) => SendBufferUnbroken(after)
    BY <1>1, <2>1, <2>3, <2>4, <2>6, CountedUnbroken
  <2>8. buffer # <<>>  BY <2>2, <2>3
  <2>9. TimerFollows(c.sk, after)
    BY <1>1, <2>4, <2>8 DEF TimerFollows, Timed, TimerConsistent, Unset
  <2>10. c.sk.snd_nxt <= after.snd_nxt  BY <1>1, <2>4 DEF tcp_sock
  <2> QED  BY <2>7, <2>9, <2>10 DEF Advances
<1> QED  BY <1>2, <1>4, <1>5

LEMMA HandleTimeOutAdvances ==
  ASSUME NEW c \in Context
  PROVE  Advances(c.sk, HandleTimeOut(c).sk)
<1> DEFINE reduced == [c EXCEPT !.sk = [c.sk EXCEPT !.cc = RTO(c.sk.cc)]]
<1>1. c.sk \in tcp_sock  BY DEF Context
<1>2. [c.sk EXCEPT !.cc = RTO(c.sk.cc)] \in tcp_sock
  BY <1>1, RTOType DEF tcp_sock
<1>3. reduced \in Context  BY <1>2, UpdateType
<1>4. Keeps(c.sk, reduced.sk)  BY <1>1 DEF Keeps, tcp_sock, Context
<1>5. HandleTimeOut(c) = IF c.sk.sendBuffer = <<>> THEN Require(reduced, FALSE)
                         ELSE resend(reduced)
  BY DEF HandleTimeOut
<1> HIDE DEF reduced
<1>6. reduced.sk \in tcp_sock  BY <1>3 DEF Context
<1>7. Advances(c.sk, reduced.sk)  BY <1>1, <1>4, KeepsAdvances
<1>8. CASE c.sk.sendBuffer = <<>>
  BY <1>3, <1>5, <1>7, <1>8 DEF Require, Context
<1>9. CASE c.sk.sendBuffer # <<>>
  <2>1. reduced.sk.sendBuffer # <<>>  BY <1>4, <1>9 DEF Keeps
  <2>2. resend(reduced).sk \in tcp_sock  BY <1>3, <2>1, resendType DEF Context
  <2>3. Advances(reduced.sk, resend(reduced).sk)  BY <1>3, <2>1, resendAdvances
  <2> QED  BY <1>1, <1>5, <1>6, <1>7, <1>9, <2>2, <2>3, AdvancesTrans
<1> QED  BY <1>8, <1>9

LEMMA AckPoppedAdvances ==
  ASSUME NEW c \in Context, NEW ack \in Nat
  PROVE  Advances(c.sk, AckPopped(c, ack).sk)
<1> DEFINE b == c.sk.sendBuffer
           after == AckPopped(c, ack).sk
<1>1. c.sk \in tcp_sock /\ b \in Seq(TCPPacketInfo_c)  BY DEF Context, tcp_sock
<1>2. after \in tcp_sock  BY AckPoppedType DEF Context
<1>3. PopCount(b, ack) \in 0 .. Len(b)  BY <1>1, PopCountRange
<1>4. /\ after.sendBuffer = SubSeq(b, PopCount(b, ack) + 1, Len(b))
      /\ after.snd_nxt = c.sk.snd_nxt
      /\ after.timingOpen = (c.sk.timingOpen /\ after.sendBuffer # <<>>)
  BY <1>1 DEF AckPopped, Pop, Context, tcp_sock
<1> HIDE DEF after
<1>5. SendBufferUnbroken(c.sk) => SendBufferUnbroken(after)
  BY <1>1, <1>2, <1>3, <1>4, SuffixUnbroken
<1>6. TimerFollows(c.sk, after)
  <2>1. ASSUME b = <<>> PROVE after.sendBuffer = <<>>
    <3>1. Len(b) = 0 /\ PopCount(b, ack) \in Nat  BY <1>3, <2>1
    <3> QED  BY <1>4, <3>1, SubSeqEmpty
  <2>2. c.sk.timingOpen \in BOOLEAN /\ after.timingOpen \in BOOLEAN
    BY <1>1, <1>2 DEF tcp_sock
  <2> QED  BY <1>4, <2>1, <2>2 DEF TimerFollows, Timed, TimerConsistent, Unset
<1>7. c.sk.snd_nxt <= after.snd_nxt  BY <1>1, <1>4 DEF tcp_sock
<1>8. Advances(c.sk, after)  BY <1>5, <1>6, <1>7 DEF Advances
<1> QED  BY <1>8 DEF after

LEMMA handleACKAdvances ==
  ASSUME NEW c \in Context, NEW ack \in Nat
  PROVE  Advances(c.sk, handleACK(c, ack).sk)
<1> DEFINE popped == AckPopped(c, ack)
<1>1. c.sk \in tcp_sock /\ popped \in Context /\ popped.sk \in tcp_sock
  BY AckPoppedType DEF Context
<1>2. Advances(c.sk, popped.sk)  BY AckPoppedAdvances
<1>3. popped.sk.sendBuffer = Pop(c.sk.sendBuffer, ack)
  BY DEF AckPopped, Context, tcp_sock
<1>4. \/ handleACK(c, ack) = popped
      \/ handleACK(c, ack) = resend(popped) /\ Pop(c.sk.sendBuffer, ack) # <<>>
  BY DEF handleACK, AckPopped
<1> HIDE DEF popped
<1>5. ASSUME Pop(c.sk.sendBuffer, ack) # <<>>
      PROVE  Advances(c.sk, resend(popped).sk)
  <2>1. resend(popped).sk \in tcp_sock  BY <1>1, <1>3, <1>5, resendType DEF Context
  <2>2. Advances(popped.sk, resend(popped).sk)  BY <1>1, <1>3, <1>5, resendAdvances
  <2> QED  BY <1>1, <1>2, <2>1, <2>2, AdvancesTrans
<1> QED  BY <1>2, <1>4, <1>5

\* What handlePacket does before the handler of the state
LEMMA OnSegmentAdvances ==
  ASSUME NEW sk \in tcp_sock, NEW p \in Segment
  PROVE  Advances(sk, OnSegment(Enter(sk), p).sk)
<1>1. Enter(sk) \in Context /\ Enter(sk).sk = sk  BY DEF Enter, Context
<1>2. p.ack \in Nat  BY DEF Segment
<1>3. Advances(sk, handleACK(Enter(sk), p.ack).sk)
  BY <1>1, <1>2, handleACKAdvances
<1>4. Advances(sk, sk)  BY KeepsAdvances DEF Keeps
<1> QED  BY <1>1, <1>3, <1>4 DEF OnSegment

-----------------------------------------------------------------------------
(* The handlers of handlePacket, and the calls of the applications.        *)

LEMMA ConnectAdvances ==
  ASSUME NEW c \in Context PROVE Advances(c.sk, Connect(c).sk)
<1> DEFINE sent == SendControl(c, {"SYN"})
<1>1. sent \in Context /\ Advances(c.sk, sent.sk)
  BY SendControlType, SendControlAdvances, FlagSets
<1> HIDE DEF sent
<1>2. c.sk \in tcp_sock /\ sent.sk \in tcp_sock /\ Connect(c).sk \in tcp_sock
  BY <1>1, ConnectType DEF Context
<1>3. Keeps(sent.sk, Connect(c).sk)
  BY <1>1, <1>2 DEF Connect, Keeps, sent, Context, tcp_sock
<1> QED  BY <1>1, <1>2, <1>3, KeepsAdvances, AdvancesTrans

LEMMA CloseAdvances ==
  ASSUME NEW c \in Context PROVE Advances(c.sk, Close(c).sk)
<1> DEFINE sent == SendControl(c, {"FIN", "ACK"})
<1>1. sent \in Context /\ Advances(c.sk, sent.sk)
  BY SendControlType, SendControlAdvances, FlagSets
<1> HIDE DEF sent
<1>2. c.sk \in tcp_sock /\ sent.sk \in tcp_sock /\ Close(c).sk \in tcp_sock
  BY <1>1, CloseType DEF Context
<1>3. Keeps(sent.sk, Close(c).sk)
  BY <1>1, <1>2 DEF Close, Keeps, sent, Context, tcp_sock
<1> QED  BY <1>1, <1>2, <1>3, KeepsAdvances, AdvancesTrans

LEMMA handleSYN1Advances ==
  ASSUME NEW c \in Context, NEW p \in Segment
  PROVE  Advances(c.sk, handleSYN1(c, p).sk)
<1> DEFINE sk == [c.sk EXCEPT !.TCPState = "SYN_RECV", !.peer = p.src,
                              !.rcv_nxt = p.seq + 1]
           set == [c EXCEPT !.sk = sk]
<1>1. c.sk \in tcp_sock /\ sk \in tcp_sock  BY HandlerFacts, States DEF tcp_sock
<1>2. Keeps(c.sk, sk)  BY <1>1 DEF Keeps, tcp_sock
<1>3. handleSYN1(c, p) = SendControl(set, {"SYN", "ACK"})
  BY DEF handleSYN1, Context, tcp_sock
<1>4. handleSYN1(c, p).sk \in tcp_sock  BY handleSYN1Type DEF Context
<1> HIDE DEF sk
<1>5. set \in Context /\ set.sk = sk  BY <1>1, UpdateType DEF Context
<1> HIDE DEF set
<1>6. Advances(sk, handleSYN1(c, p).sk)
  BY <1>3, <1>5, SendControlAdvances, FlagSets
<1>7. Advances(c.sk, sk)  BY <1>1, <1>2, KeepsAdvances
<1> QED  BY <1>1, <1>4, <1>6, <1>7, AdvancesTrans

LEMMA handleFIN1Advances ==
  ASSUME NEW c \in Context, NEW p \in Segment
  PROVE  Advances(c.sk, handleFIN1(c, p).sk)
<1> DEFINE sk == [c.sk EXCEPT !.TCPState = "LAST_ACK", !.snd_una = p.ack,
                              !.rcv_nxt = p.seq + 1]
           set == [c EXCEPT !.sk = sk]
<1>1. c.sk \in tcp_sock /\ sk \in tcp_sock  BY HandlerFacts, States DEF tcp_sock
<1>2. Keeps(c.sk, sk)  BY <1>1 DEF Keeps, tcp_sock
<1>3. handleFIN1(c, p) = SendControl(set, {"FIN", "ACK"})
  BY DEF handleFIN1, Context, tcp_sock
<1>4. handleFIN1(c, p).sk \in tcp_sock  BY handleFIN1Type DEF Context
<1> HIDE DEF sk
<1>5. set \in Context /\ set.sk = sk  BY <1>1, UpdateType DEF Context
<1> HIDE DEF set
<1>6. Advances(sk, handleFIN1(c, p).sk)
  BY <1>3, <1>5, SendControlAdvances, FlagSets
<1>7. Advances(c.sk, sk)  BY <1>1, <1>2, KeepsAdvances
<1> QED  BY <1>1, <1>4, <1>6, <1>7, AdvancesTrans

LEMMA handleSYN23Advances ==
  ASSUME NEW c \in Context, NEW p \in Segment
  PROVE  Advances(c.sk, handleSYN23(c, p).sk)
<1> DEFINE acked == IF "ACK" \in p.flags THEN handleSYN2(c, p) ELSE c
           sk == [acked.sk EXCEPT !.TCPState = "ESTABLISHED",
                                  !.head = p.seq + 1, !.tail = p.seq + 1,
                                  !.rcv_nxt = p.seq + 1, !.rcv_wnd = p.rwnd]
<1>1. acked \in Context /\ Keeps(c.sk, acked.sk)
  <2>1. [c.sk EXCEPT !.snd_una = p.ack] \in tcp_sock
    BY DEF Context, tcp_sock, Segment
  <2>2. handleSYN2(c, p) \in Context /\ Keeps(c.sk, handleSYN2(c, p).sk)
    BY <2>1, UpdateType DEF handleSYN2, Keeps, Context, tcp_sock
  <2> QED  BY <2>2 DEF Keeps
<1>2. handleSYN23(c, p) = IF "SYN" \in p.flags THEN handleSYN3(acked, p) ELSE acked
  BY DEF handleSYN23
<1> HIDE DEF acked
<1>3. c.sk \in tcp_sock /\ acked.sk \in tcp_sock  BY <1>1 DEF Context
<1>4. sk \in tcp_sock /\ Keeps(acked.sk, sk)
  BY <1>3, HandlerFacts, States DEF tcp_sock, Keeps
<1>5. handleSYN3(acked, p) =
        sendAndLogPacket([acked EXCEPT !.sk = sk], <<>>, {"ACK"})
  BY <1>1 DEF handleSYN3, Context, tcp_sock
<1> HIDE DEF sk
<1>6. Advances(acked.sk, handleSYN3(acked, p).sk)
  BY <1>1, <1>4, <1>5, SendAckAdvances
<1>7. handleSYN3(acked, p).sk \in tcp_sock
  BY <1>1, <1>4, <1>5, SendAckType DEF Context
<1>8. Advances(c.sk, acked.sk)  BY <1>1, <1>3, KeepsAdvances
<1> QED  BY <1>2, <1>3, <1>6, <1>7, <1>8, AdvancesTrans

LEMMA handleSaveDataAdvances ==
  ASSUME NEW c \in Context, NEW p \in Segment
  PROVE  Advances(c.sk, handleSaveData(c, p).sk)
<1> DEFINE buf == writeToBuffer(c.sk, p)
           k   == Contiguous(buf, c.sk.tail)
           sk  == [c.sk EXCEPT !.buf = buf, !.snd_una = p.ack, !.tail = @ + k,
                               !.rcv_nxt = @ + k, !.rcv_wnd = p.rwnd]
<1>1. c.sk \in tcp_sock  BY DEF Context
<1>2. buf \in [Slot -> Byte \cup {NoByte}]  BY <1>1, writeToBufferType
<1>3. k \in Nat  BY ContiguousType
<1>4. \/ handleSaveData(c, p) = [c EXCEPT !.sk = sk]
      \/ handleSaveData(c, p) = sendAndLogPacket([c EXCEPT !.sk = sk], <<>>, {"ACK"})
  <2> HIDE DEF buf
  <2> QED  BY <1>1 DEF handleSaveData, Context, tcp_sock, buf
<1> HIDE DEF buf, k
<1>5. c.sk.tail + k \in Nat /\ c.sk.rcv_nxt + k \in Nat
  BY <1>1, <1>3, ReceiveSums
<1>6. sk \in tcp_sock  BY <1>1, <1>2, <1>5, HandlerFacts DEF tcp_sock
<1>7. Keeps(c.sk, sk)  BY <1>1 DEF Keeps, tcp_sock
<1> HIDE DEF sk
<1>8. [c EXCEPT !.sk = sk].sk = sk  BY DEF Context
<1>9. Advances(c.sk, sk)  BY <1>1, <1>7, KeepsAdvances
<1> QED  BY <1>4, <1>6, <1>7, <1>8, <1>9, SendAckAdvances

LEMMA ReadAdvances ==
  ASSUME NEW c \in Context PROVE Advances(c.sk, Read(c).sk)
<1> DEFINE emptied == [i \in Slot |->
                         IF \E n \in c.sk.head .. c.sk.tail - 1 :
                              n % RINGBUFFER_SIZE = i
                         THEN NoByte ELSE c.sk.buf[i]]
           sk == [c.sk EXCEPT !.buf = emptied, !.head = c.sk.tail]
           checked == [c EXCEPT !.ok = @ /\ Unread(c.sk) < RINGBUFFER_SIZE]
<1>1. c.sk \in tcp_sock  BY DEF Context
<1>2. emptied \in [Slot -> Byte \cup {NoByte}]  BY <1>1 DEF tcp_sock
<1>3. checked \in Context /\ checked.sk = c.sk  BY DEF Context
<1>4. Read(c) = sendAndLogPacket([checked EXCEPT !.sk = sk], <<>>, {"ACK"})
  <2> HIDE DEF emptied
  <2> QED  BY <1>1 DEF Read, Context, tcp_sock, emptied
<1> HIDE DEF emptied, checked
<1>5. sk \in tcp_sock  BY <1>1, <1>2 DEF tcp_sock
<1>6. Keeps(c.sk, sk)  BY <1>1 DEF Keeps, tcp_sock
<1> HIDE DEF sk
<1> QED  BY <1>3, <1>4, <1>5, <1>6, SendAckAdvances

LEMMA handleFIN3Advances ==
  ASSUME NEW c \in Context, NEW p \in Segment
  PROVE  Advances(c.sk, handleFIN3(c, p).sk)
<1> DEFINE sk == [c.sk EXCEPT !.TCPState = "TIME_WAIT", !.snd_una = p.ack,
                              !.rcv_nxt = p.seq + 1]
<1>1. c.sk \in tcp_sock /\ sk \in tcp_sock  BY HandlerFacts, States DEF tcp_sock
<1>2. Keeps(c.sk, sk)  BY <1>1 DEF Keeps, tcp_sock
<1>3. handleFIN3(c, p) = sendAndLogPacket([c EXCEPT !.sk = sk], <<>>, {"ACK"})
  BY DEF handleFIN3, Context, tcp_sock
<1> HIDE DEF sk
<1> QED  BY <1>1, <1>2, <1>3, SendAckAdvances

LEMMA KeepingHandlers ==
  ASSUME NEW c \in Context, NEW p \in Segment
  PROVE  /\ Advances(c.sk, handleFIN2(c, p).sk)
         /\ Advances(c.sk, handleFIN4(c, p).sk)
         /\ Advances(c.sk, Ignore(c, p).sk)
<1>1. c.sk \in tcp_sock  BY DEF Context
<1>2. Keeps(c.sk, handleFIN2(c, p).sk)
  BY DEF Keeps, handleFIN2, Context, tcp_sock
<1>3. Keeps(c.sk, handleFIN4(c, p).sk)
  BY DEF Keeps, handleFIN4, Context, tcp_sock
<1>4. Keeps(c.sk, Ignore(c, p).sk)  BY DEF Keeps, Ignore
<1> QED  BY <1>1, <1>2, <1>3, <1>4, KeepsAdvances

-----------------------------------------------------------------------------
(* What a step puts on the wires and into the send buffers.                *)

\* A logged segment without its resend counter
Logging(e) == [seq |-> e.seq, data |-> e.data, flags |-> e.flags]

Logged(sk) == {Logging(sk.sendBuffer[i]) : i \in DOMAIN sk.sendBuffer}

\* The entries as socket sk puts them on the wire
Packets(sk, entries) == {SegmentOf(sk, e.seq, e.data, e.flags) : e \in entries}

Said(c) == {c.tx[i] : i \in DOMAIN c.tx}

\* Only the congestion state, the timer and the send buffer may differ.
KeepsRest(sk, after) ==
  /\ after.local = sk.local /\ after.peer = sk.peer
  /\ after.TCPState = sk.TCPState
  /\ after.head = sk.head /\ after.tail = sk.tail /\ after.buf = sk.buf
  /\ after.snd_una = sk.snd_una /\ after.snd_nxt = sk.snd_nxt
  /\ after.rcv_nxt = sk.rcv_nxt /\ after.rcv_wnd = sk.rcv_wnd

\* From context c to context d: what is logged anew is sent as d's socket
\* sends it, and anything else that is sent was logged before.
Repeats(sk, d) ==
  /\ KeepsRest(sk, d.sk)
  /\ Logged(d.sk) \subseteq Logged(sk)
  /\ Said(d) \subseteq Packets(sk, Logged(sk))

Says(c, d, new) ==
  /\ Logged(d.sk) \subseteq Logged(c.sk) \cup new
  /\ Said(d) \subseteq Said(c) \cup Packets(d.sk, new)

LEMMA PacketsKept ==
  ASSUME NEW sk, NEW after, KeepsRest(sk, after), NEW entries
  PROVE  Packets(after, entries) = Packets(sk, entries)
  BY DEF KeepsRest, Packets, SegmentOf, Advertised

LEMMA resendRepeats ==
  ASSUME NEW c \in Context, c.sk.sendBuffer # <<>>, c.tx = <<>>
  PROVE  Repeats(c.sk, resend(c))
<1> DEFINE e == Head(c.sk.sendBuffer)
           b == c.sk.sendBuffer
           times == IF e.resendTime > MAX_RESEND THEN e.resendTime
                    ELSE e.resendTime + 1
           buffer == [b EXCEPT ![1].resendTime = times]
           m == SegmentOf(c.sk, e.seq, e.data, e.flags)
           d == resend(c)
<1>1. c.sk \in tcp_sock /\ b \in Seq(TCPPacketInfo_c) /\ 1 \in DOMAIN b /\ e = b[1]
  BY DEF Context, tcp_sock
<1>2. \/ d.sk = c.sk /\ d.tx = <<>>
      \/ d.sk = [c.sk EXCEPT !.sendBuffer = buffer] /\ d.tx = <<m>>
  BY <1>1 DEF resend, Require, Context
<1>3. DOMAIN buffer = DOMAIN b /\ \A i \in DOMAIN b : Logging(buffer[i]) = Logging(b[i])
  <2>1. \A i \in DOMAIN b : b[i] \in TCPPacketInfo_c  BY <1>1
  <2> HIDE DEF times
  <2> QED  BY <1>1, <2>1 DEF Logging, TCPPacketInfo_c
<1>4. m \in Packets(c.sk, Logged(c.sk))
  <2>1. Logging(b[1]) \in Logged(c.sk)  BY <1>1 DEF Logged
  <2>2. m = SegmentOf(c.sk, Logging(b[1]).seq, Logging(b[1]).data, Logging(b[1]).flags)
    BY <1>1 DEF Logging
  <2> HIDE DEF m
  <2> QED  BY <2>1, <2>2 DEF Packets
<1>5. CASE d.sk = c.sk /\ d.tx = <<>>
  BY <1>5 DEF Repeats, KeepsRest, Said
<1>6. CASE d.sk = [c.sk EXCEPT !.sendBuffer = buffer] /\ d.tx = <<m>>
  <2> HIDE DEF buffer, m
  <2>1. d.sk.sendBuffer = buffer /\ KeepsRest(c.sk, d.sk)
    BY <1>1, <1>6 DEF KeepsRest, tcp_sock
  <2>2. Logged(d.sk) = Logged(c.sk)  BY <1>3, <2>1 DEF Logged
  <2>3. Said(d) = {m}
    <3>1. DOMAIN <<m>> = {1} /\ <<m>>[1] = m  OBVIOUS
    <3> HIDE DEF d
    <3> QED  BY <1>6, <3>1 DEF Said
  <2> QED  BY <1>4, <2>1, <2>2, <2>3 DEF Repeats
<1> QED  BY <1>2, <1>5, <1>6

LEMMA RepeatsTrans ==
  ASSUME NEW sk, NEW c, NEW d, Repeats(c.sk, d), Repeats(sk, c), Said(c) = {}
  PROVE  Repeats(sk, d)
<1>1. KeepsRest(sk, d.sk)  BY DEF Repeats, KeepsRest
<1>2. Packets(c.sk, Logged(c.sk)) = Packets(sk, Logged(c.sk))
  BY PacketsKept DEF Repeats
<1>3. Packets(sk, Logged(c.sk)) \subseteq Packets(sk, Logged(sk))
  BY DEF Packets, Repeats
<1> QED  BY <1>1, <1>2, <1>3 DEF Repeats

LEMMA HandleTimeOutRepeats ==
  ASSUME NEW c \in Context, c.tx = <<>>
  PROVE  Repeats(c.sk, HandleTimeOut(c))
<1> DEFINE reduced == [c EXCEPT !.sk = [c.sk EXCEPT !.cc = RTO(c.sk.cc)]]
<1>1. c.sk \in tcp_sock  BY DEF Context
<1>2. [c.sk EXCEPT !.cc = RTO(c.sk.cc)] \in tcp_sock
  BY <1>1, RTOType DEF tcp_sock
<1>3. reduced \in Context  BY <1>2, UpdateType
<1>4. KeepsRest(c.sk, reduced.sk) /\ reduced.sk.sendBuffer = c.sk.sendBuffer
      /\ reduced.tx = <<>>
  BY <1>1 DEF KeepsRest, tcp_sock, Context
<1>5. HandleTimeOut(c) = IF c.sk.sendBuffer = <<>> THEN Require(reduced, FALSE)
                         ELSE resend(reduced)
  BY DEF HandleTimeOut
<1> HIDE DEF reduced
<1>6. Repeats(c.sk, reduced) /\ Said(reduced) = {}
  BY <1>4 DEF Repeats, Logged, Said
<1>7. CASE c.sk.sendBuffer = <<>>
  <2>1. HandleTimeOut(c).sk = reduced.sk /\ HandleTimeOut(c).tx = reduced.tx
    BY <1>3, <1>5, <1>7 DEF Require, Context
  <2> QED  BY <1>6, <2>1 DEF Repeats, Said
<1>8. CASE c.sk.sendBuffer # <<>>
  <2>1. Repeats(reduced.sk, resend(reduced))  BY <1>3, <1>4, <1>8, resendRepeats
  <2> QED  BY <1>5, <1>6, <1>8, <2>1, RepeatsTrans
<1> QED  BY <1>7, <1>8

LEMMA AckPoppedRepeats ==
  ASSUME NEW c \in Context, NEW ack \in Nat, c.tx = <<>>
  PROVE  Repeats(c.sk, AckPopped(c, ack)) /\ AckPopped(c, ack).tx = <<>>
<1> DEFINE b == c.sk.sendBuffer
           left == Pop(b, ack)
           d == AckPopped(c, ack)
<1>1. c.sk \in tcp_sock /\ b \in Seq(TCPPacketInfo_c)  BY DEF Context, tcp_sock
<1>2. PopCount(b, ack) \in 0 .. Len(b)  BY <1>1, PopCountRange
<1>3. KeepsRest(c.sk, d.sk) /\ d.sk.sendBuffer = left /\ d.tx = <<>>
  <2> HIDE DEF left
  <2> QED  BY <1>1 DEF AckPopped, KeepsRest, Context, tcp_sock, left
<1>4. \A i \in DOMAIN left : \E j \in DOMAIN b : left[i] = b[j]
  <2>1. PICK m \in 0 .. Len(b) : m = PopCount(b, ack)  BY <1>2
  <2>2. left = SubSeq(b, m + 1, Len(b))  BY <2>1 DEF Pop
  <2>3. m + 1 \in 1 .. Len(b) + 1 /\ Len(b) \in m .. Len(b) /\ Len(b) \in Nat  BY <1>1, <2>1
  <2>4. /\ DOMAIN left = 1 .. Len(b) - m
        /\ \A i \in 1 .. Len(b) - m : left[i] = b[i + m]
    BY <1>1, <2>2, <2>3, SubSeqProperties
  <2>5. \A i \in 1 .. Len(b) - m : i + m \in DOMAIN b  BY <1>1, <2>3
  <2> QED  BY <2>4, <2>5
<1> HIDE DEF left, d
<1>5. Logged(d.sk) \subseteq Logged(c.sk)  BY <1>3, <1>4 DEF Logged
<1>6. Said(d) = {}  BY <1>3 DEF Said
<1> QED  BY <1>3, <1>5, <1>6 DEF Repeats, d

\* What handlePacket does before the handler of the state
LEMMA OnSegmentRepeats ==
  ASSUME NEW sk \in tcp_sock, NEW p \in Segment
  PROVE  /\ Repeats(sk, OnSegment(Enter(sk), p))
         /\ sk.TCPState # "ESTABLISHED" => OnSegment(Enter(sk), p).tx = <<>>
<1> DEFINE c == Enter(sk)
           popped == AckPopped(c, p.ack)
<1>1. c \in Context /\ c.sk = sk /\ c.tx = <<>>  BY DEF Enter, Context
<1>2. p.ack \in Nat  BY DEF Segment
<1> HIDE DEF c
<1>3. popped \in Context /\ Repeats(sk, popped) /\ popped.tx = <<>>
      /\ popped.sk.sendBuffer = Pop(sk.sendBuffer, p.ack)
  <2>1. popped.sk.sendBuffer = Pop(sk.sendBuffer, p.ack)
    BY <1>1 DEF AckPopped, Context, tcp_sock
  <2> QED  BY <1>1, <1>2, <2>1, AckPoppedType, AckPoppedRepeats
<1>4. \/ handleACK(c, p.ack) = popped
      \/ /\ Pop(sk.sendBuffer, p.ack) # <<>> /\ sk.TCPState = "ESTABLISHED"
         /\ handleACK(c, p.ack) = resend(popped)
  BY <1>1 DEF handleACK, AckPopped
<1> HIDE DEF popped
<1>5. Said(popped) = {}  BY <1>3 DEF Said
<1>6. Pop(sk.sendBuffer, p.ack) # <<>> => Repeats(sk, resend(popped))
  BY <1>3, <1>5, resendRepeats, RepeatsTrans
<1>7. Repeats(sk, c)  BY <1>1 DEF Repeats, KeepsRest, Said
<1> QED  BY <1>1, <1>3, <1>4, <1>6, <1>7 DEF OnSegment, c

-----------------------------------------------------------------------------
(* What each handler and each call of an application leaves and says.      *)

\* What is logged of a segment that is sent at snd_nxt
Plain(sk, data, flags) == [seq |-> sk.snd_nxt, data |-> data, flags |-> flags]

LEMMA AppendLogged ==
  ASSUME NEW sk, NEW after, NEW e, sk.sendBuffer \in Seq(TCPPacketInfo_c),
         after.sendBuffer = Append(sk.sendBuffer, e)
  PROVE  Logged(after) = Logged(sk) \cup {Logging(e)}
<1> DEFINE b == sk.sendBuffer
           r == after.sendBuffer
<1>1. /\ DOMAIN r = DOMAIN b \cup {Len(b) + 1}
      /\ r[Len(b) + 1] = e
      /\ \A i \in DOMAIN b : r[i] = b[i]
  OBVIOUS
<1> HIDE DEF b, r
<1>2. {Logging(r[i]) : i \in DOMAIN r} = {Logging(b[i]) : i \in DOMAIN b} \cup {Logging(e)}
  BY <1>1
<1> QED  BY <1>2 DEF Logged, b, r

LEMMA AppendSaid ==
  ASSUME NEW c, NEW d, NEW m, c.tx \in Seq(Segment), d.tx = Append(c.tx, m)
  PROVE  Said(d) = Said(c) \cup {m}
<1> DEFINE t == c.tx
           r == d.tx
<1>1. /\ DOMAIN r = DOMAIN t \cup {Len(t) + 1}
      /\ r[Len(t) + 1] = m
      /\ \A i \in DOMAIN t : r[i] = t[i]
  OBVIOUS
<1> HIDE DEF t, r
<1>2. {r[i] : i \in DOMAIN r} = {t[i] : i \in DOMAIN t} \cup {m}
  BY <1>1
<1> QED  BY <1>2 DEF Said, t, r

LEMMA SendSays ==
  ASSUME NEW c \in Context, NEW data \in Seq(Byte), NEW flags \in SUBSET Flag
  PROVE  LET d == sendAndLogPacket(c, data, flags)
         IN  KeepsRest(c.sk, d.sk) /\ Says(c, d, {Plain(c.sk, data, flags)})
<1> DEFINE d == sendAndLogPacket(c, data, flags)
           e == [seq |-> c.sk.snd_nxt, data |-> data, flags |-> flags, resendTime |-> 0]
           m == SegmentOf(c.sk, c.sk.snd_nxt, data, flags)
           new == Plain(c.sk, data, flags)
<1>1. c.sk \in tcp_sock /\ c.sk.sendBuffer \in Seq(TCPPacketInfo_c) /\ c.tx \in Seq(Segment)
  BY DEF Context, tcp_sock
<1>2. /\ KeepsRest(c.sk, d.sk)
      /\ d.sk.sendBuffer = Append(c.sk.sendBuffer, e)
      /\ d.tx = Append(c.tx, m)
  <2> HIDE DEF e, m
  <2> QED  BY <1>1 DEF sendAndLogPacket, KeepsRest, Context, tcp_sock, e, m
<1>3. Logging(e) = new  BY DEF Logging, Plain
<1>4. Logged(d.sk) = Logged(c.sk) \cup {new}
  <2> HIDE DEF d, e, new
  <2> QED  BY <1>1, <1>2, <1>3, AppendLogged
<1>5. Said(d) = Said(c) \cup {m}
  <2> HIDE DEF d, m
  <2> QED  BY <1>1, <1>2, AppendSaid
<1>6. m \in Packets(d.sk, {new})
  <2>1. m = SegmentOf(c.sk, new.seq, new.data, new.flags)  BY DEF Plain
  <2>2. m \in Packets(c.sk, {new})
    <3> HIDE DEF m, new
    <3> QED  BY <2>1 DEF Packets
  <2>3. Packets(d.sk, {new}) = Packets(c.sk, {new})
    <3> HIDE DEF d, new
    <3> QED  BY <1>2, PacketsKept
  <2> HIDE DEF d, m, new
  <2> QED  BY <2>2, <2>3
<1> HIDE DEF d, m, new
<1> QED  BY <1>2, <1>4, <1>5, <1>6 DEF Says, new, d

\* A socket sk that shares its send buffer with c's sends from c.
LEMMA SendFrom ==
  ASSUME NEW c \in Context, NEW sk \in tcp_sock, sk.sendBuffer = c.sk.sendBuffer,
         NEW data \in Seq(Byte), NEW flags \in SUBSET Flag
  PROVE  LET d == sendAndLogPacket([c EXCEPT !.sk = sk], data, flags)
         IN  KeepsRest(sk, d.sk) /\ Says(c, d, {Plain(sk, data, flags)})
<1> DEFINE b == [c EXCEPT !.sk = sk]
           d == sendAndLogPacket(b, data, flags)
<1>1. b \in Context /\ b.sk = sk /\ b.tx = c.tx  BY UpdateType DEF Context
<1> HIDE DEF b
<1>2. KeepsRest(sk, d.sk) /\ Says(b, d, {Plain(sk, data, flags)})
  BY <1>1, SendSays
<1> HIDE DEF d
<1> QED  BY <1>1, <1>2 DEF Says, Logged, Said, d, b

LEMMA ControlFrom ==
  ASSUME NEW c \in Context, NEW sk \in tcp_sock, sk.sendBuffer = c.sk.sendBuffer,
         NEW flags \in SUBSET Flag
  PROVE  LET d == SendControl([c EXCEPT !.sk = sk], flags)
         IN  /\ KeepsRest([sk EXCEPT !.snd_nxt = sk.snd_nxt + 1], d.sk)
             /\ Says(c, d, {Plain(sk, <<>>, flags)})
<1> DEFINE b == [c EXCEPT !.sk = sk]
           sent == sendAndLogPacket(b, <<>>, flags)
           d == SendControl(b, flags)
           new == {Plain(sk, <<>>, flags)}
<1>1. b \in Context  BY UpdateType
<1>2. KeepsRest(sk, sent.sk) /\ Says(c, sent, new)
  BY SendFrom, EmptyDataType
<1>3. sent \in Context  BY <1>1, sendAndLogPacketType, EmptyDataType
<1>4. d = [sent EXCEPT !.sk = [sent.sk EXCEPT !.snd_nxt = sent.sk.snd_nxt + 1]]
  <2> HIDE DEF b
  <2> QED  BY <1>3 DEF SendControl, Context
<1> HIDE DEF b, sent, d, new
<1>5. sent.sk \in tcp_sock  BY <1>3 DEF Context
<1>6. d.sk = [sent.sk EXCEPT !.snd_nxt = sent.sk.snd_nxt + 1] /\ d.tx = sent.tx
  BY <1>3, <1>4 DEF Context
<1>7. /\ KeepsRest([sk EXCEPT !.snd_nxt = sk.snd_nxt + 1], d.sk)
      /\ d.sk.sendBuffer = sent.sk.sendBuffer
  BY <1>2, <1>5, <1>6 DEF KeepsRest, tcp_sock
<1>8. Packets(d.sk, new) = Packets(sent.sk, new)
  BY <1>5, <1>6 DEF Packets, SegmentOf, Advertised, tcp_sock
<1> QED  BY <1>2, <1>6, <1>7, <1>8 DEF Says, Logged, Said, d, b, new

LEMMA handleSYN1Says ==
  ASSUME NEW c \in Context, NEW p \in Segment
  PROVE  LET d == handleSYN1(c, p)
         IN  /\ KeepsRest([c.sk EXCEPT !.TCPState = "SYN_RECV", !.peer = p.src,
                                       !.rcv_nxt = p.seq + 1, !.snd_nxt = @ + 1], d.sk)
             /\ Says(c, d, {Plain(c.sk, <<>>, {"SYN", "ACK"})})
<1> DEFINE sk == [c.sk EXCEPT !.TCPState = "SYN_RECV", !.peer = p.src,
                              !.rcv_nxt = p.seq + 1]
<1>1. c.sk \in tcp_sock /\ sk \in tcp_sock  BY HandlerFacts, States DEF tcp_sock
<1>2. /\ sk.sendBuffer = c.sk.sendBuffer /\ sk.snd_nxt = c.sk.snd_nxt
      /\ [sk EXCEPT !.snd_nxt = sk.snd_nxt + 1] =
           [c.sk EXCEPT !.TCPState = "SYN_RECV", !.peer = p.src,
                        !.rcv_nxt = p.seq + 1, !.snd_nxt = @ + 1]
  BY <1>1 DEF tcp_sock
<1>3. handleSYN1(c, p) = SendControl([c EXCEPT !.sk = sk], {"SYN", "ACK"})
  BY DEF handleSYN1, Context, tcp_sock
<1>4. Plain(sk, <<>>, {"SYN", "ACK"}) = Plain(c.sk, <<>>, {"SYN", "ACK"})  BY <1>2 DEF Plain
<1> HIDE DEF sk
<1>5. LET d == SendControl([c EXCEPT !.sk = sk], {"SYN", "ACK"})
      IN  /\ KeepsRest([sk EXCEPT !.snd_nxt = sk.snd_nxt + 1], d.sk)
          /\ Says(c, d, {Plain(sk, <<>>, {"SYN", "ACK"})})
  BY <1>1, <1>2, ControlFrom, FlagSets
<1> QED  BY <1>2, <1>3, <1>4, <1>5

LEMMA handleFIN1Says ==
  ASSUME NEW c \in Context, NEW p \in Segment
  PROVE  LET d == handleFIN1(c, p)
         IN  /\ KeepsRest([c.sk EXCEPT !.TCPState = "LAST_ACK", !.snd_una = p.ack,
                                       !.rcv_nxt = p.seq + 1, !.snd_nxt = @ + 1], d.sk)
             /\ Says(c, d, {Plain(c.sk, <<>>, {"FIN", "ACK"})})
<1> DEFINE sk == [c.sk EXCEPT !.TCPState = "LAST_ACK", !.snd_una = p.ack,
                              !.rcv_nxt = p.seq + 1]
<1>1. c.sk \in tcp_sock /\ sk \in tcp_sock  BY HandlerFacts, States DEF tcp_sock
<1>2. /\ sk.sendBuffer = c.sk.sendBuffer /\ sk.snd_nxt = c.sk.snd_nxt
      /\ [sk EXCEPT !.snd_nxt = sk.snd_nxt + 1] =
           [c.sk EXCEPT !.TCPState = "LAST_ACK", !.snd_una = p.ack,
                        !.rcv_nxt = p.seq + 1, !.snd_nxt = @ + 1]
  BY <1>1 DEF tcp_sock
<1>3. handleFIN1(c, p) = SendControl([c EXCEPT !.sk = sk], {"FIN", "ACK"})
  BY DEF handleFIN1, Context, tcp_sock
<1>4. Plain(sk, <<>>, {"FIN", "ACK"}) = Plain(c.sk, <<>>, {"FIN", "ACK"})  BY <1>2 DEF Plain
<1> HIDE DEF sk
<1>5. LET d == SendControl([c EXCEPT !.sk = sk], {"FIN", "ACK"})
      IN  /\ KeepsRest([sk EXCEPT !.snd_nxt = sk.snd_nxt + 1], d.sk)
          /\ Says(c, d, {Plain(sk, <<>>, {"FIN", "ACK"})})
  BY <1>1, <1>2, ControlFrom, FlagSets
<1> QED  BY <1>2, <1>3, <1>4, <1>5

LEMMA ConnectSays ==
  ASSUME NEW c \in Context, c.sk.rcv_nxt = 0
  PROVE  LET d == Connect(c)
         IN  /\ KeepsRest([c.sk EXCEPT !.TCPState = "SYN_SENT", !.snd_nxt = @ + 1], d.sk)
             /\ Says(c, d, {Plain(c.sk, <<>>, {"SYN"})})
<1> DEFINE sent == SendControl([c EXCEPT !.sk = c.sk], {"SYN"})
           d == Connect(c)
           new == {Plain(c.sk, <<>>, {"SYN"})}
<1>1. [c EXCEPT !.sk = c.sk] = c /\ c.sk \in tcp_sock  BY DEF Context
<1>2. sent \in Context  BY <1>1, SendControlType, FlagSets
<1>3. /\ KeepsRest([c.sk EXCEPT !.snd_nxt = c.sk.snd_nxt + 1], sent.sk)
      /\ Says(c, sent, new)
  BY <1>1, ControlFrom, FlagSets
<1>4. d = [sent EXCEPT !.sk = [sent.sk EXCEPT !.TCPState = "SYN_SENT", !.rcv_nxt = 0]]
  BY <1>1, <1>2 DEF Connect, Context
<1> HIDE DEF sent, d, new
<1>5. /\ d.sk = [sent.sk EXCEPT !.TCPState = "SYN_SENT", !.rcv_nxt = 0] /\ d.tx = sent.tx
      /\ sent.sk \in tcp_sock
  BY <1>2, <1>4 DEF Context
<1>6. /\ KeepsRest([c.sk EXCEPT !.TCPState = "SYN_SENT", !.snd_nxt = c.sk.snd_nxt + 1], d.sk)
      /\ d.sk.sendBuffer = sent.sk.sendBuffer /\ sent.sk.rcv_nxt = 0
  BY <1>1, <1>3, <1>5, SMTT(60) DEF KeepsRest, tcp_sock
<1>7. Packets(d.sk, new) = Packets(sent.sk, new)
  BY <1>5, <1>6, SMTT(60) DEF Packets, SegmentOf, Advertised, tcp_sock
<1>8. Says(c, d, new)
  <2>1. Logged(d.sk) = Logged(sent.sk) /\ Said(d) = Said(sent)
    BY <1>5, <1>6 DEF Logged, Said
  <2> QED  BY <1>3, <1>7, <2>1 DEF Says
<1> QED  BY <1>6, <1>8 DEF d, new

LEMMA CloseSays ==
  ASSUME NEW c \in Context
  PROVE  LET d == Close(c)
         IN  /\ KeepsRest([c.sk EXCEPT !.TCPState = "FIN_WAIT_1", !.snd_nxt = @ + 1], d.sk)
             /\ Says(c, d, {Plain(c.sk, <<>>, {"FIN", "ACK"})})
<1> DEFINE sent == SendControl([c EXCEPT !.sk = c.sk], {"FIN", "ACK"})
           d == Close(c)
           new == {Plain(c.sk, <<>>, {"FIN", "ACK"})}
<1>1. [c EXCEPT !.sk = c.sk] = c /\ c.sk \in tcp_sock  BY DEF Context
<1>2. sent \in Context  BY <1>1, SendControlType, FlagSets
<1>3. /\ KeepsRest([c.sk EXCEPT !.snd_nxt = c.sk.snd_nxt + 1], sent.sk)
      /\ Says(c, sent, new)
  BY <1>1, ControlFrom, FlagSets
<1>4. d = [sent EXCEPT !.sk = [sent.sk EXCEPT !.TCPState = "FIN_WAIT_1"]]
  BY <1>1, <1>2 DEF Close, Context
<1> HIDE DEF sent, d, new
<1>5. /\ d.sk = [sent.sk EXCEPT !.TCPState = "FIN_WAIT_1"] /\ d.tx = sent.tx
      /\ sent.sk \in tcp_sock
  BY <1>2, <1>4 DEF Context
<1>6. /\ KeepsRest([c.sk EXCEPT !.TCPState = "FIN_WAIT_1", !.snd_nxt = c.sk.snd_nxt + 1], d.sk)
      /\ d.sk.sendBuffer = sent.sk.sendBuffer
  BY <1>1, <1>3, <1>5 DEF KeepsRest, tcp_sock
<1>7. Packets(d.sk, new) = Packets(sent.sk, new)
  BY <1>5, <1>6 DEF Packets, SegmentOf, Advertised, tcp_sock
<1> QED  BY <1>3, <1>5, <1>6, <1>7 DEF Says, Logged, Said, d, new

LEMMA WriteSays ==
  ASSUME NEW c \in Context, NEW data \in Seq(Byte)
  PROVE  LET d == Write(c, data)
         IN  /\ KeepsRest([c.sk EXCEPT !.snd_nxt = @ + Len(data)], d.sk)
             /\ Says(c, d, {Plain(c.sk, data, {"ACK"})})
<1> DEFINE sent == sendAndLogPacket(c, data, {"ACK"})
           d == Write(c, data)
           new == {Plain(c.sk, data, {"ACK"})}
<1>1. c.sk \in tcp_sock  BY DEF Context
<1>2. sent \in Context  BY sendAndLogPacketType, FlagSets
<1>3. KeepsRest(c.sk, sent.sk) /\ Says(c, sent, new)
  BY SendSays, FlagSets
<1>4. d = [sent EXCEPT !.sk = [sent.sk EXCEPT !.snd_nxt = sent.sk.snd_nxt + Len(data)]]
  BY <1>2 DEF Write, Context
<1> HIDE DEF sent, d, new
<1>5. /\ d.sk = [sent.sk EXCEPT !.snd_nxt = sent.sk.snd_nxt + Len(data)] /\ d.tx = sent.tx
      /\ sent.sk \in tcp_sock
  BY <1>2, <1>4 DEF Context
<1>6. /\ KeepsRest([c.sk EXCEPT !.snd_nxt = c.sk.snd_nxt + Len(data)], d.sk)
      /\ d.sk.sendBuffer = sent.sk.sendBuffer
  BY <1>1, <1>3, <1>5 DEF KeepsRest, tcp_sock
<1>7. Packets(d.sk, new) = Packets(sent.sk, new)
  BY <1>5, <1>6 DEF Packets, SegmentOf, Advertised, tcp_sock
<1> QED  BY <1>3, <1>5, <1>6, <1>7 DEF Says, Logged, Said, d, new

\* A handler that only changes its socket says nothing.
LEMMA SetSays ==
  ASSUME NEW c \in Context, NEW sk, sk.sendBuffer = c.sk.sendBuffer
  PROVE  Says(c, [c EXCEPT !.sk = sk], {}) /\ KeepsRest(sk, [c EXCEPT !.sk = sk].sk)
  BY DEF Says, KeepsRest, Logged, Said, Context

LEMMA SaysMore ==
  ASSUME NEW c, NEW d, NEW new, NEW more, new \subseteq more, Says(c, d, new)
  PROVE  Says(c, d, more)
  BY DEF Says, Packets

LEMMA handleSYN23Says ==
  ASSUME NEW c \in Context, NEW p \in Segment
  PROVE  LET d  == handleSYN23(c, p)
             b  == IF "ACK" \in p.flags THEN [c.sk EXCEPT !.snd_una = p.ack] ELSE c.sk
         IN  /\ "SYN" \notin p.flags => KeepsRest(b, d.sk) /\ Says(c, d, {})
             /\ "SYN" \in p.flags =>
                  /\ KeepsRest([b EXCEPT !.TCPState = "ESTABLISHED",
                                         !.head = p.seq + 1, !.tail = p.seq + 1,
                                         !.rcv_nxt = p.seq + 1, !.rcv_wnd = p.rwnd], d.sk)
                  /\ Says(c, d, {Plain(c.sk, <<>>, {"ACK"})})
<1> DEFINE b  == IF "ACK" \in p.flags THEN [c.sk EXCEPT !.snd_una = p.ack] ELSE c.sk
           sk == [b EXCEPT !.TCPState = "ESTABLISHED",
                           !.head = p.seq + 1, !.tail = p.seq + 1,
                           !.rcv_nxt = p.seq + 1, !.rcv_wnd = p.rwnd]
           acked == [c EXCEPT !.sk = b]
           d  == handleSYN23(c, p)
<1>1. b \in tcp_sock /\ b.sendBuffer = c.sk.sendBuffer /\ b.snd_nxt = c.sk.snd_nxt
  BY DEF Context, tcp_sock, Segment
<1>2. d = IF "SYN" \in p.flags THEN handleSYN3(acked, p) ELSE acked
  BY DEF handleSYN23, handleSYN2, Context
<1> HIDE DEF b
<1>3. acked \in Context /\ acked.sk = b /\ acked.tx = c.tx
  BY <1>1, UpdateType DEF Context
<1>4. sk \in tcp_sock /\ sk.sendBuffer = b.sendBuffer /\ sk.snd_nxt = b.snd_nxt
  BY <1>1, HandlerFacts, States DEF tcp_sock
<1>5. handleSYN3(acked, p) = sendAndLogPacket([acked EXCEPT !.sk = sk], <<>>, {"ACK"})
  <2> HIDE DEF acked
  <2> QED  BY <1>1, <1>3 DEF handleSYN3, Context, tcp_sock
<1> HIDE DEF sk
<1>6. CASE "SYN" \notin p.flags
  <2>1. Says(c, acked, {}) /\ KeepsRest(b, acked.sk)  BY <1>1, SetSays
  <2> QED  BY <1>2, <1>6, <2>1 DEF b
<1>7. CASE "SYN" \in p.flags
  <2> HIDE DEF acked, d
  <2>1. KeepsRest(sk, d.sk) /\ Says(acked, d, {Plain(sk, <<>>, {"ACK"})})
    BY <1>2, <1>3, <1>4, <1>5, <1>7, SendFrom, EmptyDataType, FlagSets
  <2>2. Plain(sk, <<>>, {"ACK"}) = Plain(c.sk, <<>>, {"ACK"})  BY <1>1, <1>4 DEF Plain
  <2>3. Says(c, d, {Plain(c.sk, <<>>, {"ACK"})})
    BY <1>1, <1>3, <2>1, <2>2 DEF Says, Logged, Said
  <2> QED  BY <1>7, <2>1, <2>3 DEF sk, b, d
<1> QED  BY <1>6, <1>7

LEMMA handleSaveDataSays ==
  ASSUME NEW c \in Context, NEW p \in Segment
  PROVE  LET d   == handleSaveData(c, p)
             buf == writeToBuffer(c.sk, p)
             k   == Contiguous(buf, c.sk.tail)
         IN  /\ KeepsRest([c.sk EXCEPT !.buf = buf, !.snd_una = p.ack, !.tail = @ + k,
                                       !.rcv_nxt = @ + k, !.rcv_wnd = p.rwnd], d.sk)
             /\ Says(c, d, {Plain(c.sk, <<>>, {"ACK"})})
<1> DEFINE buf == writeToBuffer(c.sk, p)
           k   == Contiguous(buf, c.sk.tail)
           sk  == [c.sk EXCEPT !.buf = buf, !.snd_una = p.ack, !.tail = @ + k,
                               !.rcv_nxt = @ + k, !.rcv_wnd = p.rwnd]
           d   == handleSaveData(c, p)
<1>1. c.sk \in tcp_sock  BY DEF Context
<1>2. buf \in [Slot -> Byte \cup {NoByte}]  BY <1>1, writeToBufferType
<1>3. k \in Nat  BY ContiguousType
<1>4. \/ d = [c EXCEPT !.sk = sk]
      \/ d = sendAndLogPacket([c EXCEPT !.sk = sk], <<>>, {"ACK"})
  <2> HIDE DEF buf
  <2> QED  BY <1>1 DEF handleSaveData, Context, tcp_sock, buf
<1> HIDE DEF buf, k, d
<1>5. c.sk.tail + k \in Nat /\ c.sk.rcv_nxt + k \in Nat
  BY <1>1, <1>3, ReceiveSums
<1>6. sk \in tcp_sock  BY <1>1, <1>2, <1>5, HandlerFacts DEF tcp_sock
<1>7. sk.sendBuffer = c.sk.sendBuffer /\ sk.snd_nxt = c.sk.snd_nxt  BY <1>1 DEF tcp_sock
<1> HIDE DEF sk
<1>8. Plain(sk, <<>>, {"ACK"}) = Plain(c.sk, <<>>, {"ACK"})  BY <1>7 DEF Plain
<1>9. CASE d = [c EXCEPT !.sk = sk]
  <2>1. Says(c, d, {}) /\ KeepsRest(sk, d.sk)  BY <1>7, <1>9, SetSays
  <2> QED  BY <2>1, SaysMore DEF sk, d, buf, k
<1>10. CASE d = sendAndLogPacket([c EXCEPT !.sk = sk], <<>>, {"ACK"})
  <2>1. KeepsRest(sk, d.sk) /\ Says(c, d, {Plain(c.sk, <<>>, {"ACK"})})
    BY <1>6, <1>7, <1>8, <1>10, SendFrom, EmptyDataType, FlagSets
  <2> QED  BY <2>1 DEF sk, d, buf, k
<1> QED  BY <1>4, <1>9, <1>10

\* The ring after tcp_sock_read
Emptied(sk) ==
  [i \in Slot |-> IF \E n \in sk.head .. sk.tail - 1 : n % RINGBUFFER_SIZE = i
                  THEN NoByte ELSE sk.buf[i]]

LEMMA ReadSays ==
  ASSUME NEW c \in Context
  PROVE  LET d == Read(c)
         IN  /\ KeepsRest([c.sk EXCEPT !.buf = Emptied(c.sk), !.head = c.sk.tail], d.sk)
             /\ Says(c, d, {Plain(c.sk, <<>>, {"ACK"})})
<1> DEFINE sk == [c.sk EXCEPT !.buf = Emptied(c.sk), !.head = c.sk.tail]
           checked == [c EXCEPT !.ok = @ /\ Unread(c.sk) < RINGBUFFER_SIZE]
           d == Read(c)
<1>1. c.sk \in tcp_sock  BY DEF Context
<1>2. Emptied(c.sk) \in [Slot -> Byte \cup {NoByte}]  BY <1>1 DEF tcp_sock, Emptied
<1>3. checked \in Context /\ checked.sk = c.sk /\ checked.tx = c.tx  BY DEF Context
<1>4. d = sendAndLogPacket([checked EXCEPT !.sk = sk], <<>>, {"ACK"})
  BY <1>1 DEF Read, Context, tcp_sock, Emptied
<1>5. sk \in tcp_sock  BY <1>1, <1>2 DEF tcp_sock
<1>6. sk.sendBuffer = c.sk.sendBuffer /\ sk.snd_nxt = c.sk.snd_nxt  BY <1>1 DEF tcp_sock
<1> HIDE DEF sk, d, checked
<1>7. Plain(sk, <<>>, {"ACK"}) = Plain(c.sk, <<>>, {"ACK"})  BY <1>6 DEF Plain
<1>8. KeepsRest(sk, d.sk) /\ Says(checked, d, {Plain(c.sk, <<>>, {"ACK"})})
  BY <1>3, <1>4, <1>5, <1>6, <1>7, SendFrom, EmptyDataType, FlagSets
<1> QED  BY <1>3, <1>8 DEF Says, Logged, Said, sk, d

LEMMA handleFIN3Says ==
  ASSUME NEW c \in Context, NEW p \in Segment
  PROVE  LET d == handleFIN3(c, p)
         IN  /\ KeepsRest([c.sk EXCEPT !.TCPState = "TIME_WAIT", !.snd_una = p.ack,
                                       !.rcv_nxt = p.seq + 1], d.sk)
             /\ Says(c, d, {Plain(c.sk, <<>>, {"ACK"})})
<1> DEFINE sk == [c.sk EXCEPT !.TCPState = "TIME_WAIT", !.snd_una = p.ack,
                              !.rcv_nxt = p.seq + 1]
<1>1. c.sk \in tcp_sock /\ sk \in tcp_sock  BY HandlerFacts, States DEF tcp_sock
<1>2. sk.sendBuffer = c.sk.sendBuffer /\ sk.snd_nxt = c.sk.snd_nxt  BY <1>1 DEF tcp_sock
<1>3. handleFIN3(c, p) = sendAndLogPacket([c EXCEPT !.sk = sk], <<>>, {"ACK"})
  BY DEF handleFIN3, Context, tcp_sock
<1>4. Plain(sk, <<>>, {"ACK"}) = Plain(c.sk, <<>>, {"ACK"})  BY <1>2 DEF Plain
<1> HIDE DEF sk
<1>5. LET d == handleFIN3(c, p)
      IN  KeepsRest(sk, d.sk) /\ Says(c, d, {Plain(c.sk, <<>>, {"ACK"})})
  BY <1>1, <1>2, <1>3, <1>4, SendFrom, EmptyDataType, FlagSets
<1> QED  BY <1>5 DEF sk

LEMMA SilentHandlers ==
  ASSUME NEW c \in Context, NEW p \in Segment
  PROVE  /\ KeepsRest([c.sk EXCEPT !.TCPState = "FIN_WAIT_2", !.snd_una = p.ack],
                      handleFIN2(c, p).sk)
         /\ KeepsRest([c.sk EXCEPT !.TCPState = "CLOSED"], handleFIN4(c, p).sk)
         /\ KeepsRest(c.sk, Ignore(c, p).sk)
         /\ Says(c, handleFIN2(c, p), {}) /\ Says(c, handleFIN4(c, p), {})
         /\ Says(c, Ignore(c, p), {})
<1> DEFINE two  == [c.sk EXCEPT !.TCPState = "FIN_WAIT_2", !.snd_una = p.ack]
           four == [c.sk EXCEPT !.TCPState = "CLOSED"]
<1>1. c.sk \in tcp_sock  BY DEF Context
<1>2. /\ two.sendBuffer = c.sk.sendBuffer /\ four.sendBuffer = c.sk.sendBuffer
      /\ handleFIN2(c, p) = [c EXCEPT !.sk = two]
      /\ handleFIN4(c, p) = [c EXCEPT !.sk = four]
      /\ Ignore(c, p) = [c EXCEPT !.sk = c.sk]
  BY <1>1 DEF handleFIN2, handleFIN4, Ignore, Context, tcp_sock
<1> HIDE DEF two, four
<1>3. /\ Says(c, [c EXCEPT !.sk = two], {}) /\ KeepsRest(two, [c EXCEPT !.sk = two].sk)
      /\ Says(c, [c EXCEPT !.sk = four], {}) /\ KeepsRest(four, [c EXCEPT !.sk = four].sk)
      /\ Says(c, [c EXCEPT !.sk = c.sk], {}) /\ KeepsRest(c.sk, [c EXCEPT !.sk = c.sk].sk)
  BY <1>2, SetSays
<1> QED  BY <1>2, <1>3 DEF two, four

-----------------------------------------------------------------------------
(* One step of TCPProtocol, seen from the sockets and the wires.           *)

Wires == [Hosts -> Seq(Segment)]

\* handleSYN1 has taken the name s for a new socket.
Allocated(s) ==
  /\ s \in FreeChildren /\ s \in synRcvdList'
  /\ sock'[s].sendBuffer = <<>>
  /\ sock'[s].timingOpen \in GarbageTiming

\* handleSYN4 has established the child s.
Adopted(s) ==
  /\ s \in synRcvdList
  /\ sock'[s].sendBuffer = sock[s].sendBuffer
  /\ sock'[s].timingOpen = sock[s].timingOpen

SocketStep ==
  /\ sock' \in [Sock -> tcp_sock] /\ net' \in Wires /\ aborted' \subseteq Hosts
  /\ \A s \in Sock :
       Advances(sock[s], sock'[s]) \/ (s \in Children /\ (Allocated(s) \/ Adopted(s)))

LEMMA EnterType ==
  ASSUME NEW sk \in tcp_sock PROVE Enter(sk) \in Context /\ Enter(sk).sk = sk
  BY DEF Enter, Context

LEMMA TransmitType ==
  ASSUME NEW flight \in Wires, NEW tx \in Seq(Segment)
  PROVE  Transmit(flight, tx) \in Wires
<1>1. CASE tx = <<>>  BY <1>1 DEF Transmit
<1>2. CASE tx # <<>>
  <2>1. CASE Head(tx).dst \in Hosts
    <3>1. flight[Head(tx).dst] \o tx \in Seq(Segment)  BY <2>1 DEF Wires
    <3> QED  BY <1>2, <2>1, <3>1 DEF Transmit, Wires
  <2>2. CASE Head(tx).dst \notin Hosts
    BY <1>2, <2>2 DEF Transmit, Wires
  <2> QED  BY <2>1, <2>2
<1> QED  BY <1>1, <1>2

LEMMA WithoutType ==
  ASSUME TypeOK, NEW h \in Hosts, NEW i \in DOMAIN net[h]
  PROVE  Without(h, i) \in Wires /\ net[h][i] \in Segment
<1>1. net[h] \in Seq(Segment)  BY DEF TypeOK
<1>2. RemoveAt(net[h], i) \in Seq(Segment)
  <2>1. SubSeq(net[h], 1, i - 1) \in Seq(Segment)
    BY <1>1, SubSeqProperties
  <2>2. SubSeq(net[h], i + 1, Len(net[h])) \in Seq(Segment)
    BY <1>1, SubSeqProperties
  <2> QED  BY <2>1, <2>2 DEF RemoveAt
<1> QED  BY <1>1, <1>2 DEF Without, Wires, TypeOK

\* A critical section on one socket
LEMMA CommitStep ==
  ASSUME TypeOK, NEW s \in Sock, NEW result \in Context,
         Advances(sock[s], result.sk), NEW flight \in Wires,
         Commit(s, result, flight)
  PROVE  SocketStep
<1>1. sock \in [Sock -> tcp_sock] /\ net \in Wires /\ aborted \subseteq Hosts
  BY DEF TypeOK, Wires
<1>2. \A r \in Sock : Advances(sock[r], sock[r])
  BY <1>1, KeepsAdvances DEF Keeps
<1>3. CASE result.ok
  <2>1. /\ sock' = [sock EXCEPT ![s] = result.sk]
        /\ net' = Transmit(flight, result.tx)
        /\ UNCHANGED aborted
    BY <1>3 DEF Commit
  <2>2. result.sk \in tcp_sock /\ result.tx \in Seq(Segment)  BY DEF Context
  <2>3. \A r \in Sock : sock'[r] = IF r = s THEN result.sk ELSE sock[r]
    BY <1>1, <2>1
  <2>4. net' \in Wires  BY <2>1, <2>2, TransmitType
  <2> QED  BY <1>1, <1>2, <2>1, <2>2, <2>3, <2>4 DEF SocketStep
<1>4. CASE ~result.ok
  <2>1. /\ aborted' = aborted \cup {sock[s].local}
        /\ net' = flight
        /\ UNCHANGED sock
    BY <1>4 DEF Commit
  <2>2. sock[s].local \in Hosts  BY <1>1 DEF tcp_sock
  <2> QED  BY <1>1, <1>2, <2>1, <2>2 DEF SocketStep
<1> QED  BY <1>3, <1>4

\* A step that leaves the sockets alone
LEMMA QuietStep ==
  ASSUME TypeOK, sock' = sock, net' \in Wires, aborted' \subseteq Hosts
  PROVE  SocketStep
  BY KeepsAdvances DEF Keeps, SocketStep, TypeOK

LEMMA SockType ==
  ASSUME TypeOK, NEW s \in Sock
  PROVE  sock[s] \in tcp_sock /\ Enter(sock[s]) \in Context /\ Enter(sock[s]).sk = sock[s]
  BY EnterType DEF TypeOK

LEMMA WiresType == ASSUME TypeOK PROVE net \in Wires
  BY DEF TypeOK, Wires

LEMMA HostsAreSockets == Clients \subseteq Sock /\ Server \in Sock /\ Hosts \subseteq Sock
                         /\ Children \subseteq Sock
  BY DEF Sock, Hosts

LEMMA ConnectStep ==
  ASSUME TypeOK, NEW c \in Clients, ClientConnect(c) PROVE SocketStep
  BY SockType, HostsAreSockets, WiresType, ConnectType, ConnectAdvances, CommitStep
     DEF ClientConnect

\* The bytes tcp_sock_write hands over are bytes of the file.
LEMMA FileDataType ==
  ASSUME TypeOK, WritesItsFile, NEW c \in Clients, CanWrite(c)
  PROVE  LET offset == FileLen - Remaining(c)
             size   == SegmentSize(Remaining(c))
         IN  SubSeq(File(c), offset + 1, offset + size) \in Seq(Byte)
<1> DEFINE offset == FileLen - Remaining(c)
           size   == SegmentSize(Remaining(c))
<1>1. maxSend[c] \in Nat /\ sock[c].snd_nxt \in Nat /\ FileLen \in Nat
  BY SockType, HostsAreSockets, ProtocolAssumption DEF TypeOK, tcp_sock
<1>2. Remaining(c) \in 1 .. FileLen
  BY <1>1 DEF CanWrite, Remaining, WritesItsFile
<1>3. size \in 1 .. Remaining(c)
  BY <1>2, SlotFacts DEF SegmentSize
<1>4. offset \in Nat /\ offset + size <= FileLen /\ offset + size \in Nat
  BY <1>1, <1>2, <1>3
<1> HIDE DEF offset, size
<1>5. ASSUME NEW i \in offset + 1 .. offset + size PROVE File(c)[i] \in Byte
  <2>1. i \in 1 .. FileLen  BY <1>1, <1>4
  <2> QED  BY <2>1, ProtocolAssumption DEF File
<1>6. SubSeq(File(c), offset + 1, offset + size) \in Seq(Byte)
  BY <1>4, <1>5, SubSeqProperties
<1> QED  BY <1>6 DEF offset, size

LEMMA WriteStep ==
  ASSUME TypeOK, WritesItsFile, NEW c \in Clients, ClientWrite(c) PROVE SocketStep
<1> DEFINE offset == FileLen - Remaining(c)
           size   == SegmentSize(Remaining(c))
           data   == SubSeq(File(c), offset + 1, offset + size)
<1>1. data \in Seq(Byte)  BY FileDataType DEF ClientWrite
<1>2. Commit(c, Write(Enter(sock[c]), data), net)  BY DEF ClientWrite
<1> HIDE DEF data
<1> QED  BY <1>1, <1>2, SockType, HostsAreSockets, WiresType, WriteType,
            WriteAdvances, CommitStep

LEMMA CloseStep ==
  ASSUME TypeOK, NEW c \in Clients, ClientClose(c) PROVE SocketStep
  BY SockType, HostsAreSockets, WiresType, CloseType, CloseAdvances, CommitStep
     DEF ClientClose

LEMMA ListenStep == ASSUME TypeOK, ServerListen PROVE SocketStep
<1>1. sock \in [Sock -> tcp_sock] /\ Server \in Sock /\ net \in Wires
      /\ aborted \subseteq Hosts
  BY HostsAreSockets, WiresType DEF TypeOK
<1>2. [sock[Server] EXCEPT !.TCPState = "LISTEN"] \in tcp_sock
  BY <1>1, States DEF tcp_sock
<1>3. \A s \in Sock : Keeps(sock[s], sock'[s])
  BY <1>1 DEF ServerListen, Keeps, tcp_sock
<1>4. sock' \in [Sock -> tcp_sock] /\ net' = net /\ aborted' = aborted
  BY <1>1, <1>2 DEF ServerListen
<1> QED  BY <1>1, <1>3, <1>4, KeepsAdvances DEF SocketStep

LEMMA ReadStep == ASSUME TypeOK, ServerRead, csk \in Sock PROVE SocketStep
  BY SockType, WiresType, ReadType, ReadAdvances, CommitStep DEF ServerRead

LEMMA NetworkStep ==
  ASSUME TypeOK, NEW h \in Hosts, NEW i \in DOMAIN net[h], Lose(h, i) \/ Duplicate(h, i)
  PROVE  SocketStep
<1>1. CASE Lose(h, i)
  BY <1>1, WithoutType, QuietStep DEF Lose, TypeOK
<1>2. CASE Duplicate(h, i)
  <2>1. net[h] \in Seq(Segment) /\ net[h][i] \in Segment  BY WithoutType DEF TypeOK
  <2>2. net' \in Wires  BY <1>2, <2>1, WiresType DEF Duplicate, Wires
  <2> QED  BY <1>2, <2>2, QuietStep DEF Duplicate, TypeOK
<1> QED  BY <1>1, <1>2

LEMMA AckTimeOutStep ==
  ASSUME TypeOK, NEW s \in Sock, AckTimeOut(s) PROVE SocketStep
  BY SockType, WiresType, HandleTimeOutType, HandleTimeOutAdvances, CommitStep
     DEF AckTimeOut

LEMMA TimeWaitStep ==
  ASSUME TypeOK, NEW s \in Sock, TimeWaitOver(s) PROVE SocketStep
<1>1. sock \in [Sock -> tcp_sock] /\ net \in Wires /\ aborted \subseteq Hosts
  BY WiresType DEF TypeOK
<1>2. [sock[s] EXCEPT !.TCPState = "CLOSED"] \in tcp_sock
  BY <1>1, States DEF tcp_sock
<1>3. \A r \in Sock : Keeps(sock[r], sock'[r])
  BY <1>1 DEF TimeWaitOver, Keeps, tcp_sock
<1>4. sock' \in [Sock -> tcp_sock] /\ net' = net /\ aborted' = aborted
  BY <1>1, <1>2 DEF TimeWaitOver
<1> QED  BY <1>1, <1>3, <1>4, KeepsAdvances DEF SocketStep

-----------------------------------------------------------------------------
(* handlePacket.                                                           *)

LEMMA AckedType ==
  ASSUME TypeOK, NEW h \in Hosts, NEW i \in DOMAIN net[h], NEW s \in Sock
  PROVE  /\ Acked(h, i, s) \in Context
         /\ Acked(h, i, s).sk \in tcp_sock
         /\ Advances(sock[s], Acked(h, i, s).sk)
<1>1. sock[s] \in tcp_sock /\ net[h][i] \in Segment  BY SockType, WithoutType
<1> QED  BY <1>1, OnSegmentType, OnSegmentAdvances DEF Acked, Context

\* Handle, for a handler whose result is d
LEMMA HandledStep ==
  ASSUME TypeOK, NEW h \in Hosts, NEW i \in DOMAIN net[h], NEW s \in Sock,
         NEW d \in Context, Advances(Acked(h, i, s).sk, d.sk),
         Commit(s, d, Without(h, i))
  PROVE  SocketStep
<1>1. sock[s] \in tcp_sock /\ d.sk \in tcp_sock  BY SockType DEF Context
<1>2. Advances(sock[s], d.sk)  BY <1>1, AckedType, AdvancesTrans
<1> QED  BY <1>2, WithoutType, CommitStep

LEMMA HandleStep ==
  ASSUME TypeOK, NEW h \in Hosts, NEW i \in DOMAIN net[h], NEW s \in Sock,
         \/ ReceiveFIN1(h, i, s) \/ ReceiveData(h, i, s)
         \/ ReceiveFIN2(h, i, s) \/ ReceiveFIN3(h, i, s) \/ ReceiveFIN4(h, i, s)
         \/ ReceiveOnlyAck(h, i, s)
         \/ ReceiveSYN3(h, i, s) \/ ReceiveBeforeMove(h, i, s)
  PROVE  SocketStep
<1> DEFINE c == Acked(h, i, s)
           p == net[h][i]
<1>1. c \in Context /\ p \in Segment  BY AckedType, WithoutType
<1>2. CASE ReceiveFIN1(h, i, s)
  <2>1. Commit(s, handleFIN1(c, p), Without(h, i))
    BY <1>2 DEF ReceiveFIN1, Handle
  <2> HIDE DEF c, p
  <2>2. handleFIN1(c, p) \in Context /\ Advances(c.sk, handleFIN1(c, p).sk)
    BY <1>1, handleFIN1Type, handleFIN1Advances
  <2> QED  BY <2>1, <2>2, HandledStep DEF c
<1>3. CASE ReceiveData(h, i, s)
  <2>1. Commit(s, handleSaveData(c, p), Without(h, i))
    BY <1>3 DEF ReceiveData, Handle
  <2> HIDE DEF c, p
  <2>2. handleSaveData(c, p) \in Context /\ Advances(c.sk, handleSaveData(c, p).sk)
    BY <1>1, handleSaveDataType, handleSaveDataAdvances
  <2> QED  BY <2>1, <2>2, HandledStep DEF c
<1>4. CASE ReceiveFIN2(h, i, s)
  <2>1. Commit(s, handleFIN2(c, p), Without(h, i))
    BY <1>4 DEF ReceiveFIN2, Handle
  <2> HIDE DEF c, p
  <2>2. handleFIN2(c, p) \in Context /\ Advances(c.sk, handleFIN2(c, p).sk)
    BY <1>1, handleFIN2Type, KeepingHandlers
  <2> QED  BY <2>1, <2>2, HandledStep DEF c
<1>5. CASE ReceiveFIN3(h, i, s)
  <2>1. Commit(s, handleFIN3(c, p), Without(h, i))
    BY <1>5 DEF ReceiveFIN3, Handle
  <2> HIDE DEF c, p
  <2>2. handleFIN3(c, p) \in Context /\ Advances(c.sk, handleFIN3(c, p).sk)
    BY <1>1, handleFIN3Type, handleFIN3Advances
  <2> QED  BY <2>1, <2>2, HandledStep DEF c
<1>6. CASE ReceiveFIN4(h, i, s)
  <2>1. Commit(s, handleFIN4(c, p), Without(h, i))
    BY <1>6 DEF ReceiveFIN4, Handle
  <2> HIDE DEF c, p
  <2>2. handleFIN4(c, p) \in Context /\ Advances(c.sk, handleFIN4(c, p).sk)
    BY <1>1, handleFIN4Type, KeepingHandlers
  <2> QED  BY <2>1, <2>2, HandledStep DEF c
<1>7. CASE ReceiveOnlyAck(h, i, s) \/ ReceiveBeforeMove(h, i, s)
  <2>1. Commit(s, Ignore(c, p), Without(h, i))
    BY <1>7 DEF ReceiveOnlyAck, ReceiveBeforeMove, Handle
  <2> HIDE DEF c, p
  <2>2. Ignore(c, p) \in Context /\ Advances(c.sk, Ignore(c, p).sk)
    BY <1>1, KeepingHandlers DEF Ignore
  <2> QED  BY <2>1, <2>2, HandledStep DEF c
<1>8. CASE ReceiveSYN3(h, i, s)
  <2>1. Commit(s, handleSYN23(c, p), Without(h, i))
    BY <1>8 DEF ReceiveSYN3, Handle
  <2> HIDE DEF c, p
  <2>2. handleSYN23(c, p) \in Context /\ Advances(c.sk, handleSYN23(c, p).sk)
    BY <1>1, handleSYN23Type, handleSYN23Advances
  <2> QED  BY <2>1, <2>2, HandledStep DEF c
<1> QED  BY <1>2, <1>3, <1>4, <1>5, <1>6, <1>7, <1>8

LEMMA FreshType ==
  ASSUME NEW peer \in Hosts, NEW child \in Fresh(Server, peer)
  PROVE  /\ child \in tcp_sock /\ child.sendBuffer = <<>>
         /\ child.timingOpen \in GarbageTiming
<1>1. PICK una \in Garbage, nxt \in Garbage, timing \in GarbageTiming :
        child = alloc_tcp_sock(Server, peer, una, nxt, timing)
  BY DEF Fresh
<1>2. una \in Nat /\ nxt \in Nat /\ timing \in BOOLEAN /\ Server \in Hosts
  BY ProtocolAssumption DEF Hosts
<1>3. "CLOSED" \in TCPState_c  BY States
<1> QED  BY <1>1, <1>2, <1>3, InitCongestionType DEF alloc_tcp_sock, tcp_sock

LEMMA SYN1Step ==
  ASSUME TypeOK, NEW h \in Hosts, NEW i \in DOMAIN net[h], NEW s \in Sock,
         NEW k \in Children, ReceiveSYN1(h, i, s, k)
  PROVE  SocketStep
<1> DEFINE c == handleSYN1(Acked(h, i, s), net[h][i])
           flight == Without(h, i)
<1>1. Acked(h, i, s) \in Context /\ net[h][i] \in Segment /\ flight \in Wires
  BY AckedType, WithoutType
<1>2. c \in Context  BY <1>1, handleSYN1Type
<1>3. sock \in [Sock -> tcp_sock] /\ aborted \subseteq Hosts /\ k \in Sock
  BY HostsAreSockets DEF TypeOK
<1>4. c.sk \in tcp_sock /\ c.tx \in Seq(Segment)  BY <1>2 DEF Context
<1>5. Advances(sock[s], c.sk)
  BY <1>1, <1>3, <1>4, AckedType, handleSYN1Advances, AdvancesTrans
<1>6. PICK child \in Fresh(Server, net[h][i].src) :
        IF c.ok
        THEN /\ sock' = [sock EXCEPT ![s] = c.sk, ![k] = child]
             /\ net' = Transmit(flight, c.tx)
             /\ UNCHANGED aborted
        ELSE /\ aborted' = aborted \cup {h}
             /\ net' = flight
             /\ UNCHANGED sock
  BY DEF ReceiveSYN1
<1>7. k \in FreeChildren  BY DEF ReceiveSYN1
<1>8. net[h][i].src \in Hosts  BY <1>1 DEF Segment
<1>9. child \in tcp_sock /\ child.sendBuffer = <<>> /\ child.timingOpen \in GarbageTiming
  BY <1>8, FreshType
<1> HIDE DEF c, flight
<1>10. CASE c.ok
  <2>1. /\ sock' = [sock EXCEPT ![s] = c.sk, ![k] = child]
        /\ net' \in Wires /\ aborted' = aborted
    BY <1>1, <1>4, <1>6, <1>10, TransmitType
  <2>2. \A r \in Sock : sock'[r] = IF r = k THEN child
                                   ELSE IF r = s THEN c.sk ELSE sock[r]
    BY <1>3, <2>1
  <2>3. \A r \in Sock : Advances(sock[r], sock[r])
    BY <1>3, KeepsAdvances DEF Keeps
  <2>4. k \in synRcvdList'  BY <1>10 DEF ReceiveSYN1, c
  <2>5. Allocated(k)  BY <1>3, <1>7, <1>9, <2>2, <2>4 DEF Allocated
  <2> QED  BY <1>3, <1>4, <1>5, <1>9, <2>1, <2>2, <2>3, <2>5 DEF SocketStep
<1>11. CASE ~c.ok
  BY <1>1, <1>3, <1>6, <1>11, QuietStep
<1> QED  BY <1>10, <1>11

LEMMA SYN4Step ==
  ASSUME TypeOK, NEW h \in Hosts, NEW i \in DOMAIN net[h], NEW s \in Sock,
         NEW k \in Children, ReceiveSYN4(h, i, s, k)
  PROVE  SocketStep
<1> DEFINE c == Acked(h, i, s)
           p == net[h][i]
           parent == [c.sk EXCEPT !.TCPState = "LISTEN"]
           child == handleSYN4(sock[k], p, c.sk.snd_nxt)
<1>1. c \in Context /\ c.sk \in tcp_sock /\ Advances(sock[s], c.sk)
      /\ p \in Segment /\ Without(h, i) \in Wires
  BY AckedType, WithoutType
<1>2. sock \in [Sock -> tcp_sock] /\ aborted \subseteq Hosts /\ k \in Sock
  BY HostsAreSockets DEF TypeOK
<1>3. s # k
  <2>1. s \in Hosts  BY DEF ReceiveSYN4, ToListener, Listener, TypeOK
  <2> QED  BY <2>1, ProtocolAssumption
<1>4. /\ net' = Without(h, i)
      /\ IF c.ok
         THEN /\ sock' = [sock EXCEPT ![s] = parent,
                                      ![k] = handleSYN4(@, p, c.sk.snd_nxt)]
              /\ UNCHANGED aborted
         ELSE /\ aborted' = aborted \cup {h}
              /\ UNCHANGED sock
  BY DEF ReceiveSYN4
<1> HIDE DEF c, p
<1>5. CASE c.ok
  <2>1. parent \in tcp_sock /\ Keeps(c.sk, parent)
    BY <1>1, States DEF tcp_sock, Keeps
  <2>2. Advances(sock[s], parent)
    BY <1>1, <1>2, <2>1, KeepsAdvances, AdvancesTrans
  <2>3. c.sk.snd_nxt \in Nat /\ sock[k] \in tcp_sock  BY <1>1, <1>2 DEF tcp_sock
  <2>4. child \in tcp_sock  BY <1>1, <2>3, handleSYN4Type
  <2>5. child.sendBuffer = sock[k].sendBuffer /\ child.timingOpen = sock[k].timingOpen
    BY <2>3 DEF handleSYN4, tcp_sock
  <2> HIDE DEF parent
  <2>6. sock' = [sock EXCEPT ![s] = parent, ![k] = child] /\ UNCHANGED aborted
    BY <1>2, <1>3, <1>4, <1>5
  <2> HIDE DEF child
  <2>7. \A r \in Sock : sock'[r] = IF r = k THEN child
                                   ELSE IF r = s THEN parent ELSE sock[r]
    BY <1>2, <2>6
  <2>8. \A r \in Sock : Advances(sock[r], sock[r])
    BY <1>2, KeepsAdvances DEF Keeps
  <2>9. Adopted(k)
    BY <1>2, <2>5, <2>7 DEF Adopted, ReceiveSYN4, SynRcvd
  <2>10. sock' \in [Sock -> tcp_sock]  BY <1>2, <2>1, <2>4, <2>6
  <2>11. net' \in Wires /\ aborted' \subseteq Hosts  BY <1>1, <1>2, <1>4, <2>6
  <2> QED  BY <2>2, <2>7, <2>8, <2>9, <2>10, <2>11 DEF SocketStep
<1>6. CASE ~c.ok
  BY <1>1, <1>2, <1>4, <1>6, QuietStep
<1> QED  BY <1>5, <1>6

LEMMA DroppedStep ==
  ASSUME TypeOK, NEW h \in Hosts, NEW i \in DOMAIN net[h],
         ReceiveNoSocket(h, i) \/ \E s \in Sock : ReceiveSYN4NoChild(h, i, s)
  PROVE  SocketStep
  BY WithoutType, QuietStep DEF ReceiveNoSocket, ReceiveSYN4NoChild, TypeOK

-----------------------------------------------------------------------------
(* Type correctness.                                                       *)

\* Whatever happens, no socket does anything but what SocketStep allows.
LEMMA NextSocketStep ==
  ASSUME TypeOK, WritesItsFile, [Next]_vars
  PROVE  SocketStep
<1>1. sock \in [Sock -> tcp_sock] /\ net \in Wires /\ aborted \subseteq Hosts
  BY WiresType DEF TypeOK
<1>2. CASE UNCHANGED vars  BY <1>1, <1>2, QuietStep DEF vars
<1>3. ASSUME NEW c \in Clients, Client(c) PROVE SocketStep
  <2>1. CASE ClientConnect(c)  BY <2>1, ConnectStep
  <2>2. CASE ClientWrite(c)    BY <2>2, WriteStep
  <2>3. CASE ClientClose(c)    BY <2>3, CloseStep
  <2>4. CASE ClientConnected(c) \/ ClientWriteBegin(c) \/ ClientWritten(c)
             \/ ClientClosed(c)
    BY <1>1, <2>4, QuietStep
       DEF ClientConnected, ClientWriteBegin, ClientWritten, ClientClosed
  <2> QED  BY <1>3, <2>1, <2>2, <2>3, <2>4 DEF Client
<1>4. CASE ServerApp
  <2>1. CASE ServerListen  BY <2>1, ListenStep
  <2>2. CASE ServerRead
    <3>1. csk \in Sock  BY <2>2, HostsAreSockets DEF ServerRead, TypeOK
    <3> QED  BY <2>2, <3>1, ReadStep
  <2>3. CASE (\E k \in Children : ServerAccept(k)) \/ ServerReadSleep
             \/ ServerReadWake \/ ServerClose
    BY <1>1, <2>3, QuietStep
       DEF ServerAccept, ServerReadSleep, ServerReadWake, ServerClose
  <2> QED  BY <1>4, <2>1, <2>2, <2>3 DEF ServerApp
<1>5. ASSUME NEW h \in Hosts, Receive(h) PROVE SocketStep
  <2>1. PICK i \in DOMAIN net[h] : ReceiveAt(h, i)  BY <1>5 DEF Receive
  <2>2. CASE ReceiveNoSocket(h, i)  BY <2>2, DroppedStep
  <2>3. ASSUME NEW s \in Sock, ReceiveSYN4NoChild(h, i, s) PROVE SocketStep
    BY <2>3, DroppedStep
  <2>4. ASSUME NEW s \in Sock, NEW k \in Children, ReceiveSYN1(h, i, s, k)
        PROVE  SocketStep
    BY <2>4, SYN1Step
  <2>5. ASSUME NEW s \in Sock, NEW k \in Children, ReceiveSYN4(h, i, s, k)
        PROVE  SocketStep
    BY <2>5, SYN4Step
  <2>6. ASSUME NEW s \in Sock,
               \/ ReceiveFIN1(h, i, s) \/ ReceiveData(h, i, s)
               \/ ReceiveFIN2(h, i, s) \/ ReceiveFIN3(h, i, s) \/ ReceiveFIN4(h, i, s)
               \/ ReceiveOnlyAck(h, i, s)
               \/ ReceiveSYN3(h, i, s) \/ ReceiveBeforeMove(h, i, s)
        PROVE  SocketStep
    BY <2>6, HandleStep
  <2> QED  BY <2>1, <2>2, <2>3, <2>4, <2>5, <2>6 DEF ReceiveAt
<1>6. ASSUME NEW h \in Hosts, Network(h) PROVE SocketStep
  BY <1>6, NetworkStep DEF Network
<1>7. ASSUME NEW s \in Sock, AckTimeOut(s) \/ TimeWaitOver(s) PROVE SocketStep
  BY <1>7, AckTimeOutStep, TimeWaitStep
<1> QED  BY <1>2, <1>3, <1>4, <1>5, <1>6, <1>7 DEF Next

\* The part of TypeOK that SocketStep does not speak of
AppsOK ==
  /\ listenTable \subseteq Hosts /\ establishedTable \subseteq Sock
  /\ synRcvdList \subseteq Children /\ acceptList \subseteq Children
  /\ cpc \in [Clients -> {"start", "connect", "connected", "write", "sleep",
                          "close", "done"}]
  /\ maxSend \in [Clients -> Nat]
  /\ spc \in {"start", "accept", "read", "sleep", "close", "done"}
  /\ csk \in Children \cup {NoChild}
  /\ spc \in {"read", "sleep", "close", "done"} => csk \in Children
  /\ delivered \in Seq(Byte \cup {NoByte})
  /\ lost \in Nat /\ duplicated \in Nat /\ timeouts \in Nat

LEMMA UnreadBytesType ==
  ASSUME NEW sk \in tcp_sock, Unread(sk) > 0
  PROVE  UnreadBytes(sk) \in Seq(Byte \cup {NoByte})
<1>1. Unread(sk) \in Nat /\ sk.head \in Nat  BY DEF Unread, tcp_sock
<1>2. ASSUME NEW i \in 1 .. Unread(sk)
      PROVE  sk.buf[(sk.head + i - 1) % RINGBUFFER_SIZE] \in Byte \cup {NoByte}
  <2>1. (sk.head + i - 1) % RINGBUFFER_SIZE \in Slot
    BY <1>1, SlotFacts DEF Slot
  <2> QED  BY <2>1 DEF tcp_sock
<1> QED  BY <1>1, <1>2 DEF UnreadBytes

LEMMA AppsStep ==
  ASSUME TypeOK, [Next]_vars
  PROVE  AppsOK'
<1> USE DEF TypeOK, AppsOK
<1>1. CASE UNCHANGED vars
  BY <1>1 DEF vars, tables, apps, bounds
<1>2. ASSUME NEW c \in Clients, Client(c) PROVE AppsOK'
  <2>1. c \in Hosts /\ c \in Sock  BY HostsAreSockets DEF Hosts
  <2>2. CASE ClientConnect(c)    BY <2>1, <2>2 DEF ClientConnect, bounds
  <2>3. CASE ClientConnected(c)  BY <2>1, <2>3 DEF ClientConnected, bounds
  <2>4. CASE ClientWriteBegin(c)
    <3>1. sock[c].snd_nxt \in Nat /\ FileLen \in Nat  BY <2>1, ProtocolAssumption DEF tcp_sock
    <3>2. sock[c].snd_nxt + FileLen \in Nat  BY <3>1
    <3> QED  BY <2>4, <3>2 DEF ClientWriteBegin, tables, bounds
  <2>5. CASE ClientWrite(c)      BY <2>5 DEF ClientWrite, tables, apps, bounds
  <2>6. CASE ClientWritten(c)    BY <2>6 DEF ClientWritten, tables, bounds
  <2>7. CASE ClientClose(c)      BY <2>7 DEF ClientClose, tables, bounds
  <2>8. CASE ClientClosed(c)     BY <2>8 DEF ClientClosed, bounds
  <2> QED  BY <1>2, <2>2, <2>3, <2>4, <2>5, <2>6, <2>7, <2>8 DEF Client
<1>3. CASE ServerApp
  <2>1. CASE ServerListen
    BY <2>1 DEF ServerListen, bounds, Hosts
  <2>2. ASSUME NEW k \in Children, ServerAccept(k) PROVE AppsOK'
    BY <2>2 DEF ServerAccept, bounds
  <2>3. CASE ServerReadSleep  BY <2>3 DEF ServerReadSleep, tables, bounds
  <2>4. CASE ServerReadWake   BY <2>4 DEF ServerReadWake, tables, bounds
  <2>5. CASE ServerRead
    <3>1. csk \in Sock  BY <2>5, HostsAreSockets DEF ServerRead
    <3>2. UnreadBytes(sock[csk]) \in Seq(Byte \cup {NoByte})
      BY <2>5, <3>1, UnreadBytesType DEF ServerRead
    <3> QED  BY <2>5, <3>2 DEF ServerRead, tables, bounds
  <2>6. CASE ServerClose      BY <2>6 DEF ServerClose, bounds
  <2> QED  BY <1>3, <2>1, <2>2, <2>3, <2>4, <2>5, <2>6 DEF ServerApp
<1>4. ASSUME NEW h \in Hosts, Receive(h) PROVE AppsOK'
  <2>1. PICK i \in DOMAIN net[h] : ReceiveAt(h, i)  BY <1>4 DEF Receive
  <2>2. ASSUME NEW s \in Sock, NEW k \in Children, ReceiveSYN1(h, i, s, k) PROVE AppsOK'
    BY <2>2 DEF ReceiveSYN1, apps, bounds
  <2>3. ASSUME NEW s \in Sock, NEW k \in Children, ReceiveSYN4(h, i, s, k) PROVE AppsOK'
    BY <2>3, HostsAreSockets DEF ReceiveSYN4, apps, bounds
  <2>4. ASSUME NEW s \in Sock,
               \/ ReceiveFIN1(h, i, s) \/ ReceiveData(h, i, s)
               \/ ReceiveFIN2(h, i, s) \/ ReceiveFIN3(h, i, s) \/ ReceiveFIN4(h, i, s)
               \/ ReceiveOnlyAck(h, i, s)
               \/ ReceiveSYN3(h, i, s) \/ ReceiveBeforeMove(h, i, s)
               \/ ReceiveSYN4NoChild(h, i, s)
        PROVE  UNCHANGED <<tables, apps, bounds>>
    BY <2>4 DEF ReceiveFIN1, ReceiveData, ReceiveFIN2, ReceiveFIN3, ReceiveFIN4,
                ReceiveOnlyAck, ReceiveSYN3, ReceiveBeforeMove, ReceiveSYN4NoChild, Handle
  <2>5. CASE ReceiveNoSocket(h, i)
    BY <2>5 DEF ReceiveNoSocket, tables, apps, bounds
  <2>6. CASE UNCHANGED <<tables, apps, bounds>>
    BY <2>6 DEF tables, apps, bounds
  <2> QED  BY <2>1, <2>2, <2>3, <2>4, <2>5, <2>6 DEF ReceiveAt
<1>5. ASSUME NEW h \in Hosts, Network(h) PROVE AppsOK'
  BY <1>5 DEF Network, Lose, Duplicate, tables, apps
<1>6. ASSUME NEW s \in Sock, AckTimeOut(s) \/ TimeWaitOver(s) PROVE AppsOK'
  BY <1>6 DEF AckTimeOut, TimeWaitOver, tables, apps, bounds
<1> QED  BY <1>1, <1>2, <1>3, <1>4, <1>5, <1>6 DEF Next

LEMMA TypeInit == ASSUME Init PROVE TypeOK /\ WritesItsFile
<1>1. sock \in [Sock -> tcp_sock]
  <2>1. PICK una \in [Hosts -> Garbage], nxt \in [Hosts -> Garbage],
             timing \in [Hosts -> GarbageTiming] :
          sock = [s \in Sock |->
                    IF s \in Hosts
                    THEN alloc_tcp_sock(s, IF s = Server THEN NoPeer ELSE Server,
                                        una[s], nxt[s], timing[s])
                    ELSE alloc_tcp_sock(Server, NoPeer, 0, 0, FALSE)]
    BY DEF Init
  <2>2. \A local \in Hosts, peer \in Hosts \cup {NoPeer}, a \in Nat, b \in Nat,
           t \in BOOLEAN : alloc_tcp_sock(local, peer, a, b, t) \in tcp_sock
    BY States, InitCongestionType DEF alloc_tcp_sock, tcp_sock
  <2>3. \A s \in Hosts : una[s] \in Nat /\ nxt[s] \in Nat /\ timing[s] \in BOOLEAN
    BY ProtocolAssumption
  <2>4. Server \in Hosts  BY DEF Hosts
  <2> QED  BY <2>1, <2>2, <2>3, <2>4
<1>2. /\ listenTable = {} /\ establishedTable = {}
      /\ synRcvdList = {} /\ acceptList = {}
      /\ net = [h \in Hosts |-> <<>>]
      /\ aborted = {}
      /\ cpc = [c \in Clients |-> "start"] /\ maxSend = [c \in Clients |-> 0]
      /\ spc = "start" /\ csk = NoChild /\ delivered = <<>>
      /\ lost = 0 /\ duplicated = 0 /\ timeouts = 0
  BY DEF Init
<1>3. WritesItsFile  BY <1>2 DEF WritesItsFile
<1>4. net \in [Hosts -> Seq(Segment)] /\ delivered \in Seq(Byte \cup {NoByte})
  BY <1>2
<1> QED  BY <1>1, <1>2, <1>3, <1>4 DEF TypeOK

LEMMA WritesStep ==
  ASSUME TypeOK, WritesItsFile, [Next]_vars, SocketStep
  PROVE  WritesItsFile'
<1> SUFFICES ASSUME NEW c \in Clients, cpc'[c] = "write"
             PROVE  maxSend'[c] <= sock'[c].snd_nxt + FileLen
  BY DEF WritesItsFile
<1>1. c \in Sock /\ c \notin Children
  BY HostsAreSockets, ProtocolAssumption DEF Hosts
<1>2. sock[c] \in tcp_sock /\ sock'[c] \in tcp_sock /\ FileLen \in Nat
  BY <1>1, SockType, ProtocolAssumption DEF SocketStep
<1>3. sock[c].snd_nxt \in Nat /\ sock'[c].snd_nxt \in Nat
      /\ sock[c].snd_nxt <= sock'[c].snd_nxt
  BY <1>1, <1>2 DEF SocketStep, Advances, tcp_sock
<1>4. \/ cpc[c] = "write" /\ maxSend'[c] = maxSend[c]
      \/ maxSend'[c] = sock[c].snd_nxt + FileLen
  <2>1. CASE cpc' = cpc /\ maxSend' = maxSend  BY <2>1
  <2>2. ASSUME NEW d \in Clients, Client(d)
        PROVE  \/ cpc[c] = "write" /\ maxSend'[c] = maxSend[c]
               \/ maxSend'[c] = sock[c].snd_nxt + FileLen
    BY <2>2 DEF Client, ClientConnect, ClientConnected, ClientWriteBegin,
                ClientWrite, ClientWritten, ClientClose, ClientClosed, apps, TypeOK
  <2>3. CASE UNCHANGED vars  BY <2>1, <2>3 DEF vars, apps
  <2>4. CASE ServerApp
    BY <2>1, <2>4 DEF ServerApp, ServerListen, ServerAccept, ServerReadSleep,
                      ServerReadWake, ServerRead, ServerClose
  <2>5. ASSUME NEW h \in Hosts, Receive(h) PROVE cpc' = cpc /\ maxSend' = maxSend
    BY <2>5 DEF Receive, ReceiveAt, ReceiveNoSocket, ReceiveSYN1, ReceiveSYN4,
                ReceiveFIN1, ReceiveData, ReceiveFIN2, ReceiveFIN3, ReceiveFIN4,
                ReceiveOnlyAck, ReceiveSYN3, ReceiveBeforeMove, ReceiveSYN4NoChild,
                Handle, apps
  <2>6. ASSUME NEW h \in Hosts, Network(h) PROVE cpc' = cpc /\ maxSend' = maxSend
    BY <2>6 DEF Network, Lose, Duplicate, apps
  <2>7. ASSUME NEW s \in Sock, AckTimeOut(s) \/ TimeWaitOver(s)
        PROVE  cpc' = cpc /\ maxSend' = maxSend
    BY <2>7 DEF AckTimeOut, TimeWaitOver, apps
  <2> QED  BY <2>1, <2>2, <2>3, <2>4, <2>5, <2>6, <2>7 DEF Next
<1>5. cpc[c] = "write" => maxSend[c] <= sock[c].snd_nxt + FileLen
  BY DEF WritesItsFile
<1>6. maxSend[c] \in Nat  BY DEF TypeOK
<1> QED  BY <1>2, <1>3, <1>4, <1>5, <1>6

LEMMA TypeStep ==
  ASSUME TypeOK, WritesItsFile, [Next]_vars
  PROVE  TypeOK' /\ WritesItsFile'
<1>1. SocketStep  BY NextSocketStep
<1>2. AppsOK'  BY AppsStep
<1>3. WritesItsFile'  BY <1>1, WritesStep
<1> QED  BY <1>1, <1>2, <1>3 DEF SocketStep, Wires, AppsOK, TypeOK

\* Every variable keeps its type, on any network and with any timing; and
\* tcp_sock_write never reaches outside its buffer (it needs WritesItsFile).
THEOREM TypeCorrect == Spec => [](TypeOK /\ WritesItsFile)
<1>1. Init => TypeOK /\ WritesItsFile  BY TypeInit
<1>2. (TypeOK /\ WritesItsFile) /\ [Next]_vars => (TypeOK /\ WritesItsFile)'
  BY TypeStep
<1> QED  BY <1>1, <1>2, PTL DEF Spec

-----------------------------------------------------------------------------
(* The timer and the send buffer.                                          *)

AllTimed == \A s \in Sock : Timed(sock[s])

\* The step that TimerMatchesSendBuffer allows
TimersStep ==
  \A s \in Sock :
    \/ TimerConsistent(sock'[s])
    \/ Unset(sock'[s]) /\ (Unset(sock[s]) \/ s \in synRcvdList' \ synRcvdList)

LEMMA TimedInit == ASSUME Init PROVE AllTimed
<1> SUFFICES ASSUME NEW s \in Sock PROVE Timed(sock[s])
  BY DEF AllTimed
<1>1. PICK una \in [Hosts -> Garbage], nxt \in [Hosts -> Garbage],
           timing \in [Hosts -> GarbageTiming] :
        sock = [r \in Sock |->
                  IF r \in Hosts
                  THEN alloc_tcp_sock(r, IF r = Server THEN NoPeer ELSE Server,
                                      una[r], nxt[r], timing[r])
                  ELSE alloc_tcp_sock(Server, NoPeer, 0, 0, FALSE)]
  BY DEF Init
<1>2. sock[s].timingOpen \in BOOLEAN /\ sock[s].sendBuffer = <<>>
  BY <1>1, ProtocolAssumption DEF alloc_tcp_sock
<1> QED  BY <1>2 DEF Timed, TimerConsistent, Unset

LEMMA TimedNext ==
  ASSUME TypeOK, WritesItsFile, AllTimed, [Next]_vars
  PROVE  TimersStep /\ AllTimed'
<1>1. SocketStep  BY NextSocketStep
<1>2. ASSUME NEW s \in Sock
      PROVE  \/ TimerConsistent(sock'[s])
             \/ Unset(sock'[s]) /\ (Unset(sock[s]) \/ s \in synRcvdList' \ synRcvdList)
  <2>1. Timed(sock[s])  BY DEF AllTimed
  <2>2. sock'[s].timingOpen \in BOOLEAN  BY <1>1 DEF SocketStep, tcp_sock
  <2>3. CASE Advances(sock[s], sock'[s])
    BY <2>1, <2>3 DEF Advances, TimerFollows
  <2>4. CASE Allocated(s)
    BY <2>2, <2>4 DEF Allocated, FreeChildren, TimerConsistent, Unset
  <2>5. CASE Adopted(s)
    BY <2>1, <2>5 DEF Adopted, Timed, TimerConsistent, Unset
  <2> QED  BY <1>1, <2>3, <2>4, <2>5 DEF SocketStep
<1>3. AllTimed'  BY <1>2 DEF AllTimed, Timed
<1> QED  BY <1>2, <1>3 DEF TimersStep

\* A logged segment is timed, whatever `new' leaves in timingOpen.
LEMMA TimedCorrect == Spec => []AllTimed
<1>1. TypeOK /\ WritesItsFile /\ AllTimed /\ [Next]_vars => AllTimed'
  BY TimedNext
<1>2. Init => AllTimed  BY TimedInit
<1> QED  BY <1>1, <1>2, TypeCorrect, PTL DEF Spec

\* No handler, timer or application ends with timingOpen and sendBuffer apart:
\* a socket has a timer without a segment only as alloc_tcp_sock left it, until
\* it sends for the first time, and never a segment without a timer.  This is
\* so whatever `new' leaves in timingOpen.
THEOREM TimerCorrect == Spec => TimerMatchesSendBuffer
<1>1. TypeOK /\ WritesItsFile /\ AllTimed /\ [Next]_vars => [TimersStep]_vars
  BY TimedNext
<1>2. Spec => [][TimersStep]_vars
  BY <1>1, TypeCorrect, TimedCorrect, PTL DEF Spec
<1> QED  BY <1>2 DEF TimersStep, TimerMatchesSendBuffer

\* How the tables and the server application change in one step
LEMMA TablesStep ==
  ASSUME TypeOK, ChildrenApart, [Next]_vars
  PROVE  /\ synRcvdList' \cap (establishedTable' \cup acceptList') = {}
         /\ spc' # "done" => csk' \notin synRcvdList'
         /\ \A k \in synRcvdList' :
              \/ k \in synRcvdList /\ sock'[k] = sock[k]
              \/ sock'[k].sendBuffer = <<>>
<1> DEFINE Goal == /\ synRcvdList' \cap (establishedTable' \cup acceptList') = {}
                   /\ spc' # "done" => csk' \notin synRcvdList'
                   /\ \A k \in synRcvdList' :
                        \/ k \in synRcvdList /\ sock'[k] = sock[k]
                        \/ sock'[k].sendBuffer = <<>>
<1>1. /\ synRcvdList \cap (establishedTable \cup acceptList) = {}
      /\ spc # "done" => csk \notin synRcvdList
      /\ synRcvdList \subseteq Children /\ listenTable \subseteq Hosts
      /\ Children \cap Hosts = {} /\ Children \subseteq Sock
      /\ sock \in [Sock -> tcp_sock]
  BY ProtocolAssumption, HostsAreSockets DEF TypeOK, ChildrenApart

\* A step on a socket that is not in synRcvdList, with no new entry there
<1>2. ASSUME NEW s \in Sock \ synRcvdList,
             \A r \in Sock : r # s => sock'[r] = sock[r],
             synRcvdList' = synRcvdList,
             establishedTable' \ establishedTable \subseteq Hosts,
             acceptList' \subseteq acceptList,
             spc' # "done" => spc # "done" /\ (csk' = csk \/ csk' \in acceptList)
      PROVE  Goal
  BY <1>1, <1>2
<1>3. ASSUME NEW s \in Sock, NEW result, NEW flight, Commit(s, result, flight)
      PROVE  \A r \in Sock : r # s => sock'[r] = sock[r]
  BY <1>1, <1>3 DEF Commit
<1>4. ASSUME NEW c \in Clients, Client(c) PROVE Goal
  <2>1. c \in Sock \ synRcvdList /\ c \in Hosts
    BY <1>1, HostsAreSockets DEF Hosts
  <2>2. \A r \in Sock : r # c => sock'[r] = sock[r]
    BY <1>3, <1>4, <2>1 DEF Client, ClientConnect, ClientConnected, ClientWriteBegin,
         ClientWrite, ClientWritten, ClientClose, ClientClosed
  <2>3. /\ synRcvdList' = synRcvdList /\ acceptList' = acceptList
        /\ establishedTable' \ establishedTable \subseteq {c}
        /\ spc' = spc /\ csk' = csk
    BY <1>4 DEF Client, ClientConnect, ClientConnected, ClientWriteBegin,
         ClientWrite, ClientWritten, ClientClose, ClientClosed, tables, apps
  <2> HIDE DEF Goal
  <2> QED  BY <1>2, <2>1, <2>2, <2>3
<1>5. ASSUME ServerApp PROVE Goal
  <2>1. Server \in Sock \ synRcvdList
    BY <1>1, HostsAreSockets DEF Hosts
  <2>2. ASSUME ServerListen PROVE Goal
    <3>1. /\ \A r \in Sock : r # Server => sock'[r] = sock[r]
          /\ synRcvdList' = synRcvdList /\ acceptList' = acceptList
          /\ establishedTable' = establishedTable /\ csk' = csk /\ spc # "done"
      BY <1>1, <2>2 DEF ServerListen
    <3> HIDE DEF Goal
    <3> QED  BY <1>2, <2>1, <3>1
  <2>3. ASSUME NEW k \in Children, ServerAccept(k) PROVE Goal
    <3>1. /\ sock' = sock /\ k \in acceptList /\ csk' = k /\ spc # "done"
          /\ synRcvdList' = synRcvdList /\ acceptList' \subseteq acceptList
          /\ establishedTable' = establishedTable
      BY <2>3 DEF ServerAccept, CanAccept
    <3> HIDE DEF Goal
    <3> QED  BY <1>2, <2>1, <3>1
  <2>4. ASSUME ServerReadSleep \/ ServerReadWake PROVE Goal
    <3>1. /\ sock' = sock /\ csk' = csk /\ spc # "done"
          /\ synRcvdList' = synRcvdList /\ acceptList' = acceptList
          /\ establishedTable' = establishedTable
      BY <2>4 DEF ServerReadSleep, ServerReadWake, tables
    <3> HIDE DEF Goal
    <3> QED  BY <1>2, <2>1, <3>1
  <2>5. ASSUME ServerRead PROVE Goal
    <3>1. csk \in Sock \ synRcvdList
      BY <1>1, <2>5 DEF ServerRead, TypeOK
    <3>2. /\ \A r \in Sock : r # csk => sock'[r] = sock[r]
          /\ csk' = csk /\ spc # "done"
          /\ synRcvdList' = synRcvdList /\ acceptList' = acceptList
          /\ establishedTable' = establishedTable
      BY <1>3, <2>5, <3>1 DEF ServerRead, tables
    <3> HIDE DEF Goal
    <3> QED  BY <1>2, <3>1, <3>2
  <2>6. ASSUME ServerClose PROVE Goal
    <3>1. /\ sock' = sock /\ spc' = "done"
          /\ synRcvdList' = synRcvdList /\ acceptList' = acceptList
          /\ establishedTable' \subseteq establishedTable
      BY <2>6 DEF ServerClose
    <3> HIDE DEF Goal
    <3> QED  BY <1>2, <2>1, <3>1
  <2> HIDE DEF Goal
  <2> QED  BY <1>5, <2>2, <2>3, <2>4, <2>5, <2>6 DEF ServerApp
<1>6. ASSUME UNCHANGED <<tables, spc, csk>>,
             \E s \in Sock \ synRcvdList : \A r \in Sock : r # s => sock'[r] = sock[r]
      PROVE  Goal
  <2>1. /\ synRcvdList' = synRcvdList /\ acceptList' = acceptList
        /\ establishedTable' = establishedTable /\ spc' = spc /\ csk' = csk
    BY <1>6 DEF tables
  <2> HIDE DEF Goal
  <2> QED  BY <1>2, <1>6, <2>1
<1>7. ASSUME NEW h \in Hosts, Receive(h) PROVE Goal
  <2>1. PICK i \in DOMAIN net[h] : ReceiveAt(h, i)  BY <1>7 DEF Receive
  <2>2. ASSUME NEW s \in Sock, ToEstablished(h, i, s) \/ ToListener(h, i, s)
        PROVE  s \in Sock \ synRcvdList
    BY <1>1, <2>2 DEF ToEstablished, ToListener, Established, Listener
  <2>3. ASSUME NEW s \in Sock, NEW k \in Children, ReceiveSYN1(h, i, s, k) PROVE Goal
    <3>1. s \notin synRcvdList  BY <2>2, <2>3 DEF ReceiveSYN1
    <3>2. /\ k \notin establishedTable \cup synRcvdList \cup acceptList
          /\ spc # "done" => k # csk
      BY <2>3 DEF ReceiveSYN1, FreeChildren
    <3>3. /\ synRcvdList' \subseteq synRcvdList \cup {k}
          /\ acceptList' = acceptList /\ establishedTable' = establishedTable
          /\ spc' = spc /\ csk' = csk
      BY <2>3 DEF ReceiveSYN1, apps
    <3>4. /\ \A r \in Sock : r # s /\ r # k => sock'[r] = sock[r]
          /\ k \in synRcvdList' => sock'[k].sendBuffer = <<>>
      <4>1. net[h][i].src \in Hosts  BY WithoutType DEF Segment
      <4>2. PICK child \in Fresh(Server, net[h][i].src),
                 c \in {handleSYN1(Acked(h, i, s), net[h][i])} :
              IF c.ok
              THEN /\ sock' = [sock EXCEPT ![s] = c.sk, ![k] = child]
                   /\ synRcvdList' = synRcvdList \cup {k}
              ELSE UNCHANGED <<sock, synRcvdList>>
        BY <2>3 DEF ReceiveSYN1
      <4>3. child.sendBuffer = <<>>  BY <4>1, FreshType
      <4>4. CASE c.ok  BY <1>1, <4>2, <4>3, <4>4
      <4>5. CASE ~c.ok  BY <3>2, <4>2, <4>5
      <4> QED  BY <4>4, <4>5
    <3> QED  BY <1>1, <3>1, <3>2, <3>3, <3>4
  <2>4. ASSUME NEW s \in Sock, NEW k \in Children, ReceiveSYN4(h, i, s, k) PROVE Goal
    <3>1. s \notin synRcvdList  BY <2>2, <2>4 DEF ReceiveSYN4
    <3>2. \/ UNCHANGED <<sock, synRcvdList, acceptList, establishedTable>>
          \/ /\ synRcvdList' = synRcvdList \ {k}
             /\ acceptList' \subseteq acceptList \cup {k}
             /\ establishedTable' = establishedTable \cup {k}
             /\ \A r \in Sock : r # s /\ r # k => sock'[r] = sock[r]
      BY <1>1, <2>4 DEF ReceiveSYN4
    <3>3. k \in synRcvdList /\ spc' = spc /\ csk' = csk
      BY <2>4 DEF ReceiveSYN4, SynRcvd, apps
    <3> QED  BY <1>1, <3>1, <3>2, <3>3
  <2> HIDE DEF Goal
  <2>5. ASSUME NEW s \in Sock,
               \/ ReceiveFIN1(h, i, s) \/ ReceiveData(h, i, s)
               \/ ReceiveFIN2(h, i, s) \/ ReceiveFIN3(h, i, s) \/ ReceiveFIN4(h, i, s)
               \/ ReceiveOnlyAck(h, i, s)
               \/ ReceiveSYN3(h, i, s) \/ ReceiveBeforeMove(h, i, s)
        PROVE  Goal
    <3>1. s \in Sock \ synRcvdList
      BY <2>2, <2>5 DEF ReceiveFIN1, ReceiveData, ReceiveFIN2, ReceiveFIN3,
           ReceiveFIN4, ReceiveOnlyAck, ReceiveSYN3, ReceiveBeforeMove
    <3>2. UNCHANGED <<tables, spc, csk>> /\ \E d : Commit(s, d, Without(h, i))
      BY <2>5 DEF ReceiveFIN1, ReceiveData, ReceiveFIN2, ReceiveFIN3, ReceiveFIN4,
           ReceiveOnlyAck, ReceiveSYN3, ReceiveBeforeMove, Handle, apps
    <3>3. \A r \in Sock : r # s => sock'[r] = sock[r]  BY <1>3, <3>2
    <3> QED  BY <1>6, <3>1, <3>2, <3>3
  <2>6. CASE ReceiveNoSocket(h, i) \/ \E s \in Sock : ReceiveSYN4NoChild(h, i, s)
    <3>1. Server \in Sock \ synRcvdList  BY <1>1, HostsAreSockets DEF Hosts
    <3>2. UNCHANGED <<tables, spc, csk>> /\ sock' = sock
      BY <2>6 DEF ReceiveNoSocket, ReceiveSYN4NoChild, apps
    <3> QED  BY <1>6, <3>1, <3>2
  <2> QED  BY <2>1, <2>3, <2>4, <2>5, <2>6 DEF ReceiveAt
<1>8. ASSUME NEW s \in Sock, AckTimeOut(s) \/ TimeWaitOver(s) PROVE Goal
  <2>1. s \in Sock \ synRcvdList
    BY <1>1, <1>8 DEF AckTimeOut, TimeWaitOver
  <2>2. \A r \in Sock : r # s => sock'[r] = sock[r]
    BY <1>1, <1>3, <1>8 DEF AckTimeOut, TimeWaitOver
  <2>3. UNCHANGED <<tables, spc, csk>>
    BY <1>8 DEF AckTimeOut, TimeWaitOver, apps
  <2> HIDE DEF Goal
  <2> QED  BY <1>6, <2>1, <2>2, <2>3
<1>9. ASSUME UNCHANGED vars \/ \E h \in Hosts : Network(h)
      PROVE  Goal
  <2>1. Server \in Sock \ synRcvdList  BY <1>1, HostsAreSockets DEF Hosts
  <2>2. UNCHANGED <<tables, spc, csk>> /\ sock' = sock
    BY <1>9 DEF vars, Network, Lose, Duplicate, apps
  <2> HIDE DEF Goal
  <2> QED  BY <1>6, <2>1, <2>2
<1> HIDE DEF Goal
<1>10. Goal  BY <1>4, <1>5, <1>7, <1>8, <1>9 DEF Next
<1> QED  BY <1>10 DEF Goal

-----------------------------------------------------------------------------

\* No thread ever holds a child twice: what waits for its handshake in
\* synRcvdList is neither established, nor to be accepted, nor being read, so
\* allocating or adopting it disturbs no other connection.
THEOREM ChildrenCorrect == Spec => []ChildrenApart
<1> DEFINE Inv == TypeOK /\ WritesItsFile /\ ChildrenApart
<1>1. Init => Inv
  BY TypeInit DEF Init, ChildrenApart
<1>2. Inv /\ [Next]_vars => Inv'
  <2> SUFFICES ASSUME Inv, [Next]_vars PROVE Inv'
    OBVIOUS
  <2>1. TypeOK' /\ WritesItsFile'  BY TypeStep
  <2>2. ChildrenApart'  BY TablesStep DEF ChildrenApart
  <2> QED  BY <2>1, <2>2
<1>3. Inv => ChildrenApart  OBVIOUS
<1> QED  BY <1>1, <1>2, <1>3, PTL DEF Spec

LEMMA UnbrokenNext ==
  ASSUME TypeOK, WritesItsFile, ChildrenApart, SendBuffersUnbroken, [Next]_vars
  PROVE  SendBuffersUnbroken'
<1>1. SocketStep  BY NextSocketStep
<1>2. ASSUME NEW s \in Sock PROVE SendBufferUnbroken(sock'[s])
  <2>1. CASE Advances(sock[s], sock'[s])
    BY <2>1 DEF Advances, SendBuffersUnbroken
  <2>2. CASE Allocated(s) \/ Adopted(s)
    <3>1. sock'[s].sendBuffer = <<>>
      BY <2>2 DEF Allocated, Adopted, ChildrenApart
    <3> QED  BY <3>1 DEF SendBufferUnbroken
  <2> QED  BY <1>1, <2>1, <2>2 DEF SocketStep
<1> QED  BY <1>2 DEF SendBuffersUnbroken

LEMMA UnbrokenInit == ASSUME Init PROVE SendBuffersUnbroken
<1>1. \A s \in Sock : sock[s].sendBuffer = <<>>  BY DEF Init, alloc_tcp_sock
<1> QED  BY <1>1 DEF SendBuffersUnbroken, SendBufferUnbroken

\* Every send buffer covers its sequence numbers without a gap, on any
\* network: what a retransmission sends again is what the peer still lacks.
THEOREM SendBuffersCorrect == Spec => []SendBuffersUnbroken
<1> DEFINE Inv == TypeOK /\ WritesItsFile /\ ChildrenApart /\ SendBuffersUnbroken
<1>1. Init => Inv
  BY TypeInit, UnbrokenInit DEF Init, ChildrenApart
<1>2. Inv /\ [Next]_vars => Inv'
  <2> SUFFICES ASSUME Inv, [Next]_vars PROVE Inv'
    OBVIOUS
  <2>1. TypeOK' /\ WritesItsFile'  BY TypeStep
  <2>2. ChildrenApart'  BY TablesStep DEF ChildrenApart
  <2> QED  BY <2>1, <2>2, UnbrokenNext
<1>3. Inv => SendBuffersUnbroken  OBVIOUS
<1> QED  BY <1>1, <1>2, <1>3, PTL DEF Spec

-----------------------------------------------------------------------------
(* The receive ring and the send buffer.                                   *)

\* A downward closed part of an interval is its beginning.
LEMMA InitialPart ==
  ASSUME NEW a \in Nat, NEW n \in Nat, NEW P \in SUBSET (a .. a + n - 1),
         \A i \in P : \A j \in a .. i : j \in P
  PROVE  /\ Cardinality(P) \in 0 .. n
         /\ \A j \in a .. a + Cardinality(P) - 1 : j \in P
<1>1. \A m \in Nat : IsFiniteSet(a .. a + m - 1) /\ Cardinality(a .. a + m - 1) = m
  <2> TAKE m \in Nat
  <2>1. a + m - 1 \in Int /\ a \in Int  OBVIOUS
  <2>2. /\ IsFiniteSet(a .. a + m - 1)
        /\ Cardinality(a .. a + m - 1) = IF a > a + m - 1 THEN 0 ELSE (a + m - 1) - a + 1
    BY <2>1, FS_Interval
  <2> QED  BY <2>2
<1>2. IsFiniteSet(P) /\ Cardinality(P) <= n
  <2> DEFINE S == a .. a + n - 1
  <2>1. IsFiniteSet(S) /\ Cardinality(S) = n /\ P \in SUBSET S  BY <1>1
  <2> HIDE DEF S
  <2>2. IsFiniteSet(P) /\ Cardinality(P) <= Cardinality(S)  BY <2>1, FS_Subset
  <2> QED  BY <2>1, <2>2
<1>3. Cardinality(P) \in Nat  BY <1>2, FS_CardinalityType
<1>4. ASSUME NEW j \in a .. a + Cardinality(P) - 1, j \notin P PROVE FALSE
  <2>1. j - a \in Nat /\ a + (j - a) - 1 = j - 1 /\ j - a < Cardinality(P)  BY <1>3
  <2>2. P \subseteq a .. j - 1
    <3> SUFFICES ASSUME NEW i \in P PROVE i \in a .. j - 1  OBVIOUS
    <3>1. i \in a .. a + n - 1  OBVIOUS
    <3>2. CASE j <= i
      <4>1. j \in a .. i  BY <3>1, <3>2
      <4> QED  BY <1>4, <4>1
    <3> QED  BY <3>1, <3>2
  <2>3. IsFiniteSet(a .. j - 1) /\ Cardinality(a .. j - 1) = j - a  BY <1>1, <2>1
  <2>4. Cardinality(P) <= j - a
    <3> DEFINE S == a .. j - 1
    <3>1. IsFiniteSet(S) /\ Cardinality(S) = j - a /\ P \in SUBSET S  BY <2>2, <2>3
    <3> HIDE DEF S
    <3>2. Cardinality(P) <= Cardinality(S)  BY <3>1, FS_Subset
    <3> QED  BY <3>1, <3>2
  <2> QED  BY <1>3, <2>1, <2>4
<1> QED  BY <1>2, <1>3, <1>4

LEMMA RingSize == RINGBUFFER_SIZE \in Nat \ {0} /\ UINT16 \in Nat \ {0}
                  /\ UINT16 <= RINGBUFFER_SIZE /\ Slot = 0 .. RINGBUFFER_SIZE - 1
  BY SlotFacts, CongestionAssumption, RingAssumption DEF Slot

\* Where tail stops: over filled slots only.
LEMMA ContiguousFilled ==
  ASSUME NEW buf, NEW tail \in Nat
  PROVE  /\ Contiguous(buf, tail) \in 0 .. RINGBUFFER_SIZE
         /\ \A j \in 0 .. Contiguous(buf, tail) - 1 :
              buf[(tail + j) % RINGBUFFER_SIZE] # NoByte
<1> DEFINE P == {k \in Slot :
                   \A j \in 0 .. k : buf[(tail + j) % RINGBUFFER_SIZE] # NoByte}
<1>1. P \in SUBSET (0 .. 0 + RINGBUFFER_SIZE - 1)  BY RingSize
<1>2. \A i \in P : \A j \in 0 .. i : j \in P
  <2> SUFFICES ASSUME NEW i \in P, NEW j \in 0 .. i PROVE j \in P
    OBVIOUS
  <2>1. i \in Slot /\ \A m \in 0 .. i : buf[(tail + m) % RINGBUFFER_SIZE] # NoByte
    OBVIOUS
  <2>2. j \in Slot /\ \A m \in 0 .. j : m \in 0 .. i
    BY <2>1, RingSize
  <2> QED  BY <2>1, <2>2
<1>3. \A i \in P : buf[(tail + i) % RINGBUFFER_SIZE] # NoByte  BY RingSize
<1> HIDE DEF P
<1>4. /\ Cardinality(P) \in 0 .. RINGBUFFER_SIZE
      /\ \A j \in 0 .. 0 + Cardinality(P) - 1 : j \in P
  <2>1. 0 \in Nat /\ RINGBUFFER_SIZE \in Nat  BY RingSize
  <2> QED  BY <1>1, <1>2, <2>1, InitialPart
<1>5. Contiguous(buf, tail) = Cardinality(P)  BY DEF Contiguous, P
<1> QED  BY <1>3, <1>4, <1>5

\* The last entry that an acknowledgement pops is covered by it.
LEMMA PopCovered ==
  ASSUME NEW b \in Seq(TCPPacketInfo_c), NEW ack \in Nat, PopCount(b, ack) > 0
  PROVE  /\ PopCount(b, ack) \in DOMAIN b
         /\ Covered(b[PopCount(b, ack)], ack)
<1> DEFINE P == {i \in DOMAIN b : \A j \in 1 .. i : Covered(b[j], ack)}
<1>1. Len(b) \in Nat /\ DOMAIN b = 1 .. Len(b)  OBVIOUS
<1>2. P \in SUBSET (1 .. 1 + Len(b) - 1)  BY <1>1
<1>3. \A i \in P : \A j \in 1 .. i : j \in P  BY <1>1
<1>4. \A i \in P : i \in DOMAIN b /\ Covered(b[i], ack)  BY <1>1
<1> HIDE DEF P
<1>5. /\ Cardinality(P) \in 0 .. Len(b)
      /\ \A j \in 1 .. 1 + Cardinality(P) - 1 : j \in P
  BY <1>1, <1>2, <1>3, InitialPart
<1>6. PopCount(b, ack) = Cardinality(P)  BY DEF PopCount, P
<1>7. Cardinality(P) \in P  BY <1>5, <1>6
<1> QED  BY <1>4, <1>6, <1>7

\* Two positions of one lap that share a slot are the same.
LEMMA OneLap ==
  ASSUME NEW h \in Nat, NEW m \in h .. h + RINGBUFFER_SIZE - 1,
         NEW n \in h .. h + RINGBUFFER_SIZE - 1,
         m % RINGBUFFER_SIZE = n % RINGBUFFER_SIZE
  PROVE  m = n
<1>1. m \in Nat /\ n \in Nat /\ m < n + RINGBUFFER_SIZE /\ n < m + RINGBUFFER_SIZE
  BY RingSize
<1> QED  BY <1>1, RingSize, SameRemainder

\* What handleSaveData leaves in the ring, if the segment is within one lap
LEMMA WrittenRing ==
  ASSUME NEW sk \in tcp_sock, NEW p \in Segment,
         p.data # <<>> => p.seq + Len(p.data) <= sk.head + RINGBUFFER_SIZE,
         sk.head <= sk.tail,
         NEW n \in sk.head .. sk.head + RINGBUFFER_SIZE - 1
  PROVE  writeToBuffer(sk, p)[n % RINGBUFFER_SIZE] =
           IF n \in Stored(sk, p) THEN p.data[n - p.seq + 1]
           ELSE sk.buf[n % RINGBUFFER_SIZE]
<1>1. sk.head \in Nat /\ sk.tail \in Nat /\ p.seq \in Nat /\ p.data \in Seq(Byte)
      /\ Len(p.data) \in Nat
  BY DEF tcp_sock, Segment
<1>2. \A m \in Stored(sk, p) : m \in sk.head .. sk.head + RINGBUFFER_SIZE - 1
  <2> SUFFICES ASSUME NEW m \in Stored(sk, p)
               PROVE  m \in sk.head .. sk.head + RINGBUFFER_SIZE - 1
    OBVIOUS
  <2>1. m \in p.seq .. p.seq + Len(p.data) - 1 /\ m >= sk.tail  BY DEF Stored
  <2>2. p.data # <<>>
    <3>1. CASE p.data = <<>>
      <4>1. Len(p.data) = 0  BY <3>1
      <4> QED  BY <1>1, <2>1, <4>1
    <3> QED  BY <3>1
  <2>3. p.seq + Len(p.data) <= sk.head + RINGBUFFER_SIZE  BY <2>2
  <2> DEFINE z == Len(p.data)
  <2>4. z \in Nat /\ m \in p.seq .. p.seq + z - 1 /\ p.seq + z <= sk.head + RINGBUFFER_SIZE
    BY <1>1, <2>1, <2>3
  <2> HIDE DEF z
  <2>5. m <= p.seq + z - 1 /\ m \in Int  BY <1>1, <2>4
  <2>6. m <= sk.head + RINGBUFFER_SIZE - 1  BY <1>1, <2>4, <2>5, RingSize
  <2>7. sk.head <= m  BY <1>1, <2>1, <2>5
  <2> QED  BY <1>1, <2>5, <2>6, <2>7, RingSize
<1>3. n % RINGBUFFER_SIZE \in Slot  
  <2>1. n \in Nat  BY <1>1
  <2> QED  BY <2>1, RingSize, DivIs
<1>4. \A m \in Stored(sk, p) : m % RINGBUFFER_SIZE = n % RINGBUFFER_SIZE => m = n
  BY <1>1, <1>2, OneLap
<1>5. CASE n \in Stored(sk, p)
  <2> DEFINE c == CHOOSE m \in Stored(sk, p) : m % RINGBUFFER_SIZE = n % RINGBUFFER_SIZE
  <2>1. c \in Stored(sk, p) /\ c % RINGBUFFER_SIZE = n % RINGBUFFER_SIZE  BY <1>5
  <2>2. c = n  BY <1>4, <2>1
  <2>3. writeToBuffer(sk, p)[n % RINGBUFFER_SIZE] = p.data[c - p.seq + 1]
    BY <1>3, <1>5 DEF writeToBuffer
  <2> QED  BY <1>5, <2>2, <2>3
<1>6. CASE n \notin Stored(sk, p)
  BY <1>3, <1>4, <1>6 DEF writeToBuffer
<1> QED  BY <1>5, <1>6

\* What tcp_sock_read leaves in it
LEMMA EmptiedRing ==
  ASSUME NEW sk \in tcp_sock, sk.head <= sk.tail, sk.tail <= sk.head + RINGBUFFER_SIZE,
         NEW n \in sk.tail .. sk.tail + RINGBUFFER_SIZE - 1
  PROVE  Emptied(sk)[n % RINGBUFFER_SIZE] =
           IF n < sk.head + RINGBUFFER_SIZE THEN sk.buf[n % RINGBUFFER_SIZE] ELSE NoByte
<1>1. sk.head \in Nat /\ sk.tail \in Nat /\ n \in Nat  BY DEF tcp_sock
<1>2. n % RINGBUFFER_SIZE \in Slot  BY <1>1, RingSize, DivIs
<1>3. CASE n < sk.head + RINGBUFFER_SIZE
  <2>1. \A m \in sk.head .. sk.tail - 1 : m % RINGBUFFER_SIZE # n % RINGBUFFER_SIZE
    <3> SUFFICES ASSUME NEW m \in sk.head .. sk.tail - 1,
                        m % RINGBUFFER_SIZE = n % RINGBUFFER_SIZE
                 PROVE  FALSE
      OBVIOUS
    <3>1. m \in sk.head .. sk.head + RINGBUFFER_SIZE - 1  BY <1>1, RingSize
    <3>3. n \in sk.head .. sk.head + RINGBUFFER_SIZE - 1
      BY <1>1, <1>3, RingSize
    <3>2. m = n  BY <1>1, <3>1, <3>3, OneLap
    <3> QED  BY <1>1, <3>2
  <2> QED  BY <1>2, <1>3, <2>1 DEF Emptied
<1>4. CASE ~(n < sk.head + RINGBUFFER_SIZE)
  <2> DEFINE m == n - RINGBUFFER_SIZE
  <2>1. m \in sk.head .. sk.tail - 1 /\ m \in Nat /\ m + RINGBUFFER_SIZE = n
    BY <1>1, <1>4, RingSize
  <2>2. m % RINGBUFFER_SIZE = n % RINGBUFFER_SIZE
    <3> HIDE DEF m
    <3>1. (m + RINGBUFFER_SIZE) % RINGBUFFER_SIZE = m % RINGBUFFER_SIZE
      BY <2>1, RingSize, NextLap
    <3> QED  BY <2>1, <3>1
  <2> HIDE DEF m
  <2> QED  BY <1>2, <1>4, <2>1, <2>2 DEF Emptied
<1> QED  BY <1>3, <1>4

-----------------------------------------------------------------------------
(* The receive ring and the bytes of one client.                           *)

Window == RINGBUFFER_SIZE % UINT16

\* Segment e carries bytes of client c's file, whose positions are base on,
\* from before end, or nothing but flags; a SYN comes just before the file.
Carried(e, c, base, end) ==
  /\ base <= e.seq + 1
  /\ "SYN" \in e.flags => e.seq + 1 = base /\ e.data = <<>>
  /\ e.data # <<>> => base <= e.seq /\ e.seq + Len(e.data) <= end
  /\ \A j \in DOMAIN e.data : e.data[j] = <<c, e.seq + j - base>>

\* The ring is filled up to tail, and every filled slot holds the byte of c's
\* file at its position.
RingHolds(sk, c, base, end) ==
  /\ base - 1 <= sk.head /\ sk.head <= sk.tail
  /\ \A n \in sk.head .. sk.head + RINGBUFFER_SIZE - 1 :
       /\ n < sk.tail => sk.buf[n % RINGBUFFER_SIZE] # NoByte
       /\ sk.buf[n % RINGBUFFER_SIZE] # NoByte =>
            /\ base <= n /\ n < end
            /\ sk.buf[n % RINGBUFFER_SIZE] = <<c, n - base + 1>>

LEMMA WindowSize == Window \in 0 .. UINT16 - 1 /\ Window < RINGBUFFER_SIZE
<1>1. RINGBUFFER_SIZE % UINT16 \in 0 .. UINT16 - 1  BY RingSize, DivIs
<1> QED  BY <1>1, RingSize DEF Window

\* The ring is never full: the positions in use end within the largest window
\* that was ever advertised, and what is advertised next does too.
LEMMA RingRoom ==
  ASSUME NEW sk \in tcp_sock, NEW c, NEW base \in Int, NEW end \in Nat,
         RingHolds(sk, c, base, end),
         end <= base + Window \/ end <= sk.head + Window
  PROVE  /\ sk.tail <= sk.head + Window
         /\ sk.tail + Advertised(sk) <= sk.head + Window
         /\ end <= sk.head + RINGBUFFER_SIZE
<1>1. sk.head \in Nat /\ sk.tail \in Nat /\ Window \in Nat /\ UINT16 \in Nat \ {0}
      /\ RINGBUFFER_SIZE \in Nat \ {0}
      /\ Window <= UINT16 - 1 /\ UINT16 <= RINGBUFFER_SIZE
  BY WindowSize, RingSize DEF tcp_sock
<1>2. base - 1 <= sk.head /\ sk.head <= sk.tail  BY DEF RingHolds
<1>3. \A n \in sk.head .. sk.head + RINGBUFFER_SIZE - 1 :
        n < sk.tail => base <= n /\ n < end
  BY DEF RingHolds
<1>4. sk.tail <= sk.head + Window
  <2> SUFFICES ASSUME sk.head + Window < sk.tail PROVE FALSE
    BY <1>1
  <2>1. sk.head \in sk.head .. sk.head + RINGBUFFER_SIZE - 1
        /\ sk.head + Window \in sk.head .. sk.head + RINGBUFFER_SIZE - 1
        /\ sk.head < sk.tail
    BY <1>1
  <2>2. base <= sk.head /\ sk.head + Window < end  BY <1>3, <2>1
  <2> QED  BY <1>1, <2>2
<1>5. sk.tail + Advertised(sk) <= sk.head + Window
  <2> DEFINE u == sk.tail - sk.head
  <2>1. u \in Nat /\ u <= RINGBUFFER_SIZE % UINT16 /\ sk.tail = sk.head + u
    BY <1>1, <1>2, <1>4 DEF Window
  <2> HIDE DEF u
  <2>2. (RINGBUFFER_SIZE - u) % UINT16 = (RINGBUFFER_SIZE % UINT16) - u
    <3>1. UINT16 \in Nat \ {0} /\ RINGBUFFER_SIZE \in Nat  BY RingSize
    <3>2. u \in Nat /\ u <= RINGBUFFER_SIZE % UINT16  BY <2>1
    <3> QED  BY <3>1, <3>2, LessRemainder
  <2>3. Advertised(sk) = Window - u  BY <2>2 DEF Advertised, Window, u
  <2> QED  BY <1>1, <2>1, <2>3
<1>6. end <= sk.head + RINGBUFFER_SIZE  BY <1>1, <1>2
<1> QED  BY <1>4, <1>5, <1>6

LEMMA RingKept ==
  ASSUME NEW sk, NEW after, NEW c, NEW base \in Int, NEW end \in Nat, NEW more \in Nat,
         sk.head \in Nat, RingHolds(sk, c, base, end), end <= more,
         after.head = sk.head, after.tail = sk.tail, after.buf = sk.buf
  PROVE  RingHolds(after, c, base, more)
<1>1. \A n \in sk.head .. sk.head + RINGBUFFER_SIZE - 1 : n < end => n < more
  BY RingSize
<1> QED  BY <1>1 DEF RingHolds

\* handleSaveData stores a segment.
LEMMA RingSaved ==
  ASSUME NEW sk \in tcp_sock, NEW after, NEW p \in Segment, NEW c,
         NEW base \in Int, NEW end \in Nat,
         RingHolds(sk, c, base, end), Carried(p, c, base, end),
         end <= sk.head + RINGBUFFER_SIZE,
         after.head = sk.head, after.buf = writeToBuffer(sk, p),
         after.tail = sk.tail + Contiguous(writeToBuffer(sk, p), sk.tail)
  PROVE  RingHolds(after, c, base, end) /\ sk.tail <= after.tail
<1> DEFINE k == Contiguous(writeToBuffer(sk, p), sk.tail)
           new == writeToBuffer(sk, p)
<1>1. sk.head \in Nat /\ sk.tail \in Nat /\ p.seq \in Nat /\ p.data \in Seq(Byte)
      /\ Len(p.data) \in Nat /\ sk.head <= sk.tail /\ base - 1 <= sk.head
  BY DEF tcp_sock, Segment, RingHolds
<1>2. /\ k \in 0 .. RINGBUFFER_SIZE
      /\ \A j \in 0 .. k - 1 : new[(sk.tail + j) % RINGBUFFER_SIZE] # NoByte
  BY <1>1, ContiguousFilled
<1>3. p.data # <<>> => p.seq + Len(p.data) <= sk.head + RINGBUFFER_SIZE
  <2> SUFFICES ASSUME p.data # <<>>
               PROVE  p.seq + Len(p.data) <= sk.head + RINGBUFFER_SIZE
    OBVIOUS
  <2> DEFINE z == Len(p.data)
  <2>1. p.seq + z <= end /\ z \in Nat  BY <1>1 DEF Carried
  <2> HIDE DEF z
  <2>2. p.seq + z <= sk.head + RINGBUFFER_SIZE  BY <1>1, <2>1, RingSize
  <2> QED  BY <2>2 DEF z
<1>4. \A n \in sk.head .. sk.head + RINGBUFFER_SIZE - 1 :
        new[n % RINGBUFFER_SIZE] = IF n \in Stored(sk, p) THEN p.data[n - p.seq + 1]
                                   ELSE sk.buf[n % RINGBUFFER_SIZE]
  BY <1>1, <1>3, WrittenRing
<1>5. ASSUME NEW n \in Stored(sk, p)
      PROVE  /\ p.data[n - p.seq + 1] = <<c, n - base + 1>>
             /\ p.data[n - p.seq + 1] # NoByte
             /\ base <= n /\ n < end
  <2> DEFINE z == Len(p.data)
  <2>1. n \in p.seq .. p.seq + z - 1 /\ z \in Nat  BY <1>1 DEF Stored
  <2>2. DOMAIN p.data = 1 .. z  BY <1>1
  <2>3. z > 0 => p.data # <<>>  BY <1>1
  <2>4. p.data # <<>> => base <= p.seq /\ p.seq + z <= end  BY DEF Carried
  <2>5. \A j \in 1 .. z : p.data[j] = <<c, p.seq + j - base>>
    BY <2>2 DEF Carried
  <2>10. \A j \in 1 .. z : p.data[j] \in Byte  BY <1>1
  <2> HIDE DEF z
  <2>6. z > 0 /\ n - p.seq + 1 \in 1 .. z /\ n \in Nat
    <3>1. p.seq \in Nat  BY <1>1
    <3>2. n \in Nat /\ z > 0  BY <2>1, <3>1
    <3>3. n - p.seq + 1 \in 1 .. z  BY <2>1, <3>1, <3>2
    <3> QED  BY <3>2, <3>3
  <2>7. base <= n /\ n < end  BY <1>1, <2>1, <2>3, <2>4, <2>6
  <2>8. p.data[n - p.seq + 1] = <<c, p.seq + (n - p.seq + 1) - base>>
        /\ p.data[n - p.seq + 1] \in Byte
    BY <2>5, <2>6, <2>10
  <2>9. p.seq + (n - p.seq + 1) - base = n - base + 1  BY <1>1, <2>6
  <2> QED  BY <2>7, <2>8, <2>9, SocketAssumption
<1> HIDE DEF k, new
<1>6. ASSUME NEW n \in sk.head .. sk.head + RINGBUFFER_SIZE - 1,
             new[n % RINGBUFFER_SIZE] # NoByte
      PROVE  /\ base <= n /\ n < end
             /\ new[n % RINGBUFFER_SIZE] = <<c, n - base + 1>>
  BY <1>4, <1>5, <1>6 DEF RingHolds
<1>7. ASSUME NEW n \in sk.head .. sk.head + RINGBUFFER_SIZE - 1, n < sk.tail + k
      PROVE  new[n % RINGBUFFER_SIZE] # NoByte
  <2>1. n \in Nat  BY <1>1, RingSize
  <2>2. CASE n < sk.tail
    <3>1. sk.buf[n % RINGBUFFER_SIZE] # NoByte  BY <2>2 DEF RingHolds
    <3> QED  BY <1>4, <1>5, <3>1
  <2>3. CASE sk.tail <= n
    <3>1. n - sk.tail \in 0 .. k - 1 /\ sk.tail + (n - sk.tail) = n
      BY <1>1, <1>2, <1>7, <2>1, <2>3
    <3> QED  BY <1>2, <3>1
  <2> QED  BY <1>1, <2>1, <2>2, <2>3
<1>8. after.head = sk.head /\ after.tail = sk.tail + k /\ after.buf = new
  BY DEF k, new
<1>9. sk.tail <= after.tail /\ sk.head <= after.tail  BY <1>1, <1>2, <1>8
<1> QED  BY <1>1, <1>6, <1>7, <1>8, <1>9 DEF RingHolds

\* tcp_sock_read empties the ring.
LEMMA RingRead ==
  ASSUME NEW sk \in tcp_sock, NEW after, NEW c, NEW base \in Int, NEW end \in Nat,
         RingHolds(sk, c, base, end), sk.tail <= sk.head + RINGBUFFER_SIZE,
         after.head = sk.tail, after.tail = sk.tail, after.buf = Emptied(sk)
  PROVE  RingHolds(after, c, base, end) /\ sk.head <= after.head
<1>1. sk.head \in Nat /\ sk.tail \in Nat /\ sk.head <= sk.tail /\ base - 1 <= sk.head
  BY DEF tcp_sock, RingHolds
<1>2. \A n \in sk.tail .. sk.tail + RINGBUFFER_SIZE - 1 :
        Emptied(sk)[n % RINGBUFFER_SIZE] =
          IF n < sk.head + RINGBUFFER_SIZE THEN sk.buf[n % RINGBUFFER_SIZE] ELSE NoByte
  BY <1>1, EmptiedRing
<1>3. ASSUME NEW n \in sk.tail .. sk.tail + RINGBUFFER_SIZE - 1
      PROVE  /\ ~(n < sk.tail)
             /\ n < sk.head + RINGBUFFER_SIZE =>
                  n \in sk.head .. sk.head + RINGBUFFER_SIZE - 1
  BY <1>1, RingSize
<1>4. base - 1 <= sk.tail /\ sk.tail <= sk.tail /\ sk.head <= sk.tail  BY <1>1
<1>5. ASSUME NEW n \in sk.tail .. sk.tail + RINGBUFFER_SIZE - 1,
             Emptied(sk)[n % RINGBUFFER_SIZE] # NoByte
      PROVE  /\ base <= n /\ n < end
             /\ Emptied(sk)[n % RINGBUFFER_SIZE] = <<c, n - base + 1>>
  <2>1. n < sk.head + RINGBUFFER_SIZE
        /\ Emptied(sk)[n % RINGBUFFER_SIZE] = sk.buf[n % RINGBUFFER_SIZE]
    BY <1>2, <1>5
  <2>2. n \in sk.head .. sk.head + RINGBUFFER_SIZE - 1  BY <1>3, <2>1
  <2> QED  BY <1>5, <2>1, <2>2 DEF RingHolds
<1> QED  BY <1>3, <1>4, <1>5 DEF RingHolds

LEMMA CarriedMore ==
  ASSUME NEW e, NEW f, NEW c, NEW base \in Int, NEW end \in Nat, NEW more \in Nat,
         e.seq \in Nat, e.data \in Seq(Byte),
         f.seq = e.seq, f.data = e.data, f.flags = e.flags,
         Carried(e, c, base, end), end <= more
  PROVE  Carried(f, c, base, more)
<1> DEFINE z == Len(e.data)
<1>1. z \in Nat  OBVIOUS
<1>2. e.data # <<>> => base <= e.seq /\ e.seq + z <= end  BY DEF Carried
<1> HIDE DEF z
<1>3. e.data # <<>> => base <= e.seq /\ e.seq + z <= more  BY <1>1, <1>2
<1> QED  BY <1>3 DEF Carried, z

\* A segment that carries only an ACK, sent at snd_nxt
LEMMA PlainCarried ==
  ASSUME NEW sk, NEW c, NEW base \in Int, NEW end, NEW flags, "SYN" \notin flags,
         sk.snd_nxt \in Nat, base <= sk.snd_nxt
  PROVE  Carried(Plain(sk, <<>>, flags), c, base, end)
  BY DEF Carried, Plain
-----------------------------------------------------------------------------
(* The first number that is still in the send buffer.                      *)

FirstLogged(sk) == IF sk.sendBuffer = <<>> THEN sk.snd_nxt ELSE sk.sendBuffer[1].seq

LEMMA SendFirst ==
  ASSUME NEW c \in Context, NEW sk \in tcp_sock, sk.sendBuffer = c.sk.sendBuffer,
         sk.snd_nxt = c.sk.snd_nxt, NEW data \in Seq(Byte), NEW flags \in SUBSET Flag
  PROVE  FirstLogged(sendAndLogPacket([c EXCEPT !.sk = sk], data, flags).sk) = FirstLogged(c.sk)
<1> DEFINE b == [c EXCEPT !.sk = sk]
           after == sendAndLogPacket(b, data, flags).sk
           e == Entry(sk, data, flags)
<1>1. b \in Context /\ b.sk = sk  BY UpdateType DEF Context
<1> HIDE DEF b
<1>2. after.sendBuffer = Append(sk.sendBuffer, e) /\ after.snd_nxt = sk.snd_nxt
  BY <1>1, SentFields
<1>3. e.seq = sk.snd_nxt  BY DEF Entry
<1>4. sk.sendBuffer \in Seq(TCPPacketInfo_c) /\ e \in TCPPacketInfo_c
  BY EntryType DEF tcp_sock
<1> HIDE DEF after, e
<1>5. after.sendBuffer # <<>>
      /\ after.sendBuffer[1] = IF sk.sendBuffer = <<>> THEN e ELSE sk.sendBuffer[1]
  BY <1>2, <1>4
<1> QED  BY <1>2, <1>3, <1>5 DEF FirstLogged, after, b

LEMMA SaveDataFirst ==
  ASSUME NEW c \in Context, NEW p \in Segment
  PROVE  FirstLogged(handleSaveData(c, p).sk) = FirstLogged(c.sk)
<1> DEFINE buf == writeToBuffer(c.sk, p)
           k   == Contiguous(buf, c.sk.tail)
           sk  == [c.sk EXCEPT !.buf = buf, !.snd_una = p.ack, !.tail = @ + k,
                               !.rcv_nxt = @ + k, !.rcv_wnd = p.rwnd]
           d   == handleSaveData(c, p)
<1>1. c.sk \in tcp_sock  BY DEF Context
<1>2. buf \in [Slot -> Byte \cup {NoByte}]  BY <1>1, writeToBufferType
<1>3. k \in Nat  BY ContiguousType
<1>4. \/ d = [c EXCEPT !.sk = sk]
      \/ d = sendAndLogPacket([c EXCEPT !.sk = sk], <<>>, {"ACK"})
  <2> HIDE DEF buf
  <2> QED  BY <1>1 DEF handleSaveData, Context, tcp_sock, buf
<1> HIDE DEF buf, k, d
<1>5. c.sk.tail + k \in Nat /\ c.sk.rcv_nxt + k \in Nat
  BY <1>1, <1>3, ReceiveSums
<1>6. sk \in tcp_sock  BY <1>1, <1>2, <1>5, HandlerFacts DEF tcp_sock
<1>7. sk.sendBuffer = c.sk.sendBuffer /\ sk.snd_nxt = c.sk.snd_nxt  BY <1>1 DEF tcp_sock
<1> HIDE DEF sk
<1>8. CASE d = [c EXCEPT !.sk = sk]
  <2>1. d.sk = sk  BY <1>8 DEF Context
  <2> QED  BY <1>7, <2>1 DEF FirstLogged, d
<1>9. CASE d = sendAndLogPacket([c EXCEPT !.sk = sk], <<>>, {"ACK"})
  <2>1. FirstLogged(sendAndLogPacket([c EXCEPT !.sk = sk], <<>>, {"ACK"}).sk) = FirstLogged(c.sk)
    BY <1>6, <1>7, SendFirst, EmptyDataType, FlagSets
  <2>2. FirstLogged(d.sk) = FirstLogged(c.sk)  BY <1>9, <2>1
  <2> QED  BY <2>2 DEF d
<1> QED  BY <1>4, <1>8, <1>9

LEMMA SYN23First ==
  ASSUME NEW c \in Context, NEW p \in Segment
  PROVE  FirstLogged(handleSYN23(c, p).sk) = FirstLogged(c.sk)
<1> DEFINE b  == IF "ACK" \in p.flags THEN [c.sk EXCEPT !.snd_una = p.ack] ELSE c.sk
           sk == [b EXCEPT !.TCPState = "ESTABLISHED",
                           !.head = p.seq + 1, !.tail = p.seq + 1,
                           !.rcv_nxt = p.seq + 1, !.rcv_wnd = p.rwnd]
           acked == [c EXCEPT !.sk = b]
<1>1. b \in tcp_sock /\ b.sendBuffer = c.sk.sendBuffer /\ b.snd_nxt = c.sk.snd_nxt
  BY DEF Context, tcp_sock, Segment
<1>2. handleSYN23(c, p) = IF "SYN" \in p.flags THEN handleSYN3(acked, p) ELSE acked
  BY DEF handleSYN23, handleSYN2, Context
<1> HIDE DEF b
<1>3. acked \in Context /\ acked.sk = b  BY <1>1, UpdateType DEF Context
<1>4. sk \in tcp_sock /\ sk.sendBuffer = b.sendBuffer /\ sk.snd_nxt = b.snd_nxt
  BY <1>1, HandlerFacts, States DEF tcp_sock
<1>5. handleSYN3(acked, p) = sendAndLogPacket([acked EXCEPT !.sk = sk], <<>>, {"ACK"})
  <2> HIDE DEF acked
  <2> QED  BY <1>1, <1>3 DEF handleSYN3, Context, tcp_sock
<1> HIDE DEF sk, acked
<1>6. FirstLogged(acked.sk) = FirstLogged(c.sk)  BY <1>1, <1>3 DEF FirstLogged
<1>7. FirstLogged(handleSYN3(acked, p).sk) = FirstLogged(acked.sk)
  <2>1. sk.sendBuffer = acked.sk.sendBuffer /\ sk.snd_nxt = acked.sk.snd_nxt
    BY <1>3, <1>4
  <2>2. FirstLogged(sendAndLogPacket([acked EXCEPT !.sk = sk], <<>>, {"ACK"}).sk)
          = FirstLogged(acked.sk)
    BY <1>3, <1>4, <2>1, SendFirst, EmptyDataType, FlagSets
  <2> QED  BY <1>5, <2>2
<1> QED  BY <1>2, <1>6, <1>7

LEMMA WriteFirst ==
  ASSUME NEW c \in Context, NEW data \in Seq(Byte)
  PROVE  FirstLogged(Write(c, data).sk) = FirstLogged(c.sk)
<1> DEFINE sent == sendAndLogPacket([c EXCEPT !.sk = c.sk], data, {"ACK"})
<1>1. [c EXCEPT !.sk = c.sk] = c /\ c.sk \in tcp_sock  BY DEF Context
<1>2. FirstLogged(sent.sk) = FirstLogged(c.sk)  BY <1>1, SendFirst, FlagSets
<1>3. sent = sendAndLogPacket(c, data, {"ACK"})  BY <1>1
<1>4. sent \in Context  BY <1>3, sendAndLogPacketType, FlagSets
<1>5. sent.sk.sendBuffer = Append(c.sk.sendBuffer, Entry(c.sk, data, {"ACK"}))
  BY <1>3, SentFields, FlagSets
<1>6. Write(c, data) = [sent EXCEPT !.sk.snd_nxt = @ + Len(data)]  BY <1>3 DEF Write
<1> HIDE DEF sent
<1>7. Write(c, data).sk.sendBuffer = sent.sk.sendBuffer
  BY <1>4, <1>6 DEF Context, tcp_sock
<1>8. sent.sk.sendBuffer # <<>>
  <2>1. c.sk.sendBuffer \in Seq(TCPPacketInfo_c)  BY <1>1 DEF tcp_sock
  <2>2. Len(sent.sk.sendBuffer) = Len(c.sk.sendBuffer) + 1 /\ Len(c.sk.sendBuffer) \in Nat
    BY <1>5, <2>1
  <2> QED  BY <2>2
<1> QED  BY <1>2, <1>7, <1>8 DEF FirstLogged

LEMMA resendFirst ==
  ASSUME NEW c \in Context, c.sk.sendBuffer # <<>>
  PROVE  FirstLogged(resend(c).sk) = FirstLogged(c.sk)
<1> DEFINE e == Head(c.sk.sendBuffer)
           times == IF e.resendTime > MAX_RESEND THEN e.resendTime
                    ELSE e.resendTime + 1
           buffer == [c.sk.sendBuffer EXCEPT ![1].resendTime = times]
           after == [c.sk EXCEPT !.sendBuffer = buffer]
<1>1. c.sk \in tcp_sock  BY DEF Context
<1>2. resend(c).sk = c.sk \/ resend(c).sk = after
  BY DEF resend, Require, Context
<1>3. ASSUME resend(c).sk = after PROVE FirstLogged(after) = FirstLogged(c.sk)
  <2>1. c.sk.sendBuffer \in Seq(TCPPacketInfo_c) /\ 1 \in 1 .. Len(c.sk.sendBuffer)
    BY <1>1 DEF tcp_sock
  <2> HIDE DEF times
  <2>2. Len(buffer) = Len(c.sk.sendBuffer)
        /\ buffer[1] = [c.sk.sendBuffer[1] EXCEPT !.resendTime = times]
    BY <2>1
  <2>3. after.sendBuffer = buffer  BY <1>1 DEF tcp_sock
  <2>4. c.sk.sendBuffer[1] \in TCPPacketInfo_c  BY <2>1
  <2> HIDE DEF buffer, after
  <2>5. buffer # <<>> /\ buffer[1].seq = c.sk.sendBuffer[1].seq
    BY <2>1, <2>2, <2>4 DEF TCPPacketInfo_c
  <2> QED  BY <2>3, <2>5 DEF FirstLogged
<1> QED  BY <1>2, <1>3

LEMMA TimeOutFirst ==
  ASSUME NEW c \in Context
  PROVE  FirstLogged(HandleTimeOut(c).sk) = FirstLogged(c.sk)
<1> DEFINE reduced == [c EXCEPT !.sk = [c.sk EXCEPT !.cc = RTO(c.sk.cc)]]
<1>1. c.sk \in tcp_sock  BY DEF Context
<1>2. [c.sk EXCEPT !.cc = RTO(c.sk.cc)] \in tcp_sock
  BY <1>1, RTOType DEF tcp_sock
<1>3. reduced \in Context  BY <1>2, UpdateType
<1>4. Keeps(c.sk, reduced.sk)  BY <1>1 DEF Keeps, tcp_sock, Context
<1>5. HandleTimeOut(c) = IF c.sk.sendBuffer = <<>> THEN Require(reduced, FALSE)
                         ELSE resend(reduced)
  BY DEF HandleTimeOut
<1> HIDE DEF reduced
<1>6. FirstLogged(reduced.sk) = FirstLogged(c.sk)  BY <1>4 DEF Keeps, FirstLogged
<1>7. CASE c.sk.sendBuffer = <<>>
  <2>1. HandleTimeOut(c).sk = reduced.sk  BY <1>3, <1>5, <1>7 DEF Require, Context
  <2> QED  BY <1>6, <2>1
<1>8. CASE c.sk.sendBuffer # <<>>
  <2>1. reduced.sk.sendBuffer # <<>>  BY <1>4, <1>8 DEF Keeps
  <2> QED  BY <1>3, <1>5, <1>6, <1>8, <2>1, resendFirst
<1> QED  BY <1>7, <1>8

LEMMA SuffixFirst ==
  ASSUME NEW b \in Seq(TCPPacketInfo_c), NEW m \in 1 .. Len(b), m + 1 \in 1 .. Len(b)
  PROVE  /\ Len(SubSeq(b, m + 1, Len(b))) = Len(b) - m
         /\ SubSeq(b, m + 1, Len(b))[1] = b[m + 1]
<1> DEFINE k == m + 1
           n == Len(b)
<1>1. k \in Int /\ n \in Int /\ k <= n /\ \A i \in k .. n : b[i] \in TCPPacketInfo_c
  OBVIOUS
<1>2. n - k + 1 = n - m /\ 1 \in 1 .. n - k + 1 /\ k + 1 - 1 = k  BY <1>1
<1> HIDE DEF k, n
<1>3. /\ Len(SubSeq(b, k, n)) = IF k <= n THEN n - k + 1 ELSE 0
      /\ \A i \in 1 .. n - k + 1 : SubSeq(b, k, n)[i] = b[k + i - 1]
  BY <1>1, SubSeqProperties
<1>4. SubSeq(b, k, n)[1] = b[k + 1 - 1]  BY <1>2, <1>3
<1> QED  BY <1>1, <1>2, <1>3, <1>4 DEF k, n

\* handlePacket_handleACK frees what the ack covers and nothing more.
LEMMA PopFirst ==
  ASSUME NEW sk \in tcp_sock, NEW after, NEW ack \in Nat, SendBufferUnbroken(sk),
         after.sendBuffer = Pop(sk.sendBuffer, ack), after.snd_nxt = sk.snd_nxt
  PROVE  \/ FirstLogged(after) = FirstLogged(sk)
         \/ \E e \in Logged(sk) : Covered(e, ack) /\ FirstLogged(after) = e.seq + Span(e)
<1> DEFINE b == sk.sendBuffer
           m == PopCount(b, ack)
<1>1. b \in Seq(TCPPacketInfo_c) /\ Len(b) \in Nat  BY DEF tcp_sock
<1>2. m \in 0 .. Len(b)  BY <1>1, PopCountRange
<1>3. m > 0 => m \in DOMAIN b /\ Covered(b[m], ack)  BY <1>1, PopCovered
<1>4. \A i \in DOMAIN b : b[i].seq + Span(b[i]) =
        IF i = Len(b) THEN sk.snd_nxt ELSE b[i + 1].seq
  BY DEF SendBufferUnbroken
<1>5. after.sendBuffer = SubSeq(b, m + 1, Len(b))  BY DEF Pop
<1>6. \A i \in DOMAIN b : Logging(b[i]) \in Logged(sk)  BY DEF Logged
<1> HIDE DEF b, m
<1>7. CASE m = 0
  <2>1. after.sendBuffer = b
    <3>1. after.sendBuffer = SubSeq(b, 1, Len(b))  BY <1>5, <1>7
    <3> QED  BY <1>1, <3>1
  <2> QED  BY <2>1 DEF FirstLogged, b
<1>8. CASE m > 0
  <2>1. m \in DOMAIN b /\ m \in 1 .. Len(b)  BY <1>2, <1>3, <1>8
  <2>2. FirstLogged(after) = b[m].seq + Span(b[m])
    <3>1. CASE m = Len(b)
      <4>1. after.sendBuffer = <<>>  BY <1>1, <1>5, <3>1
      <4> QED  BY <1>4, <2>1, <3>1, <4>1 DEF FirstLogged
    <3>2. CASE m # Len(b)
      <4>1. m + 1 \in 1 .. Len(b)  BY <1>1, <2>1, <3>2
      <4>2. Len(after.sendBuffer) = Len(b) - m /\ after.sendBuffer[1] = b[m + 1]
        BY <1>1, <1>5, <2>1, <4>1, SuffixFirst
      <4>3. after.sendBuffer # <<>>
        <5>1. Len(b) - m > 0  BY <1>1, <2>1, <4>1
        <5> QED  BY <4>2, <5>1
      <4> QED  BY <1>4, <2>1, <3>2, <4>2, <4>3 DEF FirstLogged
    <3> QED  BY <3>1, <3>2
  <2> DEFINE e == Logging(b[m])
  <2>3. e \in Logged(sk) /\ e.seq = b[m].seq /\ e.data = b[m].data /\ e.flags = b[m].flags
    BY <1>6, <2>1 DEF Logging
  <2>4. Covered(e, ack) /\ Span(e) = Span(b[m])
    BY <1>3, <1>8, <2>3 DEF Covered, Span
  <2> QED  BY <2>2, <2>3, <2>4
<1> QED  BY <1>2, <1>7, <1>8

LEMMA OnSegmentFirst ==
  ASSUME NEW sk \in tcp_sock, NEW p \in Segment, SendBufferUnbroken(sk)
  PROVE  LET after == OnSegment(Enter(sk), p).sk
         IN  \/ FirstLogged(after) = FirstLogged(sk)
             \/ /\ "ACK" \in p.flags
                /\ \E e \in Logged(sk) :
                     Covered(e, p.ack) /\ FirstLogged(after) = e.seq + Span(e)
<1> DEFINE c == Enter(sk)
           popped == AckPopped(c, p.ack)
<1>1. c \in Context /\ c.sk = sk  BY DEF Enter, Context
<1>2. p.ack \in Nat  BY DEF Segment
<1>3. OnSegment(c, p) = IF "ACK" \in p.flags THEN handleACK(c, p.ack) ELSE c
  BY DEF OnSegment
<1> HIDE DEF c
<1>4. /\ popped \in Context /\ popped.sk.snd_nxt = sk.snd_nxt
      /\ popped.sk.sendBuffer = Pop(sk.sendBuffer, p.ack)
  <2>1. popped \in Context  BY <1>1, <1>2, AckPoppedType
  <2>2. /\ popped.sk.snd_nxt = sk.snd_nxt
        /\ popped.sk.sendBuffer = Pop(sk.sendBuffer, p.ack)
    BY <1>1 DEF AckPopped, Context, tcp_sock
  <2> QED  BY <2>1, <2>2
<1>5. \/ handleACK(c, p.ack) = popped
      \/ /\ Pop(sk.sendBuffer, p.ack) # <<>>
         /\ handleACK(c, p.ack) = resend(popped)
  BY <1>1 DEF handleACK, AckPopped
<1> HIDE DEF popped
<1>6. FirstLogged(handleACK(c, p.ack).sk) = FirstLogged(popped.sk)
  BY <1>4, <1>5, resendFirst
<1>7. \/ FirstLogged(popped.sk) = FirstLogged(sk)
      \/ \E e \in Logged(sk) :
           Covered(e, p.ack) /\ FirstLogged(popped.sk) = e.seq + Span(e)
  BY <1>2, <1>4, PopFirst
<1> QED  BY <1>1, <1>3, <1>6, <1>7 DEF c

=============================================================================
