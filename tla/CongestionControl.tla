------------------------- MODULE CongestionControl -------------------------
(***************************************************************************)
(* The congestion window of one TCP socket: congestionControl_c of         *)
(* lab18/src/congestionControl.{h,cpp}.  A value of the class is a record; *)
(* each method is an operator from a record to a record.  dupack and       *)
(* successTransfer also return whether the caller must retransmit.         *)
(*                                                                         *)
(* The float cwnd is kept in fixed point, CWND_ONE units to one segment.   *)
(* The log of cwnd values that writeToCwndLogThread samples is left out.   *)
(***************************************************************************)
EXTENDS Integers

CONSTANTS
  CWND_ONE,      \* fixed-point units that stand for cwnd = 1.0
  INIT_SSTHRESH, \* initial slow-start threshold, in segments
  UINT16,        \* 2^16: one more than the largest uint16_t
  MaxDupack      \* bound: numDupack (a uint32_t) saturates here

ASSUME CongestionAssumption ==
  /\ CWND_ONE \in Nat /\ CWND_ONE >= 2
  /\ INIT_SSTHRESH \in Nat
  /\ UINT16 \in Nat /\ UINT16 > 1
  /\ MaxDupack \in Nat /\ MaxDupack >= 3

Congestion ==
  [congestState : {"OPEN", "RECOVERY"}, ssthresh : Nat, cwnd : Nat \ {0},
   numDupack : Nat, recoveryPoint : Nat, alradyRetrans : BOOLEAN]

\* recoveryPoint has no initialiser in the class; it is written before the
\* first read, so its initial value is never observed.
InitCongestion ==
  [congestState |-> "OPEN", ssthresh |-> INIT_SSTHRESH, cwnd |-> CWND_ONE,
   numDupack |-> 0, recoveryPoint |-> 0, alradyRetrans |-> FALSE]

\* cwnd / 2, rounded up: the float it stands for never reaches 0
Halved(cwnd) == (cwnd + 1) \div 2

\* cwnd / 2 stored in the uint16_t ssthresh
HalfInSegments(cc) == ((cc.cwnd \div 2) \div CWND_ONE) % UINT16

getCwnd(cc) == (cc.cwnd \div CWND_ONE + cc.numDupack) % UINT16

-----------------------------------------------------------------------------

CountDupack(cc) ==
  [cc EXCEPT !.numDupack = IF @ < MaxDupack THEN @ + 1 ELSE @]

\* The third duplicate in a row halves the window and opens a recovery.
EnterRecovery(cc, ack) ==
  IF cc.congestState = "OPEN" /\ cc.numDupack = 3
  THEN [cc EXCEPT !.congestState = "RECOVERY", !.recoveryPoint = ack,
                  !.ssthresh = HalfInSegments(cc), !.cwnd = Halved(@)]
  ELSE cc

dupack(cc, ack) ==
  LET entered == EnterRecovery(CountDupack(cc), ack)
      retrans == entered.congestState = "RECOVERY" /\ ~entered.alradyRetrans
  IN  [cc |-> [entered EXCEPT !.alradyRetrans = @ \/ retrans],
       retrans |-> retrans]

\* cwnd += 1 below the threshold, cwnd += 1/cwnd above it
Grown(cc) ==
  IF cc.cwnd < cc.ssthresh * CWND_ONE
  THEN cc.cwnd + CWND_ONE
  ELSE cc.cwnd + (CWND_ONE * CWND_ONE) \div cc.cwnd

successTransfer(cc, ack) ==
  LET grown   == [cc EXCEPT !.numDupack = 0, !.cwnd = Grown(cc)]
      retrans == cc.congestState = "RECOVERY" /\ ack < cc.recoveryPoint
  IN  [cc |-> [grown EXCEPT !.alradyRetrans = @ /\ retrans],
       retrans |-> retrans]

RTO(cc) ==
  [cc EXCEPT !.congestState = "OPEN", !.ssthresh = HalfInSegments(cc),
             !.cwnd = CWND_ONE, !.numDupack = 0]

checkRecovery(cc, ack) ==
  IF cc.congestState = "RECOVERY" /\ ack > cc.recoveryPoint
  THEN [cc EXCEPT !.congestState = "OPEN", !.numDupack = 0]
  ELSE cc
=============================================================================
