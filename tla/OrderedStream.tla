---------------------------- MODULE OrderedStream ----------------------------
(***************************************************************************)
(* What TCPProtocol promises the server's application on any network: it   *)
(* reads the bytes of one client, in order and without a gap, none before  *)
(* the client has written it and none after the end was reported.  Where   *)
(* the reading starts and whether it reaches the end of the file is not    *)
(* promised here: ReliableStream asks for both.                            *)
(***************************************************************************)
EXTENDS Naturals, Sequences

CONSTANTS
  Writers,         \* the clients
  Length           \* how many bytes each of them has to write

VARIABLES
  written,         \* how many of its bytes each writer has written
  received,        \* the bytes tcp_sock_read has returned
  ended            \* tcp_sock_read has returned 0

vars == <<written, received, ended>>

\* The bytes of w from first to last
Run(w, first, last) == [i \in 1 .. last - first + 1 |-> <<w, first + i - 1>>]

Init ==
  /\ written = [w \in Writers |-> 0]
  /\ received = <<>> /\ ended = FALSE

\* tcp_sock_write takes the next bytes of w.
Take(w) ==
  /\ \E n \in written[w] + 1 .. Length : written' = [written EXCEPT ![w] = n]
  /\ UNCHANGED <<received, ended>>

\* tcp_sock_read returns bytes of w that continue what was read before.
Deliver(w) ==
  /\ ~ended
  /\ \E first \in 1 .. Length : \E last \in first .. written[w] :
       /\ received # <<>> => received[Len(received)] = <<w, first - 1>>
       /\ received' = received \o Run(w, first, last)
  /\ UNCHANGED <<written, ended>>

\* tcp_sock_read returns 0.
EndOfStream ==
  /\ ~ended /\ ended' = TRUE
  /\ UNCHANGED <<written, received>>

Next == (\E w \in Writers : Take(w) \/ Deliver(w)) \/ EndOfStream

Spec == Init /\ [][Next]_vars
=============================================================================
