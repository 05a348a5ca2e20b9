--------------------------- MODULE ReliableStream ---------------------------
(***************************************************************************)
(* What a TCP connection promises its two applications, whatever happens   *)
(* below it: the receiver reads the bytes of the file in order, never      *)
(* before they were written, and is told that the stream has ended only    *)
(* after the last one.                                                     *)
(***************************************************************************)
EXTENDS Naturals, Sequences

CONSTANT Bytes      \* the sequence of bytes the sender writes

VARIABLES
  written,         \* how many bytes tcp_sock_write has taken
  received,        \* the bytes tcp_sock_read has returned
  ended            \* tcp_sock_read has returned 0

vars == <<written, received, ended>>

Init == written = 0 /\ received = <<>> /\ ended = FALSE

\* tcp_sock_write takes the next bytes
Take ==
  /\ \E n \in written + 1 .. Len(Bytes) : written' = n
  /\ UNCHANGED <<received, ended>>

\* tcp_sock_read returns the next bytes
Deliver ==
  /\ ~ended
  /\ \E n \in Len(received) + 1 .. written : received' = SubSeq(Bytes, 1, n)
  /\ UNCHANGED <<written, ended>>

\* tcp_sock_read returns 0
EndOfStream ==
  /\ received = Bytes
  /\ ended' = TRUE
  /\ UNCHANGED <<written, received>>

Next == Take \/ Deliver \/ EndOfStream

\* All of the file is written, read and found to end.
Spec == Init /\ [][Next]_vars /\ WF_vars(Next)
=============================================================================
