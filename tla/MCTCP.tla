------------------------------- MODULE MCTCP -------------------------------
(* The values of the constants for TLC's runs of TCPProtocol.              *)
EXTENDS TCPProperties

MCByte       == Clients \X (1 .. FileLen)
MCGarbage    == {9}
MCZeroed     == {FALSE}
MCUnset      == BOOLEAN

\* Clients are interchangeable, and so are the names of the allocated sockets.
MCSymmetry == Permutations(Clients) \cup Permutations(Children)
=============================================================================
