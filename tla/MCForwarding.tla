---------------------------- MODULE MCForwarding ----------------------------
(* The values of the constants for TLC's runs of Forwarding.               *)
EXTENDS Forwarding, TLC

CONSTANTS h1, h2, gw, p1, p2

\* Two pings between two hosts; the second one may also be to the router or
\* die here.
MCTraffic ==
  p1 :> {[saddr |-> h1, daddr |-> h2, ttl |-> 64]} @@
  p2 :> {[saddr |-> h1, daddr |-> h2, ttl |-> 64],
         [saddr |-> h1, daddr |-> Self, ttl |-> 64],
         [saddr |-> h2, daddr |-> h1, ttl |-> 1]}

\* One gateway leads to both hosts.
MCVia == h1 :> gw @@ h2 :> gw
=============================================================================
