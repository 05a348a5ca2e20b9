------------------------------ MODULE MCMospf ------------------------------
(* The values of the constants for TLC's runs of Mospf.                    *)
EXTENDS Mospf, TLC

\* Three routers, a link between any two, a network of hosts at two of them
MCAttached ==
  [n12 |-> {1, 2}, n13 |-> {1, 3}, n23 |-> {2, 3}, h1 |-> {1}, h3 |-> {3}]
MCNet == DOMAIN MCAttached

\* One flood at a time for long, floods that overlap when the routers start
MCHorizon == 0 :> 22 @@ 1 :> 1
=============================================================================
