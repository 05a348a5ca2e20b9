------------------------------- MODULE MCStp -------------------------------
EXTENDS Stp, TLC

\* The two ends of a link, given by switch and port
Link(s, i, t, j) == <<s, i>> :> <<t, j>> @@ <<t, j>> :> <<s, i>>

MCTriangle == Link(1, 1, 2, 1) @@ Link(1, 2, 3, 1) @@ Link(2, 2, 3, 2)

\* lab6/mininet/four_node_ring.py
MCRing == Link(1, 1, 2, 1) @@ Link(1, 2, 3, 1) @@ Link(2, 2, 4, 1) @@ Link(3, 2, 4, 2)

\* Two links between the same two switches, and a third switch behind one
MCParallel == Link(1, 1, 2, 2) @@ Link(1, 2, 2, 1) @@ Link(2, 3, 3, 1)

\* No two switches of these three networks are more than two links apart.
MCDist ==
  [r \in Switch |-> [s \in Switch |->
     CASE r = s -> 0
       [] \E p \in Port : p[1] = r /\ Peer[p][1] = s -> 1
       [] OTHER -> 2]]

OnceEach == [s \in Switch |-> 1]
TwiceEach == [s \in Switch |-> 2]
NotTwo == [s \in Switch |-> IF s = 2 THEN 0 ELSE 1]
=============================================================================
