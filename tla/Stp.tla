-------------------------------- MODULE Stp --------------------------------
(***************************************************************************)
(* The spanning tree protocol of lab6/src/stp.c on switches joined by      *)
(* point-to-point links.  A switch runs two threads, the receiver and the  *)
(* hello timer; each step of either runs under the switch's one lock, so a *)
(* step is an action.  A port is a pair <<switch, index>>, and a link is a *)
(* port with its Peer.  The switch id is the id of the switch itself: the  *)
(* bridge priority is the same everywhere, and so is the path cost 1.      *)
(***************************************************************************)
EXTENDS Integers, Sequences, FiniteSets, FiniteSetsExt

CONSTANTS
  Switch,   \* switch ids
  Peer,     \* the other end of the link of every port
  Dist,     \* Dist[r][s]: number of links from r to s
  NoPort,   \* root_port is NULL
  NoConfig, \* no config packet received yet
  MaxHello  \* bound: how often the hello timer of each switch expires

Port == DOMAIN Peer

ASSUME StpAssumption ==
  /\ Switch \subseteq Nat /\ IsFiniteSet(Switch)
  /\ Port \subseteq Switch \X (Nat \ {0}) /\ IsFiniteSet(Port)
  /\ \A p \in Port : Peer[p] \in Port /\ Peer[Peer[p]] = p /\ Peer[p][1] # p[1]
  /\ NoPort \notin Port
  /\ Dist \in [Switch -> [Switch -> Nat]]
  /\ \A r \in Switch : Dist[r][r] = 0
  /\ \A r \in Switch, p \in Port : Dist[r][p[1]] <= Dist[r][Peer[p][1]] + 1
  /\ MaxHello \in [Switch -> Nat]

\* What a config packet says, and what a port believes of its segment
Config == [root : Switch, cost : Nat, switch : Switch, port : Nat \ {0}]

ASSUME NoConfigAssumption == NoConfig \notin Config

VARIABLES
  designated,      \* the four designated_ fields of each port
  config,          \* the last config packet received on each port
  designated_root, \* the root each switch believes in
  root_path_cost,  \* its distance to it
  root_port,
  hello_active,    \* is the hello timer of the switch running?
  channel,         \* config packets on their way to each port
  hellos           \* how much of MaxHello each switch has used

switches == <<designated, config, designated_root, root_path_cost, root_port>>
vars == <<switches, hello_active, channel, hellos>>

PortsOf(s) == {p \in Port : p[1] = s}

stp_is_root_switch(s) == designated_root[s] = s

\* Does the port believe that it serves its own segment?
IsDesignated(p, d) == d.switch = p[1] /\ d.port = p[2]
stp_port_is_designated(p) == IsDesignated(p, designated[p])

-----------------------------------------------------------------------------

\* stp_init on every switch
Init ==
  /\ designated = [p \in Port |-> [root |-> p[1], cost |-> 0,
                                   switch |-> p[1], port |-> p[2]]]
  /\ config = [p \in Port |-> NoConfig]
  /\ designated_root = [s \in Switch |-> s]
  /\ root_path_cost = [s \in Switch |-> 0]
  /\ root_port = [s \in Switch |-> NoPort]
  /\ hello_active = [s \in Switch |-> TRUE]
  /\ channel = [p \in Port |-> <<>>]
  /\ hellos = [s \in Switch |-> 0]

\* Mutant of Better: the path cost is not compared.
Better_NoCost(a, b) ==
  \/ a.root < b.root
  \/ a.root = b.root /\ a.switch < b.switch
  \/ a.root = b.root /\ a.switch = b.switch /\ a.port < b.port

\* cmp_port_priority(a, b) == 1
Better(a, b) ==
  \/ a.root < b.root
  \/ a.root = b.root /\ a.cost < b.cost
  \/ a.root = b.root /\ a.cost = b.cost /\ a.switch < b.switch
  \/ a.root = b.root /\ a.cost = b.cost /\ a.switch = b.switch /\ a.port < b.port

\* Mutant of Send: the packet names the index of the port, not its id.
Send_PortIndex(flight, s, ports, root, cost, rootPort) ==
  IF root # s /\ rootPort = NoPort THEN flight
  ELSE [p \in Port |->
          IF Peer[p] \in ports
          THEN Append(flight[p], [root |-> root, cost |-> cost,
                                  switch |-> s, port |-> Peer[p][2] - 1])
          ELSE flight[p]]

\* stp_port_send_config on each port of a set: the switch's own view, or
\* nothing while it is neither a root nor has a root port.
Send(flight, s, ports, root, cost, rootPort) ==
  IF root # s /\ rootPort = NoPort THEN flight
  ELSE [p \in Port |->
          IF Peer[p] \in ports
          THEN Append(flight[p], [root |-> root, cost |-> cost,
                                  switch |-> s, port |-> Peer[p][2]])
          ELSE flight[p]]

\* stp_handle_hello_timeout
HelloTimeout(s) ==
  /\ hello_active[s]
  /\ hellos[s] < MaxHello[s]
  /\ channel' = Send(channel, s, {p \in PortsOf(s) : stp_port_is_designated(p)},
                     designated_root[s], root_path_cost[s], root_port[s])
  /\ hellos' = [hellos EXCEPT ![s] = @ + 1]
  /\ UNCHANGED <<switches, hello_active>>

\* The ports that are not designated and that no other such port beats
RootPorts(s, d) ==
  LET candidates == {p \in PortsOf(s) : ~IsDesignated(p, d[p])}
  IN  {p \in candidates : \A q \in candidates : ~Better(d[q], d[p])}

\* Of several the loop keeps the last; without any, root_port keeps its value.
ElectRootPort(s, d) ==
  LET elected == RootPorts(s, d)
  IN  IF elected = {} THEN {root_port[s]}
      ELSE {p \in elected : \A q \in elected : q[2] <= p[2]}

\* Mutant of Refresh: the designated ports keep the old view.
Refresh_StaleView(s, p, d, heard, root, cost) ==
  IF IsDesignated(p, d[p]) THEN d[p]
  ELSE LET view == [root |-> root, cost |-> cost, switch |-> s, port |-> p[2]]
       IN  IF Better(view, heard[p]) THEN view ELSE d[p]

\* Mutant of Refresh: a port that once lost its segment never takes it back.
Refresh_NeverTakesOver(s, p, d, heard, root, cost) ==
  IF IsDesignated(p, d[p])
  THEN [d[p] EXCEPT !.root = root, !.cost = cost]
  ELSE d[p]

\* Step 3: a designated port takes over the switch's view; another becomes
\* designated if the view beats the last packet it received.  (The code
\* leaves designated_port of the view unset.  It would be read only if that
\* packet came from this very switch.)
Refresh(s, p, d, heard, root, cost) ==
  IF IsDesignated(p, d[p])
  THEN [d[p] EXCEPT !.root = root, !.cost = cost]
  ELSE LET view == [root |-> root, cost |-> cost, switch |-> s, port |-> p[2]]
       IN  IF Better(view, heard[p]) THEN view ELSE d[p]

\* Mutant of RootPathCost: the link of the root port costs nothing.
RootPathCost_FreeLink(d, rootPort) == IF rootPort = NoPort THEN 0 ELSE d[rootPort].cost

\* Mutant of StopsHello: the timer is stopped by a switch that is not the root.
StopsHello_NotRoot(s, d) == ~stp_is_root_switch(s) /\ RootPorts(s, d) # {}

\* The switch's view, one link further than that of its root port
DesignatedRoot(s, d, rootPort) == IF rootPort = NoPort THEN s ELSE d[rootPort].root
RootPathCost(d, rootPort) == IF rootPort = NoPort THEN 0 ELSE d[rootPort].cost + 1

\* A switch that elects a root port while it takes itself for the root stops
\* its hello timer.
StopsHello(s, d) == stp_is_root_switch(s) /\ RootPorts(s, d) # {}

\* stp_handle_config_packet when the packet beats what the port believes.  (A
\* bound variable with one value only names an intermediate result.)
Improve(p, c) ==
  \E s \in {p[1]}, updated \in {[designated EXCEPT ![p] = c]},
     heard \in {[config EXCEPT ![p] = c]} :
  \E rootPort \in ElectRootPort(s, updated) :
  \E root \in {DesignatedRoot(s, updated, rootPort)}, cost \in {RootPathCost(updated, rootPort)} :
  \E final \in {[q \in Port |-> IF q[1] = s
                              THEN Refresh(s, q, updated, heard, root, cost)
                              ELSE designated[q]]} :
    /\ config' = heard
    /\ designated' = final
    /\ root_port' = [root_port EXCEPT ![s] = rootPort]
    /\ designated_root' = [designated_root EXCEPT ![s] = root]
    /\ root_path_cost' = [root_path_cost EXCEPT ![s] = cost]
    /\ hello_active' = [hello_active EXCEPT ![s] = @ /\ ~StopsHello(s, updated)]
    /\ channel' = Send([channel EXCEPT ![p] = Tail(@)], s,
                       {q \in PortsOf(s) : IsDesignated(q, final[q])},
                       root, cost, rootPort)
    /\ UNCHANGED hellos

\* and when it does not: the port answers with the switch's view.
Answer(p, c) ==
  /\ config' = [config EXCEPT ![p] = c]
  /\ channel' = Send([channel EXCEPT ![p] = Tail(@)], p[1], {p},
                     designated_root[p[1]], root_path_cost[p[1]], root_port[p[1]])
  /\ UNCHANGED <<designated, designated_root, root_path_cost, root_port,
                 hello_active, hellos>>

\* stp_port_handle_packet
Receive(p) ==
  /\ channel[p] # <<>>
  /\ IF Better(Head(channel[p]), designated[p])
     THEN Improve(p, Head(channel[p]))
     ELSE Answer(p, Head(channel[p]))

Next ==
  \/ \E s \in Switch : HelloTimeout(s)
  \/ \E p \in Port : Receive(p)

Spec == Init /\ [][Next]_vars

\* A packet on a link arrives, and a running timer expires.
FairSpec ==
  /\ Spec
  /\ \A p \in Port : WF_vars(Receive(p))
  /\ \A s \in Switch : WF_vars(HelloTimeout(s))

-----------------------------------------------------------------------------

TypeOK ==
  /\ designated \in [Port -> Config]
  /\ config \in [Port -> Config \cup {NoConfig}]
  /\ designated_root \in [Switch -> Switch]
  /\ root_path_cost \in [Switch -> Nat]
  /\ root_port \in [Switch -> Port \cup {NoPort}]
  /\ hello_active \in [Switch -> BOOLEAN]
  /\ channel \in [Port -> Seq(Config)]
  /\ hellos \in [Switch -> Nat]
  /\ \A s \in Switch : hellos[s] <= MaxHello[s]

-----------------------------------------------------------------------------

\* Nobody promises more than the network holds: whatever a switch believes, a
\* port remembers or a packet on its way says, the sender it names does lie
\* within that many links of the root it names (stp_handle_config_packet
\* adds path_cost exactly once, and a view never outlives a better one).
Honest(c) == Dist[c.root][c.switch] <= c.cost
NeverTooClose ==
  /\ \A s \in Switch : Dist[designated_root[s]][s] <= root_path_cost[s]
  /\ \A p \in Port :
       /\ Honest(designated[p])
       /\ \A i \in DOMAIN channel[p] : Honest(channel[p][i])

\* The view of a switch is the view of its root port and one link more, the
\* segment of that port is served from its other end, and the switch serves
\* its own segments with that very view.  The code keeps root_port, the two
\* fields of the switch and the four of every port apart and refreshes them
\* one after another; root_port is never reset.
ViewFollowsRootPort ==
  \A s \in Switch :
    /\ IF root_port[s] = NoPort
       THEN designated_root[s] = s /\ root_path_cost[s] = 0
       ELSE LET d == designated[root_port[s]]
            IN  /\ d.switch = Peer[root_port[s]][1] /\ d.port = Peer[root_port[s]][2]
                /\ designated_root[s] = d.root
                /\ root_path_cost[s] = d.cost + 1
    /\ \A p \in PortsOf(s) :
         stp_port_is_designated(p) =>
           designated[p].root = designated_root[s] /\ designated[p].cost = root_path_cost[s]

\* The hello timer runs on the switches that take themselves for the root and
\* on no other: the code stops it in the middle of the root port election,
\* once, and nothing starts it again.
OnlyRootsSayHello ==
  \A s \in Switch : hello_active[s] <=> stp_is_root_switch(s)

\* No packet, however late, makes a switch or a port believe in a worse root
\* or a longer way to it.
BeliefsImprove ==
  [][/\ \A s \in Switch :
          \/ designated_root'[s] < designated_root[s]
          \/ /\ designated_root'[s] = designated_root[s]
             /\ root_path_cost'[s] <= root_path_cost[s]
     /\ \A p \in Port :
          \/ designated'[p] = designated[p]
          \/ Better(designated'[p], designated[p])]_vars

\* A port forwards if it is a root port or serves its segment (stp_port_state).
Forwards(p) == root_port[p[1]] = p \/ stp_port_is_designated(p)
TreePort == {p \in Port : Forwards(p) /\ Forwards(Peer[p])}

\* The forwarding links are one fewer than the switches, and along them every
\* switch reaches the smallest one by its shortest way: they are a tree.
SpanningTree ==
  LET root == Min(Switch)
  IN  /\ Cardinality(TreePort) = 2 * (Cardinality(Switch) - 1)
      /\ \A s \in Switch :
           /\ designated_root[s] = root
           /\ root_path_cost[s] = Dist[root][s]
           /\ s # root => /\ root_port[s] \in TreePort
                          /\ Dist[root][Peer[root_port[s]][1]] = Dist[root][s] - 1

\* The exchange of config packets ends in that tree and stays there, whatever
\* the order in which the switches say hello and answer each other.
TreeForms == <>[]SpanningTree
=============================================================================
