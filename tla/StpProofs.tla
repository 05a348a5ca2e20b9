----------------------------- MODULE StpProofs -----------------------------
(***************************************************************************)
(* What Stp promises on every network: no switch, port or packet ever      *)
(* claims to be closer to a root than it is.  The inductive invariant adds *)
(* who speaks on a link: a packet names the switch at its far end, a port  *)
(* believes only what that switch or its own switch says, and a switch's   *)
(* root port is one of its own ports.                                      *)
(***************************************************************************)
EXTENDS Stp, NumberLemmas

GoodView(s, root, cost) ==
  root \in Switch /\ cost \in Nat /\ Dist[root][s] <= cost

GoodPort(p, d) ==
  d \in Config /\ Honest(d) /\ d.switch \in {p[1], Peer[p][1]}

GoodPacket(p, c) ==
  c \in Config /\ Honest(c) /\ c.switch = Peer[p][1]

Carries(flight) ==
  /\ flight \in [Port -> Seq(Config)]
  /\ \A p \in Port : \A i \in DOMAIN flight[p] : GoodPacket(p, flight[p][i])

IInv ==
  /\ designated \in [Port -> Config]
  /\ \A p \in Port : GoodPort(p, designated[p])
  /\ config \in [Port -> Config \cup {NoConfig}]
  /\ designated_root \in [Switch -> Switch]
  /\ root_path_cost \in [Switch -> Nat]
  /\ \A s \in Switch : GoodView(s, designated_root[s], root_path_cost[s])
  /\ root_port \in [Switch -> Port \cup {NoPort}]
  /\ \A s \in Switch : root_port[s] \in PortsOf(s) \cup {NoPort}
  /\ hello_active \in [Switch -> BOOLEAN]
  /\ Carries(channel)
  /\ hellos \in [Switch -> Nat]
  /\ \A s \in Switch : hellos[s] <= MaxHello[s]

-----------------------------------------------------------------------------
\* The ends of a link are switches, one link apart.
LEMMA LinkFacts ==
  ASSUME NEW p \in Port
  PROVE  /\ p[1] \in Switch /\ p[2] \in Nat \ {0} /\ p = <<p[1], p[2]>>
         /\ Peer[p] \in Port /\ Peer[Peer[p]] = p
         /\ Peer[p][1] \in Switch
         /\ \A r \in Switch : /\ Dist[r][p[1]] \in Nat /\ Dist[r][Peer[p][1]] \in Nat
                              /\ Dist[r][p[1]] <= Dist[r][Peer[p][1]] + 1
<1>1. Port \subseteq Switch \X (Nat \ {0})
  BY StpAssumption DEF StpAssumption
<1>2. \A q \in Port : q[1] \in Switch /\ q[2] \in Nat \ {0} /\ q = <<q[1], q[2]>>
  BY <1>1
<1>3. Peer[p] \in Port /\ Peer[Peer[p]] = p
  BY StpAssumption DEF StpAssumption
<1>4. p[1] \in Switch /\ Peer[p][1] \in Switch
  BY <1>2, <1>3
<1>5. /\ Dist \in [Switch -> [Switch -> Nat]]
      /\ \A r \in Switch, q \in Port : Dist[r][q[1]] <= Dist[r][Peer[q][1]] + 1
  BY StpAssumption DEF StpAssumption
<1>6. \A r \in Switch : /\ Dist[r][p[1]] \in Nat /\ Dist[r][Peer[p][1]] \in Nat
                        /\ Dist[r][p[1]] <= Dist[r][Peer[p][1]] + 1
  BY <1>4, <1>5
<1> QED
  BY <1>2, <1>3, <1>4, <1>6

\* The loop over the ports elects a port of the switch, or none at all.
LEMMA ElectsOwnPort ==
  ASSUME NEW s \in Switch, NEW d, NEW r \in ElectRootPort(s, d),
         root_port[s] \in PortsOf(s) \cup {NoPort}
  PROVE  r \in PortsOf(s) \cup {NoPort}
  BY DEF ElectRootPort, RootPorts

\* One link past a believable neighbour is a believable view.
LEMMA ViewOfRootPort ==
  ASSUME NEW s \in Switch, NEW d \in [Port -> Config],
         \A p \in Port : GoodPort(p, d[p]),
         NEW r \in PortsOf(s) \cup {NoPort}
  PROVE  GoodView(s, DesignatedRoot(s, d, r), RootPathCost(d, r))
<1>1. CASE r = NoPort
  BY <1>1, StpAssumption DEF StpAssumption, GoodView, DesignatedRoot, RootPathCost
<1>2. CASE r # NoPort
  <2>1. r \in Port /\ r[1] = s
    BY <1>2 DEF PortsOf
  <2>2. /\ d[r].root \in Switch /\ d[r].cost \in Nat
        /\ Dist[d[r].root][d[r].switch] <= d[r].cost
        /\ d[r].switch \in {s, Peer[r][1]}
    BY <2>1 DEF GoodPort, Honest, Config
  <2>3. /\ Dist[d[r].root][s] \in Nat /\ Dist[d[r].root][Peer[r][1]] \in Nat
        /\ Dist[d[r].root][s] <= Dist[d[r].root][Peer[r][1]] + 1
    BY <2>1, <2>2, LinkFacts
  <2>4. Dist[d[r].root][s] <= d[r].cost + 1
    BY <2>2, <2>3
  <2> QED
    BY <1>2, <2>2, <2>4 DEF GoodView, DesignatedRoot, RootPathCost
<1> QED
  BY <1>1, <1>2

\* What a switch sends is as good as its view, and goes to its neighbours.
LEMMA SendCarries ==
  ASSUME NEW flight, Carries(flight), NEW s \in Switch,
         NEW ports \in SUBSET PortsOf(s),
         NEW root, NEW cost, NEW rootPort, GoodView(s, root, cost)
  PROVE  Carries(Send(flight, s, ports, root, cost, rootPort))
<1> DEFINE pkt(p) == [root |-> root, cost |-> cost, switch |-> s, port |-> Peer[p][2]]
           new == [p \in Port |-> IF Peer[p] \in ports
                                  THEN Append(flight[p], pkt(p)) ELSE flight[p]]
<1>1. ASSUME NEW p \in Port, Peer[p] \in ports
      PROVE  GoodPacket(p, pkt(p))
  <2>1. Peer[p] \in Port /\ Peer[p][1] = s /\ Peer[p][2] \in Nat \ {0}
    BY <1>1, LinkFacts DEF PortsOf
  <2> QED
    BY <2>1 DEF GoodPacket, GoodView, Honest, Config
<1>2. ASSUME NEW p \in Port
      PROVE  /\ new[p] \in Seq(Config)
             /\ \A i \in DOMAIN new[p] : GoodPacket(p, new[p][i])
  <2>1. flight[p] \in Seq(Config) /\ \A i \in DOMAIN flight[p] : GoodPacket(p, flight[p][i])
    BY DEF Carries
  <2>2. CASE Peer[p] \notin ports
    BY <2>1, <2>2
  <2>3. CASE Peer[p] \in ports
    <3>1. GoodPacket(p, pkt(p)) /\ pkt(p) \in Config
      BY <1>1, <2>3 DEF GoodPacket
    <3>2. new[p] = Append(flight[p], pkt(p))
      BY <2>3
    <3> HIDE DEF pkt
    <3>3. ASSUME NEW i \in DOMAIN new[p]
          PROVE  GoodPacket(p, new[p][i])
      <4>1. CASE i = Len(flight[p]) + 1
        BY <2>1, <3>1, <3>2, <4>1
      <4>2. CASE i # Len(flight[p]) + 1
        <5>1. i \in DOMAIN flight[p] /\ new[p][i] = flight[p][i]
          BY <2>1, <3>1, <3>2, <3>3, <4>2
        <5> QED
          BY <2>1, <5>1
      <4> QED
        BY <4>1, <4>2
    <3> QED
      BY <2>1, <3>1, <3>2, <3>3
  <2> QED
    BY <2>2, <2>3
<1>3. Carries(new)
  BY <1>2 DEF Carries
<1> QED
  BY <1>3 DEF Send

\* Taking the head off a channel leaves good packets only.
LEMMA TailCarries ==
  ASSUME Carries(channel), NEW p \in Port, channel[p] # <<>>
  PROVE  Carries([channel EXCEPT ![p] = Tail(@)])
<1> DEFINE new == [channel EXCEPT ![p] = Tail(@)]
<1>1. channel \in [Port -> Seq(Config)]
  BY DEF Carries
<1>2. ASSUME NEW q \in Port
      PROVE  /\ new[q] \in Seq(Config)
             /\ \A i \in DOMAIN new[q] : GoodPacket(q, new[q][i])
  <2>1. CASE q # p
    BY <1>1, <2>1 DEF Carries
  <2>2. CASE q = p
    <3>1. new[q] = Tail(channel[p]) /\ channel[p] \in Seq(Config)
      BY <1>1, <2>2
    <3>2. ASSUME NEW i \in DOMAIN new[q]
          PROVE  i + 1 \in DOMAIN channel[p] /\ new[q][i] = channel[p][i + 1]
      <4> HIDE DEF new
      <4>1. Len(channel[p]) \in Nat \ {0} /\ Len(Tail(channel[p])) = Len(channel[p]) - 1
        BY <3>1
      <4>2. i \in 1 .. Len(channel[p]) - 1
        BY <3>1, <3>2, <4>1
      <4> QED
        BY <3>1, <4>1, <4>2
    <3> QED
      BY <2>2, <3>1, <3>2 DEF Carries
  <2> QED
    BY <2>1, <2>2
<1> QED
  BY <1>1, <1>2 DEF Carries

\* A port that was good stays so when the switch refreshes it with its view.
LEMMA RefreshKeepsGood ==
  ASSUME NEW s \in Switch, NEW p \in PortsOf(s), NEW d, NEW heard,
         NEW root, NEW cost, GoodPort(p, d[p]), GoodView(s, root, cost)
  PROVE  GoodPort(p, Refresh(s, p, d, heard, root, cost))
<1>1. p \in Port /\ p[1] = s /\ p[2] \in Nat \ {0}
  BY LinkFacts DEF PortsOf
<1>2. CASE IsDesignated(p, d[p])
  <2>1. d[p] \in Config /\ d[p].switch = s
    BY <1>1, <1>2 DEF IsDesignated, GoodPort
  <2>2. Refresh(s, p, d, heard, root, cost)
          = [root |-> root, cost |-> cost, switch |-> s, port |-> d[p].port]
    BY <1>2, <2>1 DEF Refresh, Config
  <2>3. d[p].port \in Nat \ {0}
    BY <2>1 DEF Config
  <2> QED
    BY <1>1, <2>2, <2>3 DEF GoodPort, GoodView, Honest, Config
<1>3. CASE ~IsDesignated(p, d[p])
  BY <1>1, <1>3 DEF Refresh, GoodPort, GoodView, Honest, Config
<1> QED
  BY <1>2, <1>3

-----------------------------------------------------------------------------
LEMMA InitIInv == Init => IInv
<1> SUFFICES ASSUME Init PROVE IInv
  OBVIOUS
<1>0. Dist \in [Switch -> [Switch -> Nat]] /\ \A r \in Switch : Dist[r][r] = 0
  BY StpAssumption DEF StpAssumption
<1>1. ASSUME NEW p \in Port
      PROVE  GoodPort(p, designated[p]) /\ designated[p] \in Config
  <2>1. p[1] \in Switch /\ p[2] \in Nat \ {0}
    BY LinkFacts
  <2>2. designated[p] = [root |-> p[1], cost |-> 0, switch |-> p[1], port |-> p[2]]
    BY DEF Init
  <2>3. designated[p] \in Config
    BY <2>1, <2>2 DEF Config
  <2> QED
    BY <1>0, <2>1, <2>2, <2>3 DEF GoodPort, Honest
<1>2. \A s \in Switch : GoodView(s, designated_root[s], root_path_cost[s])
  BY StpAssumption DEF Init, GoodView, StpAssumption
<1>3. Carries(channel)
  BY DEF Init, Carries
<1>4. MaxHello \in [Switch -> Nat]
  BY StpAssumption DEF StpAssumption
<1>5. designated \in [Port -> Config]
  BY <1>1 DEF Init
<1>6. hellos \in [Switch -> Nat] /\ \A s \in Switch : hellos[s] <= MaxHello[s]
  BY <1>4 DEF Init
<1> QED
  BY <1>1, <1>2, <1>3, <1>5, <1>6 DEF Init, IInv

LEMMA HelloIInv ==
  ASSUME IInv, NEW s \in Switch, HelloTimeout(s)
  PROVE  IInv'
<1>1. GoodView(s, designated_root[s], root_path_cost[s]) /\ Carries(channel)
  BY DEF IInv
<1>2. {p \in PortsOf(s) : stp_port_is_designated(p)} \in SUBSET PortsOf(s)
  OBVIOUS
<1>3. Carries(channel')
  BY <1>1, <1>2, SendCarries DEF HelloTimeout
<1>4. hellos' \in [Switch -> Nat] /\ \A t \in Switch : hellos'[t] <= MaxHello[t]
  <2>1. MaxHello \in [Switch -> Nat]
    BY StpAssumption DEF StpAssumption
  <2>2. hellos \in [Switch -> Nat] /\ hellos[s] < MaxHello[s]
        /\ hellos' = [hellos EXCEPT ![s] = @ + 1]
        /\ \A t \in Switch : hellos[t] <= MaxHello[t]
    BY DEF IInv, HelloTimeout
  <2> QED
    BY <2>1, <2>2
<1> QED
  BY <1>3, <1>4 DEF IInv, HelloTimeout, switches, Carries, GoodPort, GoodView, GoodPacket, Honest

LEMMA AnswerIInv ==
  ASSUME IInv, NEW p \in Port, channel[p] # <<>>, Answer(p, Head(channel[p]))
  PROVE  IInv'
<1>1. p[1] \in Switch /\ {p} \in SUBSET PortsOf(p[1])
  BY LinkFacts DEF PortsOf
<1>2. GoodView(p[1], designated_root[p[1]], root_path_cost[p[1]]) /\ Carries(channel)
  BY <1>1 DEF IInv
<1>3. Carries(channel')
  BY <1>1, <1>2, TailCarries, SendCarries DEF Answer
<1>4. Head(channel[p]) \in Config
  BY <1>2 DEF Carries
<1>5. config' \in [Port -> Config \cup {NoConfig}]
  BY <1>4 DEF IInv, Answer
<1> QED
  BY <1>3, <1>5 DEF IInv, Answer, Carries, GoodPort, GoodView, GoodPacket, Honest

(* A better packet.  In the lemmas that follow, s is the switch, c the     *)
(* packet, d what the ports believe once p has taken c over, h what they   *)
(* have heard, and r, root and cost the outcome of the election.           *)

Elects(p, c, d, h, r, root, cost) ==
  /\ d = [designated EXCEPT ![p] = c]
  /\ h = [config EXCEPT ![p] = c]
  /\ r \in ElectRootPort(p[1], d)
  /\ root = DesignatedRoot(p[1], d, r) /\ cost = RootPathCost(d, r)

\* What Improve then leaves behind
Improved(p, c, d, h, r, root, cost) ==
  /\ Elects(p, c, d, h, r, root, cost)
  /\ config' = h
  /\ designated' = [q \in Port |-> IF q[1] = p[1] THEN Refresh(p[1], q, d, h, root, cost)
                                   ELSE designated[q]]
  /\ root_port' = [root_port EXCEPT ![p[1]] = r]
  /\ designated_root' = [designated_root EXCEPT ![p[1]] = root]
  /\ root_path_cost' = [root_path_cost EXCEPT ![p[1]] = cost]
  /\ hello_active' = [hello_active EXCEPT ![p[1]] = @ /\ ~StopsHello(p[1], d)]
  /\ channel' = Send([channel EXCEPT ![p] = Tail(@)], p[1],
                     {q \in PortsOf(p[1]) : IsDesignated(q, designated'[q])}, root, cost, r)
  /\ UNCHANGED hellos

LEMMA ImproveIs ==
  ASSUME NEW p \in Port, NEW c, Improve(p, c)
  PROVE  \E d, h, r, root, cost : Improved(p, c, d, h, r, root, cost)
<1> DEFINE Final(s, d, h, root, cost) ==
             [q \in Port |-> IF q[1] = s THEN Refresh(s, q, d, h, root, cost) ELSE designated[q]]
           Result(s, d, h, r, root, cost, final) ==
             /\ config' = h
             /\ designated' = final
             /\ root_port' = [root_port EXCEPT ![s] = r]
             /\ designated_root' = [designated_root EXCEPT ![s] = root]
             /\ root_path_cost' = [root_path_cost EXCEPT ![s] = cost]
             /\ hello_active' = [hello_active EXCEPT ![s] = @ /\ ~StopsHello(s, d)]
             /\ channel' = Send([channel EXCEPT ![p] = Tail(@)], s,
                                {q \in PortsOf(s) : IsDesignated(q, final[q])},
                                root, cost, r)
             /\ UNCHANGED hellos
<1>1. PICK s \in {p[1]}, d \in {[designated EXCEPT ![p] = c]}, h \in {[config EXCEPT ![p] = c]} :
        \E r \in ElectRootPort(s, d) :
        \E root \in {DesignatedRoot(s, d, r)}, cost \in {RootPathCost(d, r)} :
        \E final \in {Final(s, d, h, root, cost)} : Result(s, d, h, r, root, cost, final)
  BY Zenon DEF Improve
<1> HIDE DEF Result
<1>2. PICK r \in ElectRootPort(s, d) :
        \E root \in {DesignatedRoot(s, d, r)}, cost \in {RootPathCost(d, r)} :
        \E final \in {Final(s, d, h, root, cost)} : Result(s, d, h, r, root, cost, final)
  BY <1>1, Zenon
<1>3. PICK root \in {DesignatedRoot(s, d, r)}, cost \in {RootPathCost(d, r)} :
        \E final \in {Final(s, d, h, root, cost)} : Result(s, d, h, r, root, cost, final)
  BY <1>2, Zenon
<1>4. Result(s, d, h, r, root, cost, Final(s, d, h, root, cost))
  BY <1>3, Zenon
<1>5. s = p[1]
  BY <1>1
<1>6. Elects(p, c, d, h, r, root, cost)
  BY <1>1, <1>2, <1>3, <1>5 DEF Elects
<1>7. designated' = Final(s, d, h, root, cost)
  BY <1>4, Zenon DEF Result
<1>8. channel' = Send([channel EXCEPT ![p] = Tail(@)], s,
                      {q \in PortsOf(s) : IsDesignated(q, designated'[q])}, root, cost, r)
  <2> HIDE DEF Final
  <2> QED
    BY <1>4, <1>7, Zenon DEF Result
<1>9. Improved(p, c, d, h, r, root, cost)
  BY <1>4, <1>5, <1>6, <1>7, <1>8, Zenon DEF Improved, Result
<1> QED
  BY <1>9, Zenon

LEMMA ImproveIInv ==
  ASSUME IInv, NEW p \in Port, channel[p] # <<>>, Improve(p, Head(channel[p]))
  PROVE  IInv'
<1> DEFINE c == Head(channel[p])
           s == p[1]
<1>0. PICK d, h, r, root, cost : Improved(p, c, d, h, r, root, cost)
  BY ImproveIs, Zenon
<1>1. /\ Elects(p, c, d, h, r, root, cost)
      /\ config' = h
      /\ designated' = [q \in Port |-> IF q[1] = s THEN Refresh(s, q, d, h, root, cost)
                                       ELSE designated[q]]
      /\ root_port' = [root_port EXCEPT ![s] = r]
      /\ designated_root' = [designated_root EXCEPT ![s] = root]
      /\ root_path_cost' = [root_path_cost EXCEPT ![s] = cost]
      /\ hello_active' = [hello_active EXCEPT ![s] = @ /\ ~StopsHello(s, d)]
      /\ channel' = Send([channel EXCEPT ![p] = Tail(@)], s,
                         {q \in PortsOf(s) : IsDesignated(q, designated'[q])}, root, cost, r)
      /\ UNCHANGED hellos
  BY <1>0, Zenon DEF Improved
<1>2. s \in Switch /\ p \in PortsOf(s)
  BY LinkFacts DEF PortsOf
<1>3. GoodPacket(p, c)
  <2>1. channel[p] \in Seq(Config) /\ 1 \in DOMAIN channel[p] /\ c = channel[p][1]
    BY DEF IInv, Carries
  <2> QED
    BY <2>1 DEF IInv, Carries
<1>4. d \in [Port -> Config] /\ \A q \in Port : GoodPort(q, d[q])
  <2>1. d = [designated EXCEPT ![p] = c]
    BY <1>1 DEF Elects
  <2>2. c \in Config /\ GoodPort(p, c)
    BY <1>3 DEF GoodPort, GoodPacket
  <2> HIDE DEF c
  <2> QED
    BY <2>1, <2>2 DEF IInv
<1>5. r \in PortsOf(s) \cup {NoPort}
  BY <1>1, <1>2, ElectsOwnPort DEF IInv, Elects
<1>6. GoodView(s, root, cost)
  BY <1>1, <1>2, <1>4, <1>5, ViewOfRootPort DEF Elects
<1>7. \A q \in Port : GoodPort(q, designated'[q])
  <2> TAKE q \in Port
  <2>1. CASE q[1] = s
    <3>1. designated'[q] = Refresh(s, q, d, h, root, cost) /\ q \in PortsOf(s)
      BY <1>1, <2>1 DEF PortsOf
    <3> QED
      BY <1>2, <1>4, <1>6, <3>1, RefreshKeepsGood
  <2>2. CASE q[1] # s
    BY <1>1, <2>2 DEF IInv
  <2> QED
    BY <2>1, <2>2
<1>8. designated' \in [Port -> Config]
  <2>1. \A q \in Port : designated'[q] \in Config
    BY <1>7 DEF GoodPort
  <2> QED
    BY <1>1, <2>1
<1>9. Carries(channel')
  <2>1. {q \in PortsOf(s) : IsDesignated(q, designated'[q])} \in SUBSET PortsOf(s)
    OBVIOUS
  <2>2. Carries([channel EXCEPT ![p] = Tail(@)])
    BY TailCarries DEF IInv
  <2> QED
    BY <1>1, <1>2, <1>6, <2>1, <2>2, SendCarries
<1>10. config' \in [Port -> Config \cup {NoConfig}]
  BY <1>1, <1>3 DEF IInv, GoodPacket, Elects
<1>11. /\ designated_root' \in [Switch -> Switch]
       /\ root_path_cost' \in [Switch -> Nat]
       /\ \A t \in Switch : GoodView(t, designated_root'[t], root_path_cost'[t])
  BY <1>1, <1>2, <1>6 DEF IInv, GoodView
<1>12. /\ root_port' \in [Switch -> Port \cup {NoPort}]
       /\ \A t \in Switch : root_port'[t] \in PortsOf(t) \cup {NoPort}
  BY <1>1, <1>2, <1>5 DEF IInv, PortsOf
<1>13. hello_active' \in [Switch -> BOOLEAN]
  BY <1>1, Zenon DEF IInv
<1> QED
  BY <1>1, <1>7, <1>8, <1>9, <1>10, <1>11, <1>12, <1>13
     DEF IInv, Carries, GoodPort, GoodView, GoodPacket, Honest

\* Every step keeps the inductive invariant.
LEMMA StepIInv == IInv /\ [Next]_vars => IInv'
<1> SUFFICES ASSUME IInv, [Next]_vars PROVE IInv'
  OBVIOUS
<1>1. CASE \E s \in Switch : HelloTimeout(s)
  BY <1>1, HelloIInv
<1>2. CASE \E p \in Port : Receive(p)
  BY <1>2, AnswerIInv, ImproveIInv DEF Receive
<1>3. CASE UNCHANGED vars
  BY <1>3 DEF vars, switches, IInv, Carries, GoodPort, GoodView, GoodPacket, Honest
<1> QED
  BY <1>1, <1>2, <1>3 DEF Next

-----------------------------------------------------------------------------
\* On every network the state of the switches keeps its types, and a config
\* packet is never read on a port that has not received one.
THEOREM StpTypes == Spec => []TypeOK
<1>1. IInv => TypeOK
  BY DEF IInv, TypeOK, Carries
<1> QED
  BY <1>1, InitIInv, StepIInv, PTL DEF Spec

\* On every network, with every Dist that grows by at most one per link, no
\* switch, port or packet promises a shorter way to a root than there is
\* (stp_handle_config_packet: the cost of one's own link is added exactly once
\* whatever port the loop elects, be its information old or new).
THEOREM StpHonest == Spec => []NeverTooClose
<1>1. IInv => NeverTooClose
  BY DEF IInv, NeverTooClose, GoodView, GoodPort, GoodPacket, Carries
<1> QED
  BY <1>1, InitIInv, StepIInv, PTL DEF Spec
-----------------------------------------------------------------------------
(* A switch never believes in a worse view than before.  The links keep    *)
(* the order of packets, so what a port hears from the other end never     *)
(* gets worse either, and a port that does not serve its segment believes  *)
(* the last packet it heard.  The root port therefore keeps its segment's  *)
(* view when the others are refreshed, although Refresh compares with the  *)
(* last packet and not with the best.                                      *)

NoWorse(a, b) == a.root < b.root \/ (a.root = b.root /\ a.cost <= b.cost)

View(s) == [root |-> designated_root[s], cost |-> root_path_cost[s]]

\* Only a root is at no distance from its root.
FromPeer(p, c) ==
  /\ c.switch = Peer[p][1] /\ c.port = Peer[p][2]
  /\ c.cost = 0 => c.root = c.switch

\* What a port has heard, what is on its way to it, and what the far end
\* would say now, in this order.
LinkInOrder(p, heard, flight, view) ==
  /\ \A i \in DOMAIN flight :
       /\ FromPeer(p, flight[i])
       /\ heard # NoConfig => NoWorse(flight[i], heard)
       /\ \A j \in 1 .. i : NoWorse(flight[i], flight[j])
       /\ NoWorse(view, flight[i])
  /\ heard # NoConfig => NoWorse(view, heard)

PortOK(p) ==
  /\ LinkInOrder(p, config[p], channel[p], View(Peer[p][1]))
  /\ IF stp_port_is_designated(p)
     THEN designated[p].root = designated_root[p[1]] /\ designated[p].cost = root_path_cost[p[1]]
     ELSE FromPeer(p, designated[p]) /\ config[p] = designated[p]

SwitchOK(s) ==
  /\ IF root_port[s] = NoPort
     THEN /\ designated_root[s] = s /\ root_path_cost[s] = 0
          /\ \A p \in PortsOf(s) : stp_port_is_designated(p)
     ELSE LET d == designated[root_port[s]]
          IN  /\ ~stp_port_is_designated(root_port[s])
              /\ designated_root[s] = d.root /\ designated_root[s] < s
              /\ root_path_cost[s] = d.cost + 1
  /\ hello_active[s] <=> stp_is_root_switch(s)

ViewInv == IInv /\ (\A p \in Port : PortOK(p)) /\ (\A s \in Switch : SwitchOK(s))

-----------------------------------------------------------------------------
\* The order of config packets.
LEMMA ConfigIs ==
  ASSUME NEW c \in Config
  PROVE  /\ c.root \in Nat /\ c.root \in Switch /\ c.cost \in Nat
         /\ c.switch \in Nat /\ c.port \in Nat
  BY StpAssumption DEF Config

LEMMA BetterTransitive ==
  ASSUME NEW a \in Config, NEW b \in Config, NEW c \in Config, Better(a, b), Better(b, c)
  PROVE  Better(a, c)
<1>1. \A x \in {a, b, c} : /\ x.root \in Nat /\ x.cost \in Nat
                           /\ x.switch \in Nat /\ x.port \in Nat
  BY ConfigIs
<1> QED
  BY <1>1 DEF Better

\* Some port of a set has a view that none of the others beats.
LEMMA LeastPort ==
  ASSUME NEW d \in [Port -> Config], NEW C \in SUBSET Port, C # {}
  PROVE  \E p \in C : \A q \in C : ~Better(d[q], d[p])
<1>1. \A p \in C : /\ d[p].root \in Nat /\ d[p].cost \in Nat
                   /\ d[p].switch \in Nat /\ d[p].port \in Nat
  BY ConfigIs
<1>2. PICK a \in C : \A q \in C : d[a].root <= d[q].root
  <2>1. C # {} /\ [q \in C |-> d[q].root] \in [C -> Nat]
    BY <1>1
  <2>2. \E x \in C : \A q \in C : [y \in C |-> d[y].root][x] <= [y \in C |-> d[y].root][q]
    BY <2>1, LeastValue
  <2> QED
    BY <2>2
<1> DEFINE C1 == {q \in C : d[q].root = d[a].root}
<1>3. PICK b \in C1 : \A q \in C1 : d[b].cost <= d[q].cost
  <2>1. C1 # {} /\ [q \in C1 |-> d[q].cost] \in [C1 -> Nat]
    BY <1>1
  <2>2. \E x \in C1 : \A q \in C1 : [y \in C1 |-> d[y].cost][x] <= [y \in C1 |-> d[y].cost][q]
    BY <2>1, LeastValue
  <2> QED
    BY <2>2
<1> DEFINE C2 == {q \in C1 : d[q].cost = d[b].cost}
<1>4. PICK c \in C2 : \A q \in C2 : d[c].switch <= d[q].switch
  <2>1. C2 # {} /\ [q \in C2 |-> d[q].switch] \in [C2 -> Nat]
    BY <1>1
  <2>2. \E x \in C2 : \A q \in C2 : [y \in C2 |-> d[y].switch][x] <= [y \in C2 |-> d[y].switch][q]
    BY <2>1, LeastValue
  <2> QED
    BY <2>2
<1> DEFINE C3 == {q \in C2 : d[q].switch = d[c].switch}
<1>5. PICK e \in C3 : \A q \in C3 : d[e].port <= d[q].port
  <2>1. C3 # {} /\ [q \in C3 |-> d[q].port] \in [C3 -> Nat]
    BY <1>1
  <2> HIDE DEF C3
  <2>2. \E x \in C3 : \A q \in C3 : [y \in C3 |-> d[y].port][x] <= [y \in C3 |-> d[y].port][q]
    BY <2>1, LeastValue
  <2> QED
    BY <2>2
<1>6. \A q \in C : ~Better(d[q], d[e])
  <2> SUFFICES ASSUME NEW q \in C, Better(d[q], d[e]) PROVE FALSE
    OBVIOUS
  <2>1. /\ d[e].root = d[a].root /\ d[e].cost = d[b].cost /\ d[e].switch = d[c].switch /\ e \in C
    OBVIOUS
  <2>2. d[q].root = d[e].root
    BY <1>1, <1>2, <2>1 DEF Better
  <2>3. d[q].cost = d[e].cost
    BY <1>1, <1>3, <2>1, <2>2 DEF Better
  <2>4. d[q].switch = d[e].switch
    BY <1>1, <1>4, <2>1, <2>2, <2>3 DEF Better
  <2> QED
    BY <1>1, <1>5, <2>1, <2>2, <2>3, <2>4 DEF Better
<1> QED
  BY <1>6

\* The election of a switch one of whose ports does not serve its segment: the
\* elected port does not either, and none of its kind beats it.
LEMMA Elected ==
  ASSUME NEW s \in Switch, NEW d \in [Port -> Config], NEW r \in ElectRootPort(s, d),
         NEW p \in PortsOf(s), ~IsDesignated(p, d[p])
  PROVE  /\ RootPorts(s, d) # {}
         /\ r \in PortsOf(s) /\ ~IsDesignated(r, d[r])
         /\ \A q \in PortsOf(s) : ~IsDesignated(q, d[q]) => ~Better(d[q], d[r])
<1> DEFINE C == {q \in PortsOf(s) : ~IsDesignated(q, d[q])}
<1>1. C \in SUBSET Port /\ C # {}
  BY DEF PortsOf
<1>2. RootPorts(s, d) = {q \in C : \A x \in C : ~Better(d[x], d[q])}
  BY DEF RootPorts
<1> HIDE DEF C
<1>3. RootPorts(s, d) # {}
  BY <1>1, <1>2, LeastPort
<1>4. r \in RootPorts(s, d)
  BY <1>3 DEF ElectRootPort
<1> QED
  BY <1>2, <1>3, <1>4 DEF C

-----------------------------------------------------------------------------
\* The chain of a link: how a step of the far end, or of this one, keeps it.

\* No link joins a switch to itself.
LEMMA NoLoop ==
  ASSUME NEW p \in Port
  PROVE  Peer[p][1] # p[1]
  BY StpAssumption DEF StpAssumption

Comparable(a) == a.root \in Nat /\ a.cost \in Nat

LEMMA NoWorseTransitive ==
  ASSUME NEW a, NEW b, NEW c, Comparable(a), Comparable(b), Comparable(c),
         NoWorse(a, b), NoWorse(b, c)
  PROVE  NoWorse(a, c)
  BY DEF Comparable, NoWorse

\* The far end may improve its view.
LEMMA OrderView ==
  ASSUME NEW p \in Port, NEW heard \in Config \cup {NoConfig}, NEW flight \in Seq(Config),
         NEW view, NEW new, LinkInOrder(p, heard, flight, view),
         Comparable(view), Comparable(new), NoWorse(new, view)
  PROVE  LinkInOrder(p, heard, flight, new)
<1>1. \A i \in DOMAIN flight : Comparable(flight[i])
  BY ConfigIs DEF Comparable
<1>2. heard # NoConfig => Comparable(heard)
  BY ConfigIs DEF Comparable
<1> QED
  BY <1>1, <1>2, NoWorseTransitive DEF LinkInOrder

\* It may say what it believes.
LEMMA OrderAppend ==
  ASSUME NEW p \in Port, NEW heard \in Config \cup {NoConfig}, NEW flight \in Seq(Config),
         NEW c \in Config, LinkInOrder(p, heard, flight, c), FromPeer(p, c)
  PROVE  LinkInOrder(p, heard, Append(flight, c), c)
<1> DEFINE f == Append(flight, c)
           n == Len(flight) + 1
<1>1. /\ DOMAIN f = 1 .. n /\ DOMAIN flight = 1 .. Len(flight) /\ Len(flight) \in Nat
      /\ f[n] = c /\ \A i \in 1 .. Len(flight) : f[i] = flight[i]
  OBVIOUS
<1>2. NoWorse(c, c)
  BY ConfigIs DEF NoWorse
<1> HIDE DEF f
<1>3. ASSUME NEW i \in 1 .. n
      PROVE  /\ FromPeer(p, f[i])
             /\ heard # NoConfig => NoWorse(f[i], heard)
             /\ \A j \in 1 .. i : NoWorse(f[i], f[j])
             /\ NoWorse(c, f[i])
  <2>1. CASE i = n
    <3>1. ASSUME NEW j \in 1 .. i PROVE NoWorse(f[i], f[j])
      <4>1. CASE j = n
        BY <1>1, <1>2, <2>1, <4>1
      <4>2. CASE j # n
        <5>1. j \in 1 .. Len(flight)
          BY <1>1, <2>1, <4>2
        <5> QED
          BY <1>1, <2>1, <5>1 DEF LinkInOrder
      <4> QED
        BY <4>1, <4>2
    <3> QED
      BY <1>1, <1>2, <2>1, <3>1 DEF LinkInOrder
  <2>2. CASE i # n
    <3>1. i \in 1 .. Len(flight) /\ \A j \in 1 .. i : j \in 1 .. Len(flight)
      BY <1>1, <2>2
    <3> QED
      BY <1>1, <3>1 DEF LinkInOrder
  <2> QED
    BY <2>1, <2>2
<1> QED
  BY <1>1, <1>3 DEF LinkInOrder, f

\* The port may take the next packet.
LEMMA OrderTail ==
  ASSUME NEW p \in Port, NEW heard, NEW flight \in Seq(Config), NEW view,
         flight # <<>>, LinkInOrder(p, heard, flight, view)
  PROVE  LinkInOrder(p, Head(flight), Tail(flight), view)
<1> DEFINE f == Tail(flight)
<1>1. /\ Len(flight) \in Nat \ {0} /\ DOMAIN flight = 1 .. Len(flight)
      /\ Head(flight) = flight[1]
      /\ DOMAIN f = 1 .. Len(flight) - 1
      /\ \A i \in 1 .. Len(flight) - 1 : f[i] = flight[i + 1]
  OBVIOUS
<1> HIDE DEF f
<1>2. ASSUME NEW i \in 1 .. Len(flight) - 1
      PROVE  /\ FromPeer(p, f[i]) /\ NoWorse(f[i], flight[1])
             /\ \A j \in 1 .. i : NoWorse(f[i], f[j])
             /\ NoWorse(view, f[i])
  <2>1. i + 1 \in DOMAIN flight /\ 1 \in 1 .. i + 1
    BY <1>1
  <2>2. FromPeer(p, f[i]) /\ NoWorse(f[i], flight[1]) /\ NoWorse(view, f[i])
    BY <1>1, <2>1 DEF LinkInOrder
  <2>3. ASSUME NEW j \in 1 .. i PROVE NoWorse(f[i], f[j])
    <3>1. j \in 1 .. Len(flight) - 1 /\ j + 1 \in 1 .. i + 1
      BY <1>1
    <3> QED
      BY <1>1, <2>1, <3>1 DEF LinkInOrder
  <2> QED
    BY <2>2, <2>3
<1>3. NoWorse(view, flight[1])
  BY <1>1 DEF LinkInOrder
<1> QED
  BY <1>1, <1>2, <1>3 DEF LinkInOrder, f

\* What a switch says on its ports is its view.
LEMMA OrderSend ==
  ASSUME NEW s \in Switch, NEW ports \in SUBSET PortsOf(s), NEW flight \in [Port -> Seq(Config)],
         NEW root \in Switch, NEW cost \in Nat, NEW rootPort, cost = 0 => root = s,
         NEW p \in Port, NEW heard \in Config \cup {NoConfig}, NEW view,
         Peer[p][1] = s => view.root = root /\ view.cost = cost,
         LinkInOrder(p, heard, flight[p], view)
  PROVE  LinkInOrder(p, heard, Send(flight, s, ports, root, cost, rootPort)[p], view)
<1> DEFINE c == [root |-> root, cost |-> cost, switch |-> s, port |-> Peer[p][2]]
           sent == Send(flight, s, ports, root, cost, rootPort)[p]
<1>1. sent = flight[p] \/ (Peer[p] \in ports /\ sent = Append(flight[p], c))
  BY DEF Send
<1> HIDE DEF sent
<1>2. ASSUME sent = flight[p] PROVE LinkInOrder(p, heard, sent, view)
  BY <1>2
<1>3. ASSUME Peer[p] \in ports, sent = Append(flight[p], c) PROVE LinkInOrder(p, heard, sent, view)
  <2>1. Peer[p][1] = s /\ Peer[p][2] \in Nat \ {0}
    BY <1>3, LinkFacts DEF PortsOf
  <2>2. c \in Config /\ FromPeer(p, c) /\ c.root = view.root /\ c.cost = view.cost
    BY <2>1 DEF Config, FromPeer
  <2> HIDE DEF c
  <2>3. LinkInOrder(p, heard, flight[p], c)
    BY <2>2 DEF LinkInOrder, NoWorse
  <2>4. LinkInOrder(p, heard, sent, c)
    BY <1>3, <2>2, <2>3, OrderAppend
  <2> QED
    BY <2>2, <2>4 DEF LinkInOrder, NoWorse
<1>4. LinkInOrder(p, heard, sent, view)
  BY <1>1, <1>2, <1>3
<1> QED
  BY <1>4 DEF sent

\* Of two packets of one neighbour the later is the same or beats the earlier.
LEMMA SamePeer ==
  ASSUME NEW p \in Port, NEW a \in Config, NEW b \in Config,
         FromPeer(p, a), FromPeer(p, b), NoWorse(a, b), ~Better(a, b)
  PROVE  a = b
<1>1. a.root = b.root /\ a.cost = b.cost
  BY ConfigIs DEF NoWorse, Better
<1>2. a.switch = b.switch /\ a.port = b.port
  BY DEF FromPeer
<1> QED
  BY <1>1, <1>2 DEF Config

LEMMA ViewIs ==
  ASSUME ViewInv, NEW s \in Switch
  PROVE  /\ designated_root[s] \in Switch /\ root_path_cost[s] \in Nat
         /\ View(s).root = designated_root[s] /\ View(s).cost = root_path_cost[s]
         /\ Comparable(View(s))
         /\ root_path_cost[s] = 0 => designated_root[s] = s
<1>1. designated_root[s] \in Switch /\ root_path_cost[s] \in Nat /\ Switch \subseteq Nat
  BY StpAssumption DEF ViewInv, IInv
<1>2. root_path_cost[s] = 0 => designated_root[s] = s
  <2>1. CASE root_port[s] = NoPort
    BY <2>1 DEF ViewInv, SwitchOK
  <2>2. CASE root_port[s] # NoPort
    <3>1. designated[root_port[s]].cost \in Nat
      BY <2>2, ConfigIs DEF ViewInv, IInv
    <3> QED
      BY <2>2, <3>1 DEF ViewInv, SwitchOK
  <2> QED
    BY <2>1, <2>2
<1> QED
  BY <1>1, <1>2 DEF View, Comparable

-----------------------------------------------------------------------------
LEMMA ViewInit == Init => ViewInv
<1> SUFFICES ASSUME Init PROVE ViewInv
  OBVIOUS
<1>1. \A p \in Port : stp_port_is_designated(p)
  BY DEF Init, stp_port_is_designated, IsDesignated
<1>2. \A p \in Port : PortOK(p)
  BY <1>1, LinkFacts DEF Init, PortOK, LinkInOrder
<1>3. \A s \in Switch : SwitchOK(s)
  BY <1>1 DEF Init, SwitchOK, PortsOf, stp_is_root_switch
<1> QED
  BY <1>2, <1>3, InitIInv DEF ViewInv

LEMMA HelloView ==
  ASSUME ViewInv, NEW s \in Switch, HelloTimeout(s)
  PROVE  ViewInv'
<1>1. IInv'
  BY HelloIInv DEF ViewInv
<1>2. UNCHANGED <<switches, hello_active>>
  BY DEF HelloTimeout
<1>3. ASSUME NEW p \in Port
      PROVE  LinkInOrder(p, config[p], channel'[p], View(Peer[p][1]))
  <2>1. /\ channel \in [Port -> Seq(Config)] /\ config[p] \in Config \cup {NoConfig}
        /\ LinkInOrder(p, config[p], channel[p], View(Peer[p][1]))
    BY DEF ViewInv, IInv, Carries, PortOK
  <2>2. {q \in PortsOf(s) : stp_port_is_designated(q)} \in SUBSET PortsOf(s)
    OBVIOUS
  <2>3. /\ designated_root[s] \in Switch /\ root_path_cost[s] \in Nat
        /\ root_path_cost[s] = 0 => designated_root[s] = s
        /\ Peer[p][1] = s => /\ View(Peer[p][1]).root = designated_root[s]
                             /\ View(Peer[p][1]).cost = root_path_cost[s]
    BY ViewIs
  <2>4. channel' = Send(channel, s, {q \in PortsOf(s) : stp_port_is_designated(q)},
                        designated_root[s], root_path_cost[s], root_port[s])
    BY DEF HelloTimeout
  <2> QED
    BY <2>1, <2>2, <2>3, <2>4, OrderSend
<1>4. \A p \in Port : PortOK(p)'
  BY <1>2, <1>3 DEF ViewInv, PortOK, LinkInOrder, View, switches, stp_port_is_designated
<1>5. \A t \in Switch : SwitchOK(t)'
  BY <1>2 DEF ViewInv, SwitchOK, switches, stp_port_is_designated, stp_is_root_switch
<1> QED
  BY <1>1, <1>4, <1>5 DEF ViewInv

\* The packet that is taken next
LEMMA NextPacket ==
  ASSUME ViewInv, NEW p \in Port, channel[p] # <<>>
  PROVE  /\ Head(channel[p]) \in Config /\ FromPeer(p, Head(channel[p]))
         /\ config[p] # NoConfig => NoWorse(Head(channel[p]), config[p])
         /\ LinkInOrder(p, Head(channel[p]), Tail(channel[p]), View(Peer[p][1]))
<1>1. channel[p] \in Seq(Config) /\ LinkInOrder(p, config[p], channel[p], View(Peer[p][1]))
  BY DEF ViewInv, IInv, Carries, PortOK
<1>2. Head(channel[p]) = channel[p][1] /\ 1 \in DOMAIN channel[p]
  BY <1>1
<1> QED
  BY <1>1, <1>2, OrderTail DEF LinkInOrder

LEMMA AnswerView ==
  ASSUME ViewInv, NEW p \in Port, channel[p] # <<>>, ~Better(Head(channel[p]), designated[p]),
         Answer(p, Head(channel[p]))
  PROVE  ViewInv'
<1> DEFINE c == Head(channel[p])
           s == p[1]
           rest == [channel EXCEPT ![p] = Tail(@)]
<1>1. IInv'
  BY AnswerIInv DEF ViewInv
<1>2. /\ UNCHANGED <<designated, designated_root, root_path_cost, root_port, hello_active>>
      /\ config' = [config EXCEPT ![p] = c]
  BY DEF Answer
<1>3. s \in Switch /\ {p} \in SUBSET PortsOf(s)
  BY LinkFacts DEF PortsOf
<1>4. /\ channel \in [Port -> Seq(Config)] /\ config \in [Port -> Config \cup {NoConfig}]
      /\ rest \in [Port -> Seq(Config)] /\ c \in Config
  BY NextPacket, TailCarries DEF ViewInv, IInv, Carries
<1>5. channel' = Send(rest, s, {p}, designated_root[s], root_path_cost[s], root_port[s])
  BY DEF Answer
<1> HIDE DEF c, rest
<1>6. ASSUME NEW q \in Port
      PROVE  LinkInOrder(q, config'[q], channel'[q], View(Peer[q][1]))
  <2>1. LinkInOrder(q, config'[q], rest[q], View(Peer[q][1]))
    BY <1>2, <1>4, NextPacket DEF ViewInv, PortOK, rest, c
  <2>2. config'[q] \in Config \cup {NoConfig}
    BY <1>2, <1>4
  <2>3. /\ designated_root[s] \in Switch /\ root_path_cost[s] \in Nat
        /\ root_path_cost[s] = 0 => designated_root[s] = s
        /\ Peer[q][1] = s => /\ View(Peer[q][1]).root = designated_root[s]
                             /\ View(Peer[q][1]).cost = root_path_cost[s]
    BY <1>3, ViewIs
  <2> HIDE DEF s
  <2> QED
    BY <1>3, <1>4, <1>5, <2>1, <2>2, <2>3, OrderSend
<1>7. ASSUME ~stp_port_is_designated(p) PROVE c = designated[p]
  <2>1. FromPeer(p, designated[p]) /\ config[p] = designated[p] /\ designated[p] \in Config
    BY <1>7 DEF ViewInv, IInv, PortOK
  <2>2. FromPeer(p, c) /\ NoWorse(c, designated[p])
    BY <2>1, NextPacket, NoConfigAssumption DEF c
  <2> QED
    BY <1>4, <2>1, <2>2, SamePeer DEF c
<1>8. \A q \in Port : PortOK(q)'
  BY <1>2, <1>4, <1>6, <1>7 DEF ViewInv, PortOK, LinkInOrder, View, stp_port_is_designated
<1>9. \A t \in Switch : SwitchOK(t)'
  BY <1>2 DEF ViewInv, SwitchOK, stp_port_is_designated, stp_is_root_switch
<1> QED
  BY <1>1, <1>8, <1>9 DEF ViewInv

-----------------------------------------------------------------------------
\* The election: the new view is no worse than the old one, whoever is elected.
LEMMA ElectionImproves ==
  ASSUME ViewInv, NEW p \in Port, NEW c \in Config, FromPeer(p, c), Better(c, designated[p]),
         NEW d, NEW h, NEW r, NEW root, NEW cost, Elects(p, c, d, h, r, root, cost)
  PROVE  /\ d \in [Port -> Config]
         /\ r \in PortsOf(p[1]) /\ ~IsDesignated(r, d[r]) /\ RootPorts(p[1], d) # {}
         /\ root \in Switch /\ cost \in Nat
         /\ root = d[r].root /\ cost = d[r].cost + 1
         /\ NoWorse([root |-> root, cost |-> cost], View(p[1]))
         /\ root < p[1]
<1> DEFINE s == p[1]
<1>1. s \in Switch /\ s \in Nat /\ p \in PortsOf(s)
  BY LinkFacts, StpAssumption DEF PortsOf
<1>2. d \in [Port -> Config] /\ d[p] = c /\ \A q \in Port : q # p => d[q] = designated[q]
  BY DEF Elects, ViewInv, IInv
<1>3. ~IsDesignated(p, c)
  BY NoLoop DEF FromPeer, IsDesignated
<1>4. /\ RootPorts(s, d) # {}
      /\ r \in PortsOf(s) /\ ~IsDesignated(r, d[r])
      /\ \A q \in PortsOf(s) : ~IsDesignated(q, d[q]) => ~Better(d[q], d[r])
  BY <1>1, <1>2, <1>3, Elected DEF Elects
<1>5. r \in Port /\ r # NoPort /\ d[r] \in Config
  BY <1>2, <1>4, StpAssumption DEF PortsOf
<1>6. root = d[r].root /\ cost = d[r].cost + 1 /\ root \in Switch /\ root \in Nat /\ cost \in Nat
  BY <1>5, ConfigIs DEF Elects, DesignatedRoot, RootPathCost
<1>7. /\ designated_root[s] \in Nat /\ root_path_cost[s] \in Nat
      /\ View(s).root = designated_root[s] /\ View(s).cost = root_path_cost[s]
  BY <1>1, ViewIs, StpAssumption
<1>8. CASE root_port[s] = NoPort
  <2>1. /\ designated_root[s] = s /\ root_path_cost[s] = 0
        /\ \A q \in PortsOf(s) : stp_port_is_designated(q)
    BY <1>1, <1>8 DEF ViewInv, SwitchOK
  <2>2. r = p
    <3>1. ASSUME r # p PROVE FALSE
      <4>1. d[r] = designated[r]
        BY <1>2, <1>5, <3>1
      <4> QED
        BY <1>4, <2>1, <4>1 DEF stp_port_is_designated
    <3> QED
      BY <3>1
  <2>3. designated[p].root = s /\ designated[p].cost = 0 /\ designated[p].switch = s
    BY <1>1, <2>1 DEF ViewInv, PortOK, stp_port_is_designated, IsDesignated
  <2>4. c.root < s
    <3>1. ASSUME c.root = s PROVE FALSE
      <4>1. c.cost = 0
        BY <2>3, <3>1, ConfigIs DEF Better, ViewInv, IInv
      <4> QED
        BY <3>1, <4>1, NoLoop DEF FromPeer
    <3> QED
      BY <2>3, <3>1, ConfigIs DEF Better
  <2> QED
    BY <1>2, <1>4, <1>6, <1>7, <2>1, <2>2, <2>4 DEF NoWorse
<1>9. CASE root_port[s] # NoPort
  <2> DEFINE o == root_port[s]
  <2>1. /\ o \in Port /\ o \in PortsOf(s) /\ ~stp_port_is_designated(o)
        /\ designated_root[s] = designated[o].root /\ designated_root[s] < s
        /\ root_path_cost[s] = designated[o].cost + 1
    BY <1>1, <1>9 DEF ViewInv, IInv, SwitchOK
  <2>2. ~IsDesignated(o, d[o])
    BY <1>2, <1>3, <2>1 DEF stp_port_is_designated
  <2>3. d[o] = designated[o] \/ Better(d[o], designated[o])
    BY <1>2, <2>1
  <2>4. ~Better(d[o], d[r])
    BY <1>4, <2>1, <2>2
  <2>5. /\ designated[o].root \in Nat /\ designated[o].cost \in Nat
        /\ d[o].root \in Nat /\ d[o].cost \in Nat /\ d[r].root \in Nat /\ d[r].cost \in Nat
    BY <1>2, <1>5, <2>1, ConfigIs DEF ViewInv, IInv
  <2>6. /\ d[o].root < designated[o].root
           \/ (d[o].root = designated[o].root /\ d[o].cost <= designated[o].cost)
        /\ d[r].root < d[o].root \/ (d[r].root = d[o].root /\ d[r].cost <= d[o].cost)
    BY <2>3, <2>4, <2>5 DEF Better
  <2>7. d[r].root < designated_root[s]
        \/ (d[r].root = designated_root[s] /\ d[r].cost + 1 <= root_path_cost[s])
    BY <2>1, <2>5, <2>6
  <2> HIDE DEF o
  <2>8. NoWorse([root |-> root, cost |-> cost], View(s))
    BY <1>6, <1>7, <2>7 DEF NoWorse
  <2>9. root < s
    BY <1>1, <1>6, <1>7, <2>1, <2>7
  <2> QED
    BY <1>2, <1>4, <1>6, <2>8, <2>9
<1> QED
  BY <1>8, <1>9

\* The refreshed ports: each serves its segment with the new view or still
\* believes the last packet it heard, and none believes less than before.
LEMMA RefreshIs ==
  ASSUME ViewInv, NEW p \in Port, NEW c \in Config, FromPeer(p, c), Better(c, designated[p]),
         NEW d, NEW h, NEW r, NEW root, NEW cost, Elects(p, c, d, h, r, root, cost),
         NEW q \in PortsOf(p[1])
  PROVE  LET new == Refresh(p[1], q, d, h, root, cost)
         IN  /\ IF IsDesignated(q, new) THEN new.root = root /\ new.cost = cost
                ELSE FromPeer(q, new) /\ h[q] = new
             /\ q = r => new = d[q] /\ ~IsDesignated(q, new)
             /\ new = designated[q] \/ Better(new, designated[q])
<1> DEFINE s == p[1]
           new == Refresh(p[1], q, d, h, root, cost)
           view == [root |-> root, cost |-> cost, switch |-> s, port |-> q[2]]
<1>1. q \in Port /\ q[1] = s /\ s \in Switch /\ q[2] \in Nat \ {0}
  BY LinkFacts DEF PortsOf
<1>2. /\ d \in [Port -> Config] /\ root \in Switch /\ cost \in Nat /\ root \in Nat
      /\ root = d[r].root /\ cost = d[r].cost + 1 /\ ~IsDesignated(r, d[r]) /\ r \in PortsOf(s)
      /\ NoWorse([root |-> root, cost |-> cost], View(s))
  <2>1. /\ d \in [Port -> Config] /\ root \in Switch /\ cost \in Nat
        /\ root = d[r].root /\ cost = d[r].cost + 1 /\ ~IsDesignated(r, d[r]) /\ r \in PortsOf(s)
        /\ NoWorse([root |-> root, cost |-> cost], View(s))
    <3> HIDE DEF view, new
    <3> QED
      BY ElectionImproves
  <2>2. Switch \subseteq Nat
    BY StpAssumption
  <2> QED
    BY <2>1, <2>2
<1>3. /\ designated \in [Port -> Config] /\ config \in [Port -> Config \cup {NoConfig}]
      /\ d = [designated EXCEPT ![p] = c] /\ h = [config EXCEPT ![p] = c]
  BY DEF ViewInv, IInv, Elects
<1>4. ASSUME ~IsDesignated(q, d[q]) PROVE FromPeer(q, d[q]) /\ h[q] = d[q]
  BY <1>1, <1>3, <1>4 DEF ViewInv, PortOK, stp_port_is_designated
<1>5. d[q] = designated[q] \/ Better(d[q], designated[q])
  BY <1>1, <1>3
<1>6. view \in Config
  BY <1>1, <1>2 DEF Config
<1>7. CASE IsDesignated(q, d[q])
  <2>1. q # p /\ q # r
    BY <1>1, <1>2, <1>3, <1>7, NoLoop DEF FromPeer, IsDesignated
  <2>2. d[q] = designated[q] /\ d[q] \in Config
    BY <1>1, <1>3, <2>1
  <2>3. new = [d[q] EXCEPT !.root = root, !.cost = cost]
    BY <1>7 DEF Refresh
  <2>4. /\ new.root = root /\ new.cost = cost /\ new.switch = d[q].switch /\ new.port = d[q].port
        /\ new \in Config
    BY <1>2, <2>2, <2>3 DEF Config
  <2>5. IsDesignated(q, new)
    BY <1>7, <2>4 DEF IsDesignated
  <2>6. d[q].root = designated_root[s] /\ d[q].cost = root_path_cost[s]
    BY <1>1, <1>7, <2>2 DEF ViewInv, PortOK, stp_port_is_designated
  <2>7. root < d[q].root \/ (root = d[q].root /\ cost <= d[q].cost)
    BY <1>1, <1>2, <2>6, ViewIs DEF NoWorse
  <2> HIDE DEF new
  <2>8. new = d[q] \/ Better(new, d[q])
    <3>1. CASE root = d[q].root /\ cost = d[q].cost
      BY <2>2, <2>4, <3>1 DEF Config
    <3>2. CASE ~(root = d[q].root /\ cost = d[q].cost)
      <4>1. d[q].cost \in Nat
        BY <2>2, ConfigIs
      <4> QED
        BY <1>2, <2>4, <2>7, <3>2, <4>1 DEF Better
    <3> QED
      BY <3>1, <3>2
  <2> QED
    BY <2>1, <2>2, <2>4, <2>5, <2>8 DEF new
<1>8. CASE ~IsDesignated(q, d[q]) /\ Better(view, h[q])
  <2>1. h[q] = d[q] /\ d[q] \in Config /\ designated[q] \in Config
    BY <1>1, <1>2, <1>3, <1>4, <1>8
  <2>2. new = view
    BY <1>8 DEF Refresh
  <2>3. q # r
    <3>1. ASSUME q = r PROVE FALSE
      <4>1. d[q].cost \in Nat /\ d[q].root \in Nat
        BY <2>1, ConfigIs
      <4>2. view.root = d[q].root /\ view.cost = d[q].cost + 1
        BY <1>2, <3>1
      <4> QED
        BY <1>8, <2>1, <4>1, <4>2 DEF Better
    <3> QED
      BY <3>1
  <2>4. IsDesignated(q, new) /\ new.root = root /\ new.cost = cost
    BY <1>1, <2>2 DEF IsDesignated
  <2>5. Better(new, designated[q])
    BY <1>5, <1>6, <1>8, <2>1, <2>2, BetterTransitive
  <2> QED
    BY <2>3, <2>4, <2>5
<1>9. CASE ~IsDesignated(q, d[q]) /\ ~Better(view, h[q])
  <2>1. new = d[q]
    BY <1>9 DEF Refresh
  <2> QED
    BY <1>4, <1>5, <1>9, <2>1
<1> QED
  BY <1>7, <1>8, <1>9

Improvement ==
  /\ \A s \in Switch :
       \/ designated_root'[s] < designated_root[s]
       \/ /\ designated_root'[s] = designated_root[s]
          /\ root_path_cost'[s] <= root_path_cost[s]
  /\ \A p \in Port :
       \/ designated'[p] = designated[p]
       \/ Better(designated'[p], designated[p])

LEMMA ImproveView ==
  ASSUME ViewInv, NEW p \in Port, channel[p] # <<>>, Better(Head(channel[p]), designated[p]),
         Improve(p, Head(channel[p]))
  PROVE  ViewInv' /\ Improvement
<1> DEFINE c == Head(channel[p])
           s == p[1]
           rest == [channel EXCEPT ![p] = Tail(@)]
<1>1. PICK d, h, r, root, cost : Improved(p, c, d, h, r, root, cost)
  BY ImproveIs, Zenon
<1>2. /\ Elects(p, c, d, h, r, root, cost)
      /\ config' = [config EXCEPT ![p] = c]
      /\ config' = h
      /\ designated' = [q \in Port |-> IF q[1] = s THEN Refresh(s, q, d, h, root, cost)
                                       ELSE designated[q]]
      /\ root_port' = [root_port EXCEPT ![s] = r]
      /\ designated_root' = [designated_root EXCEPT ![s] = root]
      /\ root_path_cost' = [root_path_cost EXCEPT ![s] = cost]
      /\ hello_active' = [hello_active EXCEPT ![s] = @ /\ ~StopsHello(s, d)]
      /\ channel' = Send(rest, s, {q \in PortsOf(s) : IsDesignated(q, designated'[q])},
                         root, cost, r)
  BY <1>1, Zenon DEF Improved, Elects
<1>3. IInv'
  BY ImproveIInv DEF ViewInv
<1>4. c \in Config /\ FromPeer(p, c)
  BY NextPacket
<1>5. s \in Switch /\ p \in PortsOf(s)
  BY LinkFacts DEF PortsOf
<1>6. /\ d \in [Port -> Config]
      /\ r \in PortsOf(s) /\ ~IsDesignated(r, d[r]) /\ RootPorts(s, d) # {}
      /\ root \in Switch /\ cost \in Nat
      /\ root = d[r].root /\ cost = d[r].cost + 1
      /\ NoWorse([root |-> root, cost |-> cost], View(s))
      /\ root < s
  <2> HIDE DEF c
  <2> QED
    BY <1>2, <1>4, ElectionImproves DEF c
<1>7. ASSUME NEW q \in PortsOf(s)
      PROVE  /\ IF stp_port_is_designated(q)'
                THEN designated'[q].root = root /\ designated'[q].cost = cost
                ELSE FromPeer(q, designated'[q]) /\ config'[q] = designated'[q]
             /\ q = r => designated'[q] = d[q] /\ ~stp_port_is_designated(q)'
             /\ designated'[q] = designated[q] \/ Better(designated'[q], designated[q])
  <2>1. designated'[q] = Refresh(s, q, d, h, root, cost)
    BY <1>2 DEF PortsOf
  <2> HIDE DEF c
  <2>2. LET new == Refresh(p[1], q, d, h, root, cost)
        IN  /\ IF IsDesignated(q, new) THEN new.root = root /\ new.cost = cost
               ELSE FromPeer(q, new) /\ h[q] = new
            /\ q = r => new = d[q] /\ ~IsDesignated(q, new)
            /\ new = designated[q] \/ Better(new, designated[q])
    BY <1>2, <1>4, RefreshIs DEF c
  <2> QED
    BY <1>2, <2>1, <2>2 DEF stp_port_is_designated
<1>8. /\ channel \in [Port -> Seq(Config)] /\ config \in [Port -> Config \cup {NoConfig}]
      /\ designated_root \in [Switch -> Switch] /\ root_path_cost \in [Switch -> Nat]
      /\ root_port \in [Switch -> Port \cup {NoPort}] /\ hello_active \in [Switch -> BOOLEAN]
      /\ rest \in [Port -> Seq(Config)]
  BY TailCarries DEF ViewInv, IInv, Carries
<1>9. /\ designated_root'[s] = root /\ root_path_cost'[s] = cost
      /\ \A t \in Switch : t # s => /\ designated_root'[t] = designated_root[t]
                                    /\ root_path_cost'[t] = root_path_cost[t]
                                    /\ root_port'[t] = root_port[t]
                                    /\ hello_active'[t] = hello_active[t]
      /\ \A q \in Port : q[1] # s => designated'[q] = designated[q] /\ config'[q] = config[q]
  BY <1>2, <1>5, <1>8
<1>10. ASSUME NEW q \in Port
       PROVE  LinkInOrder(q, config'[q], channel'[q], View(Peer[q][1])')
  <2> DEFINE t == Peer[q][1]
             old == View(t)
             new == View(t)'
  <2>1. LinkInOrder(q, config'[q], rest[q], old)
    <3>1. CASE q = p
      BY <1>2, <1>8, <3>1, NextPacket
    <3>2. CASE q # p
      BY <1>2, <1>8, <3>2 DEF ViewInv, PortOK
    <3> QED
      BY <3>1, <3>2
  <2>2. t \in Switch /\ Comparable(old)
    BY LinkFacts, ViewIs
  <2>3. new.root = designated_root'[t] /\ new.cost = root_path_cost'[t]
    BY DEF View
  <2>4. Comparable(new) /\ NoWorse(new, old) /\ (t = s => new.root = root /\ new.cost = cost)
    <3>1. CASE t = s
      <4>1. root \in Nat
        BY <1>6, StpAssumption
      <4> QED
        BY <1>6, <1>9, <2>3, <3>1, <4>1 DEF Comparable, NoWorse
    <3>2. CASE t # s
      <4>1. new.root = old.root /\ new.cost = old.cost
        BY <1>9, <2>2, <2>3, <3>2 DEF View
      <4> QED
        BY <2>2, <3>2, <4>1 DEF Comparable, NoWorse
    <3> QED
      BY <3>1, <3>2
  <2>5. config'[q] \in Config \cup {NoConfig} /\ rest[q] \in Seq(Config)
    BY <1>3, <1>8 DEF IInv
  <2> HIDE DEF old, new, rest
  <2>6. LinkInOrder(q, config'[q], rest[q], new)
    BY <2>1, <2>2, <2>4, <2>5, OrderView
  <2>7. {x \in PortsOf(s) : IsDesignated(x, designated'[x])} \in SUBSET PortsOf(s)
    OBVIOUS
  <2>8. cost # 0 /\ channel' = Send(rest, s, {x \in PortsOf(s) : IsDesignated(x, designated'[x])},
                                    root, cost, r)
    <3>1. d[r].cost \in Nat
      BY <1>6, ConfigIs DEF PortsOf
    <3> QED
      BY <1>2, <1>6, <3>1
  <2> HIDE DEF s
  <2>9. LinkInOrder(q, config'[q], channel'[q], new)
    BY <1>5, <1>6, <1>8, <2>4, <2>5, <2>6, <2>7, <2>8, OrderSend
  <2> QED
    BY <2>9 DEF new
<1>11. ASSUME NEW q \in Port PROVE PortOK(q)'
  <2>1. CASE q[1] = s
    BY <1>7, <1>9, <1>10, <2>1 DEF PortOK, PortsOf, LinkInOrder
  <2>2. CASE q[1] # s
    <3>1. q[1] \in Switch
      BY LinkFacts
    <3> QED
      BY <1>9, <1>10, <2>2, <3>1 DEF PortOK, LinkInOrder, ViewInv, stp_port_is_designated
  <2> QED
    BY <2>1, <2>2
<1>12. ASSUME NEW t \in Switch PROVE SwitchOK(t)'
  <2>1. CASE t = s
    <3>1. root_port'[s] = r /\ r # NoPort /\ r \in PortsOf(s)
      BY <1>2, <1>5, <1>6, <1>8, StpAssumption DEF PortsOf
    <3>2. ~stp_port_is_designated(r)' /\ designated'[r] = d[r]
      BY <1>6, <1>7
    <3>3. ~hello_active'[s] /\ ~stp_is_root_switch(s)'
      <4>1. hello_active[s] <=> stp_is_root_switch(s)
        BY <1>5 DEF ViewInv, SwitchOK
      <4>2. hello_active'[s] = (hello_active[s] /\ ~StopsHello(s, d))
        BY <1>2, <1>5, <1>8, Zenon
      <4>3. StopsHello(s, d) <=> stp_is_root_switch(s)
        BY <1>6 DEF StopsHello
      <4>4. designated_root'[s] # s
        BY <1>5, <1>6, <1>9, StpAssumption
      <4> QED
        BY <4>1, <4>2, <4>3, <4>4, Zenon DEF stp_is_root_switch
    <3> QED
      BY <1>6, <1>9, <2>1, <3>1, <3>2, <3>3 DEF SwitchOK
  <2>2. CASE t # s
    <3>1. \A q \in PortsOf(t) : designated'[q] = designated[q]
      BY <1>9, <2>2 DEF PortsOf
    <3>2. root_port[t] \in PortsOf(t) \cup {NoPort}
      BY DEF ViewInv, IInv
    <3>3. SwitchOK(t)
      BY DEF ViewInv
    <3> QED
      BY <1>9, <2>2, <3>1, <3>2, <3>3
         DEF SwitchOK, stp_port_is_designated, stp_is_root_switch
  <2> QED
    BY <2>1, <2>2
<1>13. Improvement
  <2>1. ASSUME NEW t \in Switch
        PROVE  \/ designated_root'[t] < designated_root[t]
               \/ /\ designated_root'[t] = designated_root[t]
                  /\ root_path_cost'[t] <= root_path_cost[t]
    <3>1. CASE t = s
      BY <1>5, <1>6, <1>9, <3>1, ViewIs DEF NoWorse
    <3>2. CASE t # s
      BY <1>8, <1>9, <3>2
    <3> QED
      BY <3>1, <3>2
  <2>2. ASSUME NEW q \in Port
        PROVE  designated'[q] = designated[q] \/ Better(designated'[q], designated[q])
    BY <1>7, <1>9 DEF PortsOf
  <2> QED
    BY <2>1, <2>2 DEF Improvement
<1> QED
  BY <1>3, <1>11, <1>12, <1>13 DEF ViewInv

\* Every step keeps the views in order and improves them.
LEMMA ViewStep == ViewInv /\ [Next]_vars => ViewInv' /\ [Improvement]_vars
<1> SUFFICES ASSUME ViewInv, [Next]_vars PROVE ViewInv' /\ [Improvement]_vars
  OBVIOUS
<1>1. ASSUME UNCHANGED <<designated, designated_root, root_path_cost>> PROVE Improvement
  BY <1>1 DEF Improvement, ViewInv, IInv
<1>2. CASE \E s \in Switch : HelloTimeout(s)
  BY <1>1, <1>2, HelloView DEF HelloTimeout, switches
<1>3. ASSUME NEW p \in Port, Receive(p) PROVE ViewInv' /\ Improvement
  <2>1. CASE Better(Head(channel[p]), designated[p])
    BY <1>3, <2>1, ImproveView DEF Receive
  <2>2. CASE ~Better(Head(channel[p]), designated[p])
    <3>1. Answer(p, Head(channel[p])) /\ channel[p] # <<>>
      BY <1>3, <2>2 DEF Receive
    <3> QED
      BY <1>1, <2>2, <3>1, AnswerView DEF Answer
  <2> QED
    BY <2>1, <2>2
<1>4. CASE UNCHANGED vars
  BY <1>4, StepIInv DEF vars, switches, ViewInv, PortOK, SwitchOK, View,
                        stp_port_is_designated, stp_is_root_switch
<1> QED
  BY <1>2, <1>3, <1>4 DEF Next

-----------------------------------------------------------------------------
\* On every network the fields of a switch and of its ports, which the code
\* refreshes one after another, tell one view: that of the root port.
THEOREM StpViewFollows == Spec => []ViewFollowsRootPort
<1>1. ViewInv => ViewFollowsRootPort
  <2> SUFFICES ASSUME ViewInv, NEW s \in Switch
               PROVE  /\ IF root_port[s] = NoPort
                         THEN designated_root[s] = s /\ root_path_cost[s] = 0
                         ELSE LET d == designated[root_port[s]]
                              IN  /\ d.switch = Peer[root_port[s]][1]
                                  /\ d.port = Peer[root_port[s]][2]
                                  /\ designated_root[s] = d.root
                                  /\ root_path_cost[s] = d.cost + 1
                      /\ \A p \in PortsOf(s) :
                           stp_port_is_designated(p) =>
                             /\ designated[p].root = designated_root[s]
                             /\ designated[p].cost = root_path_cost[s]
    BY DEF ViewFollowsRootPort
  <2>1. root_port[s] \in Port \cup {NoPort}
    BY DEF ViewInv, IInv
  <2> QED
    BY <2>1 DEF ViewInv, SwitchOK, PortOK, FromPeer, PortsOf
<1> QED
  BY <1>1, ViewInit, ViewStep, PTL DEF Spec

\* On every network the hello timer runs on exactly the switches that take
\* themselves for the root, although the election stops it by a test of the
\* old root and nothing starts it again.
THEOREM StpRootsSayHello == Spec => []OnlyRootsSayHello
<1>1. ViewInv => OnlyRootsSayHello
  BY DEF ViewInv, SwitchOK, OnlyRootsSayHello
<1> QED
  BY <1>1, ViewInit, ViewStep, PTL DEF Spec

\* On every network no packet makes a switch or a port believe in less, also
\* one that was sent before what the port already knows.
THEOREM StpImproves == Spec => BeliefsImprove
<1>1. ViewInv /\ [Next]_vars => [Improvement]_vars
  BY ViewStep
<1>2. Spec => [][Improvement]_vars
  BY <1>1, ViewInit, ViewStep, PTL DEF Spec
<1> QED
  BY <1>2, PTL DEF BeliefsImprove, Improvement

=============================================================================
