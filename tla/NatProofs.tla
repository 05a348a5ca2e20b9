------------------------------ MODULE NatProofs ------------------------------
(***************************************************************************)
(* Theorems about Nat for every number of boxes, hosts, rules and calls.   *)
(***************************************************************************)
EXTENDS Nat, TLAPS

Log == [call : Call, site : Site, at : Endpoint, from : Endpoint]

LEMMA AppendTable ==
  ASSUME NEW t \in Seq(natMap_t), NEW e \in natMap_t
  PROVE  /\ Append(t, e) \in Seq(natMap_t)
         /\ DOMAIN Append(t, e) = 1 .. Len(t) + 1 /\ DOMAIN t = 1 .. Len(t)
         /\ Len(t) \in Nat
         /\ \A i \in 1 .. Len(t) : Append(t, e)[i] = t[i] /\ t[i] \in natMap_t
         /\ Append(t, e)[Len(t) + 1] = e
  OBVIOUS

\* What is taken off a wire is a packet.
LEMMA TakenPacket ==
  ASSUME TypeOK, NEW s \in Site, NEW p \in wire[s]
  PROVE  p \in Packet /\ p.src \in Endpoint /\ p.dst \in Endpoint /\ p.call \in Call
  BY DEF TypeOK, Packet

LEMMA RetargetType ==
  ASSUME NEW p \in Packet, NEW e \in Endpoint
  PROVE  [p EXCEPT !.src = e] \in Packet /\ [p EXCEPT !.dst = e] \in Packet
  BY DEF Packet

LEMMA ForwardType ==
  ASSUME TypeOK, NEW from \in Site, NEW to \in Site, NEW p, NEW q \in Packet,
         Forward(from, to, p, q)
  PROVE  wire' \in [Site -> SUBSET Packet]
  BY DEF Forward, TypeOK

LEMMA AddedType ==
  ASSUME TypeOK, NEW b \in Box, NEW r \in Endpoint, NEW i \in Endpoint, NEW x \in Endpoint
  PROVE  Added(b, r, i, x) \in [Box -> Seq(natMap_t)]
<1> DEFINE e == [remote |-> r, internal |-> i, external |-> x]
<1>1. e \in natMap_t  BY DEF natMap_t
<1>2. Append(netTable[b], e) \in Seq(natMap_t)  BY <1>1, AppendTable DEF TypeOK
<1> QED  BY <1>2 DEF Added, TypeOK

LEMMA EntryType ==
  ASSUME TypeOK, NEW b \in Box, NEW i \in DOMAIN netTable[b]
  PROVE  netTable[b][i] \in natMap_t
  BY DEF TypeOK

LEMMA RuleType ==
  ASSUME NEW b \in Box, NEW i \in DOMAIN Rules[b]
  PROVE  Rules[b][i] \in rule_t
  BY NatAssumption

LEMMA BoxSites == Public \in Site /\ Box \subseteq Site
  BY DEF Site

-----------------------------------------------------------------------------

LEMMA TypeInit == ASSUME Init PROVE TypeOK
  BY NatAssumption DEF Init, TypeOK

LEMMA PlaceType ==
  ASSUME TypeOK, NEW c \in Call, Place(c)
  PROVE  TypeOK'
<1> DEFINE q == [kind |-> "call", src |-> c.src, dst |-> c.dst, call |-> c]
<1>1. q \in Packet  BY NatAssumption DEF Packet, CallType
<1>2. c.site \in Site  BY NatAssumption DEF CallType
<1>3. wire' \in [Site -> SUBSET Packet]  BY <1>1, <1>2 DEF Place, TypeOK
<1> QED  BY <1>3 DEF Place, TypeOK, box

LEMMA HostReceiveType ==
  ASSUME TypeOK, NEW s \in Site, NEW p \in wire[s], HostReceive(s, p)
  PROVE  TypeOK'
<1> DEFINE q == [kind |-> "reply", src |-> p.dst, dst |-> p.src, call |-> p.call]
<1>1. p \in Packet /\ p.src \in Endpoint /\ p.dst \in Endpoint /\ p.call \in Call
  BY TakenPacket
<1>2. q \in Packet  BY <1>1 DEF Packet
<1>3. Arrival(s, p) \in Log  BY <1>1 DEF Arrival, Log
<1>4. wire' \in [Site -> SUBSET Packet]  BY <1>2, SMTT(25) DEF HostReceive, TypeOK
<1>5. seen' \subseteq Log /\ answered' \subseteq Log
  BY <1>3 DEF HostReceive, TypeOK, Log
<1>6. reported' \subseteq Call  BY <1>1 DEF HostReceive, TypeOK
<1> QED  BY <1>4, <1>5, <1>6 DEF HostReceive, TypeOK, box, Log

LEMMA TranslateType ==
  ASSUME TypeOK, NEW b \in Box, NEW p \in wire[b] \cup wire[Public], Translate(b, p)
  PROVE  TypeOK'
<1>1. p \in Packet /\ p.src \in Endpoint /\ p.dst \in Endpoint /\ p.call \in Call
  BY TakenPacket, BoxSites
<1>2. port[b] \in 1 .. LastPort /\ LastPort \in Nat  BY NatAssumption DEF TypeOK
<1>3. CASE OutKnown(b, p)
  <2>1. PICK i \in DOMAIN netTable[b] :
          Forward(b, Public, p, [p EXCEPT !.src = netTable[b][i].external])
    BY <1>3 DEF OutKnown
  <2>2. netTable[b][i].external \in Endpoint  BY EntryType DEF natMap_t
  <2>3. wire' \in [Site -> SUBSET Packet]
    BY <1>1, <2>1, <2>2, RetargetType, ForwardType, BoxSites
  <2> QED  BY <1>3, <2>3 DEF OutKnown, TypeOK, box, logs
<1>4. CASE OutNew(b, p)
  <2> DEFINE x == <<ExtIP[b], port[b]>>
  <2>1. x \in Endpoint  BY <1>2, NatAssumption DEF Endpoint
  <2>2. wire' \in [Site -> SUBSET Packet]
    BY <1>1, <1>4, <2>1, RetargetType, ForwardType, BoxSites DEF OutNew
  <2>3. netTable' \in [Box -> Seq(natMap_t)]
    BY <1>1, <1>4, <2>1, AddedType DEF OutNew
  <2>4. port' \in [Box -> 1 .. LastPort]
    BY <1>2, <1>4 DEF OutNew, PortsLeft, NextPort, TypeOK
  <2> QED  BY <1>4, <2>2, <2>3, <2>4 DEF OutNew, TypeOK, logs
<1>5. CASE OutNoPort(b, p)
  BY <1>5 DEF OutNoPort, TypeOK, logs
<1>6. CASE InKnown(b, p)
  <2>1. PICK i \in DOMAIN netTable[b] :
          Forward(Public, b, p, [p EXCEPT !.dst = netTable[b][i].internal])
    BY <1>6 DEF InKnown
  <2>2. netTable[b][i].internal \in Endpoint  BY EntryType DEF natMap_t
  <2>3. wire' \in [Site -> SUBSET Packet]
    BY <1>1, <2>1, <2>2, RetargetType, ForwardType, BoxSites
  <2> QED  BY <1>6, <2>3 DEF InKnown, TypeOK, box, logs
<1>7. CASE InRule(b, p)
  <2>1. PICK i \in DOMAIN Rules[b] :
          /\ netTable' = Added(b, p.src, Rules[b][i].internal, p.dst)
          /\ Forward(Public, b, p, [p EXCEPT !.dst = Rules[b][i].internal])
    BY <1>7 DEF InRule
  <2>2. Rules[b][i].internal \in Endpoint  BY RuleType DEF rule_t
  <2>3. wire' \in [Site -> SUBSET Packet]
    BY <1>1, <2>1, <2>2, RetargetType, ForwardType, BoxSites
  <2>4. netTable' \in [Box -> Seq(natMap_t)]  BY <1>1, <2>1, <2>2, AddedType
  <2> QED  BY <1>7, <2>3, <2>4 DEF InRule, TypeOK, logs
<1>8. CASE InFails(b, p)
  <2> DEFINE q == [kind |-> "report", src |-> <<ExtIP[b], ReportPorts[1]>>,
                   dst |-> <<p.src[1], ReportPorts[2]>>, call |-> p.call]
  <2>1. q \in Packet  BY <1>1, NatAssumption DEF Packet, Endpoint
  <2>2. wire' \in [Site -> SUBSET Packet]
    BY <1>8, <2>1, BoxSites DEF InFails, Report, TypeOK
  <2> QED  BY <1>8, <2>2 DEF InFails, TypeOK, logs
<1> QED  BY <1>3, <1>4, <1>5, <1>6, <1>7, <1>8 DEF Translate

LEMMA TypeStep == TypeOK /\ [Next]_vars => TypeOK'
<1> SUFFICES ASSUME TypeOK, [Next]_vars PROVE TypeOK'  OBVIOUS
<1>1. CASE UNCHANGED vars  BY <1>1 DEF vars, box, logs, TypeOK
<1>2. CASE Next
  <2>1. PICK c \in Call : Place(c) \/ Handle(c)  BY <1>2 DEF Next
  <2> QED  BY <2>1, PlaceType, HostReceiveType, TranslateType DEF Handle
<1> QED  BY <1>1, <1>2

\* The type invariant of the boxes, their networks and what the hosts saw.
THEOREM NatTypes == Spec => []TypeOK
<1>1. Init => TypeOK  BY TypeInit
<1> QED  BY <1>1, TypeStep, PTL DEF Spec

-----------------------------------------------------------------------------

\* No rule names a port that assignExternalPort has given out so far.
RulesAhead(b) == \A i \in DOMAIN Rules[b] : port[b] <= Rules[b][i].external[2]

\* Every external address comes from the counter or from a rule.
PortsAccounted(b) ==
  \A i \in DOMAIN netTable[b] :
    \/ netTable[b][i].external[2] < port[b]
    \/ \E k \in DOMAIN Rules[b] : netTable[b][i].external = Rules[b][k].external

OneFlow(b) ==
  \A i, j \in DOMAIN netTable[b] :
    /\ netTable[b][i].remote = netTable[b][j].remote
    /\ netTable[b][i].external = netTable[b][j].external
    => i = j

FlowInv == TypeOK /\ \A b \in Box : PortsAccounted(b) /\ (RulesAhead(b) => OneFlow(b))

LEMMA FlowInit == ASSUME Init PROVE FlowInv
  BY TypeInit DEF Init, FlowInv, PortsAccounted, OneFlow

\* What leaves the tables and the counters alone leaves the flows alone.
LEMMA FlowSame ==
  ASSUME FlowInv, TypeOK', netTable' = netTable, port' = port
  PROVE  FlowInv'
  BY DEF FlowInv, PortsAccounted, OneFlow, RulesAhead

\* An entry whose external address is accounted for, and which no entry of
\* its remote has yet, keeps the flows apart.
LEMMA FlowAdded ==
  ASSUME FlowInv, TypeOK', NEW b \in Box, NEW r \in Endpoint, NEW i \in Endpoint,
         NEW x \in Endpoint, netTable' = Added(b, r, i, x),
         port' \in [Box -> Nat], \A c \in Box : c # b => port'[c] = port[c],
         port[b] <= port'[b],
         x[2] < port'[b] \/ \E k \in DOMAIN Rules[b] : x = Rules[b][k].external,
         RulesAhead(b)' =>
           \A k \in DOMAIN netTable[b] :
             netTable[b][k].remote = r => netTable[b][k].external # x
  PROVE  FlowInv'
<1> DEFINE e == [remote |-> r, internal |-> i, external |-> x]
           t == netTable[b]
<1>1. e \in natMap_t /\ t \in Seq(natMap_t)  BY DEF natMap_t, FlowInv, TypeOK
<1>2. netTable'[b] = Append(t, e) /\ \A c \in Box : c # b => netTable'[c] = netTable[c]
  BY DEF Added, FlowInv, TypeOK
<1>3. /\ DOMAIN netTable'[b] = 1 .. Len(t) + 1 /\ DOMAIN t = 1 .. Len(t) /\ Len(t) \in Nat
      /\ \A k \in 1 .. Len(t) : netTable'[b][k] = t[k] /\ t[k] \in natMap_t
      /\ netTable'[b][Len(t) + 1] = e
  BY <1>1, <1>2, AppendTable
<1>4. port[b] \in Nat /\ port'[b] \in Nat  BY NatAssumption DEF FlowInv, TypeOK
<1>5. \A k \in 1 .. Len(t) : t[k].external[2] \in Nat
  BY <1>3 DEF natMap_t, Endpoint
<1>6. PortsAccounted(b)'
  <2> SUFFICES ASSUME NEW k \in 1 .. Len(t) + 1
               PROVE  \/ netTable'[b][k].external[2] < port'[b]
                      \/ \E n \in DOMAIN Rules[b] :
                           netTable'[b][k].external = Rules[b][n].external
    BY <1>3 DEF PortsAccounted
  <2>1. CASE k = Len(t) + 1  BY <2>1, <1>3
  <2>2. CASE k \in 1 .. Len(t)
    <3>1. netTable'[b][k] = t[k]  BY <1>3, <2>2
    <3>2. CASE t[k].external[2] < port[b]  BY <3>1, <3>2, <1>4, <1>5, <2>2
    <3> QED  BY <3>1, <3>2, <2>2, <1>3 DEF FlowInv, PortsAccounted
  <2> QED  BY <2>1, <2>2, <1>3
<1>7. ASSUME RulesAhead(b)' PROVE OneFlow(b)'
  <2>1. RulesAhead(b)
    <3>1. \A n \in DOMAIN Rules[b] : Rules[b][n].external[2] \in Nat
      BY RuleType DEF rule_t, Endpoint
    <3> QED  BY <1>4, <1>7, <3>1 DEF RulesAhead
  <2>2. \A m, n \in 1 .. Len(t) :
          t[m].remote = t[n].remote /\ t[m].external = t[n].external => m = n
    BY <2>1, <1>3 DEF FlowInv, OneFlow
  <2>3. \A k \in 1 .. Len(t) : t[k].remote = r => t[k].external # x  BY <1>7, <1>3
  <2> SUFFICES ASSUME NEW m \in 1 .. Len(t) + 1, NEW n \in 1 .. Len(t) + 1,
                      netTable'[b][m].remote = netTable'[b][n].remote,
                      netTable'[b][m].external = netTable'[b][n].external
               PROVE  m = n
    BY <1>3 DEF OneFlow
  <2>4. e.remote = r /\ e.external = x  OBVIOUS
  <2> HIDE DEF e
  <2>5. CASE m \in 1 .. Len(t) /\ n \in 1 .. Len(t)  BY <1>3, <2>2, <2>5
  <2>6. CASE m = Len(t) + 1 /\ n \in 1 .. Len(t)  BY <1>3, <2>3, <2>4, <2>6
  <2>7. CASE n = Len(t) + 1 /\ m \in 1 .. Len(t)  BY <1>3, <2>3, <2>4, <2>7
  <2> QED  BY <1>3, <2>5, <2>6, <2>7
<1>8. \A c \in Box : c # b => PortsAccounted(c)' /\ (RulesAhead(c)' => OneFlow(c)')
  BY <1>2, SMTT(25) DEF FlowInv, PortsAccounted, RulesAhead, OneFlow
<1> QED  BY <1>6, <1>7, <1>8 DEF FlowInv

LEMMA FlowTranslate ==
  ASSUME FlowInv, TypeOK', NEW b \in Box, NEW p \in wire[b] \cup wire[Public],
         Translate(b, p)
  PROVE  FlowInv'
<1>1. p.src \in Endpoint /\ p.dst \in Endpoint
  BY TakenPacket, BoxSites DEF FlowInv
<1>2. port \in [Box -> Nat] /\ port' \in [Box -> Nat]
  BY NatAssumption, SMTT(25) DEF FlowInv, TypeOK
<1>3. CASE OutNew(b, p)
  <2> DEFINE x == <<ExtIP[b], port[b]>>
  <2>1. x \in Endpoint /\ x[2] = port[b]  BY <1>2, NatAssumption DEF Endpoint
  <2>2. port'[b] = port[b] + 1 /\ \A c \in Box : c # b => port'[c] = port[c]
    BY <1>2, <1>3 DEF OutNew, NextPort
  <2>3. netTable' = Added(b, p.dst, p.src, x)  BY <1>3 DEF OutNew
  <2>4. ASSUME RulesAhead(b)', NEW k \in DOMAIN netTable[b]
        PROVE  netTable[b][k].external # x
    <3>1. netTable[b][k].external[2] \in Nat
      BY EntryType DEF natMap_t, Endpoint, FlowInv
    <3>2. CASE netTable[b][k].external[2] < port[b]  BY <1>2, <2>1, <3>1, <3>2
    <3>3. CASE \E n \in DOMAIN Rules[b] : netTable[b][k].external = Rules[b][n].external
      <4>1. PICK n \in DOMAIN Rules[b] : netTable[b][k].external = Rules[b][n].external
        BY <3>3
      <4>2. port[b] + 1 <= Rules[b][n].external[2]  BY <2>2, <2>4 DEF RulesAhead
      <4> QED  BY <1>2, <2>1, <3>1, <4>1, <4>2
    <3> QED  BY <3>2, <3>3 DEF FlowInv, PortsAccounted
  <2>5. port[b] <= port'[b] /\ x[2] < port'[b]  BY <1>2, <2>1, <2>2
  <2> HIDE DEF x
  <2> QED  BY <1>1, <1>2, <2>1, <2>2, <2>3, <2>4, <2>5, FlowAdded
<1>4. CASE InRule(b, p)
  <2>1. PICK i \in DOMAIN Rules[b] :
          i \in Fitting(b, p) /\ netTable' = Added(b, p.src, Rules[b][i].internal, p.dst)
    BY <1>4 DEF InRule, IsLast
  <2>2. Rules[b][i].internal \in Endpoint /\ p.dst = Rules[b][i].external
    BY <2>1, RuleType DEF rule_t, Fitting
  <2>3. port' = port  BY <1>4 DEF InRule
  <2>4. \A k \in DOMAIN netTable[b] :
          netTable[b][k].remote = p.src => netTable[b][k].external # p.dst
    BY <1>4 DEF InRule, FlowsIn
  <2>5. port[b] <= port'[b]  BY <1>2, <2>3
  <2> QED  BY <1>1, <1>2, <2>1, <2>2, <2>3, <2>4, <2>5, FlowAdded
<1>5. CASE OutKnown(b, p) \/ InKnown(b, p) \/ OutNoPort(b, p) \/ InFails(b, p)
  BY <1>5, FlowSame DEF OutKnown, InKnown, OutNoPort, InFails, box
<1> QED  BY <1>3, <1>4, <1>5 DEF Translate

LEMMA FlowStep == FlowInv /\ [Next]_vars => FlowInv'
<1> SUFFICES ASSUME FlowInv, [Next]_vars PROVE FlowInv'  OBVIOUS
<1>1. TypeOK'  BY TypeStep DEF FlowInv
<1>2. CASE UNCHANGED vars  BY <1>1, <1>2, FlowSame DEF vars, box
<1>3. CASE Next
  <2>1. PICK c \in Call : Place(c) \/ Handle(c)  BY <1>3 DEF Next
  <2>2. CASE Place(c)  BY <1>1, <2>2, FlowSame DEF Place, box
  <2>3. CASE \E s \in Site : \E p \in wire[s] : HostReceive(s, p)
    BY <1>1, <2>3, FlowSame DEF HostReceive, box
  <2>4. CASE \E b \in Box : \E p \in wire[b] \cup wire[Public] : Translate(b, p)
    BY <1>1, <2>4, FlowTranslate
  <2> QED  BY <2>1, <2>2, <2>3, <2>4 DEF Handle
<1> QED  BY <1>2, <1>3

\* A packet from a remote fits at most one entry of a box, for every number
\* of flows up to the lowest port that a rule names (translate hands it to
\* the first entry it finds).
THEOREM NatOneFlow == Spec => []OneFlowPerAddress
<1>1. Init => FlowInv  BY FlowInit
<1>2. FlowInv => OneFlowPerAddress
  BY DEF FlowInv, OneFlowPerAddress, RulesAhead, OneFlow
<1> QED  BY <1>1, <1>2, FlowStep, PTL DEF Spec
-----------------------------------------------------------------------------

\* Box b translates between the remote and a host of its network.
Flow(b, remote, internal, external) ==
  \E i \in DOMAIN netTable[b] :
    netTable[b][i] = [remote |-> remote, internal |-> internal, external |-> external]

\* An entry joins a host of the box's network to the box's public address,
\* and is either a flow to a server as its rule says or that of a client.
EntryOK(b, e) ==
  /\ e.internal[1] \in HostIP[b] /\ e.external[1] = ExtIP[b]
  /\ \A k \in DOMAIN Rules[b] :
       Rules[b][k].internal = e.internal => Rules[b][k].external = e.external

EntriesOK(b) == \A i \in DOMAIN netTable[b] : EntryOK(b, netTable[b][i])

\* Towards one remote a host has one external address.
OneExternal(b) ==
  \A i, j \in DOMAIN netTable[b] :
    /\ netTable[b][i].remote = netTable[b][j].remote
    /\ netTable[b][i].internal = netTable[b][j].internal
    => i = j

\* Outside its own network the client of call c is seen at x.
SeenFrom(c, x) ==
  \/ c.site = Public /\ x = c.src
  \/ c.site \in Box /\ Flow(c.site, c.dst, c.src, x)

\* The packets of a call, where from and where to.  In the public network
\* both ends have their public addresses; in a private one it is the client
\* or the server that is at home there.
CallAt(c, s, from, to) ==
  IF s = Public
  THEN to = c.dst /\ SeenFrom(c, from)
  ELSE \/ s = c.site /\ from = c.src /\ to = c.dst
       \/ /\ c.dst[1] = ExtIP[s] /\ to[1] \in HostIP[s]
          /\ SeenFrom(c, from) /\ Flow(s, from, to, c.dst)

ReportAt(c, s, to) == Unmatched(c) /\ (s # Public => to[1] \in HostIP[s])

PacketOK(s, p) ==
  /\ p.call \in placed
  /\ p.kind = "call" => CallAt(p.call, s, p.src, p.dst)
  /\ p.kind = "reply" => CallAt(p.call, s, p.dst, p.src)
  /\ p.kind = "report" => ReportAt(p.call, s, p.dst)

LogsOK ==
  /\ \A x \in seen : CallAt(x.call, x.site, x.from, x.at) /\ x.at[1] \in HostIP[x.site]
  /\ \A a \in answered :
       a.site = a.call.site /\ a.at = a.call.src /\ a.from = a.call.dst
  /\ RefusesOnlyUnmatched

\* As long as the boxes' counters have not reached the ports of their rules
AllAhead == \A b \in Box : RulesAhead(b)

CallInv ==
  /\ \A b \in Box : EntriesOK(b) /\ OneExternal(b)
  /\ \A s \in Site : \A p \in wire[s] : PacketOK(s, p)
  /\ LogsOK

NatInv == FlowInv /\ (AllAhead => CallInv)

\* Entries are added, and never taken away or changed.
TablesGrow ==
  \A b \in Box : \A r, i, x : Flow(b, r, i, x) => Flow(b, r, i, x)'

LEMMA CallInit == ASSUME Init PROVE NatInv
<1>1. FlowInv  BY FlowInit
<1>2. CallInv
  BY DEF Init, CallInv, EntriesOK, OneExternal, LogsOK, RefusesOnlyUnmatched
<1> QED  BY <1>1, <1>2 DEF NatInv

LEMMA EntryFlow ==
  ASSUME TypeOK, NEW b \in Box, NEW i \in DOMAIN netTable[b]
  PROVE  Flow(b, netTable[b][i].remote, netTable[b][i].internal, netTable[b][i].external)
<1>1. netTable[b][i] \in natMap_t  BY EntryType
<1> QED  BY <1>1 DEF Flow, natMap_t

\* Of a flow any two of its three addresses give the third.
LEMMA FlowFacts ==
  ASSUME CallInv, FlowInv, AllAhead, NEW b \in Box, NEW r, NEW i, NEW x, Flow(b, r, i, x)
  PROVE  /\ i[1] \in HostIP[b] /\ x[1] = ExtIP[b]
         /\ \A y : Flow(b, r, i, y) => y = x
         /\ \A j : Flow(b, r, j, x) => j = i
<1>1. PICK n \in DOMAIN netTable[b] :
        netTable[b][n] = [remote |-> r, internal |-> i, external |-> x]
  BY DEF Flow
<1>2. i[1] \in HostIP[b] /\ x[1] = ExtIP[b]
  BY <1>1 DEF CallInv, EntriesOK, EntryOK
<1>3. ASSUME NEW y, Flow(b, r, i, y) PROVE y = x
  <2>1. PICK m \in DOMAIN netTable[b] :
          netTable[b][m] = [remote |-> r, internal |-> i, external |-> y]
    BY <1>3 DEF Flow
  <2>2. m = n  BY <1>1, <2>1 DEF CallInv, OneExternal
  <2> QED  BY <1>1, <2>1, <2>2
<1>4. ASSUME NEW j, Flow(b, r, j, x) PROVE j = i
  <2>1. PICK m \in DOMAIN netTable[b] :
          netTable[b][m] = [remote |-> r, internal |-> j, external |-> x]
    BY <1>4 DEF Flow
  <2>2. m = n  BY <1>1, <2>1 DEF FlowInv, AllAhead, OneFlow
  <2> QED  BY <1>1, <2>1, <2>2
<1> QED  BY <1>2, <1>3, <1>4

LEMMA ClientHome ==
  ASSUME NEW c \in Call
  PROVE  /\ c.site \in Site /\ c.src \in Endpoint /\ c.dst \in Endpoint
         /\ c.src[1] \in HostIP[c.site]
         /\ c.site = Public \/ c.site \in Box
         /\ c.site = Public => \A b \in Box : c.src[1] \notin HostIP[b]
  BY NatAssumption, AddressAssumption DEF CallType, Site

\* Where a client is seen from outside tells its network, and is the address
\* of no host of a private one.
LEMMA SeenFacts ==
  ASSUME CallInv, FlowInv, AllAhead, NEW c \in Call, NEW x, SeenFrom(c, x)
  PROVE  /\ c.site \in Box => x[1] = ExtIP[c.site] /\ Flow(c.site, c.dst, c.src, x)
         /\ x[1] \in HostIP[Public] => c.site = Public
         /\ c.site = Public => x = c.src /\ x[1] \in HostIP[Public]
         /\ \A b \in Box : x[1] \notin HostIP[b]
         /\ \A b \in Box : x[1] = ExtIP[b] => c.site = b
<1>1. CASE c.site = Public
  BY <1>1, NatAssumption, AddressAssumption, ClientHome, BoxSites DEF SeenFrom
<1>2. CASE c.site \in Box
  <2>1. Flow(c.site, c.dst, c.src, x)  BY <1>2, NatAssumption DEF SeenFrom
  <2>2. x[1] = ExtIP[c.site]  BY <1>2, <2>1, FlowFacts
  <2> QED  BY <1>2, <2>1, <2>2, NatAssumption, AddressAssumption, BoxSites
<1> QED  BY <1>1, <1>2, ClientHome

LEMMA CallKept ==
  ASSUME TablesGrow, NEW c, NEW s \in Site, NEW from, NEW to, CallAt(c, s, from, to)
  PROVE  CallAt(c, s, from, to)'
<1>1. \A x : SeenFrom(c, x) => SeenFrom(c, x)'
  BY DEF SeenFrom, TablesGrow
<1>2. CASE s = Public  BY <1>1, <1>2 DEF CallAt
<1>3. CASE s # Public
  <2>1. s \in Box  BY <1>3 DEF Site
  <2>2. Flow(s, from, to, c.dst) => Flow(s, from, to, c.dst)'  BY <2>1 DEF TablesGrow
  <2> QED  BY <1>1, <1>3, <2>2 DEF CallAt
<1> QED  BY <1>2, <1>3

LEMMA PacketKept ==
  ASSUME TablesGrow, placed \subseteq placed', NEW s \in Site, NEW p, PacketOK(s, p)
  PROVE  PacketOK(s, p)'
  BY CallKept DEF PacketOK, ReportAt, Unmatched

\* The invariant after a step, from what the step changes.
LEMMA StepKeeps ==
  ASSUME TypeOK, CallInv, TablesGrow, placed \subseteq placed',
         \A b \in Box : EntriesOK(b)' /\ OneExternal(b)',
         \A s \in Site : \A p \in wire'[s] : p \in wire[s] \/ PacketOK(s, p)',
         LogsOK'
  PROVE  CallInv'
<1>1. \A s \in Site : \A p \in wire[s] : PacketOK(s, p)'
  BY PacketKept DEF CallInv
<1> QED  BY <1>1 DEF CallInv

LEMMA SameTables ==
  ASSUME CallInv, netTable' = netTable
  PROVE  TablesGrow /\ \A b \in Box : EntriesOK(b)' /\ OneExternal(b)'
  BY DEF TablesGrow, Flow, CallInv, EntriesOK, EntryOK, OneExternal

LEMMA SameLogs ==
  ASSUME TypeOK, CallInv, TablesGrow, UNCHANGED logs,
         locked' = locked \/ \E c \in placed : Unmatched(c)
  PROVE  LogsOK' /\ placed \subseteq placed'
<1>1. \A x \in seen' : CallAt(x.call, x.site, x.from, x.at)' /\ x.at[1] \in HostIP[x.site]
  BY CallKept DEF CallInv, LogsOK, logs, TypeOK
<1>2. RefusesOnlyUnmatched'
  BY DEF CallInv, LogsOK, logs, RefusesOnlyUnmatched, Unmatched
<1> QED  BY <1>1, <1>2 DEF CallInv, LogsOK, logs

\* A new entry that is the first of its remote for its host
LEMMA AddedTable ==
  ASSUME TypeOK, CallInv, NEW b \in Box, NEW r \in Endpoint, NEW i \in Endpoint,
         NEW x \in Endpoint, netTable' = Added(b, r, i, x),
         EntryOK(b, [remote |-> r, internal |-> i, external |-> x]),
         \A k \in DOMAIN netTable[b] :
           netTable[b][k].remote = r => netTable[b][k].internal # i
  PROVE  /\ TablesGrow /\ Flow(b, r, i, x)'
         /\ \A d \in Box : EntriesOK(d)' /\ OneExternal(d)'
<1> DEFINE e == [remote |-> r, internal |-> i, external |-> x]
           t == netTable[b]
<1>1. e \in natMap_t /\ t \in Seq(natMap_t)  BY DEF natMap_t, TypeOK
<1>2. netTable'[b] = Append(t, e) /\ \A c \in Box : c # b => netTable'[c] = netTable[c]
  BY DEF Added, TypeOK
<1>3. /\ DOMAIN netTable'[b] = 1 .. Len(t) + 1 /\ DOMAIN t = 1 .. Len(t) /\ Len(t) \in Nat
      /\ \A k \in 1 .. Len(t) : netTable'[b][k] = t[k]
      /\ netTable'[b][Len(t) + 1] = e
  BY <1>1, <1>2, AppendTable
<1>4. \A k \in DOMAIN t : k \in DOMAIN netTable'[b]  BY <1>3
<1>5. Len(t) + 1 \in DOMAIN netTable'[b]  BY <1>3
<1>6. Flow(b, r, i, x)'  BY <1>3, <1>5 DEF Flow
<1>7. TablesGrow
  <2> SUFFICES ASSUME NEW d \in Box, NEW r2, NEW i2, NEW x2, Flow(d, r2, i2, x2)
               PROVE  Flow(d, r2, i2, x2)'
    BY DEF TablesGrow
  <2>1. CASE d = b  BY <1>3, <1>4, <2>1 DEF Flow
  <2>2. CASE d # b  BY <1>2, <2>2 DEF Flow
  <2> QED  BY <2>1, <2>2
<1>8. EntriesOK(b)' /\ OneExternal(b)'
  <2>1. \A k \in 1 .. Len(t) : EntryOK(b, t[k])  BY <1>3 DEF CallInv, EntriesOK
  <2>2. EntriesOK(b)'
    <3> SUFFICES ASSUME NEW k \in 1 .. Len(t) + 1 PROVE EntryOK(b, netTable'[b][k])
      BY <1>3 DEF EntriesOK, EntryOK
    <3>1. CASE k \in 1 .. Len(t)  BY <1>3, <2>1, <3>1
    <3>2. CASE k = Len(t) + 1  BY <1>3, <3>2
    <3> QED  BY <1>3, <3>1, <3>2
  <2>3. \A m, n \in 1 .. Len(t) :
          t[m].remote = t[n].remote /\ t[m].internal = t[n].internal => m = n
    BY <1>3 DEF CallInv, OneExternal
  <2>4. \A k \in 1 .. Len(t) : t[k].remote = r => t[k].internal # i  BY <1>3
  <2>5. e.remote = r /\ e.internal = i  OBVIOUS
  <2>6. OneExternal(b)'
    <3> HIDE DEF e
    <3> SUFFICES ASSUME NEW m \in 1 .. Len(t) + 1, NEW n \in 1 .. Len(t) + 1,
                        netTable'[b][m].remote = netTable'[b][n].remote,
                        netTable'[b][m].internal = netTable'[b][n].internal
                 PROVE  m = n
      BY <1>3 DEF OneExternal
    <3>1. CASE m \in 1 .. Len(t) /\ n \in 1 .. Len(t)  BY <1>3, <2>3, <3>1
    <3>2. CASE m = Len(t) + 1 /\ n \in 1 .. Len(t)  BY <1>3, <2>4, <2>5, <3>2
    <3>3. CASE n = Len(t) + 1 /\ m \in 1 .. Len(t)  BY <1>3, <2>4, <2>5, <3>3
    <3> QED  BY <1>3, <3>1, <3>2, <3>3
  <2> QED  BY <2>2, <2>6
<1>9. \A d \in Box : d # b => EntriesOK(d)' /\ OneExternal(d)'
  BY <1>2 DEF CallInv, EntriesOK, EntryOK, OneExternal
<1> QED  BY <1>6, <1>7, <1>8, <1>9

LEMMA ForwardAdds ==
  ASSUME TypeOK, NEW from \in Site, NEW to \in Site, NEW p, NEW q, Forward(from, to, p, q)
  PROVE  \A s \in Site : \A r \in wire'[s] : r \in wire[s] \/ (s = to /\ r = q)
  BY DEF Forward, TypeOK

LEMMA Retargeted ==
  ASSUME NEW p \in Packet, NEW e
  PROVE  LET q == [p EXCEPT !.src = e]
             r == [p EXCEPT !.dst = e]
         IN  /\ q.kind = p.kind /\ q.call = p.call /\ q.src = e /\ q.dst = p.dst
             /\ r.kind = p.kind /\ r.call = p.call /\ r.src = p.src /\ r.dst = e
  BY DEF Packet

\* What a box takes from its private network is a call of one of its hosts,
\* or the answer of one to a call that the box let in.
LEMMA InsidePacket ==
  ASSUME NatInv, AllAhead, NEW b \in Box, NEW p, FromInside(b, p)
  PROVE  /\ p \in Packet /\ p.call \in Call /\ p.src \in Endpoint /\ p.dst \in Endpoint
         /\ \/ /\ p.kind = "call" /\ p.call.site = b
               /\ p.src = p.call.src /\ p.dst = p.call.dst
            \/ /\ p.kind = "reply"
               /\ SeenFrom(p.call, p.dst) /\ Flow(b, p.dst, p.src, p.call.dst)
<1>1. b \in Site /\ b # Public  BY NatAssumption, BoxSites
<1>2. p \in Packet /\ p.call \in Call /\ p.src \in Endpoint /\ p.dst \in Endpoint
  BY <1>1, TakenPacket DEF NatInv, FlowInv, FromInside
<1>3. PacketOK(b, p) /\ p.dst[1] \notin HostIP[b]
  BY <1>1 DEF NatInv, CallInv, FromInside
<1>4. CASE p.kind = "call"
  BY <1>1, <1>2, <1>3, <1>4 DEF PacketOK, CallAt
<1>5. CASE p.kind = "reply"
  BY <1>1, <1>2, <1>3, <1>5, ClientHome DEF PacketOK, CallAt
<1>6. CASE p.kind = "report"
  BY <1>1, <1>3, <1>6 DEF PacketOK, ReportAt
<1>7. p.kind \in {"call", "reply", "report"}  BY <1>2 DEF Packet
<1> QED  BY <1>2, <1>4, <1>5, <1>6, <1>7

\* What a box takes from the public network is a call to it, the answer to a
\* call that it let out, or a report about a call that no rule names.
LEMMA OutsidePacket ==
  ASSUME NatInv, AllAhead, NEW b \in Box, NEW p, FromOutside(b, p)
  PROVE  /\ p \in Packet /\ p.call \in Call /\ p.src \in Endpoint /\ p.dst \in Endpoint
         /\ p.call \in placed /\ p.dst[1] = ExtIP[b]
         /\ \/ p.kind = "call" /\ p.dst = p.call.dst /\ SeenFrom(p.call, p.src)
            \/ /\ p.kind = "reply" /\ p.src = p.call.dst /\ p.call.site = b
               /\ Flow(b, p.src, p.call.src, p.dst)
            \/ p.kind = "report" /\ Unmatched(p.call)
<1>1. Public \in Site  BY BoxSites
<1>2. p \in Packet /\ p.call \in Call /\ p.src \in Endpoint /\ p.dst \in Endpoint
  BY <1>1, TakenPacket DEF NatInv, FlowInv, FromOutside
<1>3. PacketOK(Public, p) /\ p.dst[1] = ExtIP[b] /\ p.call \in placed
  BY <1>1 DEF NatInv, CallInv, FromOutside, PacketOK
<1>4. CASE p.kind = "call"
  BY <1>2, <1>3, <1>4 DEF PacketOK, CallAt
<1>5. CASE p.kind = "reply"
  <2>1. p.src = p.call.dst /\ SeenFrom(p.call, p.dst)  BY <1>3, <1>5 DEF PacketOK, CallAt
  <2>2. p.call.site = b  BY <1>2, <1>3, <2>1, SeenFacts DEF NatInv
  <2>3. Flow(b, p.call.dst, p.call.src, p.dst)
    BY <1>2, <2>1, <2>2, SeenFacts DEF NatInv
  <2> QED  BY <1>2, <1>3, <1>5, <2>1, <2>2, <2>3
<1>6. CASE p.kind = "report"
  BY <1>2, <1>3, <1>6 DEF PacketOK, ReportAt
<1>7. p.kind \in {"call", "reply", "report"}  BY <1>2 DEF Packet
<1> QED  BY <1>2, <1>3, <1>4, <1>5, <1>6, <1>7

-----------------------------------------------------------------------------

LEMMA PlaceCalls ==
  ASSUME NatInv, AllAhead, NEW c \in Call, Place(c)
  PROVE  CallInv'
<1> DEFINE q == [kind |-> "call", src |-> c.src, dst |-> c.dst, call |-> c]
<1>1. TypeOK /\ CallInv  BY DEF NatInv, FlowInv
<1>2. netTable' = netTable  BY DEF Place, box
<1>3. TablesGrow /\ \A b \in Box : EntriesOK(b)' /\ OneExternal(b)'
  BY <1>1, <1>2, SameTables
<1>4. c.site \in Site  BY ClientHome
<1>5. placed \subseteq placed' /\ c \in placed'  BY DEF Place
<1>6. \A s \in Site : \A p \in wire'[s] : p \in wire[s] \/ (s = c.site /\ p = q)
  BY <1>1, <1>4 DEF Place, TypeOK
<1>7. PacketOK(c.site, q)'
  <2>1. CallAt(c, c.site, c.src, c.dst)'  BY DEF CallAt, SeenFrom
  <2> QED  BY <1>5, <2>1 DEF PacketOK
<1>8. LogsOK'
  <2>1. \A x \in seen' : CallAt(x.call, x.site, x.from, x.at)' /\ x.at[1] \in HostIP[x.site]
    BY <1>1, <1>3, CallKept DEF CallInv, LogsOK, Place, TypeOK
  <2>2. RefusesOnlyUnmatched'
    BY <1>1, <1>5 DEF CallInv, LogsOK, Place, box, RefusesOnlyUnmatched, Unmatched
  <2> QED  BY <1>1, <2>1, <2>2 DEF CallInv, LogsOK, Place
<1> HIDE DEF q
<1> QED  BY <1>1, <1>3, <1>5, <1>6, <1>7, <1>8, StepKeeps

LEMMA HostReceiveCalls ==
  ASSUME NatInv, AllAhead, NEW s \in Site, NEW p \in wire[s], HostReceive(s, p)
  PROVE  CallInv'
<1> DEFINE q == [kind |-> "reply", src |-> p.dst, dst |-> p.src, call |-> p.call]
<1>1. TypeOK /\ CallInv /\ FlowInv  BY DEF NatInv, FlowInv
<1>2. p \in Packet /\ p.call \in Call /\ p.src \in Endpoint /\ p.dst \in Endpoint
  BY <1>1, TakenPacket
<1>3. TablesGrow /\ \A b \in Box : EntriesOK(b)' /\ OneExternal(b)'
  BY <1>1, SameTables DEF HostReceive, box
<1>4. placed' = placed /\ locked' = locked  BY DEF HostReceive, box
<1>5. PacketOK(s, p) /\ p.dst[1] \in HostIP[s]  BY <1>1 DEF CallInv, HostReceive
<1>6. \A n \in Site : \A r \in wire'[n] :
        r \in wire[n] \/ (n = s /\ r = q /\ p.kind = "call")
  BY <1>1 DEF HostReceive, TypeOK
<1>7. ASSUME p.kind = "call" PROVE PacketOK(s, q)' /\ CallAt(p.call, s, p.src, p.dst)'
  <2>1. CallAt(p.call, s, p.src, p.dst)'
    BY <1>3, <1>5, <1>7, CallKept DEF PacketOK
  <2> QED  BY <1>4, <1>5, <2>1 DEF PacketOK
<1>8. LogsOK'
  <2> DEFINE a == Arrival(s, p)
  <2>1. a.call = p.call /\ a.site = s /\ a.at = p.dst /\ a.from = p.src  BY DEF Arrival
  <2> HIDE DEF a
  <2>2. \A x \in seen' : CallAt(x.call, x.site, x.from, x.at)' /\ x.at[1] \in HostIP[x.site]
    <3>1. \A x \in seen : CallAt(x.call, x.site, x.from, x.at)' /\ x.at[1] \in HostIP[x.site]
      BY <1>1, <1>3, CallKept DEF CallInv, LogsOK, TypeOK
    <3>2. \A x \in seen' : x \in seen \/ (x = a /\ p.kind = "call")
      BY DEF HostReceive, a
    <3> QED  BY <1>5, <1>7, <2>1, <3>1, <3>2
  <2>3. ASSUME p.kind = "reply" PROVE s = p.call.site /\ p.dst = p.call.src /\ p.src = p.call.dst
    <3>1. CallAt(p.call, s, p.dst, p.src)  BY <1>5, <2>3 DEF PacketOK
    <3>2. CASE s = Public  BY <1>1, <1>2, <1>5, <3>1, <3>2, SeenFacts DEF CallAt
    <3>3. CASE s # Public
      <4>1. s \in Box  BY <3>3 DEF Site
      <4> QED  BY <1>1, <1>2, <1>5, <3>1, <3>3, <4>1, SeenFacts DEF CallAt
    <3> QED  BY <3>2, <3>3
  <2>4. \A x \in answered' : x.site = x.call.site /\ x.at = x.call.src /\ x.from = x.call.dst
    <3>1. \A x \in answered' : x \in answered \/ (x = a /\ p.kind = "reply")
      BY DEF HostReceive, a
    <3> QED  BY <1>1, <2>1, <2>3, <3>1 DEF CallInv, LogsOK
  <2>5. RefusesOnlyUnmatched'
    <3>1. \A c \in reported' : c \in reported \/ (c = p.call /\ Unmatched(p.call))
      BY <1>5 DEF HostReceive, PacketOK, ReportAt
    <3>2. \A c \in reported' : Unmatched(c)
      BY <1>1, <3>1 DEF CallInv, LogsOK, RefusesOnlyUnmatched
    <3>3. locked' # {} => \E c \in placed' : Unmatched(c)
      BY <1>1, <1>4 DEF CallInv, LogsOK, RefusesOnlyUnmatched
    <3> QED  BY <3>2, <3>3 DEF RefusesOnlyUnmatched, Unmatched
  <2> QED  BY <2>2, <2>4, <2>5 DEF LogsOK
<1> HIDE DEF q
<1> QED  BY <1>1, <1>3, <1>4, <1>6, <1>7, <1>8, StepKeeps

\* The new packet of a translation, when the tables only grow
LEMMA TranslateKeeps ==
  ASSUME NatInv, NEW from \in Site, NEW to \in Site, NEW p, NEW q,
         Forward(from, to, p, q), PacketOK(to, q)', TablesGrow,
         \A b \in Box : EntriesOK(b)' /\ OneExternal(b)',
         UNCHANGED <<logs, locked>>, CallInv
  PROVE  CallInv'
<1>1. TypeOK  BY DEF NatInv, FlowInv
<1>2. \A s \in Site : \A r \in wire'[s] : r \in wire[s] \/ PacketOK(s, r)'
  BY <1>1, ForwardAdds
<1>3. LogsOK' /\ placed \subseteq placed'  BY <1>1, SameLogs
<1> QED  BY <1>1, <1>2, <1>3, StepKeeps

LEMMA OutKnownCalls ==
  ASSUME NatInv, AllAhead, NEW b \in Box, NEW p, OutKnown(b, p)
  PROVE  CallInv'
<1>1. TypeOK /\ FlowInv /\ CallInv  BY DEF NatInv, FlowInv
<1>2. PICK i \in DOMAIN netTable[b] :
        i \in FlowsOut(b, p) /\ Forward(b, Public, p, [p EXCEPT !.src = netTable[b][i].external])
  BY DEF OutKnown, IsFirst
<1> PICK x : x = netTable[b][i].external  OBVIOUS
<1> DEFINE q == [p EXCEPT !.src = x]
<1>3. FromInside(b, p) /\ UNCHANGED <<box, logs>>  BY DEF OutKnown
<1>4. p \in Packet /\ p.call \in Call  BY <1>3, InsidePacket
<1>5. q.kind = p.kind /\ q.call = p.call /\ q.src = x /\ q.dst = p.dst
  BY <1>4, Retargeted
<1>6. Flow(b, p.dst, p.src, x)  BY <1>1, <1>2, EntryFlow DEF FlowsOut
<1> HIDE DEF q
<1>7. TablesGrow /\ \A d \in Box : EntriesOK(d)' /\ OneExternal(d)'
  BY <1>1, <1>3, SameTables DEF box
<1>8. p.call \in placed
  BY <1>1, <1>3, BoxSites DEF CallInv, PacketOK, FromInside
<1>9. PacketOK(Public, q)
  <2>1. CASE p.kind = "call" /\ p.call.site = b /\ p.src = p.call.src /\ p.dst = p.call.dst
    BY <1>5, <1>6, <1>8, <2>1 DEF PacketOK, CallAt, SeenFrom
  <2>2. CASE p.kind = "reply" /\ SeenFrom(p.call, p.dst) /\ Flow(b, p.dst, p.src, p.call.dst)
    <3>1. x = p.call.dst  BY <1>1, <1>6, <2>2, FlowFacts
    <3> QED  BY <1>5, <1>8, <2>2, <3>1 DEF PacketOK, CallAt
  <2> QED  BY <1>3, <2>1, <2>2, InsidePacket
<1>10. PacketOK(Public, q)'
  BY <1>3, <1>7, <1>9, PacketKept, BoxSites DEF logs
<1> QED  BY <1>1, <1>2, <1>3, <1>7, <1>10, TranslateKeeps, BoxSites DEF box, q

LEMMA OutNewCalls ==
  ASSUME NatInv, AllAhead, NEW b \in Box, NEW p, OutNew(b, p)
  PROVE  CallInv'
<1> PICK x : x = <<ExtIP[b], port[b]>>  OBVIOUS
<1> DEFINE q == [p EXCEPT !.src = x]
<1>1. TypeOK /\ FlowInv /\ CallInv  BY DEF NatInv, FlowInv
<1>2. FromInside(b, p) /\ UNCHANGED <<locked, logs>> /\ netTable' = Added(b, p.dst, p.src, x)
      /\ Forward(b, Public, p, q)
  BY DEF OutNew
<1>3. \A k \in DOMAIN netTable[b] :
        netTable[b][k].remote = p.dst => netTable[b][k].internal # p.src
  BY DEF OutNew, FlowsOut
<1>4. p \in Packet /\ p.call \in Call /\ p.src \in Endpoint /\ p.dst \in Endpoint
  BY <1>2, InsidePacket
<1>5. q.kind = p.kind /\ q.call = p.call /\ q.src = x /\ q.dst = p.dst
  BY <1>4, Retargeted
<1>6. x \in Endpoint /\ x[1] = ExtIP[b]
  BY <1>1, NatAssumption DEF TypeOK, Endpoint
<1> HIDE DEF q
<1>7. p.kind = "call" /\ p.call.site = b /\ p.src = p.call.src /\ p.dst = p.call.dst
  <2>1. ~Flow(b, p.dst, p.src, p.call.dst)  BY <1>3 DEF Flow
  <2> QED  BY <1>2, <2>1, InsidePacket
<1>8. EntryOK(b, [remote |-> p.dst, internal |-> p.src, external |-> x])
  <2> DEFINE en == [remote |-> p.dst, internal |-> p.src, external |-> x]
  <2>1. en.internal = p.call.src /\ en.external[1] = ExtIP[b]  BY <1>6, <1>7
  <2>2. p.call.src[1] \in HostIP[b] /\ \A k \in DOMAIN Rules[b] : Rules[b][k].internal # p.call.src
    BY <1>4, <1>7, AddressAssumption
  <2> HIDE DEF en
  <2>3. EntryOK(b, en)  BY <2>1, <2>2 DEF EntryOK
  <2> QED  BY <2>3 DEF en
<1>9. /\ TablesGrow /\ Flow(b, p.dst, p.src, x)'
      /\ \A d \in Box : EntriesOK(d)' /\ OneExternal(d)'
  BY <1>1, <1>2, <1>3, <1>4, <1>6, <1>8, AddedTable
<1>10. p.call \in placed'
  BY <1>1, <1>2, BoxSites DEF CallInv, PacketOK, FromInside, logs
<1>11. PacketOK(Public, q)'
  BY <1>5, <1>7, <1>9, <1>10 DEF PacketOK, CallAt, SeenFrom
<1> QED  BY <1>1, <1>2, <1>9, <1>11, TranslateKeeps, BoxSites

LEMMA OutNoPortCalls ==
  ASSUME NatInv, AllAhead, NEW b \in Box, NEW p, OutNoPort(b, p)
  PROVE  CallInv'
<1>1. TypeOK /\ CallInv  BY DEF NatInv, FlowInv
<1>2. TablesGrow /\ \A d \in Box : EntriesOK(d)' /\ OneExternal(d)'
  BY <1>1, SameTables DEF OutNoPort
<1>3. \A s \in Site : \A r \in wire'[s] : r \in wire[s]
  BY <1>1, BoxSites DEF OutNoPort, TypeOK
<1>4. LogsOK' /\ placed \subseteq placed'  BY <1>1, <1>2, SameLogs DEF OutNoPort
<1> QED  BY <1>1, <1>2, <1>3, <1>4, StepKeeps

LEMMA InKnownCalls ==
  ASSUME NatInv, AllAhead, NEW b \in Box, NEW p, InKnown(b, p)
  PROVE  CallInv'
<1>1. TypeOK /\ FlowInv /\ CallInv  BY DEF NatInv, FlowInv
<1>2. PICK i \in DOMAIN netTable[b] :
        i \in FlowsIn(b, p) /\ Forward(Public, b, p, [p EXCEPT !.dst = netTable[b][i].internal])
  BY DEF InKnown, IsFirst
<1> PICK x : x = netTable[b][i].internal  OBVIOUS
<1> DEFINE q == [p EXCEPT !.dst = x]
<1>3. FromOutside(b, p) /\ UNCHANGED <<box, logs>>  BY DEF InKnown
<1>4. p \in Packet /\ p.call \in Call /\ p.call \in placed /\ p.dst[1] = ExtIP[b]
  BY <1>3, OutsidePacket
<1>5. q.kind = p.kind /\ q.call = p.call /\ q.src = p.src /\ q.dst = x
  BY <1>4, Retargeted
<1>6. Flow(b, p.src, x, p.dst)  BY <1>1, <1>2, EntryFlow DEF FlowsIn
<1> HIDE DEF q
<1>7. x[1] \in HostIP[b] /\ b # Public /\ b \in Site
  BY <1>1, <1>6, FlowFacts, NatAssumption, BoxSites
<1>8. TablesGrow /\ \A d \in Box : EntriesOK(d)' /\ OneExternal(d)'
  BY <1>1, <1>3, SameTables DEF box
<1>9. PacketOK(b, q)
  <2>1. CASE p.kind = "call" /\ p.dst = p.call.dst /\ SeenFrom(p.call, p.src)
    BY <1>4, <1>5, <1>6, <1>7, <2>1 DEF PacketOK, CallAt
  <2>2. CASE p.kind = "reply" /\ p.src = p.call.dst /\ p.call.site = b
             /\ Flow(b, p.src, p.call.src, p.dst)
    <3>1. x = p.call.src  BY <1>1, <1>6, <2>2, FlowFacts
    <3> QED  BY <1>4, <1>5, <1>7, <2>2, <3>1 DEF PacketOK, CallAt
  <2>3. CASE p.kind = "report" /\ Unmatched(p.call)
    BY <1>4, <1>5, <1>7, <2>3 DEF PacketOK, ReportAt
  <2> QED  BY <1>3, <2>1, <2>2, <2>3, OutsidePacket
<1>10. PacketOK(b, q)'
  BY <1>3, <1>7, <1>8, <1>9, PacketKept DEF logs
<1> QED  BY <1>1, <1>2, <1>3, <1>7, <1>8, <1>10, TranslateKeeps, BoxSites DEF box, q

LEMMA InRuleCalls ==
  ASSUME NatInv, AllAhead, NEW b \in Box, NEW p, InRule(b, p)
  PROVE  CallInv'
<1>1. TypeOK /\ FlowInv /\ CallInv  BY DEF NatInv, FlowInv
<1>2. PICK i \in DOMAIN Rules[b] :
        /\ i \in Fitting(b, p) /\ netTable' = Added(b, p.src, Rules[b][i].internal, p.dst)
        /\ Forward(Public, b, p, [p EXCEPT !.dst = Rules[b][i].internal])
  BY DEF InRule, IsLast
<1> DEFINE x == Rules[b][i].internal
           q == [p EXCEPT !.dst = x]
<1>3. FromOutside(b, p) /\ UNCHANGED <<locked, logs>>  BY DEF InRule
<1>4. /\ p \in Packet /\ p.call \in Call /\ p.call \in placed /\ p.dst[1] = ExtIP[b]
      /\ p.src \in Endpoint /\ p.dst \in Endpoint
  BY <1>3, OutsidePacket
<1>5. q.kind = p.kind /\ q.call = p.call /\ q.src = p.src /\ q.dst = x
  BY <1>4, Retargeted
<1>6. x \in Endpoint /\ x[1] \in HostIP[b] /\ Rules[b][i].external = p.dst
  BY <1>2, RuleType, AddressAssumption DEF rule_t, Fitting
<1>7. EntryOK(b, [remote |-> p.src, internal |-> x, external |-> p.dst])
  BY <1>4, <1>6, AddressAssumption DEF EntryOK
<1>8. ASSUME NEW k \in DOMAIN netTable[b], netTable[b][k].remote = p.src
      PROVE  netTable[b][k].internal # x
  <2>1. netTable[b][k].external # p.dst  BY <1>8 DEF InRule, FlowsIn
  <2>2. EntryOK(b, netTable[b][k])  BY <1>1 DEF CallInv, EntriesOK
  <2> QED  BY <1>6, <2>1, <2>2 DEF EntryOK
<1> HIDE DEF x, q
<1>9. /\ TablesGrow /\ Flow(b, p.src, x, p.dst)'
      /\ \A d \in Box : EntriesOK(d)' /\ OneExternal(d)'
  BY <1>1, <1>2, <1>4, <1>6, <1>7, <1>8, AddedTable DEF x
<1>10. b # Public /\ b \in Site /\ Public \in Site  BY NatAssumption, BoxSites
<1>11. p.call \in placed'  BY <1>3, <1>4 DEF logs
<1>12. PacketOK(b, q)'
  <2>1. CASE p.kind = "call" /\ p.dst = p.call.dst /\ SeenFrom(p.call, p.src)
    <3>1. SeenFrom(p.call, p.src)'  BY <1>9, <2>1 DEF SeenFrom, TablesGrow
    <3> QED  BY <1>4, <1>5, <1>6, <1>9, <1>10, <1>11, <2>1, <3>1 DEF PacketOK, CallAt
  <2>2. CASE p.kind = "reply" /\ Flow(b, p.src, p.call.src, p.dst)
    BY <2>2 DEF Flow, InRule, FlowsIn
  <2>3. CASE p.kind = "report" /\ Unmatched(p.call)
    BY <1>5, <1>6, <1>11, <2>3 DEF PacketOK, ReportAt, Unmatched
  <2> QED  BY <1>3, <2>1, <2>2, <2>3, OutsidePacket
<1> QED  BY <1>1, <1>2, <1>3, <1>9, <1>10, <1>12, TranslateKeeps DEF x, q

LEMMA InFailsCalls ==
  ASSUME NatInv, AllAhead, NEW b \in Box, NEW p, InFails(b, p)
  PROVE  CallInv'
<1> DEFINE q == [kind |-> "report", src |-> <<ExtIP[b], ReportPorts[1]>>,
                 dst |-> <<p.src[1], ReportPorts[2]>>, call |-> p.call]
<1>1. TypeOK /\ CallInv  BY DEF NatInv, FlowInv
<1>2. FromOutside(b, p) /\ UNCHANGED logs /\ netTable' = netTable  BY DEF InFails
<1>3. p.call \in placed /\ p.dst[1] = ExtIP[b]  BY <1>2, OutsidePacket
<1>4. Unmatched(p.call)
  <2>1. CASE p.kind = "call" /\ p.dst = p.call.dst
    BY <1>3, <2>1 DEF InFails, Fitting, Unmatched
  <2>2. CASE p.kind = "reply" /\ Flow(b, p.src, p.call.src, p.dst)
    BY <2>2 DEF Flow, InFails, FlowsIn
  <2> QED  BY <1>2, <2>1, <2>2, OutsidePacket
<1>5. TablesGrow /\ \A d \in Box : EntriesOK(d)' /\ OneExternal(d)'
  BY <1>1, <1>2, SameTables
<1>6. \A s \in Site : \A r \in wire'[s] : r \in wire[s] \/ (s = Public /\ r = q)
  BY <1>1, BoxSites DEF InFails, Report, TypeOK
<1>7. LogsOK' /\ placed \subseteq placed'  BY <1>1, <1>2, <1>3, <1>4, <1>5, SameLogs
<1>8. PacketOK(Public, q)'
  BY <1>3, <1>4, <1>7 DEF PacketOK, ReportAt, Unmatched
<1> HIDE DEF q
<1> QED  BY <1>1, <1>5, <1>6, <1>7, <1>8, StepKeeps

-----------------------------------------------------------------------------

\* A counter only goes up, so it was below the rules before it is after.
LEMMA AheadBefore ==
  ASSUME FlowInv, FlowInv', [Next]_vars, AllAhead'
  PROVE  AllAhead
<1>1. port \in [Box -> Nat] /\ port' \in [Box -> Nat]
  BY NatAssumption DEF FlowInv, TypeOK
<1>2. \A b \in Box : port[b] <= port'[b]
  <2>1. CASE port' = port  BY <1>1, <2>1
  <2>2. CASE \E d \in Box : port' = NextPort(d)  BY <1>1, <2>2 DEF NextPort
  <2>3. \A c \in Call : Place(c) => port' = port  BY DEF Place, box
  <2>4. \A s \in Site : \A p : HostReceive(s, p) => port' = port  BY DEF HostReceive, box
  <2>5. \A d \in Box : \A p :
          Translate(d, p) => port' = port \/ port' = NextPort(d)
    BY DEF Translate, OutKnown, OutNew, OutNoPort, InKnown, InRule, InFails, box
  <2>6. port' = port \/ \E d \in Box : port' = NextPort(d)
    <3>1. CASE UNCHANGED vars  BY <3>1 DEF vars, box
    <3>2. CASE Next  BY <2>3, <2>4, <2>5, <3>2 DEF Next, Handle
    <3> QED  BY <3>1, <3>2
  <2> QED  BY <2>1, <2>2, <2>6
<1>3. \A b \in Box : \A i \in DOMAIN Rules[b] : Rules[b][i].external[2] \in Nat
  BY RuleType DEF rule_t, Endpoint
<1> QED  BY <1>1, <1>2, <1>3 DEF AllAhead, RulesAhead

LEMMA CallStep == NatInv /\ [Next]_vars => NatInv'
<1> SUFFICES ASSUME NatInv, [Next]_vars PROVE NatInv'  OBVIOUS
<1>1. FlowInv /\ FlowInv'  BY FlowStep DEF NatInv
<1>2. ASSUME AllAhead' PROVE CallInv'
  <2>1. AllAhead  BY <1>1, <1>2, AheadBefore
  <2>2. CASE UNCHANGED vars
    <3>1. CallInv  BY <2>1 DEF NatInv
    <3>2. TablesGrow /\ \A b \in Box : EntriesOK(b)' /\ OneExternal(b)'
      BY <2>2, <3>1, SameTables DEF vars, box
    <3>3. LogsOK' /\ placed \subseteq placed'
      BY <1>1, <2>2, <3>1, <3>2, SameLogs DEF vars, box, FlowInv
    <3> QED  BY <1>1, <2>2, <3>1, <3>2, <3>3, StepKeeps DEF vars, FlowInv
  <2>3. CASE Next
    <3>1. PICK c \in Call : Place(c) \/ Handle(c)  BY <2>3 DEF Next
    <3>2. CASE Place(c)  BY <2>1, <3>2, PlaceCalls
    <3>3. CASE \E s \in Site : \E p \in wire[s] : HostReceive(s, p)
      BY <2>1, <3>3, HostReceiveCalls
    <3>4. CASE \E b \in Box : \E p \in wire[b] \cup wire[Public] : Translate(b, p)
      BY <2>1, <3>4, OutKnownCalls, OutNewCalls, OutNoPortCalls, InKnownCalls,
         InRuleCalls, InFailsCalls DEF Translate
    <3> QED  BY <3>1, <3>2, <3>3, <3>4 DEF Handle
  <2> QED  BY <2>2, <2>3
<1> QED  BY <1>1, <1>2 DEF NatInv

\* Two calls that a server cannot tell apart are one call.
LEMMA SeenOnce ==
  ASSUME NatInv, AllAhead, NEW c \in Call, NEW d \in Call, NEW s \in Site,
         NEW from, NEW to, CallAt(c, s, from, to), CallAt(d, s, from, to)
  PROVE  c = d
<1>1. CallInv /\ FlowInv  BY DEF NatInv
<1>2. c.site = d.site /\ c.src = d.src /\ c.dst = d.dst => c = d
  BY NatAssumption DEF CallType
<1>3. ASSUME c.dst = d.dst, SeenFrom(c, from), SeenFrom(d, from) PROVE c = d
  <2>1. CASE c.site = Public  BY <1>1, <1>2, <1>3, <2>1, SeenFacts
  <2>2. CASE c.site \in Box
    <3>1. d.site = c.site  BY <1>1, <1>3, <2>2, SeenFacts
    <3>2. c.src = d.src  BY <1>1, <1>3, <2>2, <3>1, SeenFacts, FlowFacts
    <3> QED  BY <1>2, <1>3, <3>1, <3>2
  <2> QED  BY <2>1, <2>2, ClientHome
<1>4. CASE s = Public  BY <1>3, <1>4 DEF CallAt
<1>5. CASE s # Public
  <2>1. s \in Box  BY <1>5 DEF Site
  <2>2. CASE s = c.site /\ from = c.src /\ to = c.dst
    <3>1. ~SeenFrom(d, from)  BY <1>1, <2>1, <2>2, ClientHome, SeenFacts
    <3> QED  BY <1>2, <1>5, <2>2, <3>1 DEF CallAt
  <2>3. CASE SeenFrom(c, from) /\ Flow(s, from, to, c.dst)
    <3>1. ~(s = d.site /\ from = d.src)  BY <1>1, <2>1, <2>3, ClientHome, SeenFacts
    <3>2. SeenFrom(d, from) /\ Flow(s, from, to, d.dst)  BY <1>5, <3>1 DEF CallAt
    <3>3. c.dst = d.dst  BY <1>1, <2>1, <2>3, <3>2, FlowFacts
    <3> QED  BY <1>3, <2>3, <3>2, <3>3
  <2> QED  BY <1>5, <2>2, <2>3 DEF CallAt
<1> QED  BY <1>4, <1>5

\* As long as no box's counter has reached the ports of its rules, answers
\* come back to the caller from the address it called, for every set of
\* networks, rules and calls.
THEOREM NatAnswers == Spec => [](AllAhead => AnswersComeBack)
<1>1. Init => NatInv  BY CallInit
<1>2. NatInv => (AllAhead => AnswersComeBack)
  BY DEF NatInv, CallInv, LogsOK, AnswersComeBack
<1> QED  BY <1>1, <1>2, CallStep, PTL DEF Spec

\* Under the same condition no two calls look the same to a server.
THEOREM NatCallers == Spec => [](AllAhead => CallersApart)
<1>1. Init => NatInv  BY CallInit
<1>2. ASSUME NatInv, AllAhead PROVE CallersApart
  BY <1>2, SeenOnce DEF NatInv, FlowInv, TypeOK, CallInv, LogsOK, CallersApart
<1> QED  BY <1>1, <1>2, CallStep, PTL DEF Spec

\* Under the same condition only calls to an address that no rule names are
\* refused, and only such a call locks a box up.
THEOREM NatRefuses == Spec => [](AllAhead => RefusesOnlyUnmatched)
<1>1. Init => NatInv  BY CallInit
<1>2. NatInv => (AllAhead => RefusesOnlyUnmatched)
  BY DEF NatInv, CallInv, LogsOK
<1> QED  BY <1>1, <1>2, CallStep, PTL DEF Spec
=============================================================================
