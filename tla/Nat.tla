--------------------------------- MODULE Nat ---------------------------------
(***************************************************************************)
(* nat_c of lab13/src/nat.cpp: boxes that each join one private network to *)
(* the public one and translate the addresses of TCP packets.  Different   *)
(* private networks may use the same addresses, and calls between hosts of *)
(* two of them pass two boxes (lab13/mininet/nat_topo3.py).                *)
(*                                                                         *)
(* A box takes one packet at a time in its only thread, so handling one    *)
(* packet, from IPPacketModule_c::handlePacket on, is one action.  The     *)
(* thread that would age the table is never started (main.cpp), so `alive' *)
(* is left out.                                                            *)
(***************************************************************************)
EXTENDS Naturals, Sequences

CONSTANTS
  Box, Public,   \* the boxes, which also name their private networks
  IP,            \* addresses
  ExtIP,         \* the public address of each box
  HostIP,        \* the hosts of each network
  Rules,         \* the dnat-rules of each box, in the order of the file
  Call,          \* who calls whom: see CallType
  Listening,     \* the servers, as <<network, endpoint>>
  LastPort,      \* 0xffff
  ReportPorts    \* what a box that reads an ICMP report as TCP takes for
                 \* its source and destination port

Site     == Box \cup {Public}
Endpoint == IP \X Nat
rule_t   == [external : Endpoint, internal : Endpoint]
natMap_t == [remote : Endpoint, internal : Endpoint, external : Endpoint]
CallType == [site : Site, src : Endpoint, dst : Endpoint]

ASSUME NatAssumption ==
  /\ Public \notin Box
  /\ ExtIP \in [Box -> IP]
  /\ HostIP \in [Site -> SUBSET IP]
  /\ Rules \in [Box -> Seq(rule_t)]
  /\ Call \subseteq CallType
  /\ Listening \subseteq Site \X Endpoint
  /\ LastPort \in Nat \ {0}
  /\ ReportPorts \in Nat \X Nat

\* How the networks and the boxes are set up (nat_topo*.py, exp*.conf): no two
\* interfaces have one public address, the dnat-rules lead from different
\* addresses to different servers of the own network, and a client calls from
\* a port that no rule of its box leads to.
ASSUME AddressAssumption ==
  /\ \A b \in Box :
       /\ \A d \in Box : ExtIP[b] = ExtIP[d] => b = d
       /\ \A s \in Site : ExtIP[b] \notin HostIP[s]
       /\ HostIP[Public] \cap HostIP[b] = {}
       /\ \A i \in DOMAIN Rules[b] : Rules[b][i].internal[1] \in HostIP[b]
       /\ \A i, j \in DOMAIN Rules[b] :
            Rules[b][i].internal = Rules[b][j].internal =>
              Rules[b][i].external = Rules[b][j].external
  /\ \A c \in Call :
       /\ c.src[1] \in HostIP[c.site]
       /\ c.site \in Box =>
            \A i \in DOMAIN Rules[c.site] : Rules[c.site][i].internal # c.src

Packet == [kind : {"call", "reply", "report"}, src : Endpoint, dst : Endpoint, call : Call]

VARIABLES
  netTable,    \* the entries of each box; the list of a remote is the
               \* subsequence of the entries with that remote
  port,        \* the next external port of each box
  locked,      \* boxes whose netTable_mutex is never unlocked again
  aborted,     \* boxes whose process has died
  wire,        \* packets on their way in each network
  placed,      \* calls that have been made
  seen,        \* which call each server saw, from what address
  answered,    \* which answer arrived at which endpoint, from what address
  reported     \* calls whose host was told that its target is unreachable

box  == <<netTable, port, locked, aborted>>
logs == <<placed, seen, answered, reported>>
vars == <<box, wire, logs>>

Init ==
  /\ netTable = [b \in Box |-> <<>>]
  /\ port = [b \in Box |-> 1]
  /\ locked = {} /\ aborted = {}
  /\ wire = [s \in Site |-> {}]
  /\ placed = {} /\ seen = {} /\ answered = {} /\ reported = {}

-----------------------------------------------------------------------------
(* The hosts, and the networks that bring packets to them.                 *)

\* A client sends a packet to the address it calls.
Place(c) ==
  /\ c \notin placed
  /\ wire' = [wire EXCEPT ![c.site] = @ \cup
                {[kind |-> "call", src |-> c.src, dst |-> c.dst, call |-> c]}]
  /\ placed' = placed \cup {c}
  /\ UNCHANGED <<box, seen, answered, reported>>

Arrival(s, p) == [call |-> p.call, site |-> s, at |-> p.dst, from |-> p.src]

\* A server answers to where the packet seems to come from; other packets to
\* a host are only noted.
HostReceive(s, p) ==
  /\ p \in wire[s] /\ p.dst[1] \in HostIP[s]
  /\ IF p.kind = "call" /\ <<s, p.dst>> \in Listening
     THEN /\ wire' = [wire EXCEPT ![s] = (@ \ {p}) \cup
                        {[kind |-> "reply", src |-> p.dst, dst |-> p.src, call |-> p.call]}]
          /\ seen' = seen \cup {Arrival(s, p)}
     ELSE /\ wire' = [wire EXCEPT ![s] = @ \ {p}]
          /\ UNCHANGED seen
  /\ answered' = IF p.kind = "reply" THEN answered \cup {Arrival(s, p)} ELSE answered
  /\ reported' = IF p.kind = "report" THEN reported \cup {p.call} ELSE reported
  /\ UNCHANGED <<box, placed>>

-----------------------------------------------------------------------------
(* handlePacket of a box.                                                  *)

Up(b) == b \notin locked /\ b \notin aborted

\* The packet comes from the private network, and is for none of its hosts.
FromInside(b, p) == Up(b) /\ p \in wire[b] /\ p.dst[1] \notin HostIP[b]

FromOutside(b, p) == Up(b) /\ p \in wire[Public] /\ p.dst[1] = ExtIP[b]

\* sendPacket of the other TCPPacketModule
Forward(from, to, p, translated) ==
  wire' = [wire EXCEPT ![from] = @ \ {p}, ![to] = @ \cup {translated}]

IsFirst(i, hits) == i \in hits /\ \A j \in hits : i <= j
IsLast(i, hits)  == i \in hits /\ \A j \in hits : i >= j

\* Mutant: an entry of another host fits too.
FlowsOut_AnyInternal(b, p) == {i \in DOMAIN netTable[b] : netTable[b][i].remote = p.dst}

\* Mutant: an entry of another remote fits too.
FlowsOut_AnyRemote(b, p) == {i \in DOMAIN netTable[b] : netTable[b][i].internal = p.src}

\* The entries of the list of the remote that fit a packet
FlowsOut(b, p) ==
  {i \in DOMAIN netTable[b] :
     netTable[b][i].remote = p.dst /\ netTable[b][i].internal = p.src}

\* Mutant: the external port is not compared.
FlowsIn_AnyPort(b, p) == {i \in DOMAIN netTable[b] : netTable[b][i].remote = p.src}

FlowsIn(b, p) ==
  {i \in DOMAIN netTable[b] :
     netTable[b][i].remote = p.src /\ netTable[b][i].external = p.dst}

OutKnown(b, p) ==
  /\ FromInside(b, p)
  /\ \E i \in DOMAIN netTable[b] :
       /\ IsFirst(i, FlowsOut(b, p))
       /\ Forward(b, Public, p, [p EXCEPT !.src = netTable[b][i].external])
  /\ UNCHANGED <<box, logs>>

\* Mutant: the entry is not kept.
Added_Lost(b, remote, internal, external) == netTable

Added(b, remote, internal, external) ==
  [netTable EXCEPT ![b] =
     Append(@, [remote |-> remote, internal |-> internal, external |-> external])]

\* Mutant: the port is not counted on.
NextPort_Same(b) == port

NextPort(b) == [port EXCEPT ![b] = @ + 1]

\* Mutant: the last port is given out too.
PortsLeft_OffByOne(b) == port[b] <= LastPort

\* What the assert of assignExternalPort demands
PortsLeft(b) == port[b] # LastPort

\* A new flow gets the next port.
OutNew(b, p) ==
  /\ FromInside(b, p) /\ FlowsOut(b, p) = {} /\ PortsLeft(b)
  /\ port' = NextPort(b)
  /\ netTable' = Added(b, p.dst, p.src, <<ExtIP[b], port[b]>>)
  /\ Forward(b, Public, p, [p EXCEPT !.src = <<ExtIP[b], port[b]>>])
  /\ UNCHANGED <<locked, aborted, logs>>

\* The process dies on that assert.
OutNoPort(b, p) ==
  /\ FromInside(b, p) /\ FlowsOut(b, p) = {} /\ ~PortsLeft(b)
  /\ aborted' = aborted \cup {b}
  /\ wire' = [wire EXCEPT ![b] = @ \ {p}]
  /\ UNCHANGED <<netTable, port, locked, logs>>

InKnown(b, p) ==
  /\ FromOutside(b, p)
  /\ \E i \in DOMAIN netTable[b] :
       /\ IsFirst(i, FlowsIn(b, p))
       /\ Forward(Public, b, p, [p EXCEPT !.dst = netTable[b][i].internal])
  /\ UNCHANGED <<box, logs>>

\* The loop over ruleList does not stop at the first rule that fits.
Fitting(b, p) == {i \in DOMAIN Rules[b] : Rules[b][i].external = p.dst}

InRule(b, p) ==
  /\ FromOutside(b, p) /\ FlowsIn(b, p) = {}
  /\ \E i \in DOMAIN Rules[b] :
       /\ IsLast(i, Fitting(b, p))
       /\ netTable' = Added(b, p.src, Rules[b][i].internal, p.dst)
       /\ Forward(Public, b, p, [p EXCEPT !.dst = Rules[b][i].internal])
  /\ UNCHANGED <<port, locked, aborted, logs>>

\* IPPacketModule has ICMP tell the source.
Report(b, p) ==
  [wire EXCEPT ![Public] = (@ \ {p}) \cup
     {[kind |-> "report", src |-> <<ExtIP[b], ReportPorts[1]>>,
       dst |-> <<p.src[1], ReportPorts[2]>>, call |-> p.call]}]

\* No rule fits: translate returns false, with netTable_mutex still locked.
\* The next packet waits for it for ever.
InFails(b, p) ==
  /\ FromOutside(b, p) /\ FlowsIn(b, p) = {} /\ Fitting(b, p) = {}
  /\ wire' = Report(b, p)
  /\ locked' = locked \cup {b}
  /\ UNCHANGED <<netTable, port, aborted, logs>>

-----------------------------------------------------------------------------

Translate(b, p) ==
  \/ OutKnown(b, p) \/ OutNew(b, p) \/ OutNoPort(b, p)
  \/ InKnown(b, p) \/ InRule(b, p) \/ InFails(b, p)

\* Somebody takes a packet of call c.
Handle(c) ==
  \/ \E s \in Site : \E p \in wire[s] : p.call = c /\ HostReceive(s, p)
  \/ \E b \in Box : \E p \in wire[b] \cup wire[Public] : p.call = c /\ Translate(b, p)

Next == \E c \in Call : Place(c) \/ Handle(c)

Spec == Init /\ [][Next]_vars

\* Hosts and links lose no packet, and ustack_run polls the queues of the
\* interfaces in turn, so a packet is taken if the host or the box it waits
\* for still works.  A call has one packet on its way at a time, which ends,
\* so it is enough that some packet is taken.
Fairness == WF_vars(\E c \in Call : Handle(c))

FairSpec == Spec /\ Fairness

-----------------------------------------------------------------------------

TypeOK ==
  /\ netTable \in [Box -> Seq(natMap_t)]
  /\ port \in [Box -> 1 .. LastPort]
  /\ locked \subseteq Box /\ aborted \subseteq Box
  /\ wire \in [Site -> SUBSET Packet]
  /\ placed \subseteq Call /\ reported \subseteq Call
  /\ seen \cup answered \subseteq [call : Call, site : Site, at : Endpoint, from : Endpoint]

\* An answer arrives at the client that called, in its own network, and seems
\* to come from the address it called, whatever calls are translated at the
\* same time, by the same box or by two.
AnswersComeBack ==
  \A a \in answered :
    a.site = a.call.site /\ a.at = a.call.src /\ a.from = a.call.dst

\* Two calls never look the same to a server, although private addresses
\* repeat: each flow to a remote has an external port of its own.
CallersApart ==
  \A x, y \in seen :
    x.site = y.site /\ x.at = y.at /\ x.from = y.from => x.call = y.call

\* The external addresses of the entries of one remote differ, so a packet
\* from that remote fits at most one, as long as the ports given out by
\* assignExternalPort, which knows nothing of the rules, stay below theirs.
OneFlowPerAddress ==
  \A b \in Box :
    (\A i \in DOMAIN Rules[b] : port[b] <= Rules[b][i].external[2]) =>
      \A i, j \in DOMAIN netTable[b] :
        /\ netTable[b][i].remote = netTable[b][j].remote
        /\ netTable[b][i].external = netTable[b][j].external
        => i = j

\* A call to a box that no dnat-rule names
Unmatched(c) ==
  \E b \in Box :
    /\ c.dst[1] = ExtIP[b]
    /\ \A i \in DOMAIN Rules[b] : Rules[b][i].external # c.dst

\* No answer and no call that a rule names is ever refused: a box can only be
\* locked up by a call to an address that none names.
RefusesOnlyUnmatched ==
  /\ \A c \in reported : Unmatched(c)
  /\ locked # {} => \E c \in placed : Unmatched(c)

IsAnswered(c) == \E a \in answered : a.call = c

\* Every call is answered in the end, unless a box ran out of ports or was
\* locked up by an unmatched call.
CallsAnswered ==
  []<>(\/ \A c \in placed : IsAnswered(c)
       \/ aborted # {}
       \/ \E d \in placed : Unmatched(d))

\* lab13Report.md:26: "if the TCP translation fails, it is passed up to ICMP
\* to report that the host is unreachable".
FailuresReported == []<>(\A c \in placed : Unmatched(c) => c \in reported)
=============================================================================
