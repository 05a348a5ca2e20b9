------------------------------- MODULE Mospf -------------------------------
(***************************************************************************)
(* The link-state routing of lab12/src/MOSPFPacketModule.cpp on routers    *)
(* joined by point-to-point networks.  Each router runs a receiver and     *)
(* four timer threads: hello, LSU, and the ageing of neighbours and of the *)
(* database.  Time passes in ticks of HELLOINT, five seconds; whatever a   *)
(* thread has to do at a tick is done before the next one, and a packet    *)
(* takes much less than a tick.                                            *)
(***************************************************************************)
EXTENDS Integers, Sequences, FiniteSets, SequencesExt, FiniteSetsExt

CONSTANTS
  Router,   \* router ids: the address of the first interface, not 0
  Net,      \* networks
  Attached, \* the routers with an interface in each network, one or two
  NoNet,    \* network 0.0.0.0
  NEIGHBOUR_TIMEOUT, LSUINT, DATABASE_TIMEOUT, \* in ticks
  LSU_TTL_INIT,
  UINT16,    \* 2^16, the modulus of the sequence numbers
  AfterDown, AfterSplit, AfterUp, AfterRestart, \* ticks the routers need to
            \* recover; AfterSplit when some of them cannot reach each other
  Horizon,  \* bounds: Horizon[b] ticks with at most b packets on the wires when
            \* an LSU thread sends
  DownAt, UpAt, RestartAt     \* bounds: the ticks at which something changes

NoRid == 0

ASSUME MospfAssumption ==
  /\ Router \subseteq Nat \ {NoRid} /\ IsFiniteSet(Router)
  /\ Attached \in [Net -> SUBSET Router]
  /\ \A n \in Net : Cardinality(Attached[n]) \in {1, 2}
  /\ NoNet \notin Net
  /\ NEIGHBOUR_TIMEOUT \in Nat \ {0} /\ LSUINT \in Nat \ {0}
  /\ DATABASE_TIMEOUT \in Nat \ {0} /\ UINT16 \in Nat \ {0}
  /\ LSU_TTL_INIT \in Nat /\ Horizon \in [DOMAIN Horizon -> Nat]
  /\ {AfterDown, AfterSplit, AfterUp, AfterRestart} \subseteq Nat
  /\ DOMAIN Horizon \subseteq Nat /\ DownAt \cup UpAt \cup RestartAt \subseteq Nat

VARIABLES
  neighbourInfoMap, \* per router: the network and the age of each neighbour
  changed,          \* neighbourInfoMap_changed
  slept,            \* ticks the LSU thread has slept
  building,         \* the LSU thread left its loop and has not sent yet
  LSUSequence,
  nodeInfoMap,      \* per router: sequence number, age and content of each LSU
  routerTable,      \* the MOSPF entries: the gateway of each network
  helloSent,        \* the hello thread has run in this tick
  up,               \* the networks that carry packets
  wire,             \* packets on their way, by network and receiver
  time,             \* ticks so far
  unsettled,        \* ticks the last change may still be felt
  backlog           \* how crowded the wires get, the same all the time

tables == <<neighbourInfoMap, nodeInfoMap, routerTable>>
lsuThread == <<changed, slept, building, LSUSequence>>
world == <<up, time, unsettled, backlog>>
vars == <<tables, lsuThread, helloSent, wire, world>>

Links == {n \in Net : Cardinality(Attached[n]) = 2}
IfNets(r) == {n \in Net : r \in Attached[n]}
End == {e \in Links \X Router : e[2] \in Attached[e[1]]}

Empty == [x \in {} |-> 0]

\* nbr_ip is 0 in an entry that operator[] of the map has made
Phantom == [net |-> NoNet, alive |-> 0]

\* Mutant of Expired: an entry is kept for one more tick.
Expired_Late(table, limit) == {x \in DOMAIN table : table[x].alive > limit}

\* The entries of a table whose age has reached a limit
Expired(table, limit) == {x \in DOMAIN table : table[x].alive = limit}
Without(table, xs) == [x \in DOMAIN table \ xs |-> table[x]]
Older(table) == [x \in DOMAIN table |-> [table[x] EXCEPT !.alive = @ + 1]]

\* LSU2Content: a network and the neighbour on it, if there is one
Adverts(r, neighbours) ==
  LET heard == {neighbours[x].net : x \in DOMAIN neighbours}
  IN  {<<neighbours[x].net, IF neighbours[x].net = NoNet THEN NoRid ELSE x>>
         : x \in DOMAIN neighbours}
      \cup {<<n, NoRid>> : n \in IfNets(r) \ heard}

-----------------------------------------------------------------------------
(* dijkstra.h on the graph of updateRouterTable                            *)

\* A link is there if either end states it; the router's own neighbours do
\* not count, the LSUs of the others do.
Linked(db, a, b) ==
  LET States(x, y) == x \in DOMAIN db /\ \E p \in db[x].adverts : p[2] = y
  IN  States(a, b) \/ States(b, a)

\* r has index 0 and the others follow by id: the order in which minDist
\* visits the nodes at one distance
First(nodes) == CHOOSE p \in nodes : \A q \in nodes : p.node <= q.node

\* The nodes at distance k, reached by the first node before them: prevIndex.
\* hop is the node after r on the path.
Reached(db, found, k) ==
  LET last == {p \in found : p.dist = k - 1}
      fresh == {b \in DOMAIN db : /\ \A p \in found : p.node # b
                                  /\ \E p \in last : Linked(db, p.node, b)}
      Prev(b) == First({p \in last : Linked(db, p.node, b)})
  IN  {[node |-> b, dist |-> k, hop |-> IF k = 1 THEN b ELSE Prev(b).hop] : b \in fresh}

\* All that can be reached, nearest first
Paths(r, db) ==
  FoldLeft(LAMBDA sofar, k : sofar \cup Reached(db, sofar, k),
           {[node |-> r, dist |-> 0, hop |-> r]},
           [k \in 1 .. Cardinality(DOMAIN db) |-> k])

\* nextIndex.  A node without a path is its own next hop.
NextHops(r, db) ==
  LET found == Paths(r, db)
      Hop(a, h) == \E p \in found : p.node = a /\ p.hop = h
  IN  [a \in DOMAIN db |->
         IF \E h \in DOMAIN db : Hop(a, h)
         THEN CHOOSE h \in DOMAIN db : Hop(a, h) ELSE a]

\* updateRouterTable: neighbourInfoMap[next] makes an entry for a next hop
\* that is no neighbour
WithPhantoms(neighbours, hops) ==
  [x \in DOMAIN neighbours \cup hops |->
     IF x \in DOMAIN neighbours THEN neighbours[x] ELSE Phantom]

\* The entries of a network are in the order of the nodes that state it, and
\* the first one is used.
Owners(db) ==
  LET States(a, n) == \E p \in db[a].adverts : p[1] = n
  IN  [n \in {m \in Net : \E a \in DOMAIN db : States(a, m)} |->
         Min({a \in DOMAIN db : States(a, n)})]

\* The gateway of a network is the address of a neighbour, or, if there is
\* none, what the stack held where it should be.
updateRouterTable(r, neighbours, db) ==
  LET next == NextHops(r, db)
      owner == Owners(db)
      known == WithPhantoms(neighbours, {next[a] : a \in DOMAIN db})
  IN  /\ nodeInfoMap' = [nodeInfoMap EXCEPT ![r] = db]
      /\ neighbourInfoMap' = [neighbourInfoMap EXCEPT ![r] = known]
      /\ routerTable' = [routerTable EXCEPT ![r] =
           [n \in DOMAIN owner |-> [hop |-> next[owner[n]],
                                    net |-> known[next[owner[n]]].net]]]

-----------------------------------------------------------------------------

\* sendPacket of r to every interface but the one in network not; a network
\* that is down loses the packet.  w is what is on the wires before.
Sent(w, r, not, m) ==
  [e \in End |-> IF /\ r \in Attached[e[1]] /\ e[2] # r
                    /\ e[1] # not /\ e[1] \in up
                 THEN Append(w[e], m) ELSE w[e]]

InFlight == FoldFunction(LAMBDA q, n : Len(q) + n, 0, wire)
Silence == \A e \in End : wire[e] = <<>>

\* sendHelloThread.  The threads started one after the other and all sleep
\* equally long, so they run in the same order at each tick.
SendHello(r) ==
  /\ ~helloSent[r]
  /\ \A s \in Router : s < r => helloSent[s]
  /\ Silence
  /\ helloSent' = [helloSent EXCEPT ![r] = TRUE]
  /\ wire' = Sent(wire, r, NoNet, [type |-> "hello", rid |-> r])
  /\ UNCHANGED <<tables, lsuThread, world>>

\* sendLSUThread leaves its loop: the flag is set, or it has slept enough, in
\* which case it does not look at the flag.  No mutex is held.
StopSleeping(r) ==
  /\ ~building[r]
  /\ \/ slept[r] < LSUINT /\ changed[r] /\ changed' = [changed EXCEPT ![r] = FALSE]
     \/ slept[r] >= LSUINT /\ UNCHANGED changed
  /\ building' = [building EXCEPT ![r] = TRUE]
  /\ UNCHANGED <<slept, LSUSequence, tables, helloSent, wire, world>>

\* Mutant of NextSequence: every LSU has the same number.
NextSequence_Same(seq) == seq

NextSequence(seq) == (seq + 1) % UINT16

\* sendLSUThread makes the LSU under neighbourInfoMap_mutex, sends it, and
\* starts to sleep again
SendLSU(r) ==
  /\ building[r]
  /\ InFlight <= backlog
  /\ building' = [building EXCEPT ![r] = FALSE]
  /\ slept' = [slept EXCEPT ![r] = 0]
  /\ LSUSequence' = [LSUSequence EXCEPT ![r] = NextSequence(@)]
  /\ wire' = Sent(wire, r, NoNet,
       [type |-> "LSU", rid |-> r, seq |-> LSUSequence[r], ttl |-> LSU_TTL_INIT,
        adverts |-> Adverts(r, neighbourInfoMap[r])])
  /\ UNCHANGED <<changed, tables, helloSent, world>>

\* Mutant of NeighbourTimeout: the LSU thread is not told.
NeighbourTimeout_Silent(r) ==
  LET old == Expired(neighbourInfoMap[r], NEIGHBOUR_TIMEOUT)
  IN  /\ old # {}
      /\ neighbourInfoMap' = [neighbourInfoMap EXCEPT ![r] = Without(@, old)]
      /\ UNCHANGED <<lsuThread, nodeInfoMap, routerTable, helloSent, wire, world>>

\* neighbourTimeoutThread erases what is too old
NeighbourTimeout(r) ==
  LET old == Expired(neighbourInfoMap[r], NEIGHBOUR_TIMEOUT)
  IN  /\ old # {}
      /\ neighbourInfoMap' = [neighbourInfoMap EXCEPT ![r] = Without(@, old)]
      /\ changed' = [changed EXCEPT ![r] = TRUE]
      /\ UNCHANGED <<slept, building, LSUSequence, nodeInfoMap, routerTable,
                     helloSent, wire, world>>

\* nodeTimeoutThread erases what is too old
NodeTimeout(r) ==
  LET old == Expired(nodeInfoMap[r], DATABASE_TIMEOUT)
  IN  /\ old # {}
      /\ updateRouterTable(r, neighbourInfoMap[r], Without(nodeInfoMap[r], old))
      /\ UNCHANGED <<lsuThread, helloSent, wire, world>>

-----------------------------------------------------------------------------

handleHello(e, m) ==
  LET r == e[2]
  IN  /\ neighbourInfoMap' = [neighbourInfoMap EXCEPT ![r] =
           [x \in DOMAIN @ \cup {m.rid} |->
              IF x = m.rid THEN [net |-> e[1], alive |-> 0] ELSE @[x]]]
      /\ changed' = [changed EXCEPT ![r] =
           @ \/ m.rid \notin DOMAIN neighbourInfoMap[r]]
      /\ wire' = [wire EXCEPT ![e] = Tail(@)]
      /\ UNCHANGED <<slept, building, LSUSequence, nodeInfoMap, routerTable>>

\* Mutant of Newer: an entry is only replaced when it has gone.
Newer_Absent(db, m) == m.rid \notin DOMAIN db

\* Is the LSU newer than what the database holds?
Newer(db, m) == m.rid \notin DOMAIN db \/ db[m.rid].seq < m.seq

\* The database after an LSU.  An LSU that is not newer leaves the age alone.
Stored(db, m) ==
  IF ~Newer(db, m) THEN db
  ELSE [x \in DOMAIN db \cup {m.rid} |->
          IF x = m.rid THEN [seq |-> m.seq, alive |-> 0, adverts |-> m.adverts]
          ELSE db[x]]

\* Mutant of Own: the router takes its own LSUs back.
Own_Never(r, m) == FALSE

Own(r, m) == m.rid = r

\* Mutant of Forwarded: the header gets the id of the router that forwards.
Forwarded_NewHeader(r, m) == [m EXCEPT !.ttl = @ - 1, !.rid = r]

Forwarded(r, m) == [m EXCEPT !.ttl = @ - 1]

\* handleLSU: what is not the router's own is kept, the routes are computed
\* anew, and the packet goes on, however old it is
handleLSU(e, m) ==
  LET r == e[2]
      taken == [wire EXCEPT ![e] = Tail(@)]
  IN  /\ UNCHANGED lsuThread
      /\ \/ Own(r, m) /\ wire' = taken /\ UNCHANGED tables
         \/ /\ ~Own(r, m)
            /\ updateRouterTable(r, neighbourInfoMap[r], Stored(nodeInfoMap[r], m))
            /\ wire' = IF m.ttl > 0 THEN Sent(taken, r, e[1], Forwarded(r, m))
                       ELSE taken

\* handlePacket
Receive(e) ==
  /\ wire[e] # <<>>
  /\ LET m == Head(wire[e])
     IN  IF m.type = "hello" THEN handleHello(e, m) ELSE handleLSU(e, m)
  /\ UNCHANGED <<helloSent, world>>

-----------------------------------------------------------------------------
(* Time, and what happens to the routers and the networks between them.    *)

\* Has everything that is due at this tick been done?
Quiet ==
  /\ Silence
  /\ \A r \in Router :
       /\ helloSent[r] /\ ~changed[r] /\ ~building[r] /\ slept[r] < LSUINT
       /\ Expired(neighbourInfoMap[r], NEIGHBOUR_TIMEOUT) = {}
       /\ Expired(nodeInfoMap[r], DATABASE_TIMEOUT) = {}

\* Five seconds pass: the counters of all threads go on.
Tick ==
  /\ Quiet
  /\ time < Horizon[backlog]
  /\ time' = time + 1
  /\ unsettled' = IF unsettled > 0 THEN unsettled - 1 ELSE 0
  /\ neighbourInfoMap' = [r \in Router |-> Older(neighbourInfoMap[r])]
  /\ nodeInfoMap' = [r \in Router |-> Older(nodeInfoMap[r])]
  /\ slept' = [r \in Router |-> slept[r] + 1]
  /\ helloSent' = [r \in Router |-> FALSE]
  /\ UNCHANGED <<routerTable, changed, building, LSUSequence, wire, up, backlog>>

\* The network changes between two ticks, when it has settled before.
Change(ticks, instants) ==
  /\ Quiet /\ time \in instants /\ unsettled = 0
  /\ unsettled' = ticks
  /\ UNCHANGED <<changed, building, helloSent, wire, time, backlog>>

\* No working link leads out of S.
Closed(S) == \A n \in up : Attached[n] \subseteq S \/ Attached[n] \cap S = {}

\* Two routers with a path of working links between them
Joined(r, s) == \A S \in SUBSET Router : r \in S /\ Closed(S) => s \in S

LinkDown(n) ==
  /\ n \in up /\ up' = up \ {n}
  /\ Change(IF \A r, s \in Router : Joined(r, s)' THEN AfterDown ELSE AfterSplit,
            DownAt)
  /\ UNCHANGED <<tables, slept, LSUSequence>>

LinkUp(n) ==
  /\ n \notin up /\ up' = up \cup {n}
  /\ Change(AfterUp, UpAt)
  /\ UNCHANGED <<tables, slept, LSUSequence>>

\* The program of a router is started again: it knows nothing, and sends its
\* first hello after HELLOINT.
Restart(r) ==
  /\ Change(AfterRestart, RestartAt)
  /\ neighbourInfoMap' = [neighbourInfoMap EXCEPT ![r] = Empty]
  /\ nodeInfoMap' = [nodeInfoMap EXCEPT ![r] = Empty]
  /\ routerTable' = [routerTable EXCEPT ![r] = Empty]
  /\ slept' = [slept EXCEPT ![r] = 0]
  /\ LSUSequence' = [LSUSequence EXCEPT ![r] = 0]
  /\ UNCHANGED up

Init ==
  /\ neighbourInfoMap = [r \in Router |-> Empty]
  /\ changed = [r \in Router |-> FALSE]
  /\ slept = [r \in Router |-> 0]
  /\ building = [r \in Router |-> FALSE]
  /\ LSUSequence = [r \in Router |-> 0]
  /\ nodeInfoMap = [r \in Router |-> Empty]
  /\ routerTable = [r \in Router |-> Empty]
  /\ helloSent = [r \in Router |-> TRUE]
  /\ up = Links
  /\ wire = [e \in End |-> <<>>]
  /\ time = 0 /\ unsettled = AfterUp
  /\ backlog \in DOMAIN Horizon

Next ==
  \/ \E r \in Router :
       \/ SendHello(r) \/ StopSleeping(r) \/ SendLSU(r)
       \/ NeighbourTimeout(r) \/ NodeTimeout(r) \/ Restart(r)
  \/ \E e \in End : Receive(e)
  \/ \E n \in Links : LinkDown(n) \/ LinkUp(n)
  \/ Tick

Spec == Init /\ [][Next]_vars

-----------------------------------------------------------------------------

Advert == (Net \cup {NoNet}) \X (Router \cup {NoRid})
Seqno == 0 .. UINT16 - 1
Neighbour == [net : Net \cup {NoNet}, alive : Nat]
Node == [seq : Seqno, alive : Nat, adverts : SUBSET Advert]
Gateway == [hop : Router, net : Net \cup {NoNet}]
Hello == [type : {"hello"}, rid : Router]
LSU == [type : {"LSU"}, rid : Router, seq : Seqno, ttl : 0 .. LSU_TTL_INIT,
        adverts : SUBSET Advert]

\* A table with some of the keys
IsTable(table, keys, value) ==
  /\ DOMAIN table \subseteq keys
  /\ \A x \in DOMAIN table : table[x] \in value

\* The variables have their types, and no router keeps an LSU of its own.
TypeOK ==
  /\ {DOMAIN neighbourInfoMap, DOMAIN nodeInfoMap, DOMAIN routerTable} = {Router}
  /\ \A r \in Router :
       /\ IsTable(neighbourInfoMap[r], Router, Neighbour)
       /\ IsTable(nodeInfoMap[r], Router \ {r}, Node)
       /\ IsTable(routerTable[r], Net, Gateway)
  /\ wire \in [End -> Seq(Hello \cup LSU)]
  /\ LSUSequence \in [Router -> Seqno]
  /\ slept \in [Router -> Nat]
  /\ {changed, building, helloSent} \subseteq [Router -> BOOLEAN]
  /\ up \subseteq Links

\* Do the adverts of s only say what is so?
TrueOf(s, adverts) ==
  \A p \in adverts : /\ p[1] \in IfNets(s) \cup {NoNet}
                     /\ p[2] # NoRid => p[2] \in Attached[p[1]]

\* No router believes in a link that is not there: what is stored under a
\* router, or on its way in its name, is about interfaces of that router, and
\* a gateway is the other end of a network the two share.
LinksExist ==
  /\ \A r \in Router :
       /\ \A s \in DOMAIN nodeInfoMap[r] : TrueOf(s, nodeInfoMap[r][s].adverts)
       /\ \A n \in DOMAIN routerTable[r] :
            LET gateway == routerTable[r][n]
            IN  gateway.net # NoNet => {r, gateway.hop} \subseteq Attached[gateway.net]
  /\ \A e \in End : \A i \in DOMAIN wire[e] :
       wire[e][i].type = "LSU" => TrueOf(wire[e][i].rid, wire[e][i].adverts)

\* Does a packet to n that is at r get there, hop by hop?
Arrives(r, n) ==
  LET from[k \in 0 .. Cardinality(Router)] ==
        IF k = 0 THEN Attached[n]
        ELSE {s \in Router :
                \/ s \in Attached[n]
                \/ /\ n \in DOMAIN routerTable[s]
                   /\ routerTable[s][n].net \in up
                   /\ routerTable[s][n].hop \in from[k - 1]}
  IN  r \in from[Cardinality(Router)]

Settled == unsettled = 0 /\ Quiet

\* s and x are at the two ends of a working link n.
Faces(s, n, x) == n \in up /\ x # s /\ {s, x} \subseteq Attached[n]

\* Once the network has been left alone for long enough, all routers joined to
\* each other have the same picture, which is the network as it is.
DatabasesAgree ==
  Settled => \A r, s \in Router : r # s /\ Joined(r, s) =>
    /\ s \in DOMAIN nodeInfoMap[r]
    /\ \A n \in IfNets(s), x \in Router \cup {NoRid} :
         <<n, x>> \in nodeInfoMap[r][s].adverts <=>
           IF x = NoRid THEN ~\E y \in Router : Faces(s, n, y)
                        ELSE Faces(s, n, x)

\* Once the network has been left alone for long enough, a router that cannot
\* be reached any more is in no database: nodeTimeoutThread is the only one
\* who takes it out, and no LSU of it may still be passed around.
GoneForgotten ==
  Settled => \A r, s \in Router : ~Joined(r, s) => s \notin DOMAIN nodeInfoMap[r]

\* As long as nothing was lost, whatever the order in which the copies of a
\* flood came in, the LSU that stays is the last one sent.
LatestKept ==
  Quiet /\ (\A t \in RestartAt \cup DownAt : time < t) =>
    \A r, s \in Router : r # s /\ LSUSequence[s] > 0 =>
      s \in DOMAIN nodeInfoMap[r] /\ nodeInfoMap[r][s].seq = LSUSequence[s] - 1

\* Once the network has been left alone for long enough, packets to a network
\* that can be reached get there: no loop, no black hole.
RoutesDeliver ==
  Settled => \A r \in Router, n \in Net :
    /\ \E s \in Attached[n] : Joined(r, s)
    /\ n \in up \/ n \notin Links
    => Arrives(r, n)

=============================================================================
