---------------------------- MODULE MospfProofs ----------------------------
(***************************************************************************)
(* What Mospf promises on every network.  Tables are well formed, and no   *)
(* router ever believes in a link that is not there: a neighbour entry     *)
(* faces the router on the network it names, because a hello only crosses  *)
(* the network it was sent to (IInv).  The latest LSU of every router gets *)
(* to all others, whatever the order of the copies (FloodInv).  When links *)
(* fail and come back, the databases agree again with each other and with  *)
(* the network (AgreeInv), and the routes that dijkstra makes of them      *)
(* deliver (RoutesInv), as long as no router is started again.             *)
(***************************************************************************)
EXTENDS Mospf, NumberLemmas, FiniteSetTheorems

GoodNeighbours(r, table) ==
  /\ IsTable(table, Router, Neighbour)
  /\ \A x \in DOMAIN table :
       table[x].net # NoNet => {r, x} \subseteq Attached[table[x].net]

GoodNodes(r, db) ==
  /\ IsTable(db, Router \ {r}, Node)
  /\ \A s \in DOMAIN db : TrueOf(s, db[s].adverts)

GoodRoutes(r, table) ==
  /\ IsTable(table, Net, Gateway)
  /\ \A n \in DOMAIN table :
       table[n].net # NoNet => {r, table[n].hop} \subseteq Attached[table[n].net]

GoodPacket(e, m) ==
  /\ m \in Hello \cup LSU
  /\ m.type = "hello" => m.rid \in Attached[e[1]]
  /\ m.type = "LSU" => TrueOf(m.rid, m.adverts)

GoodWire(w) ==
  /\ w \in [End -> Seq(Hello \cup LSU)]
  /\ \A e \in End : \A i \in DOMAIN w[e] : GoodPacket(e, w[e][i])

GoodTables ==
  /\ DOMAIN neighbourInfoMap = Router
  /\ DOMAIN nodeInfoMap = Router
  /\ DOMAIN routerTable = Router
  /\ \A r \in Router : /\ GoodNeighbours(r, neighbourInfoMap[r])
                       /\ GoodNodes(r, nodeInfoMap[r])
                       /\ GoodRoutes(r, routerTable[r])

GoodThreads ==
  /\ LSUSequence \in [Router -> Seqno]
  /\ slept \in [Router -> Nat]
  /\ {changed, building, helloSent} \subseteq [Router -> BOOLEAN]
  /\ up \subseteq Links

IInv == GoodTables /\ GoodWire(wire) /\ GoodThreads

-----------------------------------------------------------------------------
(* The networks.                                                           *)

LEMMA NetFacts ==
  /\ Router \subseteq Nat \ {NoRid}
  /\ Attached \in [Net -> SUBSET Router]
  /\ NoNet \notin Net
  /\ \A e \in End : e \in Links \X Router /\ e[1] \in Net /\ e[2] \in Router
                    /\ e[2] \in Attached[e[1]]
  BY MospfAssumption DEF MospfAssumption, End, Links

-----------------------------------------------------------------------------
(* The routes.                                                             *)

\* Whatever the paths are, a next hop is a node of the database.
LEMMA NextHopsType ==
  ASSUME NEW r, NEW db
  PROVE  NextHops(r, db) \in [DOMAIN db -> DOMAIN db]
<1> DEFINE Hop(a, h) == \E p \in Paths(r, db) : p.node = a /\ p.hop = h
           next(a) == IF \E h \in DOMAIN db : Hop(a, h)
                      THEN CHOOSE h \in DOMAIN db : Hop(a, h) ELSE a
<1>1. NextHops(r, db) = [a \in DOMAIN db |-> next(a)]
  BY DEF NextHops
<1>2. ASSUME NEW a \in DOMAIN db
      PROVE  next(a) \in DOMAIN db
  <2> HIDE DEF Hop
  <2> QED
    BY <1>2
<1> HIDE DEF next
<1> QED
  BY <1>1, <1>2

\* The owner of a network is a node of the database.
LEMMA OwnersType ==
  ASSUME NEW db, DOMAIN db \subseteq Nat
  PROVE  /\ DOMAIN Owners(db) \subseteq Net
         /\ \A n \in DOMAIN Owners(db) : Owners(db)[n] \in DOMAIN db
<1> DEFINE States(a, n) == \E p \in db[a].adverts : p[1] = n
           stated == {m \in Net : \E a \in DOMAIN db : States(a, m)}
           by(n) == {a \in DOMAIN db : States(a, n)}
<1>1. Owners(db) = [n \in stated |-> Min(by(n))]
  BY DEF Owners
<1>2. ASSUME NEW n \in stated
      PROVE  Min(by(n)) \in DOMAIN db
  <2>1. by(n) # {} /\ by(n) \in SUBSET Nat /\ by(n) \subseteq DOMAIN db
    BY <1>2
  <2> HIDE DEF by
  <2> QED
    BY <2>1, MinExists
<1>3. stated \subseteq Net
  OBVIOUS
<1> HIDE DEF stated, by
<1> QED
  BY <1>1, <1>2, <1>3

\* Phantoms do no harm to the neighbours.
LEMMA PhantomsGood ==
  ASSUME NEW r \in Router, NEW table, GoodNeighbours(r, table),
         NEW hops \in SUBSET Router
  PROVE  /\ GoodNeighbours(r, WithPhantoms(table, hops))
         /\ hops \subseteq DOMAIN WithPhantoms(table, hops)
<1>1. Phantom \in Neighbour /\ Phantom.net = NoNet
  BY DEF Phantom, Neighbour
<1> QED
  BY <1>1 DEF GoodNeighbours, IsTable, WithPhantoms

\* Good neighbours and a good database give good routes.
LEMMA UpdateGood ==
  ASSUME GoodTables, NEW r \in Router,
         NEW neighbours, GoodNeighbours(r, neighbours),
         NEW db, GoodNodes(r, db),
         updateRouterTable(r, neighbours, db)
  PROVE  GoodTables'
<1> DEFINE next == NextHops(r, db)
           owner == Owners(db)
           hops == {next[a] : a \in DOMAIN db}
           known == WithPhantoms(neighbours, hops)
           routes == [n \in DOMAIN owner |-> [hop |-> next[owner[n]],
                                               net |-> known[next[owner[n]]].net]]
<1>1. /\ nodeInfoMap' = [nodeInfoMap EXCEPT ![r] = db]
      /\ neighbourInfoMap' = [neighbourInfoMap EXCEPT ![r] = known]
      /\ routerTable' = [routerTable EXCEPT ![r] = routes]
  BY DEF updateRouterTable
<1>2. DOMAIN db \subseteq Router /\ DOMAIN db \subseteq Nat
  BY NetFacts DEF GoodNodes, IsTable
<1>3. next \in [DOMAIN db -> DOMAIN db]
  BY NextHopsType
<1>4. DOMAIN owner \subseteq Net /\ \A n \in DOMAIN owner : owner[n] \in DOMAIN db
  BY <1>2, OwnersType
<1> HIDE DEF next, owner
<1>5. hops \in SUBSET Router
  BY <1>2, <1>3
<1>6. GoodNeighbours(r, known) /\ hops \subseteq DOMAIN known
  BY <1>5, PhantomsGood
<1>7. \A n \in DOMAIN owner : next[owner[n]] \in hops
  BY <1>4
<1> HIDE DEF known, hops
<1>8. GoodRoutes(r, routes)
  <2>1. ASSUME NEW n \in DOMAIN owner
        PROVE  /\ routes[n] = [hop |-> next[owner[n]], net |-> known[next[owner[n]]].net]
               /\ next[owner[n]] \in Router
               /\ known[next[owner[n]]] \in Neighbour
               /\ known[next[owner[n]]].net # NoNet
                    => {r, next[owner[n]]} \subseteq Attached[known[next[owner[n]]].net]
    BY <1>5, <1>6, <1>7 DEF GoodNeighbours, IsTable
  <2>2. DOMAIN routes = DOMAIN owner
    OBVIOUS
  <2> HIDE DEF routes
  <2>3. ASSUME NEW n \in DOMAIN routes
        PROVE  /\ routes[n] \in Gateway
               /\ routes[n].net # NoNet
                    => {r, routes[n].hop} \subseteq Attached[routes[n].net]
    BY <2>1, <2>2 DEF Neighbour, Gateway
  <2> QED
    BY <1>4, <2>2, <2>3 DEF GoodRoutes, IsTable
<1> HIDE DEF routes
<1> QED
  BY <1>1, <1>6, <1>8 DEF GoodTables

-----------------------------------------------------------------------------
(* The packets.                                                            *)

\* What a router says of its interfaces and its neighbours is so.
LEMMA AdvertsTrue ==
  ASSUME NEW r \in Router, NEW table, GoodNeighbours(r, table)
  PROVE  Adverts(r, table) \in SUBSET Advert /\ TrueOf(r, Adverts(r, table))
<1> DEFINE heard == {table[x].net : x \in DOMAIN table}
           told(x) == <<table[x].net, IF table[x].net = NoNet THEN NoRid ELSE x>>
<1>1. ASSUME NEW x \in DOMAIN table
      PROVE  /\ told(x) \in Advert
             /\ told(x)[1] \in IfNets(r) \cup {NoNet}
             /\ told(x)[2] # NoRid => told(x)[2] \in Attached[told(x)[1]]
  <2>1. /\ x \in Router /\ table[x].net \in Net \cup {NoNet}
        /\ table[x].net # NoNet => {r, x} \subseteq Attached[table[x].net]
    BY <1>1 DEF GoodNeighbours, IsTable, Neighbour
  <2> QED
    BY <2>1, NetFacts DEF Advert, IfNets
<1>2. ASSUME NEW n \in IfNets(r) \ heard
      PROVE  <<n, NoRid>> \in Advert /\ n \in IfNets(r)
  BY DEF Advert, IfNets
<1>3. ASSUME NEW p \in Adverts(r, table)
      PROVE  \/ \E x \in DOMAIN table : p = told(x)
             \/ \E n \in IfNets(r) \ heard : p = <<n, NoRid>>
  BY <1>3 DEF Adverts
<1>4. ASSUME NEW p \in Adverts(r, table)
      PROVE  /\ p \in Advert
             /\ p[1] \in IfNets(r) \cup {NoNet}
             /\ p[2] # NoRid => p[2] \in Attached[p[1]]
  <2>1. CASE \E x \in DOMAIN table : p = told(x)
    BY <2>1, <1>1
  <2>2. CASE \E n \in IfNets(r) \ heard : p = <<n, NoRid>>
    BY <2>2, <1>2
  <2> QED
    BY <2>1, <2>2, <1>3
<1> QED
  BY <1>4 DEF TrueOf

\* A packet that is good on all networks of its sender stays so on the way.
LEMMA SentGood ==
  ASSUME NEW w, GoodWire(w), NEW r, NEW not, NEW m,
         \A e \in End : r \in Attached[e[1]] => GoodPacket(e, m)
  PROVE  GoodWire(Sent(w, r, not, m))
<1> DEFINE new == Sent(w, r, not, m)
<1>1. ASSUME NEW e \in End
      PROVE  /\ new[e] \in Seq(Hello \cup LSU)
             /\ \A i \in DOMAIN new[e] : GoodPacket(e, new[e][i])
  <2>1. w[e] \in Seq(Hello \cup LSU) /\ \A i \in DOMAIN w[e] : GoodPacket(e, w[e][i])
    BY DEF GoodWire
  <2>2. CASE r \in Attached[e[1]] /\ new[e] = Append(w[e], m)
    <3>1. GoodPacket(e, m) /\ m \in Hello \cup LSU
      BY <2>2 DEF GoodPacket
    <3> HIDE DEF new
    <3>2. ASSUME NEW i \in DOMAIN new[e]
          PROVE  GoodPacket(e, new[e][i])
      <4>1. CASE i = Len(w[e]) + 1
        BY <2>1, <2>2, <3>1, <4>1
      <4>2. CASE i # Len(w[e]) + 1
        <5>1. i \in DOMAIN w[e] /\ new[e][i] = w[e][i]
          BY <2>1, <2>2, <3>1, <3>2, <4>2
        <5> QED
          BY <2>1, <5>1
      <4> QED
        BY <4>1, <4>2
    <3> QED
      BY <2>1, <2>2, <3>1, <3>2
  <2>3. CASE new[e] = w[e]
    BY <2>1, <2>3
  <2>4. \/ r \in Attached[e[1]] /\ new[e] = Append(w[e], m)
        \/ new[e] = w[e]
    BY DEF Sent
  <2> QED
    BY <2>2, <2>3, <2>4
<1>2. new = [e \in End |-> new[e]]
  BY DEF Sent
<1>3. GoodWire(new)
  <2> HIDE DEF new
  <2> QED
    BY <1>1, <1>2 DEF GoodWire
<1> QED
  BY <1>3

\* What a router takes off a wire is good, and so is what stays.
LEMMA TakeGood ==
  ASSUME GoodWire(wire), NEW e \in End, wire[e] # <<>>
  PROVE  /\ GoodPacket(e, Head(wire[e]))
         /\ GoodWire([wire EXCEPT ![e] = Tail(@)])
<1> DEFINE new == [wire EXCEPT ![e] = Tail(@)]
<1>1. wire \in [End -> Seq(Hello \cup LSU)]
  BY DEF GoodWire
<1>2. ASSUME NEW q \in End
      PROVE  /\ new[q] \in Seq(Hello \cup LSU)
             /\ \A i \in DOMAIN new[q] : GoodPacket(q, new[q][i])
  <2>1. CASE q # e
    BY <1>1, <2>1 DEF GoodWire
  <2>2. CASE q = e
    <3>1. new[q] = Tail(wire[e]) /\ wire[e] \in Seq(Hello \cup LSU)
      BY <1>1, <2>2
    <3>2. ASSUME NEW i \in DOMAIN new[q]
          PROVE  i + 1 \in DOMAIN wire[e] /\ new[q][i] = wire[e][i + 1]
      <4> HIDE DEF new
      <4>1. Len(wire[e]) \in Nat \ {0} /\ Len(Tail(wire[e])) = Len(wire[e]) - 1
        BY <3>1
      <4>2. i \in 1 .. Len(wire[e]) - 1
        BY <3>1, <3>2, <4>1
      <4> QED
        BY <3>1, <4>1, <4>2
    <3> QED
      BY <2>2, <3>1, <3>2 DEF GoodWire
  <2> QED
    BY <2>1, <2>2
<1>3. 1 \in DOMAIN wire[e] /\ Head(wire[e]) = wire[e][1]
  BY <1>1
<1> QED
  BY <1>1, <1>2, <1>3 DEF GoodWire

-----------------------------------------------------------------------------
(* The invariant is there at the start and stays.                          *)

LEMMA InitIInv == Init => IInv
<1> SUFFICES ASSUME Init PROVE IInv
  OBVIOUS
<1>1. GoodTables
  BY DEF Init, GoodTables, GoodNeighbours, GoodNodes, GoodRoutes, IsTable, Empty
<1>2. GoodWire(wire)
  <2>1. <<>> \in Seq(Hello \cup LSU) /\ DOMAIN <<>> = {}
    OBVIOUS
  <2> QED
    BY <2>1 DEF Init, GoodWire
<1>3. GoodThreads
  BY MospfAssumption DEF MospfAssumption, Init, GoodThreads, Seqno
<1> QED
  BY <1>1, <1>2, <1>3 DEF IInv

LEMMA SendHelloKeeps ==
  ASSUME IInv, NEW r \in Router, SendHello(r)
  PROVE  IInv'
<1> DEFINE m == [type |-> "hello", rid |-> r]
<1>1. \A e \in End : r \in Attached[e[1]] => GoodPacket(e, m)
  BY DEF GoodPacket, Hello
<1>2. wire' = Sent(wire, r, NoNet, m)
  BY DEF SendHello
<1>3. GoodWire(wire')
  BY <1>1, <1>2, SentGood DEF IInv
<1>4. GoodTables' /\ GoodThreads'
  BY DEF SendHello, IInv, tables, lsuThread, world, GoodTables, GoodThreads
<1> QED
  BY <1>3, <1>4 DEF IInv

LEMMA StopSleepingKeeps ==
  ASSUME IInv, NEW r \in Router, StopSleeping(r)
  PROVE  IInv'
<1>1. GoodTables' /\ GoodWire(wire')
  BY DEF StopSleeping, IInv, tables, world, GoodTables
<1>2. GoodThreads'
  BY DEF StopSleeping, IInv, world, GoodThreads
<1> QED
  BY <1>1, <1>2 DEF IInv

LEMMA SendLSUKeeps ==
  ASSUME IInv, NEW r \in Router, SendLSU(r)
  PROVE  IInv'
<1> DEFINE m == [type |-> "LSU", rid |-> r, seq |-> LSUSequence[r],
                 ttl |-> LSU_TTL_INIT, adverts |-> Adverts(r, neighbourInfoMap[r])]
<1>1. Adverts(r, neighbourInfoMap[r]) \in SUBSET Advert
      /\ TrueOf(r, Adverts(r, neighbourInfoMap[r]))
  BY AdvertsTrue DEF IInv, GoodTables
<1>2. LSUSequence[r] \in Seqno /\ LSU_TTL_INIT \in 0 .. LSU_TTL_INIT
  BY MospfAssumption DEF MospfAssumption, IInv, GoodThreads
<1>3. m \in LSU
  BY <1>1, <1>2 DEF LSU
<1>4. \A e \in End : GoodPacket(e, m)
  BY <1>1, <1>3 DEF GoodPacket
<1>5. wire' = Sent(wire, r, NoNet, m)
  BY DEF SendLSU
<1> HIDE DEF m
<1>6. GoodWire(wire')
  BY <1>4, <1>5, SentGood DEF IInv
<1>7. NextSequence(LSUSequence[r]) \in Seqno
  BY <1>2, MospfAssumption DEF MospfAssumption, NextSequence, Seqno
<1>8. GoodThreads'
  BY <1>7 DEF SendLSU, IInv, world, GoodThreads
<1>9. GoodTables'
  BY DEF SendLSU, IInv, tables, GoodTables
<1> QED
  BY <1>6, <1>8, <1>9 DEF IInv

LEMMA NeighbourTimeoutKeeps ==
  ASSUME IInv, NEW r \in Router, NeighbourTimeout(r)
  PROVE  IInv'
<1>1. ASSUME NEW table, GoodNeighbours(r, table), NEW xs
      PROVE  GoodNeighbours(r, Without(table, xs))
  BY <1>1 DEF GoodNeighbours, IsTable, Without
<1>2. GoodNeighbours(r, neighbourInfoMap'[r])
  BY <1>1 DEF IInv, GoodTables, NeighbourTimeout
<1>3. GoodTables'
  BY <1>2 DEF IInv, GoodTables, NeighbourTimeout
<1>4. GoodThreads' /\ GoodWire(wire')
  BY DEF NeighbourTimeout, IInv, world, GoodThreads
<1> QED
  BY <1>3, <1>4 DEF IInv

LEMMA NodeTimeoutKeeps ==
  ASSUME IInv, NEW r \in Router, NodeTimeout(r)
  PROVE  IInv'
<1> DEFINE db == Without(nodeInfoMap[r], Expired(nodeInfoMap[r], DATABASE_TIMEOUT))
<1>1. GoodNodes(r, db)
  BY DEF IInv, GoodTables, GoodNodes, IsTable, Without
<1>2. updateRouterTable(r, neighbourInfoMap[r], db)
  BY DEF NodeTimeout
<1> HIDE DEF db
<1>3. GoodTables'
  BY <1>1, <1>2, UpdateGood DEF IInv, GoodTables
<1>4. GoodThreads' /\ GoodWire(wire')
  BY DEF NodeTimeout, IInv, lsuThread, world, GoodThreads
<1> QED
  BY <1>3, <1>4 DEF IInv

LEMMA HandleHelloKeeps ==
  ASSUME IInv, NEW e \in End, wire[e] # <<>>, Head(wire[e]).type = "hello",
         handleHello(e, Head(wire[e])), UNCHANGED <<helloSent, world>>
  PROVE  IInv'
<1> DEFINE m == Head(wire[e])
           r == e[2]
<1>1. m.rid \in Attached[e[1]] /\ m.rid \in Router /\ GoodWire([wire EXCEPT ![e] = Tail(@)])
  BY TakeGood, NetFacts DEF IInv, GoodPacket
<1>2. r \in Router /\ r \in Attached[e[1]] /\ e[1] \in Net
  BY NetFacts
<1>3. ASSUME NEW table, GoodNeighbours(r, table)
      PROVE  GoodNeighbours(r, [x \in DOMAIN table \cup {m.rid} |->
               IF x = m.rid THEN [net |-> e[1], alive |-> 0] ELSE table[x]])
  BY <1>1, <1>2, <1>3 DEF GoodNeighbours, IsTable, Neighbour
<1> HIDE DEF m, r
<1>4. neighbourInfoMap' = [neighbourInfoMap EXCEPT ![r] =
        [x \in DOMAIN neighbourInfoMap[r] \cup {m.rid} |->
           IF x = m.rid THEN [net |-> e[1], alive |-> 0] ELSE neighbourInfoMap[r][x]]]
  BY <1>2 DEF handleHello, m, r, IInv, GoodTables
<1>5. GoodNeighbours(r, neighbourInfoMap'[r])
  BY <1>2, <1>3, <1>4 DEF IInv, GoodTables
<1>6. GoodTables'
  BY <1>2, <1>4, <1>5 DEF IInv, GoodTables, handleHello
<1>7. GoodWire(wire')
  BY <1>1 DEF handleHello
<1>8. changed' \in [Router -> BOOLEAN]
  BY <1>2 DEF handleHello, IInv, GoodThreads, r
<1>9. GoodThreads'
  BY <1>8 DEF handleHello, IInv, GoodThreads, world
<1> QED
  BY <1>6, <1>7, <1>9 DEF IInv

\* A database takes over what is so.
LEMMA StoredGood ==
  ASSUME NEW r \in Router, NEW db, GoodNodes(r, db),
         NEW m \in LSU, m.rid # r, TrueOf(m.rid, m.adverts)
  PROVE  GoodNodes(r, Stored(db, m))
<1>1. /\ [seq |-> m.seq, alive |-> 0, adverts |-> m.adverts] \in Node
      /\ m.rid \in Router \ {r}
  BY DEF LSU, Node
<1> QED
  BY <1>1 DEF Stored, GoodNodes, IsTable

LEMMA HandleLSUKeeps ==
  ASSUME IInv, NEW e \in End, wire[e] # <<>>, Head(wire[e]).type # "hello",
         handleLSU(e, Head(wire[e])), UNCHANGED <<helloSent, world>>
  PROVE  IInv'
<1> DEFINE m == Head(wire[e])
           r == e[2]
           taken == [wire EXCEPT ![e] = Tail(@)]
<1>1. m \in LSU /\ TrueOf(m.rid, m.adverts) /\ GoodWire(taken)
  BY TakeGood DEF IInv, GoodPacket, Hello, LSU
<1>2. r \in Router
  BY NetFacts
<1>3. \/ Own(r, m) /\ wire' = taken /\ UNCHANGED tables
      \/ /\ ~Own(r, m)
         /\ updateRouterTable(r, neighbourInfoMap[r], Stored(nodeInfoMap[r], m))
         /\ wire' = IF m.ttl > 0 THEN Sent(taken, r, e[1], Forwarded(r, m)) ELSE taken
  BY DEF handleLSU
<1>4. GoodThreads'
  BY DEF handleLSU, IInv, GoodThreads, lsuThread, world
<1> HIDE DEF m, r, taken
<1>5. CASE Own(r, m) /\ wire' = taken /\ UNCHANGED tables
  BY <1>1, <1>4, <1>5 DEF IInv, GoodTables, tables
<1>6. CASE /\ ~Own(r, m)
           /\ updateRouterTable(r, neighbourInfoMap[r], Stored(nodeInfoMap[r], m))
           /\ wire' = IF m.ttl > 0 THEN Sent(taken, r, e[1], Forwarded(r, m)) ELSE taken
  <2>1. GoodNodes(r, Stored(nodeInfoMap[r], m))
    BY <1>1, <1>2, <1>6, StoredGood DEF Own, IInv, GoodTables
  <2>2. GoodTables'
    BY <1>2, <1>6, <2>1, UpdateGood DEF IInv, GoodTables
  <2>3. ASSUME m.ttl > 0
        PROVE  \A q \in End : GoodPacket(q, Forwarded(r, m))
    <3>1. LSU_TTL_INIT \in Nat
      BY MospfAssumption DEF MospfAssumption
    <3>2. Forwarded(r, m) \in LSU
      BY <1>1, <2>3, <3>1 DEF Forwarded, LSU
    <3>3. Forwarded(r, m).rid = m.rid /\ Forwarded(r, m).adverts = m.adverts
          /\ Forwarded(r, m).type = m.type
      BY <1>1 DEF Forwarded, LSU
    <3> QED
      BY <1>1, <3>2, <3>3 DEF GoodPacket, LSU
  <2>4. GoodWire(wire')
    <3>1. CASE m.ttl > 0
      BY <1>1, <1>6, <2>3, <3>1, SentGood
    <3>2. CASE ~(m.ttl > 0)
      BY <1>1, <1>6, <3>2
    <3> QED
      BY <3>1, <3>2
  <2> QED
    BY <1>4, <2>2, <2>4 DEF IInv
<1> QED
  BY <1>3, <1>5, <1>6

\* A new tick makes all entries older.
LEMMA TickKeeps ==
  ASSUME IInv, Tick
  PROVE  IInv'
<1>1. ASSUME NEW r \in Router
      PROVE  /\ GoodNeighbours(r, Older(neighbourInfoMap[r]))
             /\ GoodNodes(r, Older(nodeInfoMap[r]))
  <2>1. GoodNeighbours(r, Older(neighbourInfoMap[r]))
    BY DEF IInv, GoodTables, GoodNeighbours, IsTable, Older, Neighbour
  <2>2. GoodNodes(r, Older(nodeInfoMap[r]))
    BY DEF IInv, GoodTables, GoodNodes, IsTable, Older, Node
  <2> QED
    BY <2>1, <2>2
<1>2. GoodTables'
  BY <1>1 DEF Tick, IInv, GoodTables
<1>3. GoodThreads'
  BY DEF Tick, IInv, GoodThreads
<1>4. GoodWire(wire')
  BY DEF Tick, IInv
<1> QED
  BY <1>2, <1>3, <1>4 DEF IInv

LEMMA LinkKeeps ==
  ASSUME IInv, NEW n \in Links, LinkDown(n) \/ LinkUp(n)
  PROVE  IInv'
<1>1. up' \subseteq Links
  BY DEF IInv, GoodThreads, LinkDown, LinkUp
<1>2. UNCHANGED <<tables, slept, LSUSequence, changed, building, helloSent, wire>>
  BY DEF LinkDown, LinkUp, Change
<1> QED
  BY <1>1, <1>2 DEF IInv, GoodTables, GoodThreads, tables

LEMMA RestartKeeps ==
  ASSUME IInv, NEW r \in Router, Restart(r)
  PROVE  IInv'
<1>1. GoodNeighbours(r, Empty) /\ GoodNodes(r, Empty) /\ GoodRoutes(r, Empty)
  BY DEF GoodNeighbours, GoodNodes, GoodRoutes, IsTable, Empty
<1>2. GoodTables'
  BY <1>1 DEF Restart, IInv, GoodTables
<1>3. LSUSequence' \in [Router -> Seqno] /\ slept' \in [Router -> Nat]
  BY MospfAssumption DEF MospfAssumption, Restart, IInv, GoodThreads, Seqno
<1>4. GoodThreads' /\ GoodWire(wire')
  BY <1>3 DEF Restart, Change, IInv, GoodThreads
<1> QED
  BY <1>2, <1>4 DEF IInv

LEMMA NextIInv == IInv /\ [Next]_vars => IInv'
<1> SUFFICES ASSUME IInv, [Next]_vars PROVE IInv'
  OBVIOUS
<1>1. ASSUME NEW r \in Router,
             \/ SendHello(r) \/ StopSleeping(r) \/ SendLSU(r)
             \/ NeighbourTimeout(r) \/ NodeTimeout(r) \/ Restart(r)
      PROVE  IInv'
  BY <1>1, SendHelloKeeps, StopSleepingKeeps, SendLSUKeeps, NeighbourTimeoutKeeps,
     NodeTimeoutKeeps, RestartKeeps
<1>2. ASSUME NEW e \in End, Receive(e)
      PROVE  IInv'
  <2>1. CASE Head(wire[e]).type = "hello"
    BY <1>2, <2>1, HandleHelloKeeps DEF Receive
  <2>2. CASE Head(wire[e]).type # "hello"
    BY <1>2, <2>2, HandleLSUKeeps DEF Receive
  <2> QED
    BY <2>1, <2>2
<1>3. ASSUME NEW n \in Links, LinkDown(n) \/ LinkUp(n)
      PROVE  IInv'
  BY <1>3, LinkKeeps
<1>4. CASE Tick
  BY <1>4, TickKeeps
<1>5. CASE UNCHANGED vars
  BY <1>5 DEF vars, IInv, GoodTables, GoodThreads, tables, lsuThread, world
<1> QED
  BY <1>1, <1>2, <1>3, <1>4, <1>5 DEF Next

\* Type correctness: every table of every router is well formed, whatever the
\* order of the packets and the timers, and no router keeps an LSU of its own
\* (handleLSU drops what comes back).
THEOREM MospfTypes == Spec => []TypeOK
<1>1. IInv => TypeOK
  BY DEF IInv, GoodTables, GoodThreads, GoodWire, GoodNeighbours, GoodNodes,
         GoodRoutes, TypeOK
<1> QED
  BY <1>1, InitIInv, NextIInv, PTL DEF Spec

\* No router ever believes in a link that does not exist, and every gateway is
\* the other end of a network the two routers share (handleHello, handleLSU,
\* updateRouterTable), on every network and however packets are lost, held up
\* or overtaken by timeouts, links that break and routers that restart.
THEOREM MospfLinks == Spec => []LinksExist
<1>1. IInv => LinksExist
  BY DEF IInv, GoodTables, GoodWire, GoodNodes, GoodRoutes, GoodPacket, LinksExist
<1> QED
  BY <1>1, InitIInv, NextIInv, PTL DEF Spec

-----------------------------------------------------------------------------
(* What is on the wires after a packet is sent or taken.                   *)

\* m is on its way to the receiver of q
On(w, q, m) == \E i \in DOMAIN w[q] : w[q][i] = m

\* sendPacket puts the packet on the networks of the sender, one excepted.
LEMMA SentOn ==
  ASSUME NEW w, GoodWire(w), NEW r, NEW not, NEW m, NEW q \in End, NEW x
  PROVE  On(Sent(w, r, not, m), q, x) <=>
           \/ On(w, q, x)
           \/ x = m /\ r \in Attached[q[1]] /\ q[2] # r /\ q[1] # not /\ q[1] \in up
<1> DEFINE new == Sent(w, r, not, m)
           Takes == r \in Attached[q[1]] /\ q[2] # r /\ q[1] # not /\ q[1] \in up
<1>1. w[q] \in Seq(Hello \cup LSU)
  BY DEF GoodWire
<1>2. new[q] = IF Takes THEN Append(w[q], m) ELSE w[q]
  BY DEF Sent
<1> HIDE DEF new, Takes
<1>3. CASE Takes
  <2>1. /\ Len(w[q]) \in Nat /\ DOMAIN w[q] = 1 .. Len(w[q])
        /\ DOMAIN new[q] = 1 .. Len(w[q]) + 1
        /\ new[q][Len(w[q]) + 1] = m
        /\ \A i \in 1 .. Len(w[q]) : new[q][i] = w[q][i]
    BY <1>1, <1>2, <1>3
  <2>2. ASSUME On(new, q, x)
        PROVE  On(w, q, x) \/ x = m
    <3>1. PICK i \in DOMAIN new[q] : new[q][i] = x
      BY <2>2 DEF On
    <3> QED
      BY <2>1, <3>1 DEF On
  <2>3. On(w, q, x) => On(new, q, x)
    BY <2>1 DEF On
  <2>4. x = m => On(new, q, x)
    BY <2>1 DEF On
  <2> QED
    BY <1>3, <2>2, <2>3, <2>4 DEF new, Takes
<1>4. CASE ~Takes
  BY <1>2, <1>4 DEF On, new, Takes
<1> QED
  BY <1>3, <1>4

\* A receiver takes the head of its queue.
LEMMA TakenOn ==
  ASSUME GoodWire(wire), NEW e \in End, wire[e] # <<>>, NEW q \in End, NEW x
  PROVE  LET taken == [wire EXCEPT ![e] = Tail(@)]
         IN  /\ On(taken, q, x) => On(wire, q, x)
             /\ On(wire, q, x) => On(taken, q, x) \/ (q = e /\ x = Head(wire[e]))
             /\ On(wire, e, Head(wire[e]))
<1> DEFINE taken == [wire EXCEPT ![e] = Tail(@)]
<1>1. wire[e] \in Seq(Hello \cup LSU) /\ wire \in [End -> Seq(Hello \cup LSU)]
  BY DEF GoodWire
<1>2. taken[e] = Tail(wire[e]) /\ (q # e => taken[q] = wire[q])
  BY <1>1
<1> HIDE DEF taken
<1>3. /\ Len(wire[e]) \in Nat \ {0} /\ DOMAIN wire[e] = 1 .. Len(wire[e])
      /\ DOMAIN taken[e] = 1 .. Len(wire[e]) - 1
      /\ \A i \in 1 .. Len(wire[e]) - 1 : taken[e][i] = wire[e][i + 1]
      /\ Head(wire[e]) = wire[e][1]
  BY <1>1, <1>2
<1>4. On(taken, e, x) => On(wire, e, x)
  <2> SUFFICES ASSUME On(taken, e, x) PROVE On(wire, e, x)
    OBVIOUS
  <2>1. PICK i \in DOMAIN taken[e] : taken[e][i] = x
    BY DEF On
  <2>2. i + 1 \in DOMAIN wire[e] /\ wire[e][i + 1] = x
    BY <1>3, <2>1
  <2> QED
    BY <2>2 DEF On
<1>5. On(wire, e, x) => On(taken, e, x) \/ x = Head(wire[e])
  <2> SUFFICES ASSUME On(wire, e, x) PROVE On(taken, e, x) \/ x = Head(wire[e])
    OBVIOUS
  <2>1. PICK i \in DOMAIN wire[e] : wire[e][i] = x
    BY DEF On
  <2>2. CASE i = 1
    BY <1>3, <2>1, <2>2
  <2>3. CASE i # 1
    <3>1. i - 1 \in DOMAIN taken[e] /\ taken[e][i - 1] = x
      BY <1>3, <2>1, <2>3
    <3> QED
      BY <3>1 DEF On
  <2> QED
    BY <2>2, <2>3
<1>6. On(wire, e, Head(wire[e]))
  BY <1>3 DEF On
<1>7. q # e => (On(taken, q, x) <=> On(wire, q, x))
  BY <1>2 DEF On
<1> QED
  BY <1>4, <1>5, <1>6, <1>7 DEF taken

\* What is on the wires is a packet.
LEMMA OnIs ==
  ASSUME NEW w, GoodWire(w), NEW q \in End, NEW x, On(w, q, x)
  PROVE  GoodPacket(q, x) /\ x \in Hello \cup LSU
<1>1. PICK i \in DOMAIN w[q] : w[q][i] = x
  BY DEF On
<1> QED
  BY <1>1 DEF GoodWire, GoodPacket

LEMMA SilentOn ==
  ASSUME Silence, NEW q \in End, NEW x
  PROVE  ~On(wire, q, x)
  BY DEF Silence, On

-----------------------------------------------------------------------------
(* Every LSU gets everywhere.  A flood is followed along a simple path:    *)
(* either the router at its end has the LSU, or a copy is on its way on    *)
(* one of the networks of the path, with enough of its ttl left.           *)

\* No router is started again.
NoRestart == \A r \in Router : ~Restart(r)

\* No router has sent as many LSUs as there are sequence numbers.
NoWrap == \A s \in Router : LSUSequence[s] < UINT16 - 1

\* A simple path from s over the networks n to the routers v, r the last one
Path(on, s, r, k, v, n) ==
  /\ v \in [0 .. k -> Router] /\ n \in [1 .. k -> on]
  /\ v[0] = s /\ v[k] = r
  /\ \A i, j \in 0 .. k : v[i] = v[j] => i = j
  /\ \A i \in 1 .. k : v[i - 1] \in Attached[n[i]] /\ v[i] \in Attached[n[i]]

Simple(on, k) == [0 .. k -> Router] \X [1 .. k -> on]

\* Any two routers are joined by a path that the ttl is enough for.
Connected(on) ==
  \A s, r \in Router : s # r =>
    \E k \in 1 .. LSU_TTL_INIT + 1 : \E p \in Simple(on, k) : Path(on, s, r, k, p[1], p[2])

LatestOf(s, m) == m.rid = s /\ m.seq = LSUSequence[s] - 1

Has(r, s) == s \in DOMAIN nodeInfoMap[r] /\ nodeInfoMap[r][s].seq = LSUSequence[s] - 1

\* A copy of the latest LSU of s is on the i-th network of a path.
Coming(s, i, v, n) ==
  \E m \in LSU : /\ On(wire, <<n[i], v[i]>>, m)
                 /\ LatestOf(s, m) /\ m.ttl = LSU_TTL_INIT - (i - 1)

Reaches(s, r, k, v, n) ==
  LSUSequence[s] > 0 => Has(r, s) \/ \E i \in 1 .. k : Coming(s, i, v, n)

Floods ==
  \A s, r \in Router : \A k \in 1 .. LSU_TTL_INIT + 1 : \A p \in Simple(up, k) :
    Path(up, s, r, k, p[1], p[2]) => Reaches(s, r, k, p[1], p[2])

\* No number is in use that has not been given out.
Numbered ==
  /\ \A q \in End : \A m \in LSU : On(wire, q, m) => m.seq < LSUSequence[m.rid]
  /\ \A r \in Router : \A s \in DOMAIN nodeInfoMap[r] :
       nodeInfoMap[r][s].seq < LSUSequence[s]

\* No LSU gets as old as DATABASE_TIMEOUT: the next one is there before.
Young ==
  /\ \A s \in Router : slept[s] <= LSUINT
  /\ \A r \in Router : \A s \in DOMAIN nodeInfoMap[r] :
       /\ nodeInfoMap[r][s].alive <= LSUINT
       /\ nodeInfoMap[r][s].seq = LSUSequence[s] - 1
            => nodeInfoMap[r][s].alive <= slept[s]

FloodInv == Numbered /\ Young /\ Floods

-----------------------------------------------------------------------------

\* A network with two routers has no third one.
LEMMA TwoEnds ==
  ASSUME NEW n \in Links, NEW a \in Attached[n], NEW b \in Attached[n], NEW c \in Attached[n]
  PROVE  a = b \/ b = c \/ a = c
<1> SUFFICES ASSUME a # b, b # c, a # c PROVE FALSE
  OBVIOUS
<1>1. n \in Net /\ Attached[n] \subseteq Router /\ IsFiniteSet(Attached[n])
      /\ Cardinality(Attached[n]) = 2
  <2>1. n \in Net /\ Attached[n] \subseteq Router /\ Cardinality(Attached[n]) = 2
    BY NetFacts DEF Links
  <2> QED
    BY <2>1, MospfAssumption, FS_Subset DEF MospfAssumption
<1>2. IsFiniteSet({a}) /\ Cardinality({a}) = 1
  BY FS_Singleton
<1>3. IsFiniteSet({a} \cup {b}) /\ Cardinality({a} \cup {b}) = 2
  <2> DEFINE one == {a}
  <2>1. b \notin one /\ IsFiniteSet(one) /\ Cardinality(one) = 1
    BY <1>2
  <2> HIDE DEF one
  <2>2. IsFiniteSet(one \cup {b}) /\ Cardinality(one \cup {b}) = 2
    BY <2>1, FS_AddElement
  <2> QED
    BY <2>2 DEF one
<1>4. Cardinality({a} \cup {b} \cup {c}) = 3
  <2>1. c \notin {a} \cup {b}
    OBVIOUS
  <2> QED
    BY <1>3, <2>1, FS_AddElement
<1>5. {a} \cup {b} \cup {c} \subseteq Attached[n]
  OBVIOUS
<1>6. Cardinality({a} \cup {b} \cup {c}) <= 2
  BY <1>1, <1>5, FS_Subset
<1> QED
  BY <1>4, <1>6

\* The ends of the networks of a path
LEMMA PathEnds ==
  ASSUME NEW on \in SUBSET Links,
         NEW s, NEW r, NEW k \in Nat \ {0}, NEW v, NEW n, Path(on, s, r, k, v, n),
         NEW i \in 1 .. k
  PROVE  /\ <<n[i], v[i]>> \in End /\ n[i] \in on /\ v[i] # s /\ v[i] \in Router
         /\ v[i - 1] \in Attached[n[i]] /\ v[i - 1] # v[i]
         /\ i < k => /\ v[i] \in Attached[n[i + 1]] /\ v[i + 1] # v[i]
                     /\ n[i + 1] # n[i] /\ n[i + 1] \in on
                     /\ <<n[i + 1], v[i + 1]>> \in End
<1>0. on \subseteq Links
  OBVIOUS
<1>1. /\ i \in 0 .. k /\ i - 1 \in 0 .. k /\ 0 \in 0 .. k /\ i # 0 /\ i - 1 # i
  OBVIOUS
<1>2. /\ v \in [0 .. k -> Router] /\ n \in [1 .. k -> on]
      /\ v[0] = s
      /\ \A x, y \in 0 .. k : v[x] = v[y] => x = y
      /\ \A x \in 1 .. k : v[x - 1] \in Attached[n[x]] /\ v[x] \in Attached[n[x]]
  BY DEF Path
<1>3. /\ n[i] \in on /\ v[i] \in Router /\ v[i] # s /\ v[i - 1] # v[i]
      /\ v[i - 1] \in Attached[n[i]] /\ v[i] \in Attached[n[i]]
  BY <1>1, <1>2
<1>4. <<n[i], v[i]>> \in End
  BY <1>0, <1>3 DEF End
<1>5. ASSUME i < k
      PROVE  /\ v[i] \in Attached[n[i + 1]] /\ v[i + 1] # v[i]
             /\ n[i + 1] # n[i] /\ n[i + 1] \in on
             /\ <<n[i + 1], v[i + 1]>> \in End
  <2>1. i + 1 \in 1 .. k /\ i + 1 \in 0 .. k /\ i + 1 # i /\ i + 1 # i - 1 /\ (i + 1) - 1 = i
    BY <1>5
  <2>2. /\ v[i] \in Attached[n[i + 1]] /\ v[i + 1] \in Attached[n[i + 1]]
        /\ v[i + 1] # v[i] /\ v[i + 1] # v[i - 1] /\ n[i + 1] \in on
        /\ v[i + 1] \in Router
    BY <1>1, <1>2, <2>1
  <2>3. n[i + 1] # n[i]
    BY <1>0, <1>3, <2>2, TwoEnds
  <2> QED
    BY <1>0, <2>2, <2>3 DEF End
<1> QED
  BY <1>3, <1>4, <1>5

\* The same of a path that is given as a pair
LEMMA PathNets ==
  ASSUME NEW on \in SUBSET Links,
         NEW s, NEW r, NEW k \in Nat \ {0}, NEW p, Path(on, s, r, k, p[1], p[2])
  PROVE  \A i \in 1 .. k : /\ <<p[2][i], p[1][i]>> \in End /\ p[2][i] \in on
                           /\ p[1][i] # s /\ p[1][i - 1] \in Attached[p[2][i]]
<1>1. PICK v, n : v = p[1] /\ n = p[2]
  OBVIOUS
<1>2. Path(on, s, r, k, v, n)
  BY <1>1
<1>3. ASSUME NEW i \in 1 .. k
      PROVE  <<n[i], v[i]>> \in End /\ n[i] \in on /\ v[i] # s /\ v[i - 1] \in Attached[n[i]]
  <2>1. <<n[i], v[i]>> \in End /\ n[i] \in on
    BY <1>2, PathEnds
  <2>2. v[i] # s /\ v[i - 1] \in Attached[n[i]]
    <3>1. i \in 0 .. k /\ 0 \in 0 .. k
      OBVIOUS
    <3> QED
      BY <1>2, <3>1 DEF Path
  <2> QED
    BY <2>1, <2>2
<1> QED
  BY <1>1, <1>3

\* When nothing is on its way, all have the latest LSU of each other.
LEMMA AllHave ==
  ASSUME IInv, Connected(up), Floods, Silence
  PROVE  \A s, r \in Router : s # r /\ LSUSequence[s] > 0 => Has(r, s)
<1> SUFFICES ASSUME NEW s \in Router, NEW r \in Router, s # r, LSUSequence[s] > 0
             PROVE  Has(r, s)
  OBVIOUS
<1>1. PICK k \in 1 .. LSU_TTL_INIT + 1 : \E p \in Simple(up, k) : Path(up, s, r, k, p[1], p[2])
  BY DEF Connected
<1>2. PICK p \in Simple(up, k) : Path(up, s, r, k, p[1], p[2])
  BY <1>1
<1>3. Reaches(s, r, k, p[1], p[2])
  BY <1>2 DEF Floods
<1>4. ASSUME NEW i \in 1 .. k
      PROVE  ~Coming(s, i, p[1], p[2])
  <2>1. k \in Nat \ {0}
    BY MospfAssumption DEF MospfAssumption
  <2>2. <<p[2][i], p[1][i]>> \in End
    BY <1>2, <2>1, PathEnds DEF IInv, GoodThreads
  <2> QED
    BY <2>2, SilentOn DEF Coming
<1> QED
  BY <1>3, <1>4 DEF Reaches

LEMMA InitFlood == Init => FloodInv
<1> SUFFICES ASSUME Init PROVE FloodInv
  OBVIOUS
<1>1. \A q \in End : \A m : ~On(wire, q, m)
  BY DEF Init, On
<1>2. Numbered
  BY <1>1 DEF Init, Numbered, Empty
<1>3. Young
  BY MospfAssumption DEF Init, Young, Empty, MospfAssumption
<1>4. Floods
  BY DEF Init, Floods, Reaches
<1> QED
  BY <1>2, <1>3, <1>4 DEF FloodInv

\* What does not touch the LSUs
LEMMA SameFlood ==
  ASSUME IInv, UNCHANGED <<nodeInfoMap, LSUSequence, slept, up>>,
         \A q \in End : \A m \in LSU : On(wire', q, m) <=> On(wire, q, m)
  PROVE  /\ Numbered => Numbered'
         /\ Young => Young'
         /\ Floods => Floods'
<1>1. Numbered => Numbered'
  BY DEF Numbered
<1>2. Young => Young'
  BY DEF Young
<1>3. ASSUME Floods,
             NEW s \in Router, NEW r \in Router, NEW k \in 1 .. LSU_TTL_INIT + 1,
             NEW p \in Simple(up, k), Path(up, s, r, k, p[1], p[2])
      PROVE  Reaches(s, r, k, p[1], p[2])'
  <2>1. Reaches(s, r, k, p[1], p[2])
    BY <1>3 DEF Floods
  <2>2. k \in Nat \ {0}
    BY MospfAssumption DEF MospfAssumption
  <2>3. \A i \in 1 .. k : <<p[2][i], p[1][i]>> \in End
    BY <1>3, <2>2, PathEnds DEF IInv, GoodThreads
  <2> QED
    BY <2>1, <2>3 DEF Reaches, Has, Coming, LatestOf
<1> QED
  BY <1>1, <1>2, <1>3 DEF Floods

\* The flood of s goes on while its latest LSU stays where it is and no copy
\* is lost.
LEMMA SameReaches ==
  ASSUME NEW s \in Router, NEW r \in Router, NEW k \in 1 .. LSU_TTL_INIT + 1,
         NEW p \in Simple(up, k), Path(up, s, r, k, p[1], p[2]),
         Reaches(s, r, k, p[1], p[2]),
         LSUSequence'[s] = LSUSequence[s],
         Has(r, s) => Has(r, s)',
         \A i \in 1 .. k : Coming(s, i, p[1], p[2])
            => Has(r, s)' \/ \E j \in 1 .. k : Coming(s, j, p[1], p[2])'
  PROVE  Reaches(s, r, k, p[1], p[2])'
  BY DEF Reaches

\* An LSU starts on all networks of its sender.
LEMMA SendLSUFlood ==
  ASSUME IInv, NoWrap, Numbered, Young, Floods,
         NEW a \in Router, SendLSU(a)
  PROVE  Numbered' /\ Young' /\ Floods'
<1>0. PICK m : m = [type |-> "LSU", rid |-> a, seq |-> LSUSequence[a],
                    ttl |-> LSU_TTL_INIT, adverts |-> Adverts(a, neighbourInfoMap[a])]
  OBVIOUS
<1>1. /\ slept' = [slept EXCEPT ![a] = 0] /\ nodeInfoMap' = nodeInfoMap
      /\ LSUSequence' = [LSUSequence EXCEPT ![a] = NextSequence(@)]
      /\ wire' = Sent(wire, a, NoNet, m)
  BY <1>0 DEF SendLSU, tables
<1>0a. up' = up /\ up \in SUBSET Links
  BY DEF SendLSU, world, IInv, GoodThreads
<1>2. LSUSequence \in [Router -> Seqno] /\ slept \in [Router -> Nat] /\ GoodWire(wire)
  BY DEF IInv, GoodThreads
<1>3. NextSequence(LSUSequence[a]) = LSUSequence[a] + 1
  BY <1>2, MospfAssumption DEF NoWrap, NextSequence, Seqno, MospfAssumption
<1>4. \A s \in Router : LSUSequence[s] \in Nat /\ slept[s] \in Nat
  BY <1>2, MospfAssumption DEF Seqno, MospfAssumption
<1>5. \A s \in Router : /\ s # a => LSUSequence'[s] = LSUSequence[s] /\ slept'[s] = slept[s]
                        /\ s = a => LSUSequence'[s] = LSUSequence[a] + 1 /\ slept'[s] = 0
  BY <1>1, <1>2, <1>3
<1>6. m.rid = a /\ m.seq = LSUSequence[a] /\ m.ttl = LSU_TTL_INIT /\ m.type = "LSU"
      /\ m \in LSU
  <2>1. Adverts(a, neighbourInfoMap[a]) \in SUBSET Advert
    BY AdvertsTrue DEF IInv, GoodTables
  <2>2. LSU_TTL_INIT \in 0 .. LSU_TTL_INIT
    BY MospfAssumption DEF MospfAssumption
  <2> QED
    BY <1>0, <1>2, <2>1, <2>2 DEF LSU
<1>7. \A q \in End : \A x : On(wire', q, x) <=>
         \/ On(wire, q, x)
         \/ x = m /\ a \in Attached[q[1]] /\ q[2] # a /\ q[1] # NoNet /\ q[1] \in up
  BY <1>1, <1>2, SentOn
<1>8. \A r \in Router : \A s \in DOMAIN nodeInfoMap[r] :
        /\ s \in Router /\ nodeInfoMap[r][s].seq \in Nat /\ nodeInfoMap[r][s].alive \in Nat
  BY MospfAssumption DEF IInv, GoodTables, GoodNodes, IsTable, Node, Seqno, MospfAssumption
<1>9. Numbered'
  <2>1. ASSUME NEW q \in End, NEW x \in LSU, On(wire', q, x)
        PROVE  x.seq < LSUSequence'[x.rid]
    <3>1. x.rid \in Router /\ x.seq \in Nat
      BY MospfAssumption DEF LSU, Seqno, MospfAssumption
    <3>2. CASE On(wire, q, x)
      BY <1>4, <1>5, <3>1, <3>2 DEF Numbered
    <3>3. CASE x = m
      BY <1>4, <1>5, <1>6, <3>1, <3>3
    <3> QED
      BY <1>7, <2>1, <3>2, <3>3
  <2>2. ASSUME NEW r \in Router, NEW s \in DOMAIN nodeInfoMap[r]
        PROVE  nodeInfoMap[r][s].seq < LSUSequence'[s]
    <3>1. s \in Router /\ nodeInfoMap[r][s].seq < LSUSequence[s] /\ nodeInfoMap[r][s].seq \in Nat
      BY <1>8 DEF Numbered
    <3> QED
      BY <1>4, <1>5, <3>1
  <2> QED
    BY <1>1, <2>1, <2>2 DEF Numbered
<1>10. Young'
  <2>1. \A s \in Router : slept'[s] <= LSUINT
    BY <1>4, <1>5, MospfAssumption DEF Young, MospfAssumption
  <2>2. ASSUME NEW r \in Router, NEW s \in DOMAIN nodeInfoMap[r],
               nodeInfoMap[r][s].seq = LSUSequence'[s] - 1
        PROVE  nodeInfoMap[r][s].alive <= slept'[s]
    <3>1. s \in Router /\ nodeInfoMap[r][s].seq < LSUSequence[s] /\ nodeInfoMap[r][s].seq \in Nat
      BY <1>8 DEF Numbered
    <3>2. s # a
      BY <1>4, <1>5, <2>2, <3>1
    <3> QED
      BY <1>5, <2>2, <3>1, <3>2 DEF Young
  <2> QED
    BY <1>1, <2>1, <2>2 DEF Young
<1>11. Floods'
  <2> SUFFICES ASSUME NEW s \in Router, NEW r \in Router, NEW k \in 1 .. LSU_TTL_INIT + 1,
                      NEW p \in Simple(up, k), Path(up, s, r, k, p[1], p[2])
               PROVE  Reaches(s, r, k, p[1], p[2])'
    BY <1>0a DEF Floods
  <2>1. k \in Nat \ {0} /\ 1 \in 1 .. k
    BY MospfAssumption DEF MospfAssumption
  <2>2. \A i \in 1 .. k : <<p[2][i], p[1][i]>> \in End
    BY <1>0a, <2>1, PathEnds
  <2>3. CASE s = a
    <3>0. \A i \in 1 .. k : /\ <<p[2][i], p[1][i]>> \in End /\ p[2][i] \in up
                           /\ p[1][i] # s /\ p[1][i - 1] \in Attached[p[2][i]]
      BY <1>0a, <2>1, PathNets
    <3>1. /\ <<p[2][1], p[1][1]>> \in End /\ p[2][1] \in up
          /\ p[1][1] # a /\ p[1][1 - 1] \in Attached[p[2][1]]
      BY <2>1, <2>3, <3>0
    <3>2. p[1][1 - 1] = a
      BY <2>3 DEF Path
    <3>3. p[2][1] # NoNet
      BY <1>0a, <3>1, NetFacts DEF Links
    <3>4. On(wire', <<p[2][1], p[1][1]>>, m)
      BY <1>7, <3>1, <3>2, <3>3
    <3>5. LatestOf(a, m)'
      BY <1>4, <1>5, <1>6 DEF LatestOf
    <3>6. Coming(s, 1, p[1], p[2])'
      BY <1>6, <2>3, <3>4, <3>5, MospfAssumption DEF Coming, MospfAssumption
    <3> QED
      BY <2>1, <3>6 DEF Reaches
  <2>4. CASE s # a
    <3>1. LSUSequence'[s] = LSUSequence[s]
      BY <1>5, <2>4
    <3>2. Has(r, s) => Has(r, s)'
      BY <1>1, <3>1 DEF Has
    <3>3. ASSUME NEW i \in 1 .. k, Coming(s, i, p[1], p[2])
          PROVE  Coming(s, i, p[1], p[2])'
      BY <1>7, <2>2, <3>1, <3>3 DEF Coming, LatestOf
    <3>4. Reaches(s, r, k, p[1], p[2])
      BY DEF Floods
    <3> QED
      BY <3>1, <3>2, <3>3, <3>4, SameReaches
  <2> QED
    BY <2>3, <2>4
<1> QED
  BY <1>9, <1>10, <1>11

\* A router takes one of its own LSUs back, or another one and passes it on.
LEMMA HandleLSUFlood ==
  ASSUME IInv, up' = up, Numbered, Young, Floods,
         NEW e \in End, wire[e] # <<>>, Head(wire[e]).type # "hello",
         handleLSU(e, Head(wire[e]))
  PROVE  Numbered' /\ Young' /\ Floods'
<1>0. PICK m : m = Head(wire[e])
  OBVIOUS
<1>0a. up' = up /\ up \in SUBSET Links
  BY DEF IInv, GoodThreads
<1> DEFINE a == e[2]
           taken == [wire EXCEPT ![e] = Tail(@)]
           new == Forwarded(a, m)
           db == nodeInfoMap[a]
<1>1. m \in LSU /\ m.rid \in Router /\ m.seq \in Nat /\ m.ttl \in 0 .. LSU_TTL_INIT
      /\ GoodWire(taken) /\ GoodWire(wire) /\ On(wire, e, m)
  <2>1. m \in LSU /\ GoodWire(taken) /\ GoodWire(wire) /\ On(wire, e, m)
    BY <1>0, TakeGood, TakenOn DEF IInv, GoodPacket, Hello, LSU
  <2> QED
    BY <2>1, MospfAssumption DEF LSU, Seqno, MospfAssumption
<1>2. a \in Router /\ e[1] \in Links /\ a \in Attached[e[1]] /\ e = <<e[1], a>>
  BY DEF End
<1>3. LSUSequence \in [Router -> Seqno] /\ slept \in [Router -> Nat]
      /\ LSUSequence' = LSUSequence /\ slept' = slept
  BY DEF IInv, GoodThreads, handleLSU, lsuThread
<1>4. \A s \in Router : LSUSequence[s] \in Nat /\ slept[s] \in Nat
  BY <1>3, MospfAssumption DEF Seqno, MospfAssumption
<1>5. m.seq < LSUSequence[m.rid]
  BY <1>1 DEF Numbered
<1>6. \A q \in End : \A x :
        /\ On(taken, q, x) => On(wire, q, x)
        /\ On(wire, q, x) => On(taken, q, x) \/ (q = e /\ x = m)
  BY <1>0, <1>1, TakenOn
<1>7. \/ Own(a, m) /\ wire' = taken /\ UNCHANGED tables
      \/ /\ ~Own(a, m)
         /\ updateRouterTable(a, neighbourInfoMap[a], Stored(db, m))
         /\ wire' = IF m.ttl > 0 THEN Sent(taken, a, e[1], new) ELSE taken
  BY <1>0 DEF handleLSU
<1>8. \A r \in Router : \A s \in DOMAIN nodeInfoMap[r] :
        /\ s \in Router /\ nodeInfoMap[r][s].seq \in Nat /\ nodeInfoMap[r][s].alive \in Nat
  BY MospfAssumption DEF IInv, GoodTables, GoodNodes, IsTable, Node, Seqno, MospfAssumption
<1> HIDE DEF a, taken, db
<1>9. new.rid = m.rid /\ new.seq = m.seq /\ new.type = m.type
      /\ (m.ttl > 0 => new \in LSU /\ new.ttl = m.ttl - 1)
  <2>1. new = [m EXCEPT !.ttl = m.ttl - 1]
    BY DEF Forwarded
  <2>2. LSU_TTL_INIT \in Nat
    BY MospfAssumption DEF MospfAssumption
  <2> HIDE DEF new
  <2> QED
    BY <1>1, <2>1, <2>2 DEF LSU
<1>10. DOMAIN nodeInfoMap = Router
  BY DEF IInv, GoodTables
<1> HIDE DEF new
<1>11. CASE Own(a, m) /\ wire' = taken /\ UNCHANGED tables
  <2>1. nodeInfoMap' = nodeInfoMap
    BY <1>11 DEF tables
  <2>2. Numbered'
    BY <1>3, <1>6, <1>11, <2>1 DEF Numbered
  <2>3. Young'
    BY <1>3, <2>1 DEF Young
  <2>4. Floods'
    <3> SUFFICES ASSUME NEW s \in Router, NEW r \in Router, NEW k \in 1 .. LSU_TTL_INIT + 1,
                        NEW p \in Simple(up, k), Path(up, s, r, k, p[1], p[2])
                 PROVE  Reaches(s, r, k, p[1], p[2])'
      BY <1>0a DEF Floods
    <3>1. k \in Nat \ {0}
      BY MospfAssumption DEF MospfAssumption
    <3>2. LSUSequence'[s] = LSUSequence[s] /\ (Has(r, s) => Has(r, s)')
      BY <1>3, <2>1 DEF Has
    <3>3. Reaches(s, r, k, p[1], p[2])
      BY DEF Floods
    <3>4. ASSUME NEW i \in 1 .. k, Coming(s, i, p[1], p[2])
          PROVE  Coming(s, i, p[1], p[2])'
      <4>1. <<p[2][i], p[1][i]>> \in End /\ p[1][i] # s
        <5>1. \A j \in 1 .. k : <<p[2][j], p[1][j]>> \in End /\ p[1][j] # s
          BY <1>0a, <3>1, PathNets
        <5> QED
          BY <5>1
      <4>2. PICK x \in LSU : /\ On(wire, <<p[2][i], p[1][i]>>, x)
                             /\ LatestOf(s, x) /\ x.ttl = LSU_TTL_INIT - (i - 1)
        BY <3>4 DEF Coming
      <4>3. ~(<<p[2][i], p[1][i]>> = e /\ x = m)
        BY <1>2, <1>11, <4>1, <4>2 DEF Own, LatestOf
      <4>4. On(wire', <<p[2][i], p[1][i]>>, x)
        BY <1>6, <1>11, <4>1, <4>2, <4>3
      <4> QED
        BY <1>3, <4>2, <4>4 DEF Coming, LatestOf
    <3> QED
      BY <3>2, <3>3, <3>4, SameReaches
  <2> QED
    BY <2>2, <2>3, <2>4
<1>12. CASE /\ ~Own(a, m)
            /\ updateRouterTable(a, neighbourInfoMap[a], Stored(db, m))
            /\ wire' = IF m.ttl > 0 THEN Sent(taken, a, e[1], new) ELSE taken
  <2>1. nodeInfoMap' = [nodeInfoMap EXCEPT ![a] = Stored(db, m)]
    BY <1>12 DEF updateRouterTable
  <2>2. \A r \in Router : nodeInfoMap'[r] = IF r = a THEN Stored(db, m) ELSE nodeInfoMap[r]
    BY <1>10, <2>1
  <2>3. \A q \in End : \A x :
          /\ On(wire', q, x) => On(wire, q, x) \/ (m.ttl > 0 /\ x = new)
          /\ On(taken, q, x) => On(wire', q, x)
          /\ m.ttl > 0 /\ x = new /\ a \in Attached[q[1]] /\ q[2] # a /\ q[1] # e[1]
               /\ q[1] \in up => On(wire', q, x)
    <3>1. CASE m.ttl > 0
      <4>1. wire' = Sent(taken, a, e[1], new)
        BY <1>12, <3>1
      <4>2. \A q \in End : \A x : On(wire', q, x) <=>
              \/ On(taken, q, x)
              \/ x = new /\ a \in Attached[q[1]] /\ q[2] # a /\ q[1] # e[1] /\ q[1] \in up
        BY <1>1, <4>1, SentOn
      <4> QED
        BY <1>6, <3>1, <4>2
    <3>2. CASE ~(m.ttl > 0)
      BY <1>6, <1>12, <3>2
    <3> QED
      BY <3>1, <3>2
  <2>4. ASSUME NEW s \in DOMAIN Stored(db, m)
        PROVE  \/ s \in DOMAIN db /\ Stored(db, m)[s] = db[s]
               \/ s = m.rid /\ Stored(db, m)[s].seq = m.seq /\ Stored(db, m)[s].alive = 0
                  /\ (s \in DOMAIN db => db[s].seq < m.seq)
    BY DEF Stored, Newer
  <2>5. Numbered'
    <3>1. ASSUME NEW q \in End, NEW x \in LSU, On(wire', q, x)
          PROVE  x.seq < LSUSequence[x.rid]
      BY <1>5, <1>9, <2>3, <3>1 DEF Numbered
    <3>2. ASSUME NEW r \in Router, NEW s \in DOMAIN nodeInfoMap'[r]
          PROVE  nodeInfoMap'[r][s].seq < LSUSequence[s]
      <4>1. CASE r # a
        BY <2>2, <3>2, <4>1 DEF Numbered
      <4>2. CASE r = a
        BY <1>2, <1>5, <2>2, <2>4, <3>2, <4>2 DEF Numbered, db
      <4> QED
        BY <4>1, <4>2
    <3> QED
      BY <1>3, <3>1, <3>2 DEF Numbered
  <2>6. Young'
    <3>1. ASSUME NEW r \in Router, NEW s \in DOMAIN nodeInfoMap'[r]
          PROVE  /\ nodeInfoMap'[r][s].alive <= LSUINT
                 /\ nodeInfoMap'[r][s].seq = LSUSequence[s] - 1
                      => nodeInfoMap'[r][s].alive <= slept[s]
      <4>1. CASE r # a
        BY <2>2, <3>1, <4>1 DEF Young
      <4>2. CASE r = a /\ s \in DOMAIN db /\ Stored(db, m)[s] = db[s]
        BY <1>2, <2>2, <3>1, <4>2 DEF Young, db
      <4>3. CASE r = a /\ s = m.rid /\ Stored(db, m)[s].alive = 0
        BY <1>1, <1>4, <2>2, <3>1, <4>3, MospfAssumption DEF MospfAssumption
      <4> QED
        BY <2>2, <2>4, <3>1, <4>1, <4>2, <4>3
    <3> QED
      BY <1>3, <3>1 DEF Young
  <2>7. Floods'
    <3> SUFFICES ASSUME NEW s \in Router, NEW r \in Router, NEW k \in 1 .. LSU_TTL_INIT + 1,
                        NEW p \in Simple(up, k), Path(up, s, r, k, p[1], p[2])
                 PROVE  Reaches(s, r, k, p[1], p[2])'
      BY <1>0a DEF Floods
    <3>1. k \in Nat \ {0}
      BY MospfAssumption DEF MospfAssumption
    <3>2. LSUSequence'[s] = LSUSequence[s]
      BY <1>3
    <3>3. Has(r, s) => Has(r, s)'
      <4>1. CASE r # a
        BY <2>2, <3>2, <4>1 DEF Has
      <4>2. CASE r = a
        <5> SUFFICES ASSUME Has(r, s) PROVE Has(r, s)'
          OBVIOUS
        <5>1. s \in DOMAIN db /\ db[s].seq = LSUSequence[s] - 1
          BY <4>2 DEF Has, db
        <5>2. ~(s = m.rid /\ db[s].seq < m.seq)
          BY <1>1, <1>4, <1>5, <5>1
        <5>3. s \in DOMAIN Stored(db, m)
          BY <5>1 DEF Stored
        <5>4. Stored(db, m)[s] = db[s]
          BY <2>4, <5>1, <5>2, <5>3
        <5> QED
          BY <2>2, <3>2, <4>2, <5>1, <5>3, <5>4 DEF Has
      <4> QED
        BY <4>1, <4>2
    <3>4. Reaches(s, r, k, p[1], p[2])
      BY DEF Floods
    <3>5. ASSUME NEW i \in 1 .. k, Coming(s, i, p[1], p[2])
          PROVE  Has(r, s)' \/ \E j \in 1 .. k : Coming(s, j, p[1], p[2])'
      <4> DEFINE q == <<p[2][i], p[1][i]>>
      <4>1. q \in End /\ q[1] = p[2][i] /\ q[2] = p[1][i]
        BY <1>0a, <3>1, PathEnds
      <4>2. PICK x \in LSU : On(wire, q, x) /\ LatestOf(s, x) /\ x.ttl = LSU_TTL_INIT - (i - 1)
        BY <3>5 DEF Coming
      <4>3. CASE On(taken, q, x)
        <5>1. On(wire', q, x)
          BY <2>3, <4>1, <4>3
        <5> QED
          BY <1>3, <4>2, <5>1 DEF Coming, LatestOf
      <4>4. CASE q = e /\ x = m /\ i = k
        <5>1. r = a
          BY <1>2, <4>1, <4>4 DEF Path
        <5>2. m.rid = s /\ m.seq = LSUSequence[s] - 1
          BY <4>2, <4>4 DEF LatestOf
        <5>3. CASE s \notin DOMAIN db \/ db[s].seq < m.seq
          <6>1. s \in DOMAIN Stored(db, m) /\ Stored(db, m)[s].seq = m.seq
            BY <5>2, <5>3 DEF Stored, Newer
          <6> QED
            BY <2>2, <3>2, <5>1, <5>2, <6>1 DEF Has
        <5>4. CASE s \in DOMAIN db /\ ~(db[s].seq < m.seq)
          <6>1. Stored(db, m) = db
            BY <5>2, <5>4 DEF Stored, Newer
          <6>2. db[s].seq < LSUSequence[s] /\ db[s].seq \in Nat
            BY <1>2, <1>8, <5>4 DEF Numbered, db
          <6>3. db[s].seq = LSUSequence[s] - 1
            BY <1>1, <1>4, <5>2, <5>4, <6>2
          <6> QED
            BY <2>2, <3>2, <5>1, <5>4, <6>1, <6>3 DEF Has
        <5> QED
          BY <5>3, <5>4
      <4>5. CASE q = e /\ x = m /\ i < k
        <5>1. /\ a \in Attached[p[2][i + 1]] /\ p[1][i + 1] # a
              /\ p[2][i + 1] # e[1] /\ p[2][i + 1] \in up
              /\ <<p[2][i + 1], p[1][i + 1]>> \in End
          <6>1. a = p[1][i] /\ e[1] = p[2][i]
            BY <1>2, <4>1, <4>5
          <6>2. /\ p[1][i] \in Attached[p[2][i + 1]] /\ p[1][i + 1] # p[1][i]
                /\ p[2][i + 1] # p[2][i] /\ p[2][i + 1] \in up
                /\ <<p[2][i + 1], p[1][i + 1]>> \in End
            BY <1>0a, <3>1, <4>5, PathEnds
          <6> QED
            BY <6>1, <6>2
        <5>2. m.ttl > 0 /\ new.ttl = LSU_TTL_INIT - ((i + 1) - 1) /\ new \in LSU
              /\ i + 1 \in 1 .. k
          <6>1. m.ttl = LSU_TTL_INIT - (i - 1)
            BY <4>2, <4>5
          <6>2. LSU_TTL_INIT \in Nat /\ k <= LSU_TTL_INIT + 1 /\ i < k /\ i \in Nat /\ k \in Nat
            BY <4>5, MospfAssumption DEF MospfAssumption
          <6>3. m.ttl > 0 /\ m.ttl - 1 = LSU_TTL_INIT - ((i + 1) - 1) /\ i + 1 \in 1 .. k
            BY <6>1, <6>2
          <6> QED
            BY <1>9, <6>3
        <5>3. On(wire', <<p[2][i + 1], p[1][i + 1]>>, new)
          BY <2>3, <5>1, <5>2
        <5>4. LatestOf(s, new)'
          BY <1>3, <1>9, <4>2, <4>5 DEF LatestOf
        <5>5. Coming(s, i + 1, p[1], p[2])'
          BY <5>2, <5>3, <5>4 DEF Coming
        <5> QED
          BY <5>2, <5>5
      <4> QED
        BY <1>6, <3>1, <4>1, <4>2, <4>3, <4>4, <4>5
    <3> QED
      BY <3>2, <3>3, <3>4, <3>5, SameReaches
  <2> QED
    BY <2>5, <2>6, <2>7
<1> QED
  BY <1>7, <1>11, <1>12

\* A hello is on the wire, or taken: the LSUs are where they were.
LEMMA HandleHelloFlood ==
  ASSUME IInv, NEW e \in End, wire[e] # <<>>, Head(wire[e]).type = "hello",
         handleHello(e, Head(wire[e])), up' = up
  PROVE  /\ UNCHANGED <<nodeInfoMap, LSUSequence, slept, up>>
         /\ \A q \in End : \A m \in LSU : On(wire', q, m) <=> On(wire, q, m)
<1>1. GoodWire(wire) /\ wire' = [wire EXCEPT ![e] = Tail(@)]
  BY DEF IInv, handleHello
<1>2. ASSUME NEW q \in End, NEW m \in LSU
      PROVE  On(wire', q, m) <=> On(wire, q, m)
  <2>1. m # Head(wire[e])
    BY DEF LSU
  <2> QED
    BY <1>1, <2>1, TakenOn
<1> QED
  BY <1>2 DEF handleHello

LEMMA SendHelloFlood ==
  ASSUME IInv, NEW r \in Router, SendHello(r)
  PROVE  /\ UNCHANGED <<nodeInfoMap, LSUSequence, slept, up>>
         /\ \A q \in End : \A m \in LSU : On(wire', q, m) <=> On(wire, q, m)
<1>0. PICK x : x = [type |-> "hello", rid |-> r]
  OBVIOUS
<1>1. GoodWire(wire) /\ wire' = Sent(wire, r, NoNet, x)
  BY <1>0 DEF IInv, SendHello
<1>2. ASSUME NEW q \in End, NEW m \in LSU
      PROVE  On(wire', q, m) <=> On(wire, q, m)
  <2>1. m # x
    BY <1>0 DEF LSU
  <2>2. \A p \in End : \A y : On(wire', p, y) <=>
          \/ On(wire, p, y)
          \/ y = x /\ r \in Attached[p[1]] /\ p[2] # r /\ p[1] # NoNet /\ p[1] \in up
    BY <1>1, SentOn
  <2> QED
    BY <2>1, <2>2
<1> QED
  BY <1>2 DEF SendHello, tables, lsuThread, world

\* At the end of a tick all LSUs have arrived, so none grows old.
LEMMA TickFlood ==
  ASSUME IInv, Connected(up), Numbered, Young, Floods, Tick
  PROVE  Numbered' /\ Young' /\ Floods'
<1>1. Quiet /\ Silence
  BY DEF Tick, Quiet
<1>2. /\ \A r \in Router : nodeInfoMap'[r] = Older(nodeInfoMap[r])
      /\ \A s \in Router : slept'[s] = slept[s] + 1
      /\ LSUSequence' = LSUSequence /\ wire' = wire /\ up' = up
  BY DEF Tick
<1>3. \A r \in Router : \A s \in DOMAIN nodeInfoMap[r] :
        /\ s \in Router /\ s # r
        /\ nodeInfoMap[r][s] \in Node
        /\ nodeInfoMap[r][s].seq \in Nat /\ nodeInfoMap[r][s].alive \in Nat
  BY MospfAssumption DEF IInv, GoodTables, GoodNodes, IsTable, Node, Seqno, MospfAssumption
<1>4. \A s \in Router : LSUSequence[s] \in Nat /\ slept[s] \in Nat
  BY MospfAssumption DEF IInv, GoodThreads, Seqno, MospfAssumption
<1>5. \A r \in Router : /\ DOMAIN nodeInfoMap'[r] = DOMAIN nodeInfoMap[r]
                        /\ \A s \in DOMAIN nodeInfoMap[r] :
                             /\ nodeInfoMap'[r][s].seq = nodeInfoMap[r][s].seq
                             /\ nodeInfoMap'[r][s].alive = nodeInfoMap[r][s].alive + 1
  <2> SUFFICES ASSUME NEW r \in Router, NEW s \in DOMAIN nodeInfoMap[r]
               PROVE  /\ nodeInfoMap'[r][s].seq = nodeInfoMap[r][s].seq
                      /\ nodeInfoMap'[r][s].alive = nodeInfoMap[r][s].alive + 1
    BY <1>2 DEF Older
  <2>1. nodeInfoMap'[r][s] = [nodeInfoMap[r][s] EXCEPT !.alive = @ + 1]
    BY <1>2 DEF Older
  <2> QED
    BY <1>3, <2>1 DEF Node
<1>6. Numbered'
  BY <1>2, <1>5 DEF Numbered
<1>7. \A s, r \in Router : s # r /\ LSUSequence[s] > 0 => Has(r, s)
  BY <1>1, AllHave
<1>8. \A s \in Router : slept[s] < LSUINT
  BY <1>1 DEF Quiet
<1>9. Young'
  <2>1. \A s \in Router : slept'[s] <= LSUINT
    BY <1>2, <1>4, <1>8, MospfAssumption DEF MospfAssumption
  <2>2. ASSUME NEW r \in Router, NEW s \in DOMAIN nodeInfoMap[r]
        PROVE  nodeInfoMap'[r][s].alive <= slept'[s]
    <3>1. LSUSequence[s] > 0
      BY <1>3, <1>4 DEF Numbered
    <3>2. nodeInfoMap[r][s].seq = LSUSequence[s] - 1
      BY <1>3, <1>7, <3>1 DEF Has
    <3>3. nodeInfoMap[r][s].alive <= slept[s]
      BY <3>2 DEF Young
    <3> QED
      BY <1>2, <1>3, <1>4, <1>5, <3>3
  <2>3. ASSUME NEW r \in Router, NEW s \in DOMAIN nodeInfoMap[r]
        PROVE  nodeInfoMap'[r][s].alive <= LSUINT
    BY <1>2, <1>3, <1>4, <1>5, <2>1, <2>2, MospfAssumption DEF MospfAssumption
  <2> QED
    BY <1>5, <2>1, <2>2, <2>3 DEF Young
<1>10. Floods'
  <2> SUFFICES ASSUME NEW s \in Router, NEW r \in Router, NEW k \in 1 .. LSU_TTL_INIT + 1,
                      NEW p \in Simple(up, k), Path(up, s, r, k, p[1], p[2])
               PROVE  Reaches(s, r, k, p[1], p[2])'
    BY <1>2 DEF Floods
  <2>1. s # r
    <3>1. 0 \in 0 .. k /\ k \in 0 .. k /\ 0 # k
      BY MospfAssumption DEF MospfAssumption
    <3> QED
      BY <3>1 DEF Path
  <2>2. LSUSequence[s] > 0 => Has(r, s)'
    BY <1>2, <1>5, <1>7, <2>1 DEF Has
  <2> QED
    BY <1>2, <2>2 DEF Reaches
<1> QED
  BY <1>6, <1>9, <1>10

\* No LSU is as old as it would have to be for nodeTimeoutThread.
LEMMA NoNodeTimeout ==
  ASSUME IInv, Young, LSUINT < DATABASE_TIMEOUT, NEW r \in Router
  PROVE  Expired(nodeInfoMap[r], DATABASE_TIMEOUT) = {}
<1>1. \A s \in DOMAIN nodeInfoMap[r] : nodeInfoMap[r][s].alive \in Nat
  BY DEF IInv, GoodTables, GoodNodes, IsTable, Node
<1>2. \A s \in DOMAIN nodeInfoMap[r] : nodeInfoMap[r][s].alive # DATABASE_TIMEOUT
  BY <1>1, MospfAssumption DEF Young, MospfAssumption
<1> QED
  BY <1>2 DEF Expired

\* A link fails or comes back between two ticks, when all have the LSUs of
\* each other, so no flood is cut off.
LEMMA LinkFlood ==
  ASSUME IInv, Connected(up), Numbered, Young, Floods,
         NEW n \in Links, LinkDown(n) \/ LinkUp(n)
  PROVE  Numbered' /\ Young' /\ Floods'
<1>1. Silence /\ UNCHANGED <<nodeInfoMap, LSUSequence, slept, wire>>
  BY DEF LinkDown, LinkUp, Change, Quiet, tables
<1>2. \A s, r \in Router : s # r /\ LSUSequence[s] > 0 => Has(r, s)
  BY <1>1, AllHave
<1>3. Numbered' /\ Young'
  BY <1>1 DEF Numbered, Young
<1>4. Floods'
  <2> SUFFICES ASSUME NEW s \in Router, NEW r \in Router, NEW k \in 1 .. LSU_TTL_INIT + 1,
                      NEW p \in Simple(up', k), Path(up', s, r, k, p[1], p[2])
               PROVE  Reaches(s, r, k, p[1], p[2])'
    BY DEF Floods
  <2>1. s # r
    <3>1. 0 \in 0 .. k /\ k \in 0 .. k /\ 0 # k
      BY MospfAssumption DEF MospfAssumption
    <3> QED
      BY <3>1 DEF Path
  <2>2. LSUSequence[s] > 0 => Has(r, s)'
    BY <1>1, <1>2, <2>1 DEF Has
  <2> QED
    BY <1>1, <2>2 DEF Reaches
<1> QED
  BY <1>3, <1>4

LEMMA NextFlood ==
  ASSUME IInv, FloodInv, NoWrap, [Next]_vars, [NoRestart]_vars, Connected(up),
         LSUINT < DATABASE_TIMEOUT
  PROVE  FloodInv'
<1> SUFFICES Numbered' /\ Young' /\ Floods'
  BY DEF FloodInv
<1>3. Numbered /\ Young /\ Floods
  BY DEF FloodInv
<1>4. ASSUME NEW r \in Router, SendHello(r)
      PROVE  Numbered' /\ Young' /\ Floods'
  BY <1>3, <1>4, SendHelloFlood, SameFlood
<1>5. ASSUME NEW r \in Router, SendLSU(r)
      PROVE  Numbered' /\ Young' /\ Floods'
  BY <1>3, <1>5, SendLSUFlood
<1>6. ASSUME NEW r \in Router, StopSleeping(r) \/ NeighbourTimeout(r)
      PROVE  Numbered' /\ Young' /\ Floods'
  <2>1. UNCHANGED <<nodeInfoMap, LSUSequence, slept, up, wire>>
    BY <1>6 DEF StopSleeping, NeighbourTimeout, tables, world
  <2> QED
    BY <1>3, <2>1, SameFlood
<1>7. \A r \in Router : ~NodeTimeout(r)
  BY <1>3, NoNodeTimeout DEF NodeTimeout
<1>8. ASSUME NEW e \in End, Receive(e)
      PROVE  Numbered' /\ Young' /\ Floods'
  <2>0. up' = up
    BY <1>8 DEF Receive, world
  <2>1. CASE Head(wire[e]).type = "hello"
    BY <1>3, <1>8, <2>0, <2>1, HandleHelloFlood, SameFlood DEF Receive
  <2>2. CASE Head(wire[e]).type # "hello"
    BY <1>3, <1>8, <2>0, <2>2, HandleLSUFlood DEF Receive
  <2> QED
    BY <2>1, <2>2
<1>9. ASSUME NEW n \in Links, LinkDown(n) \/ LinkUp(n)
      PROVE  Numbered' /\ Young' /\ Floods'
  BY <1>3, <1>9, LinkFlood
<1>10. ASSUME Tick
       PROVE  Numbered' /\ Young' /\ Floods'
  BY <1>3, <1>10, TickFlood
<1>11. ASSUME UNCHANGED vars
       PROVE  Numbered' /\ Young' /\ Floods'
  <2>1. UNCHANGED <<nodeInfoMap, LSUSequence, slept, up, wire>>
    BY <1>11 DEF vars, tables, lsuThread, world
  <2> QED
    BY <1>3, <2>1, SameFlood
<1> QED
  BY <1>4, <1>5, <1>6, <1>7, <1>8, <1>9, <1>10, <1>11 DEF Next, NoRestart

\* When the routers are quiet, each has the last LSU of every other one.
EveryLatest ==
  Quiet => \A r, s \in Router : r # s /\ LSUSequence[s] > 0 => Has(r, s)

\* Whatever the order in which the copies of a flood come in, the LSU that
\* stays is the last one sent (handleLSU, Stored): when a tick is over, every
\* router has the latest LSU of every other one, as long as no router is started
\* again and the links that work join all routers by paths that the ttl allows
\* for, if no number is used twice and LSUs are sent more often than they are
\* forgotten.  A behaviour of Spec may stop anywhere, so this holds up to the
\* first step that starts a router again, and up to the first state in which
\* the links do not join the routers.
THEOREM MospfFloods ==
  ASSUME LSUINT < DATABASE_TIMEOUT
  PROVE  Spec /\ [][NoRestart]_vars /\ []NoWrap /\ []Connected(up) => []EveryLatest
<1>1. IInv /\ FloodInv /\ Connected(up) => EveryLatest
  BY AllHave DEF FloodInv, Quiet, EveryLatest
<1>2. IInv /\ FloodInv /\ NoWrap /\ Connected(up) /\ [Next]_vars /\ [NoRestart]_vars
      => FloodInv'
  BY NextFlood
<1> QED
  BY <1>1, <1>2, NextIInv, InitIInv, InitFlood, PTL DEF Spec

-----------------------------------------------------------------------------
(* The property that is checked ends when the first router may be started  *)
(* again, so it needs nothing said about that.                             *)

\* No router can have been started again yet.
Calm == \A t \in RestartAt : time < t

\* Time does not go back.
LEMMA TimePasses ==
  ASSUME [Next]_vars
  PROVE  time' = time \/ time' = time + 1
<1>1. ASSUME NEW r \in Router,
             \/ SendHello(r) \/ StopSleeping(r) \/ SendLSU(r)
             \/ NeighbourTimeout(r) \/ NodeTimeout(r) \/ Restart(r)
      PROVE  time' = time
  BY <1>1 DEF SendHello, StopSleeping, SendLSU, NeighbourTimeout, NodeTimeout, Restart,
              Change, world
<1>2. ASSUME NEW e \in End, Receive(e)
      PROVE  time' = time
  BY <1>2 DEF Receive, world
<1>3. ASSUME NEW n \in Links, LinkDown(n) \/ LinkUp(n)
      PROVE  time' = time
  BY <1>3 DEF LinkDown, LinkUp, Change
<1>4. Tick => time' = time + 1
  BY DEF Tick
<1>5. UNCHANGED vars => time' = time
  BY DEF vars, world
<1> QED
  BY <1>1, <1>2, <1>3, <1>4, <1>5 DEF Next

\* No router starts again while it is calm.
LEMMA StaysCalm ==
  ASSUME time \in Nat, [Next]_vars, Calm'
  PROVE  Calm /\ \A r \in Router : ~Restart(r)
<1>1. time' = time \/ time' = time + 1
  BY TimePasses
<1>2. RestartAt \subseteq Nat
  BY MospfAssumption DEF MospfAssumption
<1>3. Calm
  BY <1>1, <1>2 DEF Calm
<1> QED
  BY <1>3 DEF Restart, Change, Calm

CalmInv == time \in Nat /\ (Calm => FloodInv)

\* The latest LSU is the one that stays, as LatestKept puts it: until a link
\* may fail or a router may be started again.
THEOREM MospfLatest ==
  ASSUME LSUINT < DATABASE_TIMEOUT
  PROVE  Spec /\ []NoWrap /\ []Connected(up) => []LatestKept
<1>1. IInv /\ CalmInv /\ Connected(up) => LatestKept
  <2> SUFFICES ASSUME IInv, Calm, FloodInv, Connected(up), Quiet,
                      NEW r \in Router, NEW s \in Router, r # s, LSUSequence[s] > 0
               PROVE  Has(r, s)
    BY DEF CalmInv, Calm, LatestKept, Has
  <2> QED
    BY AllHave DEF FloodInv, Quiet
<1>2. IInv /\ CalmInv /\ NoWrap /\ Connected(up) /\ [Next]_vars => CalmInv'
  <2> SUFFICES ASSUME IInv, CalmInv, NoWrap, Connected(up), [Next]_vars
               PROVE  CalmInv'
    OBVIOUS
  <2>1. time' \in Nat
    BY TimePasses DEF CalmInv
  <2>2. ASSUME Calm'
        PROVE  FloodInv'
    <3>1. Calm /\ NoRestart
      BY <2>2, StaysCalm DEF NoRestart, CalmInv
    <3> QED
      BY <3>1, NextFlood DEF CalmInv
  <2> QED
    BY <2>1, <2>2 DEF CalmInv
<1>3. Init => CalmInv
  BY InitFlood DEF Init, CalmInv
<1> QED
  BY <1>1, <1>2, <1>3, NextIInv, InitIInv, PTL DEF Spec

-----------------------------------------------------------------------------
(* Every LSU says the same in the end.  All hellos of a tick arrive within *)
(* it, so from the second tick on a router knows its neighbours; one that  *)
(* cannot be heard any more is forgotten, and then the LSU thread is told. *)
(* u ticks ago, or more, the start was or the last link came back; d ticks *)
(* ago, or more, the last one failed.                                      *)

\* At most one network joins two routers.
OneNet == \A n, o \in Links : Attached[n] = Attached[o] => n = o

\* s and x are at the two ends of n, which is one of on.
Opposite(on, s, n, x) == n \in on /\ x # s /\ {s, x} \subseteq Attached[n]

\* The adverts of s are its part of the network, and nobody is said to be on
\* network 0.0.0.0.
Complete(on, s, adverts) ==
  /\ \A n \in IfNets(s), x \in Router \cup {NoRid} :
       <<n, x>> \in adverts <=>
         IF x = NoRid THEN ~\E y \in Router : Opposite(on, s, n, y)
                      ELSE Opposite(on, s, n, x)
  /\ \A p \in adverts : p[1] = NoNet => p[2] = NoRid

\* Has s heard the last hello or the one before from x on n?
Heard(s, n, x, age) ==
  /\ x \in DOMAIN neighbourInfoMap[s]
  /\ neighbourInfoMap[s][x].net = n /\ neighbourInfoMap[s][x].alive <= age

\* A hello of x is on its way to s.
Greeting(s, n, x) == \E m \in Hello : On(wire, <<n, s>>, m) /\ m.rid = x

\* No router takes itself for a neighbour.
NotSelf ==
  /\ \A q \in End : \A m \in Hello : On(wire, q, m) => m.rid # q[2]
  /\ \A s \in Router : s \notin DOMAIN neighbourInfoMap[s]

\* Nothing is on a network that is down.
Dark == \A q \in End : \A m \in Hello \cup LSU : On(wire, q, m) => q[1] \in up

\* u ticks after a link has come back its ends have heard of each other.
Greeted(u) ==
  \A n \in up : \A s, x \in Attached[n] : s # x =>
    /\ u >= 1 /\ helloSent[x] => Heard(s, n, x, 0) \/ Greeting(s, n, x)
    /\ u >= 2 => Heard(s, n, x, 1)

\* d ticks after a link has failed no hello over it is more recent.
Aged(d) ==
  \A s \in Router : \A x \in DOMAIN neighbourInfoMap[s] :
    /\ neighbourInfoMap[s][x].alive <= NEIGHBOUR_TIMEOUT
    /\ neighbourInfoMap[s][x].net \in Links \ up => neighbourInfoMap[s][x].alive >= d

\* s has still a neighbour on a network that is down.
Stale(s) == \E x \in DOMAIN neighbourInfoMap[s] : neighbourInfoMap[s][x].net \in Links \ up

\* s has still to send an LSU: of what it knows, or what it will notice.
Due(s) == changed[s] \/ building[s] \/ Stale(s)

\* Wherever the last LSU of s is, it says what is so.
Right(s) ==
  /\ \A q \in End : \A m \in LSU :
       On(wire, q, m) /\ LatestOf(s, m) => Complete(up, s, m.adverts)
  /\ \A r \in Router : Has(r, s) => Complete(up, s, nodeInfoMap[r][s].adverts)

\* The last LSU of s is right, but when another one is due or s had not heard
\* its neighbours yet when it sent it.
Told(u) ==
  \A s \in Router : /\ LSUSequence[s] = 0 => slept[s] >= u
                    /\ Right(s) \/ Due(s) \/ u < slept[s] + 2

\* The network is called settled when both have been long ago.
Waiting(u, d) ==
  unsettled \in Nat /\ unsettled + u >= AfterUp /\ unsettled + d >= AfterDown

AgreeAt(u, d) ==
  NotSelf /\ Dark /\ Greeted(u) /\ Aged(d) /\ Told(u) /\ Waiting(u, d)

AgreeInv == \E u, d \in Nat : AgreeAt(u, d)

-----------------------------------------------------------------------------

\* Two routers that share a network share only one, and it is a link.
LEMMA SameNet ==
  ASSUME OneNet, NEW n \in Net, NEW o \in Net, NEW s, NEW x, s # x,
         {s, x} \subseteq Attached[n], {s, x} \subseteq Attached[o]
  PROVE  n = o /\ n \in Links
<1>1. ASSUME NEW l \in Net, {s, x} \subseteq Attached[l]
      PROVE  l \in Links /\ Attached[l] = {s, x}
  <2>1. IsFiniteSet(Attached[l]) /\ Cardinality(Attached[l]) \in {1, 2}
    <3>1. Attached[l] \subseteq Router
      BY NetFacts
    <3> QED
      BY <3>1, MospfAssumption, FS_Subset DEF MospfAssumption
  <2>2. IsFiniteSet({s, x}) /\ Cardinality({s, x}) = 2
    <3> DEFINE one == {s}
    <3>1. x \notin one /\ IsFiniteSet(one) /\ Cardinality(one) = 1
      BY FS_Singleton
    <3> HIDE DEF one
    <3>2. IsFiniteSet(one \cup {x}) /\ Cardinality(one \cup {x}) = 2
      BY <3>1, FS_AddElement
    <3>3. one \cup {x} = {s, x}
      BY DEF one
    <3> QED
      BY <3>2, <3>3
  <2>3. Cardinality(Attached[l]) = 2
    <3>1. Cardinality({s, x}) <= Cardinality(Attached[l])
      BY <1>1, <2>1, FS_Subset
    <3> QED
      BY <2>1, <2>2, <3>1
  <2>4. l \in Links
    BY <2>3 DEF Links
  <2>5. Attached[l] \subseteq {s, x}
    BY <1>1, <2>4, TwoEnds
  <2> QED
    BY <1>1, <2>4, <2>5
<1>2. n \in Links /\ o \in Links /\ Attached[n] = Attached[o]
  BY <1>1
<1> QED
  BY <1>2 DEF OneNet

\* The same, about the network alone
LEMMA OneNetSame ==
  ASSUME OneNet
  PROVE  \A n, o \in Net : \A s, x :
           /\ s # x /\ {s, x} \subseteq Attached[n] /\ {s, x} \subseteq Attached[o]
           => n = o
<1> SUFFICES ASSUME NEW n \in Net, NEW o \in Net, NEW s, NEW x, s # x,
                    {s, x} \subseteq Attached[n], {s, x} \subseteq Attached[o]
             PROVE  n = o
  OBVIOUS
<1> QED
  BY SameNet

\* What a router that knows its neighbours says is its part of the network.
LEMMA AdvertsComplete ==
  ASSUME OneNet, NEW on \in SUBSET Links,
         NEW s \in Router, NEW table, GoodNeighbours(s, table),
         s \notin DOMAIN table,
         \A n \in on : \A x \in Attached[n] :
           s \in Attached[n] /\ s # x => x \in DOMAIN table /\ table[x].net = n,
         \A x \in DOMAIN table : table[x].net \notin Links \ on
  PROVE  Complete(on, s, Adverts(s, table))
<1> DEFINE heard == {table[x].net : x \in DOMAIN table}
           told(x) == <<table[x].net, IF table[x].net = NoNet THEN NoRid ELSE x>>
<1>1. \A p : p \in Adverts(s, table) <=>
         \/ \E x \in DOMAIN table : p = told(x)
         \/ \E n \in IfNets(s) \ heard : p = <<n, NoRid>>
  BY DEF Adverts
<1>2. \A x \in DOMAIN table :
        /\ x \in Router /\ x # s /\ x # NoRid
        /\ table[x].net # NoNet => {s, x} \subseteq Attached[table[x].net]
        /\ table[x].net \in Net \cup {NoNet}
  BY NetFacts DEF GoodNeighbours, IsTable, Neighbour
<1>0. ASSUME NEW p \in Adverts(s, table), p[1] = NoNet
      PROVE  p[2] = NoRid
  BY <1>0, <1>1
<1> SUFFICES ASSUME NEW n \in IfNets(s), NEW x \in Router \cup {NoRid}
             PROVE  <<n, x>> \in Adverts(s, table) <=>
                      IF x = NoRid THEN ~\E y \in Router : Opposite(on, s, n, y)
                      ELSE Opposite(on, s, n, x)
  BY <1>0 DEF Complete
<1>3. n \in Net /\ s \in Attached[n] /\ n # NoNet
  BY NetFacts DEF IfNets
<1>4. ASSUME NEW y \in DOMAIN table
      PROVE  table[y].net = n <=> Opposite(on, s, n, y)
  <2>1. ASSUME table[y].net = n
        PROVE  Opposite(on, s, n, y)
    <3>1. {s, y} \subseteq Attached[n] /\ y # s
      BY <1>2, <1>3, <2>1
    <3>2. n \in on
      BY <1>3, <2>1, <3>1, SameNet
    <3> QED
      BY <3>1, <3>2 DEF Opposite
  <2>2. ASSUME Opposite(on, s, n, y)
        PROVE  table[y].net = n
    BY <2>2 DEF Opposite
  <2> QED
    BY <2>1, <2>2
<1>5. \A y : Opposite(on, s, n, y) => y \in DOMAIN table
  BY DEF Opposite
<1> HIDE DEF heard
<1>6. CASE x # NoRid
  <2>1. <<n, x>> \in Adverts(s, table) <=> x \in DOMAIN table /\ table[x].net = n
    <3>1. ASSUME <<n, x>> \in Adverts(s, table)
          PROVE  x \in DOMAIN table /\ table[x].net = n
      BY <1>1, <1>6, <3>1
    <3>2. ASSUME x \in DOMAIN table, table[x].net = n
          PROVE  <<n, x>> \in Adverts(s, table)
      <4>1. told(x) = <<n, x>>
        BY <1>3, <3>2
      <4> QED
        BY <1>1, <3>2, <4>1
    <3> QED
      BY <3>1, <3>2
  <2> QED
    BY <1>4, <1>5, <1>6, <2>1
<1>7. CASE x = NoRid
  <2>1. n \in heard <=> \E y \in DOMAIN table : table[y].net = n
    BY DEF heard
  <2>2. n \in heard <=> \E y \in Router : Opposite(on, s, n, y)
    BY <1>2, <1>4, <1>5, <2>1
  <2>3. <<n, NoRid>> \in Adverts(s, table) <=> n \notin heard
    <3>1. ASSUME NEW y \in DOMAIN table, told(y) = <<n, NoRid>>
          PROVE  FALSE
      <4>1. table[y].net = n
        BY <3>1
      <4>2. told(y) = <<n, y>>
        BY <1>3, <4>1
      <4>3. y = NoRid
        BY <3>1, <4>2
      <4> QED
        BY <1>2, <4>3
    <3> QED
      BY <1>1, <3>1
  <2> QED
    BY <1>7, <2>2, <2>3
<1> QED
  BY <1>6, <1>7

-----------------------------------------------------------------------------

\* New routes only add entries to the neighbours, none for the router itself.
LEMMA UpdateNeighbours ==
  ASSUME GoodTables, NEW r \in Router, NEW db, GoodNodes(r, db),
         updateRouterTable(r, neighbourInfoMap[r], db)
  PROVE  /\ \A s \in Router : nodeInfoMap'[s] = IF s = r THEN db ELSE nodeInfoMap[s]
         /\ \A s \in Router : \A x \in DOMAIN neighbourInfoMap[s] :
              x \in DOMAIN neighbourInfoMap'[s]
              /\ neighbourInfoMap'[s][x] = neighbourInfoMap[s][x]
         /\ \A s \in Router : \A x \in DOMAIN neighbourInfoMap'[s] :
              x \in DOMAIN neighbourInfoMap[s]
                \/ (x # s /\ neighbourInfoMap'[s][x] = Phantom)
<1> DEFINE next == NextHops(r, db)
           hops == {next[a] : a \in DOMAIN db}
           known == WithPhantoms(neighbourInfoMap[r], hops)
<1>1. /\ nodeInfoMap' = [nodeInfoMap EXCEPT ![r] = db]
      /\ neighbourInfoMap' = [neighbourInfoMap EXCEPT ![r] = known]
  BY DEF updateRouterTable
<1>2. next \in [DOMAIN db -> DOMAIN db] /\ DOMAIN db \subseteq Router \ {r}
  BY NextHopsType DEF GoodNodes, IsTable
<1> HIDE DEF next
<1>3. r \notin hops
  BY <1>2
<1> HIDE DEF hops
<1>4. /\ DOMAIN known = DOMAIN neighbourInfoMap[r] \cup hops
      /\ \A x \in DOMAIN neighbourInfoMap[r] : known[x] = neighbourInfoMap[r][x]
      /\ \A x \in hops \ DOMAIN neighbourInfoMap[r] : known[x] = Phantom
  BY DEF WithPhantoms
<1> HIDE DEF known
<1> QED
  BY <1>1, <1>3, <1>4 DEF GoodTables

\* The neighbours that a router has heard stay, those that a route makes up
\* are on no network, and the hellos are where they were.
LEMMA SameNeighbours ==
  ASSUME UNCHANGED <<helloSent, up>>, NotSelf, NEW u, NEW d,
         \A q \in End : \A m \in Hello : On(wire', q, m) <=> On(wire, q, m),
         \A s \in Router : \A x \in DOMAIN neighbourInfoMap[s] :
           x \in DOMAIN neighbourInfoMap'[s]
           /\ neighbourInfoMap'[s][x] = neighbourInfoMap[s][x],
         \A s \in Router : \A x \in DOMAIN neighbourInfoMap'[s] :
           x \in DOMAIN neighbourInfoMap[s] \/ (x # s /\ neighbourInfoMap'[s][x] = Phantom),
         up \subseteq Links
  PROVE  /\ NotSelf' /\ (Greeted(u) => Greeted(u)') /\ (Aged(d) => Aged(d)')
         /\ \A s \in Router : Stale(s) => Stale(s)'
<1>1. NotSelf'
  BY DEF NotSelf
<1>2. ASSUME NEW n \in up, NEW s \in Attached[n], NEW x
      PROVE  /\ \A age : Heard(s, n, x, age) => Heard(s, n, x, age)'
             /\ Greeting(s, n, x) => Greeting(s, n, x)'
  <2>1. s \in Router /\ <<n, s>> \in End
    BY NetFacts DEF End, Links
  <2> QED
    BY <2>1 DEF Heard, Greeting
<1>3. Greeted(u) => Greeted(u)'
  BY <1>2 DEF Greeted
<1>4. Phantom.net = NoNet /\ Phantom.alive = 0 /\ NoNet \notin Links /\ 0 <= NEIGHBOUR_TIMEOUT
  BY MospfAssumption DEF Phantom, Links, MospfAssumption
<1>5. Aged(d) => Aged(d)'
  BY <1>4 DEF Aged
<1>6. \A s \in Router : Stale(s) => Stale(s)'
  BY DEF Stale
<1> QED
  BY <1>1, <1>3, <1>5, <1>6

\* The LSUs stay as they are, and what was due is still due.
LEMMA SameTold ==
  ASSUME UNCHANGED <<nodeInfoMap, LSUSequence, slept, up>>, NEW u, Told(u),
         \A q \in End : \A m \in LSU : On(wire', q, m) <=> On(wire, q, m),
         \A s \in Router : Due(s) => Due(s)'
  PROVE  Told(u)'
<1>1. ASSUME NEW s \in Router, Right(s)
      PROVE  Right(s)'
  BY <1>1 DEF Right, LatestOf, Has
<1> QED
  BY <1>1 DEF Told

LEMMA InitAgree == Init => AgreeInv
<1> SUFFICES ASSUME Init PROVE AgreeAt(0, AfterDown)
  BY MospfAssumption DEF AgreeInv, MospfAssumption
<1>1. \A q \in End : \A m : ~On(wire, q, m)
  BY DEF Init, On
<1>2. NotSelf /\ Dark /\ Greeted(0)
  BY <1>1 DEF Init, NotSelf, Dark, Greeted, Empty
<1>3. Aged(AfterDown)
  BY DEF Init, Aged, Empty
<1>4. Told(0)
  BY DEF Init, Told
<1>5. Waiting(0, AfterDown)
  BY MospfAssumption DEF Init, Waiting, MospfAssumption
<1> QED
  BY <1>2, <1>3, <1>4, <1>5 DEF AgreeAt

LEMMA SendHelloAgree ==
  ASSUME IInv, NEW u \in Nat, NEW d \in Nat, AgreeAt(u, d), NEW r \in Router, SendHello(r)
  PROVE  AgreeAt(u, d)'
<1>0. PICK x : x = [type |-> "hello", rid |-> r]
  OBVIOUS
<1>1. GoodWire(wire) /\ wire' = Sent(wire, r, NoNet, x)
  BY <1>0 DEF IInv, SendHello
<1>2. \A p \in End : \A y : On(wire', p, y) <=>
        \/ On(wire, p, y)
        \/ y = x /\ r \in Attached[p[1]] /\ p[2] # r /\ p[1] # NoNet /\ p[1] \in up
  BY <1>1, SentOn
<1>3. UNCHANGED <<neighbourInfoMap, up, changed, building, unsettled>> /\ up \subseteq Links
  BY DEF SendHello, tables, lsuThread, world, IInv, GoodThreads
<1>4. x.rid = r /\ x \in Hello
  BY <1>0 DEF Hello
<1>5. NotSelf'
  BY <1>2, <1>3, <1>4 DEF NotSelf, AgreeAt
<1>6. helloSent \in [Router -> BOOLEAN] /\ helloSent' = [helloSent EXCEPT ![r] = TRUE]
  BY DEF IInv, GoodThreads, SendHello
<1>7. ASSUME NEW n \in up, NEW s \in Attached[n], NEW y \in Attached[n], s # y
      PROVE  /\ \A age : Heard(s, n, y, age) => Heard(s, n, y, age)'
             /\ Greeting(s, n, y) => Greeting(s, n, y)'
             /\ y = r => Greeting(s, n, y)'
             /\ y # r => (helloSent'[y] <=> helloSent[y])
  <2>1. s \in Router /\ y \in Router /\ <<n, s>> \in End /\ n # NoNet
    BY <1>3, NetFacts DEF End, Links
  <2>2. y = r => On(wire', <<n, s>>, x)
    BY <1>2, <1>7, <2>1
  <2>3. y = r => Greeting(s, n, y)'
    BY <1>4, <2>2 DEF Greeting
  <2>4. Greeting(s, n, y) => Greeting(s, n, y)'
    BY <1>2, <2>1 DEF Greeting
  <2>5. \A age : Heard(s, n, y, age) => Heard(s, n, y, age)'
    BY <1>3 DEF Heard
  <2>6. y # r => (helloSent'[y] <=> helloSent[y])
    BY <1>6, <2>1
  <2> QED
    BY <2>3, <2>4, <2>5, <2>6
<1>8. Greeted(u)'
  BY <1>3, <1>7 DEF Greeted, AgreeAt
<1>9. Dark'
  BY <1>2, <1>3 DEF Dark, AgreeAt
<1>10. Aged(d)' /\ Waiting(u, d)' /\ \A s \in Router : Due(s) => Due(s)'
  BY <1>3 DEF Aged, Waiting, Due, Stale, AgreeAt
<1>11. Told(u)'
  BY <1>10, SendHelloFlood, SameTold DEF AgreeAt
<1> QED
  BY <1>5, <1>8, <1>9, <1>10, <1>11 DEF AgreeAt

LEMMA SendLSUAgree ==
  ASSUME IInv, OneNet, NoWrap, Numbered, NEW u \in Nat, NEW d \in Nat, AgreeAt(u, d),
         NEW a \in Router, SendLSU(a)
  PROVE  AgreeAt(u, d)'
<1>0. PICK m : m = [type |-> "LSU", rid |-> a, seq |-> LSUSequence[a],
                    ttl |-> LSU_TTL_INIT, adverts |-> Adverts(a, neighbourInfoMap[a])]
  OBVIOUS
<1>1. /\ slept' = [slept EXCEPT ![a] = 0] /\ nodeInfoMap' = nodeInfoMap
      /\ LSUSequence' = [LSUSequence EXCEPT ![a] = NextSequence(@)]
      /\ wire' = Sent(wire, a, NoNet, m)
      /\ UNCHANGED <<neighbourInfoMap, helloSent, changed, up, unsettled>>
      /\ building' = [building EXCEPT ![a] = FALSE]
  BY <1>0 DEF SendLSU, tables, world
<1>2. /\ LSUSequence \in [Router -> Seqno] /\ slept \in [Router -> Nat] /\ GoodWire(wire)
      /\ building \in [Router -> BOOLEAN] /\ up \in SUBSET Links
  BY DEF IInv, GoodThreads
<1>3. NextSequence(LSUSequence[a]) = LSUSequence[a] + 1
  BY <1>2, MospfAssumption DEF NoWrap, NextSequence, Seqno, MospfAssumption
<1>4. \A s \in Router : LSUSequence[s] \in Nat /\ slept[s] \in Nat
  BY <1>2, MospfAssumption DEF Seqno, MospfAssumption
<1>5. \A s \in Router : /\ s # a => LSUSequence'[s] = LSUSequence[s] /\ slept'[s] = slept[s]
                        /\ s = a => LSUSequence'[s] = LSUSequence[a] + 1 /\ slept'[s] = 0
  BY <1>1, <1>2, <1>3
<1>6. m.rid = a /\ m.adverts = Adverts(a, neighbourInfoMap[a]) /\ m.type = "LSU"
  BY <1>0
<1>7. \A q \in End : \A x : On(wire', q, x) <=>
         \/ On(wire, q, x)
         \/ x = m /\ a \in Attached[q[1]] /\ q[2] # a /\ q[1] # NoNet /\ q[1] \in up
  BY <1>1, <1>2, SentOn
<1>8. NotSelf' /\ Greeted(u)' /\ Aged(d)' /\ \A s \in Router : Stale(s) => Stale(s)'
  <2>1. \A x \in Hello : x # m
    BY <1>6 DEF Hello
  <2>2. \A q \in End : \A x \in Hello : On(wire', q, x) <=> On(wire, q, x)
    BY <1>7, <2>1
  <2> QED
    BY <1>1, <1>2, <2>2, SameNeighbours DEF AgreeAt
<1>9. Dark' /\ Waiting(u, d)'
  BY <1>1, <1>7 DEF Dark, Waiting, AgreeAt
<1>10. ASSUME NEW s \in Router, s # a, Right(s)
       PROVE  Right(s)'
  <2>1. \A x : LatestOf(s, x)' <=> LatestOf(s, x)
    BY <1>5, <1>10 DEF LatestOf
  <2>2. \A r \in Router : Has(r, s)' <=> Has(r, s)
    BY <1>1, <1>5, <1>10 DEF Has
  <2>3. ASSUME NEW q \in End, NEW x \in LSU, On(wire', q, x), LatestOf(s, x)
        PROVE  Complete(up, s, x.adverts)
    <3>1. On(wire, q, x)
      BY <1>6, <1>7, <1>10, <2>3 DEF LatestOf
    <3> QED
      BY <1>10, <2>3, <3>1 DEF Right
  <2>4. ASSUME NEW r \in Router, Has(r, s)
        PROVE  Complete(up, s, nodeInfoMap[r][s].adverts)
    BY <1>10, <2>4 DEF Right
  <2> QED
    BY <1>1, <2>1, <2>2, <2>3, <2>4 DEF Right
<1>11. ASSUME ~Stale(a), u >= 2
       PROVE  Right(a)'
  <2>1. ASSUME NEW n \in up, NEW y \in Attached[n], a \in Attached[n], a # y
        PROVE  y \in DOMAIN neighbourInfoMap[a] /\ neighbourInfoMap[a][y].net = n
    BY <1>11, <2>1 DEF AgreeAt, Greeted, Heard
  <2>2. GoodNeighbours(a, neighbourInfoMap[a]) /\ a \notin DOMAIN neighbourInfoMap[a]
    BY DEF IInv, GoodTables, NotSelf, AgreeAt
  <2>3. \A x \in DOMAIN neighbourInfoMap[a] : neighbourInfoMap[a][x].net \notin Links \ up
    BY <1>11 DEF Stale
  <2>4. Complete(up, a, m.adverts)
    BY <1>2, <1>6, <2>1, <2>2, <2>3, AdvertsComplete
  <2>5. ASSUME NEW q \in End, NEW x \in LSU, On(wire', q, x), LatestOf(a, x)'
        PROVE  x = m
    <3>1. x.rid = a /\ x.seq \in Nat /\ x.seq = LSUSequence[a]
      BY <1>4, <1>5, <2>5, MospfAssumption DEF LatestOf, LSU, Seqno, MospfAssumption
    <3>2. ~On(wire, q, x)
      BY <1>4, <3>1 DEF Numbered
    <3> QED
      BY <1>7, <2>5, <3>2
  <2>6. ASSUME NEW r \in Router, Has(r, a)'
        PROVE  FALSE
    <3>1. /\ a \in DOMAIN nodeInfoMap[r] /\ nodeInfoMap[r][a].seq = LSUSequence[a]
      BY <1>1, <1>4, <1>5, <2>6 DEF Has
    <3> QED
      BY <1>4, <3>1 DEF Numbered
  <2> QED
    BY <1>1, <2>4, <2>5, <2>6 DEF Right
<1>12. Told(u)'
  <2> SUFFICES ASSUME NEW s \in Router
               PROVE  /\ LSUSequence'[s] = 0 => slept'[s] >= u
                      /\ Right(s)' \/ Due(s)' \/ u < slept'[s] + 2
    BY DEF Told
  <2>1. CASE s = a
    <3>1. LSUSequence'[s] # 0 /\ slept'[s] = 0
      BY <1>4, <1>5, <2>1
    <3>2. Stale(a) => Due(s)'
      BY <1>8, <2>1 DEF Due
    <3>3. CASE u >= 2
      BY <1>11, <2>1, <3>1, <3>2, <3>3
    <3>4. CASE ~(u >= 2)
      BY <3>1, <3>4
    <3> QED
      BY <3>3, <3>4
  <2>2. CASE s # a
    <3>1. LSUSequence'[s] = LSUSequence[s] /\ slept'[s] = slept[s]
      BY <1>5, <2>2
    <3>2. Due(s) => Due(s)'
      BY <1>1, <1>2, <1>8, <2>2 DEF Due
    <3> QED
      BY <1>10, <2>2, <3>1, <3>2 DEF Told, AgreeAt
  <2> QED
    BY <2>1, <2>2
<1> QED
  BY <1>8, <1>9, <1>12 DEF AgreeAt

LEMMA StopSleepingAgree ==
  ASSUME IInv, NEW u \in Nat, NEW d \in Nat, AgreeAt(u, d),
         NEW a \in Router, StopSleeping(a)
  PROVE  AgreeAt(u, d)'
<1>1. /\ UNCHANGED <<nodeInfoMap, LSUSequence, slept, wire, helloSent, neighbourInfoMap,
                     up, unsettled>>
      /\ building' = [building EXCEPT ![a] = TRUE]
      /\ changed' = changed \/ changed' = [changed EXCEPT ![a] = FALSE]
  BY DEF StopSleeping, tables, world
<1>2. /\ changed \in [Router -> BOOLEAN] /\ building \in [Router -> BOOLEAN]
      /\ up \subseteq Links
  BY DEF IInv, GoodThreads
<1>3. NotSelf' /\ Greeted(u)' /\ Aged(d)' /\ \A s \in Router : Stale(s) => Stale(s)'
  BY <1>1, <1>2, SameNeighbours DEF AgreeAt
<1>4. \A s \in Router : Due(s) => Due(s)'
  <2> SUFFICES ASSUME NEW s \in Router, Due(s) PROVE Due(s)'
    OBVIOUS
  <2>1. CASE s = a
    BY <1>1, <1>2, <2>1 DEF Due
  <2>2. CASE s # a
    BY <1>1, <1>2, <1>3, <2>2 DEF Due
  <2> QED
    BY <2>1, <2>2
<1>5. Told(u)'
  BY <1>1, <1>4, SameTold DEF AgreeAt
<1>6. Dark' /\ Waiting(u, d)'
  BY <1>1 DEF Dark, Waiting, AgreeAt
<1> QED
  BY <1>3, <1>5, <1>6 DEF AgreeAt

\* A neighbour that was heard in this tick or the last one is not too old.
LEMMA NeighbourTimeoutAgree ==
  ASSUME IInv, NEIGHBOUR_TIMEOUT > 1, NEW u \in Nat, NEW d \in Nat, AgreeAt(u, d),
         NEW r \in Router, NeighbourTimeout(r)
  PROVE  AgreeAt(u, d)'
<1> DEFINE old == Expired(neighbourInfoMap[r], NEIGHBOUR_TIMEOUT)
<1>1. /\ neighbourInfoMap' = [neighbourInfoMap EXCEPT ![r] = Without(@, old)]
      /\ UNCHANGED <<wire, helloSent, nodeInfoMap, LSUSequence, slept, building, up, unsettled>>
      /\ changed' = [changed EXCEPT ![r] = TRUE]
  BY DEF NeighbourTimeout, world
<1>2. DOMAIN neighbourInfoMap = Router /\ up \subseteq Links /\ changed \in [Router -> BOOLEAN]
  BY DEF IInv, GoodTables, GoodThreads
<1>3. /\ \A s \in Router : \A x \in DOMAIN neighbourInfoMap'[s] :
              x \in DOMAIN neighbourInfoMap[s] /\ neighbourInfoMap'[s][x] = neighbourInfoMap[s][x]
      /\ \A s \in Router : s # r => neighbourInfoMap'[s] = neighbourInfoMap[s]
  BY <1>1, <1>2 DEF Without
<1>4. NotSelf'
  BY <1>1, <1>3 DEF NotSelf, AgreeAt
<1>5. ASSUME NEW n \in up, NEW s \in Attached[n], NEW x, NEW age \in {0, 1}, Heard(s, n, x, age)
      PROVE  Heard(s, n, x, age)'
  <2>1. s \in Router
    BY <1>2, NetFacts DEF Links
  <2>2. neighbourInfoMap[s][x].alive \in Nat
    BY <1>5, <2>1 DEF Heard, IInv, GoodTables, GoodNeighbours, IsTable, Neighbour
  <2>3. neighbourInfoMap[s][x].alive # NEIGHBOUR_TIMEOUT
    BY <1>5, <2>2, MospfAssumption DEF Heard, MospfAssumption
  <2>4. s = r => x \notin old
    BY <2>3 DEF Expired
  <2>5. x \in DOMAIN neighbourInfoMap'[s] /\ neighbourInfoMap'[s][x] = neighbourInfoMap[s][x]
    BY <1>1, <1>2, <1>5, <2>1, <2>4 DEF Without, Heard
  <2> QED
    BY <1>5, <2>5 DEF Heard
<1>6. \A n \in up : \A s, x \in Attached[n] : Greeting(s, n, x) => Greeting(s, n, x)'
  BY <1>1 DEF Greeting
<1>7. Greeted(u)'
  BY <1>1, <1>5, <1>6 DEF Greeted, AgreeAt
<1>8. Aged(d)' /\ Dark' /\ Waiting(u, d)'
  BY <1>1, <1>3 DEF Aged, Dark, Waiting, AgreeAt
<1>9. \A s \in Router : Due(s) => Due(s)'
  <2> SUFFICES ASSUME NEW s \in Router, Due(s) PROVE Due(s)'
    OBVIOUS
  <2>1. CASE s = r
    BY <1>1, <1>2, <2>1 DEF Due
  <2>2. CASE s # r
    BY <1>1, <1>2, <1>3, <2>2 DEF Due, Stale
  <2> QED
    BY <2>1, <2>2
<1>10. Told(u)'
  BY <1>1, <1>9, SameTold DEF AgreeAt
<1> QED
  BY <1>4, <1>7, <1>8, <1>10 DEF AgreeAt

\* A hello says that its sender is there, on the one network the two share.
LEMMA HandleHelloAgree ==
  ASSUME IInv, OneNet, NEW u \in Nat, NEW d \in Nat, AgreeAt(u, d),
         NEW e \in End, wire[e] # <<>>, Head(wire[e]).type = "hello",
         handleHello(e, Head(wire[e])), UNCHANGED <<helloSent, world>>
  PROVE  AgreeAt(u, d)'
<1>0. PICK m : m = Head(wire[e])
  OBVIOUS
<1> DEFINE a == e[2]
<1>1. GoodWire(wire) /\ wire' = [wire EXCEPT ![e] = Tail(@)]
      /\ UNCHANGED <<helloSent, slept, building, LSUSequence, nodeInfoMap, up, unsettled>>
      /\ up \subseteq Links
  BY DEF IInv, GoodThreads, handleHello, world
<1>2. m \in Hello /\ m.rid \in Attached[e[1]] /\ On(wire, e, m)
  BY <1>0, <1>1, TakeGood, TakenOn DEF GoodPacket, LSU
<1>3. a \in Router /\ e[1] \in Links /\ a \in Attached[e[1]] /\ e = <<e[1], a>>
      /\ m.rid # a /\ e[1] \in Net /\ e[1] \in up
  BY <1>2, NetFacts DEF End, NotSelf, Dark, AgreeAt
<1>4. \A q \in End : \A x :
        /\ On(wire', q, x) => On(wire, q, x)
        /\ On(wire, q, x) => On(wire', q, x) \/ (q = e /\ x = m)
  BY <1>0, <1>1, TakenOn
<1>5. neighbourInfoMap' = [neighbourInfoMap EXCEPT ![a] =
        [x \in DOMAIN neighbourInfoMap[a] \cup {m.rid} |->
           IF x = m.rid THEN [net |-> e[1], alive |-> 0] ELSE neighbourInfoMap[a][x]]]
      /\ DOMAIN neighbourInfoMap = Router
  BY <1>0 DEF handleHello, a, IInv, GoodTables
<1> HIDE DEF a
<1>6. /\ \A s \in Router : s # a => neighbourInfoMap'[s] = neighbourInfoMap[s]
      /\ DOMAIN neighbourInfoMap'[a] = DOMAIN neighbourInfoMap[a] \cup {m.rid}
      /\ neighbourInfoMap'[a][m.rid] = [net |-> e[1], alive |-> 0]
      /\ \A x \in DOMAIN neighbourInfoMap[a] :
           x # m.rid => neighbourInfoMap'[a][x] = neighbourInfoMap[a][x]
  BY <1>3, <1>5
<1>7. NotSelf'
  <2>1. \A q \in End : \A x \in Hello : On(wire', q, x) => x.rid # q[2]
    BY <1>4 DEF NotSelf, AgreeAt
  <2>2. \A s \in Router : s \notin DOMAIN neighbourInfoMap'[s]
    BY <1>3, <1>6 DEF NotSelf, AgreeAt
  <2> QED
    BY <2>1, <2>2 DEF NotSelf
<1>8. ASSUME NEW n \in up, a \in Attached[n], m.rid \in Attached[n], NEW age \in Nat
      PROVE  Heard(a, n, m.rid, age)'
  <2>1. n = e[1]
    <3>1. PICK x, o : x = m.rid /\ o = e[1]
      OBVIOUS
    <3>2. /\ n \in Net /\ o \in Net /\ a # x
          /\ {a, x} \subseteq Attached[n] /\ {a, x} \subseteq Attached[o]
      BY <1>1, <1>2, <1>3, <1>8, <3>1 DEF Links
    <3>3. n = o
      BY <3>2, SameNet
    <3> QED
      BY <3>1, <3>3
  <2>2. /\ m.rid \in DOMAIN neighbourInfoMap'[a]
        /\ neighbourInfoMap'[a][m.rid].net = n /\ neighbourInfoMap'[a][m.rid].alive <= age
    BY <1>6, <1>8, <2>1
  <2> QED
    BY <2>2 DEF Heard
<1>9. ASSUME NEW n \in up, NEW s \in Attached[n], NEW x \in Attached[n], s # x
      PROVE  /\ \A age \in {0, 1} : Heard(s, n, x, age) => Heard(s, n, x, age)'
             /\ Greeting(s, n, x) => Greeting(s, n, x)' \/ Heard(s, n, x, 0)'
  <2>1. s \in Router /\ <<n, s>> \in End
    BY <1>1, NetFacts DEF End, Links
  <2>2. CASE s = a /\ x = m.rid
    BY <1>8, <1>9, <2>2
  <2>3. CASE ~(s = a /\ x = m.rid)
    <3>1. \A age \in {0, 1} : Heard(s, n, x, age) => Heard(s, n, x, age)'
      BY <1>6, <2>1, <2>3 DEF Heard
    <3>2. ASSUME NEW y \in Hello, On(wire, <<n, s>>, y), y.rid = x
          PROVE  On(wire', <<n, s>>, y)
      <4>1. ~(<<n, s>> = e /\ y = m)
        BY <1>3, <2>3, <3>2
      <4> QED
        BY <1>4, <2>1, <3>2, <4>1
    <3> QED
      BY <3>1, <3>2 DEF Greeting
  <2> QED
    BY <2>2, <2>3
<1>10. Greeted(u)'
  BY <1>1, <1>9 DEF Greeted, AgreeAt
<1>11. Dark' /\ Waiting(u, d)'
  BY <1>1, <1>4 DEF Dark, Waiting, AgreeAt
<1>12. Aged(d)'
  <2>1. ASSUME NEW s \in Router, NEW x \in DOMAIN neighbourInfoMap'[s]
        PROVE  /\ neighbourInfoMap'[s][x].alive <= NEIGHBOUR_TIMEOUT
               /\ neighbourInfoMap'[s][x].net \in Links \ up
                    => neighbourInfoMap'[s][x].alive >= d
    <3>1. CASE s = a /\ x = m.rid
      <4>1. neighbourInfoMap'[s][x].net = e[1] /\ neighbourInfoMap'[s][x].alive = 0
        BY <1>6, <3>1
      <4> QED
        BY <1>3, <4>1, MospfAssumption DEF MospfAssumption
    <3>2. CASE ~(s = a /\ x = m.rid)
      <4>1. x \in DOMAIN neighbourInfoMap[s] /\ neighbourInfoMap'[s][x] = neighbourInfoMap[s][x]
        BY <1>6, <2>1, <3>2
      <4> QED
        BY <4>1 DEF Aged, AgreeAt
    <3> QED
      BY <3>1, <3>2
  <2> QED
    BY <1>1, <2>1 DEF Aged
<1>13. ASSUME NEW s \in Router, Stale(s)
       PROVE  Stale(s)'
  <2>1. PICK x \in DOMAIN neighbourInfoMap[s] : neighbourInfoMap[s][x].net \in Links \ up
    BY <1>13 DEF Stale
  <2>2. CASE ~(s = a /\ x = m.rid)
    <3>1. x \in DOMAIN neighbourInfoMap'[s] /\ neighbourInfoMap'[s][x] = neighbourInfoMap[s][x]
      BY <1>6, <2>1, <2>2
    <3> QED
      BY <1>1, <2>1, <3>1 DEF Stale
  <2>3. CASE s = a /\ x = m.rid
    <3>1. PICK y, n, o : y = m.rid /\ n = e[1] /\ o = neighbourInfoMap[a][y].net
      OBVIOUS
    <3>2. o \in Net /\ o # NoNet /\ {a, y} \subseteq Attached[o] /\ o \notin up
      BY <1>3, <2>1, <2>3, <3>1, NetFacts
         DEF IInv, GoodTables, GoodNeighbours, Links
    <3>3. n \in Net /\ a # y /\ {a, y} \subseteq Attached[n] /\ n \in up
      BY <1>2, <1>3, <3>1
    <3>4. PICK b : b = a
      OBVIOUS
    <3>5. /\ n \in Net /\ o \in Net /\ b # y
          /\ {b, y} \subseteq Attached[n] /\ {b, y} \subseteq Attached[o]
      BY <3>2, <3>3, <3>4
    <3>6. n = o
      BY <3>5, OneNetSame
    <3> QED
      BY <3>2, <3>3, <3>6
  <2> QED
    BY <2>2, <2>3
<1>14. \A s \in Router : Due(s) => Due(s)'
  <2>1. changed \in [Router -> BOOLEAN]
        /\ changed' = [changed EXCEPT ![a] = @ \/ m.rid \notin DOMAIN neighbourInfoMap[a]]
    BY <1>0 DEF IInv, GoodThreads, handleHello, a
  <2>2. \A s \in Router : changed[s] => changed'[s]
    BY <2>1
  <2> QED
    BY <1>1, <1>13, <2>2 DEF Due
<1>15. Told(u)'
  <2>1. \A q \in End : \A x \in LSU : On(wire', q, x) <=> On(wire, q, x)
    BY <1>1, HandleHelloFlood
  <2> QED
    BY <1>1, <1>14, <2>1, SameTold DEF AgreeAt
<1> QED
  BY <1>7, <1>10, <1>11, <1>12, <1>15 DEF AgreeAt

\* What a router takes from an LSU is what the LSU says.
LEMMA HandleLSUAgree ==
  ASSUME IInv, NEW u \in Nat, NEW d \in Nat, AgreeAt(u, d),
         NEW e \in End, wire[e] # <<>>, Head(wire[e]).type # "hello",
         handleLSU(e, Head(wire[e])), UNCHANGED <<helloSent, world>>
  PROVE  AgreeAt(u, d)'
<1>0. PICK m : m = Head(wire[e])
  OBVIOUS
<1> DEFINE a == e[2]
           taken == [wire EXCEPT ![e] = Tail(@)]
           new == Forwarded(a, m)
           db == nodeInfoMap[a]
<1>1. m \in LSU /\ m.rid \in Router /\ GoodWire(taken) /\ GoodWire(wire) /\ On(wire, e, m)
      /\ m.ttl \in 0 .. LSU_TTL_INIT /\ TrueOf(m.rid, m.adverts)
  BY <1>0, TakeGood, TakenOn DEF IInv, GoodPacket, Hello, LSU
<1>2. a \in Router
  BY NetFacts
<1>3. /\ UNCHANGED <<LSUSequence, slept, changed, building, helloSent, up, unsettled>>
      /\ up \subseteq Links
  BY DEF handleLSU, lsuThread, world, IInv, GoodThreads
<1>4. \A q \in End : \A x :
        /\ On(taken, q, x) => On(wire, q, x)
        /\ On(wire, q, x) => On(taken, q, x) \/ (q = e /\ x = m)
  BY <1>0, <1>1, TakenOn
<1>5. \/ Own(a, m) /\ wire' = taken /\ UNCHANGED tables
      \/ /\ ~Own(a, m)
         /\ updateRouterTable(a, neighbourInfoMap[a], Stored(db, m))
         /\ wire' = IF m.ttl > 0 THEN Sent(taken, a, e[1], new) ELSE taken
  BY <1>0 DEF handleLSU
<1> HIDE DEF a, taken, db
<1>6. new.rid = m.rid /\ new.seq = m.seq /\ new.type = m.type /\ new.adverts = m.adverts
  <2>1. new = [m EXCEPT !.ttl = m.ttl - 1]
    BY DEF Forwarded
  <2> HIDE DEF new
  <2> QED
    BY <1>1, <2>1 DEF LSU
<1> HIDE DEF new
<1>7. \A q \in End : \A x :
        /\ On(wire', q, x) => On(wire, q, x) \/ (x = new /\ q[1] \in up)
        /\ On(taken, q, x) => On(wire', q, x)
  <2>1. CASE m.ttl > 0 /\ ~Own(a, m)
    <3>1. wire' = Sent(taken, a, e[1], new)
      BY <1>5, <2>1
    <3>2. \A q \in End : \A x : On(wire', q, x) <=>
            \/ On(taken, q, x)
            \/ x = new /\ a \in Attached[q[1]] /\ q[2] # a /\ q[1] # e[1] /\ q[1] \in up
      BY <1>1, <3>1, SentOn
    <3> QED
      BY <1>4, <3>2
  <2>2. CASE ~(m.ttl > 0 /\ ~Own(a, m))
    BY <1>4, <1>5, <2>2
  <2> QED
    BY <2>1, <2>2
<1>8. /\ \A s \in Router : nodeInfoMap'[s] = nodeInfoMap[s]
                           \/ (s = a /\ ~Own(a, m) /\ nodeInfoMap'[s] = Stored(db, m))
      /\ \A s \in Router : \A x \in DOMAIN neighbourInfoMap[s] :
           x \in DOMAIN neighbourInfoMap'[s]
           /\ neighbourInfoMap'[s][x] = neighbourInfoMap[s][x]
      /\ \A s \in Router : \A x \in DOMAIN neighbourInfoMap'[s] :
           x \in DOMAIN neighbourInfoMap[s]
             \/ (x # s /\ neighbourInfoMap'[s][x] = Phantom)
  <2>1. CASE Own(a, m) /\ UNCHANGED tables
    BY <2>1 DEF tables
  <2>2. CASE ~Own(a, m) /\ updateRouterTable(a, neighbourInfoMap[a], Stored(db, m))
    <3>1. GoodNodes(a, Stored(db, m))
      BY <1>1, <1>2, <2>2, StoredGood DEF Own, IInv, GoodTables, db
    <3> QED
      BY <1>2, <2>2, <3>1, UpdateNeighbours DEF IInv
  <2> QED
    BY <1>5, <2>1, <2>2
<1>9. NotSelf' /\ Greeted(u)' /\ Aged(d)' /\ \A s \in Router : Stale(s) => Stale(s)'
  <2>1. \A x \in Hello : x # m /\ x # new
    BY <1>1, <1>6 DEF Hello, LSU
  <2>2. \A q \in End : \A x \in Hello : On(wire', q, x) <=> On(wire, q, x)
    BY <1>4, <1>7, <2>1
  <2> QED
    BY <1>3, <1>8, <2>2, SameNeighbours DEF AgreeAt
<1>10. Dark' /\ Waiting(u, d)'
  BY <1>3, <1>7 DEF Dark, Waiting, AgreeAt
<1>11. ASSUME NEW s \in Router, Right(s)
       PROVE  Right(s)'
  <2>1. m.rid = s /\ LatestOf(s, m) => Complete(up, s, m.adverts)
    BY <1>1, <1>11 DEF Right
  <2>2. ASSUME NEW q \in End, NEW x \in LSU, On(wire', q, x), LatestOf(s, x)
        PROVE  Complete(up, s, x.adverts)
    <3>1. CASE On(wire, q, x)
      BY <1>11, <2>2, <3>1 DEF Right
    <3>2. CASE x = new
      BY <1>6, <2>1, <2>2, <3>2 DEF LatestOf
    <3> QED
      BY <1>7, <2>2, <3>1, <3>2
  <2>3. ASSUME NEW r \in Router, s \in DOMAIN nodeInfoMap'[r],
               nodeInfoMap'[r][s].seq = LSUSequence[s] - 1
        PROVE  Complete(up, s, nodeInfoMap'[r][s].adverts)
    <3>1. \/ s \in DOMAIN nodeInfoMap[r] /\ nodeInfoMap'[r][s] = nodeInfoMap[r][s]
          \/ s = m.rid /\ nodeInfoMap'[r][s].seq = m.seq
             /\ nodeInfoMap'[r][s].adverts = m.adverts
      <4>1. \/ r = a /\ nodeInfoMap'[r] = Stored(db, m) /\ db = nodeInfoMap[r]
            \/ nodeInfoMap'[r] = nodeInfoMap[r]
        BY <1>8 DEF db
      <4>2. CASE nodeInfoMap'[r] = nodeInfoMap[r]
        BY <2>3, <4>2
      <4>3. CASE nodeInfoMap'[r] = Stored(db, m) /\ db = nodeInfoMap[r]
        BY <2>3, <4>3 DEF Stored
      <4> QED
        BY <4>1, <4>2, <4>3
    <3>2. CASE s \in DOMAIN nodeInfoMap[r] /\ nodeInfoMap'[r][s] = nodeInfoMap[r][s]
      BY <1>11, <2>3, <3>2 DEF Right, Has
    <3>3. CASE s = m.rid /\ nodeInfoMap'[r][s].seq = m.seq
               /\ nodeInfoMap'[r][s].adverts = m.adverts
      BY <2>1, <2>3, <3>3 DEF LatestOf
    <3> QED
      BY <3>1, <3>2, <3>3
  <2>4. \A x : LatestOf(s, x)' <=> LatestOf(s, x)
    BY <1>3 DEF LatestOf
  <2>5. \A r : Has(r, s)' <=> s \in DOMAIN nodeInfoMap'[r]
                              /\ nodeInfoMap'[r][s].seq = LSUSequence[s] - 1
    BY <1>3 DEF Has
  <2> QED
    BY <1>3, <2>2, <2>3, <2>4, <2>5 DEF Right
<1>12. Told(u)'
  <2>1. \A s \in Router : Due(s) => Due(s)'
    BY <1>3, <1>9 DEF Due
  <2> QED
    BY <1>3, <1>11, <2>1 DEF Told, AgreeAt
<1> QED
  BY <1>9, <1>10, <1>12 DEF AgreeAt

\* At the end of a tick all hellos have arrived.
LEMMA TickAgree ==
  ASSUME IInv, NEW u \in Nat, NEW d \in Nat, AgreeAt(u, d), Tick
  PROVE  AgreeAt(u + 1, d + 1)'
<1>1. Silence /\ \A r \in Router : helloSent[r]
  BY DEF Tick, Quiet
<1>2. /\ \A r \in Router : /\ nodeInfoMap'[r] = Older(nodeInfoMap[r])
                           /\ neighbourInfoMap'[r] = Older(neighbourInfoMap[r])
                           /\ slept'[r] = slept[r] + 1 /\ ~helloSent'[r]
      /\ UNCHANGED <<LSUSequence, wire, up, changed, building>>
      /\ unsettled' = IF unsettled > 0 THEN unsettled - 1 ELSE 0
      /\ up \subseteq Links
  BY DEF Tick, IInv, GoodThreads
<1>3. \A q \in End : \A x : ~On(wire, q, x)
  BY <1>1, SilentOn
<1>4. \A r \in Router : DOMAIN neighbourInfoMap'[r] = DOMAIN neighbourInfoMap[r]
                        /\ DOMAIN nodeInfoMap'[r] = DOMAIN nodeInfoMap[r]
  BY <1>2 DEF Older
<1>5. ASSUME NEW r \in Router, NEW x \in DOMAIN neighbourInfoMap[r]
      PROVE  /\ neighbourInfoMap'[r][x].net = neighbourInfoMap[r][x].net
             /\ neighbourInfoMap'[r][x].alive = neighbourInfoMap[r][x].alive + 1
             /\ neighbourInfoMap[r][x].alive \in Nat
  <2>1. neighbourInfoMap'[r][x] = [neighbourInfoMap[r][x] EXCEPT !.alive = @ + 1]
    BY <1>2 DEF Older
  <2>2. neighbourInfoMap[r][x] \in Neighbour
    BY DEF IInv, GoodTables, GoodNeighbours, IsTable
  <2> QED
    BY <2>1, <2>2 DEF Neighbour
<1>6. ASSUME NEW r \in Router, NEW s \in DOMAIN nodeInfoMap[r]
      PROVE  /\ nodeInfoMap'[r][s].seq = nodeInfoMap[r][s].seq
             /\ nodeInfoMap'[r][s].adverts = nodeInfoMap[r][s].adverts
             /\ s \in Router
  <2>1. nodeInfoMap'[r][s] = [nodeInfoMap[r][s] EXCEPT !.alive = @ + 1]
    BY <1>2 DEF Older
  <2>2. nodeInfoMap[r][s] \in Node /\ s \in Router
    BY DEF IInv, GoodTables, GoodNodes, IsTable
  <2> QED
    BY <2>1, <2>2 DEF Node
<1>7. NotSelf' /\ Dark'
  BY <1>2, <1>4 DEF NotSelf, Dark, AgreeAt
<1>8. Greeted(u + 1)'
  <2> SUFFICES ASSUME NEW n \in up, NEW s \in Attached[n], NEW x \in Attached[n], s # x
               PROVE  /\ ~helloSent'[x]
                      /\ u + 1 >= 2 => Heard(s, n, x, 1)'
    BY <1>2 DEF Greeted
  <2>1. s \in Router /\ x \in Router /\ <<n, s>> \in End
    BY <1>2, NetFacts DEF End, Links
  <2>2. ASSUME u + 1 >= 2
        PROVE  Heard(s, n, x, 1)'
    <3>1. u >= 1
      BY <2>2
    <3>2. Heard(s, n, x, 0)
      BY <1>1, <1>3, <2>1, <3>1 DEF Greeted, Greeting, AgreeAt
    <3>3. /\ x \in DOMAIN neighbourInfoMap'[s]
          /\ neighbourInfoMap'[s][x].net = n /\ neighbourInfoMap'[s][x].alive <= 1
      BY <1>4, <1>5, <2>1, <3>2 DEF Heard
    <3> QED
      BY <3>3 DEF Heard
  <2> QED
    BY <1>2, <2>1, <2>2
<1>9. Aged(d + 1)'
  <2> SUFFICES ASSUME NEW s \in Router, NEW x \in DOMAIN neighbourInfoMap[s]
               PROVE  /\ neighbourInfoMap'[s][x].alive <= NEIGHBOUR_TIMEOUT
                      /\ neighbourInfoMap'[s][x].net \in Links \ up
                           => neighbourInfoMap'[s][x].alive >= d + 1
    BY <1>2, <1>4 DEF Aged
  <2>1. neighbourInfoMap[s][x].alive # NEIGHBOUR_TIMEOUT
    BY DEF Tick, Quiet, Expired
  <2>2. /\ neighbourInfoMap[s][x].alive <= NEIGHBOUR_TIMEOUT
        /\ neighbourInfoMap[s][x].net \in Links \ up => neighbourInfoMap[s][x].alive >= d
    BY DEF Aged, AgreeAt
  <2> QED
    BY <1>5, <2>1, <2>2, MospfAssumption DEF MospfAssumption
<1>10. \A s \in Router : Due(s) => Due(s)'
  <2>1. \A s \in Router : Stale(s) => Stale(s)'
    BY <1>2, <1>4, <1>5 DEF Stale
  <2> QED
    BY <1>2, <2>1 DEF Due
<1>11. ASSUME NEW s \in Router, Right(s)
       PROVE  Right(s)'
  <2>1. \A q \in End : \A x : ~On(wire', q, x)
    BY <1>2, <1>3
  <2>2. ASSUME NEW r \in Router, s \in DOMAIN nodeInfoMap'[r],
               nodeInfoMap'[r][s].seq = LSUSequence[s] - 1
        PROVE  Complete(up, s, nodeInfoMap'[r][s].adverts)
    <3>1. s \in DOMAIN nodeInfoMap[r] /\ Has(r, s)
      BY <1>4, <1>6, <2>2 DEF Has
    <3> QED
      BY <1>6, <1>11, <3>1 DEF Right
  <2>3. \A r : Has(r, s)' <=> s \in DOMAIN nodeInfoMap'[r]
                              /\ nodeInfoMap'[r][s].seq = LSUSequence[s] - 1
    BY <1>2 DEF Has
  <2> QED
    BY <1>2, <2>1, <2>2, <2>3 DEF Right
<1>12. Told(u + 1)'
  <2>1. \A s \in Router : slept[s] \in Nat /\ slept'[s] = slept[s] + 1
    BY <1>2 DEF IInv, GoodThreads
  <2>2. \A s \in Router : /\ LSUSequence'[s] = 0 => slept'[s] >= u + 1
                          /\ u < slept[s] + 2 => u + 1 < slept'[s] + 2
    BY <1>2, <2>1 DEF Told, AgreeAt
  <2> QED
    BY <1>10, <1>11, <2>2 DEF Told, AgreeAt
<1>13. Waiting(u + 1, d + 1)'
  BY <1>2, MospfAssumption DEF Waiting, AgreeAt, MospfAssumption
<1> QED
  BY <1>7, <1>8, <1>9, <1>12, <1>13 DEF AgreeAt

\* Paths over the networks of a set join the routers: no set of routers that
\* none of these networks leads out of has only one end of a path.
LEMMA PathsJoin ==
  ASSUME NEW on, Connected(on), NEW r \in Router, NEW s \in Router, r # s,
         NEW S, r \in S, \A n \in on : Attached[n] \subseteq S \/ Attached[n] \cap S = {}
  PROVE  s \in S
<1>1. PICK k \in 1 .. LSU_TTL_INIT + 1 : \E p \in Simple(on, k) : Path(on, r, s, k, p[1], p[2])
  BY DEF Connected
<1>2. PICK p \in Simple(on, k) : Path(on, r, s, k, p[1], p[2])
  BY <1>1
<1>3. k \in Nat
  BY MospfAssumption DEF MospfAssumption
<1>4. /\ p[1][0] = r /\ p[1][k] = s
      /\ \A i \in 1 .. k : p[2][i] \in on /\ {p[1][i - 1], p[1][i]} \subseteq Attached[p[2][i]]
  BY <1>2 DEF Path
<1> DEFINE Out == {j \in 0 .. k : p[1][j] \notin S}
<1> SUFFICES ASSUME Out # {} PROVE FALSE
  BY <1>3, <1>4
<1>5. PICK j \in Out : \A i \in Out : j <= i
  <2>1. Out \in SUBSET Nat
    OBVIOUS
  <2> HIDE DEF Out
  <2> QED
    BY <2>1, LeastExists
<1>6. j # 0
  BY <1>4, <1>5
<1>7. j \in 1 .. k /\ j - 1 \in 0 .. k /\ j - 1 < j
  BY <1>3, <1>5, <1>6
<1>8. p[1][j - 1] \in S
  BY <1>5, <1>7
<1> QED
  BY <1>4, <1>5, <1>7, <1>8

\* A network that goes down: its ends are stale, the others as right as before.
\* Those that still work join all routers.
LEMMA LinkDownAgree ==
  ASSUME IInv, LSUINT < AfterUp, Connected(up)', NEW u \in Nat, NEW d \in Nat, AgreeAt(u, d),
         NEW n \in Links, LinkDown(n)
  PROVE  AgreeAt(u, 0)'
<1>1. /\ n \in up /\ up' = up \ {n} /\ Quiet /\ unsettled = 0 /\ unsettled' = AfterDown
      /\ UNCHANGED <<neighbourInfoMap, nodeInfoMap, slept, LSUSequence, changed, building,
                     helloSent, wire>>
  <2>1. ASSUME NEW r \in Router, NEW s \in Router
        PROVE  Joined(r, s)'
    BY PathsJoin DEF Joined, Closed
  <2> QED
    BY <2>1 DEF LinkDown, Change, tables
<1>2. Silence /\ up \subseteq Links
  BY <1>1 DEF Quiet, IInv, GoodThreads
<1>3. \A q \in End : \A x : ~On(wire', q, x)
  BY <1>1, <1>2, SilentOn
<1>4. u > LSUINT
  BY <1>1, MospfAssumption DEF AgreeAt, Waiting, MospfAssumption
<1>5. \A s \in Router : slept[s] < LSUINT /\ slept[s] \in Nat
  BY <1>1 DEF Quiet, IInv, GoodThreads
<1>6. u >= 2
  BY <1>4, MospfAssumption DEF MospfAssumption
<1>7. NotSelf' /\ Dark'
  BY <1>1, <1>3 DEF NotSelf, Dark, AgreeAt
<1>8. Greeted(u)'
  <2>1. \A o \in up' : o \in up
    BY <1>1
  <2>2. \A o, s, x, age : /\ Heard(s, o, x, age)' <=> Heard(s, o, x, age)
                          /\ Greeting(s, o, x)' <=> Greeting(s, o, x)
    BY <1>1 DEF Heard, Greeting
  <2> QED
    BY <1>1, <2>1, <2>2 DEF Greeted, AgreeAt
<1>9. Aged(0)'
  <2>1. \A s \in Router : \A x \in DOMAIN neighbourInfoMap[s] : neighbourInfoMap[s][x].alive \in Nat
    BY DEF IInv, GoodTables, GoodNeighbours, IsTable, Neighbour
  <2> QED
    BY <1>1, <2>1 DEF Aged, AgreeAt
<1>10. ASSUME NEW s \in Router, Due(s)
       PROVE  Due(s)'
  BY <1>1, <1>10 DEF Due, Stale
<1>11. ASSUME NEW s \in Router, NEW x \in Router, s # x, {s, x} \subseteq Attached[n]
       PROVE  Due(s)'
  <2>1. Heard(s, n, x, 1)
    BY <1>1, <1>6, <1>11 DEF Greeted, AgreeAt
  <2> QED
    BY <1>1, <2>1 DEF Due, Stale, Heard
<1>12. ASSUME NEW s \in Router, Right(s), ~Due(s)'
       PROVE  Right(s)'
  <2>1. ASSUME NEW adverts, Complete(up, s, adverts)
        PROVE  Complete(up', s, adverts)
    <3>1. \A o : \A x \in Router : Opposite(up', s, o, x) <=> Opposite(up, s, o, x)
      BY <1>1, <1>11, <1>12 DEF Opposite
    <3> QED
      BY <2>1, <3>1 DEF Complete
  <2>2. \A r : Has(r, s)' <=> Has(r, s)
    BY <1>1 DEF Has
  <2> QED
    BY <1>1, <1>3, <1>12, <2>1, <2>2 DEF Right
<1>13. Told(u)'
  BY <1>1, <1>10, <1>12 DEF Told, AgreeAt
<1>14. Waiting(u, 0)'
  BY <1>1, <1>4, MospfAssumption DEF AgreeAt, Waiting, MospfAssumption
<1> QED
  BY <1>7, <1>8, <1>9, <1>13, <1>14 DEF AgreeAt

\* A network that comes back: its ends have to hear of each other first.
LEMMA LinkUpAgree ==
  ASSUME IInv, NEW u \in Nat, NEW d \in Nat, AgreeAt(u, d),
         NEW n \in Links, LinkUp(n)
  PROVE  AgreeAt(0, d)'
<1>1. /\ up' = up \cup {n} /\ Quiet /\ unsettled = 0 /\ unsettled' = AfterUp
      /\ UNCHANGED <<neighbourInfoMap, nodeInfoMap, slept, LSUSequence, changed, building,
                     helloSent, wire>>
  BY DEF LinkUp, Change, tables
<1>2. Silence
  BY <1>1 DEF Quiet
<1>3. \A q \in End : \A x : ~On(wire', q, x)
  BY <1>1, <1>2, SilentOn
<1>4. NotSelf' /\ Dark' /\ Greeted(0)'
  BY <1>1, <1>3 DEF NotSelf, Dark, Greeted, AgreeAt
<1>5. Aged(d)'
  BY <1>1 DEF Aged, AgreeAt
<1>6. Told(0)'
  <2>1. \A s \in Router : slept'[s] \in Nat
    BY <1>1 DEF IInv, GoodThreads
  <2> QED
    BY <2>1 DEF Told
<1>7. Waiting(0, d)'
  BY <1>1, MospfAssumption DEF AgreeAt, Waiting, MospfAssumption
<1> QED
  BY <1>4, <1>5, <1>6, <1>7 DEF AgreeAt

-----------------------------------------------------------------------------
(* All routers are joined to each other by networks that are up.           *)

\* The routers that at most k working links lead to from r, and the function
\* that solves the equation
Ring(r, f, k) == IF k = 0 THEN {r}
                 ELSE {b \in Router : \E a \in f[k - 1] :
                         a = b \/ \E n \in up : {a, b} \subseteq Attached[n]}

Rings(r, f) == [k \in 0 .. Cardinality(Router) |-> Ring(r, f, k)]

Reach(r) == CHOOSE f : f = Rings(r, f)

LEMMA ReachIs ==
  ASSUME NEW r \in Router
  PROVE  /\ Cardinality(Router) \in Nat
         /\ Reach(r)[0] = {r}
         /\ \A k \in 1 .. Cardinality(Router) :
              Reach(r)[k] = {b \in Router : \E a \in Reach(r)[k - 1] :
                               a = b \/ \E n \in up : {a, b} \subseteq Attached[n]}
<1> DEFINE N == Cardinality(Router)
           T == SUBSET Router
           onward(x) == {b \in Router : \E a \in x :
                           a = b \/ \E n \in up : {a, b} \subseteq Attached[n]}
           step == [p \in (1 .. N) \X T |-> onward(p[2])]
<1>1. N \in Nat
  BY MospfAssumption, FS_CardinalityType DEF MospfAssumption
<1> HIDE DEF N
<1>2. {r} \in T /\ step \in [(1 .. N) \X T -> T]
  OBVIOUS
<1>3. \A k \in 1 .. N : \A x \in T : step[<<k, x>>] = onward(x)
  OBVIOUS
<1> HIDE DEF step
<1>4. PICK f \in [0 .. N -> T] : f[0] = {r} /\ \A k \in 1 .. N : f[k] = step[<<k, f[k - 1]>>]
  <2> HIDE DEF T
  <2>1. \E f \in [0 .. N -> T] : Steps(N, {r}, step, f)
    BY <1>1, <1>2, Stepwise
  <2> QED
    BY <2>1 DEF Steps
<1>5. ASSUME NEW k \in 1 .. N
      PROVE  f[k] = onward(f[k - 1])
  <2>1. k - 1 \in 0 .. N
    BY <1>1
  <2>2. f[k - 1] \in T
    BY <1>4, <2>1
  <2> HIDE DEF T
  <2>3. step[<<k, f[k - 1]>>] = onward(f[k - 1])
    BY <1>3, <2>2
  <2> QED
    BY <1>4, <2>3
<1>6. f = Rings(r, f)
  <2>1. ASSUME NEW k \in 0 .. N
        PROVE  f[k] = Ring(r, f, k)
    BY <1>1, <1>4, <1>5 DEF Ring
  <2> QED
    BY <2>1 DEF Rings, N
<1>7. Reach(r) = Rings(r, Reach(r))
  BY <1>6 DEF Reach
<1>8. \A k \in 0 .. N : Reach(r)[k] = Ring(r, Reach(r), k)
  BY <1>7 DEF Rings, N
<1>9. \A k \in 1 .. N : k \in 0 .. N /\ k # 0
  BY <1>1
<1>10. 0 \in 0 .. N
  BY <1>1
<1> QED
  BY <1>1, <1>8, <1>9, <1>10 DEF Ring, N

\* A simple path is not longer than there are routers.
LEMMA PathShort ==
  ASSUME NEW on, NEW s, NEW r, NEW k \in Nat, NEW v, NEW n, Path(on, s, r, k, v, n)
  PROVE  k < Cardinality(Router)
<1>1. v \in Injection(0 .. k, Router)
  BY DEF Path, Injection, IsInjective
<1>2. Cardinality(0 .. k) <= Cardinality(Router)
  BY <1>1, MospfAssumption, FS_Injection DEF MospfAssumption
<1>3. Cardinality(0 .. k) = k + 1
  <2>1. 0 \in Int /\ k \in Int /\ ~(0 > k)
    OBVIOUS
  <2>2. Cardinality(0 .. k) = IF 0 > k THEN 0 ELSE k - 0 + 1
    BY <2>1, FS_Interval
  <2> QED
    BY <2>1, <2>2
<1>4. Cardinality(Router) \in Nat
  BY MospfAssumption, FS_CardinalityType DEF MospfAssumption
<1> QED
  BY <1>2, <1>3, <1>4

\* Paths over networks that are up join the routers, and no path needs to be
\* longer than there are other routers.
LEMMA AllJoined ==
  ASSUME Connected(up), NEW r \in Router, NEW s \in Router, r # s
  PROVE  /\ Joined(r, s)
         /\ s \in Reach(r)[Cardinality(Router) - 1] /\ s \in Reach(r)[Cardinality(Router)]
<1> DEFINE N == Cardinality(Router)
<1>1. PICK k \in 1 .. LSU_TTL_INIT + 1 : \E p \in Simple(up, k) : Path(up, r, s, k, p[1], p[2])
  BY DEF Connected
<1>2. PICK p \in Simple(up, k) : Path(up, r, s, k, p[1], p[2])
  BY <1>1
<1>3. k \in Nat \ {0} /\ k < N /\ N \in Nat
  <2>1. k \in Nat \ {0}
    BY MospfAssumption DEF MospfAssumption
  <2>2. k < N
    BY <1>2, <2>1, PathShort
  <2> QED
    BY <2>1, <2>2, ReachIs
<1>4. /\ p[1][0] = r /\ p[1][k] = s
      /\ \A i \in 0 .. k : p[1][i] \in Router
      /\ \A i \in 1 .. k : p[2][i] \in up /\ {p[1][i - 1], p[1][i]} \subseteq Attached[p[2][i]]
  BY <1>2 DEF Path
<1>5. /\ Reach(r)[0] = {r}
      /\ \A j \in 1 .. N : Reach(r)[j] = {b \in Router : \E a \in Reach(r)[j - 1] :
                             a = b \/ \E n \in up : {a, b} \subseteq Attached[n]}
  BY ReachIs
<1> HIDE DEF N
<1>6. \A j \in 0 .. k : p[1][j] \in Reach(r)[j]
  <2> DEFINE Bad == {j \in 0 .. k : p[1][j] \notin Reach(r)[j]}
  <2> SUFFICES ASSUME Bad # {} PROVE FALSE
    OBVIOUS
  <2>1. PICK j \in Bad : \A i \in Bad : j <= i
    <3>1. Bad \in SUBSET Nat
      OBVIOUS
    <3> HIDE DEF Bad
    <3> QED
      BY <3>1, LeastExists
  <2>2. j # 0
    BY <1>4, <1>5, <2>1
  <2>3. j \in 1 .. k /\ j \in 1 .. N /\ j - 1 \in 0 .. k /\ j - 1 < j
    BY <1>3, <2>1, <2>2
  <2>4. p[1][j - 1] \in Reach(r)[j - 1]
    BY <2>1, <2>3
  <2>5. p[1][j] \in Reach(r)[j]
    BY <1>4, <1>5, <2>3, <2>4
  <2> QED
    BY <2>1, <2>5
<1>7. \A j \in k .. N : s \in Reach(r)[j]
  <2> DEFINE Bad == {j \in k .. N : s \notin Reach(r)[j]}
  <2> SUFFICES ASSUME Bad # {} PROVE FALSE
    OBVIOUS
  <2>1. PICK j \in Bad : \A i \in Bad : j <= i
    <3>1. Bad \in SUBSET Nat
      BY <1>3
    <3> HIDE DEF Bad
    <3> QED
      BY <3>1, LeastExists
  <2>2. j # k
    BY <1>3, <1>4, <1>6, <2>1
  <2>3. j \in 1 .. N /\ j - 1 \in k .. N /\ j - 1 < j
    BY <1>3, <2>1, <2>2
  <2>4. s \in Reach(r)[j - 1]
    BY <2>1, <2>3
  <2>5. s \in Reach(r)[j]
    BY <1>5, <2>3, <2>4
  <2> QED
    BY <2>1, <2>5
<1>8. s \in Reach(r)[N] /\ s \in Reach(r)[N - 1]
  <2>1. N \in k .. N /\ N - 1 \in k .. N
    BY <1>3
  <2> QED
    BY <1>7, <2>1
<1>9. Joined(r, s)
  BY PathsJoin DEF Joined, Closed
<1> QED
  BY <1>8, <1>9 DEF N

-----------------------------------------------------------------------------

\* What a step makes of the two counts: they go on with time, and start again
\* when a link comes back or fails.
LEMMA StepAgree ==
  ASSUME IInv, Numbered, Young, NoWrap, [Next]_vars, OneNet,
         LSUINT < DATABASE_TIMEOUT, NEIGHBOUR_TIMEOUT > 1, LSUINT < AfterUp,
         [NoRestart]_vars, Connected(up)',
         NEW u \in Nat, NEW d \in Nat, AgreeAt(u, d)
  PROVE  \/ Tick /\ AgreeAt(u + 1, d + 1)'
         \/ (\E n \in Links : LinkUp(n)) /\ AgreeAt(0, d)'
         \/ /\ ~Tick /\ \A n \in Links : ~LinkUp(n)
            /\ AgreeAt(u, d)' \/ AgreeAt(u, 0)'
<1>1. ASSUME NEW r \in Router,
             \/ SendHello(r) \/ StopSleeping(r) \/ SendLSU(r)
             \/ NeighbourTimeout(r) \/ NodeTimeout(r)
      PROVE  AgreeAt(u, d)'
  <2>1. ~NodeTimeout(r)
    BY NoNodeTimeout DEF NodeTimeout
  <2>2. CASE SendHello(r)
    BY <2>2, SendHelloAgree
  <2>3. CASE StopSleeping(r)
    BY <2>3, StopSleepingAgree
  <2>4. CASE SendLSU(r)
    BY <2>4, SendLSUAgree
  <2>5. CASE NeighbourTimeout(r)
    BY <2>5, NeighbourTimeoutAgree
  <2> QED
    BY <1>1, <2>1, <2>2, <2>3, <2>4, <2>5
<1>2. ASSUME NEW e \in End, Receive(e)
      PROVE  AgreeAt(u, d)'
  <2>1. wire[e] # <<>> /\ UNCHANGED <<helloSent, world>>
    BY <1>2 DEF Receive
  <2>2. CASE Head(wire[e]).type = "hello"
    <3>1. handleHello(e, Head(wire[e]))
      BY <1>2, <2>2 DEF Receive
    <3> QED
      BY <2>1, <2>2, <3>1, HandleHelloAgree
  <2>3. CASE Head(wire[e]).type # "hello"
    <3>1. handleLSU(e, Head(wire[e]))
      BY <1>2, <2>3 DEF Receive
    <3> QED
      BY <2>1, <2>3, <3>1, HandleLSUAgree
  <2> QED
    BY <2>2, <2>3
<1>3. ASSUME Tick
      PROVE  AgreeAt(u + 1, d + 1)'
  BY <1>3, TickAgree
<1>4. ASSUME NEW n \in Links, LinkDown(n)
      PROVE  AgreeAt(u, 0)'
  BY <1>4, LinkDownAgree
<1>5. ASSUME NEW n \in Links, LinkUp(n)
      PROVE  AgreeAt(0, d)'
  BY <1>5, LinkUpAgree
<1>6. ASSUME UNCHANGED vars
      PROVE  AgreeAt(u, d)'
  <2>1. UNCHANGED <<nodeInfoMap, LSUSequence, slept, wire, helloSent, neighbourInfoMap,
                    changed, building, up, unsettled>>
    BY <1>6 DEF vars, tables, lsuThread, world
  <2>2. NotSelf' /\ Dark' /\ Waiting(u, d)' /\ \A s \in Router : Due(s) => Due(s)'
    BY <2>1 DEF NotSelf, Dark, Waiting, Due, Stale, AgreeAt
  <2>3. up \subseteq Links
    BY DEF IInv, GoodThreads
  <2>4. Greeted(u)' /\ Aged(d)'
    BY <2>1, <2>3, SameNeighbours DEF AgreeAt
  <2>5. Told(u)'
    BY <2>1, <2>2, SameTold DEF AgreeAt
  <2> QED
    BY <2>2, <2>4, <2>5 DEF AgreeAt
<1> QED
  BY <1>1, <1>2, <1>3, <1>4, <1>5, <1>6 DEF Next, NoRestart

LEMMA NextAgree ==
  ASSUME IInv, FloodInv, AgreeInv, NoWrap, [Next]_vars, [NoRestart]_vars, OneNet,
         Connected(up)',
         LSUINT < DATABASE_TIMEOUT, NEIGHBOUR_TIMEOUT > 1, LSUINT < AfterUp
  PROVE  AgreeInv'
<1>2. Numbered /\ Young
  BY DEF FloodInv
<1>3. PICK u, d \in Nat : AgreeAt(u, d)
  BY DEF AgreeInv
<1>4. u + 1 \in Nat /\ d + 1 \in Nat /\ 0 \in Nat
  BY <1>3
<1>5. \/ AgreeAt(u, d)' \/ AgreeAt(u + 1, d + 1)' \/ AgreeAt(u, 0)' \/ AgreeAt(0, d)'
  BY <1>2, <1>3, StepAgree
<1> QED
  BY <1>3, <1>4, <1>5 DEF AgreeInv

\* When the network has settled, every router has the part of every other one
\* in the network, as it is, and sent when that one knew its neighbours.
LEMMA AllKnow ==
  ASSUME IInv, Floods, Settled, Connected(up), LSUINT < AfterUp,
         NEIGHBOUR_TIMEOUT <= AfterDown, NEW u \in Nat, NEW d \in Nat, AgreeAt(u, d)
  PROVE  /\ \A r, s \in Router : r # s =>
              /\ s \in DOMAIN nodeInfoMap[r] /\ Complete(up, s, nodeInfoMap[r][s].adverts)
              /\ Has(r, s)
         /\ \A s \in Router : u >= slept[s] + 2
<1>1. Silence /\ Told(u) /\ Aged(d) /\ u > LSUINT /\ d >= NEIGHBOUR_TIMEOUT
  BY MospfAssumption DEF Settled, Quiet, AgreeAt, Waiting, MospfAssumption
<1>2. ASSUME NEW s \in Router
      PROVE  /\ slept[s] < LSUINT /\ slept[s] \in Nat /\ ~changed[s] /\ ~building[s]
             /\ Expired(neighbourInfoMap[s], NEIGHBOUR_TIMEOUT) = {}
  BY DEF Settled, Quiet, IInv, GoodThreads
<1>3. ASSUME NEW s \in Router
      PROVE  u >= slept[s] + 2
  BY <1>1, <1>2, MospfAssumption DEF MospfAssumption
<1>4. ASSUME NEW s \in Router
      PROVE  ~Stale(s)
  <2> SUFFICES ASSUME NEW x \in DOMAIN neighbourInfoMap[s],
                      neighbourInfoMap[s][x].net \in Links \ up
               PROVE  FALSE
    BY DEF Stale
  <2>1. neighbourInfoMap[s][x].alive \in Nat
    BY DEF IInv, GoodTables, GoodNeighbours, IsTable, Neighbour
  <2>2. neighbourInfoMap[s][x].alive <= NEIGHBOUR_TIMEOUT /\ neighbourInfoMap[s][x].alive >= d
    BY <1>1 DEF Aged
  <2>3. neighbourInfoMap[s][x].alive = NEIGHBOUR_TIMEOUT
    BY <1>1, <2>1, <2>2, MospfAssumption DEF MospfAssumption
  <2> QED
    BY <1>2, <2>3 DEF Expired
<1>5. ASSUME NEW s \in Router
      PROVE  LSUSequence[s] > 0 /\ Right(s)
  <2>1. LSUSequence[s] \in Nat
    BY MospfAssumption DEF IInv, GoodThreads, Seqno, MospfAssumption
  <2>2. LSUSequence[s] # 0
    BY <1>1, <1>2, MospfAssumption DEF Told, MospfAssumption
  <2>3. ~Due(s) /\ ~(u < slept[s] + 2)
    BY <1>2, <1>3, <1>4 DEF Due
  <2> QED
    BY <1>1, <2>1, <2>2, <2>3 DEF Told
<1>6. ASSUME NEW r \in Router, NEW s \in Router, r # s
      PROVE  Has(r, s)
  BY <1>1, <1>5, <1>6, AllHave
<1> QED
  BY <1>3, <1>5, <1>6 DEF Has, Right

\* When the network has been left alone long enough after its start and after
\* the last link that failed or came back, all routers have the same picture
\* of it, which is the network as it is, at the end of every tick: on every
\* network with at most one link between two routers, as long as no router is
\* started again and the links that work join all routers by paths that the
\* ttl allows for, if an LSU is sent more often than it is forgotten and one
\* hello is heard before a neighbour is (sendHelloThread, sendLSUThread,
\* neighbourTimeoutThread, handleLSU), and no number is used twice.
THEOREM MospfAgree ==
  ASSUME OneNet, LSUINT < DATABASE_TIMEOUT, NEIGHBOUR_TIMEOUT > 1,
         LSUINT < AfterUp, NEIGHBOUR_TIMEOUT <= AfterDown
  PROVE  Spec /\ [][NoRestart]_vars /\ []NoWrap /\ []Connected(up) => []DatabasesAgree
<1>1. IInv /\ FloodInv /\ AgreeInv /\ Connected(up) => DatabasesAgree
  <2> SUFFICES ASSUME IInv, FloodInv, AgreeInv, Connected(up), Settled,
                      NEW r \in Router, NEW s \in Router, r # s
               PROVE  /\ s \in DOMAIN nodeInfoMap[r]
                      /\ \A n \in IfNets(s), x \in Router \cup {NoRid} :
                           <<n, x>> \in nodeInfoMap[r][s].adverts <=>
                             IF x = NoRid THEN ~\E y \in Router : Faces(s, n, y)
                                          ELSE Faces(s, n, x)
    BY DEF DatabasesAgree
  <2>1. PICK u, d \in Nat : AgreeAt(u, d)
    BY DEF AgreeInv
  <2>2. Floods
    BY DEF FloodInv
  <2>3. s \in DOMAIN nodeInfoMap[r] /\ Complete(up, s, nodeInfoMap[r][s].adverts)
    BY <2>1, <2>2, AllKnow
  <2>4. \A n, x : Faces(s, n, x) <=> Opposite(up, s, n, x)
    BY DEF Faces, Opposite
  <2> QED
    BY <2>3, <2>4 DEF Complete
<1>2. IInv /\ FloodInv /\ NoWrap /\ Connected(up) /\ [Next]_vars /\ [NoRestart]_vars
      => FloodInv'
  BY NextFlood
<1>3. IInv /\ FloodInv /\ AgreeInv /\ NoWrap /\ Connected(up)' /\ [Next]_vars /\ [NoRestart]_vars
      => AgreeInv'
  BY NextAgree
<1> QED
  BY <1>1, <1>2, <1>3, NextIInv, InitIInv, InitFlood, InitAgree, PTL DEF Spec

-----------------------------------------------------------------------------
(* dijkstra.h.                                                             *)

\* The nodes found so far, after one more round
Onward(db, sofar, k) == sofar \cup Reached(db, sofar, k)

\* The equation of the fold in Paths, and the function that solves it
Rounds(db, start, M, f) ==
  [s \in SUBSET (1 .. M) |->
     IF s = {} THEN start ELSE Onward(db, f[s \ {Max(s)}], Max(s))]

LEMMA MaxIs ==
  ASSUME NEW k \in Nat, NEW s \in SUBSET (1 .. k), k \in s
  PROVE  Max(s) = k
<1>1. \A y \in s : k >= y
  OBVIOUS
<1>2. \A x \in s : (\A y \in s : x >= y) => x = k
  OBVIOUS
<1> QED
  BY <1>1, <1>2 DEF Max

LEMMA MaxIn ==
  ASSUME NEW M \in Nat, NEW s \in SUBSET (1 .. M), s # {}
  PROVE  Max(s) \in s
<1> DEFINE above == {k \in 0 .. M : \A y \in s : y <= k}
<1>1. PICK k \in above : \A j \in above : k <= j
  <2>1. above \in SUBSET Nat /\ M \in above
    OBVIOUS
  <2> HIDE DEF above
  <2> QED
    BY <2>1, LeastExists
<1>2. k \in s
  <2> SUFFICES ASSUME k \notin s PROVE FALSE
    OBVIOUS
  <2>1. k \in 0 .. M /\ \A y \in s : y \in 1 .. M /\ y <= k /\ y # k
    BY <1>1
  <2>2. k - 1 \in 0 .. M /\ \A y \in s : y <= k - 1
    <3>1. \A y \in s : y <= k - 1
      BY <2>1
    <3>2. PICK y : y \in s
      OBVIOUS
    <3>3. y \in 1 .. M /\ y <= k
      BY <2>1, <3>2
    <3> QED
      BY <2>1, <3>1, <3>3
  <2>3. k - 1 \in above
    BY <2>2
  <2> QED
    BY <1>1, <2>1, <2>3
<1>3. \A y \in s : k >= y
  BY <1>1
<1> QED
  BY <1>2, <1>3 DEF Max

LEMMA RoundsExist ==
  ASSUME NEW db, NEW start, NEW M \in Nat
  PROVE  \E f : f = Rounds(db, start, M, f)
<1> DEFINE Bad == {k \in Nat : ~\E f : f = Rounds(db, start, k, f)}
<1> SUFFICES ASSUME Bad # {} PROVE FALSE
  OBVIOUS
<1>1. PICK k \in Bad : \A i \in Bad : k <= i
  <2>1. Bad \in SUBSET Nat
    OBVIOUS
  <2> HIDE DEF Bad
  <2> QED
    BY <2>1, LeastExists
<1>2. CASE k = 0
  <2> DEFINE f == [s \in SUBSET (1 .. 0) |-> start]
  <2>1. \A s \in SUBSET (1 .. 0) : s = {}
    OBVIOUS
  <2>2. f = Rounds(db, start, 0, f)
    BY <2>1 DEF Rounds
  <2> HIDE DEF f
  <2> QED
    BY <1>1, <1>2, <2>2
<1>3. CASE k # 0
  <2>1. k - 1 \in Nat /\ k - 1 < k /\ k \in Nat \ {0}
    BY <1>1, <1>3
  <2>2. k - 1 \notin Bad
    BY <1>1, <2>1
  <2>3. PICK f : f = Rounds(db, start, k - 1, f)
    BY <2>1, <2>2
  <2> DEFINE g == [s \in SUBSET (1 .. k) |->
                     IF k \in s THEN Onward(db, f[s \ {k}], k) ELSE f[s]]
  <2>4. ASSUME NEW s \in SUBSET (1 .. k)
        PROVE  g[s] = IF s = {} THEN start ELSE Onward(db, g[s \ {Max(s)}], Max(s))
    <3>0. \A t \in SUBSET (1 .. k) :
            g[t] = IF k \in t THEN Onward(db, f[t \ {k}], k) ELSE f[t]
      OBVIOUS
    <3> HIDE DEF g
    <3>1. CASE k \in s
      <4>1. Max(s) = k
        BY <2>1, <3>1, MaxIs
      <4>2. s \ {k} \in SUBSET (1 .. k) /\ k \notin s \ {k}
        OBVIOUS
      <4>3. g[s \ {k}] = f[s \ {k}]
        BY <3>0, <4>2
      <4> QED
        BY <3>0, <3>1, <4>1, <4>3
    <3>2. CASE k \notin s
      <4>1. s \in SUBSET (1 .. k - 1)
        BY <2>1, <3>2
      <4>2. f[s] = IF s = {} THEN start ELSE Onward(db, f[s \ {Max(s)}], Max(s))
        BY <2>3, <4>1 DEF Rounds
      <4> DEFINE t == s \ {Max(s)}
      <4>3. t \in SUBSET (1 .. k) /\ k \notin t
        BY <3>2
      <4>4. g[t] = f[t] /\ g[s] = f[s]
        <5> HIDE DEF t
        <5> QED
          BY <3>0, <3>2, <4>3
      <4> QED
        BY <4>2, <4>4
    <3> QED
      BY <3>1, <3>2
  <2>5. g = Rounds(db, start, k, g)
    <3> DEFINE G(s) == IF s = {} THEN start ELSE Onward(db, g[s \ {Max(s)}], Max(s))
    <3>1. g = [s \in SUBSET (1 .. k) |-> g[s]]
      OBVIOUS
    <3> HIDE DEF g
    <3>2. [s \in SUBSET (1 .. k) |-> g[s]] = [s \in SUBSET (1 .. k) |-> G(s)]
      BY <2>4
    <3> QED
      BY <3>1, <3>2 DEF Rounds
  <2> HIDE DEF g
  <2> QED
    BY <1>1, <2>5
<1> QED
  BY <1>2, <1>3

Solved(db, start, M) == CHOOSE f : f = Rounds(db, start, M, f)

Start(r) == {[node |-> r, dist |-> 0, hop |-> r]}

LEMMA PathsFold ==
  ASSUME NEW r, NEW db, Cardinality(DOMAIN db) \in Nat
  PROVE  Paths(r, db) = Solved(db, Start(r), Cardinality(DOMAIN db))[1 .. Cardinality(DOMAIN db)]
<1> DEFINE M == Cardinality(DOMAIN db)
           seq == [k \in 1 .. M |-> k]
           op(x, y) == Onward(db, y, x)
<1>1. Paths(r, db) = FoldLeft(LAMBDA sofar, k : Onward(db, sofar, k), Start(r), seq)
  BY DEF Paths, Onward, Start
<1>2. DOMAIN seq = 1 .. M /\ M \in Nat
  OBVIOUS
<1> DEFINE it == CHOOSE f : f = [s \in SUBSET (1 .. M) |->
              IF s = {} THEN Start(r) ELSE Onward(db, f[s \ {Max(s)}], seq[Max(s)])]
<1>3. Paths(r, db) = it[1 .. M]
  BY <1>1, <1>2 DEF FoldLeft, MapThenFoldSet
<1>4. ASSUME NEW f
      PROVE  [s \in SUBSET (1 .. M) |->
                IF s = {} THEN Start(r) ELSE Onward(db, f[s \ {Max(s)}], seq[Max(s)])]
             = Rounds(db, Start(r), M, f)
  <2>1. ASSUME NEW s \in SUBSET (1 .. M), s # {}
        PROVE  seq[Max(s)] = Max(s)
    <3>1. Max(s) \in 1 .. M
      BY <1>2, <2>1, MaxIn
    <3> QED
      BY <3>1
  <2> HIDE DEF seq, M
  <2>2. \A s \in SUBSET (1 .. M) :
          (IF s = {} THEN Start(r) ELSE Onward(db, f[s \ {Max(s)}], seq[Max(s)]))
          = IF s = {} THEN Start(r) ELSE Onward(db, f[s \ {Max(s)}], Max(s))
    BY <2>1
  <2> QED
    BY <2>2 DEF Rounds
<1> HIDE DEF seq
<1>5. it = Solved(db, Start(r), M)
  BY <1>4 DEF Solved
<1> QED
  BY <1>3, <1>5

\* The nodes found after k rounds
Found(r, db, k) == Solved(db, Start(r), Cardinality(DOMAIN db))[1 .. k]

LEMMA PathsAre ==
  ASSUME NEW r, NEW db, Cardinality(DOMAIN db) \in Nat
  PROVE  /\ Paths(r, db) = Found(r, db, Cardinality(DOMAIN db))
         /\ Found(r, db, 0) = {[node |-> r, dist |-> 0, hop |-> r]}
         /\ \A k \in 1 .. Cardinality(DOMAIN db) :
              Found(r, db, k) = Found(r, db, k - 1) \cup Reached(db, Found(r, db, k - 1), k)
<1> DEFINE M == Cardinality(DOMAIN db)
           f == Solved(db, Start(r), M)
<1>1. f = Rounds(db, Start(r), M, f)
  BY RoundsExist DEF Solved
<1> HIDE DEF f
<1>2. \A s \in SUBSET (1 .. M) :
        f[s] = IF s = {} THEN Start(r) ELSE Onward(db, f[s \ {Max(s)}], Max(s))
  BY <1>1 DEF Rounds
<1>3. f[1 .. 0] = Start(r)
  <2>1. 1 .. 0 = {}
    OBVIOUS
  <2> QED
    BY <1>2, <2>1
<1>4. ASSUME NEW k \in 1 .. M
      PROVE  f[1 .. k] = Onward(db, f[1 .. k - 1], k)
  <2>1. k \in Nat /\ k \in 1 .. k /\ 1 .. k \in SUBSET (1 .. M) /\ (1 .. k) \ {k} = 1 .. k - 1
    BY <1>4
  <2>2. Max(1 .. k) = k
    BY <2>1, MaxIs
  <2> QED
    BY <1>2, <2>1, <2>2
<1> QED
  BY <1>3, <1>4, PathsFold DEF Found, f, Onward, Start

\* a and b are at the two ends of some link that works.
Adjacent(a, b) == \E l \in up : Opposite(up, a, l, b)

LEMMA ReachStep ==
  ASSUME NEW r \in Router, NEW k \in 1 .. Cardinality(Router)
  PROVE  Reach(r)[k] = {b \in Router : \E a \in Reach(r)[k - 1] : a = b \/ Adjacent(a, b)}
<1>1. Reach(r)[k] = {b \in Router : \E a \in Reach(r)[k - 1] :
                       a = b \/ \E n \in up : {a, b} \subseteq Attached[n]}
  BY ReachIs
<1>2. \A a, b : (a = b \/ \E n \in up : {a, b} \subseteq Attached[n])
                <=> (a = b \/ Adjacent(a, b))
  BY DEF Adjacent, Opposite
<1> QED
  BY <1>1, <1>2

LEMMA ReachGrows ==
  ASSUME NEW r \in Router, NEW j \in 0 .. Cardinality(Router),
         NEW k \in j .. Cardinality(Router)
  PROVE  Reach(r)[j] \subseteq Reach(r)[k] /\ Reach(r)[k] \subseteq Router
<1> DEFINE N == Cardinality(Router)
           Bad == {i \in j .. N : ~(Reach(r)[j] \subseteq Reach(r)[i])}
<1>1. N \in Nat /\ j \in Nat
  BY ReachIs
<1>2. \A i \in 1 .. N :
        Reach(r)[i] = {b \in Router : \E a \in Reach(r)[i - 1] :
                         a = b \/ \E n \in up : {a, b} \subseteq Attached[n]}
  BY ReachIs
<1> HIDE DEF N
<1>3. \A i \in 0 .. N : Reach(r)[i] \subseteq Router
  <2> TAKE i \in 0 .. N
  <2>1. CASE i = 0
    BY <2>1, ReachIs
  <2>2. CASE i # 0
    <3>1. i \in 1 .. N
      BY <1>1, <2>2
    <3> QED
      BY <1>2, <3>1
  <2> QED
    BY <2>1, <2>2
<1>4. Bad = {}
  <2> SUFFICES ASSUME Bad # {} PROVE FALSE
    OBVIOUS
  <2>1. PICK i \in Bad : \A x \in Bad : i <= x
    <3>1. Bad \in SUBSET Nat
      BY <1>1
    <3> HIDE DEF Bad
    <3> QED
      BY <3>1, LeastExists
  <2>2. i # j /\ i \in j .. N
    BY <2>1
  <2>3. i \in 1 .. N /\ i - 1 \in j .. N /\ i - 1 < i /\ i - 1 \in 0 .. N
    BY <1>1, <2>2
  <2>4. Reach(r)[j] \subseteq Reach(r)[i - 1]
    BY <2>1, <2>3
  <2>5. Reach(r)[i - 1] \subseteq Reach(r)[i]
    BY <1>2, <1>3, <2>3
  <2> QED
    BY <2>1, <2>4, <2>5
<1>5. k \in j .. N /\ k \in 0 .. N
  BY <1>1 DEF N
<1> QED
  BY <1>3, <1>4, <1>5

\* First chooses one of the nodes it is given.
LEMMA FirstIn ==
  ASSUME NEW nodes, nodes # {}, \A p \in nodes : p.node \in Nat
  PROVE  First(nodes) \in nodes
<1> DEFINE f == [p \in nodes |-> p.node]
<1>1. f \in [nodes -> Nat]
  OBVIOUS
<1> HIDE DEF f
<1>2. \E p \in nodes : \A q \in nodes : f[p] <= f[q]
  BY <1>1, LeastValue
<1>3. \A p \in nodes : f[p] = p.node
  BY DEF f
<1> QED
  BY <1>2, <1>3 DEF First

\* A node is found at its distance, over a neighbour that is nearer to it.
Sound(r, found, k) ==
  \A p \in found :
    /\ p.node \in Router /\ p.dist \in 0 .. k
    /\ p.node \in Reach(r)[p.dist]
    /\ \A j \in 0 .. p.dist - 1 : p.node \notin Reach(r)[j]
    /\ p.dist = 0 => p.node = r
    /\ p.dist > 0 => /\ p.hop \in Router \ {r} /\ Adjacent(r, p.hop)
                     /\ p.node \in Reach(p.hop)[p.dist - 1]

Everything(r, found, k) == \A b \in Reach(r)[k] : \E p \in found : p.node = b

\* db shows the links that work
Shows(r, db) ==
  /\ DOMAIN db = Router \ {r}
  /\ \A a, b \in Router : Linked(db, a, b) <=> Adjacent(a, b)

\* The nodes at distance k - 1 that are linked to b
Before(db, found, k, b) == {p \in found : p.dist = k - 1 /\ Linked(db, p.node, b)}

\* What one round adds
LEMMA ReachedAre ==
  ASSUME NEW db, NEW found, NEW k, NEW q \in Reached(db, found, k)
  PROVE  /\ q.node \in DOMAIN db /\ q.dist = k
         /\ \A p \in found : p.node # q.node
         /\ \E p \in found : p.dist = k - 1 /\ Linked(db, p.node, q.node)
         /\ k = 1 => q.hop = q.node
         /\ k # 1 => q.hop = First(Before(db, found, k, q.node)).hop
<1> DEFINE last == {p \in found : p.dist = k - 1}
           Prev(b) == First({p \in last : Linked(db, p.node, b)})
<1>1. PICK b \in DOMAIN db :
        /\ \A p \in found : p.node # b
        /\ \E p \in last : Linked(db, p.node, b)
        /\ q = [node |-> b, dist |-> k, hop |-> IF k = 1 THEN b ELSE Prev(b).hop]
  BY DEF Reached
<1>2. {p \in last : Linked(db, p.node, b)} = Before(db, found, k, b)
  BY DEF Before
<1>3. Prev(b) = First(Before(db, found, k, b))
  BY <1>2
<1> HIDE DEF Prev
<1> QED
  BY <1>1, <1>3

LEMMA RoundSound ==
  ASSUME NEW r \in Router, NEW db, Shows(r, db),
         NEW found, NEW k \in 1 .. Cardinality(Router),
         Sound(r, found, k - 1), Everything(r, found, k - 1)
  PROVE  Sound(r, found \cup Reached(db, found, k), k)
<1> DEFINE N == Cardinality(Router)
<1>1. N \in Nat /\ k \in Nat \ {0} /\ k - 1 \in 0 .. N /\ k \in 1 .. N /\ k \in 0 .. N
  BY ReachIs
<1> HIDE DEF N
<1>2. ASSUME NEW p \in found
      PROVE  /\ p.node \in Router /\ p.dist \in 0 .. k
             /\ p.node \in Reach(r)[p.dist]
             /\ \A j \in 0 .. p.dist - 1 : p.node \notin Reach(r)[j]
             /\ p.dist = 0 => p.node = r
             /\ p.dist > 0 => /\ p.hop \in Router \ {r} /\ Adjacent(r, p.hop)
                              /\ p.node \in Reach(p.hop)[p.dist - 1]
  <2>1. 0 .. k - 1 \subseteq 0 .. k
    BY <1>1
  <2> QED
    BY <2>1 DEF Sound
<1>3. ASSUME NEW q \in Reached(db, found, k)
      PROVE  /\ q.node \in Router /\ q.dist \in 0 .. k
             /\ q.node \in Reach(r)[q.dist]
             /\ \A j \in 0 .. q.dist - 1 : q.node \notin Reach(r)[j]
             /\ q.dist # 0
             /\ q.hop \in Router \ {r} /\ Adjacent(r, q.hop)
             /\ q.node \in Reach(q.hop)[q.dist - 1]
  <2> DEFINE b == q.node
             S == Before(db, found, k, b)
  <2>1. /\ b \in Router \ {r} /\ q.dist = k
        /\ \A p \in found : p.node # b
        /\ \E p \in found : p.dist = k - 1 /\ Linked(db, p.node, b)
        /\ k = 1 => q.hop = b
        /\ k # 1 => q.hop = First(S).hop
    BY ReachedAre DEF Shows
  <2> HIDE DEF b
  <2>2. \A p \in S : /\ p \in found /\ p.dist = k - 1 /\ p.node \in Router
                     /\ p.node \in Reach(r)[k - 1] /\ Adjacent(p.node, b)
    BY <1>2, <2>1 DEF Shows, Before
  <2>3. S # {}
    BY <2>1 DEF Before
  <2> HIDE DEF S
  <2>4. b \in Reach(r)[k]
    BY <1>1, <2>1, <2>2, <2>3, ReachStep
  <2>5. \A j \in 0 .. k - 1 : b \notin Reach(r)[j]
    <3> TAKE j \in 0 .. k - 1
    <3>1. j \in 0 .. N /\ k - 1 \in j .. N
      BY <1>1
    <3>2. Reach(r)[j] \subseteq Reach(r)[k - 1]
      BY <3>1, ReachGrows DEF N
    <3>3. b \notin Reach(r)[k - 1]
      BY <2>1 DEF Everything
    <3> QED
      BY <3>2, <3>3
  <2>6. CASE k = 1
    <3>1. PICK p \in S : TRUE
      BY <2>3
    <3>2. p.node = r
      BY <1>2, <2>2, <2>6
    <3>3. Adjacent(r, b) /\ q.hop = b
      BY <2>1, <2>2, <2>6, <3>2
    <3>4. b \in Reach(b)[0]
      BY <2>1, ReachIs
    <3> QED
      BY <1>1, <2>1, <2>4, <2>5, <2>6, <3>3, <3>4 DEF b
  <2>7. CASE k # 1
    <3> DEFINE p == First(S)
    <3>1. p \in S
      <4>1. \A x \in S : x.node \in Nat
        BY <2>2, NetFacts
      <4> QED
        BY <2>3, <4>1, FirstIn
    <3> HIDE DEF p
    <3>2. k - 1 > 0 /\ k - 1 \in 1 .. N /\ k - 1 - 1 = k - 2
      BY <1>1, <2>7
    <3>3. /\ p.hop \in Router \ {r} /\ Adjacent(r, p.hop)
          /\ p.node \in Reach(p.hop)[k - 1 - 1] /\ Adjacent(p.node, b)
      BY <1>2, <2>2, <3>1, <3>2
    <3>4. b \in Reach(p.hop)[k - 1]
      BY <2>1, <3>2, <3>3, ReachStep DEF N
    <3>5. q.hop = p.hop
      BY <2>1, <2>7 DEF p
    <3> QED
      BY <1>1, <2>1, <2>4, <2>5, <3>3, <3>4, <3>5 DEF b
  <2> QED
    BY <2>6, <2>7
<1> QED
  BY <1>2, <1>3 DEF Sound

LEMMA RoundEverything ==
  ASSUME NEW r \in Router, NEW db, Shows(r, db),
         NEW found, NEW k \in 1 .. Cardinality(Router),
         Sound(r, found, k - 1), Everything(r, found, k - 1)
  PROVE  Everything(r, found \cup Reached(db, found, k), k)
<1> DEFINE N == Cardinality(Router)
<1>1. N \in Nat /\ k \in Nat \ {0} /\ k - 1 \in 0 .. N /\ k \in 1 .. N /\ k \in 0 .. N
  BY ReachIs
<1> HIDE DEF N
<1> SUFFICES ASSUME NEW b \in Reach(r)[k], \A p \in found : p.node # b
             PROVE  \E p \in Reached(db, found, k) : p.node = b
  BY DEF Everything
<1>2. b \in Router /\ \E a \in Reach(r)[k - 1] : a = b \/ Adjacent(a, b)
  BY ReachStep
<1>3. b \notin Reach(r)[k - 1]
  BY DEF Everything
<1>4. PICK a \in Reach(r)[k - 1] : Adjacent(a, b)
  BY <1>2, <1>3
<1>5. PICK p \in found : p.node = a
  BY DEF Everything
<1>6. a \in Router /\ p.dist \in 0 .. k - 1 /\ a \in Reach(r)[p.dist]
  BY <1>5 DEF Sound
<1>7. p.dist = k - 1
  <2> SUFFICES ASSUME p.dist # k - 1 PROVE FALSE
    OBVIOUS
  <2>1. p.dist + 1 \in 1 .. N /\ p.dist + 1 \in 0 .. N /\ k - 1 \in p.dist + 1 .. N
        /\ (p.dist + 1) - 1 = p.dist
    BY <1>1, <1>6
  <2>2. b \in Reach(r)[p.dist + 1]
    BY <1>2, <1>4, <1>6, <2>1, ReachStep DEF N
  <2>3. b \in Reach(r)[k - 1]
    BY <2>1, <2>2, ReachGrows DEF N
  <2> QED
    BY <1>3, <2>3
<1>8. b # r
  <2>1. r \in Reach(r)[0] /\ 0 \in 0 .. N /\ k - 1 \in 0 .. N
    BY <1>1, ReachIs
  <2>2. r \in Reach(r)[k - 1]
    BY <2>1, ReachGrows DEF N
  <2> QED
    BY <1>3, <2>2
<1>9. b \in DOMAIN db /\ Linked(db, p.node, b)
  BY <1>2, <1>4, <1>5, <1>6, <1>8 DEF Shows
<1> DEFINE last == {x \in found : x.dist = k - 1}
           Prev(x) == First({y \in last : Linked(db, y.node, x)})
           new == [node |-> b, dist |-> k, hop |-> IF k = 1 THEN b ELSE Prev(b).hop]
<1>10. new \in Reached(db, found, k)
  BY <1>5, <1>7, <1>9 DEF Reached
<1> QED
  BY <1>10

\* After k rounds, all nodes at distance k or less have been found.
LEMMA FoundIs ==
  ASSUME NEW r \in Router, NEW db, Shows(r, db),
         NEW M \in Nat, M < Cardinality(Router), Cardinality(DOMAIN db) = M,
         NEW k \in 0 .. M
  PROVE  Sound(r, Found(r, db, k), k) /\ Everything(r, Found(r, db, k), k)
<1> DEFINE Bad == {i \in 0 .. M : ~(Sound(r, Found(r, db, i), i)
                                    /\ Everything(r, Found(r, db, i), i))}
<1> SUFFICES ASSUME Bad # {} PROVE FALSE
  OBVIOUS
<1>1. PICK i \in Bad : \A j \in Bad : i <= j
  <2>1. Bad \in SUBSET Nat
    OBVIOUS
  <2> HIDE DEF Bad
  <2> QED
    BY <2>1, LeastExists
<1>2. CASE i = 0
  <2>1. Found(r, db, 0) = {[node |-> r, dist |-> 0, hop |-> r]}
    BY PathsAre
  <2>2. \A p \in Found(r, db, 0) : p.node = r /\ p.dist = 0
    BY <2>1
  <2>3. Reach(r)[0] = {r}
    BY ReachIs
  <2>4. Sound(r, Found(r, db, 0), 0)
    BY <2>2, <2>3 DEF Sound
  <2>5. Everything(r, Found(r, db, 0), 0)
    BY <2>1, <2>3 DEF Everything
  <2> QED
    BY <1>1, <1>2, <2>4, <2>5
<1>3. CASE i # 0
  <2>1. i \in 1 .. M /\ i - 1 \in 0 .. M /\ i - 1 < i /\ i \in 1 .. Cardinality(Router)
    BY <1>1, <1>3, ReachIs
  <2>2. Sound(r, Found(r, db, i - 1), i - 1) /\ Everything(r, Found(r, db, i - 1), i - 1)
    BY <1>1, <2>1
  <2>3. Found(r, db, i) = Found(r, db, i - 1) \cup Reached(db, Found(r, db, i - 1), i)
    BY <2>1, PathsAre
  <2>4. Sound(r, Found(r, db, i), i)
    BY <2>1, <2>2, <2>3, RoundSound
  <2>5. Everything(r, Found(r, db, i), i)
    BY <2>1, <2>2, <2>3, RoundEverything
  <2> QED
    BY <1>1, <2>4, <2>5
<1> QED
  BY <1>2, <1>3

\* One router less
LEMMA OthersMany ==
  ASSUME NEW r \in Router
  PROVE  /\ Cardinality(Router) \in Nat \ {0}
         /\ Cardinality(Router \ {r}) = Cardinality(Router) - 1
<1>1. IsFiniteSet(Router)
  BY MospfAssumption DEF MospfAssumption
<1>2. Cardinality(Router \ {r}) = Cardinality(Router) - 1 /\ IsFiniteSet(Router \ {r})
  BY <1>1, FS_RemoveElement
<1>3. Cardinality(Router) \in Nat /\ Cardinality(Router \ {r}) \in Nat
  BY <1>1, <1>2, FS_CardinalityType
<1> QED
  BY <1>2, <1>3

\* The next hop of a router to another one is at the other end of a link, and
\* nearer to it.
LEMMA HopNearer ==
  ASSUME NEW r \in Router, NEW db, Shows(r, db),
         NEW a \in DOMAIN db, a \in Reach(r)[Cardinality(Router) - 1]
  PROVE  /\ NextHops(r, db)[a] \in Router \ {r}
         /\ Adjacent(r, NextHops(r, db)[a])
         /\ \E d \in 1 .. Cardinality(Router) - 1 :
              a \notin Reach(r)[d - 1] /\ a \in Reach(NextHops(r, db)[a])[d - 1]
<1> DEFINE M == Cardinality(Router) - 1
           found == Paths(r, db)
           Hop(h) == \E p \in found : p.node = a /\ p.hop = h
           h == NextHops(r, db)[a]
<1>1. /\ DOMAIN db = Router \ {r}
      /\ M \in Nat /\ M < Cardinality(Router) /\ Cardinality(DOMAIN db) = M
  BY OthersMany DEF Shows
<1>2. found = Found(r, db, M)
  BY <1>1, PathsAre
<1>3. h = IF \E x \in DOMAIN db : Hop(x) THEN CHOOSE x \in DOMAIN db : Hop(x) ELSE a
  BY DEF NextHops
<1> HIDE DEF found, h, M
<1>4. Sound(r, found, M) /\ Everything(r, found, M)
  <2>1. M \in 0 .. M
    BY <1>1
  <2> QED
    BY <1>1, <1>2, <2>1, FoundIs
<1>5. ASSUME NEW p \in found, p.node = a
      PROVE  /\ p.dist \in 1 .. M
             /\ p.hop \in Router \ {r} /\ Adjacent(r, p.hop)
             /\ a \notin Reach(r)[p.dist - 1] /\ a \in Reach(p.hop)[p.dist - 1]
  <2>1. /\ p.dist \in 0 .. M /\ (p.dist = 0 => p.node = r)
        /\ \A j \in 0 .. p.dist - 1 : p.node \notin Reach(r)[j]
        /\ p.dist > 0 => /\ p.hop \in Router \ {r} /\ Adjacent(r, p.hop)
                         /\ p.node \in Reach(p.hop)[p.dist - 1]
    BY <1>4 DEF Sound
  <2>2. a # r
    BY <1>1
  <2>3. p.dist \in 1 .. M /\ p.dist > 0 /\ p.dist - 1 \in 0 .. p.dist - 1
    BY <1>1, <1>5, <2>1, <2>2
  <2> QED
    BY <1>5, <2>1, <2>3
<1>6. \E x \in DOMAIN db : Hop(x)
  <2>1. PICK p \in found : p.node = a
    BY <1>4 DEF Everything, M
  <2>2. p.hop \in DOMAIN db
    BY <1>1, <1>5, <2>1
  <2> QED
    BY <2>1, <2>2
<1>7. h \in DOMAIN db /\ Hop(h)
  BY <1>3, <1>6
<1>8. PICK p \in found : p.node = a /\ p.hop = h
  BY <1>7
<1> QED
  BY <1>5, <1>8 DEF h, M

\* What a database with the part of every other router in the network says
LEMMA ShowsAll ==
  ASSUME up \subseteq Links, NEW r \in Router, NEW db, DOMAIN db = Router \ {r},
         \A s \in Router \ {r} : /\ db[s].adverts \subseteq Advert
                                 /\ TrueOf(s, db[s].adverts)
                                 /\ Complete(up, s, db[s].adverts)
  PROVE  /\ Shows(r, db)
         /\ \A n \in Net : Attached[n] # {} /\ r \notin Attached[n] =>
              n \in DOMAIN Owners(db) /\ Owners(db)[n] = Min(Attached[n])
<1> DEFINE States(x, y) == x \in DOMAIN db /\ \E p \in db[x].adverts : p[2] = y
           Tells(x, n) == \E p \in db[x].adverts : p[1] = n
<1>1. ASSUME NEW x \in Router \ {r}, NEW p \in db[x].adverts
      PROVE  /\ p = <<p[1], p[2]>> /\ p[1] \in Net \cup {NoNet} /\ p[2] \in Router \cup {NoRid}
             /\ p[1] \in IfNets(x) \cup {NoNet}
             /\ p[2] # NoRid => p[2] \in Attached[p[1]]
             /\ p[1] = NoNet => p[2] = NoRid
  BY DEF Advert, TrueOf, Complete
<1>2. ASSUME NEW x \in Router \ {r}, NEW n \in IfNets(x), NEW y \in Router \cup {NoRid}
      PROVE  <<n, y>> \in db[x].adverts <=>
               IF y = NoRid THEN ~\E z \in Router : Opposite(up, x, n, z) ELSE Opposite(up, x, n, y)
  BY DEF Complete
<1>3. ASSUME NEW x \in Router \ {r}, NEW y \in Router
      PROVE  States(x, y) <=> Adjacent(x, y)
  <2>0. y # NoRid
    BY NetFacts
  <2>1. ASSUME NEW p \in db[x].adverts, p[2] = y
        PROVE  Adjacent(x, y)
    <3>1. p = <<p[1], y>> /\ p[1] \in IfNets(x)
      BY <1>1, <2>0, <2>1
    <3>2. Opposite(up, x, p[1], y)
      BY <1>2, <2>0, <3>1
    <3> QED
      BY <3>2 DEF Adjacent, Opposite
  <2>2. ASSUME NEW l \in up, Opposite(up, x, l, y)
        PROVE  States(x, y)
    <3>1. l \in IfNets(x)
      BY <2>2 DEF Opposite, IfNets, Links
    <3>2. <<l, y>> \in db[x].adverts
      BY <1>2, <2>0, <2>2, <3>1
    <3> QED
      BY <3>2
  <2> QED
    BY <2>1, <2>2 DEF Adjacent
<1>4. \A x, y : Adjacent(x, y) => Adjacent(y, x) /\ x # y
  BY DEF Adjacent, Opposite
<1>5. ASSUME NEW a \in Router, NEW b \in Router
      PROVE  Linked(db, a, b) <=> Adjacent(a, b)
  <2>1. Linked(db, a, b) <=> States(a, b) \/ States(b, a)
    BY DEF Linked
  <2>2. \A x \in Router : x = r => \A y : ~States(x, y)
    OBVIOUS
  <2> HIDE DEF States
  <2> QED
    BY <1>3, <1>4, <2>1, <2>2
<1>6. ASSUME NEW x \in Router \ {r}, NEW n \in Net
      PROVE  Tells(x, n) <=> x \in Attached[n]
  <2>1. ASSUME NEW p \in db[x].adverts, p[1] = n
        PROVE  x \in Attached[n]
    BY <1>1, <2>1, NetFacts DEF IfNets
  <2>2. ASSUME x \in Attached[n]
        PROVE  Tells(x, n)
    <3>1. n \in IfNets(x)
      BY <2>2 DEF IfNets
    <3>2. CASE \E z \in Router : Opposite(up, x, n, z)
      <4>1. PICK z \in Router : Opposite(up, x, n, z)
        BY <3>2
      <4>2. z # NoRid
        BY NetFacts
      <4>3. <<n, z>> \in db[x].adverts
        BY <1>2, <3>1, <4>1, <4>2
      <4> QED
        BY <4>3
    <3>3. CASE ~\E z \in Router : Opposite(up, x, n, z)
      <4>1. <<n, NoRid>> \in db[x].adverts
        BY <1>2, <3>1, <3>3
      <4> QED
        BY <4>1
    <3> QED
      BY <3>2, <3>3
  <2> QED
    BY <2>1, <2>2
<1>7. /\ DOMAIN Owners(db) = {n \in Net : \E a \in DOMAIN db : Tells(a, n)}
      /\ \A n \in DOMAIN Owners(db) : Owners(db)[n] = Min({a \in DOMAIN db : Tells(a, n)})
  BY DEF Owners
<1> HIDE DEF Tells
<1>8. ASSUME NEW n \in Net, Attached[n] # {}, r \notin Attached[n]
      PROVE  n \in DOMAIN Owners(db) /\ Owners(db)[n] = Min(Attached[n])
  <2>1. Attached[n] \subseteq Router \ {r}
    BY <1>8, NetFacts
  <2>2. {a \in DOMAIN db : Tells(a, n)} = Attached[n]
    BY <1>6, <2>1
  <2>3. n \in DOMAIN Owners(db)
    BY <1>7, <1>8, <2>2
  <2> QED
    BY <1>7, <2>2, <2>3
<1> QED
  BY <1>5, <1>8 DEF Shows

-----------------------------------------------------------------------------
(* A packet on its way.                                                    *)

\* The equation of `from' in Arrives, and the function that solves it
Leg(n, f, k) == IF k = 0 THEN Attached[n]
                ELSE {s \in Router :
                        \/ s \in Attached[n]
                        \/ /\ n \in DOMAIN routerTable[s]
                           /\ routerTable[s][n].net \in up
                           /\ routerTable[s][n].hop \in f[k - 1]}

Legs(n, f) == [k \in 0 .. Cardinality(Router) |-> Leg(n, f, k)]

From(n) == CHOOSE f : f = Legs(n, f)

LEMMA ArrivesIs ==
  ASSUME NEW r, NEW n
  PROVE  Arrives(r, n) <=> r \in From(n)[Cardinality(Router)]
  BY DEF Arrives, From, Legs, Leg

LEMMA FromIs ==
  ASSUME NEW n \in Net
  PROVE  \A k \in 0 .. Cardinality(Router) : From(n)[k] = Leg(n, From(n), k)
<1> DEFINE N == Cardinality(Router)
           T == SUBSET Router
           onward(x) == {s \in Router :
                           \/ s \in Attached[n]
                           \/ /\ n \in DOMAIN routerTable[s]
                              /\ routerTable[s][n].net \in up
                              /\ routerTable[s][n].hop \in x}
           step == [p \in (1 .. N) \X T |-> onward(p[2])]
<1>1. N \in Nat
  BY MospfAssumption, FS_CardinalityType DEF MospfAssumption
<1> HIDE DEF N
<1>2. Attached[n] \in T /\ step \in [(1 .. N) \X T -> T]
  BY NetFacts
<1>3. \A k \in 1 .. N : \A x \in T : step[<<k, x>>] = onward(x)
  OBVIOUS
<1> HIDE DEF step
<1>4. PICK f \in [0 .. N -> T] :
        f[0] = Attached[n] /\ \A k \in 1 .. N : f[k] = step[<<k, f[k - 1]>>]
  <2> HIDE DEF T
  <2>1. \E f \in [0 .. N -> T] : Steps(N, Attached[n], step, f)
    BY <1>1, <1>2, Stepwise
  <2> QED
    BY <2>1 DEF Steps
<1>5. ASSUME NEW k \in 1 .. N
      PROVE  f[k] = onward(f[k - 1])
  <2>1. k - 1 \in 0 .. N
    BY <1>1
  <2>2. f[k - 1] \in T
    BY <1>4, <2>1
  <2> HIDE DEF T
  <2>3. step[<<k, f[k - 1]>>] = onward(f[k - 1])
    BY <1>3, <2>2
  <2> QED
    BY <1>4, <2>3
<1>6. f = Legs(n, f)
  <2>1. ASSUME NEW k \in 0 .. N
        PROVE  f[k] = Leg(n, f, k)
    BY <1>1, <1>4, <1>5 DEF Leg
  <2> QED
    BY <2>1 DEF Legs, N
<1>7. From(n) = Legs(n, From(n))
  BY <1>6 DEF From
<1> QED
  BY <1>7 DEF Legs

-----------------------------------------------------------------------------
(* The routes of a router are those of its database.                       *)

\* The routes of r are the ones of a database with the adverts of nodes.
Fits(r, db, nodes, routes) ==
  /\ DOMAIN db = DOMAIN nodes
  /\ \A s \in DOMAIN db : db[s].adverts = nodes[s].adverts
  /\ DOMAIN routes = DOMAIN Owners(db)
  /\ \A n \in DOMAIN routes : routes[n].hop = NextHops(r, db)[Owners(db)[n]]

Fit == \A r \in Router : \E db : Fits(r, db, nodeInfoMap[r], routerTable[r])

\* A next hop at the other end of a link that works is reached over this link.
Gates(r, routes) ==
  \A n \in DOMAIN routes, l \in up :
    Opposite(up, r, l, routes[n].hop) => routes[n].net = l

\* A router that has an LSU of a router that knew its neighbours computed its
\* routes when it knew its own.
Gated(u) ==
  \A r, s \in Router :
    r # s /\ Has(r, s) /\ u >= slept[s] + 2 => Gates(r, routerTable[r])

RoutesInv == Fit /\ \E u, d \in Nat : AgreeAt(u, d) /\ Gated(u)

-----------------------------------------------------------------------------
(* The routes lead to where they should.                                   *)

\* A router that is not on a network itself sends what is for it to a router
\* that is nearer to the first one there.
LEMMA OneHop ==
  ASSUME IInv, Floods, Settled, Connected(up), LSUINT < AfterUp,
         NEIGHBOUR_TIMEOUT <= AfterDown, Fit,
         NEW u \in Nat, NEW d \in Nat, AgreeAt(u, d), Gated(u),
         NEW s \in Router, NEW n \in Net, s \notin Attached[n],
         NEW o \in Attached[n], o = Min(Attached[n])
  PROVE  /\ n \in DOMAIN routerTable[s]
         /\ routerTable[s][n].hop \in Router
         /\ routerTable[s][n].net \in up
         /\ \E k \in 1 .. Cardinality(Router) - 1 :
              o \notin Reach(s)[k - 1] /\ o \in Reach(routerTable[s][n].hop)[k - 1]
<1>1. /\ up \subseteq Links /\ o \in Router /\ o # s /\ Attached[n] # {}
  BY NetFacts DEF IInv, GoodThreads
<1>2. \A x \in Router : x # s =>
        /\ x \in DOMAIN nodeInfoMap[s] /\ Complete(up, x, nodeInfoMap[s][x].adverts)
        /\ Has(s, x) /\ u >= slept[x] + 2
  BY AllKnow
<1>3. PICK db : Fits(s, db, nodeInfoMap[s], routerTable[s])
  BY DEF Fit
<1>4. /\ DOMAIN nodeInfoMap[s] \subseteq Router \ {s}
      /\ \A x \in DOMAIN nodeInfoMap[s] :
           nodeInfoMap[s][x].adverts \subseteq Advert /\ TrueOf(x, nodeInfoMap[s][x].adverts)
  BY DEF IInv, GoodTables, GoodNodes, IsTable, Node
<1>5. /\ DOMAIN db = Router \ {s}
      /\ \A x \in Router \ {s} : /\ db[x].adverts \subseteq Advert
                                 /\ TrueOf(x, db[x].adverts)
                                 /\ Complete(up, x, db[x].adverts)
  BY <1>2, <1>3, <1>4 DEF Fits
<1>6. Shows(s, db) /\ n \in DOMAIN Owners(db) /\ Owners(db)[n] = o
  BY <1>1, <1>5, ShowsAll
<1> DEFINE h == NextHops(s, db)[o]
<1>7. n \in DOMAIN routerTable[s] /\ routerTable[s][n].hop = h
  BY <1>3, <1>6 DEF Fits
<1>8. o \in DOMAIN db /\ o \in Reach(s)[Cardinality(Router) - 1]
  BY <1>1, <1>5, AllJoined
<1>9. /\ h \in Router \ {s} /\ Adjacent(s, h)
      /\ \E k \in 1 .. Cardinality(Router) - 1 :
           o \notin Reach(s)[k - 1] /\ o \in Reach(h)[k - 1]
  BY <1>1, <1>6, <1>8, HopNearer
<1> HIDE DEF h
<1>10. Gates(s, routerTable[s])
  BY <1>1, <1>2 DEF Gated
<1>11. routerTable[s][n].net \in up
  BY <1>7, <1>9, <1>10 DEF Gates, Adjacent
<1> QED
  BY <1>1, <1>7, <1>9, <1>11

\* From every router to every network with an interface.
LEMMA AllArrive ==
  ASSUME IInv, Floods, Settled, Connected(up), LSUINT < AfterUp,
         NEIGHBOUR_TIMEOUT <= AfterDown, Fit,
         NEW u \in Nat, NEW d \in Nat, AgreeAt(u, d), Gated(u),
         NEW r \in Router, NEW n \in Net, Attached[n] # {}
  PROVE  Arrives(r, n)
<1> DEFINE N == Cardinality(Router)
           o == Min(Attached[n])
           Bad == {k \in 0 .. N : \E s \in Router, j \in k .. N :
                                    o \in Reach(s)[k] /\ s \notin From(n)[j]}
<1>1. N \in Nat /\ \A j \in 0 .. N : From(n)[j] = Leg(n, From(n), j)
  BY ReachIs, FromIs
<1>2. o \in Attached[n] /\ o \in Router
  <2>1. Attached[n] \in SUBSET Nat
    BY NetFacts
  <2>2. o \in Attached[n]
    BY <2>1, MinExists
  <2> QED
    BY <2>2, NetFacts
<1>3. ASSUME NEW s \in Router, s \notin Attached[n]
      PROVE  /\ n \in DOMAIN routerTable[s]
             /\ routerTable[s][n].hop \in Router
             /\ routerTable[s][n].net \in up
             /\ \E i \in 1 .. N - 1 :
                  o \notin Reach(s)[i - 1] /\ o \in Reach(routerTable[s][n].hop)[i - 1]
  BY <1>2, <1>3, OneHop
<1> HIDE DEF N, o
<1>4. Bad = {}
  <2> SUFFICES ASSUME Bad # {} PROVE FALSE
    OBVIOUS
  <2>1. PICK k \in Bad : \A i \in Bad : k <= i
    <3>1. Bad \in SUBSET Nat
      BY <1>1
    <3> HIDE DEF Bad
    <3> QED
      BY <3>1, LeastExists
  <2>2. PICK s \in Router : \E j \in k .. N : o \in Reach(s)[k] /\ s \notin From(n)[j]
    BY <2>1
  <2>3. PICK j \in k .. N : o \in Reach(s)[k] /\ s \notin From(n)[j]
    BY <2>2
  <2>4. k \in 0 .. N /\ j \in 0 .. N
    BY <1>1, <2>1, <2>3
  <2>5. s \notin Attached[n]
    BY <1>1, <2>3, <2>4 DEF Leg
  <2>6. k # 0
    BY <1>2, <2>3, <2>5, ReachIs
  <2>7. /\ k - 1 \in 0 .. N /\ j - 1 \in k - 1 .. N /\ k - 1 < k /\ j # 0
    BY <1>1, <2>3, <2>4, <2>6
  <2> DEFINE h == routerTable[s][n].hop
  <2>8. PICK i \in 1 .. N - 1 : o \notin Reach(s)[i - 1] /\ o \in Reach(h)[i - 1]
    BY <1>3, <2>5
  <2>9. /\ n \in DOMAIN routerTable[s] /\ h \in Router /\ routerTable[s][n].net \in up
    BY <1>3, <2>5
  <2> HIDE DEF h
  <2>10. i - 1 < k
    <3> SUFFICES ASSUME ~(i - 1 < k) PROVE FALSE
      OBVIOUS
    <3>1. i - 1 \in k .. N
      BY <1>1, <2>4
    <3>2. Reach(s)[k] \subseteq Reach(s)[i - 1]
      BY <2>4, <3>1, ReachGrows DEF N
    <3> QED
      BY <2>3, <2>8, <3>2
  <2>11. o \in Reach(h)[k - 1]
    <3>1. i - 1 \in 0 .. N /\ k - 1 \in i - 1 .. N
      BY <1>1, <2>4, <2>7, <2>10
    <3>2. Reach(h)[i - 1] \subseteq Reach(h)[k - 1]
      BY <2>9, <3>1, ReachGrows DEF N
    <3> QED
      BY <2>8, <3>2
  <2>12. h \in From(n)[j - 1]
    BY <2>1, <2>7, <2>9, <2>11
  <2>13. s \in From(n)[j]
    BY <1>1, <2>4, <2>7, <2>9, <2>12 DEF Leg, h
  <2> QED
    BY <2>3, <2>13
<1>5. o \in Reach(r)[N]
  <2>1. CASE r = o
    <3>1. 0 \in 0 .. N /\ N \in 0 .. N /\ r \in Reach(r)[0]
      BY <1>1, ReachIs
    <3>2. Reach(r)[0] \subseteq Reach(r)[N]
      BY <3>1, ReachGrows DEF N
    <3> QED
      BY <2>1, <3>1, <3>2
  <2>2. CASE r # o
    BY <1>2, <2>2, AllJoined DEF N
  <2> QED
    BY <2>1, <2>2
<1>6. r \in From(n)[N]
  <2>1. N \in 0 .. N /\ N \in N .. N
    BY <1>1
  <2> QED
    BY <1>4, <1>5, <2>1
<1> QED
  BY <1>6, ArrivesIs DEF N

\* updateRouterTable leaves the routes of the database it is given.
LEMMA UpdateRoutes ==
  ASSUME GoodTables, NEW r \in Router, NEW db, GoodNodes(r, db),
         updateRouterTable(r, neighbourInfoMap[r], db)
  PROVE  /\ Fits(r, db, nodeInfoMap'[r], routerTable'[r])
         /\ \A n \in DOMAIN routerTable'[r] :
              routerTable'[r][n].hop \in DOMAIN neighbourInfoMap[r] =>
                routerTable'[r][n].net = neighbourInfoMap[r][routerTable'[r][n].hop].net
         /\ \A s \in Router : s # r => /\ routerTable'[s] = routerTable[s]
                                       /\ nodeInfoMap'[s] = nodeInfoMap[s]
<1> DEFINE next == NextHops(r, db)
           owner == Owners(db)
           known == WithPhantoms(neighbourInfoMap[r], {next[a] : a \in DOMAIN db})
           routes == [n \in DOMAIN owner |-> [hop |-> next[owner[n]],
                                               net |-> known[next[owner[n]]].net]]
<1>1. /\ nodeInfoMap' = [nodeInfoMap EXCEPT ![r] = db]
      /\ routerTable' = [routerTable EXCEPT ![r] = routes]
  BY DEF updateRouterTable
<1>2. \A x \in DOMAIN neighbourInfoMap[r] : known[x] = neighbourInfoMap[r][x]
  BY DEF WithPhantoms
<1>3. /\ DOMAIN routes = DOMAIN owner
      /\ \A n \in DOMAIN owner : routes[n].hop = next[owner[n]]
                                 /\ routes[n].net = known[next[owner[n]]].net
  OBVIOUS
<1> HIDE DEF known, routes
<1>4. /\ nodeInfoMap'[r] = db /\ routerTable'[r] = routes
      /\ \A s \in Router : s # r => /\ routerTable'[s] = routerTable[s]
                                    /\ nodeInfoMap'[s] = nodeInfoMap[s]
  BY <1>1 DEF GoodTables
<1>5. Fits(r, db, db, routes)
  BY <1>3 DEF Fits
<1> HIDE DEF next, owner
<1> QED
  BY <1>2, <1>3, <1>4, <1>5

LEMMA InitFit == Init => Fit
<1> SUFFICES ASSUME Init, NEW r \in Router
             PROVE  Fits(r, Empty, nodeInfoMap[r], routerTable[r])
  BY DEF Fit
<1>1. nodeInfoMap[r] = Empty /\ routerTable[r] = Empty /\ DOMAIN Empty = {}
  BY DEF Init, Empty
<1>2. DOMAIN Owners(Empty) = {}
  BY <1>1 DEF Owners
<1> QED
  BY <1>1, <1>2 DEF Fits

\* Before anybody knows anything there is nothing to say about routes.
LEMMA NoneGated ==
  ASSUME \A s \in Router : slept[s] \in Nat
  PROVE  Gated(0)
BY DEF Gated

LEMMA InitRoutes == Init => RoutesInv
<1> SUFFICES ASSUME Init PROVE \E u, d \in Nat : AgreeAt(u, d) /\ Gated(u)
  BY InitFit DEF RoutesInv
<1>1. PICK u, d \in Nat : AgreeAt(u, d)
  BY InitAgree DEF AgreeInv
<1>2. \A r, s \in Router : ~Has(r, s)
  BY DEF Init, Has, Empty
<1>3. Gated(u)
  BY <1>2 DEF Gated
<1> QED
  BY <1>1, <1>3

\* The adverts and the routes stay as they are.
LEMMA SameFit ==
  ASSUME Fit, routerTable' = routerTable,
         \A r \in Router :
           /\ DOMAIN nodeInfoMap'[r] = DOMAIN nodeInfoMap[r]
           /\ \A s \in DOMAIN nodeInfoMap[r] :
                nodeInfoMap'[r][s].adverts = nodeInfoMap[r][s].adverts
  PROVE  Fit'
<1>1. ASSUME NEW r \in Router
      PROVE  \E db : Fits(r, db, nodeInfoMap'[r], routerTable'[r])
  <2>1. PICK db : Fits(r, db, nodeInfoMap[r], routerTable[r])
    BY DEF Fit
  <2>2. Fits(r, db, nodeInfoMap'[r], routerTable'[r])
    BY <2>1 DEF Fits
  <2> QED
    BY <2>2
<1> QED
  BY <1>1 DEF Fit

\* The routes stay as they are, no link comes back, and no LSU becomes the
\* latest or is one of a router that knew its neighbours.
LEMMA SameGated ==
  ASSUME NEW u, NEW v, Gated(u), routerTable' = routerTable, up' \subseteq up,
         \A r, s \in Router : r # s /\ Has(r, s)' /\ v >= slept'[s] + 2 =>
                                Has(r, s) /\ u >= slept[s] + 2
  PROVE  Gated(v)'
<1>1. ASSUME NEW r \in Router, Gates(r, routerTable[r])
      PROVE  Gates(r, routerTable[r])'
  BY <1>1 DEF Gates, Opposite
<1> QED
  BY <1>1 DEF Gated

LEMMA StillRoutes ==
  ASSUME NEW u, Fit, Gated(u),
         UNCHANGED <<nodeInfoMap, routerTable, LSUSequence, slept>>, up' \subseteq up
  PROVE  Fit' /\ Gated(u)'
<1>1. Fit'
  BY SameFit
<1>2. \A r, s \in Router : Has(r, s)' => Has(r, s)
  BY DEF Has
<1> QED
  BY <1>1, <1>2, SameGated

\* Nobody has the LSU that has just been sent.
LEMMA SendLSURoutes ==
  ASSUME IInv, Numbered, NoWrap, NEW u, Fit, Gated(u), NEW a \in Router, SendLSU(a)
  PROVE  Fit' /\ Gated(u)'
<1>1. /\ UNCHANGED <<nodeInfoMap, routerTable, up>>
      /\ LSUSequence' = [LSUSequence EXCEPT ![a] = NextSequence(@)]
      /\ slept' = [slept EXCEPT ![a] = 0]
  BY DEF SendLSU, tables, world
<1>2. LSUSequence \in [Router -> Seqno] /\ slept \in [Router -> Nat]
  BY DEF IInv, GoodThreads
<1>3. LSUSequence'[a] = LSUSequence[a] + 1
  <2>1. LSUSequence[a] \in Nat /\ LSUSequence[a] + 1 < UINT16
    BY <1>2, MospfAssumption DEF Seqno, NoWrap, MospfAssumption
  <2>2. (LSUSequence[a] + 1) % UINT16 = LSUSequence[a] + 1
    BY <2>1, MospfAssumption DEF MospfAssumption
  <2> QED
    BY <1>1, <1>2, <2>2 DEF NextSequence
<1>4. ASSUME NEW r \in Router, NEW s \in Router, Has(r, s)'
      PROVE  Has(r, s) /\ slept'[s] = slept[s]
  <2>1. CASE s = a
    <3>1. s \in DOMAIN nodeInfoMap[r] /\ nodeInfoMap[r][s].seq = LSUSequence[s]
      BY <1>1, <1>2, <1>3, <1>4, <2>1 DEF Has, Seqno
    <3>2. nodeInfoMap[r][s].seq < LSUSequence[s] /\ LSUSequence[s] \in Int
      BY <1>2, <3>1 DEF Numbered, Seqno
    <3> QED
      BY <3>1, <3>2
  <2>2. CASE s # a
    BY <1>1, <1>2, <1>4, <2>2 DEF Has
  <2> QED
    BY <2>1, <2>2
<1>5. Fit'
  BY <1>1, SameFit
<1> QED
  BY <1>1, <1>4, <1>5, SameGated

LEMMA TickRoutes ==
  ASSUME IInv, NEW u \in Nat, Fit, Gated(u), Tick
  PROVE  Fit' /\ Gated(u + 1)'
<1>1. /\ \A r \in Router : /\ nodeInfoMap'[r] = Older(nodeInfoMap[r])
                           /\ slept'[r] = slept[r] + 1
      /\ LSUSequence' = LSUSequence /\ routerTable' = routerTable /\ up' = up
  BY DEF Tick
<1>2. ASSUME NEW r \in Router, NEW s \in DOMAIN nodeInfoMap[r]
      PROVE  /\ nodeInfoMap'[r][s].seq = nodeInfoMap[r][s].seq
             /\ nodeInfoMap'[r][s].adverts = nodeInfoMap[r][s].adverts
  <2>1. nodeInfoMap'[r][s] = [nodeInfoMap[r][s] EXCEPT !.alive = @ + 1]
    BY <1>1 DEF Older
  <2>2. nodeInfoMap[r][s] \in Node
    BY DEF IInv, GoodTables, GoodNodes, IsTable
  <2> QED
    BY <2>1, <2>2 DEF Node
<1>3. \A r \in Router : DOMAIN nodeInfoMap'[r] = DOMAIN nodeInfoMap[r]
  BY <1>1 DEF Older
<1>4. ASSUME NEW r \in Router, NEW s \in Router, Has(r, s)', u + 1 >= slept'[s] + 2
      PROVE  Has(r, s) /\ u >= slept[s] + 2
  <2>1. slept[s] \in Nat /\ slept'[s] = slept[s] + 1
    BY <1>1 DEF IInv, GoodThreads
  <2>2. u >= slept[s] + 2
    BY <1>4, <2>1
  <2> QED
    BY <1>1, <1>2, <1>3, <1>4, <2>2 DEF Has
<1>5. Fit'
  BY <1>1, <1>2, <1>3, SameFit
<1>6. Gated(u + 1)'
  <2>1. PICK v : v = u + 1
    OBVIOUS
  <2>2. Gated(v)'
    BY <1>1, <1>4, <2>1, SameGated
  <2> QED
    BY <2>1, <2>2
<1> QED
  BY <1>5, <1>6

\* New routes fit, and two ticks after the last link came back they lead over
\* links.
LEMMA HandleLSURoutes ==
  ASSUME IInv, NEW u \in Nat, Greeted(u), Fit, Gated(u),
         NEW e \in End, wire[e] # <<>>, Head(wire[e]).type # "hello",
         handleLSU(e, Head(wire[e])), UNCHANGED <<helloSent, world>>
  PROVE  Fit' /\ Gated(u)'
<1>0. PICK m : m = Head(wire[e])
  OBVIOUS
<1> DEFINE a == e[2]
           db == Stored(nodeInfoMap[a], m)
<1>1. m \in LSU /\ m.rid \in Router /\ TrueOf(m.rid, m.adverts) /\ a \in Router
  BY <1>0, TakeGood, NetFacts DEF IInv, GoodPacket, Hello, LSU
<1>2. UNCHANGED <<LSUSequence, slept, up>>
  BY DEF handleLSU, lsuThread, world
<1>3. \/ UNCHANGED tables
      \/ ~Own(a, m) /\ updateRouterTable(a, neighbourInfoMap[a], db)
  BY <1>0 DEF handleLSU
<1>4. CASE UNCHANGED tables
  BY <1>2, <1>4, StillRoutes DEF tables
<1>5. CASE ~Own(a, m) /\ updateRouterTable(a, neighbourInfoMap[a], db)
  <2>1. GoodNodes(a, db)
    BY <1>1, <1>5, StoredGood DEF Own, IInv, GoodTables
  <2> HIDE DEF a, db
  <2>2. /\ Fits(a, db, nodeInfoMap'[a], routerTable'[a])
        /\ \A n \in DOMAIN routerTable'[a] :
             routerTable'[a][n].hop \in DOMAIN neighbourInfoMap[a] =>
               routerTable'[a][n].net = neighbourInfoMap[a][routerTable'[a][n].hop].net
        /\ \A s \in Router : s # a => /\ routerTable'[s] = routerTable[s]
                                      /\ nodeInfoMap'[s] = nodeInfoMap[s]
    BY <1>1, <1>5, <2>1, UpdateRoutes DEF IInv
  <2>3. ASSUME NEW r \in Router
        PROVE  \E x : Fits(r, x, nodeInfoMap'[r], routerTable'[r])
    <3>1. CASE r = a
      BY <2>2, <3>1
    <3>2. CASE r # a
      <4>1. PICK x : Fits(r, x, nodeInfoMap[r], routerTable[r])
        BY DEF Fit
      <4> QED
        BY <2>2, <3>2, <4>1
    <3> QED
      BY <3>1, <3>2
  <2>4. ASSUME NEW r \in Router, NEW s \in Router, r # s, Has(r, s)', u >= slept'[s] + 2
        PROVE  Gates(r, routerTable[r])'
    <3>1. CASE r = a
      <4>1. u >= 2
        <5>1. slept[s] \in Nat /\ slept'[s] = slept[s]
          BY <1>2 DEF IInv, GoodThreads
        <5> QED
          BY <2>4, <5>1
      <4>2. ASSUME NEW n \in DOMAIN routerTable'[r], NEW l \in up,
                   Opposite(up, r, l, routerTable'[r][n].hop)
            PROVE  routerTable'[r][n].net = l
        <5> DEFINE h == routerTable'[r][n].hop
        <5>1. r \in Attached[l] /\ h \in Attached[l] /\ r # h
          BY <4>2 DEF Opposite
        <5>2. Heard(r, l, h, 1)
          BY <4>1, <5>1 DEF Greeted
        <5>3. h \in DOMAIN neighbourInfoMap[a] /\ neighbourInfoMap[a][h].net = l
          BY <3>1, <5>2 DEF Heard
        <5> QED
          BY <2>2, <3>1, <5>3
      <4> QED
        BY <1>2, <4>2 DEF Gates
    <3>2. CASE r # a
      <4>1. routerTable'[r] = routerTable[r] /\ nodeInfoMap'[r] = nodeInfoMap[r]
        BY <2>2, <3>2
      <4>2. Has(r, s) /\ u >= slept[s] + 2
        BY <1>2, <2>4, <4>1 DEF Has
      <4>3. Gates(r, routerTable[r])
        BY <2>4, <4>2 DEF Gated
      <4> QED
        BY <1>2, <4>1, <4>3 DEF Gates
    <3> QED
      BY <3>1, <3>2
  <2> QED
    BY <2>3, <2>4 DEF Fit, Gated
<1> HIDE DEF a, db
<1> QED
  BY <1>3, <1>4, <1>5

\* What a step leaves of the routes
LEMMA StepRoutes ==
  ASSUME IInv, Numbered, Young, NoWrap, [Next]_vars, [NoRestart]_vars,
         LSUINT < DATABASE_TIMEOUT,
         NEW u \in Nat, Greeted(u), Fit, Gated(u)
  PROVE  /\ Fit' /\ (Tick => Gated(u + 1)')
         /\ ~Tick /\ (\A n \in Links : ~LinkUp(n)) => Gated(u)'
<1>1. ASSUME NEW r \in Router, SendHello(r) \/ StopSleeping(r) \/ NeighbourTimeout(r)
      PROVE  Fit' /\ Gated(u)'
  <2>1. UNCHANGED <<nodeInfoMap, routerTable, LSUSequence, slept, up>>
    BY <1>1 DEF SendHello, StopSleeping, NeighbourTimeout, tables, lsuThread, world
  <2> QED
    BY <2>1, StillRoutes
<1>2. ASSUME NEW r \in Router, SendLSU(r)
      PROVE  Fit' /\ Gated(u)'
  BY <1>2, SendLSURoutes
<1>3. \A r \in Router : ~NodeTimeout(r)
  BY NoNodeTimeout DEF NodeTimeout
<1>4. ASSUME NEW e \in End, Receive(e)
      PROVE  Fit' /\ Gated(u)'
  <2>1. wire[e] # <<>> /\ UNCHANGED <<helloSent, world>>
    BY <1>4 DEF Receive
  <2>2. CASE Head(wire[e]).type = "hello"
    <3>1. UNCHANGED <<nodeInfoMap, routerTable, LSUSequence, slept, up>>
      BY <1>4, <2>1, <2>2 DEF Receive, handleHello, world
    <3> QED
      BY <3>1, StillRoutes
  <2>3. CASE Head(wire[e]).type # "hello"
    <3>1. handleLSU(e, Head(wire[e]))
      BY <1>4, <2>3 DEF Receive
    <3> QED
      BY <2>1, <2>3, <3>1, HandleLSURoutes
  <2> QED
    BY <2>2, <2>3
<1>5. ASSUME Tick
      PROVE  Fit' /\ Gated(u + 1)'
  BY <1>5, TickRoutes
<1>6. ASSUME NEW n \in Links, LinkDown(n)
      PROVE  Fit' /\ Gated(u)'
  <2>1. UNCHANGED <<nodeInfoMap, routerTable, LSUSequence, slept>> /\ up' \subseteq up
    BY <1>6 DEF LinkDown, Change, tables
  <2> QED
    BY <2>1, StillRoutes
<1>7. ASSUME NEW n \in Links, LinkUp(n)
      PROVE  Fit'
  <2>1. UNCHANGED <<nodeInfoMap, routerTable>>
    BY <1>7 DEF LinkUp, Change, tables
  <2> QED
    BY <2>1, SameFit
<1>8. ASSUME UNCHANGED vars
      PROVE  Fit' /\ Gated(u)'
  <2>1. UNCHANGED <<nodeInfoMap, routerTable, LSUSequence, slept, up>>
    BY <1>8 DEF vars, tables, lsuThread, world
  <2> QED
    BY <2>1, StillRoutes
<1> QED
  BY <1>1, <1>2, <1>3, <1>4, <1>5, <1>6, <1>7, <1>8 DEF Next, NoRestart

LEMMA NextRoutes ==
  ASSUME IInv, IInv', FloodInv, RoutesInv, NoWrap, [Next]_vars, [NoRestart]_vars,
         Connected(up)',
         OneNet, LSUINT < DATABASE_TIMEOUT, NEIGHBOUR_TIMEOUT > 1, LSUINT < AfterUp
  PROVE  RoutesInv'
<1> SUFFICES Fit' /\ (\E u, d \in Nat : AgreeAt(u, d) /\ Gated(u))'
  BY DEF RoutesInv
<1>2. Numbered /\ Young /\ Fit
  BY DEF FloodInv, RoutesInv
<1>3. PICK u, d \in Nat : AgreeAt(u, d) /\ Gated(u)
  BY DEF RoutesInv
<1>4. u + 1 \in Nat /\ d + 1 \in Nat /\ 0 \in Nat
  BY <1>3
<1>5. \/ Tick /\ AgreeAt(u + 1, d + 1)'
      \/ (\E n \in Links : LinkUp(n)) /\ AgreeAt(0, d)'
      \/ /\ ~Tick /\ \A n \in Links : ~LinkUp(n)
         /\ AgreeAt(u, d)' \/ AgreeAt(u, 0)'
  BY <1>2, <1>3, StepAgree
<1>6. Greeted(u)
  BY <1>3 DEF AgreeAt
<1>7. /\ Fit' /\ (Tick => Gated(u + 1)')
      /\ ~Tick /\ (\A n \in Links : ~LinkUp(n)) => Gated(u)'
  BY <1>2, <1>3, <1>6, StepRoutes
<1>8. Gated(0)'
  <2>1. \A s \in Router : slept'[s] \in Nat
    BY DEF IInv, GoodThreads
  <2> QED
    BY <2>1 DEF Gated
<1>9. CASE Tick
  <2>1. (AgreeAt(u + 1, d + 1) /\ Gated(u + 1))' \/ (AgreeAt(0, d) /\ Gated(0))'
    BY <1>5, <1>7, <1>8, <1>9
  <2> QED
    BY <1>3, <1>4, <1>7, <2>1
<1>10. CASE ~Tick
  <2>1. \/ (AgreeAt(0, d) /\ Gated(0))' \/ (AgreeAt(u, d) /\ Gated(u))'
        \/ (AgreeAt(u, 0) /\ Gated(u))'
    BY <1>5, <1>7, <1>8, <1>10
  <2> QED
    BY <1>3, <1>4, <1>7, <2>1
<1> QED
  BY <1>9, <1>10

\* When the network has been left alone long enough after its start and after
\* the last link that failed or came back, a packet that is on any router gets
\* to every network there is, at the end of every tick: no loop and no black
\* hole in what updateRouterTable makes of the database, under the conditions
\* of MospfAgree.
THEOREM MospfDelivers ==
  ASSUME OneNet, LSUINT < DATABASE_TIMEOUT, NEIGHBOUR_TIMEOUT > 1,
         LSUINT < AfterUp, NEIGHBOUR_TIMEOUT <= AfterDown
  PROVE  Spec /\ [][NoRestart]_vars /\ []NoWrap /\ []Connected(up) => []RoutesDeliver
<1>1. IInv /\ FloodInv /\ RoutesInv /\ Connected(up) => RoutesDeliver
  <2> SUFFICES ASSUME IInv, FloodInv, RoutesInv, Connected(up), Settled,
                      NEW r \in Router, NEW n \in Net, NEW s \in Attached[n]
               PROVE  Arrives(r, n)
    BY DEF RoutesDeliver
  <2>1. PICK u, d \in Nat : AgreeAt(u, d) /\ Gated(u)
    BY DEF RoutesInv
  <2>2. Floods /\ Fit /\ Attached[n] # {}
    BY DEF FloodInv, RoutesInv
  <2> QED
    BY <2>1, <2>2, AllArrive
<1>2. IInv /\ FloodInv /\ NoWrap /\ Connected(up) /\ [Next]_vars /\ [NoRestart]_vars
      => FloodInv'
  BY NextFlood
<1>3. IInv /\ IInv' /\ FloodInv /\ RoutesInv /\ NoWrap /\ Connected(up)' /\ [Next]_vars
      /\ [NoRestart]_vars => RoutesInv'
  BY NextRoutes
<1> QED
  BY <1>1, <1>2, <1>3, NextIInv, InitIInv, InitFlood, InitRoutes, PTL DEF Spec

-----------------------------------------------------------------------------
(* What cannot be reached any more is forgotten.                           *)

\* The receiver of an LSU can be reached from the router it is about.
Going == \A e \in End : \A m \in LSU : On(wire, e, m) => Joined(e[2], m.rid)

\* No LSU is older than nodeTimeoutThread lets it be, and that of a router out
\* of reach will be as old before the network is called settled.
FadesAt(r, s) ==
  /\ nodeInfoMap[r][s].alive <= DATABASE_TIMEOUT
  /\ Joined(r, s) \/ nodeInfoMap[r][s].alive + unsettled >= DATABASE_TIMEOUT

Fading == \A r \in Router : \A s \in DOMAIN nodeInfoMap[r] : FadesAt(r, s)

ForgetInv == unsettled \in Nat /\ Going /\ Fading

LEMMA NextDoor ==
  ASSUME NEW n \in up, NEW r, NEW s, {r, s} \subseteq Attached[n]
  PROVE  Joined(r, s)
  BY DEF Joined, Closed

LEMMA JoinedOn ==
  ASSUME NEW r, NEW s, NEW x, Joined(r, s), Joined(s, x)
  PROVE  Joined(r, x)
  BY DEF Joined

LEMMA SameJoined ==
  ASSUME up' = up
  PROVE  \A r, s : Joined(r, s)' <=> Joined(r, s)
  BY DEF Joined, Closed

LEMMA SameGoing ==
  ASSUME Going, up' = up,
         \A e \in End : \A m \in LSU : On(wire', e, m) => On(wire, e, m) \/ Joined(e[2], m.rid)
  PROVE  Going'
  BY SameJoined DEF Going

LEMMA SameFading ==
  ASSUME Fading, UNCHANGED <<nodeInfoMap, up, unsettled>>
  PROVE  Fading'
  BY SameJoined DEF Fading, FadesAt

\* A database of which some entries go and one is new, of a router in reach
LEMMA UpdateFading ==
  ASSUME IInv, Fading, UNCHANGED <<up, unsettled>>, unsettled \in Nat,
         NEW r \in Router, NEW db, nodeInfoMap' = [nodeInfoMap EXCEPT ![r] = db],
         \A s \in DOMAIN db : \/ s \in DOMAIN nodeInfoMap[r] /\ db[s] = nodeInfoMap[r][s]
                              \/ db[s].alive = 0 /\ Joined(r, s)
  PROVE  Fading'
<1> SUFFICES ASSUME NEW x \in Router, NEW s \in DOMAIN nodeInfoMap'[x]
             PROVE  FadesAt(x, s)'
  BY DEF Fading
<1>1. DOMAIN nodeInfoMap = Router
  BY DEF IInv, GoodTables
<1>2. CASE x = r
  <2>1. nodeInfoMap'[x] = db
    BY <1>1, <1>2
  <2>2. CASE s \in DOMAIN nodeInfoMap[r] /\ db[s] = nodeInfoMap[r][s]
    BY <1>2, <2>1, <2>2, SameJoined DEF Fading, FadesAt
  <2>3. CASE db[s].alive = 0 /\ Joined(r, s)
    <3>1. 0 <= DATABASE_TIMEOUT
      BY MospfAssumption DEF MospfAssumption
    <3> QED
      BY <1>2, <2>1, <2>3, <3>1, SameJoined DEF FadesAt
  <2> QED
    BY <2>1, <2>2, <2>3
<1>3. CASE x # r
  <2>1. nodeInfoMap'[x] = nodeInfoMap[x]
    BY <1>1, <1>3
  <2> QED
    BY <2>1, SameJoined DEF Fading, FadesAt
<1> QED
  BY <1>2, <1>3

LEMMA InitForget == Init => ForgetInv
<1> SUFFICES ASSUME Init PROVE ForgetInv
  OBVIOUS
<1>1. \A e \in End : \A m : ~On(wire, e, m)
  BY DEF Init, On
<1>2. \A r \in Router : DOMAIN nodeInfoMap[r] = {}
  BY DEF Init, Empty
<1> QED
  BY <1>1, <1>2, MospfAssumption DEF Init, ForgetInv, Going, Fading, MospfAssumption

LEMMA SendLSUForget ==
  ASSUME IInv, ForgetInv, NEW r \in Router, SendLSU(r)
  PROVE  ForgetInv'
<1>1. UNCHANGED <<nodeInfoMap, up, unsettled>>
  BY DEF SendLSU, tables, world
<1>0. PICK m : m = [type |-> "LSU", rid |-> r, seq |-> LSUSequence[r], ttl |-> LSU_TTL_INIT,
                    adverts |-> Adverts(r, neighbourInfoMap[r])]
  OBVIOUS
<1>2. GoodWire(wire) /\ wire' = Sent(wire, r, NoNet, m)
  BY <1>0 DEF SendLSU, IInv
<1>3. \A q \in End : \A x : On(wire', q, x) <=>
         \/ On(wire, q, x)
         \/ x = m /\ r \in Attached[q[1]] /\ q[2] # r /\ q[1] # NoNet /\ q[1] \in up
  BY <1>2, SentOn
<1>4. ASSUME NEW e \in End, NEW x, On(wire', e, x)
      PROVE  On(wire, e, x) \/ Joined(e[2], x.rid)
  <2>1. e[2] \in Attached[e[1]]
    BY DEF End
  <2> QED
    BY <1>0, <1>3, <1>4, <2>1, NextDoor
<1> QED
  BY <1>1, <1>4, SameGoing, SameFading DEF ForgetInv

\* An LSU is stored and passed on where it has arrived.
LEMMA HandleLSUForget ==
  ASSUME IInv, ForgetInv, NEW e \in End, wire[e] # <<>>, Head(wire[e]).type # "hello",
         handleLSU(e, Head(wire[e])), UNCHANGED <<helloSent, world>>
  PROVE  ForgetInv'
<1> DEFINE m == Head(wire[e])
           r == e[2]
           taken == [wire EXCEPT ![e] = Tail(@)]
<1>1. m \in LSU /\ GoodWire(taken) /\ On(wire, e, m)
  BY TakeGood, TakenOn DEF IInv, GoodPacket, Hello, LSU
<1>2. \A q \in End : \A x : On(taken, q, x) => On(wire, q, x)
  BY TakenOn DEF IInv
<1>3. Joined(r, m.rid) /\ UNCHANGED <<up, unsettled>> /\ r \in Router
  BY <1>1, NetFacts DEF ForgetInv, Going, world
<1>4. \/ wire' = taken /\ UNCHANGED tables
      \/ /\ updateRouterTable(r, neighbourInfoMap[r], Stored(nodeInfoMap[r], m))
         /\ wire' = IF m.ttl > 0 THEN Sent(taken, r, e[1], Forwarded(r, m)) ELSE taken
  BY DEF handleLSU
<1> HIDE DEF m, r, taken
<1>5. Going'
  <2>1. PICK new : new = Forwarded(r, m)
    OBVIOUS
  <2>2. new.rid = m.rid
    BY <1>1, <2>1 DEF Forwarded, LSU
  <2>3. CASE wire' = taken
    BY <1>2, <1>3, <2>3, SameGoing DEF ForgetInv
  <2>4. CASE wire' = Sent(taken, r, e[1], new)
    <3>1. \A q \in End : \A x : On(wire', q, x) <=>
            \/ On(taken, q, x)
            \/ x = new /\ r \in Attached[q[1]] /\ q[2] # r /\ q[1] # e[1] /\ q[1] \in up
      BY <1>1, <2>4, SentOn
    <3>2. ASSUME NEW q \in End, q[1] \in up, r \in Attached[q[1]]
          PROVE  Joined(q[2], m.rid)
      <4>1. q[2] \in Attached[q[1]]
        BY DEF End
      <4>2. Joined(q[2], r)
        BY <3>2, <4>1, NextDoor
      <4> QED
        BY <1>3, <4>2, JoinedOn
    <3>3. \A q \in End : \A x : On(wire', q, x) => On(wire, q, x) \/ Joined(q[2], x.rid)
      BY <1>2, <2>2, <3>1, <3>2
    <3> QED
      BY <1>3, <3>3, SameGoing DEF ForgetInv
  <2> QED
    BY <1>4, <2>1, <2>3, <2>4
<1>6. Fading'
  <2>1. CASE UNCHANGED tables
    BY <1>3, <2>1, SameFading DEF ForgetInv, tables
  <2>2. CASE updateRouterTable(r, neighbourInfoMap[r], Stored(nodeInfoMap[r], m))
    <3> DEFINE db == Stored(nodeInfoMap[r], m)
    <3>1. nodeInfoMap' = [nodeInfoMap EXCEPT ![r] = db]
      BY <2>2 DEF updateRouterTable
    <3>2. \A s \in DOMAIN db : \/ s \in DOMAIN nodeInfoMap[r] /\ db[s] = nodeInfoMap[r][s]
                               \/ db[s].alive = 0 /\ Joined(r, s)
      BY <1>3 DEF Stored
    <3> HIDE DEF db
    <3> QED
      BY <1>3, <3>1, <3>2, UpdateFading DEF ForgetInv
  <2> QED
    BY <1>4, <2>1, <2>2
<1> QED
  BY <1>3, <1>5, <1>6 DEF ForgetInv

LEMMA NodeTimeoutForget ==
  ASSUME IInv, ForgetInv, NEW r \in Router, NodeTimeout(r)
  PROVE  ForgetInv'
<1> DEFINE db == Without(nodeInfoMap[r], Expired(nodeInfoMap[r], DATABASE_TIMEOUT))
<1>1. nodeInfoMap' = [nodeInfoMap EXCEPT ![r] = db] /\ wire' = wire
      /\ up' = up /\ unsettled' = unsettled
  BY DEF NodeTimeout, updateRouterTable, world
<1>2. \A s \in DOMAIN db : \/ s \in DOMAIN nodeInfoMap[r] /\ db[s] = nodeInfoMap[r][s]
                           \/ db[s].alive = 0 /\ Joined(r, s)
  BY DEF Without
<1> HIDE DEF db
<1>3. Going'
  BY <1>1, SameGoing DEF ForgetInv
<1>4. Fading'
  <2>1. UNCHANGED <<up, unsettled>> /\ unsettled \in Nat /\ Fading
    BY <1>1 DEF ForgetInv
  <2>2. nodeInfoMap' = [nodeInfoMap EXCEPT ![r] = db]
    BY <1>1
  <2> QED
    BY <1>2, <2>1, <2>2, UpdateFading
<1> QED
  BY <1>1, <1>3, <1>4 DEF ForgetInv

\* What ages is not as old as it may be yet, nodeTimeoutThread has seen to it.
\* When the network is settled, nothing out of reach is left.
LEMMA QuietForget ==
  ASSUME IInv, ForgetInv, Quiet, NEW r \in Router, NEW s \in DOMAIN nodeInfoMap[r]
  PROVE  /\ nodeInfoMap[r][s].alive \in Nat /\ nodeInfoMap[r][s].alive < DATABASE_TIMEOUT
         /\ unsettled = 0 => Joined(r, s)
<1>1. nodeInfoMap[r][s].alive \in Nat /\ DATABASE_TIMEOUT \in Nat
  BY MospfAssumption DEF IInv, GoodTables, GoodNodes, IsTable, Node, MospfAssumption
<1>2. nodeInfoMap[r][s].alive # DATABASE_TIMEOUT
  BY DEF Quiet, Expired
<1>3. FadesAt(r, s)
  BY DEF ForgetInv, Fading
<1> QED
  BY <1>1, <1>2, <1>3 DEF FadesAt

LEMMA TickForget ==
  ASSUME IInv, ForgetInv, Tick
  PROVE  ForgetInv'
<1>1. /\ Quiet /\ UNCHANGED <<wire, up>>
      /\ unsettled' = IF unsettled > 0 THEN unsettled - 1 ELSE 0
      /\ \A r \in Router : nodeInfoMap'[r] = Older(nodeInfoMap[r])
  BY DEF Tick
<1>2. unsettled \in Nat /\ unsettled' \in Nat /\ DATABASE_TIMEOUT \in Nat
  BY <1>1, MospfAssumption DEF ForgetInv, MospfAssumption
<1>3. Going'
  BY <1>1, SameGoing DEF ForgetInv
<1>4. Fading'
  <2> SUFFICES ASSUME NEW r \in Router, NEW s \in DOMAIN nodeInfoMap'[r]
               PROVE  FadesAt(r, s)'
    BY DEF Fading
  <2>1. /\ s \in DOMAIN nodeInfoMap[r]
        /\ nodeInfoMap'[r][s] = [nodeInfoMap[r][s] EXCEPT !.alive = @ + 1]
    BY <1>1 DEF Older
  <2>2. /\ nodeInfoMap[r][s].alive \in Nat /\ nodeInfoMap[r][s].alive < DATABASE_TIMEOUT
        /\ unsettled = 0 => Joined(r, s)
    BY <1>1, <2>1, QuietForget
  <2>3. FadesAt(r, s)
    BY <2>1 DEF ForgetInv, Fading
  <2>4. nodeInfoMap'[r][s].alive = nodeInfoMap[r][s].alive + 1
    <3>1. nodeInfoMap[r][s] \in Node
      BY <2>1 DEF IInv, GoodTables, GoodNodes, IsTable
    <3> QED
      BY <2>1, <3>1 DEF Node
  <2>5. Joined(r, s)' <=> Joined(r, s)
    BY <1>1, SameJoined
  <2> HIDE DEF FadesAt
  <2>6. nodeInfoMap'[r][s].alive <= DATABASE_TIMEOUT
    BY <1>2, <2>2, <2>4
  <2>7. Joined(r, s)' \/ nodeInfoMap'[r][s].alive + unsettled' >= DATABASE_TIMEOUT
    BY <1>1, <1>2, <2>2, <2>3, <2>4, <2>5 DEF FadesAt
  <2> QED
    BY <2>6, <2>7 DEF FadesAt
<1> QED
  BY <1>2, <1>3, <1>4 DEF ForgetInv

\* Something changes when the network is settled: if it leaves routers out of
\* reach of each other, there is the time to forget them.
LEMMA ChangeForget ==
  ASSUME IInv, ForgetInv, Quiet, unsettled = 0, unsettled' \in Nat, wire' = wire,
         \A r \in Router : \/ nodeInfoMap'[r] = nodeInfoMap[r]
                           \/ DOMAIN nodeInfoMap'[r] = {},
         \/ \A r, s \in Router : Joined(r, s) => Joined(r, s)'
         \/ unsettled' >= DATABASE_TIMEOUT
  PROVE  ForgetInv'
<1>1. \A e \in End : \A m : ~On(wire', e, m)
  BY SilentOn DEF Quiet
<1>2. ASSUME NEW r \in Router, NEW s \in DOMAIN nodeInfoMap'[r]
      PROVE  FadesAt(r, s)'
  <2>1. nodeInfoMap'[r] = nodeInfoMap[r] /\ s \in DOMAIN nodeInfoMap[r]
    BY <1>2
  <2>2. /\ nodeInfoMap[r][s].alive \in Nat /\ nodeInfoMap[r][s].alive < DATABASE_TIMEOUT
        /\ Joined(r, s)
    BY <2>1, QuietForget
  <2>3. s \in Router /\ DATABASE_TIMEOUT \in Nat
    BY <2>1, MospfAssumption DEF IInv, GoodTables, GoodNodes, IsTable, MospfAssumption
  <2>4. CASE Joined(r, s)'
    BY <2>1, <2>2, <2>3, <2>4 DEF FadesAt
  <2>5. CASE unsettled' >= DATABASE_TIMEOUT
    <3>1. nodeInfoMap[r][s].alive + unsettled' >= DATABASE_TIMEOUT
      BY <2>2, <2>3, <2>5
    <3> QED
      BY <2>1, <2>2, <2>3, <3>1 DEF FadesAt
  <2> QED
    BY <2>2, <2>3, <2>4, <2>5
<1> QED
  BY <1>1, <1>2 DEF ForgetInv, Going, Fading

LEMMA LinkDownForget ==
  ASSUME IInv, ForgetInv, DATABASE_TIMEOUT <= AfterSplit, NEW n \in Links, LinkDown(n)
  PROVE  ForgetInv'
<1>1. /\ Quiet /\ unsettled = 0 /\ wire' = wire /\ UNCHANGED nodeInfoMap
      /\ unsettled' = IF \A r, s \in Router : Joined(r, s)' THEN AfterDown ELSE AfterSplit
  BY DEF LinkDown, Change, tables
<1>2. unsettled' \in Nat
  BY <1>1, MospfAssumption DEF MospfAssumption
<1>3. (\A r, s \in Router : Joined(r, s)') \/ unsettled' >= DATABASE_TIMEOUT
  <2>1. AfterSplit \in Nat /\ DATABASE_TIMEOUT \in Nat
    BY MospfAssumption DEF MospfAssumption
  <2> QED
    BY <1>1, <2>1
<1> QED
  BY <1>1, <1>2, <1>3, ChangeForget

LEMMA LinkUpForget ==
  ASSUME IInv, ForgetInv, NEW n \in Links, LinkUp(n)
  PROVE  ForgetInv'
<1>1. /\ Quiet /\ unsettled = 0 /\ wire' = wire /\ UNCHANGED nodeInfoMap
      /\ unsettled' = AfterUp /\ up \subseteq up'
  BY DEF LinkUp, Change, tables
<1>2. unsettled' \in Nat
  BY <1>1, MospfAssumption DEF MospfAssumption
<1>3. \A r, s \in Router : Joined(r, s) => Joined(r, s)'
  BY <1>1 DEF Joined, Closed
<1> QED
  BY <1>1, <1>2, <1>3, ChangeForget

LEMMA RestartForget ==
  ASSUME IInv, ForgetInv, NEW r \in Router, Restart(r)
  PROVE  ForgetInv'
<1>1. /\ Quiet /\ unsettled = 0 /\ wire' = wire /\ up' = up /\ unsettled' = AfterRestart
      /\ nodeInfoMap' = [nodeInfoMap EXCEPT ![r] = Empty]
  BY DEF Restart, Change
<1>2. unsettled' \in Nat
  BY <1>1, MospfAssumption DEF MospfAssumption
<1>3. \A x \in Router : nodeInfoMap'[x] = nodeInfoMap[x] \/ DOMAIN nodeInfoMap'[x] = {}
  BY <1>1 DEF IInv, GoodTables, Empty
<1>4. \A x, s \in Router : Joined(x, s) => Joined(x, s)'
  BY <1>1, SameJoined
<1> QED
  BY <1>1, <1>2, <1>3, <1>4, ChangeForget

LEMMA NextForget ==
  ASSUME IInv, ForgetInv, DATABASE_TIMEOUT <= AfterSplit, [Next]_vars
  PROVE  ForgetInv'
<1>1. ASSUME UNCHANGED <<nodeInfoMap, up, unsettled>>,
             \A e \in End : \A m \in LSU : On(wire', e, m) => On(wire, e, m)
      PROVE  ForgetInv'
  BY <1>1, SameGoing, SameFading DEF ForgetInv
<1>2. ASSUME NEW r \in Router, SendHello(r)
      PROVE  ForgetInv'
  <2>1. UNCHANGED <<nodeInfoMap, up, unsettled>>
    BY <1>2 DEF SendHello, tables, world
  <2>2. ASSUME NEW e \in End, NEW m \in LSU, On(wire', e, m)
        PROVE  On(wire, e, m)
    <3>1. PICK x : x = [type |-> "hello", rid |-> r]
      OBVIOUS
    <3>2. GoodWire(wire) /\ wire' = Sent(wire, r, NoNet, x)
      BY <1>2, <3>1 DEF SendHello, IInv
    <3>3. \A q \in End : \A y : On(wire', q, y) <=>
            \/ On(wire, q, y)
            \/ y = x /\ r \in Attached[q[1]] /\ q[2] # r /\ q[1] # NoNet /\ q[1] \in up
      BY <3>2, SentOn
    <3>4. m # x
      BY <3>1 DEF LSU
    <3> QED
      BY <2>2, <3>3, <3>4
  <2> QED
    BY <1>1, <2>1, <2>2
<1>3. ASSUME NEW r \in Router, StopSleeping(r) \/ NeighbourTimeout(r)
      PROVE  ForgetInv'
  BY <1>1, <1>3 DEF StopSleeping, NeighbourTimeout, tables, world
<1>4. ASSUME NEW e \in End, Receive(e)
      PROVE  ForgetInv'
  <2>1. wire[e] # <<>> /\ UNCHANGED <<helloSent, world>>
    BY <1>4 DEF Receive
  <2>2. CASE Head(wire[e]).type = "hello"
    <3>1. wire' = [wire EXCEPT ![e] = Tail(@)] /\ UNCHANGED <<nodeInfoMap, up, unsettled>>
      BY <1>4, <2>1, <2>2 DEF Receive, handleHello, world
    <3> QED
      BY <1>1, <2>1, <3>1, TakenOn DEF IInv
  <2>3. CASE Head(wire[e]).type # "hello"
    BY <1>4, <2>1, <2>3, HandleLSUForget DEF Receive
  <2> QED
    BY <2>2, <2>3
<1>5. ASSUME UNCHANGED vars
      PROVE  ForgetInv'
  BY <1>1, <1>5 DEF vars, tables, world
<1> QED
  BY <1>2, <1>3, <1>4, <1>5, SendLSUForget, NodeTimeoutForget, LinkDownForget,
     LinkUpForget, RestartForget, TickForget DEF Next

\* When the network has been left alone for as long as the database may grow
\* old after it has fallen apart, no database holds a router that cannot be
\* reached any more, whatever else has failed, come back or been started again
\* before: nodeTimeoutThread takes every one of them out, and no LSU of it is
\* passed around any more (nodeTimeoutThread, handleLSU, sendLSUThread).
THEOREM MospfForgets ==
  ASSUME DATABASE_TIMEOUT <= AfterSplit
  PROVE  Spec => []GoneForgotten
<1>1. IInv /\ ForgetInv => GoneForgotten
  <2> SUFFICES ASSUME IInv, ForgetInv, Settled,
                      NEW r \in Router, NEW s \in DOMAIN nodeInfoMap[r]
               PROVE  Joined(r, s)
    BY DEF GoneForgotten
  <2> QED
    BY QuietForget DEF Settled
<1>2. IInv /\ ForgetInv /\ [Next]_vars => ForgetInv'
  BY NextForget
<1> QED
  BY <1>1, <1>2, InitIInv, NextIInv, InitForget, PTL DEF Spec

=============================================================================
