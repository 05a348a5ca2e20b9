----------------------------- MODULE Forwarding -----------------------------
(***************************************************************************)
(* How a router of lab12 forwards: IPPacketModule.cpp with its ARP cache   *)
(* and the buffer of packets that wait for an ARP answer, ARPPacketModule, *)
(* ICMPPacketModule and routerTable.cpp.  Three kinds of threads use them: *)
(* the main thread takes packets from the interfaces, the sweep thread     *)
(* looks every second for what has waited too long, and the threads of the *)
(* routing protocol send hellos and replace routes.  IPServe_mutex keeps   *)
(* only the last of these apart from each other, so they are one thread    *)
(* here, and all build their packets in the one header of IPPacketModule.  *)
(* No lock keeps two threads out of the buffer either: one step here is    *)
(* one operation on its map or on one of its lists.                        *)
(***************************************************************************)
EXTENDS Integers, Sequences, FiniteSets, SequencesExt

CONSTANTS
  Packet,    \* the pings of the hosts
  Traffic,   \* the headers [saddr, daddr, ttl] each may have
  Host,      \* addresses of hosts
  Learned,   \* the hosts whose route comes from the routing protocol
  Self, AllRouters, NoAddr,  \* an own address, 224.0.0.5, 0
  Nowhere,   \* an address nobody has
  Hop,       \* the addresses of others on the networks of the router
  Via,       \* the next hop to each host
  TTL_INIT,
  PENDING_TIMEOUT,  \* seconds
  MaxRounds  \* bound: hellos sent and times the routes are cleared

Thread == {"main", "sweep", "routing"}
NoPacket == "none"

Addr == Host \cup {Self, AllRouters, NoAddr, Nowhere}
Next_IP == Hop \cup {Self, Nowhere}
Header == [saddr : Addr, daddr : Addr, ttl : 1 .. 255]

ASSUME ForwardingAssumption ==
  /\ Traffic \in [Packet -> SUBSET [saddr : Host, daddr : Host \cup {Self}, ttl : 1 .. 255]]
  /\ Learned \subseteq Host /\ Via \in [Host -> Hop]
  /\ Cardinality({Self, AllRouters, NoAddr, Nowhere}) = 4
  /\ (Host \cup Hop) \cap {Self, AllRouters, NoAddr, Nowhere} = {}
  /\ NoPacket \notin Packet
  /\ TTL_INIT \in 2 .. 255
  /\ PENDING_TIMEOUT \in Nat /\ MaxRounds \in Nat

VARIABLES
  header,    \* of IPPacketModule, the one all threads use
  ARPCache,  \* the next hops whose MAC is known; entries stay for ever
  listed,    \* the keys of the map ARPMissPendingBuff
  pending,   \* its lists: what waits for the MAC of each next hop
  routes,    \* the hosts routerTable has an entry for
  stage,     \* how far each thread is
  work,      \* what each thread has to send
  nextIP,    \* the next hop each thread is busy with
  awake,     \* is the sweep thread looking?
  asked,     \* the next hops ARP requests went to
  taken,     \* the packets from the interfaces, in order
  sent,      \* what left the router, in order: to whom, what
  ignored,   \* packets that ended in the router
  rounds,    \* of the routing protocol so far
  overlapped \* have two threads been in ARPMissPendingBuff at once? (history)

buffer == <<pending, listed, overlapped>>
arp == <<ARPCache, asked, buffer>>
threads == <<stage, work, nextIP>>
wires == <<taken, sent, ignored>>
vars == <<header, arp, routes, threads, awake, wires, rounds>>

\* The arguments of sendPacket.  Data is the packet about itself; an error or
\* an answer is about it.
Message == [saddr : Addr, daddr : Addr, ttl : 1 .. 255,
            kind : {"data", "error", "answer", "hello"}, about : Packet \cup {NoPacket}]
Waiting == [msg : Message, age : 0 .. PENDING_TIMEOUT + 1]

-----------------------------------------------------------------------------

\* A thread turns to what it has to send.
Proceed(t, msgs) ==
  /\ work' = [work EXCEPT ![t] = msgs]
  /\ stage' = [stage EXCEPT ![t] = IF msgs = <<>> THEN "idle" ELSE "fill"]

\* A thread is in the middle of a call on ARPMissPendingBuff.
Buffering == {"insert", "push", "erase", "remove"}

Inside(t) == stage[t] \in Buffering

\* Thread t comes to ARPMissPendingBuff.
Enter(t) == overlapped' = (overlapped \/ \E u \in Thread \ {t} : Inside(u))

\* The process ends on memory that another thread has freed.
Dead == stage["main"] = "dead"

Die ==
  /\ stage' = [t \in Thread |-> "dead"]
  /\ work' = [t \in Thread |-> <<>>]
  /\ pending' = [ip \in Next_IP |-> <<>>] /\ listed' = {}
  /\ overlapped' = TRUE
  /\ UNCHANGED <<header, ARPCache, asked, routes, nextIP, awake, wires, rounds>>

\* ICMPPacketModule_c::sendPacket leaves the source to IPPacketModule.
ICMP(kind, to, msg) ==
  [saddr |-> NoAddr, daddr |-> to, ttl |-> TTL_INIT, kind |-> kind, about |-> msg.about]

hasNextIP(daddr) == daddr \in routes \cup {Self}

\* findNextIP.  Without a route the caller goes on with what its stack holds,
\* which is never an address of the network in what the Makefile builds.
findNextIP(daddr) ==
  CASE daddr \in routes -> [ip |-> Via[daddr], iface |-> Self]
    [] daddr = Self     -> [ip |-> Self, iface |-> Self]
    [] OTHER            -> [ip |-> Nowhere, iface |-> Nowhere]

\* handlePacket: the header is taken over
Receive(p, h) ==
  /\ stage["main"] = "idle"
  /\ p \notin Range(taken)
  /\ taken' = Append(taken, p)
  /\ header' = h
  /\ stage' = [stage EXCEPT !["main"] = "decide"]
  /\ work' = [work EXCEPT !["main"] =
       <<[saddr |-> h.saddr, daddr |-> h.daddr, ttl |-> h.ttl,
          kind |-> "data", about |-> p]>>]
  /\ UNCHANGED <<arp, routes, nextIP, awake, sent, ignored, rounds>>

\* Mutant of Verdict: a packet whose time is up goes on.
Verdict_NoTTL(h, m) ==
  IF h.daddr = Self THEN <<ICMP("answer", h.saddr, m)>>
  ELSE IF hasNextIP(h.daddr)
  THEN <<[saddr |-> h.saddr, daddr |-> h.daddr, ttl |-> h.ttl - 1,
          kind |-> "data", about |-> m.about]>>
  ELSE <<ICMP("error", h.saddr, m)>>

\* handlePacket and handleForward: what becomes of a packet whose header reads
\* h.  A ping taken for a packet of the routing protocol is ignored.
Verdict(h, m) ==
  IF h.ttl = 1 \/ (h.daddr \notin {AllRouters, Self} /\ ~hasNextIP(h.daddr))
  THEN <<ICMP("error", h.saddr, m)>>
  ELSE IF h.daddr = AllRouters THEN <<>>
  ELSE IF h.daddr = Self THEN <<ICMP("answer", h.saddr, m)>>
  ELSE <<[saddr |-> h.saddr, daddr |-> h.daddr, ttl |-> h.ttl - 1,
          kind |-> "data", about |-> m.about]>>

\* The header may no longer be that of the packet.
Decide ==
  /\ stage["main"] = "decide"
  /\ LET m == Head(work["main"])
         msgs == Verdict(header, m)
     IN  /\ Proceed("main", msgs)
         /\ ignored' = IF msgs = <<>> THEN ignored \cup {m.about} ELSE ignored
  /\ UNCHANGED <<header, arp, routes, nextIP, awake, taken, sent, rounds>>

-----------------------------------------------------------------------------
(* sendPacket, in steps between which other threads may run                *)

\* It fills the header in,
Fill(t) ==
  /\ stage[t] = "fill"
  /\ LET m == Head(work[t])
     IN  header' = [header EXCEPT !.ttl = m.ttl, !.daddr = m.daddr]
  /\ stage' = [stage EXCEPT ![t] = "look"]
  /\ UNCHANGED <<arp, routes, work, nextIP, awake, wires, rounds>>

\* looks for the next hop, gives the packet a source if it has none, and looks
\* for the MAC of the next hop (findNormalIPMacIface),
Look(t) ==
  /\ stage[t] = "look"
  /\ LET m == Head(work[t])
     IN  IF m.daddr = AllRouters
         THEN /\ header' = [header EXCEPT !.saddr = m.saddr]
              /\ nextIP' = [nextIP EXCEPT ![t] = AllRouters]
              /\ stage' = [stage EXCEPT ![t] = "emit"]
         ELSE LET next == findNextIP(m.daddr)
              IN  /\ header' = [header EXCEPT !.saddr =
                       IF m.saddr = NoAddr THEN next.iface ELSE m.saddr]
                  /\ nextIP' = [nextIP EXCEPT ![t] = next.ip]
                  /\ stage' = [stage EXCEPT ![t] =
                       IF next.ip \in ARPCache THEN "emit" ELSE "pend"]
  /\ UNCHANGED <<arp, routes, work, awake, wires, rounds>>

\* and either asks for the MAC and lets the packet wait (handleARPCacheMiss):
\* addARPMissPendingBuffEntry looks for the list,
Pend(t) ==
  /\ stage[t] = "pend"
  /\ asked' = asked \cup {nextIP[t]}
  /\ stage' = [stage EXCEPT ![t] = IF nextIP[t] \in listed THEN "push" ELSE "insert"]
  /\ Enter(t)
  /\ UNCHANGED <<header, ARPCache, pending, listed, routes, work, nextIP, awake,
                 wires, rounds>>

\* puts an empty one there if there was none, also over one that has come
\* there since,
Insert(t) ==
  /\ stage[t] = "insert"
  /\ listed' = listed \cup {nextIP[t]}
  /\ pending' = [pending EXCEPT ![nextIP[t]] = <<>>]
  /\ stage' = [stage EXCEPT ![t] = "push"]
  /\ UNCHANGED <<header, ARPCache, asked, overlapped, routes, work, nextIP, awake,
                 wires, rounds>>

\* Mutant of PushBack: the last packet is the first to be sent.
PushBack_Front(t) ==
  /\ stage[t] = "push" /\ nextIP[t] \in listed
  /\ pending' = [pending EXCEPT ![nextIP[t]] = <<[msg |-> Head(work[t]), age |-> 0]>> \o @]
  /\ Proceed(t, Tail(work[t]))
  /\ UNCHANGED <<header, ARPCache, asked, listed, overlapped, routes, nextIP, awake,
                 wires, rounds>>

\* and looks for it once more to append the packet.
PushBack(t) ==
  /\ stage[t] = "push" /\ nextIP[t] \in listed
  /\ pending' = [pending EXCEPT ![nextIP[t]] = Append(@, [msg |-> Head(work[t]), age |-> 0])]
  /\ Proceed(t, Tail(work[t]))
  /\ UNCHANGED <<header, ARPCache, asked, listed, overlapped, routes, nextIP, awake,
                 wires, rounds>>

\* The list is gone by then: find returns end(), and the push_back goes to
\* whatever lies behind the map.
PushNowhere(t) ==
  /\ stage[t] = "push" /\ nextIP[t] \notin listed
  /\ Die

\* Or sendPacket sends it.  Which header it leaves with is not kept: the one
\* of the thread that wrote last.
Emit(t) ==
  /\ stage[t] = "emit"
  /\ LET m == Head(work[t])
     IN  sent' = Append(sent, [ip |-> nextIP[t], kind |-> m.kind, about |-> m.about])
  /\ Proceed(t, Tail(work[t]))
  /\ UNCHANGED <<header, arp, routes, nextIP, awake, taken, ignored, rounds>>

-----------------------------------------------------------------------------

\* Mutant of handleARPPacket: an answer only fills the cache.
handleARPPacket_CacheOnly(ip) ==
  /\ stage["main"] = "idle"
  /\ ip \in asked \cap Hop
  /\ ARPCache' = ARPCache \cup {ip}
  /\ UNCHANGED <<header, asked, buffer, routes, threads, awake, wires, rounds>>

\* handleARPPacket: an answer comes in, the first one or one more.
handleARPPacket(ip) ==
  /\ stage["main"] = "idle"
  /\ ip \in asked \cap Hop
  /\ ARPCache' = ARPCache \cup {ip}
  /\ nextIP' = [nextIP EXCEPT !["main"] = ip]
  /\ stage' = [stage EXCEPT !["main"] = "copy"]
  /\ UNCHANGED <<header, asked, buffer, routes, work, awake, wires, rounds>>

Messages(list) == [i \in DOMAIN list |-> list[i].msg]

\* getARPMissPendingList copies the list that waits for it, if there is one:
\* main alone takes lists away, so the one it finds is still there to copy,
CopyList ==
  /\ stage["main"] = "copy"
  /\ IF nextIP["main"] \in listed
     THEN /\ work' = [work EXCEPT !["main"] = Messages(pending[nextIP["main"]])]
          /\ stage' = [stage EXCEPT !["main"] = "erase"]
     ELSE /\ stage' = [stage EXCEPT !["main"] = "idle"]
          /\ UNCHANGED work
  /\ Enter("main")
  /\ UNCHANGED <<header, ARPCache, asked, pending, listed, routes, nextIP, awake,
                 wires, rounds>>

\* and then erases it.  What is in the copy is sent.
EraseList ==
  /\ stage["main"] = "erase"
  /\ pending' = [pending EXCEPT ![nextIP["main"]] = <<>>]
  /\ listed' = listed \ {nextIP["main"]}
  /\ Proceed("main", work["main"])
  /\ UNCHANGED <<header, ARPCache, asked, overlapped, routes, nextIP, awake,
                 wires, rounds>>

\* The sweep may be walking through the list that is erased.
WalkDangles ==
  /\ stage["main"] = "erase"
  /\ awake /\ stage["sweep"] = "idle"
  /\ Die

\* Mutant of Expired: the difference of the times is taken the wrong way.
Expired_Reversed(list) == SelectInSeq(list, LAMBDA e : e.age < PENDING_TIMEOUT)

\* getTimeoutEntry: the first of a list that has waited for too long, 0 if none
Expired(list) == SelectInSeq(list, LAMBDA e : e.age > PENDING_TIMEOUT)

\* sweepARPMissPendingBuff tells the sender of what has waited for too long,
\* one after the other.  getTimeoutEntry finds it and copies it; the lists are
\* searched in the order of the addresses, which says nothing: any of them may
\* be the first.
Sweep(ip) ==
  /\ awake /\ stage["sweep"] = "idle"
  /\ LET i == Expired(pending[ip])
         e == pending[ip][i].msg
     IN  /\ i > 0
         /\ work' = [work EXCEPT !["sweep"] = <<ICMP("error", e.saddr, e)>>]
  /\ nextIP' = [nextIP EXCEPT !["sweep"] = ip]
  /\ stage' = [stage EXCEPT !["sweep"] = "remove"]
  /\ Enter("sweep")
  /\ UNCHANGED <<header, ARPCache, asked, pending, listed, routes, awake, wires, rounds>>

\* Mutant of EraseEntry: what has been reported stays in the list.
EraseEntry_Keeps ==
  /\ stage["sweep"] = "remove" /\ nextIP["sweep"] \in listed
  /\ Proceed("sweep", work["sweep"])
  /\ UNCHANGED <<header, ARPCache, asked, buffer, routes, nextIP, awake, wires, rounds>>

\* Then it erases it from its list: still the first that has waited too long,
\* as what others append is new.
EraseEntry ==
  /\ stage["sweep"] = "remove" /\ nextIP["sweep"] \in listed
  /\ pending' = [pending EXCEPT ![nextIP["sweep"]] = RemoveAt(@, Expired(@))]
  /\ Proceed("sweep", work["sweep"])
  /\ UNCHANGED <<header, ARPCache, asked, listed, overlapped, routes, nextIP, awake,
                 wires, rounds>>

\* The list is gone by then, and its entries freed: freeing one again ends the
\* process, or goes unnoticed.
EraseDangles ==
  /\ stage["sweep"] = "remove" /\ nextIP["sweep"] \notin listed
  /\ \/ Die
     \/ /\ Proceed("sweep", work["sweep"])
        /\ UNCHANGED <<header, arp, routes, nextIP, awake, wires, rounds>>

\* It sleeps when there is nothing left,
SweepDone ==
  /\ awake /\ stage["sweep"] = "idle"
  /\ \A ip \in Next_IP : Expired(pending[ip]) = 0
  /\ awake' = FALSE
  /\ UNCHANGED <<header, arp, routes, threads, wires, rounds>>

Older(list) ==
  [i \in DOMAIN list |->
     [list[i] EXCEPT !.age = IF @ > PENDING_TIMEOUT THEN @ ELSE @ + 1]]

\* and wakes up after a second, long enough for the others to finish.
Tick ==
  /\ ~awake /\ \A t \in Thread : stage[t] = "idle"
  /\ awake' = TRUE
  /\ pending' = [ip \in Next_IP |-> Older(pending[ip])]
  /\ UNCHANGED <<header, ARPCache, asked, listed, overlapped, routes, threads, wires, rounds>>

-----------------------------------------------------------------------------
(* The routing protocol, Mospf.tla                                         *)

Hello ==
  /\ stage["routing"] = "idle"
  /\ rounds < MaxRounds /\ rounds' = rounds + 1
  /\ Proceed("routing", <<[saddr |-> Self, daddr |-> AllRouters, ttl |-> TTL_INIT,
                           kind |-> "hello", about |-> NoPacket]>>)
  /\ UNCHANGED <<header, arp, routes, nextIP, awake, wires>>

\* updateRouterTable first clears what it has learned
clearMOSPFEntry ==
  /\ ~Dead /\ routes \cap Learned # {}
  /\ rounds < MaxRounds /\ rounds' = rounds + 1
  /\ routes' = routes \ Learned
  /\ UNCHANGED <<header, arp, threads, awake, wires>>

\* and then adds the new routes.
addMOSPFEntry(h) ==
  /\ ~Dead /\ h \notin routes
  /\ routes' = routes \cup {h}
  /\ UNCHANGED <<header, arp, threads, awake, wires, rounds>>

-----------------------------------------------------------------------------

Init ==
  /\ header = [saddr |-> Nowhere, daddr |-> Nowhere, ttl |-> 1]
  /\ ARPCache = {} /\ asked = {}
  /\ pending = [ip \in Next_IP |-> <<>>] /\ listed = {} /\ overlapped = FALSE
  /\ routes = Host
  /\ stage = [t \in Thread |-> "idle"]
  /\ work = [t \in Thread |-> <<>>]
  /\ nextIP = [t \in Thread |-> Nowhere]
  /\ awake = FALSE
  /\ taken = <<>> /\ sent = <<>> /\ ignored = {}
  /\ rounds = 0

Send(t) ==
  \/ Fill(t) \/ Look(t) \/ Emit(t)
  \/ Pend(t) \/ Insert(t) \/ PushBack(t) \/ PushNowhere(t)

TakeList == CopyList \/ EraseList \/ WalkDangles

SweepStep == SweepDone \/ EraseEntry \/ EraseDangles \/ \E ip \in Next_IP : Sweep(ip)

Next ==
  \/ \E p \in Packet : \E h \in Traffic[p] : Receive(p, h)
  \/ Decide
  \/ \E t \in Thread : Send(t)
  \/ \E ip \in Hop : handleARPPacket(ip)
  \/ TakeList
  \/ SweepStep
  \/ Tick
  \/ Hello
  \/ clearMOSPFEntry
  \/ \E h \in Learned : addMOSPFEntry(h)

\* Threads go on with what they do, and time passes: answers, however many, do
\* not keep main busy for ever.  Nobody has to answer.
Spec ==
  /\ Init /\ [][Next]_vars
  /\ WF_vars(Decide) /\ WF_vars(TakeList) /\ \A t \in Thread : WF_vars(Send(t))
  /\ WF_vars(SweepStep) /\ SF_vars(Tick)

-----------------------------------------------------------------------------

Sending == {"decide", "fill", "look", "pend", "insert", "push", "emit", "remove"}

\* The variables have their types, a thread that sends has something to send,
\* and what waits is in a list of the map.
TypeOK ==
  /\ header \in Header
  /\ ARPCache \subseteq Hop /\ asked \subseteq Next_IP
  /\ pending \in [Next_IP -> Seq(Waiting)] /\ listed \subseteq Next_IP
  /\ \A ip \in Next_IP \ listed : pending[ip] = <<>>
  /\ routes \subseteq Host
  /\ stage \in [Thread -> Sending \cup {"idle", "copy", "erase", "dead"}]
  /\ work \in [Thread -> Seq(Message)]
  /\ \A t \in Thread : /\ stage[t] \in {"idle", "copy"} => work[t] = <<>>
                       /\ stage[t] \in Sending => work[t] # <<>>
  /\ nextIP \in [Thread -> Next_IP \cup {AllRouters}]
  /\ ignored \subseteq Packet
  /\ awake \in BOOLEAN /\ overlapped \in BOOLEAN

\* The messages among msgs that come from packet p
About(msgs, p) == {i \in DOMAIN msgs : msgs[i].about = p}

\* What thread t has taken over.  A copy of something that is still in its list
\* counts there.
Held(t) == IF stage[t] \in {"erase", "remove"} THEN <<>> ELSE work[t]

\* Where packet p is, itself or what stands for it
Spots(p) ==
  (UNION {{t} \X About(Held(t), p) : t \in Thread})
    \cup (UNION {{ip} \X About(Messages(pending[ip]), p) : ip \in Next_IP})
    \cup ({"sent"} \X About(sent, p))
    \cup ({"ignored"} \X (ignored \cap {p}))

\* As long as no two threads have been in ARPMissPendingBuff at once, every
\* packet the router has taken is in exactly one place: it is never forwarded
\* twice, nor forwarded and reported too, nor lost.
AccountedOnce ==
  ~overlapped =>
    \A p \in Packet : Cardinality(Spots(p)) = IF p \in Range(taken) THEN 1 ELSE 0

\* The packets of hosts among msgs
Data(msgs) == {i \in DOMAIN msgs : msgs[i].kind = "data"}

\* However the threads meet in the buffer, no packet is forwarded twice, and
\* the packets to one next hop leave in the order they came in, those that
\* waited for its MAC and those that did not.
InOrder ==
  \A i, j \in Data(sent) :
    i < j => /\ sent[i].about # sent[j].about
             /\ sent[i].ip = sent[j].ip =>
                  \E a, b \in DOMAIN taken :
                    a < b /\ taken[a] = sent[i].about /\ taken[b] = sent[j].about

DataFor(ip) == Data(Messages(pending[ip]))

\* Is main about to take what waits for ip?
Taking(ip) == stage["main"] \in {"copy", "erase"} /\ nextIP["main"] = ip

\* No packet of a host waits for a MAC the router knows: an answer frees all
\* that wait, and what comes in later does not wait at all.
NoneStranded == \A ip \in ARPCache : DataFor(ip) = {} \/ Taking(ip) \/ Dead

\* No packet of a host waits for ever: an answer or the sweep ends it, whatever
\* else comes to wait meanwhile.
NoneWaitsForever == []<>(Dead \/ \A ip \in Next_IP : DataFor(ip) = {})

=============================================================================
