# TLA+ models of NetworkLab

NetworkLab is a series of exercises in which a network stack is built up: a hub and a
learning switch, a spanning tree, a router with ARP, ICMP and link-state routing, a NAT box,
and a TCP that grows over four exercises. Each exercise is a directory `src/lab<n>` with its
program, a mininet topology, and a report that explains the design. This directory holds TLA+
models of the exercises that have protocol state of their own, the TLC configurations that
check them on small instances, and proofs, checked by TLAPS, of what holds for every instance.

Six systems are modelled: the TCP of lab18, the spanning tree of lab6, the NAT box of lab13, the
link-state routing of lab12 (MOSPF), the forwarding of lab12 with its ARP cache and waiting packets,
and the prefix trees of lab11. What is left out is listed below, with the reasons.

## 1. Inventory

| Part | Source | State | Operations | What is hard |
|---|---|---|---|---|
| TCP protocol | `lab18/src/TCPProtocol.cpp`, `TCPProtocol.h` | `tcp_sock` objects: state, `snd_una`, `snd_nxt`, `snd_wnd`/`rcv_wnd`, receive ring (`head`, `tail`, slots), `sendBuffer`, timer (`timingOpen`, counters), congestion window; maps `listenTable`, `establishedTable`, per parent `synRcvdList`, `acceptList` | `tcp_sock_connect/listen/accept/read/write/close`; `handlePacket` with SYN, data, FIN and ACK handlers; `ACKTimeOutThread`, `timeWaitThread` | four threads a process with one mutex and five unlocked spin loops; lost, repeated, reordered segments; a window that shrinks; one parent socket for all handshakes |
| TCP applications | `lab18/src/TCPApp.cpp` | place in the program, buffers | send a file; receive it until `read` returns 0 | the stream must be the file, and both sides must end |
| Congestion control | `lab18/src/congestionControl.cpp` | `cwnd`, `ssthresh`, `dupack`, recovery flags | ack, duplicate ack, retransmission timeout, leaving recovery | flags that survive the phase they belong to; 16-bit arithmetic |
| TCP packet module | `lab18/src/TCPPacketModule.cpp` | none | header to segment and back, dispatch | none of its own: formatting |
| Spanning tree | `lab6/src/stp.c` | per port a `config` view and a port number; per switch the believed root, cost, root port; hello timer | `stp_handle_config_packet`, `stp_handle_hello_timeout` | order of hellos and answers; a tree must come out of one exchange |
| NAT | `lab13/src/nat.cpp` | per box the list of entries by remote, the next port, a mutex | `translate` outwards and inwards, `assignExternalPort`, ageing (not started) | same addresses on both sides; entries that fit the wrong packet; early returns under the mutex |
| MOSPF routing | `lab12/src/MOSPFPacketModule.cpp`, `dijkstra.h`, `routerTable.cpp` | neighbours, link-state database with sequence numbers and ages, route table | hello and LSU threads, two ageing threads, flooding, Dijkstra | five threads, four mutexes that do not match; stale database; restarts with sequence number 0; entries for neighbours nobody has heard |
| IP, ARP, ICMP | `lab12/src/IPPacketModule.cpp`, `ARP*.cpp`, `ICMPPacketModule.cpp`, `routerTable.cpp` | ARP cache, packets waiting for an answer, routes | forward, answer, sweep after 5 s, replace routes | answer, sweep and lookup race in one buffer without a lock; one `header` member used by three threads |
| Learning switch | `lab5/src/mac.c`, `main.c` | table of address, port, time | lookup, insert, sweep | entries of hosts that moved |
| Prefix trees | `lab11/src/*.py` | the trie | insert, search | three representations of one function; ties between equal prefixes |
| HTTP client and server | `lab3/src` | none beyond one request | request, response | formatting and I/O |
| Broadcast hub | `lab4/src` | none | send to every other port | none |
| Earlier TCP versions | `lab15`, `lab16`, `lab17` | as lab18, less | as lab18, less | superseded by lab18 |
| Course framework | `lab*/src/messyOldFramework` | sockets of the kernel | raw I/O | outside the protocols |
| Measurement and plots | `lab2`, `lab7`, `lab10`, `plotScripts` | none | run tools, draw | none |

How they interact. The protocols are layers: a raw frame goes from the framework to the IP
module, which hands it to ARP, ICMP, MOSPF, NAT or TCP by protocol number; each answers by
calling `sendPacket` of the layer below. A process has one thread that receives frames and
runs the handlers; timers are threads of their own that share the data structures under a
mutex. The TCP applications share the socket objects with the handlers, partly without the mutex.

What makes each part correct:

- TCP: the reader sees a prefix of the file the writer wrote, and the end only after all of it (without loss and reordering; in any case
  a stretch of it, in order);
  nothing acknowledged is lost; the window protects the ring; every socket is in the right map;
  connect, transfer and close end; no `assert` fails.
- Spanning tree: nobody promises a better path than there is; the exchange ends in a tree of
  shortest paths to the smallest switch; only the root says hello.
- NAT: an answer comes back to the caller from the address it called; two callers never look
  the same to a server; only what no entry and no rule names is refused.
- MOSPF: after a change the databases agree with each other and with the network, and packets
  arrive; nobody believes in a link that does not exist; no copy of a flood undoes a later one.
- ARP: a packet is never forwarded twice, and sent or reported once unless two threads meet in the buffer;
  nothing is overtaken, and nothing waits for a MAC that is known, or for ever.
- Learning switch: a frame for a learned host goes to the port the host is at.
- Prefix trees: all three return the longest matching prefix.

## 2. Modules

| Module | Contents | Code |
|---|---|---|
| `CongestionControl` | the transitions of the congestion window as operators | `lab18/src/congestionControl.cpp` |
| `TCPSocket` | one `tcp_sock`: what every handler and every call does to it, as operators on a context (socket, segments to send, did all asserts hold) | `lab18/src/TCPProtocol.cpp`, `TCPPacketModule.cpp` |
| `TCPProtocol` | the hosts, tables, wires, threads and applications; one action per handler or per section under the mutex | `TCPProtocol.cpp`, `TCPApp.cpp` |
| `TCPProperties` | what `TCPProtocol` is meant to guarantee | |
| `ReliableStream` | the abstract specification: a byte stream with one end | what `tcp_sock_read` and `tcp_sock_write` promise |
| `OrderedStream` | the weaker one that holds on any network: a stretch of one client's file | what `tcp_sock_read` and `tcp_sock_write` keep in any case |
| `TCPProofs`, `TCPStreamProofs` | lemmas about one socket and the invariants of its timer, buffer and tables; connections and the bytes of a stream | |
| `MCTCP` | values of constants for TLC | |
| `Stp`, `StpProofs`, `MCStp` | the spanning tree, its proofs, its networks | `lab6/src/stp.c` |
| `Nat`, `NatProofs`, `MCNat` | the NAT boxes, hosts and wires; proofs; the topology | `lab13/src/nat.cpp` |
| `Mospf`, `MospfProofs`, `NumberLemmas`, `MCMospf` | routers that find each other, flood, age and compute routes; proofs; the topology | `lab12/src/MOSPFPacketModule.cpp`, `dijkstra.h` |
| `Forwarding`, `ForwardingProofs`, `MCForwarding` | one router's threads between the cache, the waiting packets and the routes; proofs; the traffic | `lab12/src/IPPacketModule.cpp`, `ARPMissPendingBuff.cpp`, `routerTable.cpp`, `ICMPPacketModule.cpp` |
| `PrefixTrees`, `PrefixTreesProofs`, `MCPrefixTrees` | three lookup trees as functions from bit strings to entries; proofs; the tables | `lab11/src/*.py` |

`PROJECT.json` maps each definition to its lines.

### TCP

`TCPSocket` gives each handler the form `H(c, p)`: from a context `c = [sk, tx, ok]` to the
next one. `sk` is the socket, `tx` the segments the handler sends, and `ok` turns false when an
`assert` fails. `TCPProtocol` runs a handler and commits its outcome in one action
(`Commit`); a failed assert ends the process of that host (`aborted`), whose mail is then
swallowed by `ReceiveNoSocket`.

Correspondence of state: `sock` is the heap of `tcp_sock` objects, named by their host (the
first socket of a host) or by a name from `Children` (those `handleSYN1` allocates).
`listenTable` and `establishedTable` are the maps, `synRcvdList` and `acceptList` those of the
parent. `net[h]` is the wire to host `h`. `cpc` and `spc` are the program counters of
`TCPClient` and `TCPServer`, `delivered` all that `tcp_sock_read` returned.

Correspondence of steps: a critical section of `TCPSockTable_mutex` is one action. The spin
loops outside it (`connect`, `accept`, `read`, `write`, `close`) are guards of the action that
follows the loop; where the code evaluates something outside the mutex and uses it later
(`tcp_sock_write` computing `MAXSend`, `tcp_sock_read` testing and then sleeping, the window
between `handleSYN3` and the table move of `tcp_sock_connect`) there are two actions.
`tcp_sock_connect` between the two tables is `ReceiveBeforeMove`.

Decisions about data:

- Sequence numbers are naturals; they do not wrap (a transfer is at most 16 MB).
- A byte is a pair (client, position), so a wrong byte can be told from the right one; an
  empty slot holds `NoByte`.
- `handleSYN1` allocates a child only while a name of `Children` is free; this bounds the
  model, not the code.
- `UINT16` stands for 2^16. The ring of lab18 is larger than the window field can say, so
  the advertised window is the free space modulo `UINT16`; the runs keep
  `UINT16 < RINGBUFFER_SIZE` for that reason.
- Time is left out. With `Prompt = FALSE` a timer may go off at any moment at all. With
  `Prompt = TRUE` the sleeps of milliseconds and more (the acknowledgement timer, the
  client's `sleep(1)`, TIME_WAIT) end only when the wires are empty and no thread can leave a
  spin loop. That is the timing of the mininet scripts: a link delay around 1 ms against a
  timer of 8 ms and more, and polling every 100 microseconds.
- `new tcp_sock` leaves `timingOpen`, `snd_una` and `snd_nxt` unset. They start with any
  value of `Garbage` and `GarbageTiming`. `tcp_ring` lets `timingOpen` be anything, and so do all the proofs. A
  socket that has it set before it has sent anything is `Unset`: its timer can go off without a segment, and the
  assert stops the process. The other runs start clear, which is what lets `tcp_lossless` ask for `NoAbort`.

### Spanning tree

`channel[p]` is the queue of packets towards port `p`; `Peer[p]` the other end of its link. A
switch's `designated[p]` is the view `stp_port_t` keeps of the best known bridge on the segment,
`config[p]` the last packet received. The two threads of a switch are `HelloTimeout(s)` and
`Receive(p)`; `Receive` is the whole of `stp_handle_config_packet` with the election it triggers.
The distance `Dist` of the network is a constant with the assumption that a link adds at most
one; it is used by properties only. `MaxHello` bounds the hellos a switch may say, because
two ports with equal configs answer each other for ever. Priorities are equal and every
link costs 1, as in the code.

### NAT

A box has a table `netTable` (the list of one remote is the subsequence of its
entries), the counter `port` and the mutex `locked`. `Translate(b, p)` is the whole of
`translate` for one packet in one of its six outcomes: `OutKnown`, `OutNew`, `OutNoPort` (the
assert of `assignExternalPort`), `InKnown`, `InRule`, and `InFails`, where the function returns
with the mutex held. The single receiver thread of a box justifies one action per packet.
Hosts are external to `nat.cpp`: a host places each of its calls once, and a host that listens
answers what it receives. A failed translation makes an ICMP report, which reaches the other
box as a packet without TCP ports: what that box reads in their place is `ReportPorts`.

### MOSPF

Each router has a receiver and four threads; each of their rounds is one action (`SendHello`,
`StopSleeping` and `SendLSU`, `NeighbourTimeout`, `NodeTimeout`), and `Receive` is the whole of
`handlePacket`. The LSU thread has two: it clears the flag and leaves its loop before it takes
`neighbourInfoMap_mutex`, and hellos may come in between. `updateRouterTable` is part of the step
that calls it. `neighbourInfoMap`, `nodeInfoMap`, `routerTable`, `changed` and `LSUSequence` are
the members of the code; `slept`, `helloSent` and the ages count time.

- A tick is HELLOINT, five seconds, so NEIGHBOUR_TIMEOUT is 3, LSUINT 6 and DATABASE_TIMEOUT 8.
  `Tick` waits until everything due has been done and the wires are empty: a flood takes
  milliseconds. Within a tick packets, floods and timers interleave freely. The hello threads of
  the routers run in one order at each tick, since they all sleep equally long.
- `operator[]` in `neighbourInfoMap[next]` (line 538) makes an entry with address 0 when an LSU that lists the
  router arrives before its sender's hello. It is modelled (`Phantom`): its route has no
  gateway, and the hello that follows does not set the changed flag.
- `dijkstra` computes with `visited[-1]` when a node cannot be reached. With three routers the
  stray write does no harm in the build of the Makefile, and the unreachable node becomes its own next
  hop. With four or more known routers it can overwrite `prevIndex`; such networks are not modelled.
  A neighbour id that is no known router (also id 0, "nobody") writes past the graph (lines 516-517);
  this is modelled as no effect.
- `handleLSU` locks `IPServe_mutex` where `nodeTimeoutThread` locks `nodeInfoMap_mutex`: both change `nodeInfoMap`.
  The model makes each one step, which the code does not ensure.

### Forwarding

`stage[t]` is how far a thread is in what it does and `work[t]` what it has to send. No lock keeps the threads
out of the shared `header` or out of `ARPMissPendingBuff`, so what they do there is cut into steps; `listed` is the set of keys of that map
and `pending` its lists. A step is one operation on the map or on a list.

| Code | Steps |
|---|---|
| `handlePacket` | `Receive`, `Decide`: the header is read again after it was taken over |
| `sendPacket` | `Fill`, `Look`, then `Emit`, or the three of the next line |
| `addARPMissPendingBuffEntry` | `Pend` (find, line 21), `Insert` (an empty list, 24), `PushBack` (27); `PushNowhere` if the list is gone by then |
| `handleARPPacket`, `getARPMissPendingList` | `handleARPPacket` (the cache), `CopyList` (37), `EraseList` (39); then `sendPacket` for each |
| `sweepARPMissPendingBuff`, `getTimeoutEntry` | `Sweep` (find and copy, 59-60), `EraseEntry` (61), then `sendPacket` for the error; `EraseDangles` if the list is gone by then |
| `updateRouterTable` | `clearMOSPFEntry`, `addMOSPFEntry` |

- `Die` ends the process. It is possible where a thread uses a list another one has erased: the sweep walking through it
  (`WalkDangles`) or erasing from it (`EraseDangles`), and a `push_back` behind the map (`PushNowhere`). Such an access may also go unnoticed
  where the program can go on at all.
- `overlapped` is a history variable: two threads have been in the middle of a call on the buffer at once.
- What the threads may do to each other inside one operation of the library is left out.

- Without a route `nextIP` is what the stack held (`Nowhere`), and the packet waits for that address.
- A message carries what it is `about`: the packet itself, or the error or answer that stands for it.
- The header with which a packet leaves is not kept: with mixing threads it may be that of another
  message. So the model does not show that the addresses of a packet sent are right, and they need not be.
- An ICMP error for a packet that waits without a source address is sent to address 0, waits in its turn,
  and is reported again every six seconds for ever. This concerns the router's own packets only, which is why
  `NoneWaitsForever` speaks of the packets of hosts.

### Prefix trees

A node is named by the bits that lead to it and a tree is a function from names to entries. The
bit strings keep `insertMultibit` and `compressTree` free of the arithmetic on groups of bits: a group is a segment of
the string. `Insert` puts one more entry into the base tree and the multibit tree, in any order of
entries; `Compress` compresses. Masks are at least 1 (no search looks at the root, so a default route is
never found by any of the three), strides divide the width as 1, 2, 4 and 8 divide 32, and a table
has one entry for a prefix: with two, the base tree keeps the last and the multibit tree the first.

## 3. Runs

| Run | Instance | Shows |
|---|---|---|
| `tcp_lossless` | 1 client, 5 bytes in segments of at most 2, ring 20, `UINT16` 16, no loss, timed | `TypeOK`, `NoAbort`; **`ImplementsStream`** (refinement of `ReliableStream`, liveness included), `TransferCompletes` |
| `tcp_hostile` | 1 client, 3 bytes in segments of at most 2, any order, 1 repeated segment | **`ImplementsOrderedStream`** (refinement of `OrderedStream`), `OneSocketPerKey`, `WriterUndisturbed` |
| `tcp_ring` | 6 bytes through a ring of 5, `UINT16` 3, 1 loss, 2 timeouts at any moment | `WithinOneLap`, `DeliveredInOrder` when positions of the ring are used again; `AckedIsReceived`, `CloseIsMutual`; `TimerMatchesSendBuffer` with any value in the `timingOpen` of a new socket |
| `tcp_two_clients` | 2 clients, untimed, no loss | `OneSocketPerKey`, `ChildrenApart` |
| `stp_ring` | the ring of `lab6/mininet/four_node_ring.py`, switches 1, 3 and 4 say hello once | `TypeOK`, `NeverTooClose`, `OnlyRootsSayHello`, `ViewFollowsRootPort`, `BeliefsImprove`, `TreeForms` |
| `nat_exp3` | `lab13/mininet/nat_topo3.py`: 2 boxes, 2 private networks with equal addresses, 5 calls, 2 ports a box | `TypeOK`, `AnswersComeBack`, `CallersApart`, `OneFlowPerAddress`, `RefusesOnlyUnmatched`, `CallsAnswered` |
| `mospf_triangle` | 3 routers in a triangle, networks of hosts at two of them; start, a link that fails at tick 8 and may come back at 12, a second one that fails at 11 or 12 and cuts a router off, or a restart at 8 | `TypeOK`, `LinksExist`, `LatestKept`, `DatabasesAgree`, `GoneForgotten`, `RoutesDeliver` |
| `arp_pending` | 2 pings through one gateway, the second also to the router or with an expiring time to live; a hello or a change of the routes; answers at any moment, several or none | `TypeOK`, `AccountedOnce`, `InOrder`, `NoneStranded`, `NoneWaitsForever` |
| `trees_longest` | addresses of 6 bits, tables of up to 3 of 24 entries (17 prefixes) in any order, strides 1, 2, 3, all addresses | `BaseFindsLongest`, `MultibitAsBase`, `CompressedAsBase` |

Three runs end in a violation. They record where the code does not do what its report says:

| Run | Property | What happens | What is said |
|---|---|---|---|
| `tcp_two_clients_clash` | `NoAbort` | two overlapping handshakes use one parent; `handleSYN4` dereferences `end()` and the server dies | lab15Report.md:9, several nodes at once should be supported |
| `tcp_loss_truncates` | `ReadToTheEnd` | a SYN\|ACK is lost, and the SYN that is sent again completes the handshake: the ring starts one sequence number before the file, no data is contiguous, and the FIN is taken with nothing read | lab17Report.md:56, sent and received file are equal under loss |
| `nat_unmatched` | `FailuresReported` | `translate` returns with `netTable_mutex` locked and the box stops | lab13Report.md:26, a failed translation is reported by ICMP |

### The bounds, and why they are enough

- **One client, one file.** The code keeps nothing per file but positions; the interesting
  cases are the handshake, the first data, a full window, a resend, and the FIN right behind
  data. Two segments give "one lost, the next arrives"; three bytes in segments of two give
  a short last segment; six bytes through a ring of five give every slot a second use.
- **`MaxLoss`, `MaxDuplicate`, `MaxTimeouts`, `MaxInFlight`.** One loss or one repetition hits
  each segment of the exchange in turn. Two timeouts let a segment be resent while
  its first copy is on the wire and let both sides resend. `MaxInFlight` only limits when a
  timer may go off, not what may be on the wire.
- **`Children` = 2 or 3.** One more name than connections that can be open: a late segment
  to the listening socket makes a further child. `FreeChildren` lets a name be
  used again when nothing refers to it.
- **`MAX_RESEND`** is 3, as in the code, in the runs on a timed network (`tcp_lossless` and
  `tcp_loss_truncates`). It is 1 elsewhere: the untimed runs then reach the resend
  limit and its assert within two timeouts, and the limit counts segments with data only, so it does not
  touch the handshakes of `tcp_two_clients_clash`.
- **Spanning tree.** The four-switch ring is the topology of the exercise. It has the two
  cases that make the algorithm: a segment both ends want to serve, and a switch with two ways
  to the root. The same properties held in the three-switch triangle and in the network
  with two parallel links (`MCTriangle`, `MCParallel` with `TwiceEach`), and in the full ring
  with `OnceEach`; those runs are longer and add no case, so they are not kept as configurations.
- **NAT.** Two boxes with identical addresses behind them is the hardest topology of the
  exercise. `LastPort = 3` gives a box two ports while three calls leave it, so ports run out in some
  orders. The ports of the rules lie above `LastPort`, as 8000 and 8001 lie above the counter of a
  box for its first thousands of flows; see `OneFlowPerAddress` below for what is said beyond that.

- **MOSPF.** A triangle is the smallest network in which a flood arrives twice, a link that fails leaves
  a way round, and a router relays for another. `DownAt`, `UpAt` and `RestartAt` put the change after the
  start has settled, and the return after the failure has; each change may happen or not. A link that fails at 11 or 12, when
  another one has failed at 8 or fails at 12 too, leaves a router without links. `Horizon` ends a behaviour at 22 ticks,
  after the slowest recovery. Its second value, 1 tick with one packet of backlog, lets the floods of the start
  overlap; afterwards an LSU thread waits for empty wires. `AfterDown`, `AfterSplit`, `AfterUp` and
  `AfterRestart` say how long recovery takes: 3, 8, 7 and 13 ticks hold, and 2, 7, 6 and 12 do not. In
  seconds: 15 after a failure, 40 if the links that are left do not join all routers, because those out of reach have to age out, 35 after a link is back or the routers start, and about 65 after a restart, because
  the others refuse the sequence numbers of a restarted router until its old entry has aged out.
- **Forwarding.** Two packets are what order, doubling and stranding need; one hello or one change of the
  routes meets every step of both. Both packets go through one gateway, so that they meet in one list; the lists of other next hops,
  the router's own address and an address nobody has, are there too, for the errors and for packets without a route. `PENDING_TIMEOUT` counts sweeps: 1 stands for 5, since only
  "has it waited too long" matters. The ages are capped just above. TLC finds all the ways in which the threads can meet in the buffer.
- **Prefix trees.** Six bits have two or three levels at strides 2 and 3, masks on and between levels, and
  nodes to skip above, between and below entries; three entries give a short prefix around two
  longer ones.

`CHECK_DEADLOCK FALSE` is stated where the system stops by itself: TCP when both applications have
returned, the trees after `Compress`, the forwarding when the process has died, the others when the bounded hellos, calls or ticks are used
up.

### Fairness

- TCP: every thread keeps running, hence weak fairness of each application and of each
  receiver, so a segment that is not lost is handled. Strong fairness of the client's
  `sleep(1)` before it closes, of `AckTimeOut` and of `TimeWaitOver`: threads that sleep for a
  fixed time wake up, but under `Prompt` they are enabled only while the faster threads are
  idle, so weak fairness would allow them to be passed over. Losing and repeating segments
  is never fair.
- Spanning tree: weak fairness of each receiver and each hello timer, the two threads.
- Forwarding: each thread goes on with what it does and the sweep looks when it is awake: weak fairness of `Decide`, `TakeList`,
  `Send` and `SweepStep`. Time passes: strong fairness of `Tick`, which waits until all threads are idle for a moment. A second is long enough for
  that, also if one answer after the other keeps main busy. No answer, packet, hello or change of the routes is owed by anybody.
- MOSPF needs none: its properties are about states in which everything due has been done.
- NAT: weak fairness of "some packet is taken". A call has one packet on the way at a time and
  calls are finitely many, so this is the same as every packet being taken in the end.

### Properties worth explaining

- `AckedIsReceived` relates three places: what the client counts as acknowledged, what it still
  holds to resend, and what the server has. It is the reason retransmission works at all.
- `WithinOneLap` says that a segment in flight or in `sendBuffer` cannot overwrite an unread
  slot: `handleData` writes by position modulo the ring and does not test the window. It depends
  on the window rule in `tcp_sock_write`, not on anything the receiver does.
- `WriterUndisturbed`: `tcp_sock_write` sends while `MAXSend - snd_nxt`, an unsigned difference,
  is not 0; one step of `snd_nxt` past `MAXSend` would not end the loop for 4 GB.
- `CloseIsMutual`: FIN_WAIT_1 is left on any segment at all, so TIME_WAIT must not be reached
  while the server believes in an open connection.
- `ViewFollowsRootPort`, `BeliefsImprove`, `NeverTooClose`: the view of a switch is one its root
  port really has, it never gets worse, and it never beats the network. Together they give
  `TreeForms`.
- `OneFlowPerAddress`: two entries of one remote never have the same external address.
  `assignExternalPort` does not skip ports that rules name, so the property is stated as
  long as the counter is below them.

- `DatabasesAgree` and `RoutesDeliver` speak of routers that working links join, `GoneForgotten` of those they do not. All three are asked once the network has been left alone for the time recovery may take.
  They are what the exercise is for, and bounds on time make them safety properties: TLC would find a
  change that makes recovery one tick slower.
- `GoneForgotten`: only its age takes a router out of a database, so no copy of its LSU may still come round, and no entry be
  made young again, once it is out of reach.
- `LatestKept` holds until something is lost: the numbers decide, not the order in which copies come in. After
  a restart it does not hold, and `AfterRestart` says for how long.
- `LinksExist` is about every table, packet and route at every moment, also while the databases are stale.
- `AccountedOnce` counts, for each packet, the places where it or what stands for it is: threads, waiting lists, the wire. The comment
  in `messyOldFramework/arpcache.c:90-91` wants a packet reported and dropped, and the code does not ensure it: between the copy of a list and its erase
  (`ARPMissPendingBuff.cpp:37`, `39`) `getTimeoutEntry` can report an entry that is forwarded too, and an error that the sweep appends
  there is lost. TLC refutes the property without its condition `~overlapped`. With it, it says that this is the only way: whatever the
  threads do one after the other, a packet on its way between cache, list, report and wire is never doubled and never lost.
- `InOrder` has no such condition. An entry that was reported can be forwarded too, but nothing is forwarded twice, however the threads meet.
- `NoneStranded` holds although the cache is asked before the list is appended to, without a lock. The packets of hosts
  are handled by one thread, which is also the one that takes ARP answers and the lists that wait for them. An ICMP error of the sweep
  thread can be stranded, and is then swept in its turn.
- `BaseFindsLongest` checks the reference the exercise compares with; `MultibitAsBase` and
  `CompressedAsBase` are what `checkWithBase` asserts, for all tables and not only for one.

## 4. Proofs

Every theorem is about `Spec` with the assumptions the modules state on their constants
(`ProtocolAssumption`, `SocketAssumption` and their kind), nothing more, unless said.

**TCP** (`TCPProofs`, `TCPStreamProofs`). `TypeCorrect` proves `TypeOK`: for any number of clients and
children, any file, buffer, window and segment size, any loss, repetition and order. The
inductive invariant is `TypeOK /\ WritesItsFile`: a write takes its bytes from the file by
position, and its result is a byte only because `MAXSend` is at most one file ahead of `snd_nxt`.
`TCPProofs` has one lemma per operator of `TCPSocket` (each returns a well-typed context) and one step per action.

`TimerCorrect` proves `TimerMatchesSendBuffer`: from the first segment a socket logs on, the timer flag says whether
`sendBuffer` is empty; before that it keeps what `new` left there. Nothing is assumed about that value. The argument is
one lemma per handler (`TimerFollows`): from a socket that is `Timed`, that is consistent or `Unset`, it leads to a consistent one, or
leaves an `Unset` one as it is.

`ChildrenCorrect` proves that a child in `synRcvdList` is in no other table, is not held by the
application, and has an empty `sendBuffer`. `SendBuffersCorrect` uses it: the logged segments
are an unbroken run that ends at `snd_nxt`. `handleSYN4` overwrites the child's `snd_nxt` with
the parent's, which would break the run if anything had been logged; that is why `ChildrenApart`
is part of the inductive invariant `TypeOK /\ WritesItsFile /\ ChildrenApart /\
SendBuffersUnbroken`. The lemmas about handlers go through one predicate, `Advances`: a handler
that starts with an unbroken buffer ends with one, and `snd_nxt` does not go back.

`OneSocketCorrect`, `WriterCorrect` and `CloseCorrect` prove `OneSocketPerKey`, `WriterUndisturbed` and
`CloseIsMutual`, for any network, from the invariant `ConnInv`, which is `Homes /\ Lives /\ Fins /\
OneSocketPerKey` on top of the invariants above. `Homes` says where a socket can be: a client has one,
in `listenTable` until `connect` moves it, and all sockets of the server but the listening one are children.
`Lives` ties the state of a client's socket to the place of its application in the program.
`Fins` follows the FIN: a client's wire or `sendBuffer` holds one only after it has called `tcp_sock_close`, the
server's side sends one only after it has taken a FIN of that client, and the listening socket never logs
one. That is what keeps the any-segment transitions (FIN_WAIT_1 to FIN_WAIT_2, LAST_ACK to CLOSED) from
closing a connection under its writer. `OneSocketPerKey` is inductive with `Homes` because `handlePacket` asks
`establishedTable` first: `handleSYN4` runs for a peer only when no socket there has its key.
What goes on the wire is argued once per handler: `Says` bounds what a handler may send and log, `Repeats` is the case of
one that only resends. TLC checked each part of `ConnInv` on the instances of the four passing TCP runs before it was proved.

`WithinOneLapCorrect`, `DeliveryCorrect` and `AcknowledgedCorrect` prove `WithinOneLap`, `DeliveredInOrder` and `AckedIsReceived`,
for every number of clients, file, ring, window and network. They rest on `StreamInv`, which follows the bytes of one client's file:
- `Sending`: what a client has logged, and what is on its way to the server, is the file at its position (`Carries`).
- `Ring`: the ring of the child that serves the client is filled from `head` to `tail`, every filled slot holds the byte of the file at
  its position, and the child has acknowledged nothing beyond `tail`.
- `Offered`: what the child advertises, has on the wire, and has told the client, is within a window of its `head`, and the client sends
  no further. A late or reordered segment advertises an older `head`, which is why the bound is on `head` and not on what was advertised last.
- `Untouched`, `Greeted` and `Listening` say the same of the time before there is a child: a repeated SYN, a SYN|ACK that is sent again and the
  segment with which `handleSYN4` starts the ring all lead to the same first position of the file.
- `Reading` joins the end of `delivered` to `head`.

The three properties are about pieces of this that no single handler sees, and none is inductive without the others: the ring holds
the right bytes only because nobody sends more than a lap ahead, that bound comes from the window in an
acknowledgement, and the acknowledgement is right because the ring is. `OnSegmentFirst` is the lemma about the acknowledgement itself:
what `handleACK` pops is covered by it, also when the segment is old. The bound uses `RingAssumption`, that the window
field (16 bits) cannot say more than the ring has: `RINGBUFFER_SIZE` is 130048 in the code, the field ends at 65535. All instances
keep that relation. TLC checked `ConnInv /\ StreamInv` as an invariant of the four passing TCP instances.

`OrderedStreamCorrect` proves `ImplementsOrderedStream`, a refinement, for every number of clients and every network: each step of the
sockets, wires and applications is a step of `OrderedStream` or none. `Written(c)` maps the client's `snd_nxt` and `MAXSend` to
what has been written of its file. With `StreamInv` there is no invariant left to find; three facts about steps are new. A step
changes the socket or the place of one client at most (`OneMoves`), what a client has written never shrinks and stays within
its file (`WrittenGrows`), and what `tcp_sock_read` returns is the stretch that starts where the last one ended and stops at or before what
is written (`ReadDelivers`). `OrderedStream` does not promise that the reading starts at the first byte of the file: `handleSYN4` takes
its sequence number from any segment, so when a data segment overtakes the last segment of the handshake, the stream begins
behind it (TLC finds this on the instance of `tcp_hostile`). Nor that it reaches the last byte before the end is reported, which is what
`tcp_loss_truncates` is about. `ReliableStream` asks for both, and for liveness; `tcp_lossless` checks it where no segment is lost or reordered.

`AbortCauses` and `NoAbortCorrect` are about the asserts. A process dies only when it has resent a data segment `MAX_RESEND` times
(`WornOut`, the assert of `resend`), when one of its sockets is `Unset` (the asserts on the timer), or if it is the server and there are
several clients (`handleSYN4`, the run `tcp_two_clients_clash`). With one client `NoAbort` holds as long as no segment is worn out and no
socket `Unset`, on every network. What `new` leaves in `timingOpen` is not restricted: that the asserts on the timer fail nowhere else
is what `Timed` gives. The wild pointer of `handleSYN4` cannot be reached because, as `Listening` says, the
listening socket is in `SYN_RCVD` only while the child of its peer waits in `synRcvdList`; `tcp_sock_read` never finds a full ring because
of the bound that gives `WithinOneLap`.

**Spanning tree** (`StpProofs`). `StpTypes` and `StpHonest`, for every network of
point-to-point links and any number of hellos. `StpHonest` proves `NeverTooClose`; the
inductive invariant adds that the views of ports and packets on the wire are honest too, that a
packet names the switch that sent it, and that the root port of a switch is its own. A switch adds one to what
it hears, and `Dist` grows by at most one over a link: that is the whole argument, and it needs
no assumption on the order of packets.

`StpViewFollows`, `StpRootsSayHello` and `StpImproves` prove `ViewFollowsRootPort`, `OnlyRootsSayHello` and
`BeliefsImprove`. These do depend on order. The invariant is `ViewInv`, which is the one above with `PortOK` and `SwitchOK`: along each
link, in the order of the queue, what a switch says never gets worse (`LinkInOrder`), and the last of it is no better than what the switch believes;
a port that does not serve its segment believes the last packet it heard; cost 0 goes with being root; and the root
port of a switch beats its own view as root. The delicate step is `Receive` at the root port: the election runs over ports
one of which has just changed, and the port elected must not be the one `Refresh` then takes over.

**NAT** (`NatProofs`). `NatTypes`, and `NatOneFlow` for `OneFlowPerAddress`, with any number of
boxes, hosts, rules and calls. The inductive invariant `FlowInv` adds that an external port is
below the counter or comes from a rule (`PortsAccounted`): a new port is then a new address.

`NatAnswers`, `NatCallers` and `NatRefuses` prove `AnswersComeBack`, `CallersApart` and `RefusesOnlyUnmatched`. They
rest on `NatInv`, which follows a call and its answer through the boxes: every packet on the way has the
addresses that the entries made for its call give it in that network, and an entry is never changed. Two things are
assumed. `AddressAssumption` describes the topology: no two interfaces have one public address, the rules of a box lead
from different addresses to different servers behind it, and no client calls from a port that a rule leads
to, as in `nat_topo*.py` and the `exp*.conf` files. And the theorems are about the states in which
`AllAhead` holds: the counter of no box has reached a port that one of its rules names.
`assignExternalPort` does not skip such ports, and a flow that gets one would share its address with a server. The
counter starts at 1 and the rules of the exercise are at 8000 and 8001. The
hypothesis stands in the theorems, not among the assumptions, because it is about states.

**MOSPF** (`MospfProofs`; `NumberLemmas` has facts about minima and remainders). `MospfTypes` and `MospfLinks`, for any network of
point-to-point links and any number of routers, floods, failures and restarts. The inductive
invariant is `GoodTables /\ GoodWire(wire) /\ GoodThreads`: what every table and packet says of a
router is about that router's interfaces. It needs that no packet changes its `rid` on the way, and that a
next hop is always a router, for which the lemmas about `Paths` and `NextHops` are there.

`MospfLatest`, `MospfAgree` and `MospfDelivers` prove `LatestKept`, `DatabasesAgree` and `RoutesDeliver` for any number of
routers, while links fail and come back. `MospfFloods` says more than `LatestKept`, which ends with
the first failure: at the end of every tick all have the latest LSU of each other. The hypotheses are about the network and the timing:
- `[][NoRestart]_vars`: no router is started again. `MospfLatest` does without, since `LatestKept` ends when one may be.
- `Connected(up)`, in every state: between two routers there is a path of working links with no more than `LSU_TTL_INIT + 1` networks; a
  longer one needs 66 routers in a row. Since a behaviour may stop anywhere, the theorems hold up to the first
  restart and the first state in which the links do not join all routers. A triangle that loses one link fulfils this.
- `OneNet`: two routers share one network at most. `neighbourInfoMap` has one entry for a neighbour, so with two the LSUs
  would name one of them only.
- `LSUINT < DATABASE_TIMEOUT`, `NEIGHBOUR_TIMEOUT > 1`, `LSUINT < AfterUp` and `NEIGHBOUR_TIMEOUT <= AfterDown`: 6 < 8, 3 > 1,
  6 < 7 and 3 <= 3 ticks in the code and in `mospf_triangle`, where smaller values of `AfterUp` and `AfterDown` are refuted.
- `NoWrap`: no router has used up its 16-bit sequence numbers, as with the ports of NAT a hypothesis about states.

`MospfForgets` proves `GoneForgotten` and needs none of these, only `DATABASE_TIMEOUT <= AfterSplit` (8 <= 8): links may fail, come back and
routers start again in any way. `ForgetInv` says that an LSU is on its way only to routers that can be reached from the one it is
about (`Going`: a link fails when the wires are empty, so nothing is cut off on the way), and that an entry for a router out of reach is at
least as old as the database has been left without it (`Fading`: its age and what is left of `unsettled` make up `DATABASE_TIMEOUT`).

With four or more known routers the theorems are about a `dijkstra` whose stray write at `visited[-1]` does no harm (see section 2).

`LatestKept` rests on `FloodInv`: along every simple path from `s` to `r`, `r` has the latest LSU of `s` or a copy is on a network of the path
with enough time to live left to get to the end (`Floods`). A path may not be
left out, since nobody knows which copy comes first: the one that does makes the others old news, but `handleLSU` passes those on too,
and that is what keeps the statement inductive. When the wires are empty, the LSU is there. `Numbered` (no number in use that has
not been given out) and `Young` (nothing gets as old as `DATABASE_TIMEOUT`) keep what has come.

`DatabasesAgree` rests on `AgreeInv`, which counts the ticks since the start or the last return of a link (`u`) and since the last failure
(`d`). A tick after it came back both ends of a link have heard each other (`Greeted`), or the hello is on the wire; `d` ticks after a failure
what is known over it is `d` ticks old (`Aged`). The heart is `Told`: the last LSU of a router tells its part of the
network as it is (`Right`), or another one is due because its flag is set or a neighbour still has to be erased (`Due`), or it was
sent before the neighbours had been heard. A link fails between two ticks of a settled network (`Change`): then the routers at its two ends are `Due`
at once, until they have erased the neighbour and sent an LSU. At the end of a tick no flag is set and
nobody has anything to erase; once `AfterDown` has passed nothing of a dead link is left, and once `AfterUp` has passed every router has sent an LSU with its neighbours
heard (`Waiting`). By `Floods` all the others have it.

`RoutesDeliver` rests on `RoutesInv`: the routes of a router are those of its database (`Fit`), or of one that differs only in
what has no effect, and their gateways are what the neighbour table says (`Gated`, which a link that fails cannot spoil and one that comes back
starts anew). The rest is about `dijkstra`.
`Paths` is a fold, and as `PathsAre` shows its rounds are a recursive function; after round `k` it has found the routers at distance up to `k`
(`Everything`), each with a first hop that is one nearer to it (`Sound`). Since all routers compute on the same graph, the next hop is
nearer to the owner of the network at every router (`HopNearer`), and the packet arrives in at most as many steps as there are routers.

**Forwarding** (`ForwardingProofs`). `ForwardingTypes`, and `ForwardingNoneStranded` for `NoneStranded`, with any traffic, hosts and
hops. The inductive invariant is `Threads /\ Tables /\ Missing /\ NoneStranded`. `Threads` says of each thread what it can have in hand at
each stage (`Fits`): the sweep and the routing protocol never have a packet of a host. `Missing` says that the main thread goes to the buffer only with a next hop
that is not in the cache; without it the step of an answer would strand a packet.

`ForwardingAccountedOnce` proves `AccountedOnce` from `OnceInv`. A count is hard to carry through a step, so the invariant says instead
that a packet taken in is at one position of one place (`Sole`: a list of a thread, a waiting list, the wire, the ignored ones), and
one that was not is nowhere; the count follows at the end. Both parts hold until two threads have met, and rest on `Undisturbed`: a thread
inside the buffer is alone there, and what it has found is still so when it acts on it. So main's copy is the list it erases, the
sweep's report is about the entry it takes out, and the list to append to is there.

`ForwardingInOrder` proves `InOrder` from `OrderInv`, without any condition on how the threads meet. It compares all places a packet of a host
can be in: each is at one place (`Apart`, where what main has copied does not count as waiting any more); what has left for a next hop was taken in
before what the main thread is sending there, that before what it has still to send, and so was what waits (`Ordered`); and a packet goes
where its route leads, or nowhere (`Ways`). The step that matters is an answer that frees a list. The order survives because of
`NoneStranded`: nothing is sent to an address for which packets wait. The sweep takes entries out of lists and sends none of them, so it cannot disturb the order.

**Prefix trees** (`PrefixTreesProofs`). `TreesBase` and `TreesMultibit` prove `BaseFindsLongest` and `MultibitAsBase`, for addresses of
any width, every stride that divides it, and tables of any size read in any order. The inductive invariant
`TreesInv` says that a node an entry was expanded to holds that entry or one with a longer mask, and
holds nothing that was not expanded to it. The searches then follow from arithmetic: the longest match has the highest level, because two
levels are equal or a stride apart.

`TreesCompressed` proves `CompressedAsBase`. Its invariant `CompressedInv` adds the shape of the multibit tree (`Shape`: with a
node all nodes above it are there, and a node as deep as an address is long holds an entry). The end of a chain of skipped nodes
exists and is unique, because two chains below one node go through the same only children. The search of the
compressed tree is a recursive function, and no induction is at hand for it; instead `StopsSolve` shows that the kept nodes on
the way of an address solve its equation, and that two solutions which differ would have to differ first at some number, where
the equation only looks at smaller ones. A node with an entry is never skipped, so the search meets the same entries; and a chain cannot reach the
last level, where it would skip an entry.

**Only model-checked.** Liveness and fairness are outside the proof system: `TransferCompletes`,
`TreeForms`, `CallsAnswered`, `NoneWaitsForever`, and `ImplementsStream`, whose
abstract specification has a fairness part; its steps hold only without loss and reordering, and `OrderedStreamCorrect` is what remains of
them otherwise. `DatabasesAgree` and `RoutesDeliver` after a router has been started again (its numbers begin at 0, so what the others hold of it is
not the latest until it has aged out) or while the links that work do not join all routers (of those that are still joined), and `NoAbort` beyond
the condition of `NoAbortCorrect`, stay with the instances above.

## 5. What the models leave out

- Byte order, checksums, header layout, logging, and the sampling of `cwnd` for the log.
- Real time. Two regimes, timed and untimed, stand for it as described under TCP.
- Wrap-around of 32-bit sequence numbers.
- Messages lost on the links of the spanning tree. An equal config is answered but not passed
  on, so a config lost on the way down is not repaired by the program.
- Segments with more than two ports in the spanning tree: lab6Report.md itself says the approach
  is "not necessarily correct in all cases". `designated_port` of a view is never set, and is
  read only when two packets of the same switch are compared.
- The ageing thread of NAT. `main.cpp` never starts it. Its loop ages one entry 61 times in a row,
  so started it would erase the table every second.
- Not left out, but not checked: the race in `tcp_sock_read` in which the last bytes and the close both arrive between the
  test of the ring and the test of the state is in the model (`ServerReadSleep`,
  `ServerReadWake`). It needs a reader that sleeps through the whole close, so it cannot happen under
  `Prompt`, and `ReadToTheEnd` is not asked of the untimed runs.
- TCP with loss, beyond the truncated file: a lost FIN leaves `sendBuffer` on an acknowledgement that does not
  cover its sequence number (TCPProtocol.cpp:235), and both applications then wait for ever. `TransferCompletes` is asked
  without loss only.
- MOSPF: networks that join more than two routers, and more than three routers in all (see above); the wrap of the 16-bit sequence
  number after 65536 LSUs; a ring that does not contain the origin of an LSU, in which copies go round until
  their time to live of 64 is used up (line 467 forwards whatever its age).
- Forwarding: two threads inside one operation of a map or list, which the library does not allow (`listed` and the lists change in one
  step each); answering the ARP requests of others, which keeps no state; the address an ARP request gives as its own, which is that of the
  packet's source (`IPPacketModule.cpp:227`); a default route with mask 0, which `hasNextIP` finds and
  `findNextIP` does not (`routerTable.cpp:69`); entries of the cache that should expire (they never do).
- Learning switch (`lab5`). `sweep_aged_mac_port_entry` frees an entry inside `list_for_each_entry`, which then reads its link
  (`mac.c:100-103`), so nothing can be said of the process after the first entry has aged; until then the
  table only grows, a lookup refreshes an entry, and a host that moves is not learned again (`main.c:51-53`), although
  lab5Report.md speaks of inserting or updating.
- The hub, the HTTP pair, the raw sockets, the measurement scripts and the TCP of lab15 to lab17: the
  components of `PROJECT.json` say why.

## 6. Plan

In order of what is worth most:

1. `CongestionControl` alone: long transfers, the 16-bit product at a window of 45, a recovery
   interrupted by a timeout.
2. A lossy `Stp`.
3. `Mospf` with a step for each mutex, so that the unprotected `nodeInfoMap` becomes visible.
4. Proofs: that the steps of `OrderedStream` are those of `ReliableStream` on a network without loss and reordering, which
   needs an invariant about the order of the segments of a handshake.
