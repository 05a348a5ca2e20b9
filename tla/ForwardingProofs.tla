-------------------------- MODULE ForwardingProofs --------------------------
(***************************************************************************)
(* What Forwarding promises for all packets, hosts and routes, although    *)
(* its threads use one header and one buffer without a lock.  The          *)
(* inductive invariant adds that only the main thread handles packets of   *)
(* hosts, and that the MAC it found missing is still missing when it lets  *)
(* a packet wait.  For AccountedOnce it names the place each packet is in  *)
(* and what a thread inside ARPMissPendingBuff has found there.  For       *)
(* InOrder, which holds however the threads meet, it says that what has    *)
(* left comes before what the main thread is sending, which comes after    *)
(* what waits for the same next hop.                                       *)
(***************************************************************************)
EXTENDS Forwarding, NumberLemmas, FiniteSetTheorems

\* What thread t can be doing, with what in hand and for whom
Fits(t, s, msgs, ip) ==
  /\ s \in Sending \cup {"idle", "copy", "erase", "dead"}
  /\ msgs \in Seq(Message) /\ ip \in Next_IP \cup {AllRouters}
  /\ s \in {"idle", "copy", "dead"} => msgs = <<>>
  /\ s \in Sending => msgs # <<>>
  /\ s \in Buffering \cup {"pend", "copy"} => ip \in Next_IP
  /\ s \in {"decide", "copy", "erase"} => t = "main"
  /\ s = "remove" => t = "sweep"
  /\ s = "decide" => /\ Len(msgs) = 1 /\ msgs[1].kind = "data"
                     /\ Head(msgs).about \in Packet
  /\ t # "main" => \A i \in DOMAIN msgs : msgs[i].kind # "data"

Threads ==
  /\ stage \in [Thread -> Sending \cup {"idle", "copy", "erase", "dead"}]
  /\ work \in [Thread -> Seq(Message)]
  /\ nextIP \in [Thread -> Next_IP \cup {AllRouters}]
  /\ \A t \in Thread : Fits(t, stage[t], work[t], nextIP[t])

Tables ==
  /\ header \in Header
  /\ ARPCache \subseteq Hop /\ asked \subseteq Next_IP
  /\ pending \in [Next_IP -> Seq(Waiting)] /\ listed \subseteq Next_IP
  /\ \A ip \in Next_IP \ listed : pending[ip] = <<>>
  /\ routes \subseteq Host
  /\ ignored \subseteq Packet
  /\ awake \in BOOLEAN /\ overlapped \in BOOLEAN

Missing == stage["main"] \in {"pend", "insert", "push"} => nextIP["main"] \notin ARPCache

IInv == Threads /\ Tables /\ Missing /\ NoneStranded

-----------------------------------------------------------------------------
(* Messages and lists.                                                     *)

LEMMA Assumed ==
  /\ Traffic \in [Packet -> SUBSET [saddr : Host, daddr : Host \cup {Self}, ttl : 1 .. 255]]
  /\ Learned \subseteq Host /\ Via \in [Host -> Hop]
  /\ TTL_INIT \in 1 .. 255 /\ PENDING_TIMEOUT \in Nat
  BY ForwardingAssumption DEF ForwardingAssumption

LEMMA ICMPType ==
  ASSUME NEW kind \in {"error", "answer"}, NEW to \in Addr, NEW m \in Message
  PROVE  /\ ICMP(kind, to, m) \in Message
         /\ ICMP(kind, to, m).kind = kind
         /\ ICMP(kind, to, m).about = m.about
  BY Assumed DEF ICMP, Message, Addr

LEMMA OneMessage ==
  ASSUME NEW m \in Message
  PROVE  <<m>> \in Seq(Message) /\ <<m>> # <<>> /\ Head(<<m>>) = m
         /\ DOMAIN <<m>> = {1} /\ <<m>>[1] = m
  OBVIOUS

LEMMA TailMessages ==
  ASSUME NEW s \in Seq(Message), s # <<>>
  PROVE  /\ Head(s) \in Message /\ Head(s) = s[1] /\ 1 \in DOMAIN s
         /\ Tail(s) \in Seq(Message)
         /\ \A i \in DOMAIN Tail(s) : i + 1 \in DOMAIN s /\ Tail(s)[i] = s[i + 1]
  OBVIOUS

\* A verdict is one message or none.
LEMMA VerdictType ==
  ASSUME NEW h \in Header, NEW m \in Message
  PROVE  Verdict(h, m) \in Seq(Message)
<1>1. h.ttl \in 1 .. 255 /\ h.saddr \in Addr /\ h.daddr \in Addr
  BY DEF Header
<1>2. ICMP("error", h.saddr, m) \in Message /\ ICMP("answer", h.saddr, m) \in Message
  BY <1>1, ICMPType
<1>3. ASSUME h.ttl # 1
      PROVE  [saddr |-> h.saddr, daddr |-> h.daddr, ttl |-> h.ttl - 1,
              kind |-> "data", about |-> m.about] \in Message
  <2>1. h.ttl - 1 \in 1 .. 255 /\ m.about \in Packet \cup {NoPacket}
    BY <1>1, <1>3 DEF Message
  <2> QED
    BY <1>1, <2>1 DEF Message
<1> DEFINE error == <<ICMP("error", h.saddr, m)>>
           answer == <<ICMP("answer", h.saddr, m)>>
           data == <<[saddr |-> h.saddr, daddr |-> h.daddr, ttl |-> h.ttl - 1,
                      kind |-> "data", about |-> m.about]>>
<1>4. error \in Seq(Message) /\ answer \in Seq(Message) /\ <<>> \in Seq(Message)
  BY <1>2, OneMessage
<1>5. h.ttl # 1 => data \in Seq(Message)
  BY <1>3, OneMessage
<1>6. Verdict(h, m) = IF h.ttl = 1 \/ (h.daddr \notin {AllRouters, Self} /\ ~hasNextIP(h.daddr))
                      THEN error
                      ELSE IF h.daddr = AllRouters THEN <<>>
                      ELSE IF h.daddr = Self THEN answer ELSE data
  BY DEF Verdict
<1> HIDE DEF error, answer, data
<1> QED
  BY <1>4, <1>5, <1>6

LEMMA ListedMessage ==
  ASSUME NEW s \in Seq(Waiting), NEW i \in DOMAIN s
  PROVE  s[i].msg \in Message
<1>1. s[i] \in Waiting
  OBVIOUS
<1> QED
  BY <1>1 DEF Waiting

LEMMA Concatenation ==
  ASSUME NEW S, NEW a \in Seq(S), NEW b \in Seq(S)
  PROVE  /\ a \o b \in Seq(S) /\ DOMAIN (a \o b) = 1 .. Len(a) + Len(b)
         /\ \A k \in 1 .. Len(a) : (a \o b)[k] = a[k]
         /\ \A k \in Len(a) + 1 .. Len(a) + Len(b) : (a \o b)[k] = b[k - Len(a)]
<1>1. a \o b \in Seq(S) /\ Len(a \o b) = Len(a) + Len(b)
  OBVIOUS
<1>2. DOMAIN (a \o b) = 1 .. Len(a) + Len(b)
  BY <1>1
<1>3. \A k \in 1 .. Len(a) : (a \o b)[k] = a[k]
  OBVIOUS
<1>4. \A k \in Len(a) + 1 .. Len(a) + Len(b) : (a \o b)[k] = b[k - Len(a)]
  OBVIOUS
<1> QED
  BY <1>1, <1>2, <1>3, <1>4

\* What is left of a list that loses an element, in its order
LEMMA RemovedList ==
  ASSUME NEW s \in Seq(Waiting), NEW i \in DOMAIN s
  PROVE  LET r == RemoveAt(s, i)
         IN  /\ r \in Seq(Waiting) /\ DOMAIN r = 1 .. Len(s) - 1
             /\ Len(s) \in Nat /\ DOMAIN s = 1 .. Len(s) /\ i \in 1 .. Len(s)
             /\ \A k \in 1 .. Len(s) - 1 : r[k] = IF k < i THEN s[k] ELSE s[k + 1]
<1> DEFINE a == SubSeq(s, 1, i - 1)
           b == SubSeq(s, i + 1, Len(s))
           n == Len(s)
<1>1. i \in 1 .. n /\ n \in Nat /\ DOMAIN s = 1 .. n
  OBVIOUS
<1>2. a \in Seq(Waiting) /\ Len(a) = i - 1 /\ \A k \in 1 .. i - 1 : a[k] = s[k]
  BY <1>1
<1>3. /\ b \in Seq(Waiting) /\ Len(b) = n - i
      /\ \A k \in 1 .. n - i : b[k] = s[i + k]
  BY <1>1
<1>4. RemoveAt(s, i) = a \o b
  BY DEF RemoveAt
<1> HIDE DEF a, b, n
<1>5. /\ a \o b \in Seq(Waiting) /\ DOMAIN (a \o b) = 1 .. Len(a) + Len(b)
      /\ \A k \in 1 .. Len(a) : (a \o b)[k] = a[k]
      /\ \A k \in Len(a) + 1 .. Len(a) + Len(b) : (a \o b)[k] = b[k - Len(a)]
  BY <1>2, <1>3, Concatenation
<1>6. Len(a) + Len(b) = n - 1
  BY <1>1, <1>2, <1>3
<1>7. ASSUME NEW k \in 1 .. n - 1
      PROVE  (a \o b)[k] = IF k < i THEN s[k] ELSE s[k + 1]
  <2>1. CASE k < i
    <3>1. k \in 1 .. i - 1
      BY <1>1, <2>1
    <3> QED
      BY <1>2, <1>5, <2>1, <3>1
  <2>2. CASE ~(k < i)
    <3>1. /\ k \in (i - 1) + 1 .. n - 1 /\ k - (i - 1) \in 1 .. n - i
          /\ i + (k - (i - 1)) = k + 1
      BY <1>1, <2>2
    <3>2. (a \o b)[k] = b[k - (i - 1)]
      BY <1>2, <1>5, <1>6, <3>1
    <3>3. b[k - (i - 1)] = s[i + (k - (i - 1))]
      BY <1>3, <3>1
    <3> QED
      BY <2>2, <3>1, <3>2, <3>3
  <2> QED
    BY <2>1, <2>2
<1> QED
  BY <1>1, <1>4, <1>5, <1>6, <1>7 DEF n

LEMMA RemoveWaiting ==
  ASSUME NEW s \in Seq(Waiting), NEW i \in DOMAIN s
  PROVE  /\ RemoveAt(s, i) \in Seq(Waiting)
         /\ \A k \in DOMAIN RemoveAt(s, i) : \E j \in DOMAIN s : RemoveAt(s, i)[k] = s[j]
<1>1. PICK r, n : r = RemoveAt(s, i) /\ n = Len(s)
  OBVIOUS
<1>2. /\ r \in Seq(Waiting) /\ DOMAIN r = 1 .. n - 1
      /\ n \in Nat /\ DOMAIN s = 1 .. n /\ i \in 1 .. n
      /\ \A k \in 1 .. n - 1 : r[k] = IF k < i THEN s[k] ELSE s[k + 1]
  BY <1>1, RemovedList
<1>3. ASSUME NEW k \in DOMAIN r PROVE \E j \in DOMAIN s : r[k] = s[j]
  <2>1. CASE k < i
    BY <1>2, <2>1
  <2>2. CASE ~(k < i)
    <3>1. k + 1 \in DOMAIN s /\ r[k] = s[k + 1]
      BY <1>2, <2>2
    <3> QED
      BY <3>1
  <2> QED
    BY <2>1, <2>2
<1> QED
  BY <1>1, <1>2, <1>3

\* An entry found is in the list.
LEMMA ExpiredFound ==
  ASSUME NEW s \in Seq(Waiting), Expired(s) > 0
  PROVE  Expired(s) \in DOMAIN s
<1> DEFINE I == {i \in 1 .. Len(s) : s[i].age > PENDING_TIMEOUT}
<1>1. Expired(s) = IF I # {} THEN Min(I) ELSE 0
  BY DEF Expired, SelectInSeq
<1>2. I \in SUBSET Nat /\ I \subseteq DOMAIN s
  OBVIOUS
<1> HIDE DEF I
<1>3. CASE I # {}
  BY <1>1, <1>2, <1>3, MinExists
<1>4. CASE I = {}
  BY <1>1, <1>4
<1> QED
  BY <1>3, <1>4

LEMMA OlderType ==
  ASSUME NEW s \in Seq(Waiting)
  PROVE  /\ Older(s) \in Seq(Waiting) /\ DOMAIN Older(s) = DOMAIN s
         /\ \A i \in DOMAIN s : Older(s)[i].msg = s[i].msg
<1>1. DOMAIN s = 1 .. Len(s) /\ Len(s) \in Nat /\ \A i \in DOMAIN s : s[i] \in Waiting
  OBVIOUS
<1>2. ASSUME NEW i \in DOMAIN s
      PROVE  Older(s)[i] \in Waiting /\ Older(s)[i].msg = s[i].msg
  BY <1>1, Assumed DEF Older, Waiting
<1>3. DOMAIN Older(s) = 1 .. Len(s)
  BY <1>1 DEF Older
<1>4. Older(s) = [i \in 1 .. Len(s) |-> Older(s)[i]]
  BY <1>1 DEF Older
<1> QED
  BY <1>1, <1>2, <1>3, <1>4

LEMMA MessagesIs ==
  ASSUME NEW s \in Seq(Waiting)
  PROVE  /\ Messages(s) \in Seq(Message) /\ DOMAIN Messages(s) = DOMAIN s
         /\ \A i \in DOMAIN s : Messages(s)[i] = s[i].msg
<1>1. \A i \in 1 .. Len(s) : s[i].msg \in Message
  BY ListedMessage
<1>2. Messages(s) = [i \in 1 .. Len(s) |-> s[i].msg]
  BY DEF Messages
<1> QED
  BY <1>1, <1>2

-----------------------------------------------------------------------------
(* What the actions do to the threads.                                     *)

\* Thread t turns to s with msgs in hand, for ip.
Step(t, s, msgs, ip) ==
  /\ stage' = [stage EXCEPT ![t] = s]
  /\ work' = [work EXCEPT ![t] = msgs]
  /\ nextIP' = [nextIP EXCEPT ![t] = ip]

Rest(msgs) == IF msgs = <<>> THEN "idle" ELSE "fill"

LEMMA StepIs ==
  ASSUME Threads, NEW t \in Thread, NEW s, NEW msgs, NEW ip, Step(t, s, msgs, ip)
  PROVE  /\ stage'[t] = s /\ work'[t] = msgs /\ nextIP'[t] = ip
         /\ \A u \in Thread : u # t => /\ stage'[u] = stage[u] /\ work'[u] = work[u]
                                       /\ nextIP'[u] = nextIP[u]
  BY DEF Threads, Step

LEMMA StepFits ==
  ASSUME Threads, NEW t \in Thread, NEW s, NEW msgs, NEW ip, Step(t, s, msgs, ip),
         Fits(t, s, msgs, ip)
  PROVE  Threads'
<1>1. /\ stage'[t] = s /\ work'[t] = msgs /\ nextIP'[t] = ip
      /\ \A u \in Thread : u # t => /\ stage'[u] = stage[u] /\ work'[u] = work[u]
                                    /\ nextIP'[u] = nextIP[u]
  BY StepIs
<1>2. /\ s \in Sending \cup {"idle", "copy", "erase", "dead"}
      /\ msgs \in Seq(Message) /\ ip \in Next_IP \cup {AllRouters}
  BY DEF Fits
<1>3. /\ stage' \in [Thread -> Sending \cup {"idle", "copy", "erase", "dead"}]
      /\ work' \in [Thread -> Seq(Message)]
      /\ nextIP' \in [Thread -> Next_IP \cup {AllRouters}]
  BY <1>2 DEF Threads, Step
<1>4. ASSUME NEW u \in Thread PROVE Fits(u, stage'[u], work'[u], nextIP'[u])
  <2>1. CASE u = t
    BY <1>1, <2>1
  <2>2. CASE u # t
    BY <1>1, <2>2 DEF Threads
  <2> QED
    BY <2>1, <2>2
<1> QED
  BY <1>3, <1>4 DEF Threads

LEMMA Same ==
  ASSUME NEW S, NEW T, NEW f \in [S -> T], NEW x \in S
  PROVE  [f EXCEPT ![x] = f[x]] = f
  OBVIOUS

LEMMA Unmoved ==
  ASSUME Threads, NEW t \in Thread
  PROVE  /\ work = [work EXCEPT ![t] = work[t]]
         /\ nextIP = [nextIP EXCEPT ![t] = nextIP[t]]
  BY Same DEF Threads

LEMMA ProceedIs ==
  ASSUME Threads, NEW t \in Thread, NEW msgs, Proceed(t, msgs), UNCHANGED nextIP
  PROVE  Step(t, Rest(msgs), msgs, nextIP[t])
  BY Unmoved DEF Proceed, Step, Rest

LEMMA RestFits ==
  ASSUME NEW t \in Thread, NEW msgs \in Seq(Message), NEW ip \in Next_IP \cup {AllRouters},
         t # "main" => \A i \in DOMAIN msgs : msgs[i].kind # "data"
  PROVE  Fits(t, Rest(msgs), msgs, ip) /\ Rest(msgs) \in {"idle", "fill"}
  BY DEF Fits, Rest, Sending, Buffering

LEMMA TailFits ==
  ASSUME Threads, NEW t \in Thread, work[t] # <<>>
  PROVE  Fits(t, Rest(Tail(work[t])), Tail(work[t]), nextIP[t])
<1>1. work[t] \in Seq(Message) /\ nextIP[t] \in Next_IP \cup {AllRouters}
  BY DEF Threads
<1>2. /\ Tail(work[t]) \in Seq(Message)
      /\ \A i \in DOMAIN Tail(work[t]) :
           i + 1 \in DOMAIN work[t] /\ Tail(work[t])[i] = work[t][i + 1]
  BY <1>1, TailMessages
<1>3. t # "main" => \A i \in DOMAIN Tail(work[t]) : Tail(work[t])[i].kind # "data"
  BY <1>2 DEF Threads, Fits
<1> QED
  BY <1>1, <1>2, <1>3, RestFits

\* Each action of one thread is a step of it.
LEMMA ReceiveStep ==
  ASSUME IInv, NEW p \in Packet, NEW h \in Traffic[p], Receive(p, h)
  PROVE  \E m \in Message :
           /\ m.kind = "data" /\ m.about = p
           /\ Step("main", "decide", <<m>>, nextIP["main"])
           /\ Fits("main", "decide", <<m>>, nextIP["main"])
           /\ stage["main"] = "idle" /\ h \in Header
<1> DEFINE m == [saddr |-> h.saddr, daddr |-> h.daddr, ttl |-> h.ttl,
                 kind |-> "data", about |-> p]
<1>1. h \in [saddr : Host, daddr : Host \cup {Self}, ttl : 1 .. 255]
  BY Assumed
<1>2. h \in Header /\ m \in Message /\ m.kind = "data" /\ m.about = p
  BY <1>1 DEF Header, Message, Addr
<1>3. /\ stage["main"] = "idle" /\ stage' = [stage EXCEPT !["main"] = "decide"]
      /\ work' = [work EXCEPT !["main"] = <<m>>] /\ nextIP' = nextIP
  BY DEF Receive
<1> HIDE DEF m
<1>4. <<m>> \in Seq(Message) /\ <<m>> # <<>> /\ Head(<<m>>) = m /\ Len(<<m>>) = 1 /\ <<m>>[1] = m
  BY <1>2
<1>5. "main" \in Thread /\ Threads
  BY DEF Thread, IInv
<1>6. Step("main", "decide", <<m>>, nextIP["main"])
  BY <1>3, <1>5, Unmoved DEF Step
<1>7. Fits("main", "decide", <<m>>, nextIP["main"])
  BY <1>2, <1>4, <1>5 DEF Fits, Threads, Sending, Buffering
<1> QED
  BY <1>2, <1>3, <1>6, <1>7

LEMMA DecideStep ==
  ASSUME IInv, Decide
  PROVE  \E msgs \in Seq(Message) :
           /\ Len(work["main"]) = 1 /\ work["main"][1].kind = "data"
           /\ work["main"] \in Seq(Message) /\ work["main"][1].about \in Packet
           /\ Head(work["main"]) = work["main"][1]
           /\ msgs = Verdict(header, work["main"][1])
           /\ Step("main", Rest(msgs), msgs, nextIP["main"])
           /\ Fits("main", Rest(msgs), msgs, nextIP["main"])
           /\ ignored' = IF msgs = <<>> THEN ignored \cup {work["main"][1].about} ELSE ignored
<1>1. Threads /\ "main" \in Thread /\ stage["main"] = "decide"
  BY DEF Decide, IInv, Thread
<1>2. /\ Len(work["main"]) = 1 /\ work["main"][1].kind = "data"
      /\ Head(work["main"]).about \in Packet
      /\ work["main"] \in Seq(Message)
  BY <1>1 DEF Threads, Fits
<1>3. Head(work["main"]) = work["main"][1] /\ work["main"][1] \in Message
  BY <1>2
<1>4. PICK msgs : msgs = Verdict(header, work["main"][1])
  OBVIOUS
<1>5. msgs \in Seq(Message)
  BY <1>3, <1>4, VerdictType DEF IInv, Tables
<1>6. /\ Proceed("main", msgs) /\ nextIP' = nextIP
      /\ ignored' = IF msgs = <<>> THEN ignored \cup {work["main"][1].about} ELSE ignored
  BY <1>3, <1>4 DEF Decide
<1>7. Step("main", Rest(msgs), msgs, nextIP["main"])
  BY <1>1, <1>6, ProceedIs
<1>8. Fits("main", Rest(msgs), msgs, nextIP["main"])
  BY <1>1, <1>5, RestFits DEF Threads
<1> QED
  BY <1>2, <1>3, <1>4, <1>5, <1>6, <1>7, <1>8

LEMMA FillStep ==
  ASSUME IInv, NEW t \in Thread, Fill(t)
  PROVE  /\ stage[t] = "fill"
         /\ Step(t, "look", work[t], nextIP[t]) /\ Fits(t, "look", work[t], nextIP[t])
         /\ header' \in Header
<1>1. Threads /\ stage[t] = "fill" /\ work[t] # <<>> /\ work[t] \in Seq(Message)
  BY DEF Fill, IInv, Threads, Fits, Sending
<1>2. Step(t, "look", work[t], nextIP[t])
  BY <1>1, Unmoved DEF Fill, Step
<1>3. Fits(t, "look", work[t], nextIP[t])
  BY <1>1 DEF Threads, Fits, Sending, Buffering
<1>4. Head(work[t]) \in Message
  BY <1>1, TailMessages
<1>5. header' \in Header
  BY <1>4 DEF Fill, IInv, Tables, Header, Message
<1> QED
  BY <1>1, <1>2, <1>3, <1>5

LEMMA LookStep ==
  ASSUME IInv, NEW t \in Thread, Look(t)
  PROVE  /\ stage[t] = "look" /\ work[t] # <<>> /\ header' \in Header
         /\ \E s \in {"pend", "emit"}, ip \in Next_IP \cup {AllRouters} :
              /\ Step(t, s, work[t], ip) /\ Fits(t, s, work[t], ip)
              /\ s = "pend" => ip \notin ARPCache
              /\ Head(work[t]).daddr # AllRouters =>
                   /\ ip = findNextIP(Head(work[t]).daddr).ip
                   /\ s = "emit" => ip \in ARPCache
<1> DEFINE m == Head(work[t])
           next == findNextIP(m.daddr)
<1>1. Threads /\ stage[t] = "look" /\ work[t] # <<>> /\ work[t] \in Seq(Message)
  BY DEF Look, IInv, Threads, Fits, Sending
<1>2. m \in Message /\ m.saddr \in Addr
  <2>1. m \in Message
    BY <1>1, TailMessages
  <2> QED
    BY <2>1 DEF Message
<1>3. next.ip \in Next_IP /\ next.iface \in Addr
  BY Assumed DEF findNextIP, Next_IP, Addr, IInv, Tables
<1>4. work' = work
  BY DEF Look
<1>5. PICK ip \in Next_IP \cup {AllRouters}, s \in {"pend", "emit"}, from \in Addr :
        /\ header' = [header EXCEPT !.saddr = from]
        /\ stage' = [stage EXCEPT ![t] = s] /\ nextIP' = [nextIP EXCEPT ![t] = ip]
        /\ s = "pend" => ip \in Next_IP /\ ip \notin ARPCache
        /\ m.daddr # AllRouters => ip = next.ip /\ (s = "emit" => ip \in ARPCache)
  <2>1. CASE m.daddr = AllRouters
    BY <1>2, <2>1 DEF Look
  <2>2. CASE m.daddr # AllRouters
    <3>1. /\ header' = [header EXCEPT !.saddr = IF m.saddr = NoAddr THEN next.iface ELSE m.saddr]
          /\ nextIP' = [nextIP EXCEPT ![t] = next.ip]
          /\ stage' = [stage EXCEPT ![t] = IF next.ip \in ARPCache THEN "emit" ELSE "pend"]
      BY <2>2 DEF Look
    <3> HIDE DEF m, next
    <3> QED
      BY <1>2, <1>3, <3>1
  <2> QED
    BY <2>1, <2>2
<1>6. header' \in Header
  BY <1>5 DEF IInv, Tables, Header
<1>7. Step(t, s, work[t], ip)
  BY <1>1, <1>4, <1>5, Unmoved DEF Step
<1>8. Fits(t, s, work[t], ip)
  BY <1>1, <1>5 DEF Threads, Fits, Sending, Buffering
<1> QED
  BY <1>1, <1>5, <1>6, <1>7, <1>8

LEMMA PendStep ==
  ASSUME IInv, NEW t \in Thread, Pend(t)
  PROVE  /\ stage[t] = "pend" /\ nextIP[t] \in Next_IP
         /\ \E s \in {"insert", "push"} :
              /\ Step(t, s, work[t], nextIP[t]) /\ Fits(t, s, work[t], nextIP[t])
              /\ s = "push" <=> nextIP[t] \in listed
<1>1. Threads /\ stage[t] = "pend"
  BY DEF Pend, IInv
<1>2. PICK s : s = IF nextIP[t] \in listed THEN "push" ELSE "insert"
  OBVIOUS
<1>3. Step(t, s, work[t], nextIP[t])
  BY <1>1, <1>2, Unmoved DEF Pend, Step
<1>4. Fits(t, s, work[t], nextIP[t]) /\ nextIP[t] \in Next_IP
  BY <1>1, <1>2 DEF Threads, Fits, Sending, Buffering
<1> QED
  BY <1>1, <1>2, <1>3, <1>4

LEMMA InsertStep ==
  ASSUME IInv, NEW t \in Thread, Insert(t)
  PROVE  /\ stage[t] = "insert" /\ nextIP[t] \in Next_IP
         /\ Step(t, "push", work[t], nextIP[t]) /\ Fits(t, "push", work[t], nextIP[t])
<1>1. Threads /\ stage[t] = "insert"
  BY DEF Insert, IInv
<1>2. Step(t, "push", work[t], nextIP[t])
  BY <1>1, Unmoved DEF Insert, Step
<1>3. Fits(t, "push", work[t], nextIP[t]) /\ nextIP[t] \in Next_IP
  BY <1>1 DEF Threads, Fits, Sending, Buffering
<1> QED
  BY <1>1, <1>2, <1>3

LEMMA PushBackStep ==
  ASSUME IInv, NEW t \in Thread, PushBack(t)
  PROVE  /\ stage[t] = "push" /\ nextIP[t] \in Next_IP
         /\ work[t] # <<>> /\ work[t] \in Seq(Message) /\ Head(work[t]) \in Message
         /\ Step(t, Rest(Tail(work[t])), Tail(work[t]), nextIP[t])
         /\ Fits(t, Rest(Tail(work[t])), Tail(work[t]), nextIP[t])
         /\ [msg |-> Head(work[t]), age |-> 0] \in Waiting
<1>1. /\ Threads /\ stage[t] = "push" /\ nextIP[t] \in Next_IP
      /\ work[t] # <<>> /\ work[t] \in Seq(Message)
  BY DEF PushBack, IInv, Threads, Fits, Sending, Buffering
<1>2. Proceed(t, Tail(work[t])) /\ nextIP' = nextIP
  BY DEF PushBack
<1>3. Head(work[t]) \in Message
  BY <1>1, TailMessages
<1>4. [msg |-> Head(work[t]), age |-> 0] \in Waiting
  BY <1>3, Assumed DEF Waiting
<1> QED
  BY <1>1, <1>2, <1>3, <1>4, ProceedIs, TailFits

LEMMA EmitStep ==
  ASSUME IInv, NEW t \in Thread, Emit(t)
  PROVE  /\ stage[t] = "emit" /\ nextIP[t] \in Next_IP \cup {AllRouters}
         /\ work[t] # <<>> /\ work[t] \in Seq(Message) /\ Head(work[t]) \in Message
         /\ Step(t, Rest(Tail(work[t])), Tail(work[t]), nextIP[t])
         /\ Fits(t, Rest(Tail(work[t])), Tail(work[t]), nextIP[t])
<1>1. /\ Threads /\ stage[t] = "emit" /\ nextIP[t] \in Next_IP \cup {AllRouters}
      /\ work[t] # <<>> /\ work[t] \in Seq(Message)
  BY DEF Emit, IInv, Threads, Fits, Sending
<1>2. Proceed(t, Tail(work[t])) /\ nextIP' = nextIP
  BY DEF Emit
<1>3. Head(work[t]) \in Message
  BY <1>1, TailMessages
<1> QED
  BY <1>1, <1>2, <1>3, ProceedIs, TailFits

LEMMA handleARPPacketStep ==
  ASSUME IInv, NEW ip \in Hop, handleARPPacket(ip)
  PROVE  /\ stage["main"] = "idle"
         /\ Step("main", "copy", <<>>, ip) /\ Fits("main", "copy", <<>>, ip)
<1>1. Threads /\ "main" \in Thread /\ stage["main"] = "idle" /\ work["main"] = <<>>
  BY DEF handleARPPacket, IInv, Threads, Fits, Thread
<1>2. Step("main", "copy", <<>>, ip)
  BY <1>1, Unmoved DEF handleARPPacket, Step
<1>3. Fits("main", "copy", <<>>, ip)
  BY DEF Fits, Sending, Buffering, Next_IP
<1> QED
  BY <1>1, <1>2, <1>3

LEMMA CopyListStep ==
  ASSUME IInv, CopyList
  PROVE  /\ stage["main"] = "copy" /\ nextIP["main"] \in Next_IP /\ work["main"] = <<>>
         /\ pending[nextIP["main"]] \in Seq(Waiting)
         /\ \E s \in {"erase", "idle"}, msgs \in Seq(Message) :
              /\ Step("main", s, msgs, nextIP["main"]) /\ Fits("main", s, msgs, nextIP["main"])
              /\ msgs = Messages(pending[nextIP["main"]])
              /\ s = "erase" <=> nextIP["main"] \in listed
<1>1. /\ Threads /\ "main" \in Thread /\ stage["main"] = "copy" /\ work["main"] = <<>>
      /\ nextIP["main"] \in Next_IP
  BY DEF CopyList, IInv, Threads, Fits, Thread
<1>2. pending[nextIP["main"]] \in Seq(Waiting)
  BY <1>1 DEF IInv, Tables
<1>3. PICK msgs : msgs = Messages(pending[nextIP["main"]])
  OBVIOUS
<1>4. msgs \in Seq(Message)
  BY <1>2, <1>3, MessagesIs
<1>5. CASE nextIP["main"] \in listed
  <2>1. Step("main", "erase", msgs, nextIP["main"])
    BY <1>1, <1>3, <1>5, Unmoved DEF CopyList, Step
  <2>2. Fits("main", "erase", msgs, nextIP["main"])
    BY <1>1, <1>4 DEF Fits, Sending, Buffering
  <2> QED
    BY <1>1, <1>2, <1>3, <1>4, <1>5, <2>1, <2>2
<1>6. CASE nextIP["main"] \notin listed
  <2>1. msgs = <<>>
    <3>1. pending[nextIP["main"]] = <<>>
      BY <1>1, <1>6 DEF IInv, Tables
    <3>2. DOMAIN msgs = {}
      BY <1>3, <3>1 DEF Messages
    <3> QED
      BY <1>4, <3>2
  <2>2. Step("main", "idle", msgs, nextIP["main"])
    BY <1>1, <1>6, <2>1, Unmoved DEF CopyList, Step
  <2>3. Fits("main", "idle", msgs, nextIP["main"])
    BY <1>1, <1>4, <2>1 DEF Fits, Sending, Buffering
  <2> QED
    BY <1>1, <1>2, <1>3, <1>4, <1>6, <2>2, <2>3
<1> QED
  BY <1>5, <1>6

LEMMA EraseListStep ==
  ASSUME IInv, EraseList
  PROVE  /\ stage["main"] = "erase" /\ work["main"] \in Seq(Message)
         /\ Step("main", Rest(work["main"]), work["main"], nextIP["main"])
         /\ Fits("main", Rest(work["main"]), work["main"], nextIP["main"])
<1>1. /\ Threads /\ "main" \in Thread /\ stage["main"] = "erase"
      /\ work["main"] \in Seq(Message) /\ nextIP["main"] \in Next_IP \cup {AllRouters}
  BY DEF EraseList, IInv, Threads, Thread
<1>2. Proceed("main", work["main"]) /\ nextIP' = nextIP
  BY DEF EraseList
<1> QED
  BY <1>1, <1>2, ProceedIs, RestFits

LEMMA SweepStepIs ==
  ASSUME IInv, NEW ip \in Next_IP, Sweep(ip)
  PROVE  /\ stage["sweep"] = "idle" /\ work["sweep"] = <<>> /\ "sweep" \in Thread
         /\ pending[ip] \in Seq(Waiting) /\ Expired(pending[ip]) \in DOMAIN pending[ip]
         /\ \E e, error \in Message :
              /\ e = pending[ip][Expired(pending[ip])].msg
              /\ error = ICMP("error", e.saddr, e) /\ error.about = e.about
              /\ Step("sweep", "remove", <<error>>, ip) /\ Fits("sweep", "remove", <<error>>, ip)
<1>1. /\ Threads /\ "sweep" \in Thread /\ stage["sweep"] = "idle" /\ work["sweep"] = <<>>
      /\ pending[ip] \in Seq(Waiting) /\ Expired(pending[ip]) > 0
  BY DEF Sweep, IInv, Tables, Threads, Fits, Thread
<1>2. Expired(pending[ip]) \in DOMAIN pending[ip]
  BY <1>1, ExpiredFound
<1>3. PICK e : e = pending[ip][Expired(pending[ip])].msg
  OBVIOUS
<1>4. e \in Message /\ e.saddr \in Addr
  <2>1. e \in Message
    BY <1>1, <1>2, <1>3, ListedMessage
  <2> QED
    BY <2>1 DEF Message
<1>5. PICK error : error = ICMP("error", e.saddr, e)
  OBVIOUS
<1>6. error \in Message /\ error.kind = "error" /\ error.about = e.about
  BY <1>4, <1>5, ICMPType
<1>7. Step("sweep", "remove", <<error>>, ip)
  BY <1>3, <1>5 DEF Sweep, Step
<1>8. /\ <<error>> \in Seq(Message) /\ <<error>> # <<>>
      /\ \A k \in DOMAIN <<error>> : <<error>>[k].kind # "data"
  BY <1>6, OneMessage
<1>9. Fits("sweep", "remove", <<error>>, ip)
  BY <1>8 DEF Fits, Sending, Buffering
<1> QED
  BY <1>1, <1>2, <1>3, <1>4, <1>5, <1>6, <1>7, <1>9

LEMMA EraseEntryStep ==
  ASSUME IInv, stage["sweep"] = "remove", Proceed("sweep", work["sweep"]), UNCHANGED nextIP
  PROVE  /\ "sweep" \in Thread /\ work["sweep"] \in Seq(Message) /\ nextIP["sweep"] \in Next_IP
         /\ Step("sweep", Rest(work["sweep"]), work["sweep"], nextIP["sweep"])
         /\ Fits("sweep", Rest(work["sweep"]), work["sweep"], nextIP["sweep"])
<1>1. /\ Threads /\ "sweep" \in Thread /\ work["sweep"] \in Seq(Message)
      /\ nextIP["sweep"] \in Next_IP
      /\ \A i \in DOMAIN work["sweep"] : work["sweep"][i].kind # "data"
  BY DEF IInv, Threads, Fits, Thread, Buffering
<1> QED
  BY <1>1, ProceedIs, RestFits

LEMMA HelloStep ==
  ASSUME IInv, Hello
  PROVE  \E m \in Message :
           /\ m.kind = "hello" /\ m.about = NoPacket /\ stage["routing"] = "idle"
           /\ work["routing"] = <<>> /\ "routing" \in Thread
           /\ Step("routing", "fill", <<m>>, nextIP["routing"])
           /\ Fits("routing", "fill", <<m>>, nextIP["routing"])
<1> DEFINE m == [saddr |-> Self, daddr |-> AllRouters, ttl |-> TTL_INIT,
                 kind |-> "hello", about |-> NoPacket]
<1>1. m \in Message /\ m.kind = "hello" /\ m.about = NoPacket
  BY Assumed DEF Message, Addr
<1>2. Proceed("routing", <<m>>) /\ nextIP' = nextIP /\ stage["routing"] = "idle"
  BY DEF Hello
<1> HIDE DEF m
<1>3. /\ <<m>> \in Seq(Message) /\ <<m>> # <<>>
      /\ \A k \in DOMAIN <<m>> : <<m>>[k].kind # "data"
  BY <1>1, OneMessage
<1>4. /\ Threads /\ "routing" \in Thread /\ work["routing"] = <<>>
      /\ nextIP["routing"] \in Next_IP \cup {AllRouters}
  BY <1>2 DEF IInv, Threads, Fits, Thread
<1>5. Rest(<<m>>) = "fill"
  BY <1>3 DEF Rest
<1>6. Step("routing", Rest(<<m>>), <<m>>, nextIP["routing"])
  BY <1>2, <1>4, ProceedIs
<1>7. Fits("routing", Rest(<<m>>), <<m>>, nextIP["routing"])
  BY <1>3, <1>4, RestFits
<1> QED
  BY <1>1, <1>2, <1>4, <1>5, <1>6, <1>7

-----------------------------------------------------------------------------
(* The initial states and the steps.                                       *)

LEMMA InitIInv == Init => IInv
<1> SUFFICES ASSUME Init PROVE IInv
  OBVIOUS
<1>1. header \in Header
  BY DEF Init, Header, Addr
<1>2. pending \in [Next_IP -> Seq(Waiting)] /\ \A ip \in Next_IP : pending[ip] = <<>>
  BY DEF Init
<1>3. Tables
  BY <1>1, <1>2 DEF Init, Tables
<1>4. Threads
  <2>1. /\ stage \in [Thread -> Sending \cup {"idle", "copy", "erase", "dead"}]
        /\ nextIP \in [Thread -> Next_IP \cup {AllRouters}]
    BY DEF Init, Next_IP
  <2>2. work \in [Thread -> Seq(Message)]
    BY DEF Init
  <2>3. \A t \in Thread : stage[t] = "idle" /\ work[t] = <<>>
    BY DEF Init
  <2>4. \A t \in Thread : Fits(t, stage[t], work[t], nextIP[t])
    BY <2>1, <2>2, <2>3 DEF Fits, Sending, Buffering
  <2> QED
    BY <2>1, <2>2, <2>4 DEF Threads
<1>5. Missing /\ NoneStranded
  BY DEF Init, Missing, NoneStranded, Thread
<1> QED
  BY <1>3, <1>4, <1>5 DEF IInv

LEMMA StepKeeps ==
  ASSUME IInv, NEW t \in Thread, NEW s, NEW msgs, NEW ip, Step(t, s, msgs, ip),
         Fits(t, s, msgs, ip), UNCHANGED ARPCache,
         t = "main" /\ s \in {"pend", "insert", "push"} => ip \notin ARPCache
  PROVE  Threads' /\ Missing'
<1>1. /\ stage'[t] = s /\ nextIP'[t] = ip
      /\ \A u \in Thread : u # t => stage'[u] = stage[u] /\ nextIP'[u] = nextIP[u]
  BY StepIs DEF IInv
<1>2. Missing'
  <2>1. CASE t = "main"
    BY <1>1, <2>1 DEF Missing
  <2>2. CASE t # "main"
    BY <1>1, <2>2 DEF IInv, Missing, Thread
  <2> QED
    BY <2>1, <2>2
<1> QED
  BY <1>2, StepFits DEF IInv

\* What main takes is not left to wait by a step of another thread, or of main
\* when it takes nothing.
LEMMA StrandedKept ==
  ASSUME IInv, NEW t \in Thread, NEW s, NEW msgs, NEW ip, Step(t, s, msgs, ip),
         UNCHANGED ARPCache,
         t # "main" \/ stage["main"] \notin {"copy", "erase", "dead"},
         \A q \in ARPCache : Data(Messages(pending[q])) = {} => Data(Messages(pending'[q])) = {}
  PROVE  NoneStranded'
<1>1. \A u \in Thread : u # t => stage'[u] = stage[u] /\ nextIP'[u] = nextIP[u]
  BY StepIs DEF IInv
<1>2. ASSUME NEW q \in ARPCache
      PROVE  (DataFor(q) = {} \/ Taking(q) \/ Dead)'
  <2>1. CASE DataFor(q) = {}
    BY <2>1 DEF DataFor
  <2>2. CASE t # "main" /\ (Taking(q) \/ Dead)
    BY <1>1, <2>2 DEF Taking, Dead, Thread
  <2>3. CASE t = "main" /\ (Taking(q) \/ Dead)
    BY <2>3 DEF Taking, Dead
  <2> QED
    BY <2>1, <2>2, <2>3 DEF IInv, NoneStranded
<1> QED
  BY <1>2 DEF NoneStranded

LEMMA ReceiveKeeps ==
  ASSUME IInv, NEW p \in Packet, NEW h \in Traffic[p], Receive(p, h)
  PROVE  IInv'
<1>1. PICK m \in Message :
        /\ Step("main", "decide", <<m>>, nextIP["main"])
        /\ Fits("main", "decide", <<m>>, nextIP["main"])
        /\ stage["main"] = "idle" /\ h \in Header
  BY ReceiveStep
<1>2. "main" \in Thread /\ header' = h /\ UNCHANGED <<arp, routes, awake, ignored>>
  BY DEF Receive, Thread
<1>3. Threads' /\ Missing'
  BY <1>1, <1>2, StepKeeps DEF arp
<1>4. NoneStranded'
  BY <1>1, <1>2, StrandedKept DEF arp, buffer
<1>5. Tables'
  BY <1>1, <1>2 DEF IInv, Tables, arp, buffer
<1> QED
  BY <1>3, <1>4, <1>5 DEF IInv

LEMMA DecideKeeps ==
  ASSUME IInv, Decide
  PROVE  IInv'
<1>1. PICK msgs \in Seq(Message) :
        /\ work["main"][1].about \in Packet
        /\ Step("main", Rest(msgs), msgs, nextIP["main"])
        /\ Fits("main", Rest(msgs), msgs, nextIP["main"])
        /\ ignored' = IF msgs = <<>> THEN ignored \cup {work["main"][1].about} ELSE ignored
  BY DecideStep
<1>2. /\ "main" \in Thread /\ stage["main"] = "decide"
      /\ UNCHANGED <<header, arp, routes, awake>>
  BY DEF Decide, Thread
<1>3. Threads' /\ Missing'
  BY <1>1, <1>2, StepKeeps DEF arp, Rest
<1>4. NoneStranded'
  BY <1>1, <1>2, StrandedKept DEF arp, buffer
<1>5. Tables'
  BY <1>1, <1>2 DEF IInv, Tables, arp, buffer
<1> QED
  BY <1>3, <1>4, <1>5 DEF IInv

LEMMA FillKeeps ==
  ASSUME IInv, NEW t \in Thread, Fill(t)
  PROVE  IInv'
<1>1. /\ stage[t] = "fill" /\ header' \in Header
      /\ Step(t, "look", work[t], nextIP[t]) /\ Fits(t, "look", work[t], nextIP[t])
  BY FillStep
<1>2. UNCHANGED <<arp, routes, awake, ignored>>
  BY DEF Fill, wires
<1>3. Threads' /\ Missing'
  BY <1>1, <1>2, StepKeeps DEF arp
<1>4. NoneStranded'
  BY <1>1, <1>2, StrandedKept DEF arp, buffer
<1>5. Tables'
  BY <1>1, <1>2 DEF IInv, Tables, arp, buffer
<1> QED
  BY <1>3, <1>4, <1>5 DEF IInv

LEMMA LookKeeps ==
  ASSUME IInv, NEW t \in Thread, Look(t)
  PROVE  IInv'
<1>1. PICK s \in {"pend", "emit"}, ip \in Next_IP \cup {AllRouters} :
        /\ stage[t] = "look" /\ header' \in Header
        /\ Step(t, s, work[t], ip) /\ Fits(t, s, work[t], ip)
        /\ s = "pend" => ip \notin ARPCache
  BY LookStep
<1>2. UNCHANGED <<arp, routes, awake, ignored>>
  BY DEF Look, wires
<1>3. Threads' /\ Missing'
  BY <1>1, <1>2, StepKeeps DEF arp
<1>4. NoneStranded'
  BY <1>1, <1>2, StrandedKept DEF arp, buffer
<1>5. Tables'
  BY <1>1, <1>2 DEF IInv, Tables, arp, buffer
<1> QED
  BY <1>3, <1>4, <1>5 DEF IInv

\* addARPMissPendingBuffEntry has not begun to change the map
LEMMA PendKeeps ==
  ASSUME IInv, NEW t \in Thread, Pend(t)
  PROVE  IInv'
<1>1. PICK s \in {"insert", "push"} :
        /\ stage[t] = "pend" /\ nextIP[t] \in Next_IP
        /\ Step(t, s, work[t], nextIP[t]) /\ Fits(t, s, work[t], nextIP[t])
  BY PendStep
<1>2. /\ asked' = asked \cup {nextIP[t]} /\ overlapped' \in BOOLEAN
      /\ UNCHANGED <<header, ARPCache, pending, listed, routes, awake, ignored>>
  BY DEF Pend, Enter, wires, IInv, Tables
<1>3. Threads' /\ Missing'
  BY <1>1, <1>2, StepKeeps DEF IInv, Missing
<1>4. NoneStranded'
  BY <1>1, <1>2, StrandedKept
<1>5. Tables'
  BY <1>1, <1>2 DEF IInv, Tables
<1> QED
  BY <1>3, <1>4, <1>5 DEF IInv

LEMMA NoneOfNone == Data(Messages(<<>>)) = {} /\ Data(<<>>) = {}
  BY DEF Data, Messages

LEMMA InsertKeeps ==
  ASSUME IInv, NEW t \in Thread, Insert(t)
  PROVE  IInv'
<1>1. /\ stage[t] = "insert" /\ nextIP[t] \in Next_IP
      /\ Step(t, "push", work[t], nextIP[t]) /\ Fits(t, "push", work[t], nextIP[t])
  BY InsertStep
<1>2. /\ listed' = listed \cup {nextIP[t]} /\ pending' = [pending EXCEPT ![nextIP[t]] = <<>>]
      /\ UNCHANGED <<header, ARPCache, asked, overlapped, routes, awake, ignored>>
  BY DEF Insert, wires
<1>3. Threads' /\ Missing'
  BY <1>1, <1>2, StepKeeps DEF IInv, Missing
<1>4. pending \in [Next_IP -> Seq(Waiting)]
  BY DEF IInv, Tables
<1>5. ASSUME NEW q \in Next_IP
      PROVE  pending'[q] = IF q = nextIP[t] THEN <<>> ELSE pending[q]
  BY <1>2, <1>4
<1>6. NoneStranded'
  <2>1. \A q \in ARPCache :
          Data(Messages(pending[q])) = {} => Data(Messages(pending'[q])) = {}
    BY <1>5, NoneOfNone DEF IInv, Tables, Next_IP
  <2> QED
    BY <1>1, <1>2, <2>1, StrandedKept
<1>7. Tables'
  <2>1. pending' \in [Next_IP -> Seq(Waiting)]
    BY <1>1, <1>2, <1>4
  <2>2. \A q \in Next_IP \ listed' : pending'[q] = <<>>
    BY <1>2, <1>5 DEF IInv, Tables
  <2>3. listed' \subseteq Next_IP
    BY <1>1, <1>2 DEF IInv, Tables
  <2> QED
    BY <1>2, <2>1, <2>2, <2>3 DEF IInv, Tables
<1> QED
  BY <1>3, <1>6, <1>7 DEF IInv

\* The main thread lets a packet of a host wait only for a MAC that is missing.
LEMMA PushBackKeeps ==
  ASSUME IInv, NEW t \in Thread, PushBack(t)
  PROVE  IInv'
<1>1. /\ stage[t] = "push" /\ nextIP[t] \in Next_IP
      /\ work[t] # <<>> /\ work[t] \in Seq(Message)
      /\ Step(t, Rest(Tail(work[t])), Tail(work[t]), nextIP[t])
      /\ Fits(t, Rest(Tail(work[t])), Tail(work[t]), nextIP[t])
  BY PushBackStep
<1>2. PICK ip \in Next_IP, m \in Message, e \in Waiting :
        /\ ip = nextIP[t] /\ m = Head(work[t]) /\ e = [msg |-> m, age |-> 0]
  BY PushBackStep
<1>3. /\ ip \in listed /\ pending' = [pending EXCEPT ![ip] = Append(@, e)]
      /\ UNCHANGED <<header, ARPCache, asked, listed, overlapped, routes, awake, ignored>>
  BY <1>2 DEF PushBack, wires
<1>4. Threads' /\ Missing'
  BY <1>1, <1>3, StepKeeps DEF Rest
<1>5. /\ pending \in [Next_IP -> Seq(Waiting)] /\ pending[ip] \in Seq(Waiting)
      /\ pending'[ip] = Append(pending[ip], e)
      /\ \A q \in Next_IP : q # ip => pending'[q] = pending[q]
  BY <1>3 DEF IInv, Tables
<1>6. /\ Append(pending[ip], e) \in Seq(Waiting)
      /\ DOMAIN Append(pending[ip], e) = DOMAIN pending[ip] \cup {Len(pending[ip]) + 1}
      /\ Append(pending[ip], e)[Len(pending[ip]) + 1] = e
      /\ \A i \in DOMAIN pending[ip] : Append(pending[ip], e)[i] = pending[ip][i]
  BY <1>5
<1>7. ip \in ARPCache => m.kind # "data"
  <2>1. CASE t = "main"
    BY <1>1, <1>2, <2>1 DEF IInv, Missing
  <2>2. CASE t # "main"
    <3>1. m = work[t][1] /\ 1 \in DOMAIN work[t]
      BY <1>1, <1>2, TailMessages
    <3> QED
      BY <2>2, <3>1 DEF IInv, Threads, Fits
  <2> QED
    BY <2>1, <2>2
<1>8. ASSUME NEW q \in ARPCache, Data(Messages(pending[q])) = {}
      PROVE  Data(Messages(pending'[q])) = {}
  <2>1. q \in Next_IP
    BY DEF IInv, Tables, Next_IP
  <2>2. CASE q # ip
    BY <1>5, <1>8, <2>1, <2>2
  <2>3. CASE q = ip
    <3>1. \A i \in DOMAIN pending[ip] : pending[ip][i].msg.kind # "data"
      BY <1>8, <2>3 DEF Data, Messages
    <3>2. e.msg.kind # "data"
      BY <1>2, <1>7, <2>3
    <3>3. \A i \in DOMAIN pending'[ip] : pending'[ip][i].msg.kind # "data"
      BY <1>5, <1>6, <3>1, <3>2
    <3> QED
      BY <2>3, <3>3 DEF Data, Messages
  <2> QED
    BY <2>2, <2>3
<1>9. NoneStranded'
  BY <1>1, <1>3, <1>8, StrandedKept
<1>10. Tables'
  <2>1. pending' \in [Next_IP -> Seq(Waiting)]
    BY <1>3, <1>5, <1>6
  <2> QED
    BY <1>3, <1>5, <2>1 DEF IInv, Tables
<1> QED
  BY <1>4, <1>9, <1>10 DEF IInv

LEMMA EmitKeeps ==
  ASSUME IInv, NEW t \in Thread, Emit(t)
  PROVE  IInv'
<1>1. /\ stage[t] = "emit"
      /\ Step(t, Rest(Tail(work[t])), Tail(work[t]), nextIP[t])
      /\ Fits(t, Rest(Tail(work[t])), Tail(work[t]), nextIP[t])
  BY EmitStep
<1>2. UNCHANGED <<header, arp, routes, awake, ignored>>
  BY DEF Emit
<1>3. Threads' /\ Missing'
  BY <1>1, <1>2, StepKeeps DEF arp, Rest
<1>4. NoneStranded'
  BY <1>1, <1>2, StrandedKept DEF arp, buffer
<1>5. Tables'
  BY <1>1, <1>2 DEF IInv, Tables, arp, buffer
<1> QED
  BY <1>3, <1>4, <1>5 DEF IInv

\* Main is about to take what waits for the address of an answer.
LEMMA handleARPPacketKeeps ==
  ASSUME IInv, NEW ip \in Hop, handleARPPacket(ip)
  PROVE  IInv'
<1>1. /\ stage["main"] = "idle" /\ "main" \in Thread
      /\ Step("main", "copy", <<>>, ip) /\ Fits("main", "copy", <<>>, ip)
  BY handleARPPacketStep DEF Thread
<1>2. /\ ARPCache' = ARPCache \cup {ip}
      /\ UNCHANGED <<header, asked, buffer, routes, awake, ignored>>
  BY DEF handleARPPacket, wires
<1>3. stage'["main"] = "copy" /\ nextIP'["main"] = ip
  BY <1>1, StepIs DEF IInv
<1>4. Threads' /\ Missing'
  BY <1>1, <1>3, StepFits DEF IInv, Missing
<1>5. ASSUME NEW q \in ARPCache' PROVE (DataFor(q) = {} \/ Taking(q))'
  <2>1. CASE q = ip
    BY <1>3, <2>1 DEF Taking
  <2>2. CASE q # ip
    BY <1>1, <1>2, <2>2 DEF IInv, NoneStranded, DataFor, Taking, Dead, buffer
  <2> QED
    BY <2>1, <2>2
<1>6. NoneStranded'
  BY <1>5 DEF NoneStranded
<1>7. Tables'
  BY <1>2 DEF IInv, Tables, buffer
<1> QED
  BY <1>4, <1>6, <1>7 DEF IInv

LEMMA CopyListKeeps ==
  ASSUME IInv, CopyList
  PROVE  IInv'
<1>1. PICK s \in {"erase", "idle"}, msgs \in Seq(Message) :
        /\ stage["main"] = "copy" /\ nextIP["main"] \in Next_IP
        /\ Step("main", s, msgs, nextIP["main"]) /\ Fits("main", s, msgs, nextIP["main"])
        /\ s = "erase" <=> nextIP["main"] \in listed
  BY CopyListStep
<1>2. /\ "main" \in Thread /\ overlapped' \in BOOLEAN
      /\ UNCHANGED <<header, ARPCache, asked, pending, listed, routes, awake, ignored>>
  BY DEF CopyList, Enter, wires, IInv, Tables, Thread
<1>3. Threads' /\ Missing'
  BY <1>1, <1>2, StepKeeps
<1>4. stage'["main"] = s /\ nextIP'["main"] = nextIP["main"]
  BY <1>1, <1>2, StepIs DEF IInv
<1>5. ASSUME NEW q \in ARPCache PROVE (DataFor(q) = {} \/ Taking(q))'
  <2>1. CASE q = nextIP["main"] /\ s = "erase"
    BY <1>4, <2>1 DEF Taking
  <2>2. CASE q = nextIP["main"] /\ s # "erase"
    <3>1. pending[q] = <<>>
      BY <1>1, <2>2 DEF IInv, Tables
    <3> QED
      BY <1>2, <3>1, NoneOfNone DEF DataFor
  <2>3. CASE q # nextIP["main"]
    BY <1>1, <1>2, <2>3 DEF IInv, NoneStranded, DataFor, Taking, Dead
  <2> QED
    BY <2>1, <2>2, <2>3
<1>6. NoneStranded'
  BY <1>2, <1>5 DEF NoneStranded
<1>7. Tables'
  BY <1>2 DEF IInv, Tables
<1> QED
  BY <1>3, <1>6, <1>7 DEF IInv

LEMMA EraseListKeeps ==
  ASSUME IInv, EraseList
  PROVE  IInv'
<1>1. /\ stage["main"] = "erase" /\ "main" \in Thread
      /\ Step("main", Rest(work["main"]), work["main"], nextIP["main"])
      /\ Fits("main", Rest(work["main"]), work["main"], nextIP["main"])
  BY EraseListStep DEF Thread
<1>2. PICK ip \in Next_IP : ip = nextIP["main"]
  BY <1>1 DEF IInv, Threads, Fits, Buffering
<1>3. /\ pending' = [pending EXCEPT ![ip] = <<>>] /\ listed' = listed \ {ip}
      /\ UNCHANGED <<header, ARPCache, asked, overlapped, routes, awake, ignored>>
  BY <1>2 DEF EraseList, wires
<1>4. Threads' /\ Missing'
  BY <1>1, <1>3, StepKeeps DEF Rest
<1>5. pending \in [Next_IP -> Seq(Waiting)]
  BY DEF IInv, Tables
<1>6. ASSUME NEW q \in Next_IP
      PROVE  pending'[q] = IF q = ip THEN <<>> ELSE pending[q]
  BY <1>3, <1>5
<1>7. ASSUME NEW q \in ARPCache PROVE DataFor(q)' = {}
  <2>1. q \in Next_IP
    BY DEF IInv, Tables, Next_IP
  <2>2. CASE q = ip
    BY <1>6, <2>1, <2>2, NoneOfNone DEF DataFor
  <2>3. CASE q # ip
    BY <1>1, <1>2, <1>6, <2>1, <2>3 DEF IInv, NoneStranded, DataFor, Taking, Dead
  <2> QED
    BY <2>2, <2>3
<1>8. NoneStranded'
  BY <1>3, <1>7 DEF NoneStranded
<1>9. Tables'
  <2>1. pending' \in [Next_IP -> Seq(Waiting)]
    BY <1>3, <1>5
  <2>2. \A q \in Next_IP \ listed' : pending'[q] = <<>>
    BY <1>3, <1>6 DEF IInv, Tables
  <2>3. listed' \subseteq Next_IP
    BY <1>3 DEF IInv, Tables
  <2> QED
    BY <1>3, <2>1, <2>2, <2>3 DEF IInv, Tables
<1> QED
  BY <1>4, <1>8, <1>9 DEF IInv

LEMMA DieKeeps ==
  ASSUME IInv, Die
  PROVE  IInv'
<1>1. /\ \A t \in Thread : stage'[t] = "dead" /\ work'[t] = <<>> /\ nextIP'[t] = nextIP[t]
      /\ pending' = [ip \in Next_IP |-> <<>>] /\ listed' = {} /\ overlapped' = TRUE
      /\ UNCHANGED <<header, ARPCache, asked, routes, nextIP, awake, ignored>>
  BY DEF Die, wires
<1>2. Threads'
  <2>1. /\ stage' \in [Thread -> Sending \cup {"idle", "copy", "erase", "dead"}]
        /\ work' \in [Thread -> Seq(Message)]
        /\ nextIP' \in [Thread -> Next_IP \cup {AllRouters}]
    BY DEF Die, IInv, Threads
  <2>2. ASSUME NEW t \in Thread PROVE Fits(t, stage'[t], work'[t], nextIP'[t])
    <3>1. nextIP'[t] \in Next_IP \cup {AllRouters}
      BY <2>1
    <3>2. <<>> \in Seq(Message)
      OBVIOUS
    <3>3. stage'[t] = "dead" /\ work'[t] = <<>>
      BY <1>1
    <3> QED
      BY <3>1, <3>2, <3>3 DEF Fits, Sending, Buffering
  <2> QED
    BY <2>1, <2>2 DEF Threads
<1>3. Missing' /\ NoneStranded'
  BY <1>1 DEF Missing, NoneStranded, Dead, Thread
<1>4. Tables'
  <2>1. pending' \in [Next_IP -> Seq(Waiting)] /\ \A ip \in Next_IP : pending'[ip] = <<>>
    BY <1>1
  <2> QED
    BY <1>1, <2>1 DEF IInv, Tables
<1> QED
  BY <1>2, <1>3, <1>4 DEF IInv

\* The sweep only takes from the lists, and what it sends is no packet of a
\* host.
LEMMA SweepKeeps ==
  ASSUME IInv, NEW ip \in Next_IP, Sweep(ip)
  PROVE  IInv'
<1>1. PICK error \in Message :
        /\ Step("sweep", "remove", <<error>>, ip) /\ Fits("sweep", "remove", <<error>>, ip)
        /\ "sweep" \in Thread
  BY SweepStepIs
<1>2. /\ overlapped' \in BOOLEAN
      /\ UNCHANGED <<header, ARPCache, asked, pending, listed, routes, awake, ignored>>
  BY DEF Sweep, Enter, wires, IInv, Tables
<1>3. Threads' /\ Missing'
  BY <1>1, <1>2, StepKeeps
<1>4. NoneStranded'
  BY <1>1, <1>2, StrandedKept
<1>5. Tables'
  BY <1>2 DEF IInv, Tables
<1> QED
  BY <1>3, <1>4, <1>5 DEF IInv

\* The sweep takes the entry it finds from a list, if there is one.
LEMMA EntryGone ==
  ASSUME NEW s \in Seq(Waiting)
  PROVE  \/ Expired(s) \in DOMAIN s
         \/ RemoveAt(s, Expired(s)) = s
<1>1. CASE Expired(s) > 0
  BY <1>1, ExpiredFound
<1>2. CASE ~(Expired(s) > 0)
  <2> DEFINE I == {i \in 1 .. Len(s) : s[i].age > PENDING_TIMEOUT}
  <2>1. Expired(s) = IF I # {} THEN Min(I) ELSE 0
    BY DEF Expired, SelectInSeq
  <2>2. I \in SUBSET Nat /\ \A i \in I : i > 0
    OBVIOUS
  <2> HIDE DEF I
  <2>3. Expired(s) = 0
    <3>1. CASE I # {}
      BY <1>2, <2>1, <2>2, <3>1, MinExists
    <3> QED
      BY <2>1, <3>1
  <2>4. SubSeq(s, 1, 0 - 1) = <<>> /\ SubSeq(s, 0 + 1, Len(s)) = s
    OBVIOUS
  <2>5. RemoveAt(s, 0) = <<>> \o s
    BY <2>4 DEF RemoveAt
  <2>6. <<>> \o s = s
    OBVIOUS
  <2> QED
    BY <2>3, <2>5, <2>6
<1> QED
  BY <1>1, <1>2

LEMMA EraseEntryKeeps ==
  ASSUME IInv, EraseEntry
  PROVE  IInv'
<1>1. /\ "sweep" \in Thread /\ nextIP["sweep"] \in Next_IP
      /\ Step("sweep", Rest(work["sweep"]), work["sweep"], nextIP["sweep"])
      /\ Fits("sweep", Rest(work["sweep"]), work["sweep"], nextIP["sweep"])
  BY EraseEntryStep DEF EraseEntry
<1>2. PICK ip \in Next_IP : ip = nextIP["sweep"]
  BY <1>1
<1>3. PICK r : r = RemoveAt(pending[ip], Expired(pending[ip]))
  OBVIOUS
<1>4. /\ ip \in listed /\ pending' = [pending EXCEPT ![ip] = r]
      /\ UNCHANGED <<header, ARPCache, asked, listed, overlapped, routes, awake, ignored>>
  BY <1>2, <1>3 DEF EraseEntry, wires
<1>5. Threads' /\ Missing'
  BY <1>1, <1>4, StepKeeps DEF Rest
<1>6. /\ pending \in [Next_IP -> Seq(Waiting)] /\ pending[ip] \in Seq(Waiting)
      /\ pending'[ip] = r /\ \A q \in Next_IP : q # ip => pending'[q] = pending[q]
  BY <1>4 DEF IInv, Tables
<1>7. r \in Seq(Waiting) /\ \A k \in DOMAIN r : \E j \in DOMAIN pending[ip] : r[k] = pending[ip][j]
  BY <1>3, <1>6, EntryGone, RemoveWaiting
<1>8. ASSUME NEW q \in ARPCache, Data(Messages(pending[q])) = {}
      PROVE  Data(Messages(pending'[q])) = {}
  <2>1. q \in Next_IP
    BY DEF IInv, Tables, Next_IP
  <2>2. CASE q # ip
    BY <1>6, <1>8, <2>1, <2>2
  <2>3. CASE q = ip
    <3>1. \A i \in DOMAIN pending[ip] : pending[ip][i].msg.kind # "data"
      BY <1>8, <2>3 DEF Data, Messages
    <3>2. \A k \in DOMAIN r : r[k].msg.kind # "data"
      BY <1>7, <3>1
    <3> QED
      BY <1>6, <2>3, <3>2 DEF Data, Messages
  <2> QED
    BY <2>2, <2>3
<1>9. NoneStranded'
  BY <1>1, <1>4, <1>8, StrandedKept
<1>10. Tables'
  <2>1. pending' \in [Next_IP -> Seq(Waiting)]
    BY <1>4, <1>6, <1>7
  <2> QED
    BY <1>4, <1>6, <2>1 DEF IInv, Tables
<1> QED
  BY <1>5, <1>9, <1>10 DEF IInv

LEMMA EraseDanglesKeeps ==
  ASSUME IInv, EraseDangles
  PROVE  IInv'
<1>1. CASE Die
  BY <1>1, DieKeeps
<1>2. CASE ~Die
  <2>1. /\ stage["sweep"] = "remove" /\ Proceed("sweep", work["sweep"])
        /\ UNCHANGED <<header, arp, routes, nextIP, awake, ignored>>
    BY <1>2 DEF EraseDangles, wires
  <2>2. /\ "sweep" \in Thread
        /\ Step("sweep", Rest(work["sweep"]), work["sweep"], nextIP["sweep"])
        /\ Fits("sweep", Rest(work["sweep"]), work["sweep"], nextIP["sweep"])
    BY <2>1, EraseEntryStep
  <2>3. Threads' /\ Missing'
    BY <2>1, <2>2, StepKeeps DEF arp, Rest
  <2>4. NoneStranded'
    BY <2>1, <2>2, StrandedKept DEF arp, buffer
  <2>5. Tables'
    BY <2>1 DEF IInv, Tables, arp, buffer
  <2> QED
    BY <2>3, <2>4, <2>5 DEF IInv
<1> QED
  BY <1>1, <1>2

LEMMA TickKeeps ==
  ASSUME IInv, Tick
  PROVE  IInv'
<1>1. /\ awake' = TRUE /\ pending' = [ip \in Next_IP |-> Older(pending[ip])]
      /\ UNCHANGED <<header, ARPCache, asked, listed, overlapped, routes, stage, work, nextIP,
                     ignored>>
      /\ stage["main"] = "idle"
  BY DEF Tick, threads, wires, Thread
<1>2. ASSUME NEW ip \in Next_IP
      PROVE  /\ pending'[ip] = Older(pending[ip])
             /\ Older(pending[ip]) \in Seq(Waiting)
             /\ DOMAIN Older(pending[ip]) = DOMAIN pending[ip]
             /\ \A i \in DOMAIN pending[ip] :
                  Older(pending[ip])[i].msg = pending[ip][i].msg
  BY <1>1, OlderType DEF IInv, Tables
<1>3. Tables'
  <2>1. pending' \in [Next_IP -> Seq(Waiting)]
    BY <1>1, <1>2
  <2>2. ASSUME NEW ip \in Next_IP \ listed PROVE pending'[ip] = <<>>
    <3>1. pending[ip] = <<>>
      BY DEF IInv, Tables
    <3>2. Older(pending[ip]) \in Seq(Waiting) /\ DOMAIN Older(pending[ip]) = {}
      BY <1>2, <3>1
    <3> QED
      BY <1>2, <3>2
  <2> QED
    BY <1>1, <2>1, <2>2 DEF IInv, Tables
<1>4. ASSUME NEW q \in ARPCache PROVE DataFor(q)' = {}
  <2>1. q \in Next_IP
    BY DEF IInv, Tables, Next_IP
  <2>2. DataFor(q) = {}
    BY <1>1 DEF IInv, NoneStranded, Taking, Dead
  <2> QED
    BY <1>2, <2>1, <2>2 DEF DataFor, Data, Messages
<1>5. NoneStranded'
  BY <1>1, <1>4 DEF NoneStranded
<1>6. Threads' /\ Missing'
  BY <1>1 DEF IInv, Threads, Missing
<1> QED
  BY <1>3, <1>5, <1>6 DEF IInv

LEMMA HelloKeeps ==
  ASSUME IInv, Hello
  PROVE  IInv'
<1>1. PICK m \in Message :
        /\ "routing" \in Thread
        /\ Step("routing", "fill", <<m>>, nextIP["routing"])
        /\ Fits("routing", "fill", <<m>>, nextIP["routing"])
  BY HelloStep
<1>2. UNCHANGED <<header, arp, routes, awake, ignored>>
  BY DEF Hello, wires
<1>3. Threads' /\ Missing'
  BY <1>1, <1>2, StepKeeps DEF arp
<1>4. NoneStranded'
  BY <1>1, <1>2, StrandedKept DEF arp, buffer
<1>5. Tables'
  BY <1>2 DEF IInv, Tables, arp, buffer
<1> QED
  BY <1>3, <1>4, <1>5 DEF IInv

LEMMA NextIInv == IInv /\ [Next]_vars => IInv'
<1> SUFFICES ASSUME IInv, [Next]_vars PROVE IInv'
  OBVIOUS
<1>1. ASSUME NEW p \in Packet, NEW h \in Traffic[p], Receive(p, h)
      PROVE  IInv'
  BY <1>1, ReceiveKeeps
<1>2. CASE Decide
  BY <1>2, DecideKeeps
<1>3. ASSUME NEW t \in Thread, Send(t)
      PROVE  IInv'
  BY <1>3, FillKeeps, LookKeeps, PendKeeps, InsertKeeps, PushBackKeeps, DieKeeps, EmitKeeps
     DEF Send, PushNowhere
<1>4. ASSUME NEW ip \in Hop, handleARPPacket(ip)
      PROVE  IInv'
  BY <1>4, handleARPPacketKeeps
<1>5. CASE TakeList
  BY <1>5, CopyListKeeps, EraseListKeeps, DieKeeps DEF TakeList, WalkDangles
<1>6. ASSUME NEW ip \in Next_IP, Sweep(ip)
      PROVE  IInv'
  BY <1>6, SweepKeeps
<1>7. CASE EraseEntry \/ EraseDangles
  BY <1>7, EraseEntryKeeps, EraseDanglesKeeps
<1>8. CASE Tick
  BY <1>8, TickKeeps
<1>9. CASE Hello
  BY <1>9, HelloKeeps
<1>10. ASSUME SweepDone \/ clearMOSPFEntry \/ \E h \in Learned : addMOSPFEntry(h)
       PROVE  IInv'
  <2>1. routes' \subseteq Host /\ awake' \in BOOLEAN
    BY <1>10, Assumed DEF SweepDone, clearMOSPFEntry, addMOSPFEntry, IInv, Tables
  <2>2. UNCHANGED <<header, arp, threads, ignored>>
    BY <1>10 DEF SweepDone, clearMOSPFEntry, addMOSPFEntry, wires
  <2> QED
    BY <2>1, <2>2 DEF IInv, Threads, Tables, Missing, NoneStranded, DataFor, Taking, Dead, arp,
       buffer, threads
<1>11. CASE UNCHANGED vars
  BY <1>11 DEF vars, arp, buffer, threads, wires, IInv, Threads, Tables, Missing, NoneStranded,
     DataFor, Taking, Dead
<1> QED
  BY <1>1, <1>2, <1>3, <1>4, <1>5, <1>6, <1>7, <1>8, <1>9, <1>10, <1>11 DEF Next, SweepStep

\* Type correctness of the tables and of what the threads are sending, however
\* the threads of sendPacket, handleARPPacket and the sweep interleave, for all
\* packets, hosts, routes and times.
THEOREM ForwardingTypes == Spec => []TypeOK
<1>1. IInv => TypeOK
  BY DEF IInv, Threads, Fits, Tables, TypeOK
<1> QED
  BY <1>1, InitIInv, NextIInv, PTL DEF Spec

\* No packet of a host waits for a MAC the router already knows, but for the
\* moment it is about to be freed: only the main thread sends such packets and
\* only it takes ARP answers (handleARPPacket), so nothing comes between its
\* finding the MAC missing (findNormalIPMacIface) and its putting the packet on
\* the list (handleARPCacheMiss), whatever the sweep does to that list meanwhile.
THEOREM ForwardingNoneStranded == Spec => []NoneStranded
<1>1. IInv => NoneStranded
  BY DEF IInv
<1> QED
  BY <1>1, InitIInv, NextIInv, PTL DEF Spec

-----------------------------------------------------------------------------
(* Where the packets are.                                                  *)

\* Where a packet, or what stands for it, can be
Place == ({"work"} \X Thread) \cup ({"pending"} \X Next_IP)
         \cup {<<"sent", NoPacket>>, <<"ignored", NoPacket>>}

\* Its positions there
At(x, p) ==
  CASE x[1] = "work"    -> About(Held(x[2]), p)
    [] x[1] = "pending" -> About(Messages(pending[x[2]]), p)
    [] x[1] = "sent"    -> About(sent, p)
    [] x[1] = "ignored" -> ignored \cap {p}

Single(S) == \E i \in S : S = {i}

\* Packet p is in one position of one place if it was taken, and nowhere else.
Sole(p) ==
  IF p \in Range(taken)
  THEN \E x \in Place : /\ Single(At(x, p))
                        /\ \A y \in Place : y # x => At(y, p) = {}
  ELSE \A x \in Place : At(x, p) = {}

\* What the sweep holds is about the entry it is to erase.
Reports(msgs, list) ==
  /\ Expired(list) \in DOMAIN list
  /\ \E v \in Message : msgs = <<v>> /\ v.about = list[Expired(list)].msg.about

\* What a thread in ARPMissPendingBuff has found there is still so.
Undisturbed ==
  /\ \A t, u \in Thread : Inside(t) /\ Inside(u) => t = u
  /\ \A t \in Thread : /\ stage[t] = "insert" => nextIP[t] \notin listed
                       /\ stage[t] = "push" => nextIP[t] \in listed
  /\ stage["main"] = "erase" => work["main"] = Messages(pending[nextIP["main"]])
  /\ stage["sweep"] = "remove" => /\ nextIP["sweep"] \in listed
                                  /\ Reports(work["sweep"], pending[nextIP["sweep"]])

Lines ==
  /\ taken \in Seq(Packet)
  /\ \A a, b \in DOMAIN taken : taken[a] = taken[b] => a = b
  /\ sent \in Seq([ip : Next_IP \cup {AllRouters}, kind : {"data", "error", "answer", "hello"},
                   about : Packet \cup {NoPacket}])

OnceInv ==
  IInv /\ Lines /\ (~overlapped => Undisturbed /\ \A p \in Packet : Sole(p))

-----------------------------------------------------------------------------
(* Positions in lists.                                                     *)

\* Every place is one of these.
LEMMA PlaceCases ==
  ASSUME NEW x \in Place
  PROVE  \/ \E t \in Thread : x = <<"work", t>>
         \/ \E ip \in Next_IP : x = <<"pending", ip>>
         \/ x = <<"sent", NoPacket>>
         \/ x = <<"ignored", NoPacket>>
  BY DEF Place

\* A packet keeps its place, or goes from place a to place b.
LEMMA Transfer ==
  ASSUME NEW p, Sole(p), taken' = taken,
         NEW a \in Place, NEW b \in Place, a # b,
         \A x \in Place : x # a /\ x # b => At(x, p)' = At(x, p),
         At(a, p) = {} /\ At(b, p) = {} => At(a, p)' = {} /\ At(b, p)' = {},
         (Single(At(a, p)) /\ At(b, p) = {}) \/ (At(a, p) = {} /\ Single(At(b, p)))
           => \/ Single(At(a, p))' /\ At(b, p)' = {}
              \/ At(a, p)' = {} /\ Single(At(b, p))'
  PROVE  Sole(p)'
<1>1. CASE p \in Range(taken)
  <2>1. PICK x \in Place : Single(At(x, p)) /\ \A y \in Place : y # x => At(y, p) = {}
    BY <1>1 DEF Sole
  <2>2. CASE x # a /\ x # b
    <3>1. At(x, p)' = At(x, p)  BY <2>2
    <3>2. Single(At(x, p))'  BY <2>1, <3>1 DEF Single
    <3>3. \A y \in Place : y # x => At(y, p)' = {}  BY <2>1, <2>2
    <3> QED  BY <1>1, <3>2, <3>3 DEF Sole
  <2>3. CASE x = a \/ x = b
    <3>1. \/ Single(At(a, p))' /\ At(b, p)' = {}
          \/ At(a, p)' = {} /\ Single(At(b, p))'
      BY <2>1, <2>3
    <3>2. \A y \in Place : y # a /\ y # b => At(y, p)' = {}  BY <2>1, <2>3
    <3>3. CASE Single(At(a, p))' /\ At(b, p)' = {}
      BY <1>1, <3>2, <3>3 DEF Sole
    <3>4. CASE At(a, p)' = {} /\ Single(At(b, p))'
      BY <1>1, <3>2, <3>4 DEF Sole
    <3> QED  BY <3>1, <3>3, <3>4
  <2> QED  BY <2>2, <2>3
<1>2. CASE p \notin Range(taken)
  <2>1. \A x \in Place : At(x, p) = {}  BY <1>2 DEF Sole
  <2>2. \A x \in Place : At(x, p)' = {}  BY <2>1
  <2> QED  BY <1>2, <2>2 DEF Sole
<1> QED  BY <1>1, <1>2

LEMMA SoleStill ==
  ASSUME NEW p, Sole(p), p \in Range(taken') <=> p \in Range(taken),
         \A x \in Place : At(x, p)' = At(x, p)
  PROVE  Sole(p)'
<1>1. CASE p \in Range(taken)
  <2>1. PICK x \in Place : Single(At(x, p)) /\ \A y \in Place : y # x => At(y, p) = {}
    BY <1>1 DEF Sole
  <2>2. At(x, p)' = At(x, p)  OBVIOUS
  <2>3. Single(At(x, p))'  BY <2>1, <2>2 DEF Single
  <2>4. \A y \in Place : y # x => At(y, p)' = {}  BY <2>1
  <2> QED  BY <1>1, <2>3, <2>4 DEF Sole
<1>2. CASE p \notin Range(taken)
  <2>1. \A x \in Place : At(x, p) = {}  BY <1>2 DEF Sole
  <2>2. \A x \in Place : At(x, p)' = {}  BY <2>1
  <2> QED  BY <1>2, <2>2 DEF Sole
<1> QED  BY <1>1, <1>2

LEMMA TailAbout ==
  ASSUME NEW p, NEW s \in Seq(Message), s # <<>>
  PROVE  /\ About(s, p) = {} => Head(s).about # p /\ About(Tail(s), p) = {}
         /\ Single(About(s, p)) =>
              \/ Head(s).about = p /\ About(Tail(s), p) = {}
              \/ Head(s).about # p /\ Single(About(Tail(s), p))
<1>1. /\ Len(s) \in Nat \ {0} /\ Head(s) = s[1] /\ DOMAIN s = 1 .. Len(s)
      /\ DOMAIN Tail(s) = 1 .. Len(s) - 1
      /\ \A k \in 1 .. Len(s) - 1 : Tail(s)[k] = s[k + 1]
  OBVIOUS
<1> DEFINE n == Len(s)  r == Tail(s)
<1>2. \A k \in About(r, p) : k + 1 \in About(s, p) /\ k \in Nat /\ k # 0
  BY <1>1 DEF About
<1>3. \A k \in About(s, p) : k \in Int /\ ((k = 1 /\ Head(s).about = p) \/ k - 1 \in About(r, p))
  <2> TAKE k \in About(s, p)
  <2>1. k \in 1 .. n /\ s[k].about = p  BY <1>1 DEF About
  <2>2. CASE k = 1  BY <1>1, <2>1, <2>2
  <2>3. CASE k # 1
    <3>1. k - 1 \in 1 .. n - 1 /\ (k - 1) + 1 = k  BY <1>1, <2>1, <2>3
    <3>2. r[k - 1] = s[k]  BY <1>1, <3>1
    <3> QED  BY <1>1, <2>1, <3>1, <3>2 DEF About
  <2> QED  BY <2>2, <2>3
<1>4. Head(s).about = p => 1 \in About(s, p)  BY <1>1 DEF About
<1> HIDE DEF n, r
<1>5. About(s, p) = {} => Head(s).about # p /\ About(r, p) = {}
  BY <1>2, <1>4
<1>6. ASSUME NEW i, About(s, p) = {i}
      PROVE  \/ Head(s).about = p /\ About(r, p) = {}
             \/ Head(s).about # p /\ \E j : About(r, p) = {j}
  <2>1. CASE Head(s).about = p
    <3>1. i = 1  BY <1>4, <1>6, <2>1
    <3>2. \A k \in About(r, p) : k + 1 = 1 /\ k \in Nat /\ k # 0  BY <1>2, <1>6, <3>1
    <3> QED  BY <2>1, <3>2
  <2>2. CASE Head(s).about # p
    <3>1. i \in Int /\ i - 1 \in About(r, p)  BY <1>3, <1>6, <2>2
    <3>2. \A k \in About(r, p) : k = i - 1  BY <1>2, <1>6, <3>1
    <3>3. About(r, p) = {i - 1}  BY <3>1, <3>2
    <3> QED  BY <2>2, <3>3
  <2> QED  BY <2>1, <2>2
<1>7. Single(About(s, p)) =>
        \/ Head(s).about = p /\ About(r, p) = {}
        \/ Head(s).about # p /\ Single(About(r, p))
  BY <1>6 DEF Single
<1> QED  BY <1>5, <1>7 DEF r

\* The positions of p in a list of waiting packets
AmongWaiting(s, p) == {i \in DOMAIN s : s[i].msg.about = p}

\* A list that gets one more
LEMMA AppendedAt ==
  ASSUME NEW S, NEW s \in Seq(S), NEW e \in S
  PROVE  /\ DOMAIN Append(s, e) = DOMAIN s \cup {Len(s) + 1} /\ Len(s) + 1 \notin DOMAIN s
         /\ Append(s, e)[Len(s) + 1] = e
         /\ \A i \in DOMAIN s : Append(s, e)[i] = s[i]
  OBVIOUS

\* A list that loses position i
LEMMA RemovedShift ==
  ASSUME NEW p, NEW s \in Seq(Waiting), NEW i \in DOMAIN s, NEW r, r = RemoveAt(s, i), NEW n, n = Len(s)
  PROVE  /\ n \in Nat /\ i \in 1 .. n /\ DOMAIN r = 1 .. n - 1
         /\ \A k \in AmongWaiting(r, p) :
              /\ k \in 1 .. n - 1
              /\ k < i => k \in AmongWaiting(s, p)
              /\ k >= i => k + 1 \in AmongWaiting(s, p)
         /\ s[i].msg.about = p <=> i \in AmongWaiting(s, p)
<1>1. /\ n \in Nat /\ DOMAIN s = 1 .. n /\ i \in 1 .. n /\ DOMAIN r = 1 .. n - 1
      /\ \A k \in 1 .. n - 1 : r[k] = IF k < i THEN s[k] ELSE s[k + 1]
  BY RemovedList
<1>2. \A k \in AmongWaiting(r, p) :
        /\ k \in 1 .. n - 1
        /\ k < i => k \in AmongWaiting(s, p)
        /\ k >= i => k + 1 \in AmongWaiting(s, p)
  BY <1>1 DEF AmongWaiting
<1>3. s[i].msg.about = p <=> i \in AmongWaiting(s, p)  BY DEF AmongWaiting
<1> QED  BY <1>1, <1>2, <1>3

LEMMA ShiftedBack ==
  ASSUME NEW p, NEW s \in Seq(Waiting), NEW i \in DOMAIN s, NEW k \in AmongWaiting(s, p), k # i
  PROVE  k \in 1 .. Len(s) /\ (IF k < i THEN k ELSE k - 1) \in AmongWaiting(RemoveAt(s, i), p)
<1>1. PICK r, n : r = RemoveAt(s, i) /\ n = Len(s)
  OBVIOUS
<1>2. /\ n \in Nat /\ DOMAIN s = 1 .. n /\ i \in 1 .. n /\ DOMAIN r = 1 .. n - 1
      /\ \A m \in 1 .. n - 1 : r[m] = IF m < i THEN s[m] ELSE s[m + 1]
  BY <1>1, RemovedList
<1>3. k \in 1 .. n /\ s[k].msg.about = p  BY <1>2 DEF AmongWaiting
<1>4. CASE k < i
  <2>1. k \in 1 .. n - 1 /\ r[k] = s[k]  BY <1>2, <1>3, <1>4
  <2> QED  BY <1>1, <1>2, <1>3, <1>4, <2>1 DEF AmongWaiting
<1>5. CASE ~(k < i)
  <2>1. k - 1 \in 1 .. n - 1 /\ ~(k - 1 < i) /\ (k - 1) + 1 = k  BY <1>2, <1>3, <1>5
  <2>2. r[k - 1] = s[k]  BY <1>2, <2>1
  <2> QED  BY <1>1, <1>2, <1>3, <1>5, <2>1, <2>2 DEF AmongWaiting
<1> QED  BY <1>4, <1>5

LEMMA RemovedNone ==
  ASSUME NEW p, NEW s \in Seq(Waiting), NEW i \in DOMAIN s, AmongWaiting(s, p) = {}
  PROVE  s[i].msg.about # p /\ AmongWaiting(RemoveAt(s, i), p) = {}
<1>1. PICK r, n : r = RemoveAt(s, i) /\ n = Len(s)
  OBVIOUS
<1>2. /\ n \in Nat /\ i \in 1 .. n /\ DOMAIN r = 1 .. n - 1
      /\ \A k \in AmongWaiting(r, p) :
           /\ k \in 1 .. n - 1
           /\ k < i => k \in AmongWaiting(s, p)
           /\ k >= i => k + 1 \in AmongWaiting(s, p)
      /\ s[i].msg.about = p <=> i \in AmongWaiting(s, p)
  BY <1>1, RemovedShift
<1>3. AmongWaiting(r, p) = {}
  BY <1>2
<1> QED  BY <1>1, <1>2, <1>3

LEMMA RemovedOne ==
  ASSUME NEW p, NEW s \in Seq(Waiting), NEW i \in DOMAIN s, Single(AmongWaiting(s, p))
  PROVE  \/ s[i].msg.about = p /\ AmongWaiting(RemoveAt(s, i), p) = {}
         \/ s[i].msg.about # p /\ Single(AmongWaiting(RemoveAt(s, i), p))
<1>0. PICK j : AmongWaiting(s, p) = {j}
  BY DEF Single
<1>1. PICK r, n : r = RemoveAt(s, i) /\ n = Len(s)
  OBVIOUS
<1>2. /\ n \in Nat /\ i \in 1 .. n /\ DOMAIN r = 1 .. n - 1
      /\ \A k \in AmongWaiting(r, p) :
           /\ k \in 1 .. n - 1
           /\ k < i => k \in AmongWaiting(s, p)
           /\ k >= i => k + 1 \in AmongWaiting(s, p)
      /\ s[i].msg.about = p <=> i \in AmongWaiting(s, p)
  BY <1>1, RemovedShift
<1>3. CASE i = j
  <2>1. ASSUME NEW k \in AmongWaiting(r, p) PROVE FALSE
    <3>1. k \in 1 .. n - 1 /\ (k < i => k = i) /\ (k >= i => k + 1 = i)
      BY <1>0, <1>2, <1>3
    <3> QED  BY <1>2, <3>1
  <2>2. s[i].msg.about = p
    BY <1>0, <1>2, <1>3
  <2>3. AmongWaiting(r, p) = {}
    BY <2>1
  <2> QED  BY <1>1, <2>2, <2>3
<1>4. CASE i # j
  <2>1. PICK m : m = IF j < i THEN j ELSE j - 1
    OBVIOUS
  <2>2. j \in AmongWaiting(s, p) /\ j # i
    BY <1>0, <1>4
  <2>3. j \in 1 .. n /\ m \in AmongWaiting(r, p)
    BY <1>1, <2>1, <2>2, ShiftedBack
  <2>4. ASSUME NEW k \in AmongWaiting(r, p) PROVE k = m
    <3>1. k \in 1 .. n - 1 /\ (k < i => k = j) /\ (k >= i => k + 1 = j)
      BY <1>0, <1>2
    <3> QED  BY <1>2, <2>1, <2>3, <3>1
  <2>5. AmongWaiting(r, p) = {m}
    BY <2>3, <2>4
  <2>6. s[i].msg.about # p
    BY <1>0, <1>2, <1>4
  <2> QED  BY <1>1, <2>5, <2>6 DEF Single
<1> QED  BY <1>3, <1>4


\* The positions of p in a list that gets one more
LEMMA AppendedWaiting ==
  ASSUME NEW p, NEW s \in Seq(Waiting), NEW e \in Waiting
  PROVE  AmongWaiting(Append(s, e), p) =
           AmongWaiting(s, p) \cup (IF e.msg.about = p THEN {Len(s) + 1} ELSE {})
  BY AppendedAt DEF AmongWaiting

LEMMA AmongIs ==
  ASSUME NEW p, NEW s
  PROVE  About(Messages(s), p) = AmongWaiting(s, p)
  BY DEF About, Messages, AmongWaiting

\* What a thread holds that is at s
HeldAs(s, msgs) == IF s \in {"erase", "remove"} THEN <<>> ELSE msgs

LEMMA StepHeld ==
  ASSUME Threads, NEW t \in Thread, NEW s, NEW msgs, NEW ip, Step(t, s, msgs, ip)
  PROVE  /\ Held(t) = HeldAs(stage[t], work[t]) /\ Held(t)' = HeldAs(s, msgs)
         /\ \A u \in Thread : u # t => Held(u)' = Held(u)
  BY StepIs DEF Held, HeldAs

\* What the places are before and after a step, for one packet
LEMMA WorkPlace ==
  ASSUME NEW p, NEW t \in Thread, NEW a, a = <<"work", t>>
  PROVE  a \in Place /\ At(a, p) = About(Held(t), p) /\ At(a, p)' = About(Held(t)', p)
  BY DEF Place, At, About

LEMMA PendingPlace ==
  ASSUME NEW p, NEW ip \in Next_IP, NEW b, b = <<"pending", ip>>
  PROVE  /\ b \in Place /\ At(b, p) = AmongWaiting(pending[ip], p)
         /\ At(b, p)' = AmongWaiting(pending'[ip], p)
<1>1. b \in Place /\ b[1] = "pending" /\ b[2] = ip
  BY DEF Place
<1>2. At(b, p) = About(Messages(pending[ip]), p)
  BY <1>1 DEF At
<1>3. At(b, p)' = About(Messages(pending'[ip]), p)
  BY <1>1 DEF At, About, Messages
<1> QED
  BY <1>1, <1>2, <1>3, AmongIs

LEMMA SentPlace ==
  ASSUME NEW p, NEW b, b = <<"sent", NoPacket>>
  PROVE  b \in Place /\ At(b, p) = About(sent, p) /\ At(b, p)' = About(sent', p)
  BY DEF Place, At, About

LEMMA IgnoredPlace ==
  ASSUME NEW p, NEW b, b = <<"ignored", NoPacket>>
  PROVE  b \in Place /\ At(b, p) = ignored \cap {p} /\ At(b, p)' = ignored' \cap {p}
  BY DEF Place, At

\* A place nothing happens to
LEMMA Untouched ==
  ASSUME NEW p, NEW x \in Place,
         \A t \in Thread : x = <<"work", t>> => About(Held(t)', p) = About(Held(t), p),
         \A ip \in Next_IP : x = <<"pending", ip>> =>
            AmongWaiting(pending'[ip], p) = AmongWaiting(pending[ip], p),
         x = <<"sent", NoPacket>> => sent' = sent,
         x = <<"ignored", NoPacket>> => ignored' \cap {p} = ignored \cap {p}
  PROVE  At(x, p)' = At(x, p)
<1>1. ASSUME NEW t \in Thread, x = <<"work", t>> PROVE At(x, p)' = At(x, p)
  <2>1. About(Held(t)', p) = About(Held(t), p)  BY <1>1
  <2> QED  BY <1>1, <2>1, WorkPlace
<1>2. ASSUME NEW ip \in Next_IP, x = <<"pending", ip>> PROVE At(x, p)' = At(x, p)
  <2>1. AmongWaiting(pending'[ip], p) = AmongWaiting(pending[ip], p)  BY <1>2
  <2> QED  BY <1>2, <2>1, PendingPlace
<1>3. CASE x = <<"sent", NoPacket>>
  <2>1. sent' = sent  BY <1>3
  <2>2. At(x, p) = About(sent, p) /\ At(x, p)' = About(sent', p)  BY <1>3, SentPlace
  <2> QED  BY <2>1, <2>2
<1>4. CASE x = <<"ignored", NoPacket>>
  BY <1>4, IgnoredPlace
<1> QED  BY <1>1, <1>2, <1>3, <1>4, PlaceCases

\* One position of one list may be given up for a new one elsewhere.
LEMMA Moved ==
  ASSUME NEW p, Sole(p), taken' = taken,
         NEW a \in Place, NEW b \in Place, a # b,
         \A x \in Place : x # a /\ x # b => At(x, p)' = At(x, p),
         NEW k, NEW moves \in BOOLEAN,
         At(a, p) = {} => ~moves /\ At(a, p)' = {},
         Single(At(a, p)) => \/ moves /\ At(a, p)' = {}
                             \/ ~moves /\ Single(At(a, p))',
         At(b, p)' = At(b, p) \cup (IF moves THEN {k} ELSE {})
  PROVE  Sole(p)'
<1>1. At(a, p) = {} /\ At(b, p) = {} => At(a, p)' = {} /\ At(b, p)' = {}
  OBVIOUS
<1>2. CASE moves
  <2>1. At(b, p) = {} => At(b, p)' = {k}
    BY <1>2
  <2>2. At(b, p) = {} => Single(At(b, p))'
    BY <2>1 DEF Single
  <2> QED
    BY <1>1, <1>2, <2>2, Transfer
<1>3. CASE ~moves
  <2>1. At(b, p)' = At(b, p)
    BY <1>3
  <2>2. Single(At(b, p)) => Single(At(b, p))'
    BY <2>1 DEF Single
  <2> QED
    BY <1>1, <1>3, <2>1, <2>2, Transfer
<1> QED
  BY <1>2, <1>3

\* A thread goes on with what it holds, or with nothing about p.
LEMMA SoleGoesOn ==
  ASSUME Threads, NEW p, Sole(p), NEW t \in Thread, NEW s, NEW msgs, NEW ip,
         Step(t, s, msgs, ip), About(HeldAs(s, msgs), p) = About(Held(t), p),
         UNCHANGED <<pending, taken, sent, ignored>>
  PROVE  Sole(p)'
<1>1. \A u \in Thread : About(Held(u)', p) = About(Held(u), p)
  <2>1. Held(t)' = HeldAs(s, msgs) /\ \A u \in Thread : u # t => Held(u)' = Held(u)
    BY StepHeld
  <2> QED  BY <2>1
<1>2. ASSUME NEW x \in Place PROVE At(x, p)' = At(x, p)
  BY <1>1, Untouched
<1> QED  BY <1>2, SoleStill

\* The first message of a thread leaves it.
LEMMA HeadLeaves ==
  ASSUME Threads, NEW p, Sole(p), taken' = taken, NEW t \in Thread, work[t] # <<>>,
         stage[t] \notin {"erase", "remove"},
         Step(t, Rest(Tail(work[t])), Tail(work[t]), nextIP[t]),
         NEW b \in Place, b # <<"work", t>>,
         \A x \in Place : x # <<"work", t>> /\ x # b => At(x, p)' = At(x, p),
         NEW k, At(b, p)' = At(b, p) \cup (IF Head(work[t]).about = p THEN {k} ELSE {})
  PROVE  Sole(p)'
<1>1. PICK a, m : a = <<"work", t>> /\ m = Head(work[t])
  OBVIOUS
<1>2. Held(t) = work[t] /\ Held(t)' = Tail(work[t])
  BY StepHeld DEF HeldAs, Rest
<1>3. a \in Place /\ At(a, p) = About(work[t], p) /\ At(a, p)' = About(Tail(work[t]), p)
  BY <1>1, <1>2, WorkPlace
<1>4. work[t] \in Seq(Message)
  BY DEF Threads
<1>5. /\ About(work[t], p) = {} => m.about # p /\ About(Tail(work[t]), p) = {}
      /\ Single(About(work[t], p)) =>
           \/ m.about = p /\ About(Tail(work[t]), p) = {}
           \/ m.about # p /\ Single(About(Tail(work[t]), p))
  BY <1>1, <1>4, TailAbout
<1>6. PICK moves \in BOOLEAN : moves <=> m.about = p
  <2>1. CASE m.about = p
    BY <2>1
  <2>2. CASE m.about # p
    BY <2>2
  <2> QED  BY <2>1, <2>2
<1>7. At(b, p)' = At(b, p) \cup (IF moves THEN {k} ELSE {})
  BY <1>1, <1>6
<1>8. /\ At(a, p) = {} => ~moves /\ At(a, p)' = {}
      /\ Single(At(a, p)) => \/ moves /\ At(a, p)' = {}
                             \/ ~moves /\ Single(At(a, p))'
  <2>1. Single(At(a, p)) <=> Single(About(work[t], p))
    BY <1>3 DEF Single
  <2>2. Single(At(a, p))' <=> Single(About(Tail(work[t]), p))
    BY <1>3 DEF Single
  <2> QED
    BY <1>3, <1>5, <1>6, <2>1, <2>2
<1>9. a # b /\ \A x \in Place : x # a /\ x # b => At(x, p)' = At(x, p)
  BY <1>1
<1> QED
  BY <1>3, <1>7, <1>8, <1>9, Moved

LEMMA SolePushBack ==
  ASSUME IInv, NEW p \in Packet, Sole(p), NEW t \in Thread, PushBack(t)
  PROVE  Sole(p)'
<1>1. /\ stage[t] = "push" /\ work[t] # <<>> /\ work[t] \in Seq(Message)
      /\ Step(t, Rest(Tail(work[t])), Tail(work[t]), nextIP[t])
  BY PushBackStep
<1>2. PICK ip \in Next_IP, e \in Waiting :
        ip = nextIP[t] /\ e = [msg |-> Head(work[t]), age |-> 0]
  BY PushBackStep
<1>3. PICK b : b = <<"pending", ip>>
  OBVIOUS
<1>4. e.msg = Head(work[t])
  BY <1>2
<1>5. /\ pending' = [pending EXCEPT ![ip] = Append(@, e)]
      /\ taken' = taken /\ sent' = sent /\ ignored' = ignored
  BY <1>2 DEF PushBack, wires
<1>6. /\ pending[ip] \in Seq(Waiting) /\ pending'[ip] = Append(pending[ip], e)
      /\ \A q \in Next_IP : q # ip => pending'[q] = pending[q]
  BY <1>2, <1>5 DEF IInv, Tables
<1>7. \A u \in Thread : u # t => Held(u)' = Held(u)
  BY <1>1, StepHeld DEF IInv
<1>8. /\ b \in Place /\ b # <<"work", t>>
      /\ At(b, p) = AmongWaiting(pending[ip], p)
      /\ At(b, p)' = AmongWaiting(Append(pending[ip], e), p)
  BY <1>2, <1>3, <1>6, PendingPlace
<1>9. PICK k : k = Len(pending[ip]) + 1
  OBVIOUS
<1>10. At(b, p)' = At(b, p) \cup (IF Head(work[t]).about = p THEN {k} ELSE {})
  BY <1>4, <1>6, <1>8, <1>9, AppendedWaiting
<1>11. ASSUME NEW x \in Place, x # <<"work", t>>, x # b PROVE At(x, p)' = At(x, p)
  BY <1>3, <1>5, <1>6, <1>7, <1>11, Untouched
<1>12. stage[t] \notin {"erase", "remove"}
  BY <1>1
<1> QED
  BY <1>1, <1>5, <1>8, <1>10, <1>11, <1>12, HeadLeaves DEF IInv

LEMMA SoleEmit ==
  ASSUME IInv, Lines, NEW p \in Packet, Sole(p), NEW t \in Thread, Emit(t)
  PROVE  Sole(p)'
<1>1. /\ stage[t] = "emit" /\ work[t] # <<>> /\ work[t] \in Seq(Message)
      /\ Step(t, Rest(Tail(work[t])), Tail(work[t]), nextIP[t])
  BY EmitStep
<1>2. PICK m, s, b : /\ m = Head(work[t])
                     /\ s = [ip |-> nextIP[t], kind |-> m.kind, about |-> m.about]
                     /\ b = <<"sent", NoPacket>>
  OBVIOUS
<1>3. /\ sent' = Append(sent, s)
      /\ taken' = taken /\ pending' = pending /\ ignored' = ignored
  BY <1>2 DEF Emit, arp, buffer
<1>4. \A u \in Thread : u # t => Held(u)' = Held(u)
  BY <1>1, StepHeld DEF IInv
<1>5. b \in Place /\ b # <<"work", t>> /\ At(b, p) = About(sent, p) /\ At(b, p)' = About(sent', p)
  BY <1>2, SentPlace
<1>6. PICK k : k = Len(sent) + 1
  OBVIOUS
<1>7. s.about = m.about
  BY <1>2
<1>8. /\ DOMAIN sent' = DOMAIN sent \cup {k} /\ k \notin DOMAIN sent /\ sent'[k] = s
      /\ \A i \in DOMAIN sent : sent'[i] = sent[i]
  BY <1>3, <1>6 DEF Lines
<1>9. About(sent', p) = About(sent, p) \cup (IF m.about = p THEN {k} ELSE {})
  BY <1>7, <1>8 DEF About
<1>10. ASSUME NEW x \in Place, x # <<"work", t>>, x # b PROVE At(x, p)' = At(x, p)
  BY <1>2, <1>3, <1>4, <1>10, Untouched
<1>11. stage[t] \notin {"erase", "remove"}
  BY <1>1
<1>12. At(b, p)' = At(b, p) \cup (IF Head(work[t]).about = p THEN {k} ELSE {})
  BY <1>2, <1>5, <1>9
<1> QED
  BY <1>1, <1>3, <1>5, <1>10, <1>11, <1>12, HeadLeaves DEF IInv

\* Main's copy of a list takes the place of the list.
LEMMA SoleEraseList ==
  ASSUME IInv, Undisturbed, NEW p \in Packet, Sole(p), EraseList
  PROVE  Sole(p)'
<1>1. /\ stage["main"] = "erase" /\ "main" \in Thread
      /\ Step("main", Rest(work["main"]), work["main"], nextIP["main"])
  BY EraseListStep DEF Thread
<1>2. PICK ip \in Next_IP : ip = nextIP["main"]
  BY <1>1 DEF IInv, Threads, Fits, Buffering
<1>3. PICK a, b : a = <<"pending", ip>> /\ b = <<"work", "main">>
  OBVIOUS
<1>4. /\ pending' = [pending EXCEPT ![ip] = <<>>]
      /\ taken' = taken /\ sent' = sent /\ ignored' = ignored
  BY <1>2 DEF EraseList, wires
<1>5. /\ pending'[ip] = <<>> /\ \A q \in Next_IP : q # ip => pending'[q] = pending[q]
  BY <1>4 DEF IInv, Tables
<1>6. /\ Held("main") = <<>> /\ Held("main")' = work["main"]
      /\ \A u \in Thread : u # "main" => Held(u)' = Held(u)
  BY <1>1, StepHeld DEF IInv, HeldAs, Rest
<1>7. work["main"] = Messages(pending[ip])
  BY <1>1, <1>2 DEF Undisturbed
<1>8. a \in Place /\ At(a, p) = AmongWaiting(pending[ip], p) /\ At(a, p)' = AmongWaiting(<<>>, p)
  BY <1>2, <1>3, <1>5, PendingPlace
<1>9. b \in Place /\ At(b, p) = About(<<>>, p) /\ At(b, p)' = AmongWaiting(pending[ip], p)
  <2>1. At(b, p)' = About(work["main"], p)
    BY <1>1, <1>3, <1>6, WorkPlace
  <2> QED
    BY <1>1, <1>3, <1>6, <1>7, <2>1, WorkPlace, AmongIs
<1>10. About(<<>>, p) = {} /\ AmongWaiting(<<>>, p) = {}
  BY DEF About, AmongWaiting
<1>11. a # b
  BY <1>3
<1>12. ASSUME NEW x \in Place, x # a, x # b PROVE At(x, p)' = At(x, p)
  BY <1>1, <1>3, <1>4, <1>5, <1>6, <1>12, Untouched
<1>13. At(a, p)' = {} /\ At(b, p) = {} /\ At(b, p)' = At(a, p)
  BY <1>8, <1>9, <1>10
<1>14. /\ Single(At(a, p)) => Single(At(b, p))'
       /\ ~Single(At(b, p))
  BY <1>13 DEF Single
<1>15. At(a, p) = {} /\ At(b, p) = {} => At(a, p)' = {} /\ At(b, p)' = {}
  BY <1>13
<1> QED
  BY <1>4, <1>8, <1>9, <1>11, <1>12, <1>13, <1>14, <1>15, Transfer

\* The report of the sweep takes the place of the entry it is about.
LEMMA SoleEraseEntry ==
  ASSUME IInv, Undisturbed, NEW p \in Packet, Sole(p), EraseEntry
  PROVE  Sole(p)'
<1>1. /\ stage["sweep"] = "remove" /\ "sweep" \in Thread /\ nextIP["sweep"] \in Next_IP
      /\ Step("sweep", Rest(work["sweep"]), work["sweep"], nextIP["sweep"])
  BY EraseEntryStep DEF EraseEntry
<1>2. PICK ip \in Next_IP : ip = nextIP["sweep"]
  BY <1>1
<1>3. PICK i, a, b : i = Expired(pending[ip]) /\ a = <<"pending", ip>> /\ b = <<"work", "sweep">>
  OBVIOUS
<1>4. PICK error \in Message :
        work["sweep"] = <<error>> /\ error.about = pending[ip][i].msg.about
  BY <1>1, <1>2, <1>3 DEF Undisturbed, Reports
<1>5. i \in DOMAIN pending[ip] /\ pending[ip] \in Seq(Waiting)
  BY <1>1, <1>2, <1>3 DEF Undisturbed, Reports, IInv, Tables
<1>6. PICK e : e = pending[ip][i].msg
  OBVIOUS
<1>7. /\ pending' = [pending EXCEPT ![ip] = RemoveAt(@, i)]
      /\ taken' = taken /\ sent' = sent /\ ignored' = ignored
  BY <1>2, <1>3 DEF EraseEntry, wires
<1>8. /\ pending'[ip] = RemoveAt(pending[ip], i)
      /\ \A q \in Next_IP : q # ip => pending'[q] = pending[q]
  BY <1>7 DEF IInv, Tables
<1>9. /\ Held("sweep") = <<>> /\ Held("sweep")' = <<error>>
      /\ \A u \in Thread : u # "sweep" => Held(u)' = Held(u)
  BY <1>1, <1>4, StepHeld DEF IInv, HeldAs, Rest
<1>10. /\ a \in Place /\ At(a, p) = AmongWaiting(pending[ip], p)
       /\ At(a, p)' = AmongWaiting(RemoveAt(pending[ip], i), p)
  BY <1>3, <1>8, PendingPlace
<1>11. b \in Place /\ At(b, p) = About(<<>>, p) /\ At(b, p)' = About(<<error>>, p)
  BY <1>1, <1>3, <1>9, WorkPlace
<1>12. PICK moves \in BOOLEAN : moves <=> e.about = p
  <2>1. CASE e.about = p
    BY <2>1
  <2>2. CASE e.about # p
    BY <2>2
  <2> QED  BY <2>1, <2>2
<1>13. About(<<>>, p) = {} /\ About(<<error>>, p) = IF moves THEN {1} ELSE {}
  BY <1>4, <1>6, <1>12 DEF About
<1>14. At(b, p)' = At(b, p) \cup (IF moves THEN {1} ELSE {})
  BY <1>11, <1>13
<1>15. a # b
  BY <1>3
<1>16. ASSUME NEW x \in Place, x # a, x # b PROVE At(x, p)' = At(x, p)
  BY <1>3, <1>7, <1>8, <1>9, <1>16, Untouched
<1>17. PICK s, r : s = pending[ip] /\ r = RemoveAt(s, i)
  OBVIOUS
<1>18. /\ AmongWaiting(s, p) = {} => e.about # p /\ AmongWaiting(r, p) = {}
       /\ Single(AmongWaiting(s, p)) =>
            \/ e.about = p /\ AmongWaiting(r, p) = {}
            \/ e.about # p /\ Single(AmongWaiting(r, p))
  BY <1>5, <1>6, <1>17, RemovedNone, RemovedOne
<1>19. At(a, p) = AmongWaiting(s, p) /\ At(a, p)' = AmongWaiting(r, p)
  BY <1>10, <1>17
<1>20. /\ Single(At(a, p)) <=> Single(AmongWaiting(s, p))
       /\ Single(At(a, p))' <=> Single(AmongWaiting(r, p))
  BY <1>19 DEF Single
<1>21. /\ At(a, p) = {} => ~moves /\ At(a, p)' = {}
       /\ Single(At(a, p)) => \/ moves /\ At(a, p)' = {}
                              \/ ~moves /\ Single(At(a, p))'
  BY <1>12, <1>18, <1>19, <1>20
<1> QED
  BY <1>7, <1>10, <1>11, <1>14, <1>15, <1>16, <1>21, Moved

\* No step moves it.
LEMMA SoleElsewhere ==
  ASSUME IInv, Undisturbed, NEW p \in Packet, Sole(p),
         \/ \E t \in Thread : Fill(t) \/ Look(t) \/ Pend(t) \/ Insert(t)
         \/ CopyList \/ \E ip \in Hop : handleARPPacket(ip)
         \/ \E ip \in Next_IP : Sweep(ip)
         \/ SweepDone \/ clearMOSPFEntry \/ \E h \in Learned : addMOSPFEntry(h)
         \/ Tick \/ Hello \/ UNCHANGED vars
  PROVE  Sole(p)'
<1> USE DEF wires, arp, buffer
<1>0. About(<<>>, p) = {} /\ "main" \in Thread /\ Threads
  BY DEF About, Thread, IInv
<1>1. taken' = taken /\ sent' = sent /\ ignored' = ignored
  BY DEF Fill, Look, Pend, Insert, CopyList, handleARPPacket, Sweep, SweepDone, clearMOSPFEntry,
     addMOSPFEntry, Tick, Hello, vars
<1>2. ASSUME NEW t \in Thread, Fill(t) PROVE Sole(p)'
  <2>1. Held(t) = work[t] /\ HeldAs("look", work[t]) = work[t] /\ Step(t, "look", work[t], nextIP[t])
    BY <1>2, FillStep DEF Held, HeldAs
  <2>2. pending' = pending
    BY <1>2 DEF Fill
  <2> QED  BY <1>0, <1>1, <2>1, <2>2, SoleGoesOn
<1>3. ASSUME NEW t \in Thread, Look(t) PROVE Sole(p)'
  <2>1. PICK s \in {"pend", "emit"}, ip \in Next_IP \cup {AllRouters} :
          stage[t] = "look" /\ Step(t, s, work[t], ip)
    BY <1>3, LookStep
  <2>2. Held(t) = work[t] /\ HeldAs(s, work[t]) = work[t]
    BY <2>1 DEF Held, HeldAs
  <2>3. pending' = pending
    BY <1>3 DEF Look
  <2> QED  BY <1>0, <1>1, <2>1, <2>2, <2>3, SoleGoesOn
<1>4. ASSUME NEW t \in Thread, Pend(t) PROVE Sole(p)'
  <2>1. PICK s \in {"insert", "push"} : stage[t] = "pend" /\ Step(t, s, work[t], nextIP[t])
    BY <1>4, PendStep
  <2>2. Held(t) = work[t] /\ HeldAs(s, work[t]) = work[t]
    BY <2>1 DEF Held, HeldAs
  <2>3. pending' = pending
    BY <1>4 DEF Pend
  <2> QED  BY <1>0, <1>1, <2>1, <2>2, <2>3, SoleGoesOn
<1>5. ASSUME NEW t \in Thread, Insert(t) PROVE Sole(p)'
  <2>1. /\ stage[t] = "insert" /\ Step(t, "push", work[t], nextIP[t]) /\ nextIP[t] \in Next_IP
    BY <1>5, InsertStep
  <2>2. Held(t) = work[t] /\ HeldAs("push", work[t]) = work[t]
    BY <2>1 DEF Held, HeldAs
  <2>3. pending[nextIP[t]] = <<>>
    BY <2>1 DEF Undisturbed, IInv, Tables
  <2>4. pending' = pending
    BY <1>5, <2>1, <2>3 DEF Insert, IInv, Tables
  <2> QED  BY <1>0, <1>1, <2>1, <2>2, <2>4, SoleGoesOn
<1>6. ASSUME NEW ip \in Hop, handleARPPacket(ip) PROVE Sole(p)'
  <2>1. /\ stage["main"] = "idle" /\ Step("main", "copy", <<>>, ip)
    BY <1>6, handleARPPacketStep
  <2>2. Held("main") = <<>> /\ HeldAs("copy", <<>>) = <<>>
    BY <1>0, <2>1 DEF Held, HeldAs, Threads, Fits
  <2>3. pending' = pending
    BY <1>6 DEF handleARPPacket
  <2> QED  BY <1>0, <1>1, <2>1, <2>2, <2>3, SoleGoesOn
<1>7. CASE CopyList
  <2>1. PICK s \in {"erase", "idle"}, msgs \in Seq(Message) :
          /\ Step("main", s, msgs, nextIP["main"]) /\ Fits("main", s, msgs, nextIP["main"])
          /\ stage["main"] = "copy" /\ work["main"] = <<>>
    BY <1>7, CopyListStep
  <2>2. Held("main") = <<>> /\ HeldAs(s, msgs) = <<>>
    BY <2>1 DEF Held, HeldAs, Fits
  <2>3. pending' = pending
    BY <1>7 DEF CopyList
  <2> QED  BY <1>0, <1>1, <2>1, <2>2, <2>3, SoleGoesOn
<1>8. ASSUME NEW ip \in Next_IP, Sweep(ip) PROVE Sole(p)'
  <2>1. PICK msgs : /\ Step("sweep", "remove", msgs, ip) /\ "sweep" \in Thread
                    /\ stage["sweep"] = "idle" /\ work["sweep"] = <<>>
    BY <1>8, SweepStepIs
  <2>2. Held("sweep") = <<>> /\ HeldAs("remove", msgs) = <<>>
    BY <2>1 DEF Held, HeldAs
  <2>3. pending' = pending
    BY <1>8 DEF Sweep
  <2> QED  BY <1>0, <1>1, <2>1, <2>2, <2>3, SoleGoesOn
<1>9. CASE Hello
  <2>1. PICK m \in Message : /\ m.about = NoPacket /\ work["routing"] = <<>>
                             /\ stage["routing"] = "idle" /\ "routing" \in Thread
                             /\ Step("routing", "fill", <<m>>, nextIP["routing"])
    BY <1>9, HelloStep
  <2>2. m.about # p
    BY <2>1, ForwardingAssumption DEF ForwardingAssumption
  <2>3. About(<<m>>, p) = {}
    BY <2>2 DEF About
  <2>4. Held("routing") = <<>> /\ HeldAs("fill", <<m>>) = <<m>>
    BY <2>1 DEF Held, HeldAs
  <2>5. pending' = pending
    BY <1>9 DEF Hello
  <2> QED  BY <1>0, <1>1, <2>1, <2>3, <2>4, <2>5, SoleGoesOn
<1>10. CASE Tick
  <2>1. /\ UNCHANGED <<stage, work>>
        /\ \A ip \in Next_IP : pending'[ip] = Older(pending[ip]) /\ pending[ip] \in Seq(Waiting)
    BY <1>10 DEF Tick, threads, IInv, Tables
  <2>2. \A t \in Thread : Held(t)' = Held(t)
    BY <2>1 DEF Held
  <2>3. ASSUME NEW ip \in Next_IP
        PROVE  AmongWaiting(pending'[ip], p) = AmongWaiting(pending[ip], p)
    BY <2>1, OlderType DEF AmongWaiting
  <2>4. ASSUME NEW x \in Place PROVE At(x, p)' = At(x, p)
    BY <1>1, <2>2, <2>3, Untouched
  <2> QED  BY <1>1, <2>4, SoleStill
<1>11. CASE SweepDone \/ clearMOSPFEntry \/ (\E h \in Learned : addMOSPFEntry(h)) \/ UNCHANGED vars
  <2>1. UNCHANGED <<stage, work, pending>>
    BY <1>11 DEF SweepDone, clearMOSPFEntry, addMOSPFEntry, vars, threads
  <2>2. \A t \in Thread : Held(t)' = Held(t)
    BY <2>1 DEF Held
  <2>3. ASSUME NEW x \in Place PROVE At(x, p)' = At(x, p)
    BY <1>1, <2>1, <2>2, Untouched
  <2> QED  BY <1>1, <2>3, SoleStill
<1> QED
  BY <1>2, <1>3, <1>4, <1>5, <1>6, <1>7, <1>8, <1>9, <1>10, <1>11

\* A verdict is about the packet it is of, and there is none only if the packet
\* is ignored.
LEMMA VerdictAbout ==
  ASSUME NEW h, NEW m
  PROVE  \/ Verdict(h, m) = <<>>
         \/ \E v : Verdict(h, m) = <<v>> /\ v.about = m.about
  BY DEF Verdict, ICMP

LEMMA SoleDecide ==
  ASSUME IInv, NEW p \in Packet, Sole(p), Decide
  PROVE  Sole(p)'
<1>1. PICK msgs \in Seq(Message) :
        /\ Len(work["main"]) = 1 /\ work["main"] \in Seq(Message)
        /\ msgs = Verdict(header, work["main"][1])
        /\ Step("main", Rest(msgs), msgs, nextIP["main"])
        /\ ignored' = IF msgs = <<>> THEN ignored \cup {work["main"][1].about} ELSE ignored
  BY DecideStep
<1>2. PICK m : m = work["main"][1]
  OBVIOUS
<1>3. DOMAIN work["main"] = {1} /\ "main" \in Thread
  BY <1>1 DEF Thread
<1>4. /\ taken' = taken /\ sent' = sent /\ pending' = pending /\ stage["main"] = "decide"
      /\ ignored' = IF msgs = <<>> THEN ignored \cup {m.about} ELSE ignored
  BY <1>1, <1>2 DEF Decide, arp, buffer
<1>5. Held("main") = work["main"] /\ Held("main")' = msgs
      /\ \A u \in Thread : u # "main" => Held(u)' = Held(u)
  BY <1>1, <1>3, <1>4, StepHeld DEF IInv, HeldAs, Rest
<1>6. PICK a, b : a = <<"work", "main">> /\ b = <<"ignored", NoPacket>>
  OBVIOUS
<1>7. a \in Place /\ At(a, p) = About(work["main"], p) /\ At(a, p)' = About(msgs, p)
  BY <1>3, <1>5, <1>6, WorkPlace
<1>8. b \in Place /\ At(b, p) = ignored \cap {p} /\ At(b, p)' = ignored' \cap {p} /\ a # b
  BY <1>6, IgnoredPlace
<1>9. About(work["main"], p) = IF m.about = p THEN {1} ELSE {}
  BY <1>2, <1>3 DEF About
<1>10. ASSUME NEW x \in Place, x # a, x # b PROVE At(x, p)' = At(x, p)
  BY <1>4, <1>5, <1>6, <1>10, Untouched
<1>11. CASE msgs = <<>>
  <2>1. About(msgs, p) = {}
    BY <1>11 DEF About
  <2>2. PICK moves \in BOOLEAN : moves <=> m.about = p
    <3>1. CASE m.about = p
      BY <3>1
    <3>2. CASE m.about # p
      BY <3>2
    <3> QED  BY <3>1, <3>2
  <2>3. At(b, p)' = At(b, p) \cup (IF moves THEN {p} ELSE {})
    BY <1>4, <1>8, <1>11, <2>2
  <2>4. /\ At(a, p) = {} => ~moves /\ At(a, p)' = {}
        /\ Single(At(a, p)) => \/ moves /\ At(a, p)' = {}
                               \/ ~moves /\ Single(At(a, p))'
    <3>1. ~moves => ~Single(At(a, p))
      BY <1>7, <1>9, <2>2 DEF Single
    <3> QED  BY <1>7, <1>9, <2>1, <2>2, <3>1
  <2> QED
    BY <1>4, <1>7, <1>8, <1>10, <2>3, <2>4, Moved
<1>12. CASE msgs # <<>>
  <2>1. PICK v : msgs = <<v>> /\ v.about = m.about
    BY <1>1, <1>2, <1>12, VerdictAbout
  <2>2. About(msgs, p) = IF m.about = p THEN {1} ELSE {}
    BY <2>1 DEF About
  <2>3. At(a, p)' = At(a, p) /\ At(b, p)' = At(b, p)
    BY <1>4, <1>7, <1>8, <1>9, <1>12, <2>2
  <2>4. ASSUME NEW x \in Place PROVE At(x, p)' = At(x, p)
    <3>1. CASE x = a \/ x = b
      BY <2>3, <3>1
    <3> QED  BY <1>10, <3>1
  <2> QED
    BY <1>4, <2>4, SoleStill
<1> QED
  BY <1>11, <1>12

LEMMA SoleReceive ==
  ASSUME IInv, Lines, NEW p \in Packet, Sole(p), NEW q \in Packet, NEW h \in Traffic[q],
         Receive(q, h)
  PROVE  Sole(p)'
<1>1. PICK m \in Message : /\ m.about = q /\ stage["main"] = "idle"
                           /\ Step("main", "decide", <<m>>, nextIP["main"])
  BY ReceiveStep
<1>2. /\ q \notin Range(taken) /\ taken' = Append(taken, q)
      /\ pending' = pending /\ sent' = sent /\ ignored' = ignored
  BY DEF Receive, arp, buffer
<1>3. "main" \in Thread /\ work["main"] = <<>>
  BY <1>1 DEF Thread, IInv, Threads, Fits
<1>4. /\ Held("main") = <<>> /\ Held("main")' = <<m>>
      /\ \A u \in Thread : u # "main" => Held(u)' = Held(u)
  BY <1>1, <1>3, StepHeld DEF IInv, HeldAs
<1>5. PICK a : a = <<"work", "main">>
  OBVIOUS
<1>6. a \in Place /\ At(a, p) = About(<<>>, p) /\ At(a, p)' = About(<<m>>, p)
  BY <1>3, <1>4, <1>5, WorkPlace
<1>7. About(<<>>, p) = {} /\ About(<<m>>, p) = IF q = p THEN {1} ELSE {}
  BY <1>1 DEF About
<1>8. ASSUME NEW x \in Place, x # a PROVE At(x, p)' = At(x, p)
  BY <1>2, <1>4, <1>5, <1>8, Untouched
<1>9. Range(taken') = Range(taken) \cup {q}
  <2>1. PICK k : k = Len(taken) + 1
    OBVIOUS
  <2>2. /\ DOMAIN taken' = DOMAIN taken \cup {k} /\ k \notin DOMAIN taken /\ taken'[k] = q
        /\ \A i \in DOMAIN taken : taken'[i] = taken[i]
    BY <1>2, <2>1 DEF Lines
  <2> QED  BY <2>2 DEF Range
<1>10. CASE p = q
  <2>1. \A x \in Place : At(x, p) = {}
    BY <1>2, <1>10 DEF Sole
  <2>2. At(a, p)' = {1}
    BY <1>6, <1>7, <1>10
  <2>3. Single(At(a, p))'
    BY <2>2 DEF Single
  <2>4. \A x \in Place : x # a => At(x, p)' = {}
    BY <1>8, <2>1
  <2>5. p \in Range(taken')
    BY <1>9, <1>10
  <2> QED  BY <1>6, <2>3, <2>4, <2>5 DEF Sole
<1>11. CASE p # q
  <2>1. \A x \in Place : At(x, p)' = At(x, p)
    BY <1>6, <1>7, <1>8, <1>11
  <2>2. p \in Range(taken') <=> p \in Range(taken)
    BY <1>9, <1>11
  <2> QED
    BY <2>1, <2>2, SoleStill
<1> QED
  BY <1>10, <1>11

-----------------------------------------------------------------------------
(* Every packet in one place.                                              *)

LEMMA InitSole == Init => Lines /\ Undisturbed /\ \A p \in Packet : Sole(p)
<1> SUFFICES ASSUME Init PROVE Lines /\ Undisturbed /\ \A p \in Packet : Sole(p)
  OBVIOUS
<1>1. /\ taken = <<>> /\ sent = <<>> /\ ignored = {}
      /\ \A t \in Thread : work[t] = <<>> /\ stage[t] = "idle"
      /\ \A ip \in Next_IP : pending[ip] = <<>>
  BY DEF Init
<1>2. Lines
  BY <1>1 DEF Lines
<1>3. Undisturbed
  BY <1>1 DEF Undisturbed, Inside, Buffering, Thread
<1>4. \A t \in Thread : Held(t) = <<>>
  BY <1>1 DEF Held
<1>5. ASSUME NEW p \in Packet, NEW x \in Place PROVE At(x, p) = {}
  <2>1. About(<<>>, p) = {} /\ AmongWaiting(<<>>, p) = {} /\ ignored \cap {p} = {}
    BY <1>1 DEF About, AmongWaiting
  <2>2. ASSUME NEW t \in Thread, x = <<"work", t>> PROVE At(x, p) = {}
    BY <1>4, <2>1, <2>2, WorkPlace
  <2>3. ASSUME NEW ip \in Next_IP, x = <<"pending", ip>> PROVE At(x, p) = {}
    BY <1>1, <2>1, <2>3, PendingPlace
  <2>4. CASE x = <<"sent", NoPacket>>
    BY <1>1, <2>1, <2>4, SentPlace
  <2>5. CASE x = <<"ignored", NoPacket>>
    BY <2>1, <2>5, IgnoredPlace
  <2> QED  BY <2>2, <2>3, <2>4, <2>5, PlaceCases
<1>6. Range(taken) = {}
  BY <1>1 DEF Range
<1> QED  BY <1>2, <1>3, <1>5, <1>6 DEF Sole

\* Everything but Receive and Emit leaves what came in and what left alone.
LEMMA LinesOnly ==
  ASSUME [Next]_vars
  PROVE  \/ \E p \in Packet : \E h \in Traffic[p] : Receive(p, h)
         \/ \E t \in Thread : Emit(t)
         \/ UNCHANGED <<taken, sent>>
<1>1. ASSUME NEW t \in Thread, Send(t) PROVE Emit(t) \/ UNCHANGED <<taken, sent>>
  BY <1>1 DEF Send, Fill, Look, Pend, Insert, PushBack, PushNowhere, Die, wires
<1>2. TakeList \/ SweepStep => UNCHANGED <<taken, sent>>
  BY DEF TakeList, SweepStep, CopyList, EraseList, WalkDangles, EraseEntry, EraseDangles, Sweep,
     SweepDone, Die, wires
<1>3. UNCHANGED vars => UNCHANGED <<taken, sent>>
  BY DEF vars, wires
<1>4. Decide \/ Tick \/ Hello \/ clearMOSPFEntry \/ (\E h \in Learned : addMOSPFEntry(h))
        \/ (\E ip \in Hop : handleARPPacket(ip)) => UNCHANGED <<taken, sent>>
  BY DEF Decide, Tick, Hello, clearMOSPFEntry, addMOSPFEntry, handleARPPacket, wires
<1> QED
  BY <1>1, <1>2, <1>3, <1>4 DEF Next

LEMMA LinesKept == IInv /\ Lines /\ [Next]_vars => Lines'
<1> SUFFICES ASSUME IInv, Lines, [Next]_vars PROVE Lines'
  OBVIOUS
<1>1. ASSUME NEW p \in Packet, NEW h \in Traffic[p], Receive(p, h) PROVE Lines'
  <2>1. taken' = Append(taken, p) /\ p \notin Range(taken) /\ sent' = sent
    BY <1>1 DEF Receive
  <2>2. PICK k : k = Len(taken) + 1
    OBVIOUS
  <2>3. /\ taken' \in Seq(Packet) /\ DOMAIN taken' = DOMAIN taken \cup {k} /\ taken'[k] = p
        /\ \A i \in DOMAIN taken : taken'[i] = taken[i]
    BY <2>1, <2>2 DEF Lines
  <2>4. \A i \in DOMAIN taken : taken[i] # p
    BY <2>1 DEF Range
  <2>5. \A a, b \in DOMAIN taken' : taken'[a] = taken'[b] => a = b
    BY <2>3, <2>4 DEF Lines
  <2> QED  BY <2>1, <2>3, <2>5 DEF Lines
<1>2. ASSUME NEW t \in Thread, Emit(t) PROVE Lines'
  <2>1. PICK m, s : m = Head(work[t]) /\ s = [ip |-> nextIP[t], kind |-> m.kind, about |-> m.about]
    OBVIOUS
  <2>2. m \in Message /\ nextIP[t] \in Next_IP \cup {AllRouters}
    BY <1>2, <2>1, EmitStep
  <2>3. s \in [ip : Next_IP \cup {AllRouters}, kind : {"data", "error", "answer", "hello"},
               about : Packet \cup {NoPacket}]
    BY <2>1, <2>2 DEF Message
  <2>4. sent' = Append(sent, s) /\ taken' = taken
    BY <1>2, <2>1 DEF Emit
  <2> QED  BY <2>3, <2>4 DEF Lines
<1>3. CASE UNCHANGED <<taken, sent>>
  BY <1>3 DEF Lines
<1> QED
  BY <1>1, <1>2, <1>3, LinesOnly

\* What is found in the buffer stays so when a thread goes on alone in it, or
\* leaves it alone.
LEMMA UndisturbedStep ==
  ASSUME Threads, Undisturbed, NEW t \in Thread, NEW s, NEW msgs, NEW ip,
         Step(t, s, msgs, ip),
         s \in Buffering => \A u \in Thread : u # t => ~Inside(u),
         UNCHANGED <<pending, listed>> \/ \A u \in Thread : u # t => ~Inside(u),
         s = "insert" => ip \notin listed',
         s = "push" => ip \in listed',
         s = "erase" => t = "main" /\ msgs = Messages(pending'[ip]),
         s = "remove" => t = "sweep" /\ ip \in listed' /\ Reports(msgs, pending'[ip])
  PROVE  Undisturbed'
<1>1. /\ stage'[t] = s /\ work'[t] = msgs /\ nextIP'[t] = ip
      /\ \A u \in Thread : u # t => /\ stage'[u] = stage[u] /\ work'[u] = work[u]
                                    /\ nextIP'[u] = nextIP[u]
  BY StepIs
<1>2. ASSUME NEW u \in Thread, NEW v \in Thread, Inside(u)', Inside(v)' PROVE u = v
  <2>1. /\ u # t => Inside(u)
        /\ v # t => Inside(v)
        /\ u = t \/ v = t => s \in Buffering \/ (u # t /\ v # t)
             \/ (u = t /\ s \in Buffering) \/ (v = t /\ s \in Buffering)
    BY <1>1, <1>2 DEF Inside
  <2>2. (u = t => s \in Buffering) /\ (v = t => s \in Buffering)
    BY <1>1, <1>2 DEF Inside
  <2> QED
    BY <2>1, <2>2 DEF Undisturbed
<1>3. ASSUME NEW u \in Thread
      PROVE  /\ stage'[u] = "insert" => nextIP'[u] \notin listed'
             /\ stage'[u] = "push" => nextIP'[u] \in listed'
  <2>1. CASE u = t
    BY <1>1, <2>1
  <2>2. CASE u # t
    BY <1>1, <2>2 DEF Undisturbed, Inside, Buffering
  <2> QED  BY <2>1, <2>2
<1>4. "main" \in Thread /\ "sweep" \in Thread
  BY DEF Thread
<1>5. stage'["main"] = "erase" => work'["main"] = Messages(pending'[nextIP'["main"]])
  <2>1. CASE t = "main"
    BY <1>1, <2>1
  <2>2. CASE t # "main"
    BY <1>1, <1>4, <2>2 DEF Undisturbed, Inside, Buffering
  <2> QED  BY <2>1, <2>2
<1>6. stage'["sweep"] = "remove" => /\ nextIP'["sweep"] \in listed'
                                    /\ Reports(work'["sweep"], pending'[nextIP'["sweep"]])
  <2>1. CASE t = "sweep"
    BY <1>1, <2>1
  <2>2. CASE t # "sweep"
    BY <1>1, <1>4, <2>2 DEF Undisturbed, Inside, Buffering
  <2> QED  BY <2>1, <2>2
<1>7. (stage["main"] = "erase" => work["main"] = Messages(pending[nextIP["main"]]))'
  BY <1>5 DEF Messages
<1>8. (stage["sweep"] = "remove" => /\ nextIP["sweep"] \in listed
                                    /\ Reports(work["sweep"], pending[nextIP["sweep"]]))'
  BY <1>6
<1>9. (\A u, v \in Thread : Inside(u) /\ Inside(v) => u = v)'
  BY <1>2
<1>10. (\A u \in Thread : /\ stage[u] = "insert" => nextIP[u] \notin listed
                          /\ stage[u] = "push" => nextIP[u] \in listed)'
  BY <1>3
<1> QED
  BY <1>7, <1>8, <1>9, <1>10 DEF Undisturbed

\* It is not as soon as two have been in the buffer at once.
LEMMA OverlappedStays ==
  ASSUME [Next]_vars, ~overlapped'
  PROVE  ~overlapped
<1> USE DEF arp, buffer
<1>1. ASSUME NEW t \in Thread, Send(t) PROVE ~overlapped
  BY <1>1 DEF Send, Fill, Look, Pend, Insert, PushBack, PushNowhere, Emit, Enter, Die
<1>2. TakeList \/ SweepStep => ~overlapped
  BY DEF TakeList, SweepStep, CopyList, EraseList, WalkDangles, EraseEntry, EraseDangles, Sweep,
     SweepDone, Enter, Die
<1>3. UNCHANGED vars => ~overlapped
  BY DEF vars
<1>4. (\E p \in Packet : \E h \in Traffic[p] : Receive(p, h)) => ~overlapped
  BY DEF Receive
<1>5. Decide \/ Tick \/ Hello \/ clearMOSPFEntry \/ (\E h \in Learned : addMOSPFEntry(h))
        \/ (\E ip \in Hop : handleARPPacket(ip)) => ~overlapped
  BY DEF Decide, Tick, Hello, clearMOSPFEntry, addMOSPFEntry, handleARPPacket
<1> QED
  BY <1>1, <1>2, <1>3, <1>4, <1>5 DEF Next

LEMMA UndisturbedKept ==
  ASSUME IInv, Undisturbed, [Next]_vars, ~overlapped'
  PROVE  Undisturbed'
<1>0. /\ Threads /\ "main" \in Thread /\ "sweep" \in Thread /\ "routing" \in Thread
      /\ pending \in [Next_IP -> Seq(Waiting)]
  BY DEF IInv, Tables, Thread
<1>1. ASSUME NEW t \in Thread, NEW s, NEW msgs, NEW ip, Step(t, s, msgs, ip),
             s \notin Buffering, UNCHANGED buffer
      PROVE  Undisturbed'
  <2>1. s \notin {"insert", "push", "erase", "remove"} /\ UNCHANGED <<pending, listed>>
    BY <1>1 DEF Buffering, buffer
  <2> QED
    BY <1>0, <1>1, <2>1, UndisturbedStep
<1>2. ASSUME NEW t \in Thread, Enter(t) PROVE \A u \in Thread : u # t => ~Inside(u)
  BY <1>2 DEF Enter
<1>3. ASSUME NEW t \in Thread, Inside(t) PROVE \A u \in Thread : u # t => ~Inside(u)
  BY <1>3 DEF Undisturbed
<1>4. ~Die
  BY DEF Die
<1>5. ASSUME NEW p \in Packet, NEW h \in Traffic[p], Receive(p, h) PROVE Undisturbed'
  <2>1. PICK m : Step("main", "decide", <<m>>, nextIP["main"])
    BY <1>5, ReceiveStep
  <2> QED  BY <1>0, <1>1, <1>5, <2>1 DEF Receive, Buffering, arp
<1>6. CASE Decide
  <2>1. PICK msgs : Step("main", Rest(msgs), msgs, nextIP["main"])
    BY <1>6, DecideStep
  <2>2. Rest(msgs) \notin Buffering
    BY DEF Rest, Buffering
  <2> QED  BY <1>0, <1>1, <1>6, <2>1, <2>2 DEF Decide, arp
<1>7. ASSUME NEW t \in Thread, Fill(t) PROVE Undisturbed'
  <2>1. Step(t, "look", work[t], nextIP[t])
    BY <1>7, FillStep
  <2> QED  BY <1>0, <1>1, <1>7, <2>1 DEF Fill, Buffering, arp
<1>8. ASSUME NEW t \in Thread, Look(t) PROVE Undisturbed'
  <2>1. PICK s \in {"pend", "emit"}, ip \in Next_IP \cup {AllRouters} : Step(t, s, work[t], ip)
    BY <1>8, LookStep
  <2> QED  BY <1>0, <1>1, <1>8, <2>1 DEF Look, Buffering, arp
<1>9. ASSUME NEW t \in Thread, Emit(t) PROVE Undisturbed'
  <2>1. Step(t, Rest(Tail(work[t])), Tail(work[t]), nextIP[t])
    BY <1>9, EmitStep
  <2>2. Rest(Tail(work[t])) \notin Buffering
    BY DEF Rest, Buffering
  <2> QED  BY <1>0, <1>1, <1>9, <2>1, <2>2 DEF Emit, arp
<1>10. ASSUME NEW t \in Thread, Pend(t) PROVE Undisturbed'
  <2>1. PICK s \in {"insert", "push"} : /\ Step(t, s, work[t], nextIP[t])
                                        /\ s = "push" <=> nextIP[t] \in listed
    BY <1>10, PendStep
  <2>2. Enter(t) /\ listed' = listed
    BY <1>10 DEF Pend
  <2>3. \A u \in Thread : u # t => ~Inside(u)
    BY <1>2, <2>2
  <2> QED  BY <1>0, <2>1, <2>2, <2>3, UndisturbedStep
<1>11. ASSUME NEW t \in Thread, Insert(t) PROVE Undisturbed'
  <2>1. stage[t] = "insert" /\ Step(t, "push", work[t], nextIP[t])
    BY <1>11, InsertStep
  <2>2. \A u \in Thread : u # t => ~Inside(u)
    BY <1>3, <2>1 DEF Inside, Buffering
  <2>3. nextIP[t] \in listed'
    BY <1>11 DEF Insert
  <2> QED  BY <1>0, <2>1, <2>2, <2>3, UndisturbedStep
<1>12. ASSUME NEW t \in Thread, PushBack(t) PROVE Undisturbed'
  <2>1. stage[t] = "push" /\ Step(t, Rest(Tail(work[t])), Tail(work[t]), nextIP[t])
    BY <1>12, PushBackStep
  <2>2. \A u \in Thread : u # t => ~Inside(u)
    BY <1>3, <2>1 DEF Inside, Buffering
  <2>3. Rest(Tail(work[t])) \notin Buffering
    BY DEF Rest, Buffering
  <2>4. Rest(Tail(work[t])) \notin {"insert", "push", "erase", "remove"}
    BY DEF Rest
  <2> QED  BY <1>0, <2>1, <2>2, <2>3, <2>4, UndisturbedStep
<1>13. ASSUME NEW ip \in Hop, handleARPPacket(ip) PROVE Undisturbed'
  <2>1. Step("main", "copy", <<>>, ip)
    BY <1>13, handleARPPacketStep
  <2> QED  BY <1>0, <1>1, <1>13, <2>1 DEF handleARPPacket, Buffering
<1>14. CASE CopyList
  <2>1. PICK s \in {"erase", "idle"}, msgs \in Seq(Message) :
          /\ Step("main", s, msgs, nextIP["main"])
          /\ msgs = Messages(pending[nextIP["main"]])
    BY <1>14, CopyListStep
  <2>2. Enter("main") /\ pending' = pending
    BY <1>14 DEF CopyList
  <2>3. \A u \in Thread : u # "main" => ~Inside(u)
    BY <1>0, <1>2, <2>2
  <2>4. s = "erase" => msgs = Messages(pending'[nextIP["main"]])
    BY <2>1, <2>2
  <2>5. s \notin {"insert", "push", "remove"}
    BY <2>1
  <2> QED  BY <1>0, <2>1, <2>3, <2>4, <2>5, UndisturbedStep
<1>15. CASE EraseList
  <2>1. stage["main"] = "erase" /\ Step("main", Rest(work["main"]), work["main"], nextIP["main"])
    BY <1>15, EraseListStep
  <2>2. \A u \in Thread : u # "main" => ~Inside(u)
    BY <1>0, <1>3, <2>1 DEF Inside, Buffering
  <2>3. Rest(work["main"]) \notin {"insert", "push", "erase", "remove"}
    BY DEF Rest
  <2> QED  BY <1>0, <2>1, <2>2, <2>3, UndisturbedStep
<1>16. ASSUME NEW ip \in Next_IP, Sweep(ip) PROVE Undisturbed'
  <2>1. PICK e \in Message, error \in Message :
          /\ e = pending[ip][Expired(pending[ip])].msg /\ error.about = e.about
          /\ Step("sweep", "remove", <<error>>, ip)
          /\ Expired(pending[ip]) \in DOMAIN pending[ip]
    BY <1>16, SweepStepIs
  <2>2. Enter("sweep") /\ pending' = pending /\ listed' = listed
    BY <1>16 DEF Sweep
  <2>3. \A u \in Thread : u # "sweep" => ~Inside(u)
    BY <1>0, <1>2, <2>2
  <2>4. PICK msgs : msgs = <<error>>
    OBVIOUS
  <2>5. Reports(msgs, pending'[ip])
    BY <2>1, <2>2, <2>4 DEF Reports
  <2>6. ip \in listed'
    <3>1. DOMAIN pending[ip] # {}
      BY <2>1
    <3>2. pending[ip] # <<>>
      BY <3>1
    <3> QED  BY <2>2, <3>2 DEF IInv, Tables
  <2>7. Step("sweep", "remove", msgs, ip)
    BY <2>1, <2>4
  <2> QED  BY <1>0, <2>3, <2>5, <2>6, <2>7, UndisturbedStep
<1>17. CASE EraseEntry
  <2>1. /\ stage["sweep"] = "remove"
        /\ Step("sweep", Rest(work["sweep"]), work["sweep"], nextIP["sweep"])
    BY <1>17, EraseEntryStep DEF EraseEntry
  <2>2. \A u \in Thread : u # "sweep" => ~Inside(u)
    BY <1>0, <1>3, <2>1 DEF Inside, Buffering
  <2>3. Rest(work["sweep"]) \notin {"insert", "push", "erase", "remove"}
    BY DEF Rest
  <2> QED  BY <1>0, <2>1, <2>2, <2>3, UndisturbedStep
<1>18. ~EraseDangles
  BY DEF EraseDangles, Undisturbed
<1>19. CASE Tick
  <2>1. \A t \in Thread : stage'[t] = "idle"
    BY <1>19 DEF Tick, threads
  <2> QED  BY <1>0, <2>1 DEF Undisturbed, Inside, Buffering
<1>20. CASE Hello
  <2>1. PICK m : Step("routing", "fill", <<m>>, nextIP["routing"])
    BY <1>20, HelloStep
  <2> QED  BY <1>0, <1>1, <1>20, <2>1 DEF Hello, Buffering, arp
<1>21. CASE SweepDone \/ clearMOSPFEntry \/ (\E h \in Learned : addMOSPFEntry(h)) \/ UNCHANGED vars
  <2>1. UNCHANGED <<pending, listed, stage, work, nextIP>>
    BY <1>21 DEF SweepDone, clearMOSPFEntry, addMOSPFEntry, vars, threads, arp, buffer
  <2>2. \A t \in Thread : Inside(t)' = Inside(t)
    BY <2>1 DEF Inside
  <2>3. Messages(pending[nextIP["main"]])' = Messages(pending[nextIP["main"]])
    BY <2>1 DEF Messages
  <2>4. Reports(work["sweep"], pending[nextIP["sweep"]])'
          = Reports(work["sweep"], pending[nextIP["sweep"]])
    BY <2>1
  <2> QED  BY <2>1, <2>2, <2>3, <2>4 DEF Undisturbed
<1> QED
  BY <1>4, <1>5, <1>6, <1>7, <1>8, <1>9, <1>10, <1>11, <1>12, <1>13, <1>14, <1>15, <1>16, <1>17,
     <1>18, <1>19, <1>20, <1>21
     DEF Next, Send, TakeList, SweepStep, WalkDangles, PushNowhere

LEMMA SoleKept ==
  ASSUME IInv, Lines, Undisturbed, [Next]_vars, ~overlapped', NEW p \in Packet, Sole(p)
  PROVE  Sole(p)'
<1>1. ~Die
  BY DEF Die
<1>2. ~EraseDangles
  BY DEF EraseDangles, Undisturbed
<1> QED
  BY <1>1, <1>2, SoleReceive, SoleDecide, SolePushBack, SoleEmit, SoleEraseList, SoleEraseEntry,
     SoleElsewhere DEF Next, Send, TakeList, SweepStep, WalkDangles, PushNowhere

LEMMA NextOnce == OnceInv /\ [Next]_vars => OnceInv'
<1> SUFFICES ASSUME OnceInv, [Next]_vars PROVE OnceInv'
  OBVIOUS
<1>1. IInv' /\ Lines'
  BY NextIInv, LinesKept DEF OnceInv
<1>2. ASSUME ~overlapped' PROVE Undisturbed' /\ \A p \in Packet : Sole(p)'
  <2>1. IInv /\ Lines /\ Undisturbed /\ \A p \in Packet : Sole(p)
    BY <1>2, OverlappedStays DEF OnceInv
  <2> QED
    BY <1>2, <2>1, UndisturbedKept, SoleKept
<1> QED  BY <1>1, <1>2 DEF OnceInv

\* What the sets of AccountedOnce hold
WithThreads(p) == UNION {{t} \X About(Held(t), p) : t \in Thread}
InLists(p) == UNION {{ip} \X About(Messages(pending[ip]), p) : ip \in Next_IP}

LEMMA WorkPositions ==
  ASSUME NEW p, NEW z
  PROVE  z \in WithThreads(p)
         <=> \E t \in Thread : \E i \in About(Held(t), p) : z = <<t, i>>
<1>1. PICK T : T = {{t} \X About(Held(t), p) : t \in Thread}
  OBVIOUS
<1>2. ASSUME NEW Y \in T, z \in Y
      PROVE  \E t \in Thread : \E i \in About(Held(t), p) : z = <<t, i>>
  <2>1. PICK t \in Thread : Y = {t} \X About(Held(t), p)
    BY <1>1
  <2> QED  BY <1>2, <2>1
<1>3. ASSUME NEW t \in Thread, NEW i \in About(Held(t), p), z = <<t, i>>
      PROVE  \E Y \in T : z \in Y
  <2>1. PICK Y : Y = {t} \X About(Held(t), p)
    OBVIOUS
  <2>2. Y \in T
    BY <1>1, <2>1
  <2>3. z \in Y
    BY <1>3, <2>1
  <2> QED  BY <2>2, <2>3
<1>4. z \in UNION T <=> \E Y \in T : z \in Y
  OBVIOUS
<1>5. z \in UNION T <=> \E t \in Thread : \E i \in About(Held(t), p) : z = <<t, i>>
  BY <1>2, <1>3, <1>4
<1> QED  BY <1>1, <1>5 DEF WithThreads

LEMMA PendingPositions ==
  ASSUME NEW p, NEW z
  PROVE  z \in InLists(p)
         <=> \E ip \in Next_IP : \E i \in AmongWaiting(pending[ip], p) : z = <<ip, i>>
<1>1. PICK T : T = {{ip} \X About(Messages(pending[ip]), p) : ip \in Next_IP}
  OBVIOUS
<1>2. ASSUME NEW Y \in T, z \in Y
      PROVE  \E ip \in Next_IP : \E i \in AmongWaiting(pending[ip], p) : z = <<ip, i>>
  <2>1. PICK ip \in Next_IP : Y = {ip} \X About(Messages(pending[ip]), p)
    BY <1>1
  <2> QED  BY <1>2, <2>1, AmongIs
<1>3. ASSUME NEW ip \in Next_IP, NEW i \in AmongWaiting(pending[ip], p), z = <<ip, i>>
      PROVE  \E Y \in T : z \in Y
  <2>1. PICK Y : Y = {ip} \X About(Messages(pending[ip]), p)
    OBVIOUS
  <2>2. Y \in T
    BY <1>1, <2>1
  <2>3. i \in About(Messages(pending[ip]), p)
    BY <1>3, AmongIs
  <2>4. z \in Y
    BY <1>3, <2>1, <2>3
  <2> QED  BY <2>2, <2>4
<1>4. z \in UNION T <=> \E Y \in T : z \in Y
  OBVIOUS
<1>5. z \in UNION T
      <=> \E ip \in Next_IP : \E i \in AmongWaiting(pending[ip], p) : z = <<ip, i>>
  BY <1>2, <1>3, <1>4
<1> QED  BY <1>1, <1>5 DEF InLists

LEMMA SoleIsOnce ==
  ASSUME NEW p \in Packet, Sole(p)
  PROVE  Cardinality(Spots(p)) = IF p \in Range(taken) THEN 1 ELSE 0
<1>1. PICK S : S = Spots(p)
  OBVIOUS
<1> DEFINE Spot(x, i) == IF x[1] \in {"work", "pending"} THEN <<x[2], i>> ELSE <<x[1], i>>
<1>2. \A z : z \in S <=> \/ \E t \in Thread : \E i \in About(Held(t), p) : z = <<t, i>>
                         \/ \E ip \in Next_IP : \E i \in AmongWaiting(pending[ip], p) : z = <<ip, i>>
                         \/ \E i \in About(sent, p) : z = <<"sent", i>>
                         \/ \E q \in ignored \cap {p} : z = <<"ignored", q>>
  <2>1. \A z : z \in S <=> \/ z \in WithThreads(p) \/ z \in InLists(p)
                           \/ z \in {"sent"} \X About(sent, p)
                           \/ z \in {"ignored"} \X (ignored \cap {p})
    <3>1. S = WithThreads(p) \cup InLists(p) \cup ({"sent"} \X About(sent, p))
                \cup ({"ignored"} \X (ignored \cap {p}))
      BY <1>1 DEF Spots, WithThreads, InLists
    <3> QED  BY <3>1
  <2>2. /\ \A z : z \in {"sent"} \X About(sent, p) <=> \E i \in About(sent, p) : z = <<"sent", i>>
        /\ \A z : z \in {"ignored"} \X (ignored \cap {p})
                  <=> \E q \in ignored \cap {p} : z = <<"ignored", q>>
    OBVIOUS
  <2> QED  BY <2>1, <2>2, WorkPositions, PendingPositions
<1>3. \A z : z \in S <=> \E x \in Place : \E i \in At(x, p) : z = Spot(x, i)
  <2>1. ASSUME NEW z \in S
        PROVE  \E x \in Place : \E i \in At(x, p) : z = Spot(x, i)
    <3>1. ASSUME NEW t \in Thread, NEW i \in About(Held(t), p), z = <<t, i>>
          PROVE  \E x \in Place : \E j \in At(x, p) : z = Spot(x, j)
      <4>1. PICK x : x = <<"work", t>>
        OBVIOUS
      <4>2. x \in Place /\ i \in At(x, p) /\ x[1] = "work" /\ x[2] = t
        BY <4>1, WorkPlace
      <4> QED  BY <3>1, <4>2
    <3>2. ASSUME NEW ip \in Next_IP, NEW i \in AmongWaiting(pending[ip], p), z = <<ip, i>>
          PROVE  \E x \in Place : \E j \in At(x, p) : z = Spot(x, j)
      <4>1. PICK x : x = <<"pending", ip>>
        OBVIOUS
      <4>2. x \in Place /\ i \in At(x, p) /\ x[1] = "pending" /\ x[2] = ip
        BY <4>1, PendingPlace
      <4> QED  BY <3>2, <4>2
    <3>3. ASSUME NEW i \in About(sent, p), z = <<"sent", i>>
          PROVE  \E x \in Place : \E j \in At(x, p) : z = Spot(x, j)
      <4>1. PICK x : x = <<"sent", NoPacket>>
        OBVIOUS
      <4>2. x \in Place /\ i \in At(x, p) /\ x[1] = "sent"
        BY <4>1, SentPlace
      <4> QED  BY <3>3, <4>2
    <3>4. ASSUME NEW q \in ignored \cap {p}, z = <<"ignored", q>>
          PROVE  \E x \in Place : \E j \in At(x, p) : z = Spot(x, j)
      <4>1. PICK x : x = <<"ignored", NoPacket>>
        OBVIOUS
      <4>2. x \in Place /\ q \in At(x, p) /\ x[1] = "ignored"
        BY <4>1, IgnoredPlace
      <4> QED  BY <3>4, <4>2
    <3> QED  BY <1>2, <3>1, <3>2, <3>3, <3>4
  <2>2. ASSUME NEW x \in Place, NEW i \in At(x, p)
        PROVE  Spot(x, i) \in S
    <3>1. ASSUME NEW t \in Thread, x = <<"work", t>> PROVE <<t, i>> \in S
      <4>1. i \in About(Held(t), p)
        BY <3>1, WorkPlace
      <4> QED  BY <1>2, <4>1
    <3>2. ASSUME NEW ip \in Next_IP, x = <<"pending", ip>> PROVE <<ip, i>> \in S
      <4>1. i \in AmongWaiting(pending[ip], p)
        BY <3>2, PendingPlace
      <4> QED  BY <1>2, <4>1
    <3>3. CASE x = <<"sent", NoPacket>>
      <4>1. i \in About(sent, p)
        BY <3>3, SentPlace
      <4> QED  BY <1>2, <3>3, <4>1
    <3>4. CASE x = <<"ignored", NoPacket>>
      <4>1. i \in ignored \cap {p}
        BY <3>4, IgnoredPlace
      <4> QED  BY <1>2, <3>4, <4>1
    <3> QED  BY <3>1, <3>2, <3>3, <3>4, PlaceCases
  <2> QED  BY <2>1, <2>2
<1>4. CASE p \in Range(taken)
  <2>1. PICK x \in Place : Single(At(x, p)) /\ \A y \in Place : y # x => At(y, p) = {}
    BY <1>4 DEF Sole
  <2>2. PICK i : At(x, p) = {i}
    BY <2>1 DEF Single
  <2>3. PICK z : z = Spot(x, i)
    OBVIOUS
  <2>4. \A y \in Place : \A j \in At(y, p) : y = x /\ j = i
    BY <2>1, <2>2
  <2> HIDE DEF Spot
  <2>5. z \in S /\ \A y \in S : y = z
    BY <1>3, <2>2, <2>3, <2>4
  <2>6. S = {z}
    BY <2>5
  <2>7. Cardinality(S) = 1
    BY <2>6, FS_Singleton, Zenon
  <2> QED  BY <1>1, <1>4, <2>7
<1>5. CASE p \notin Range(taken)
  <2>1. \A x \in Place : At(x, p) = {}
    BY <1>5 DEF Sole
  <2>2. S = {}
    <3>1. ASSUME NEW z \in S PROVE FALSE
      <4>1. PICK x, i : x \in Place /\ i \in At(x, p)
        BY <1>3
      <4> QED  BY <2>1, <4>1
    <3> QED  BY <3>1
  <2>3. Cardinality(S) = 0
    BY <2>2, FS_EmptySet
  <2> QED  BY <1>1, <1>5, <2>3
<1> QED  BY <1>4, <1>5

\* As long as no two threads have been inside ARPMissPendingBuff at once (the
\* calls of IPPacketModule.cpp:115-126 and :299 and of the sweep have no lock
\* to keep them apart), every packet the router has taken is in exactly one
\* place: with a thread, in one list, sent or ended.  The shared header, the
\* routes coming and going and all other interleavings do not change that.
THEOREM ForwardingAccountedOnce == Spec => []AccountedOnce
<1>1. Init => OnceInv
  BY InitIInv, InitSole DEF OnceInv
<1>2. OnceInv => AccountedOnce
  BY SoleIsOnce DEF OnceInv, AccountedOnce
<1> QED
  BY <1>1, <1>2, NextOnce, PTL DEF Spec

-----------------------------------------------------------------------------
(* The order of the packets of hosts, however the threads meet.            *)

\* p comes before q in s.
Earlier(s, p, q) == \E a, b \in DOMAIN s : a < b /\ s[a] = p /\ s[b] = q

\* Packet m of a host waits as the n-th for ip.  What main has copied and is
\* about to erase it has already taken.
Queued(ip, n, m) ==
  /\ ip \in Hop /\ ~(stage["main"] = "erase" /\ nextIP["main"] = ip)
  /\ n \in DOMAIN pending[ip] /\ pending[ip][n].msg = m /\ m.kind = "data"

\* It is the n-th that main has in hand.
OnMain(n, m) == n \in Data(work["main"]) /\ work["main"][n] = m

\* Packet p of a host is the n-th at a place, on its way to ip.  Where a new one
\* goes is not known yet.
Lies(at, ip, n, p) ==
  \/ at = "sent" /\ n \in Data(sent) /\ sent[n].ip = ip /\ sent[n].about = p
  \/ at = "list" /\ \E m : Queued(ip, n, m) /\ m.about = p
  \/ at = "main" /\ stage["main"] # "decide"
                 /\ \E m : OnMain(n, m) /\ ip = Via[m.daddr] /\ m.about = p
  \/ at = "new" /\ stage["main"] = "decide" /\ ip = Nowhere
                /\ \E m : OnMain(n, m) /\ m.about = p

\* What has left was before what waits, and that before what main has.
Ahead(a, m, b, n) ==
  \/ a = b /\ m < n
  \/ a = "sent" /\ b # "sent"
  \/ a = "list" /\ b \in {"main", "new"}

Known == \A at, ip, n, p : Lies(at, ip, n, p) => n \in Nat /\ p \in Range(taken)

Apart ==
  \A a, b, i, j, m, n, p :
    Lies(a, i, m, p) /\ Lies(b, j, n, p) => a = b /\ i = j /\ m = n

Ordered ==
  \A a, b, i, j, m, n, p, q :
    Lies(a, i, m, p) /\ Lies(b, j, n, q) /\ Ahead(a, m, b, n) /\ (i = j \/ b = "new")
      => Earlier(taken, p, q)

\* Packets of hosts go where their route leads, if there is one.
Ways ==
  /\ stage["main"] # "decide" => \A n, m : OnMain(n, m) => m.daddr \in Host
  /\ \A ip, n, m : Queued(ip, n, m) => m.daddr \in Host /\ Via[m.daddr] = ip
  /\ stage["main"] = "copy" => nextIP["main"] \in Hop
  /\ stage["main"] \in {"pend", "insert", "push", "emit"} =>
       \A m : OnMain(1, m) => /\ nextIP["main"] \in {Via[m.daddr], Nowhere}
                              /\ stage["main"] = "emit" => nextIP["main"] \in ARPCache

OrderInv == IInv /\ Lines /\ Known /\ Apart /\ Ordered /\ Ways

-----------------------------------------------------------------------------

LEMMA InitOrder == Init => OrderInv
<1> SUFFICES ASSUME Init PROVE OrderInv
  OBVIOUS
<1>1. IInv /\ Lines
  BY InitIInv, InitSole
<1>2. /\ work["main"] = <<>> /\ stage["main"] = "idle" /\ sent = <<>>
      /\ \A ip \in Hop : pending[ip] = <<>>
  BY DEF Init, Thread, Next_IP
<1>3. \A n, m : ~OnMain(n, m)
  BY <1>2, NoneOfNone DEF OnMain
<1>4. \A ip, n, m : ~Queued(ip, n, m)
  BY <1>2 DEF Queued
<1>5. \A at, ip, n, p : ~Lies(at, ip, n, p)
  BY <1>2, <1>3, <1>4, NoneOfNone DEF Lies
<1> QED
  BY <1>1, <1>2, <1>3, <1>4, <1>5 DEF OrderInv, Known, Apart, Ordered, Ways

\* A step after which every packet of a host is where it was, or nowhere
LEMMA OrderFewer ==
  ASSUME OrderInv, IInv', Lines', taken' = taken,
         \A n \in Data(sent') : n \in Data(sent) /\ sent'[n] = sent[n],
         \A ip, n, m : Queued(ip, n, m)' => Queued(ip, n, m),
         \A n, m : OnMain(n, m)' => /\ OnMain(n, m)
                                    /\ stage'["main"] = "decide" <=> stage["main"] = "decide",
         stage'["main"] = "copy" => nextIP'["main"] \in Hop,
         stage'["main"] \in {"pend", "insert", "push", "emit"} =>
           \A m : OnMain(1, m)' => /\ nextIP'["main"] \in {Via[m.daddr], Nowhere}
                                   /\ stage'["main"] = "emit" => nextIP'["main"] \in ARPCache'
  PROVE  OrderInv'
<1>1. \A at, ip, n, p : Lies(at, ip, n, p)' => Lies(at, ip, n, p)
  BY DEF Lies
<1>2. Known' /\ Apart' /\ Ordered'
  BY <1>1 DEF OrderInv, Known, Apart, Ordered
<1>3. Ways'
  BY DEF OrderInv, Ways
<1> QED
  BY <1>2, <1>3 DEF OrderInv

\* The lists get no packets of hosts while main leaves its copy alone.
LEMMA QueuedFewer ==
  ASSUME \A ip \in Hop : \A n \in DOMAIN pending'[ip] : pending'[ip][n].msg.kind = "data" =>
           n \in DOMAIN pending[ip] /\ pending'[ip][n].msg = pending[ip][n].msg,
         stage["main"] # "erase" \/ UNCHANGED <<stage["main"], nextIP["main"]>>
  PROVE  \A ip, n, m : Queued(ip, n, m)' => Queued(ip, n, m)
  BY DEF Queued

LEMMA QueuedSame ==
  ASSUME pending' = pending, stage["main"] # "erase" \/ UNCHANGED <<stage["main"], nextIP["main"]>>
  PROVE  \A ip, n, m : Queued(ip, n, m)' => Queued(ip, n, m)
  BY DEF Queued

LEMMA OnMainSame ==
  ASSUME work'["main"] = work["main"]
  PROVE  \A n, m : OnMain(n, m)' <=> OnMain(n, m)
  BY DEF OnMain, Data

\* A thread other than main, or none, does something.
LEMMA OrderOthers ==
  ASSUME OrderInv, IInv', Lines',
         UNCHANGED <<taken, ARPCache, stage["main"], work["main"], nextIP["main"]>>,
         \A n \in Data(sent') : n \in Data(sent) /\ sent'[n] = sent[n],
         \A ip \in Hop : \A n \in DOMAIN pending'[ip] : pending'[ip][n].msg.kind = "data" =>
           n \in DOMAIN pending[ip] /\ pending'[ip][n].msg = pending[ip][n].msg
  PROVE  OrderInv'
<1>1. \A ip, n, m : Queued(ip, n, m)' => Queued(ip, n, m)
  BY QueuedFewer
<1>2. \A n, m : OnMain(n, m)' <=> OnMain(n, m)
  BY OnMainSame
<1>3. Ways
  BY DEF OrderInv
<1>4. stage'["main"] = "copy" => nextIP'["main"] \in Hop
  BY <1>3 DEF Ways
<1>5. stage'["main"] \in {"pend", "insert", "push", "emit"} =>
        \A m : OnMain(1, m)' => /\ nextIP'["main"] \in {Via[m.daddr], Nowhere}
                                /\ stage'["main"] = "emit" => nextIP'["main"] \in ARPCache'
  BY <1>2, <1>3 DEF Ways
<1> QED
  BY <1>1, <1>2, <1>4, <1>5, OrderFewer

\* A step of another thread leaves main where it is.
LEMMA OtherStep ==
  ASSUME Threads, NEW t \in Thread \ {"main"}, NEW s, NEW msgs, NEW ip, Step(t, s, msgs, ip)
  PROVE  UNCHANGED <<stage["main"], work["main"], nextIP["main"]>>
  BY StepIs DEF Thread

\* The others send nothing of a host.
LEMMA OthersHaveNone ==
  ASSUME IInv, NEW t \in Thread, t # "main", work[t] # <<>>
  PROVE  Head(work[t]).kind # "data"
<1>1. work[t] \in Seq(Message) /\ Fits(t, stage[t], work[t], nextIP[t])
  BY DEF IInv, Threads
<1> QED  BY <1>1, TailMessages DEF Fits

LEMMA OrderOtherSends ==
  ASSUME OrderInv, IInv', Lines', NEW t \in Thread \ {"main"},
         Fill(t) \/ Look(t) \/ Pend(t) \/ Insert(t) \/ PushBack(t) \/ Emit(t)
  PROVE  OrderInv'
<1>1. IInv /\ Threads /\ Lines
  BY DEF OrderInv, IInv
<1>2. UNCHANGED <<taken, ARPCache>>
  BY DEF Fill, Look, Pend, Insert, PushBack, Emit, arp, wires
<1>3. UNCHANGED <<stage["main"], work["main"], nextIP["main"]>>
  BY <1>1, OtherStep, FillStep, LookStep, PendStep, InsertStep, PushBackStep, EmitStep
<1>4. CASE UNCHANGED <<pending, sent>>
  BY <1>2, <1>3, <1>4, OrderOthers
<1>5. CASE Insert(t)
  <2>1. nextIP[t] \in Next_IP /\ sent' = sent
    BY <1>1, <1>5, InsertStep DEF Insert, wires
  <2>2. /\ pending'[nextIP[t]] = <<>>
        /\ \A ip \in Next_IP : ip # nextIP[t] => pending'[ip] = pending[ip]
    BY <1>1, <1>5, <2>1 DEF Insert, IInv, Tables
  <2>3. ASSUME NEW ip \in Hop, NEW n \in DOMAIN pending'[ip]
        PROVE  n \in DOMAIN pending[ip] /\ pending'[ip][n].msg = pending[ip][n].msg
    BY <2>2 DEF Next_IP
  <2> QED
    BY <1>2, <1>3, <2>1, <2>3, OrderOthers
<1>6. CASE PushBack(t)
  <2>1. PICK ip, e : ip = nextIP[t] /\ e = [msg |-> Head(work[t]), age |-> 0]
    OBVIOUS
  <2>2. ip \in Next_IP /\ e \in Waiting /\ e.msg.kind # "data"
    BY <1>1, <1>6, <2>1, PushBackStep, OthersHaveNone
  <2>3. /\ pending' = [pending EXCEPT ![ip] = Append(@, e)] /\ sent' = sent
    BY <1>6, <2>1 DEF PushBack, wires
  <2>4. /\ pending[ip] \in Seq(Waiting) /\ pending'[ip] = Append(pending[ip], e)
        /\ \A q \in Next_IP : q # ip => pending'[q] = pending[q]
    BY <1>1, <2>2, <2>3 DEF IInv, Tables
  <2>5. PICK k : k = Len(pending[ip]) + 1
    OBVIOUS
  <2>6. /\ DOMAIN pending'[ip] = DOMAIN pending[ip] \cup {k} /\ pending'[ip][k] = e
        /\ \A n \in DOMAIN pending[ip] : pending'[ip][n] = pending[ip][n]
    BY <2>2, <2>4, <2>5, AppendedAt
  <2>7. ASSUME NEW q \in Hop, NEW n \in DOMAIN pending'[q], pending'[q][n].msg.kind = "data"
        PROVE  n \in DOMAIN pending[q] /\ pending'[q][n].msg = pending[q][n].msg
    BY <2>2, <2>4, <2>6, <2>7 DEF Next_IP
  <2> QED
    BY <1>2, <1>3, <2>3, <2>7, OrderOthers
<1>7. CASE Emit(t)
  <2>1. PICK s : s = [ip |-> nextIP[t], kind |-> Head(work[t]).kind, about |-> Head(work[t]).about]
    OBVIOUS
  <2>2. s.kind # "data"
    BY <1>1, <1>7, <2>1, EmitStep, OthersHaveNone
  <2>3. sent' = Append(sent, s) /\ pending' = pending
    BY <1>7, <2>1 DEF Emit, arp, buffer
  <2>4. PICK k : k = Len(sent) + 1
    OBVIOUS
  <2>5. /\ DOMAIN sent' = DOMAIN sent \cup {k} /\ sent'[k] = s
        /\ \A i \in DOMAIN sent : sent'[i] = sent[i]
    BY <1>1, <2>3, <2>4 DEF Lines
  <2>6. \A n \in Data(sent') : n \in Data(sent) /\ sent'[n] = sent[n]
    BY <2>2, <2>5 DEF Data
  <2> QED
    BY <1>2, <1>3, <2>3, <2>6, OrderOthers
<1> QED
  BY <1>4, <1>5, <1>6, <1>7 DEF Fill, Look, Pend, arp, buffer, wires

\* What main has when it comes to stage s with msgs
LEMMA MainAt ==
  ASSUME Threads, NEW s, NEW msgs, NEW ip, Step("main", s, msgs, ip)
  PROVE  /\ stage'["main"] = s /\ work'["main"] = msgs /\ nextIP'["main"] = ip
         /\ \A n, m : OnMain(n, m)' <=> n \in Data(msgs) /\ msgs[n] = m
<1>1. "main" \in Thread
  BY DEF Thread
<1>2. stage'["main"] = s /\ work'["main"] = msgs /\ nextIP'["main"] = ip
  BY <1>1, StepIs
<1>3. \A n, m : OnMain(n, m)' <=> n \in Data(work'["main"]) /\ work'["main"][n] = m
  BY DEF OnMain, Data
<1> QED
  BY <1>2, <1>3

\* Main's steps on its way through sendPacket and to and from a list
LEMMA OrderOnWay ==
  ASSUME OrderInv, IInv', Lines',
         \/ Fill("main") \/ Look("main") \/ Pend("main") \/ Insert("main")
         \/ EraseList \/ \E ip \in Hop : handleARPPacket(ip)
  PROVE  OrderInv'
<1>1. IInv /\ Threads /\ Ways /\ "main" \in Thread
  BY DEF OrderInv, IInv, Thread
<1>2. sent' = sent /\ taken' = taken
  BY DEF Fill, Look, Pend, Insert, EraseList, handleARPPacket, wires
<1>3. CASE Fill("main")
  <2>1. stage["main"] = "fill" /\ Step("main", "look", work["main"], nextIP["main"])
    BY <1>1, <1>3, FillStep
  <2>2. stage'["main"] = "look" /\ work'["main"] = work["main"]
    BY <1>1, <2>1, MainAt
  <2>3. pending' = pending
    BY <1>3 DEF Fill, arp, buffer
  <2> QED
    BY <1>2, <2>1, <2>2, <2>3, QueuedSame, OnMainSame, OrderFewer
<1>4. CASE Look("main")
  <2>1. PICK s \in {"pend", "emit"}, ip \in Next_IP \cup {AllRouters} :
          /\ stage["main"] = "look" /\ work["main"] # <<>>
          /\ Step("main", s, work["main"], ip)
          /\ Head(work["main"]).daddr # AllRouters =>
               /\ ip = findNextIP(Head(work["main"]).daddr).ip
               /\ s = "emit" => ip \in ARPCache
    BY <1>1, <1>4, LookStep
  <2>2. /\ stage'["main"] = s /\ work'["main"] = work["main"] /\ nextIP'["main"] = ip
    BY <1>1, <2>1, MainAt
  <2>3. pending' = pending /\ ARPCache' = ARPCache
    BY <1>4 DEF Look, arp, buffer
  <2>4. ASSUME NEW m, OnMain(1, m)'
        PROVE  /\ nextIP'["main"] \in {Via[m.daddr], Nowhere}
               /\ stage'["main"] = "emit" => nextIP'["main"] \in ARPCache'
    <3>1. OnMain(1, m)
      BY <2>2, <2>4, OnMainSame
    <3>2. m = Head(work["main"]) /\ m.daddr \in Host
      <4>1. work["main"] \in Seq(Message)
        BY <1>1 DEF Threads
      <4>2. work["main"][1] = Head(work["main"])
        BY <2>1, <4>1
      <4> QED
        BY <1>1, <2>1, <3>1, <4>2 DEF Ways, OnMain
    <3>3. m.daddr # AllRouters /\ m.daddr # Self
      BY <3>2, ForwardingAssumption DEF ForwardingAssumption
    <3>4. findNextIP(m.daddr).ip \in {Via[m.daddr], Nowhere}
      BY <3>3 DEF findNextIP
    <3> QED
      BY <2>1, <2>2, <2>3, <3>2, <3>3, <3>4
  <2>5. stage'["main"] # "copy" /\ (stage'["main"] = "decide" <=> stage["main"] = "decide")
    BY <2>1, <2>2
  <2> QED
    BY <1>2, <2>1, <2>2, <2>3, <2>4, <2>5, QueuedSame, OnMainSame, OrderFewer
<1>5. CASE Pend("main")
  <2>1. PICK s \in {"insert", "push"} :
          stage["main"] = "pend" /\ Step("main", s, work["main"], nextIP["main"])
    BY <1>1, <1>5, PendStep
  <2>2. stage'["main"] = s /\ work'["main"] = work["main"] /\ nextIP'["main"] = nextIP["main"]
    BY <1>1, <2>1, MainAt
  <2>3. pending' = pending
    BY <1>5 DEF Pend
  <2>4. \A n, m : OnMain(n, m)' <=> OnMain(n, m)
    BY <2>2, OnMainSame
  <2>5. \A m : OnMain(1, m)' => nextIP'["main"] \in {Via[m.daddr], Nowhere}
    BY <1>1, <2>1, <2>2, <2>4 DEF Ways
  <2>6. stage'["main"] \notin {"copy", "emit"} /\ (stage'["main"] = "decide" <=> stage["main"] = "decide")
    BY <2>1, <2>2
  <2> QED
    BY <1>2, <2>1, <2>3, <2>4, <2>5, <2>6, QueuedSame, OrderFewer
<1>6. CASE Insert("main")
  <2>1. /\ stage["main"] = "insert" /\ nextIP["main"] \in Next_IP
        /\ Step("main", "push", work["main"], nextIP["main"])
    BY <1>1, <1>6, InsertStep
  <2>2. stage'["main"] = "push" /\ work'["main"] = work["main"] /\ nextIP'["main"] = nextIP["main"]
    BY <1>1, <2>1, MainAt
  <2>3. /\ pending'[nextIP["main"]] = <<>>
        /\ \A ip \in Next_IP : ip # nextIP["main"] => pending'[ip] = pending[ip]
    BY <1>1, <1>6, <2>1 DEF Insert, IInv, Tables
  <2>4. \A ip \in Hop : \A n \in DOMAIN pending'[ip] :
          n \in DOMAIN pending[ip] /\ pending'[ip][n].msg = pending[ip][n].msg
    BY <2>3 DEF Next_IP
  <2>5. \A n, m : OnMain(n, m)' <=> OnMain(n, m)
    BY <2>2, OnMainSame
  <2>6. \A m : OnMain(1, m)' => nextIP'["main"] \in {Via[m.daddr], Nowhere}
    BY <1>1, <2>1, <2>2, <2>5 DEF Ways
  <2>7. \A ip, n, m : Queued(ip, n, m)' => Queued(ip, n, m)
    BY <2>1, <2>4, QueuedFewer
  <2> QED
    BY <1>2, <2>1, <2>2, <2>5, <2>6, <2>7, OrderFewer
<1>7. CASE EraseList
  <2>1. /\ stage["main"] = "erase"
        /\ Step("main", Rest(work["main"]), work["main"], nextIP["main"])
    BY <1>1, <1>7, EraseListStep
  <2>2. /\ stage'["main"] \in {"idle", "fill"} /\ work'["main"] = work["main"]
    BY <1>1, <2>1, MainAt DEF Rest
  <2>3. pending' = [pending EXCEPT ![nextIP["main"]] = <<>>]
    BY <1>7 DEF EraseList
  <2>4. \A ip \in Hop : IF ip = nextIP["main"] THEN pending'[ip] = <<>>
                                              ELSE pending'[ip] = pending[ip]
    BY <1>1, <2>3 DEF IInv, Tables, Next_IP
  <2>5. \A ip, n, m : Queued(ip, n, m)' => Queued(ip, n, m)
    BY <2>4 DEF Queued
  <2> QED
    BY <1>2, <2>1, <2>2, <2>5, OnMainSame, OrderFewer
<1>8. ASSUME NEW ip \in Hop, handleARPPacket(ip) PROVE OrderInv'
  <2>1. stage["main"] = "idle" /\ Step("main", "copy", <<>>, ip)
    BY <1>1, <1>8, handleARPPacketStep
  <2>2. /\ stage'["main"] = "copy" /\ nextIP'["main"] = ip
        /\ \A n, m : ~OnMain(n, m)'
    BY <1>1, <2>1, MainAt, NoneOfNone
  <2>3. pending' = pending
    BY <1>8 DEF handleARPPacket, buffer
  <2> QED
    BY <1>2, <2>1, <2>2, <2>3, QueuedSame, OrderFewer
<1> QED
  BY <1>3, <1>4, <1>5, <1>6, <1>7, <1>8

LEMMA OrderDie ==
  ASSUME OrderInv, IInv', Lines', Die
  PROVE  OrderInv'
<1>1. taken' = taken /\ sent' = sent
  BY DEF Die, wires
<1>2. stage'["main"] = "dead" /\ work'["main"] = <<>> /\ \A ip \in Hop : pending'[ip] = <<>>
  BY DEF Die, Thread, Next_IP
<1>3. \A n, m : ~OnMain(n, m)'
  BY <1>2, NoneOfNone DEF OnMain, Data
<1>4. \A ip, n, m : ~Queued(ip, n, m)'
  BY <1>2 DEF Queued
<1> QED
  BY <1>1, <1>2, <1>3, <1>4, OrderFewer

\* Taken later than all before
LEMMA EarlierAppended ==
  ASSUME NEW s \in Seq(Packet), NEW x \in Packet
  PROVE  /\ Range(Append(s, x)) = Range(s) \cup {x}
         /\ \A p, q : Earlier(s, p, q) => Earlier(Append(s, x), p, q)
         /\ \A p \in Range(s) : Earlier(Append(s, x), p, x)
<1>1. PICK k, r : k = Len(s) + 1 /\ r = Append(s, x)
  OBVIOUS
<1>2. /\ DOMAIN r = DOMAIN s \cup {k} /\ k \notin DOMAIN s /\ r[k] = x
      /\ \A i \in DOMAIN s : r[i] = s[i] /\ i < k
  <2>1. \A i \in DOMAIN s : i < k
    BY <1>1
  <2> QED
    BY <1>1, <2>1, AppendedAt
<1>3. Range(r) = Range(s) \cup {x}
  BY <1>2 DEF Range
<1>4. \A p, q : Earlier(s, p, q) => Earlier(r, p, q)
  BY <1>2 DEF Earlier
<1>5. ASSUME NEW p \in Range(s) PROVE Earlier(r, p, x)
  <2>1. PICK a \in DOMAIN s : s[a] = p
    BY DEF Range
  <2> QED
    BY <1>2, <2>1 DEF Earlier
<1> QED
  BY <1>1, <1>3, <1>4, <1>5

LEMMA OrderReceive ==
  ASSUME OrderInv, IInv', Lines', NEW p \in Packet, NEW h \in Traffic[p], Receive(p, h)
  PROVE  OrderInv'
<1>1. IInv /\ Threads /\ Ways /\ Lines /\ "main" \in Thread
  BY DEF OrderInv, IInv, Thread
<1>2. PICK v \in Message : /\ v.kind = "data" /\ v.about = p /\ stage["main"] = "idle"
                           /\ Step("main", "decide", <<v>>, nextIP["main"])
  BY <1>1, ReceiveStep
<1>3. /\ taken' = Append(taken, p) /\ taken \in Seq(Packet) /\ p \notin Range(taken)
      /\ UNCHANGED <<ARPCache, pending, sent>>
  BY <1>1 DEF Receive, Lines, arp, buffer
<1>4. Data(<<v>>) = {1} /\ <<v>>[1] = v
  BY <1>2 DEF Data
<1>5. /\ stage'["main"] = "decide"
      /\ \A n, m : OnMain(n, m)' <=> n = 1 /\ m = v
  BY <1>1, <1>2, <1>4, MainAt
<1>6. \A n, m : ~OnMain(n, m)
  <2>1. work["main"] = <<>>
    BY <1>1, <1>2 DEF Threads, Fits
  <2> QED  BY <2>1, NoneOfNone DEF OnMain
<1>7. \A ip, n, m : Queued(ip, n, m)' => Queued(ip, n, m)
  BY <1>2, <1>3, QueuedSame
<1>8. ASSUME NEW at, NEW ip, NEW n, NEW q, Lies(at, ip, n, q)'
      PROVE  \/ at = "new" /\ ip = Nowhere /\ n = 1 /\ q = p
             \/ at \in {"sent", "list"} /\ Lies(at, ip, n, q)
  <2>1. CASE at = "sent"
    BY <1>3, <1>8, <2>1 DEF Lies
  <2>2. CASE at = "list"
    BY <1>7, <1>8, <2>2 DEF Lies
  <2>3. CASE at \notin {"sent", "list"}
    BY <1>2, <1>5, <1>8, <2>3 DEF Lies
  <2> QED  BY <2>1, <2>2, <2>3
<1>9. /\ Range(taken') = Range(taken) \cup {p}
      /\ \A q, r : Earlier(taken, q, r) => Earlier(taken', q, r)
      /\ \A q \in Range(taken) : Earlier(taken', q, p)
  BY <1>3, EarlierAppended
<1>10. Known'
  BY <1>8, <1>9 DEF OrderInv, Known
<1>11. Apart'
  <2>1. \A at, ip, n : ~Lies(at, ip, n, p)
    BY <1>3 DEF OrderInv, Known
  <2> QED
    BY <1>8, <2>1 DEF OrderInv, Apart
<1>12. Ordered'
  <2>1. ASSUME NEW a, NEW b, NEW i, NEW j, NEW m, NEW n, NEW q, NEW r,
               Lies(a, i, m, q)', Lies(b, j, n, r)', Ahead(a, m, b, n), i = j \/ b = "new"
        PROVE  Earlier(taken', q, r)
    <3>1. CASE b = "new"
      <4>1. n = 1 /\ r = p
        BY <1>8, <2>1, <3>1
      <4>2. a # "new"
        <5>1. SUFFICES ASSUME a = "new" PROVE FALSE
          OBVIOUS
        <5>2. m = 1
          BY <1>8, <2>1, <5>1
        <5> QED
          BY <2>1, <3>1, <4>1, <5>1, <5>2 DEF Ahead
      <4>3. q \in Range(taken)
        BY <1>8, <2>1, <4>2 DEF OrderInv, Known
      <4> QED
        BY <1>9, <4>1, <4>3
    <3>2. CASE b # "new"
      <4>1. Lies(b, j, n, r) /\ b \in {"sent", "list"}
        BY <1>8, <2>1, <3>2
      <4>2. a # "new"
        BY <2>1, <4>1 DEF Ahead
      <4>3. Lies(a, i, m, q)
        BY <1>8, <2>1, <4>2
      <4> QED
        BY <1>9, <2>1, <4>1, <4>3 DEF OrderInv, Ordered
    <3> QED  BY <3>1, <3>2
  <2>2. (\A a, b, i, j, m, n, q, r :
           Lies(a, i, m, q) /\ Lies(b, j, n, r) /\ Ahead(a, m, b, n) /\ (i = j \/ b = "new")
             => Earlier(taken, q, r))'
    BY <2>1 DEF Ahead, Earlier
  <2> QED
    BY <2>2 DEF Ordered
<1>13. Ways'
  BY <1>1, <1>5, <1>7 DEF Ways
<1> QED
  BY <1>10, <1>11, <1>12, <1>13 DEF OrderInv

\* What of a packet of a host is forwarded goes to a host.
LEMMA VerdictHost ==
  ASSUME NEW m, IInv, NEW v, Verdict(header, m) = <<v>>, v.kind = "data"
  PROVE  v.daddr \in Host
<1>1. ASSUME NEW k \in {"error", "answer"}, NEW to, v = ICMP(k, to, m) PROVE FALSE
  BY <1>1 DEF ICMP
<1>2. CASE header.ttl = 1 \/ (header.daddr \notin {AllRouters, Self} /\ ~hasNextIP(header.daddr))
  BY <1>1, <1>2 DEF Verdict
<1>3. CASE ~(header.ttl = 1 \/ (header.daddr \notin {AllRouters, Self} /\ ~hasNextIP(header.daddr)))
  <2>1. CASE header.daddr = AllRouters
    BY <1>3, <2>1 DEF Verdict
  <2>2. CASE header.daddr = Self /\ header.daddr # AllRouters
    BY <1>1, <1>3, <2>2 DEF Verdict
  <2>3. CASE header.daddr # Self /\ header.daddr # AllRouters
    <3>1. v.daddr = header.daddr
      BY <1>3, <2>3 DEF Verdict
    <3>2. header.daddr \in Host
      BY <1>3, <2>3 DEF hasNextIP, IInv, Tables
    <3> QED  BY <3>1, <3>2
  <2> QED  BY <2>1, <2>2, <2>3
<1> QED  BY <1>2, <1>3

LEMMA OrderDecide ==
  ASSUME OrderInv, IInv', Lines', Decide
  PROVE  OrderInv'
<1>1. IInv /\ Threads /\ Ways /\ "main" \in Thread
  BY DEF OrderInv, IInv, Thread
<1>2. PICK msgs \in Seq(Message) :
        /\ Len(work["main"]) = 1 /\ work["main"] \in Seq(Message)
        /\ work["main"][1].kind = "data"
        /\ msgs = Verdict(header, work["main"][1])
        /\ Step("main", Rest(msgs), msgs, nextIP["main"])
  BY <1>1, DecideStep
<1>3. PICK m : m = work["main"][1]
  OBVIOUS
<1>4. /\ stage["main"] = "decide" /\ UNCHANGED <<taken, ARPCache, pending, sent>>
  BY DEF Decide, arp, buffer
<1>5. /\ stage'["main"] \in {"idle", "fill"}
      /\ \A n, v : OnMain(n, v)' <=> n \in Data(msgs) /\ msgs[n] = v
  BY <1>1, <1>2, MainAt DEF Rest
<1>6. Lies("new", Nowhere, 1, m.about)
  BY <1>2, <1>3, <1>4 DEF Lies, OnMain, Data
<1>7. ASSUME NEW n, NEW v, OnMain(n, v)'
      PROVE  n = 1 /\ v.about = m.about /\ v.daddr \in Host
  <2>1. n \in DOMAIN msgs /\ msgs[n] = v /\ v.kind = "data"
    BY <1>5, <1>7 DEF Data
  <2>2. PICK w : msgs = <<w>> /\ w.about = m.about
    <3>1. msgs # <<>>
      BY <2>1
    <3> QED  BY <1>2, <1>3, <3>1, VerdictAbout
  <2>3. n = 1 /\ v = w
    BY <2>1, <2>2
  <2> QED
    BY <1>1, <1>2, <1>3, <2>1, <2>2, <2>3, VerdictHost
<1>8. \A ip, n, v : Queued(ip, n, v)' => Queued(ip, n, v)
  BY <1>4, QueuedSame
<1>9. ASSUME NEW at, NEW ip, NEW n, NEW q, Lies(at, ip, n, q)'
      PROVE  \/ at = "main" /\ n = 1 /\ q = m.about /\ \E v : OnMain(1, v)' /\ ip = Via[v.daddr]
             \/ at \in {"sent", "list"} /\ Lies(at, ip, n, q)
  <2>1. CASE at = "sent"
    BY <1>4, <1>9, <2>1 DEF Lies
  <2>2. CASE at = "list"
    BY <1>8, <1>9, <2>2 DEF Lies
  <2>3. CASE at \notin {"sent", "list"}
    BY <1>5, <1>7, <1>9, <2>3 DEF Lies
  <2> QED  BY <2>1, <2>2, <2>3
<1>10. Known'
  BY <1>4, <1>6, <1>9 DEF OrderInv, Known
<1>11. Apart'
  <2>1. \A v, w : OnMain(1, v)' /\ OnMain(1, w)' => v = w
    BY <1>5
  <2>2. \A at \in {"sent", "list"} : \A ip, n : ~Lies(at, ip, n, m.about)
    BY <1>6 DEF OrderInv, Apart
  <2> QED
    BY <1>9, <2>1, <2>2 DEF OrderInv, Apart
<1>12. Ordered'
  <2>1. ASSUME NEW a, NEW b, NEW i, NEW j, NEW k, NEW n, NEW q, NEW r,
               Lies(a, i, k, q)', Lies(b, j, n, r)', Ahead(a, k, b, n), i = j \/ b = "new"
        PROVE  Earlier(taken, q, r)
    <3>1. CASE b = "main"
      <4>1. r = m.about /\ n = 1
        BY <1>9, <2>1, <3>1
      <4>2. a # "main"
        <5>1. SUFFICES ASSUME a = "main" PROVE FALSE
          OBVIOUS
        <5>2. k = 1
          BY <1>9, <2>1, <5>1
        <5> QED
          BY <2>1, <3>1, <4>1, <5>1, <5>2 DEF Ahead
      <4>3. Lies(a, i, k, q) /\ a \in {"sent", "list"}
        BY <1>9, <2>1, <4>2
      <4> QED
        BY <1>6, <4>1, <4>3 DEF OrderInv, Ordered, Ahead
    <3>2. CASE b # "main"
      <4>1. Lies(b, j, n, r) /\ b \in {"sent", "list"}
        BY <1>9, <2>1, <3>2
      <4>2. a # "main"
        BY <2>1, <4>1 DEF Ahead
      <4>3. Lies(a, i, k, q)
        BY <1>9, <2>1, <4>2
      <4> QED
        BY <2>1, <4>1, <4>3 DEF OrderInv, Ordered
    <3> QED  BY <3>1, <3>2
  <2>2. taken' = taken
    BY <1>4
  <2> QED
    BY <2>1, <2>2 DEF Ordered, Ahead, Earlier
<1>13. Ways'
  BY <1>1, <1>5, <1>7, <1>8 DEF Ways
<1> QED
  BY <1>10, <1>11, <1>12, <1>13 DEF OrderInv

LEMMA TailData ==
  ASSUME NEW s \in Seq(Message), s # <<>>
  PROVE  /\ 1 \in Data(s) <=> Head(s).kind = "data"
         /\ Head(s) = s[1]
         /\ \A k \in Data(Tail(s)) : k \in Nat \ {0} /\ k + 1 \in Data(s) /\ Tail(s)[k] = s[k + 1]
<1>1. /\ Len(s) \in Nat \ {0} /\ Head(s) = s[1] /\ DOMAIN s = 1 .. Len(s)
      /\ DOMAIN Tail(s) = 1 .. Len(s) - 1
      /\ \A k \in 1 .. Len(s) - 1 : Tail(s)[k] = s[k + 1]
  OBVIOUS
<1>2. 1 \in Data(s) <=> Head(s).kind = "data"
  BY <1>1 DEF Data
<1>3. ASSUME NEW k \in Data(Tail(s))
      PROVE  k \in Nat \ {0} /\ k + 1 \in Data(s) /\ Tail(s)[k] = s[k + 1]
  <2>1. k \in 1 .. Len(s) - 1 /\ Tail(s)[k].kind = "data"
    BY <1>1 DEF Data
  <2>2. k \in Nat \ {0} /\ k + 1 \in 1 .. Len(s) /\ Tail(s)[k] = s[k + 1]
    BY <1>1, <2>1
  <2> QED  BY <1>1, <2>1, <2>2 DEF Data
<1> QED  BY <1>1, <1>2, <1>3

\* The first packet main has goes to a place where nothing for the same next hop
\* is after it: to the end of its list, or away when its list is empty.
LEMMA FirstGoes ==
  ASSUME OrderInv, IInv', Lines', UNCHANGED <<taken, ARPCache>>, Ways',
         stage["main"] # "decide", stage'["main"] # "decide",
         \A n, m : OnMain(n, m)' => n \in Nat \ {0} /\ OnMain(n + 1, m),
         NEW to \in {"sent", "list"}, NEW ip, NEW N \in Nat, NEW p,
         \A at \in {"sent", "list"} : \A j, n, q : Lies(at, j, n, q)' =>
           \/ Lies(at, j, n, q) /\ ~(at = to /\ j = ip /\ n >= N)
           \/ at = to /\ j = ip /\ n = N /\ q = p /\ Lies("main", ip, 1, p),
         to = "sent" => \A n, q : ~Lies("list", ip, n, q)'
  PROVE  OrderInv'
<1>1. ASSUME NEW at, NEW j, NEW n, NEW q, Lies(at, j, n, q)'
      PROVE  \/ at = "main" /\ n \in Nat \ {0} /\ Lies("main", j, n + 1, q)
             \/ /\ at \in {"sent", "list"} /\ Lies(at, j, n, q)
                /\ ~(at = to /\ j = ip /\ n >= N)
             \/ at = to /\ j = ip /\ n = N /\ q = p /\ Lies("main", ip, 1, p)
  <2>1. CASE at \in {"sent", "list"}
    BY <1>1, <2>1
  <2>2. CASE at \notin {"sent", "list"}
    BY <1>1, <2>2 DEF Lies
  <2> QED  BY <2>1, <2>2
<1>2. Known'
  BY <1>1 DEF OrderInv, Known
<1>3. Apart'
  <2>1. ASSUME NEW a, NEW b, NEW i, NEW j, NEW m, NEW n, NEW q,
               Lies(a, i, m, q)', Lies(b, j, n, q)'
        PROVE  a = b /\ i = j /\ m = n
    <3>1. CASE a = "main" /\ b = "main"
      <4>1. /\ m \in Nat /\ n \in Nat
            /\ Lies("main", i, m + 1, q) /\ Lies("main", j, n + 1, q)
        BY <1>1, <2>1, <3>1
      <4>2. i = j /\ m + 1 = n + 1
        BY <4>1 DEF OrderInv, Apart
      <4> QED  BY <3>1, <4>1, <4>2
    <3>2. CASE a = "main" /\ b # "main"
      <4>1. m \in Nat /\ m + 1 # 1 /\ Lies("main", i, m + 1, q)
        BY <1>1, <2>1, <3>2
      <4>2. Lies(b, j, n, q) \/ Lies("main", ip, 1, q)
        BY <1>1, <2>1, <3>2
      <4> QED  BY <3>2, <4>1, <4>2 DEF OrderInv, Apart
    <3>3. CASE a # "main" /\ b = "main"
      <4>1. n \in Nat /\ n + 1 # 1 /\ Lies("main", j, n + 1, q)
        BY <1>1, <2>1, <3>3
      <4>2. Lies(a, i, m, q) \/ Lies("main", ip, 1, q)
        BY <1>1, <2>1, <3>3
      <4> QED  BY <3>3, <4>1, <4>2 DEF OrderInv, Apart
    <3>4. CASE a # "main" /\ b # "main"
      <4>1. \/ a \in {"sent", "list"} /\ Lies(a, i, m, q)
            \/ a = to /\ i = ip /\ m = N /\ Lies("main", ip, 1, q)
        BY <1>1, <2>1, <3>4
      <4>2. \/ b \in {"sent", "list"} /\ Lies(b, j, n, q)
            \/ b = to /\ j = ip /\ n = N /\ Lies("main", ip, 1, q)
        BY <1>1, <2>1, <3>4
      <4> QED  BY <4>1, <4>2 DEF OrderInv, Apart
    <3> QED  BY <3>1, <3>2, <3>3, <3>4
  <2> QED  BY <2>1 DEF Apart
<1>4. Ordered'
  <2>1. ASSUME NEW a, NEW b, NEW i, NEW m, NEW n, NEW q, NEW r,
               Lies(a, i, m, q)', Lies(b, i, n, r)', Ahead(a, m, b, n)
        PROVE  Earlier(taken, q, r)
    <3>1. CASE a = "main" /\ b = "main"
      <4>1. /\ m \in Nat /\ n \in Nat /\ m < n
            /\ Lies("main", i, m + 1, q) /\ Lies("main", i, n + 1, r)
        BY <1>1, <2>1, <3>1 DEF Ahead
      <4>2. Ahead("main", m + 1, "main", n + 1)
        BY <4>1 DEF Ahead
      <4> QED  BY <4>1, <4>2 DEF OrderInv, Ordered
    <3>2. CASE a = "main" /\ b # "main"
      BY <1>1, <2>1, <3>2 DEF Ahead
    <3>3. CASE a # "main" /\ b = "main"
      <4>1. n \in Nat /\ Lies("main", i, n + 1, r) /\ n > 0
        BY <1>1, <2>1, <3>3
      <4>2. CASE a \in {"sent", "list"} /\ Lies(a, i, m, q)
        <5>1. Ahead(a, m, "main", n + 1)
          BY <4>2 DEF Ahead
        <5> QED  BY <4>1, <4>2, <5>1 DEF OrderInv, Ordered
      <4>3. CASE i = ip /\ q = p /\ Lies("main", ip, 1, p)
        <5>1. Ahead("main", 1, "main", n + 1)
          BY <4>1 DEF Ahead
        <5> QED  BY <4>1, <4>3, <5>1 DEF OrderInv, Ordered
      <4> QED  BY <1>1, <2>1, <3>3, <4>2, <4>3
    <3>4. CASE a # "main" /\ b # "main"
      <4>1. \/ /\ a \in {"sent", "list"} /\ Lies(a, i, m, q)
               /\ ~(a = to /\ i = ip /\ m >= N)
            \/ a = to /\ i = ip /\ m = N /\ q = p /\ Lies("main", ip, 1, p)
        BY <1>1, <2>1, <3>4
      <4>2. \/ /\ b \in {"sent", "list"} /\ Lies(b, i, n, r)
               /\ ~(b = to /\ i = ip /\ n >= N)
            \/ b = to /\ i = ip /\ n = N /\ r = p /\ Lies("main", ip, 1, p)
        BY <1>1, <2>1, <3>4
      <4>3. CASE Lies(a, i, m, q) /\ Lies(b, i, n, r)
        BY <2>1, <4>3 DEF OrderInv, Ordered
      <4>4. CASE /\ a \in {"sent", "list"} /\ Lies(a, i, m, q)
                 /\ b = to /\ i = ip /\ n = N /\ r = p /\ Lies("main", ip, 1, p)
        <5>1. Ahead(a, m, "main", 1)
          BY <4>4 DEF Ahead
        <5> QED  BY <4>4, <5>1 DEF OrderInv, Ordered
      <4>5. CASE /\ a = to /\ i = ip /\ m = N
                 /\ b \in {"sent", "list"} /\ Lies(b, i, n, r) /\ ~(b = to /\ i = ip /\ n >= N)
        <5>1. n \in Nat
          BY <4>5 DEF OrderInv, Known
        <5>2. CASE b = to
          BY <2>1, <4>5, <5>1, <5>2 DEF Ahead
        <5>3. CASE b # to
          <6>1. a = "sent" /\ b = "list"
            BY <2>1, <4>5, <5>3 DEF Ahead
          <6> QED  BY <2>1, <4>5, <6>1
        <5> QED  BY <5>2, <5>3
      <4>6. CASE a = b /\ m = N /\ n = N
        BY <2>1, <4>6 DEF Ahead
      <4> QED  BY <4>1, <4>2, <4>3, <4>4, <4>5, <4>6
    <3> QED  BY <3>1, <3>2, <3>3, <3>4
  <2>2. \A at, j, n, q : Lies(at, j, n, q)' => at # "new"
    BY <1>1
  <2>3. taken' = taken
    OBVIOUS
  <2> QED  BY <2>1, <2>2, <2>3 DEF Ordered, Ahead, Earlier
<1> QED
  BY <1>2, <1>3, <1>4 DEF OrderInv

\* Main goes on with the rest of what it has.
LEMMA RestOfMain ==
  ASSUME OrderInv, work["main"] # <<>>, stage["main"] \notin {"decide", "erase"},
         Step("main", Rest(Tail(work["main"])), Tail(work["main"]), nextIP["main"])
  PROVE  /\ stage'["main"] \in {"idle", "fill"}
         /\ \A n, m : OnMain(n, m)' => n \in Nat \ {0} /\ OnMain(n + 1, m)
         /\ Head(work["main"]).kind = "data" => OnMain(1, Head(work["main"]))
         /\ (\A ip, n, m : Queued(ip, n, m)' => m.daddr \in Host /\ Via[m.daddr] = ip) => Ways'
<1>1. Threads /\ Ways /\ "main" \in Thread /\ work["main"] \in Seq(Message)
  BY DEF OrderInv, IInv, Threads, Thread
<1>2. /\ stage'["main"] \in {"idle", "fill"}
      /\ \A n, m : OnMain(n, m)' <=> n \in Data(Tail(work["main"])) /\ Tail(work["main"])[n] = m
  BY <1>1, MainAt DEF Rest
<1>3. \A n, m : OnMain(n, m)' => n \in Nat \ {0} /\ OnMain(n + 1, m)
  BY <1>1, <1>2, TailData DEF OnMain
<1>4. Head(work["main"]).kind = "data" => OnMain(1, Head(work["main"]))
  BY <1>1, TailData DEF OnMain
<1>5. (\A ip, n, m : Queued(ip, n, m)' => m.daddr \in Host /\ Via[m.daddr] = ip) => Ways'
  BY <1>1, <1>2, <1>3 DEF Ways
<1> QED
  BY <1>2, <1>3, <1>4, <1>5

LEMMA OrderPushBack ==
  ASSUME OrderInv, IInv', Lines', PushBack("main")
  PROVE  OrderInv'
<1>1. IInv /\ Threads /\ Ways /\ "main" \in Thread
  BY DEF OrderInv, IInv, Thread
<1>2. PICK ip, m : ip = nextIP["main"] /\ m = Head(work["main"])
  OBVIOUS
<1>3. PICK e : e = [msg |-> m, age |-> 0]
  OBVIOUS
<1>4. /\ stage["main"] = "push" /\ ip \in Next_IP /\ work["main"] # <<>> /\ e \in Waiting
      /\ Step("main", Rest(Tail(work["main"])), Tail(work["main"]), nextIP["main"])
  BY <1>1, <1>2, <1>3, PushBackStep
<1>5. e.msg = m
  BY <1>3
<1>6. /\ stage'["main"] \in {"idle", "fill"}
      /\ \A n, v : OnMain(n, v)' => n \in Nat \ {0} /\ OnMain(n + 1, v)
      /\ m.kind = "data" => OnMain(1, m)
      /\ (\A q, n, v : Queued(q, n, v)' => v.daddr \in Host /\ Via[v.daddr] = q) => Ways'
  BY <1>2, <1>4, RestOfMain
<1>7. /\ pending' = [pending EXCEPT ![ip] = Append(@, e)]
      /\ UNCHANGED <<taken, sent, ARPCache>>
  BY <1>2, <1>3 DEF PushBack, wires
<1>8. /\ pending[ip] \in Seq(Waiting) /\ pending'[ip] = Append(pending[ip], e)
      /\ \A q \in Next_IP : q # ip => pending'[q] = pending[q]
  BY <1>1, <1>4, <1>7 DEF IInv, Tables
<1>9. PICK N : N = Len(pending[ip]) + 1
  OBVIOUS
<1>10. /\ DOMAIN pending'[ip] = DOMAIN pending[ip] \cup {N} /\ pending'[ip][N] = e
       /\ \A n \in DOMAIN pending[ip] : pending'[ip][n] = pending[ip][n] /\ n \in Nat /\ ~(n >= N)
       /\ N \in Nat
  <2>1. \A n \in DOMAIN pending[ip] : n \in Nat /\ ~(n >= N) /\ N \in Nat
    BY <1>8, <1>9
  <2>2. N \in Nat
    BY <1>8, <1>9
  <2> QED
    BY <1>4, <1>8, <1>9, <2>1, <2>2, AppendedAt
<1>11. m.kind = "data" /\ ip \in Hop => /\ OnMain(1, m) /\ m.daddr \in Host /\ Via[m.daddr] = ip
                                        /\ Lies("main", ip, 1, m.about)
  <2>1. ip \in Hop => ip # Nowhere
    BY ForwardingAssumption DEF ForwardingAssumption
  <2>2. m.kind = "data" => /\ OnMain(1, m) /\ m.daddr \in Host /\ ip \in {Via[m.daddr], Nowhere}
    BY <1>1, <1>2, <1>4, <1>6 DEF Ways
  <2> QED
    BY <1>4, <2>1, <2>2 DEF Lies
<1>12. ASSUME NEW q, NEW n, NEW v, Queued(q, n, v)'
       PROVE  \/ Queued(q, n, v) /\ ~(q = ip /\ n >= N)
              \/ q = ip /\ n = N /\ v = m /\ v.kind = "data" /\ ip \in Hop
  <2>1. /\ q \in Hop /\ n \in DOMAIN pending'[q] /\ pending'[q][n].msg = v /\ v.kind = "data"
        /\ q \in Next_IP
    BY <1>12 DEF Queued, Next_IP
  <2>2. CASE q # ip
    BY <1>4, <1>8, <2>1, <2>2 DEF Queued
  <2>3. CASE q = ip /\ n = N
    BY <1>5, <1>10, <2>1, <2>3
  <2>4. CASE q = ip /\ n # N
    BY <1>4, <1>10, <2>1, <2>4 DEF Queued
  <2> QED
    BY <2>2, <2>3, <2>4
<1>13. Ways'
  BY <1>1, <1>6, <1>11, <1>12 DEF Ways
<1>14. ASSUME NEW at \in {"sent", "list"}, NEW j, NEW n, NEW q, Lies(at, j, n, q)'
       PROVE  \/ Lies(at, j, n, q) /\ ~(at = "list" /\ j = ip /\ n >= N)
              \/ at = "list" /\ j = ip /\ n = N /\ q = m.about /\ Lies("main", ip, 1, m.about)
  <2>1. CASE at = "sent"
    BY <1>7, <1>14, <2>1 DEF Lies
  <2>2. CASE at = "list"
    <3>1. PICK v : Queued(j, n, v)' /\ v.about = q
      BY <1>14, <2>2 DEF Lies
    <3>2. CASE Queued(j, n, v) /\ ~(j = ip /\ n >= N)
      BY <2>2, <3>1, <3>2 DEF Lies
    <3>3. CASE j = ip /\ n = N /\ v = m /\ v.kind = "data" /\ ip \in Hop
      BY <1>11, <2>2, <3>1, <3>3
    <3> QED  BY <1>12, <3>1, <3>2, <3>3
  <2> QED  BY <2>1, <2>2
<1>15. stage["main"] # "decide" /\ stage'["main"] # "decide"
  BY <1>4, <1>6
<1>16. PICK to \in {"sent", "list"} : to = "list"
  OBVIOUS
<1> QED
  BY <1>6, <1>7, <1>10, <1>13, <1>14, <1>15, <1>16, FirstGoes

LEMMA OrderEmit ==
  ASSUME OrderInv, IInv', Lines', Emit("main")
  PROVE  OrderInv'
<1>1. IInv /\ Threads /\ Ways /\ Lines /\ "main" \in Thread
  BY DEF OrderInv, IInv, Thread
<1>2. PICK ip, m : ip = nextIP["main"] /\ m = Head(work["main"])
  OBVIOUS
<1>3. PICK s : s = [ip |-> ip, kind |-> m.kind, about |-> m.about]
  OBVIOUS
<1>4. /\ stage["main"] = "emit" /\ work["main"] # <<>>
      /\ Step("main", Rest(Tail(work["main"])), Tail(work["main"]), nextIP["main"])
  BY <1>1, EmitStep
<1>5. s.ip = ip /\ s.kind = m.kind /\ s.about = m.about
  BY <1>3
<1>6. /\ stage'["main"] \in {"idle", "fill"}
      /\ \A n, v : OnMain(n, v)' => n \in Nat \ {0} /\ OnMain(n + 1, v)
      /\ m.kind = "data" => OnMain(1, m)
      /\ (\A q, n, v : Queued(q, n, v)' => v.daddr \in Host /\ Via[v.daddr] = q) => Ways'
  BY <1>2, <1>4, RestOfMain
<1>7. sent' = Append(sent, s) /\ UNCHANGED <<taken, pending, ARPCache>>
  BY <1>2, <1>3 DEF Emit, arp, buffer
<1>8. PICK N : N = Len(sent) + 1
  OBVIOUS
<1>9. /\ DOMAIN sent' = DOMAIN sent \cup {N} /\ sent'[N] = s /\ N \in Nat
      /\ \A n \in DOMAIN sent : sent'[n] = sent[n] /\ n \in Nat /\ ~(n >= N)
  BY <1>1, <1>7, <1>8 DEF Lines
<1>10. m.kind = "data" => /\ Lies("main", ip, 1, m.about) /\ ip \in ARPCache
  <2>1. ASSUME m.kind = "data"
        PROVE  OnMain(1, m) /\ ip \in ARPCache /\ ip \in {Via[m.daddr], Nowhere}
    BY <1>1, <1>2, <1>4, <1>6, <2>1 DEF Ways
  <2>2. \A q \in ARPCache : q # Nowhere
    BY <1>1, ForwardingAssumption DEF ForwardingAssumption, IInv, Tables
  <2> QED
    BY <1>4, <2>1, <2>2 DEF Lies
<1>11. \A q, n, v : Queued(q, n, v)' => Queued(q, n, v)
  BY <1>4, <1>7, QueuedSame
<1>12. Ways'
  BY <1>1, <1>6, <1>11 DEF Ways
<1>13. ASSUME NEW at \in {"sent", "list"}, NEW j, NEW n, NEW q, Lies(at, j, n, q)'
       PROVE  \/ Lies(at, j, n, q) /\ ~(at = "sent" /\ j = ip /\ n >= N)
              \/ /\ at = "sent" /\ j = ip /\ n = N /\ q = m.about /\ Lies("main", ip, 1, m.about)
                 /\ m.kind = "data"
  <2>1. CASE at = "list"
    BY <1>11, <1>13, <2>1 DEF Lies
  <2>2. CASE at = "sent"
    <3>1. n \in Data(sent') /\ sent'[n].ip = j /\ sent'[n].about = q
      BY <1>13, <2>2 DEF Lies
    <3>2. n \in DOMAIN sent' /\ sent'[n].kind = "data"
      BY <3>1 DEF Data
    <3>3. CASE n = N
      BY <1>5, <1>9, <1>10, <2>2, <3>1, <3>2, <3>3
    <3>4. CASE n # N
      BY <1>9, <2>2, <3>1, <3>2, <3>4 DEF Lies, Data
    <3> QED  BY <3>3, <3>4
  <2> QED  BY <2>1, <2>2
<1>14. stage["main"] # "decide" /\ stage'["main"] # "decide"
  BY <1>4, <1>6
<1>15. PICK to \in {"sent", "list"} : to = "sent"
  OBVIOUS
\* Nothing waits for an address that is known while main sends to it.
<1>16. CASE m.kind = "data"
  <2>1. DataFor(ip) = {}
    BY <1>1, <1>4, <1>10, <1>16 DEF IInv, NoneStranded, Taking, Dead
  <2>2. \A n, v : ~Queued(ip, n, v)
    BY <2>1 DEF DataFor, Data, Messages, Queued
  <2>3. \A n, q : ~Lies("list", ip, n, q)'
    BY <1>11, <2>2 DEF Lies
  <2>4. \A at \in {"sent", "list"} : \A j, n, q : Lies(at, j, n, q)' =>
           \/ Lies(at, j, n, q) /\ ~(at = to /\ j = ip /\ n >= N)
           \/ at = to /\ j = ip /\ n = N /\ q = m.about /\ Lies("main", ip, 1, m.about)
    BY <1>13, <1>15
  <2>5. N \in Nat /\ (to = "sent" => \A n, q : ~Lies("list", ip, n, q)')
    BY <1>9, <2>3
  <2> QED
    BY <1>6, <1>7, <1>12, <1>14, <1>15, <2>4, <2>5, FirstGoes
<1>17. CASE m.kind # "data"
  <2>1. PICK none \in {"sent", "list"} : none = "list"
    OBVIOUS
  <2>2. \A at \in {"sent", "list"} : \A j, n, q : Lies(at, j, n, q)' =>
           \/ Lies(at, j, n, q) /\ ~(at = none /\ j = Nowhere /\ n >= 0)
           \/ at = none /\ j = Nowhere /\ n = 0 /\ q = m.about /\ Lies("main", Nowhere, 1, m.about)
    <3>1. Nowhere \notin Hop
      BY ForwardingAssumption DEF ForwardingAssumption
    <3>2. \A n, q : ~Lies("list", Nowhere, n, q)
      BY <3>1 DEF Lies, Queued
    <3> QED
      BY <1>13, <1>17, <2>1, <3>2
  <2> QED
    BY <1>6, <1>7, <1>12, <1>14, <2>1, <2>2, FirstGoes
<1> QED
  BY <1>16, <1>17

\* A copy of a list comes to main as it lies there, or there is none.
LEMMA OrderCopyList ==
  ASSUME OrderInv, IInv', Lines', CopyList
  PROVE  OrderInv'
<1>1. IInv /\ Threads /\ Tables /\ Ways /\ "main" \in Thread
  BY DEF OrderInv, IInv, Thread
<1>2. PICK ip : ip = nextIP["main"]
  OBVIOUS
<1>3. /\ stage["main"] = "copy" /\ ip \in Hop /\ ip \in Next_IP
      /\ pending[ip] \in Seq(Waiting) /\ UNCHANGED <<taken, sent, pending, ARPCache>>
  BY <1>1, <1>2 DEF CopyList, Ways, wires, Tables, Next_IP
<1>4. \A n, m : ~OnMain(n, m)
  <2>1. work["main"] = <<>>
    BY <1>1, <1>3 DEF Threads, Fits
  <2> QED  BY <2>1, NoneOfNone DEF OnMain
<1>5. \A n \in Data(sent') : n \in Data(sent) /\ sent'[n] = sent[n]
  BY <1>3
<1>6. CASE ip \in listed
  <2>1. PICK msgs : msgs = Messages(pending[ip])
    OBVIOUS
  <2>2. /\ stage' = [stage EXCEPT !["main"] = "erase"]
        /\ work' = [work EXCEPT !["main"] = msgs] /\ nextIP' = nextIP
    BY <1>2, <1>6, <2>1 DEF CopyList
  <2>3. Step("main", "erase", msgs, ip)
    BY <1>1, <1>2, <2>2, Unmoved DEF Step
  <2>4. /\ stage'["main"] = "erase" /\ nextIP'["main"] = ip
        /\ \A n, m : OnMain(n, m)' <=> n \in Data(msgs) /\ msgs[n] = m
    BY <1>1, <2>3, MainAt
  <2>5. ASSUME NEW n, NEW m, OnMain(n, m)' PROVE Queued(ip, n, m)
    <3>1. n \in DOMAIN pending[ip] /\ pending[ip][n].msg = m /\ m.kind = "data"
      BY <1>3, <2>1, <2>4, <2>5, MessagesIs DEF Data
    <3> QED  BY <1>3, <3>1 DEF Queued
  <2>6. \A q, n, m : Queued(q, n, m)' => q # ip /\ Queued(q, n, m)
    BY <1>3, <2>4 DEF Queued
  <2>7. ASSUME NEW at, NEW j, NEW n, NEW q, Lies(at, j, n, q)'
        PROVE  \/ at = "main" /\ j = ip /\ Lies("list", ip, n, q)
               \/ at = "list" /\ j # ip /\ Lies("list", j, n, q)
               \/ at = "sent" /\ Lies("sent", j, n, q)
    <3>1. CASE at = "sent"
      BY <1>3, <2>7, <3>1 DEF Lies
    <3>2. CASE at = "list"
      BY <2>6, <2>7, <3>2 DEF Lies
    <3>3. CASE at \notin {"sent", "list"}
      <4>1. PICK m : OnMain(n, m)' /\ m.about = q /\ at = "main" /\ j = Via[m.daddr]
        BY <2>4, <2>7, <3>3 DEF Lies
      <4>2. Queued(ip, n, m) /\ Via[m.daddr] = ip
        BY <1>1, <2>5, <4>1 DEF Ways
      <4> QED  BY <4>1, <4>2 DEF Lies
    <3> QED  BY <3>1, <3>2, <3>3
  <2>8. Known'
    BY <1>3, <2>7 DEF OrderInv, Known
  <2>9. Apart'
    <3>1. ASSUME NEW a, NEW b, NEW i, NEW j, NEW m, NEW n, NEW p,
                 Lies(a, i, m, p)', Lies(b, j, n, p)'
          PROVE  a = b /\ i = j /\ m = n
      BY <2>7, <3>1 DEF OrderInv, Apart
    <3> QED  BY <3>1 DEF Apart
  <2>10. Ordered'
    <3>1. ASSUME NEW a, NEW b, NEW i, NEW m, NEW n, NEW p, NEW q,
                 Lies(a, i, m, p)', Lies(b, i, n, q)', Ahead(a, m, b, n)
          PROVE  Earlier(taken, p, q)
      <4>1. CASE b = "main"
        <5>1. i = ip /\ Lies("list", ip, n, q)
          BY <2>7, <3>1, <4>1
        <5>2. a \in {"main", "sent"}
          BY <2>7, <3>1, <5>1
        <5>3. CASE a = "main"
          <6>1. Lies("list", ip, m, p) /\ Ahead("list", m, "list", n)
            BY <2>7, <3>1, <4>1, <5>3 DEF Ahead
          <6> QED  BY <5>1, <6>1 DEF OrderInv, Ordered
        <5>4. CASE a = "sent"
          <6>1. Lies("sent", ip, m, p) /\ Ahead("sent", m, "list", n)
            BY <2>7, <3>1, <5>1, <5>4 DEF Ahead
          <6> QED  BY <5>1, <6>1 DEF OrderInv, Ordered
        <5> QED  BY <5>2, <5>3, <5>4
      <4>2. CASE b # "main"
        <5>1. b \in {"sent", "list"} /\ Lies(b, i, n, q) /\ a # "main"
          BY <2>7, <3>1, <4>2 DEF Ahead
        <5>2. Lies(a, i, m, p)
          BY <2>7, <3>1, <5>1
        <5> QED  BY <3>1, <5>1, <5>2 DEF OrderInv, Ordered
      <4> QED  BY <4>1, <4>2
    <3>2. \A at, j, n, q : Lies(at, j, n, q)' => at # "new"
      BY <2>7
    <3>3. taken' = taken
      BY <1>3
    <3> QED  BY <3>1, <3>2, <3>3 DEF Ordered, Ahead, Earlier
  <2>11. Ways'
    BY <1>1, <2>4, <2>5, <2>6 DEF Ways
  <2> QED
    BY <2>8, <2>9, <2>10, <2>11 DEF OrderInv
<1>7. CASE ip \notin listed
  <2>1. /\ stage' = [stage EXCEPT !["main"] = "idle"] /\ work' = work
    BY <1>2, <1>7 DEF CopyList
  <2>2. stage'["main"] = "idle"
    BY <1>1, <2>1 DEF Threads
  <2>3. \A n, m : ~OnMain(n, m)'
    BY <1>4, <2>1, OnMainSame
  <2>4. \A q, n, m : Queued(q, n, m)' => Queued(q, n, m)
    BY <1>3, QueuedSame
  <2> QED
    BY <1>3, <1>5, <2>2, <2>3, <2>4, OrderFewer
<1> QED
  BY <1>6, <1>7

\* The sweep takes an entry from a list: those behind it move up.
LEMMA OrderEraseEntry ==
  ASSUME OrderInv, IInv', Lines', EraseEntry
  PROVE  OrderInv'
<1>1. IInv /\ Threads /\ Tables /\ Ways /\ "sweep" \in Thread \ {"main"}
  BY DEF OrderInv, IInv, Thread
<1>2. PICK x, k : x = nextIP["sweep"] /\ k = Expired(pending[x])
  OBVIOUS
<1>3. /\ stage["sweep"] = "remove" /\ x \in listed /\ x \in Next_IP
      /\ pending' = [pending EXCEPT ![x] = RemoveAt(@, k)]
      /\ UNCHANGED <<taken, sent, ARPCache>>
  BY <1>1, <1>2 DEF EraseEntry, wires, Tables
<1>4. UNCHANGED <<stage["main"], work["main"], nextIP["main"]>>
  <2>1. Proceed("sweep", work["sweep"]) /\ UNCHANGED nextIP
    BY DEF EraseEntry
  <2>2. Step("sweep", Rest(work["sweep"]), work["sweep"], nextIP["sweep"])
    BY <1>1, <1>3, <2>1, EraseEntryStep
  <2> QED
    BY <1>1, <2>2, OtherStep
<1>5. /\ pending[x] \in Seq(Waiting) /\ pending'[x] = RemoveAt(pending[x], k)
      /\ \A ip \in Next_IP : ip # x => pending'[ip] = pending[ip]
  BY <1>1, <1>3 DEF Tables
<1>6. \A n, m : OnMain(n, m)' <=> OnMain(n, m)
  BY <1>4, OnMainSame
<1>7. CASE k \notin DOMAIN pending[x]
  <2>1. pending'[x] = pending[x]
    BY <1>2, <1>5, <1>7, EntryGone
  <2>2. \A ip \in Hop : \A n \in DOMAIN pending'[ip] : pending'[ip][n].msg.kind = "data" =>
          n \in DOMAIN pending[ip] /\ pending'[ip][n].msg = pending[ip][n].msg
    BY <1>5, <2>1 DEF Next_IP
  <2> QED
    BY <1>3, <1>4, <2>2, OrderOthers
<1>8. CASE k \in DOMAIN pending[x]
  <2> DEFINE Was(ip, n) == IF ip # x \/ n < k THEN n ELSE n + 1
  <2>1. PICK L : L = Len(pending[x])
    OBVIOUS
  <2>2. /\ L \in Nat /\ k \in 1 .. L /\ DOMAIN pending[x] = 1 .. L
        /\ DOMAIN pending'[x] = 1 .. L - 1
        /\ \A n \in 1 .. L - 1 : pending'[x][n] = IF n < k THEN pending[x][n] ELSE pending[x][n + 1]
    BY <1>5, <1>8, <2>1, RemovedList
  <2>3. ASSUME NEW n \in DOMAIN pending'[x]
        PROVE  /\ n \in Nat /\ Was(x, n) \in DOMAIN pending[x]
               /\ pending'[x][n] = pending[x][Was(x, n)]
    BY <2>2
  <2>4. ASSUME NEW ip, NEW n, NEW m, Queued(ip, n, m)' PROVE Queued(ip, Was(ip, n), m)
    <3>1. /\ ip \in Hop /\ ip \in Next_IP /\ ~(stage["main"] = "erase" /\ nextIP["main"] = ip)
          /\ n \in DOMAIN pending'[ip] /\ pending'[ip][n].msg = m /\ m.kind = "data"
      BY <1>4, <2>4 DEF Queued, Next_IP
    <3>2. CASE ip = x
      BY <2>3, <3>1, <3>2 DEF Queued
    <3>3. CASE ip # x
      BY <1>5, <3>1, <3>3 DEF Queued
    <3> QED  BY <3>2, <3>3
  <2>5. ASSUME NEW at, NEW ip, NEW n, NEW p, Lies(at, ip, n, p)'
        PROVE  \/ at # "list" /\ Lies(at, ip, n, p)
               \/ at = "list" /\ Lies("list", ip, Was(ip, n), p)
    <3>1. CASE at = "list"
      BY <2>4, <2>5, <3>1 DEF Lies
    <3>2. CASE at # "list"
      BY <1>3, <1>4, <1>6, <2>5, <3>2 DEF Lies
    <3> QED  BY <3>1, <3>2
  <2>6. ASSUME NEW ip, NEW n, NEW p, Lies("list", ip, n, p)' PROVE n \in Nat
    <3>1. PICK m : Queued(ip, n, m)'
      BY <2>6 DEF Lies
    <3>2. n \in DOMAIN pending'[ip] /\ ip \in Next_IP
      BY <3>1 DEF Queued, Next_IP
    <3>3. CASE ip = x
      BY <2>3, <3>2, <3>3
    <3>4. CASE ip # x
      <4>1. Lies("list", ip, n, p)
        BY <2>5, <2>6, <3>4
      <4> QED  BY <4>1 DEF OrderInv, Known
    <3> QED  BY <3>3, <3>4
  <2>7. \A m \in Nat, n \in Nat : \A ip : /\ Was(ip, m) = Was(ip, n) => m = n
                                          /\ m < n => Was(ip, m) < Was(ip, n)
    BY <2>2
  <2> HIDE DEF Was
  <2>8. Known'
    <3>1. ASSUME NEW at, NEW ip, NEW n, NEW p, Lies(at, ip, n, p)'
          PROVE  n \in Nat /\ p \in Range(taken)
      BY <2>5, <2>6, <3>1 DEF OrderInv, Known
    <3>2. taken' = taken
      BY <1>3
    <3> QED  BY <3>1, <3>2 DEF Known
  <2>9. Apart'
    <3>1. ASSUME NEW a, NEW b, NEW i, NEW j, NEW m, NEW n, NEW p,
                 Lies(a, i, m, p)', Lies(b, j, n, p)'
          PROVE  a = b /\ i = j /\ m = n
      <4>1. CASE a = "list" /\ b = "list"
        <5>1. i = j /\ Was(i, m) = Was(j, n)
          BY <2>5, <3>1, <4>1 DEF OrderInv, Apart
        <5> QED  BY <2>6, <2>7, <3>1, <4>1, <5>1
      <4>2. CASE a # "list" \/ b # "list"
        BY <2>5, <3>1, <4>2 DEF OrderInv, Apart
      <4> QED  BY <4>1, <4>2
    <3> QED  BY <3>1 DEF Apart
  <2>10. Ordered'
    <3>1. ASSUME NEW a, NEW b, NEW i, NEW j, NEW m, NEW n, NEW p, NEW q,
                 Lies(a, i, m, p)', Lies(b, j, n, q)', Ahead(a, m, b, n), i = j \/ b = "new"
          PROVE  Earlier(taken, p, q)
      <4>1. CASE a = "list" /\ b = "list"
        <5>1. m \in Nat /\ n \in Nat /\ m < n /\ i = j
          BY <2>6, <3>1, <4>1 DEF Ahead
        <5>2. /\ Lies("list", i, Was(i, m), p) /\ Lies("list", i, Was(i, n), q)
              /\ Ahead("list", Was(i, m), "list", Was(i, n))
          BY <2>5, <2>7, <3>1, <4>1, <5>1 DEF Ahead
        <5> QED  BY <5>2 DEF OrderInv, Ordered
      <4>2. CASE a = "list" /\ b # "list"
        <5>1. /\ Lies("list", i, Was(i, m), p) /\ Lies(b, j, n, q)
              /\ Ahead("list", Was(i, m), b, n)
          BY <2>5, <3>1, <4>2 DEF Ahead
        <5> QED  BY <3>1, <5>1 DEF OrderInv, Ordered
      <4>3. CASE a # "list" /\ b = "list"
        <5>1. /\ Lies(a, i, m, p) /\ Lies("list", j, Was(j, n), q)
              /\ Ahead(a, m, "list", Was(j, n))
          BY <2>5, <3>1, <4>3 DEF Ahead
        <5> QED  BY <3>1, <4>3, <5>1 DEF OrderInv, Ordered
      <4>4. CASE a # "list" /\ b # "list"
        BY <2>5, <3>1, <4>4 DEF OrderInv, Ordered
      <4> QED  BY <4>1, <4>2, <4>3, <4>4
    <3>2. taken' = taken
      BY <1>3
    <3> QED  BY <3>1, <3>2 DEF Ordered, Ahead, Earlier
  <2>11. Ways'
    <3>1. \A ip, n, m : Queued(ip, n, m)' => m.daddr \in Host /\ Via[m.daddr] = ip
      BY <1>1, <2>4 DEF Ways
    <3>2. ARPCache' = ARPCache
      BY <1>3
    <3> QED
      BY <1>1, <1>4, <1>6, <3>1, <3>2 DEF Ways
  <2> QED
    BY <2>8, <2>9, <2>10, <2>11 DEF OrderInv
<1> QED
  BY <1>7, <1>8

\* Steps that keep every list of messages as it is, whatever their ages.
LEMMA OrderTick ==
  ASSUME OrderInv, IInv', Lines', Tick
  PROVE  OrderInv'
<1>1. Tables
  BY DEF OrderInv, IInv
<1>2. /\ pending' = [ip \in Next_IP |-> Older(pending[ip])]
      /\ UNCHANGED <<taken, sent, ARPCache, stage, work, nextIP>>
  BY DEF Tick, threads, wires
<1>3. ASSUME NEW ip \in Hop, NEW n \in DOMAIN pending'[ip]
      PROVE  n \in DOMAIN pending[ip] /\ pending'[ip][n].msg = pending[ip][n].msg
  <2>1. pending[ip] \in Seq(Waiting) /\ pending'[ip] = Older(pending[ip])
    BY <1>1, <1>2 DEF Tables, Next_IP
  <2> QED  BY <1>3, <2>1, OlderType
<1> QED
  BY <1>2, <1>3, OrderOthers

LEMMA OrderElsewhere ==
  ASSUME OrderInv, IInv', Lines',
         \/ \E ip \in Next_IP : Sweep(ip)
         \/ EraseDangles /\ ~Die
         \/ SweepDone \/ Hello \/ clearMOSPFEntry \/ \E h \in Learned : addMOSPFEntry(h)
         \/ UNCHANGED vars
  PROVE  OrderInv'
<1>1. IInv /\ Threads /\ {"sweep", "routing"} \subseteq Thread \ {"main"}
  BY DEF OrderInv, IInv, Thread
<1>2. UNCHANGED <<taken, sent, ARPCache, pending>>
  BY DEF Sweep, EraseDangles, SweepDone, Hello, clearMOSPFEntry, addMOSPFEntry, vars, arp,
         buffer, wires
<1>3. UNCHANGED <<stage["main"], work["main"], nextIP["main"]>>
  <2>1. CASE \E ip \in Next_IP : Sweep(ip)
    BY <1>1, <2>1, SweepStepIs, OtherStep
  <2>2. CASE EraseDangles /\ ~Die
    <3>1. stage["sweep"] = "remove" /\ Proceed("sweep", work["sweep"]) /\ UNCHANGED nextIP
      BY <2>2 DEF EraseDangles
    <3>2. Step("sweep", Rest(work["sweep"]), work["sweep"], nextIP["sweep"])
      BY <1>1, <3>1, EraseEntryStep
    <3> QED
      BY <1>1, <3>2, OtherStep
  <2>3. CASE Hello
    BY <1>1, <2>3, HelloStep, OtherStep
  <2>4. CASE SweepDone \/ clearMOSPFEntry \/ (\E h \in Learned : addMOSPFEntry(h)) \/ UNCHANGED vars
    BY <2>4 DEF SweepDone, clearMOSPFEntry, addMOSPFEntry, vars, threads
  <2> QED
    BY <2>1, <2>2, <2>3, <2>4
<1> QED
  BY <1>2, <1>3, OrderOthers

LEMMA NextOrder == OrderInv /\ [Next]_vars => OrderInv'
<1> SUFFICES ASSUME OrderInv, [Next]_vars PROVE OrderInv'
  OBVIOUS
<1>1. IInv' /\ Lines'
  BY NextIInv, LinesKept DEF OrderInv
<1>2. ASSUME NEW p \in Packet, NEW h \in Traffic[p], Receive(p, h) PROVE OrderInv'
  BY <1>1, <1>2, OrderReceive
<1>3. CASE Decide
  BY <1>1, <1>3, OrderDecide
<1>4. ASSUME NEW t \in Thread, Send(t) PROVE OrderInv'
  <2>1. CASE PushNowhere(t)
    BY <1>1, <2>1, OrderDie DEF PushNowhere
  <2>2. CASE t = "main" /\ Emit(t)
    BY <1>1, <2>2, OrderEmit
  <2>3. CASE t = "main" /\ PushBack(t)
    BY <1>1, <2>3, OrderPushBack
  <2>4. CASE t = "main" /\ (Fill(t) \/ Look(t) \/ Pend(t) \/ Insert(t))
    BY <1>1, <2>4, OrderOnWay
  <2>5. CASE t # "main" /\ ~PushNowhere(t)
    <3>1. Fill(t) \/ Look(t) \/ Pend(t) \/ Insert(t) \/ PushBack(t) \/ Emit(t)
      BY <1>4, <2>5 DEF Send
    <3> QED
      BY <1>1, <2>5, <3>1, OrderOtherSends
  <2> QED
    BY <1>4, <2>1, <2>2, <2>3, <2>4, <2>5 DEF Send
<1>5. CASE TakeList
  <2>1. CASE CopyList
    BY <1>1, <2>1, OrderCopyList
  <2>2. CASE EraseList
    BY <1>1, <2>2, OrderOnWay
  <2>3. CASE WalkDangles
    BY <1>1, <2>3, OrderDie DEF WalkDangles
  <2> QED
    BY <1>5, <2>1, <2>2, <2>3 DEF TakeList
<1>6. CASE SweepStep
  <2>1. CASE EraseEntry
    BY <1>1, <2>1, OrderEraseEntry
  <2>2. CASE EraseDangles /\ Die
    BY <1>1, <2>2, OrderDie
  <2>3. CASE SweepDone \/ (\E ip \in Next_IP : Sweep(ip)) \/ (EraseDangles /\ ~Die)
    BY <1>1, <2>3, OrderElsewhere
  <2> QED
    BY <1>6, <2>1, <2>2, <2>3 DEF SweepStep
<1>7. CASE \E ip \in Hop : handleARPPacket(ip)
  BY <1>1, <1>7, OrderOnWay
<1>8. CASE Tick
  BY <1>1, <1>8, OrderTick
<1>9. CASE Hello \/ clearMOSPFEntry \/ (\E h \in Learned : addMOSPFEntry(h)) \/ UNCHANGED vars
  BY <1>1, <1>9, OrderElsewhere
<1> QED
  BY <1>2, <1>3, <1>4, <1>5, <1>6, <1>7, <1>8, <1>9 DEF Next

\* However the three threads meet in ARPMissPendingBuff without a lock, and
\* whatever they do to the header and the routes, no packet of a host is
\* forwarded twice, and those to one next hop leave in the order they came in:
\* handlePacket appends to what waits (ARPMissPendingBuff.cpp:27), and an answer
\* lets all go in that order before the next packet is looked at
\* (IPPacketModule.cpp:115-136).
THEOREM ForwardingInOrder == Spec => []InOrder
<1>1. Init => OrderInv
  BY InitOrder
<1>2. OrderInv => InOrder
  <2> SUFFICES ASSUME OrderInv, NEW i \in Data(sent), NEW j \in Data(sent), i < j
               PROVE  /\ sent[i].about # sent[j].about
                      /\ sent[i].ip = sent[j].ip => Earlier(taken, sent[i].about, sent[j].about)
    BY DEF InOrder, Earlier
  <2>1. /\ Lies("sent", sent[i].ip, i, sent[i].about) /\ Lies("sent", sent[j].ip, j, sent[j].about)
        /\ Ahead("sent", i, "sent", j)
    BY DEF Lies, Ahead
  <2>2. i \in Nat /\ j \in Nat /\ i # j
    BY <2>1 DEF OrderInv, Known
  <2>3. sent[i].about # sent[j].about
    BY <2>1, <2>2 DEF OrderInv, Apart
  <2>4. sent[i].ip = sent[j].ip => Earlier(taken, sent[i].about, sent[j].about)
    BY <2>1 DEF OrderInv, Ordered
  <2> QED  BY <2>3, <2>4
<1> QED
  BY <1>1, <1>2, NextOrder, PTL DEF Spec

=============================================================================
