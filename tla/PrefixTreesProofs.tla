------------------------- MODULE PrefixTreesProofs -------------------------
(***************************************************************************)
(* The bit-by-bit tree, the multibit tree and the compressed tree all find *)
(* the longest match, for addresses of any width, strides that divide it   *)
(* and tables of any size: what checkWithBase compares on one data set.    *)
(***************************************************************************)
EXTENDS PrefixTrees, NumberLemmas, SequenceTheorems

-----------------------------------------------------------------------------
(* Numbers.                                                                *)

LEMMA ProductMod ==
  ASSUME NEW q \in Nat, NEW b \in Nat \ {0}
  PROVE  (q * b) % b = 0
  BY Z3

\* Two multiples of b are equal or at least b apart.
LEMMA MultiplesApart ==
  ASSUME NEW b \in Nat \ {0}, NEW x \in Nat, NEW y \in Nat,
         x % b = 0, y % b = 0, x < y
  PROVE  x + b <= y
<1>1. x = (x \div b) * b /\ x \div b \in Nat
  BY DivIs
<1>2. y = (y \div b) * b /\ y \div b \in Nat
  BY DivIs
<1>3. x \div b < y \div b
  <2>1. SUFFICES ASSUME y \div b <= x \div b PROVE FALSE
    BY <1>1, <1>2
  <2>2. CASE y \div b = x \div b
    BY <1>1, <1>2, <2>2
  <2>3. CASE y \div b < x \div b
    <3>1. (y \div b) * b + b <= (x \div b) * b
      BY <1>1, <1>2, <2>3, ProductGrows
    <3> QED
      BY <1>1, <1>2, <3>1
  <2> QED
    BY <1>1, <1>2, <2>1, <2>2, <2>3
<1>4. (x \div b) * b + b <= (y \div b) * b
  BY <1>1, <1>2, <1>3, ProductGrows
<1> QED
  BY <1>1, <1>2, <1>4

\* The level of a mask is the first one that reaches it.
LEMMA LevelIs ==
  ASSUME BIT_NUM \in Nat \ {0}, NEW m \in Nat
  PROVE  /\ Level(m) \in Nat /\ Level(m) % BIT_NUM = 0
         /\ m <= Level(m) /\ Level(m) < m + BIT_NUM
<1> DEFINE x == m + BIT_NUM - 1
           p == (x \div BIT_NUM) * BIT_NUM
<1>1. x \in Nat
  OBVIOUS
<1>2. x % BIT_NUM \in 0 .. BIT_NUM - 1 /\ x = p + (x % BIT_NUM) /\ x \div BIT_NUM \in Nat
  BY <1>1, DivIs
<1>3. Level(m) = p
  BY DEF Level
<1>4. p \in Nat /\ p % BIT_NUM = 0
  <2>1. p \in Nat
    BY <1>2, Z3
  <2>2. p % BIT_NUM = 0
    BY <1>2, ProductMod
  <2> QED
    BY <2>1, <2>2
<1> HIDE DEF p
<1>5. p <= x /\ x < p + BIT_NUM
  BY <1>1, <1>2, <1>4
<1> QED
  BY <1>3, <1>4, <1>5

\* A set of numbers up to w has a largest element.
LEMMA MaxExists ==
  ASSUME NEW w \in Nat, NEW S \in SUBSET (0 .. w), S # {}
  PROVE  Max(S) \in S /\ \A x \in S : x <= Max(S)
<1> DEFINE T == {w - x : x \in S}
<1>1. \A x \in S : w - x \in Nat
  OBVIOUS
<1>2. T \subseteq Nat /\ T # {}
  BY <1>1
<1>3. \E x \in T : \A y \in T : ~ (<<y, x>> \in Less)
  <2> HIDE DEF T
  <2> QED
    BY <1>2, LessWellFounded, WFMin
<1>4. PICK x \in S : \A y \in S : ~ (<<w - y, w - x>> \in Less)
  BY <1>3
<1>5. \A y \in S : w - x <= w - y
  <2>1. \A a, b \in Nat : ~ (<<b, a>> \in Less) => a <= b
    BY DEF Less
  <2> QED
    BY <1>1, <1>4, <2>1
<1>6. \A y \in S : x >= y
  BY <1>5
<1> QED
  BY <1>6 DEF Max

-----------------------------------------------------------------------------
(* Strings of bits.                                                        *)

LEMMA PrefixIs ==
  ASSUME NEW m \in Nat, NEW a \in [1 .. m -> Bit], NEW n \in 0 .. m
  PROVE  Prefix(a, n) = [i \in 1 .. n |-> a[i]]
<1> DEFINE s == SubSeq(a, 1, n)
<1>1. /\ s \in Seq(Bit)
      /\ Len(s) = n
      /\ \A i \in 1 .. n : s[i] = a[i]
  <2>1. \A i \in 1 .. n : a[i] \in Bit
    OBVIOUS
  <2>2. /\ s \in Seq(Bit)
        /\ Len(s) = IF 1 <= n THEN n - 1 + 1 ELSE 0
        /\ \A i \in 1 .. n - 1 + 1 : s[i] = a[1 + i - 1]
    BY <2>1, SubSeqProperties
  <2> QED
    BY <2>2
<1> HIDE DEF s
<1>2. s \in [1 .. n -> Bit]
  BY <1>1, LenProperties
<1>3. s = [i \in 1 .. n |-> a[i]]
  BY <1>1, <1>2
<1> QED
  BY <1>3 DEF s, Prefix

LEMMA PrefixType ==
  ASSUME NEW m \in Nat, NEW a \in [1 .. m -> Bit], NEW n \in 0 .. m
  PROVE  Prefix(a, n) \in [1 .. n -> Bit]
  BY PrefixIs

\* Prefixes are equal when they have the same length and the same bits.
LEMMA PrefixEqual ==
  ASSUME NEW m \in Nat, NEW a \in [1 .. m -> Bit], NEW n \in 0 .. m,
         NEW l \in Nat, NEW b \in [1 .. l -> Bit], NEW k \in 0 .. l
  PROVE  Prefix(a, n) = Prefix(b, k) <=> n = k /\ \A i \in 1 .. n : a[i] = b[i]
<1>1. Prefix(a, n) = [i \in 1 .. n |-> a[i]] /\ Prefix(b, k) = [i \in 1 .. k |-> b[i]]
  BY PrefixIs
<1>2. ASSUME Prefix(a, n) = Prefix(b, k) PROVE n = k /\ \A i \in 1 .. n : a[i] = b[i]
  <2>1. 1 .. n = 1 .. k
    BY <1>1, <1>2
  <2>2. n = k
    BY <2>1
  <2> QED
    BY <1>1, <1>2, <2>2
<1> QED
  BY <1>1, <1>2

\* A prefix of a prefix is a prefix.
LEMMA PrefixOfPrefix ==
  ASSUME NEW m \in Nat, NEW a \in [1 .. m -> Bit], NEW n \in 0 .. m, NEW k \in 0 .. n
  PROVE  Prefix(Prefix(a, n), k) = Prefix(a, k)
<1>1. Prefix(a, n) \in [1 .. n -> Bit] /\ \A i \in 1 .. n : Prefix(a, n)[i] = a[i]
  BY PrefixIs
<1>2. Prefix(Prefix(a, n), k) = [i \in 1 .. k |-> Prefix(a, n)[i]]
  BY <1>1, PrefixIs
<1>3. Prefix(a, k) = [i \in 1 .. k |-> a[i]]
  BY PrefixIs
<1> QED
  BY <1>1, <1>2, <1>3

-----------------------------------------------------------------------------
(* The inductive invariant.  Both trees have a way to every entry of the   *)
(* table.  In the tree of single bits an entry is at the node of its       *)
(* prefix, so no two entries match an address with one mask.  In the       *)
(* multibit tree each node an entry was expanded to holds that entry or    *)
(* one with a longer mask, and whatever a node holds was expanded to it:   *)
(* this does not depend on the order in which the table was read.          *)

TreesTypeOK ==
  /\ BIT_NUM \in Strides
  /\ table \subseteq Entries

BaseTreeOK ==
  /\ \A e \in table :
       /\ \A n \in 0 .. e.mask : Prefix(e.IPStr, n) \in DOMAIN base
       /\ base[Prefix(e.IPStr, e.mask)] = e
  /\ \A node \in DOMAIN base :
       base[node] # NoEntry =>
         base[node] \in table /\ node = Prefix(base[node].IPStr, base[node].mask)

MultibitTreeOK ==
  /\ \A e \in table :
       /\ \A n \in 0 .. e.mask : n % BIT_NUM = 0 => Prefix(e.IPStr, n) \in DOMAIN multibit
       /\ \A node \in Expanded(e) : node \in DOMAIN multibit /\ multibit[node].mask >= e.mask
  /\ \A node \in DOMAIN multibit :
       multibit[node] # NoEntry =>
         multibit[node] \in table /\ node \in Expanded(multibit[node])

TreesInv == TreesTypeOK /\ BaseTreeOK /\ MultibitTreeOK

LEMMA EntryIs ==
  ASSUME NEW e \in Entries
  PROVE  /\ e.IPStr \in [1 .. W -> Bit] /\ e.mask \in 1 .. W
         /\ e.mask # 0 /\ e # NoEntry
  BY PrefixTreesAssumption DEF NoEntry, Address

LEMMA TreesInvInit == Init => TreesInv
  BY DEF Init, TreesInv, TreesTypeOK, BaseTreeOK, MultibitTreeOK, Root, NoEntry

LEMMA InsertKeepsBase ==
  ASSUME TreesTypeOK, BaseTreeOK, NEW e \in Entries, Insert(e)
  PROVE  BaseTreeOK'
<1> DEFINE path == {Prefix(e.IPStr, n) : n \in 0 .. e.mask}
<1>1. /\ table' = table \cup {e}
      /\ DOMAIN base' = DOMAIN base \cup path
      /\ \A node \in DOMAIN base \cup path :
           base'[node] = IF node = Prefix(e.IPStr, e.mask) THEN e ELSE Held(base, node)
  BY DEF Insert, insertEntry
<1>2. e.mask \in 0 .. e.mask
  BY EntryIs
<1>3. ASSUME NEW f \in table'
      PROVE  /\ \A n \in 0 .. f.mask : Prefix(f.IPStr, n) \in DOMAIN base'
             /\ base'[Prefix(f.IPStr, f.mask)] = f
  <2>1. CASE f = e
    BY <1>1, <1>2, <2>1
  <2>2. CASE f \in table /\ f # e
    <3>1. f \in Entries /\ f.mask \in 0 .. f.mask
      BY <2>2, EntryIs DEF TreesTypeOK
    <3>2. \A n \in 0 .. f.mask : Prefix(f.IPStr, n) \in DOMAIN base
      BY <2>2 DEF BaseTreeOK
    <3>3. Prefix(f.IPStr, f.mask) # Prefix(e.IPStr, e.mask)
      <4>1. f.mask = e.mask => ~ Matches(e, f.IPStr)
        BY <2>2 DEF Insert
      <4>2. ASSUME Prefix(f.IPStr, f.mask) = Prefix(e.IPStr, e.mask) PROVE f.mask = e.mask
        <5>1. W \in Nat /\ f \in Entries
          BY <3>1, PrefixTreesAssumption
        <5>2. e.IPStr \in [1 .. W -> Bit] /\ e.mask \in 0 .. W
          BY <5>1, EntryIs
        <5>3. f.IPStr \in [1 .. W -> Bit] /\ f.mask \in 0 .. W
          BY <5>1, EntryIs
        <5> QED
          BY <4>2, <5>1, <5>2, <5>3, PrefixEqual
      <4> QED
        BY <4>1, <4>2 DEF Matches
    <3>4. base[Prefix(f.IPStr, f.mask)] = f
      BY <2>2 DEF BaseTreeOK
    <3> QED
      BY <1>1, <3>1, <3>2, <3>3, <3>4 DEF Held
  <2> QED
    BY <1>1, <2>1, <2>2
<1>4. ASSUME NEW node \in DOMAIN base', base'[node] # NoEntry
      PROVE  base'[node] \in table' /\ node = Prefix(base'[node].IPStr, base'[node].mask)
  <2>1. CASE node = Prefix(e.IPStr, e.mask)
    BY <1>1, <2>1
  <2>2. CASE node # Prefix(e.IPStr, e.mask)
    <3>1. base'[node] = base[node] /\ node \in DOMAIN base
      BY <1>1, <1>4, <2>2 DEF Held
    <3> QED
      BY <1>1, <1>4, <3>1 DEF BaseTreeOK
  <2> QED
    BY <2>1, <2>2
<1> QED
  BY <1>3, <1>4 DEF BaseTreeOK

LEMMA InsertKeepsMultibit ==
  ASSUME TreesTypeOK, MultibitTreeOK, NEW e \in Entries, Insert(e)
  PROVE  MultibitTreeOK'
<1> DEFINE path == {Prefix(e.IPStr, n) : n \in {k \in 0 .. e.mask : k % BIT_NUM = 0}}
           nodes == DOMAIN multibit \cup path \cup Expanded(e)
<1>1. /\ table' = table \cup {e} /\ BIT_NUM' = BIT_NUM
      /\ DOMAIN multibit' = nodes
      /\ \A node \in nodes :
           multibit'[node] = IF node \in Expanded(e) /\ Held(multibit, node).mask < e.mask
                             THEN e ELSE Held(multibit, node)
  BY DEF Insert, insertMultibit
<1>2. \A f : Expanded(f)' = Expanded(f)
  BY <1>1 DEF Expanded, Level, Matches
<1>3. \A f \in Entries \cup {NoEntry} : f.mask \in Nat
  BY EntryIs DEF NoEntry
<1>4. \A node : Held(multibit, node) \in Entries \cup {NoEntry}
  BY DEF Held, MultibitTreeOK, TreesTypeOK
<1>5. ASSUME NEW f \in table'
      PROVE  /\ \A n \in 0 .. f.mask : n % BIT_NUM = 0 => Prefix(f.IPStr, n) \in DOMAIN multibit'
             /\ \A node \in Expanded(f) :
                  node \in DOMAIN multibit' /\ multibit'[node].mask >= f.mask
  <2>1. CASE f = e
    <3>1. \A node \in Expanded(e) : node \in nodes
      OBVIOUS
    <3>2. \A node \in Expanded(e) : multibit'[node].mask >= e.mask
      BY <1>1, <1>3, <1>4, <3>1
    <3> QED
      BY <1>1, <2>1, <3>1, <3>2
  <2>2. CASE f \in table
    <3>1. \A n \in 0 .. f.mask : n % BIT_NUM = 0 => Prefix(f.IPStr, n) \in DOMAIN multibit
      BY <2>2 DEF MultibitTreeOK
    <3>2. ASSUME NEW node \in Expanded(f)
          PROVE  node \in DOMAIN multibit' /\ multibit'[node].mask >= f.mask
      <4>1. node \in DOMAIN multibit /\ multibit[node].mask >= f.mask
        BY <2>2 DEF MultibitTreeOK
      <4>2. Held(multibit, node) = multibit[node] /\ node \in nodes
        BY <4>1 DEF Held
      <4>3. multibit[node].mask \in Nat /\ e.mask \in Nat /\ f.mask \in Nat
        BY <1>3, <1>4, <2>2, <4>2 DEF TreesTypeOK
      <4>4. (multibit'[node] = e /\ multibit[node].mask < e.mask) \/ multibit'[node] = multibit[node]
        BY <1>1, <4>2
      <4> QED
        BY <1>1, <4>1, <4>2, <4>3, <4>4
    <3> QED
      BY <1>1, <3>1, <3>2
  <2> QED
    BY <1>1, <2>1, <2>2
<1>6. ASSUME NEW node \in DOMAIN multibit', multibit'[node] # NoEntry
      PROVE  multibit'[node] \in table' /\ node \in Expanded(multibit'[node])
  <2>1. CASE node \in Expanded(e) /\ multibit'[node] = e
    BY <1>1, <2>1
  <2>2. CASE multibit'[node] = Held(multibit, node)
    <3>1. node \in DOMAIN multibit /\ multibit'[node] = multibit[node]
      BY <1>6, <2>2 DEF Held
    <3> QED
      BY <1>1, <1>6, <3>1 DEF MultibitTreeOK
  <2> QED
    BY <1>1, <2>1, <2>2
<1> QED
  BY <1>1, <1>2, <1>5, <1>6 DEF MultibitTreeOK

LEMMA TreesInvStep == TreesInv /\ [Next]_vars => TreesInv'
<1> SUFFICES ASSUME TreesInv, [Next]_vars PROVE TreesInv'
  OBVIOUS
<1>1. CASE Compress \/ UNCHANGED vars
  <2>1. UNCHANGED <<BIT_NUM, table, base, multibit>>
    BY <1>1 DEF Compress, vars
  <2> QED
    BY <2>1 DEF TreesInv, TreesTypeOK, BaseTreeOK, MultibitTreeOK, Expanded, Level, Matches
<1>2. ASSUME NEW e \in Entries, Insert(e) PROVE TreesInv'
  <2>1. TreesTypeOK'
    BY <1>2 DEF TreesInv, TreesTypeOK, Insert
  <2> QED
    BY <1>2, <2>1, InsertKeepsBase, InsertKeepsMultibit DEF TreesInv
<1> QED
  BY <1>1, <1>2 DEF Next

\* The invariant holds in every state: tables are read by insertEntry of both
\* trees, one entry after another.
THEOREM TreesInvInvariant == Spec => []TreesInv
  BY TreesInvInit, TreesInvStep, PTL DEF Spec

-----------------------------------------------------------------------------
(* The searches.                                                           *)

\* An address that an entry matches agrees with it on every shorter prefix.
LEMMA MatchIs ==
  ASSUME NEW e \in Entries, NEW ip \in Address, Matches(e, ip), NEW k \in 0 .. e.mask
  PROVE  Prefix(ip, k) = Prefix(e.IPStr, k)
<1>1. /\ e.IPStr \in [1 .. W -> Bit] /\ e.mask \in 0 .. W /\ W \in Nat
      /\ ip \in [1 .. W -> Bit]
  BY EntryIs, PrefixTreesAssumption DEF Address
<1>2. Prefix(ip, e.mask) = Prefix(e.IPStr, e.mask)
  BY DEF Matches
<1>3. Prefix(ip, k) = Prefix(Prefix(ip, e.mask), k)
  BY <1>1, PrefixOfPrefix
<1>4. Prefix(e.IPStr, k) = Prefix(Prefix(e.IPStr, e.mask), k)
  BY <1>1, PrefixOfPrefix
<1> QED
  BY <1>2, <1>3, <1>4

\* A match with the longest mask is what Longest chooses: no other entry matches
\* with that mask, as both would be at one node.
LEMMA LongestIs ==
  ASSUME TreesInv, NEW ip \in Address, NEW e \in table, Matches(e, ip),
         \A f \in table : Matches(f, ip) => f.mask <= e.mask
  PROVE  Longest(ip) = e
<1>1. ASSUME NEW g \in table, Matches(g, ip),
             \A f \in table : Matches(f, ip) => f.mask <= g.mask
      PROVE  g = e
  <2>1. g.mask <= e.mask /\ e.mask <= g.mask /\ g \in Entries /\ e \in Entries
    BY <1>1 DEF TreesInv, TreesTypeOK
  <2>2. g.mask = e.mask
    BY <2>1, EntryIs
  <2>3. Prefix(g.IPStr, g.mask) = Prefix(e.IPStr, e.mask)
    BY <1>1, <2>2 DEF Matches
  <2> QED
    BY <2>3 DEF TreesInv, BaseTreeOK
<1> QED
  BY <1>1 DEF Longest

LEMMA NoMatch ==
  ASSUME NEW ip, \A e \in table : ~ Matches(e, ip)
  PROVE  Longest(ip) = NoEntry
  BY DEF Longest

\* The search of single bits stops at the masks of the entries that match.
LEMMA BaseMet ==
  ASSUME TreesInv, NEW ip \in Address
  PROVE  /\ \A e \in table : Matches(e, ip) =>
              e.mask \in Met(base, ip, 1) /\ base[Prefix(ip, e.mask)] = e
         /\ \A n \in Met(base, ip, 1) :
              LET e == base[Prefix(ip, n)] IN e \in table /\ Matches(e, ip) /\ e.mask = n
<1>1. W \in Nat /\ ip \in [1 .. W -> Bit]
  BY PrefixTreesAssumption DEF Address
<1>2. ASSUME NEW e \in table, Matches(e, ip)
      PROVE  e.mask \in Met(base, ip, 1) /\ base[Prefix(ip, e.mask)] = e
  <2>1. e \in Entries /\ e.mask \in 1 .. W /\ e # NoEntry
    BY <1>2, EntryIs DEF TreesInv, TreesTypeOK
  <2>2. \A k \in 0 .. e.mask : Prefix(ip, k) = Prefix(e.IPStr, k)
    BY <1>2, <2>1, MatchIs
  <2>3. \A k \in 0 .. e.mask : Prefix(ip, k) \in DOMAIN base
    BY <2>2 DEF TreesInv, BaseTreeOK
  <2>4. base[Prefix(ip, e.mask)] = e
    BY <2>1, <2>2 DEF TreesInv, BaseTreeOK
  <2>5. e.mask % 1 = 0 /\ \A k \in 1 .. e.mask : k \in 0 .. e.mask
    BY <2>1
  <2> QED
    BY <2>1, <2>3, <2>4, <2>5 DEF Met
<1>3. ASSUME NEW n \in Met(base, ip, 1)
      PROVE  LET e == base[Prefix(ip, n)] IN e \in table /\ Matches(e, ip) /\ e.mask = n
  <2> DEFINE e == base[Prefix(ip, n)]
  <2>1. n \in 1 .. W /\ n % 1 = 0 /\ Prefix(ip, n) \in DOMAIN base /\ e # NoEntry
    BY DEF Met
  <2>2. e \in table /\ Prefix(ip, n) = Prefix(e.IPStr, e.mask)
    BY <2>1 DEF TreesInv, BaseTreeOK
  <2>3. e.IPStr \in [1 .. W -> Bit] /\ e.mask \in 0 .. W /\ n \in 0 .. W
    BY <2>1, <2>2, EntryIs DEF TreesInv, TreesTypeOK
  <2> HIDE DEF e
  <2>4. e.mask = n
    BY <1>1, <2>2, <2>3, PrefixEqual
  <2> QED
    BY <2>2, <2>4 DEF e, Matches
<1> QED
  BY <1>2, <1>3

LEMMA BaseSearch ==
  ASSUME TreesInv, NEW ip \in Address
  PROVE  searchIP(base, ip, 1) = Longest(ip)
<1> DEFINE met == Met(base, ip, 1)
<1>1. CASE met = {}
  BY <1>1, BaseMet, NoMatch DEF searchIP
<1>2. CASE met # {}
  <2> DEFINE n == Max(met)
             e == base[Prefix(ip, n)]
  <2>1. met \subseteq 0 .. W /\ W \in Nat
    BY PrefixTreesAssumption DEF Met
  <2>2. n \in met /\ \A k \in met : k <= n
    BY <1>2, <2>1, MaxExists
  <2>3. e \in table /\ Matches(e, ip) /\ e.mask = n
    BY <2>2, BaseMet
  <2>4. \A f \in table : Matches(f, ip) => f.mask <= e.mask
    BY <2>2, <2>3, BaseMet
  <2>5. Longest(ip) = e
    BY <2>3, <2>4, LongestIs
  <2> QED
    BY <1>2, <2>5 DEF searchIP
<1> QED
  BY <1>1, <1>2

LEMMA StrideIs ==
  ASSUME TreesInv
  PROVE  BIT_NUM \in Nat \ {0} /\ W \in Nat /\ W % BIT_NUM = 0
  BY PrefixTreesAssumption DEF TreesInv, TreesTypeOK

\* The search of the multibit tree stops at the level of every entry that
\* matches, and finds there an entry that matches with no shorter a mask.
LEMMA MultibitMet ==
  ASSUME TreesInv, NEW ip \in Address
  PROVE  /\ \A f \in table : Matches(f, ip) =>
              /\ Level(f.mask) \in Met(multibit, ip, BIT_NUM)
              /\ multibit[Prefix(ip, Level(f.mask))].mask >= f.mask
         /\ \A n \in Met(multibit, ip, BIT_NUM) :
              LET e == multibit[Prefix(ip, n)] IN e \in table /\ Matches(e, ip) /\ n = Level(e.mask)
<1>1. W \in Nat /\ ip \in [1 .. W -> Bit]
  BY PrefixTreesAssumption DEF Address
<1>2. ASSUME NEW f \in table, Matches(f, ip)
      PROVE  /\ Level(f.mask) \in Met(multibit, ip, BIT_NUM)
             /\ multibit[Prefix(ip, Level(f.mask))].mask >= f.mask
  <2> DEFINE l == Level(f.mask)
  <2>1. f \in Entries /\ f.mask \in 1 .. W /\ f.mask \in Nat
    BY EntryIs DEF TreesInv, TreesTypeOK
  <2>2. /\ l \in Nat /\ l % BIT_NUM = 0
        /\ f.mask <= l /\ l < f.mask + BIT_NUM
    BY <2>1, StrideIs, LevelIs
  <2> HIDE DEF l
  <2>3. l \in 1 .. W
    <3>1. ASSUME W < l PROVE FALSE
      <4>1. W + BIT_NUM <= l
        BY <2>2, <3>1, StrideIs, MultiplesApart
      <4> QED
        BY <2>1, <2>2, <4>1, StrideIs
    <3> QED
      BY <2>1, <2>2, <3>1, <1>1
  <2>4. Prefix(ip, l) \in Expanded(f)
    <3>1. Prefix(ip, l) \in [1 .. l -> Bit]
      BY <1>1, <2>3, PrefixType
    <3>2. Prefix(Prefix(ip, l), f.mask) = Prefix(ip, f.mask)
      BY <1>1, <2>1, <2>2, <2>3, PrefixOfPrefix
    <3> QED
      BY <1>2, <3>1, <3>2 DEF Expanded, Matches, l
  <2>5. Prefix(ip, l) \in DOMAIN multibit /\ multibit[Prefix(ip, l)].mask >= f.mask
    BY <2>4 DEF TreesInv, MultibitTreeOK
  <2>6. ASSUME NEW k \in 1 .. l, k % BIT_NUM = 0 PROVE Prefix(ip, k) \in DOMAIN multibit
    <3>1. CASE k = l
      BY <2>5, <3>1
    <3>2. CASE k < l
      <4>1. k + BIT_NUM <= l
        BY <2>2, <2>6, <3>2, StrideIs, MultiplesApart
      <4>2. k \in 0 .. f.mask
        BY <2>1, <2>2, <4>1, StrideIs
      <4>3. Prefix(ip, k) = Prefix(f.IPStr, k)
        BY <1>2, <2>1, <4>2, MatchIs
      <4> QED
        BY <2>6, <4>2, <4>3 DEF TreesInv, MultibitTreeOK
    <3> QED
      BY <2>2, <3>1, <3>2
  <2>7. multibit[Prefix(ip, l)] # NoEntry
    BY <2>1, <2>5 DEF NoEntry
  <2>8. l \in Met(multibit, ip, BIT_NUM)
    BY <2>2, <2>3, <2>6, <2>7 DEF Met
  <2> QED
    BY <2>5, <2>8 DEF l
<1>3. ASSUME NEW n \in Met(multibit, ip, BIT_NUM)
      PROVE  LET e == multibit[Prefix(ip, n)]
             IN  e \in table /\ Matches(e, ip) /\ n = Level(e.mask)
  <2> DEFINE e == multibit[Prefix(ip, n)]
  <2>1. n \in 1 .. W /\ n % BIT_NUM = 0 /\ e # NoEntry
    BY DEF Met
  <2>2. n \in 1 .. n
    BY <2>1
  <2>3. Prefix(ip, n) \in DOMAIN multibit
    BY <2>1, <2>2 DEF Met
  <2>4. e \in table /\ Prefix(ip, n) \in Expanded(e)
    BY <2>1, <2>3 DEF TreesInv, MultibitTreeOK
  <2>5. e \in Entries /\ e.mask \in Nat
    BY <2>4, EntryIs DEF TreesInv, TreesTypeOK
  <2> HIDE DEF e
  <2>6. Level(e.mask) \in Nat /\ e.mask <= Level(e.mask)
    BY <2>5, StrideIs, LevelIs
  <2>7. Prefix(ip, n) \in [1 .. Level(e.mask) -> Bit] /\ Matches(e, Prefix(ip, n))
    BY <2>4 DEF Expanded
  <2>8. Prefix(ip, n) \in [1 .. n -> Bit] /\ n \in Nat
    BY <1>1, <2>1, PrefixType
  <2>9. n = Level(e.mask)
    <3>1. 1 .. n = 1 .. Level(e.mask)
      BY <2>7, <2>8
    <3> QED
      BY <2>6, <2>8, <3>1
  <2>10. Prefix(Prefix(ip, n), e.mask) = Prefix(ip, e.mask)
    BY <1>1, <2>1, <2>5, <2>6, <2>9, PrefixOfPrefix
  <2> QED
    BY <2>4, <2>7, <2>9, <2>10 DEF Matches, e
<1> QED
  BY <1>2, <1>3

LEMMA MultibitSearch ==
  ASSUME TreesInv, NEW ip \in Address
  PROVE  searchIP(multibit, ip, BIT_NUM) = Longest(ip)
<1> DEFINE met == Met(multibit, ip, BIT_NUM)
<1>1. CASE met = {}
  BY <1>1, MultibitMet, NoMatch DEF searchIP
<1>2. CASE met # {}
  <2> DEFINE n == Max(met)
             e == multibit[Prefix(ip, n)]
  <2>1. met \subseteq 0 .. W /\ W \in Nat
    BY PrefixTreesAssumption DEF Met
  <2>2. n \in met /\ \A k \in met : k <= n
    BY <1>2, <2>1, MaxExists
  <2>3. e \in table /\ Matches(e, ip) /\ n = Level(e.mask)
    BY <2>2, MultibitMet
  <2> HIDE DEF n
  <2>4. ASSUME NEW f \in table, Matches(f, ip) PROVE f.mask <= e.mask
    <3>1. f \in Entries /\ e \in Entries
      BY <2>3 DEF TreesInv, TreesTypeOK
    <3>2. f.mask \in Nat /\ e.mask \in Nat
      BY <3>1, EntryIs
    <3> HIDE DEF e
    <3>3. Level(f.mask) <= n /\ multibit[Prefix(ip, Level(f.mask))].mask >= f.mask
      BY <2>2, <2>4, MultibitMet
    <3>4. /\ Level(f.mask) \in Nat /\ Level(f.mask) % BIT_NUM = 0 /\ f.mask <= Level(f.mask)
          /\ n \in Nat /\ n % BIT_NUM = 0 /\ n < e.mask + BIT_NUM
      BY <2>3, <3>2, StrideIs, LevelIs
    <3>5. CASE Level(f.mask) = n
      BY <3>2, <3>3, <3>5 DEF e
    <3>6. CASE Level(f.mask) < n
      <4>1. Level(f.mask) + BIT_NUM <= n
        BY <3>4, <3>6, StrideIs, MultiplesApart
      <4> QED
        BY <3>2, <3>4, <4>1, StrideIs
    <3> QED
      BY <3>3, <3>4, <3>5, <3>6
  <2>5. Longest(ip) = e
    BY <2>3, <2>4, LongestIs
  <2> QED
    BY <1>2, <2>5 DEF searchIP, n
<1> QED
  BY <1>1, <1>2

-----------------------------------------------------------------------------

\* The tree the other scripts are compared with finds the longest match, in
\* whatever order its table was read (basePrefixTree_c).
THEOREM TreesBase == Spec => []BaseFindsLongest
<1>1. TreesInv => BaseFindsLongest
  BY BaseSearch DEF BaseFindsLongest
<1> QED
  BY <1>1, TreesInvInvariant, PTL

\* What checkWithBase asserts of the multibit tree holds at every stride that
\* divides the width of an address (multibitPrefixTree_c).
THEOREM TreesMultibit == Spec => []MultibitAsBase
<1>1. TreesInv => MultibitAsBase
  BY BaseSearch, MultibitSearch DEF MultibitAsBase
<1> QED
  BY <1>1, TreesInvInvariant, PTL

-----------------------------------------------------------------------------
(* The compressed tree.  Its invariant adds the shape of the multibit      *)
(* tree: with a node all nodes above it are there, and a node as deep as   *)
(* an address is long holds an entry, so nothing is skipped down to it.    *)

Node == {node \in Seq(Bit) : Len(node) \in 0 .. W /\ Len(node) % BIT_NUM = 0}

Shape(tree) ==
  /\ <<>> \in DOMAIN tree
  /\ DOMAIN tree \subseteq Node
  /\ \A node \in DOMAIN tree :
       /\ \A n \in 0 .. Len(node) : n % BIT_NUM = 0 => Prefix(node, n) \in DOMAIN tree
       /\ Len(node) = W => tree[node] # NoEntry

CompressedInv ==
  /\ TreesInv
  /\ Shape(multibit)
  /\ compressed = NoTree \/ compressed = compressTree(multibit)

LEMMA SeqPrefix ==
  ASSUME NEW s \in Seq(Bit), NEW n \in 0 .. Len(s)
  PROVE  /\ Prefix(s, n) \in Seq(Bit) /\ Len(Prefix(s, n)) = n
         /\ \A i \in 1 .. n : Prefix(s, n)[i] = s[i]
         /\ \A k \in 0 .. n : Prefix(Prefix(s, n), k) = Prefix(s, k)
         /\ Prefix(s, Len(s)) = s
<1>1. s \in [1 .. Len(s) -> Bit] /\ Len(s) \in Nat
  BY LenProperties
<1>2. \A i \in 1 .. n : s[i] \in Bit
  BY <1>1
<1>3. n \in Int /\ n - 1 + 1 = n
  BY <1>1
<1>4. /\ SubSeq(s, 1, n) \in Seq(Bit)
      /\ Len(SubSeq(s, 1, n)) = IF 1 <= n THEN n - 1 + 1 ELSE 0
      /\ \A i \in 1 .. n - 1 + 1 : SubSeq(s, 1, n)[i] = s[1 + i - 1]
  BY <1>2, <1>3, SubSeqProperties
<1>5. \A k \in 0 .. n : Prefix(Prefix(s, n), k) = Prefix(s, k)
  BY <1>1, PrefixOfPrefix
<1>6. Prefix(s, Len(s)) = s
  BY SubSeqFull DEF Prefix
<1>7. Len(SubSeq(s, 1, n)) = n
  BY <1>1, <1>4
<1>8. \A i \in 1 .. n : SubSeq(s, 1, n)[i] = s[i]
  BY <1>1, <1>4
<1> QED
  BY <1>4, <1>5, <1>6, <1>7, <1>8 DEF Prefix

LEMMA AddressIs ==
  ASSUME NEW ip \in Address
  PROVE  ip \in Seq(Bit) /\ Len(ip) = W /\ W \in Nat \ {0}
<1>1. W \in Nat \ {0} /\ ip \in [1 .. W -> Bit]
  BY PrefixTreesAssumption DEF Address
<1>2. ip \in Seq(Bit)
  BY <1>1, SeqDef
<1>3. Len(ip) \in Nat /\ 1 .. Len(ip) = 1 .. W
  BY <1>1, <1>2, LenProperties
<1> QED
  BY <1>1, <1>2, <1>3

\* A string of n bits is a sequence of length n.
LEMMA StringIs ==
  ASSUME NEW n \in Nat, NEW s \in [1 .. n -> Bit]
  PROVE  s \in Seq(Bit) /\ Len(s) = n
<1>1. s \in Seq(Bit)
  BY SeqDef
<1>2. Len(s) \in Nat /\ 1 .. Len(s) = 1 .. n
  BY <1>1, LenProperties
<1> QED
  BY <1>1, <1>2

\* The root is above every string.
LEMMA PrefixNone ==
  ASSUME NEW s
  PROVE  Prefix(s, 0) = <<>>
  BY SubSeqEmpty DEF Prefix

LEMMA ShapeInit == Init => Shape(multibit)
<1> SUFFICES ASSUME Init PROVE Shape(multibit)
  OBVIOUS
<1>1. multibit = Root /\ BIT_NUM \in Nat \ {0} /\ W \in Nat \ {0}
  BY PrefixTreesAssumption DEF Init
<1>2. <<>> \in Seq(Bit) /\ Len(<<>>) = 0
  BY EmptySeq
<1>3. 0 % BIT_NUM = 0
  BY <1>1
<1>4. <<>> \in Node
  BY <1>1, <1>2, <1>3 DEF Node
<1>5. Prefix(<<>>, 0) = <<>>
  BY PrefixNone
<1> QED
  BY <1>1, <1>2, <1>4, <1>5 DEF Shape, Root

LEMMA InsertKeepsShape ==
  ASSUME TreesInv, Shape(multibit), NEW e \in Entries, Insert(e)
  PROVE  Shape(multibit)'
<1> DEFINE path == {Prefix(e.IPStr, n) : n \in {k \in 0 .. e.mask : k % BIT_NUM = 0}}
           nodes == DOMAIN multibit \cup path \cup Expanded(e)
           l == Level(e.mask)
<1>1. /\ BIT_NUM' = BIT_NUM
      /\ DOMAIN multibit' = nodes
      /\ \A node \in nodes :
           multibit'[node] = IF node \in Expanded(e) /\ Held(multibit, node).mask < e.mask
                             THEN e ELSE Held(multibit, node)
  BY DEF Insert, insertMultibit
<1>2. BIT_NUM \in Nat \ {0} /\ W \in Nat /\ W % BIT_NUM = 0
  BY StrideIs
<1>3. e.IPStr \in [1 .. W -> Bit] /\ e.mask \in 1 .. W /\ e.mask \in Nat /\ e # NoEntry
  BY EntryIs
<1>4. e.IPStr \in Seq(Bit) /\ Len(e.IPStr) = W
  BY <1>2, <1>3, StringIs
<1>5. l \in Nat /\ l % BIT_NUM = 0 /\ e.mask <= l /\ l < e.mask + BIT_NUM
  BY <1>2, <1>3, LevelIs
<1> HIDE DEF l
<1>6. l <= W
  <2>1. ASSUME W < l PROVE FALSE
    <3>1. W + BIT_NUM <= l
      BY <1>2, <1>5, <2>1, MultiplesApart
    <3> QED
      BY <1>2, <1>3, <1>5, <3>1
  <2> QED
    BY <1>2, <1>5, <2>1
<1>7. ASSUME NEW n \in 0 .. e.mask, n % BIT_NUM = 0
      PROVE  /\ Prefix(e.IPStr, n) \in path /\ Prefix(e.IPStr, n) \in Node
             /\ Len(Prefix(e.IPStr, n)) = n
  <2>1. n \in 0 .. W /\ n \in 0 .. Len(e.IPStr)
    BY <1>2, <1>3, <1>4
  <2>2. Prefix(e.IPStr, n) \in Seq(Bit) /\ Len(Prefix(e.IPStr, n)) = n
    BY <1>4, <2>1, SeqPrefix
  <2> QED
    BY <1>7, <2>1, <2>2 DEF Node
<1>8. ASSUME NEW node \in Expanded(e)
      PROVE  /\ node \in Node /\ Len(node) = l /\ node \in Seq(Bit)
             /\ Prefix(node, e.mask) = Prefix(e.IPStr, e.mask)
  <2>1. node \in [1 .. l -> Bit] /\ Prefix(node, e.mask) = Prefix(e.IPStr, e.mask)
    BY DEF Expanded, Matches, l
  <2>2. node \in Seq(Bit) /\ Len(node) = l
    BY <1>5, <2>1, StringIs
  <2> QED
    BY <1>2, <1>5, <1>6, <2>1, <2>2 DEF Node
<1>9. nodes \subseteq Node /\ <<>> \in nodes
  BY <1>7, <1>8 DEF Shape
<1>10. ASSUME NEW node \in nodes, NEW n \in 0 .. Len(node), n % BIT_NUM = 0
       PROVE  Prefix(node, n) \in nodes
  <2>1. CASE node \in DOMAIN multibit
    BY <1>10, <2>1 DEF Shape
  <2>2. CASE node \in path
    <3>1. PICK k \in 0 .. e.mask : k % BIT_NUM = 0 /\ node = Prefix(e.IPStr, k)
      BY <2>2
    <3>2. Len(node) = k
      BY <1>7, <3>1
    <3>3. k \in 0 .. Len(e.IPStr) /\ n \in 0 .. k /\ n \in 0 .. e.mask
      BY <1>2, <1>3, <1>4, <3>2
    <3>4. Prefix(node, n) = Prefix(e.IPStr, n)
      BY <1>4, <3>1, <3>3, SeqPrefix
    <3> QED
      BY <1>7, <1>10, <3>3, <3>4
  <2>3. CASE node \in Expanded(e)
    <3>1. Len(node) = l /\ node \in Seq(Bit) /\ Prefix(node, e.mask) = Prefix(e.IPStr, e.mask)
      BY <1>8, <2>3
    <3>2. CASE n = l
      <4>1. Prefix(node, n) = node
        BY <1>5, <3>1, <3>2, SeqPrefix
      <4> QED
        BY <2>3, <4>1
    <3>3. CASE n < l
      <4>0. n \in Nat /\ n % BIT_NUM = 0
        BY <1>10, <3>1, LenProperties
      <4>1. n + BIT_NUM <= l
        BY <1>2, <1>5, <3>3, <4>0, MultiplesApart
      <4>2. n \in 0 .. e.mask
        BY <1>2, <1>3, <1>5, <4>0, <4>1
      <4>3. e.mask \in 0 .. Len(node) /\ e.mask \in 0 .. Len(e.IPStr)
        BY <1>2, <1>3, <1>4, <1>5, <3>1
      <4>4. Prefix(Prefix(node, e.mask), n) = Prefix(node, n)
        BY <3>1, <4>2, <4>3, SeqPrefix
      <4>5. Prefix(Prefix(e.IPStr, e.mask), n) = Prefix(e.IPStr, n)
        BY <1>4, <4>2, <4>3, SeqPrefix
      <4>6. Prefix(node, n) = Prefix(e.IPStr, n)
        BY <3>1, <4>4, <4>5
      <4> QED
        BY <1>7, <1>10, <4>2, <4>6
    <3> QED
      BY <1>5, <3>1, <3>2, <3>3
  <2> QED
    BY <2>1, <2>2, <2>3
<1>11. ASSUME NEW node \in nodes, Len(node) = W
       PROVE  multibit'[node] # NoEntry
  <2>1. CASE node \in Expanded(e)
    <3>1. Held(multibit, node).mask < e.mask => multibit'[node] = e
      BY <1>1, <2>1
    <3>2. ~ (Held(multibit, node).mask < e.mask) => multibit'[node] = Held(multibit, node)
      BY <1>1, <2>1
    <3>3. NoEntry.mask < e.mask
      BY <1>3 DEF NoEntry
    <3> QED
      BY <1>3, <3>1, <3>2, <3>3
  <2>2. CASE node \notin Expanded(e) /\ node \in DOMAIN multibit
    <3>1. multibit'[node] = multibit[node]
      BY <1>1, <2>2 DEF Held
    <3> QED
      BY <1>11, <2>2, <3>1 DEF Shape
  <2>3. CASE node \notin Expanded(e) /\ node \in path
    <3>1. PICK k \in 0 .. e.mask : k % BIT_NUM = 0 /\ node = Prefix(e.IPStr, k)
      BY <2>3
    <3>2. k = W
      BY <1>7, <1>11, <3>1
    <3>3. e.mask = W /\ l = W
      BY <1>2, <1>3, <1>5, <1>6, <3>2
    <3>4. node = e.IPStr
      BY <1>4, <3>1, <3>2, <3>3, SeqPrefix
    <3>5. node \in Expanded(e)
      BY <1>3, <3>3, <3>4 DEF Expanded, Matches, l
    <3> QED
      BY <2>3, <3>5
  <2> QED
    BY <2>1, <2>2, <2>3
<1>12. Node' = Node
  BY <1>1 DEF Node
<1> HIDE DEF nodes
<1>13. \A node \in nodes : \A n \in 0 .. Len(node) : n % BIT_NUM = 0 => Prefix(node, n) \in nodes
  BY <1>10
<1>14. \A node \in nodes : Len(node) = W => multibit'[node] # NoEntry
  BY <1>11
<1> QED
  BY <1>1, <1>9, <1>12, <1>13, <1>14 DEF Shape

LEMMA CompressedInvStep == CompressedInv /\ [Next]_vars => CompressedInv'
<1> SUFFICES ASSUME CompressedInv, [Next]_vars PROVE CompressedInv'
  OBVIOUS
<1>1. TreesInv'
  BY TreesInvStep DEF CompressedInv
<1>2. CASE Compress \/ UNCHANGED vars
  <2>1. UNCHANGED <<BIT_NUM, table, base, multibit>>
    BY <1>2 DEF Compress, vars
  <2>2. Shape(multibit)'
    BY <2>1 DEF CompressedInv, Shape, Node
  <2>3. compressTree(multibit)' = compressTree(multibit)
    BY <2>1 DEF compressTree, Kept, Bottom, Skips, Children
  <2> QED
    BY <1>1, <1>2, <2>2, <2>3 DEF CompressedInv, Compress, vars
<1>3. ASSUME NEW e \in Entries, Insert(e) PROVE CompressedInv'
  <2>1. Shape(multibit)'
    BY <1>3, InsertKeepsShape DEF CompressedInv
  <2>2. compressed' = NoTree
    BY <1>3 DEF Insert
  <2> QED
    BY <1>1, <2>1, <2>2 DEF CompressedInv, NoTree
<1> QED
  BY <1>2, <1>3 DEF Next

THEOREM CompressedInvInvariant == Spec => []CompressedInv
<1>1. Init => CompressedInv
  BY TreesInvInit, ShapeInit DEF CompressedInv, Init
<1> QED
  BY <1>1, CompressedInvStep, PTL DEF Spec

-----------------------------------------------------------------------------
(* Chains of skipped nodes.                                                *)

\* below is the last node that node takes over.
Ends(tree, node, below) ==
  /\ Len(below) >= Len(node) /\ Prefix(below, Len(node)) = node
  /\ ~ Skips(tree, below)
  /\ \A n \in Len(node) .. Len(below) - 1 : n % BIT_NUM = 0 => Skips(tree, Prefix(below, n))

LEMMA ShapeIs ==
  ASSUME NEW tree, Shape(tree), NEW node \in DOMAIN tree
  PROVE  /\ node \in Seq(Bit) /\ Len(node) \in 0 .. W /\ Len(node) % BIT_NUM = 0
         /\ Len(node) \in Nat
         /\ Prefix(node, Len(node)) = node
         /\ \A n \in 0 .. Len(node) :
              /\ n \in Nat
              /\ Len(Prefix(node, n)) = n
              /\ n % BIT_NUM = 0 => Prefix(node, n) \in DOMAIN tree
              /\ \A k \in 0 .. n : Prefix(Prefix(node, n), k) = Prefix(node, k)
<1>1. node \in Seq(Bit) /\ Len(node) \in 0 .. W /\ Len(node) % BIT_NUM = 0
  BY DEF Shape, Node
<1>2. W \in Nat
  BY PrefixTreesAssumption
<1>3. Len(node) \in Nat
  BY <1>1, <1>2
<1>4. Prefix(node, Len(node)) = node
  BY <1>1, <1>3, SeqPrefix
<1>5. \A n \in 0 .. Len(node) : n % BIT_NUM = 0 => Prefix(node, n) \in DOMAIN tree
  BY DEF Shape
<1>6. \A n \in 0 .. Len(node) :
        /\ Len(Prefix(node, n)) = n
        /\ \A k \in 0 .. n : Prefix(Prefix(node, n), k) = Prefix(node, k)
  BY <1>1, SeqPrefix
<1>7. \A n \in 0 .. Len(node) : n \in Nat
  BY <1>3
<1> QED
  BY <1>1, <1>3, <1>4, <1>5, <1>6, <1>7

\* A node one stride further down is a child of what is above it.
LEMMA ChildOf ==
  ASSUME TreesInv, NEW tree, Shape(tree), NEW node \in DOMAIN tree,
         NEW n \in Nat, n % BIT_NUM = 0, n + BIT_NUM <= Len(node)
  PROVE  Prefix(node, n + BIT_NUM) \in Children(tree, Prefix(node, n))
<1>1. BIT_NUM \in Nat \ {0}
  BY StrideIs
<1>2. Len(node) \in Nat
  BY ShapeIs
<1>3. n \in 0 .. Len(node) /\ n + BIT_NUM \in 0 .. Len(node) /\ n \in 0 .. n + BIT_NUM
  BY <1>1, <1>2
<1>4. (n + BIT_NUM) % BIT_NUM = 0
  BY <1>1, NextLap
<1>5. Prefix(node, n + BIT_NUM) \in DOMAIN tree
  BY <1>3, <1>4, ShapeIs
<1>6. Len(Prefix(node, n + BIT_NUM)) = n + BIT_NUM /\ Len(Prefix(node, n)) = n
  BY <1>3, ShapeIs
<1>7. Prefix(Prefix(node, n + BIT_NUM), n) = Prefix(node, n)
  BY <1>3, ShapeIs
<1> QED
  BY <1>5, <1>6, <1>7 DEF Children

\* A node that is skipped is the only child of the node above it.
LEMMA OnlyChild ==
  ASSUME NEW tree, NEW node, Skips(tree, node)
  PROVE  \A c, d \in Children(tree, node) : c = d /\ tree[c] = NoEntry
  BY DEF Skips

\* The multiple before one that is not the first
LEMMA MultipleBefore ==
  ASSUME NEW b \in Nat \ {0}, NEW x \in Nat, NEW y \in Nat, x % b = 0, y % b = 0, x < y
  PROVE  /\ y - b \in Nat /\ (y - b) % b = 0 /\ x <= y - b /\ y - b < y
<1>1. x + b <= y
  BY MultiplesApart
<1>2. y - b \in Nat /\ x <= y - b /\ y - b < y /\ (y - b) + b = y
  BY <1>1
<1>3. ((y - b) + b) % b = (y - b) % b
  BY <1>2, NextLap
<1> QED
  BY <1>2, <1>3

\* The chain below a node ends: the longest one ends in a node that does not
\* skip.
LEMMA EndExists ==
  ASSUME TreesInv, NEW tree, Shape(tree), NEW node \in DOMAIN tree
  PROVE  \E below \in DOMAIN tree : Ends(tree, node, below)
<1> DEFINE On(b) == /\ Len(b) >= Len(node) /\ Prefix(b, Len(node)) = node
                    /\ \A n \in Len(node) .. Len(b) - 1 :
                         n % BIT_NUM = 0 => Skips(tree, Prefix(b, n))
           S == {Len(b) : b \in {c \in DOMAIN tree : On(c)}}
<1>1. BIT_NUM \in Nat \ {0} /\ W \in Nat
  BY StrideIs
<1>2. Len(node) \in Nat /\ Prefix(node, Len(node)) = node
  BY ShapeIs
<1>3. On(node)
  <2>1. ~ \E n \in Len(node) .. Len(node) - 1 : TRUE
    BY <1>2
  <2> QED
    BY <1>2, <2>1
<1>4. S \in SUBSET (0 .. W) /\ S # {}
  <2>1. \A b \in DOMAIN tree : Len(b) \in 0 .. W
    BY ShapeIs
  <2> HIDE DEF On
  <2> QED
    BY <1>3, <2>1
<1>5. \E b \in DOMAIN tree : On(b) /\ \A c \in DOMAIN tree : On(c) => Len(c) <= Len(b)
  <2>1. Max(S) \in S /\ \A x \in S : x <= Max(S)
    <3> HIDE DEF S
    <3> QED
      BY <1>1, <1>4, MaxExists
  <2>2. PICK b \in DOMAIN tree : On(b) /\ Len(b) = Max(S)
    <3> HIDE DEF On
    <3> QED
      BY <2>1
  <2>3. \A c \in DOMAIN tree : On(c) => Len(c) \in S
    <3> HIDE DEF On
    <3> QED
      OBVIOUS
  <2> HIDE DEF S, On
  <2> QED
    BY <2>1, <2>2, <2>3
<1>6. PICK b \in DOMAIN tree : On(b) /\ \A c \in DOMAIN tree : On(c) => Len(c) <= Len(b)
  <2> HIDE DEF On
  <2> QED
    BY <1>5
<1>7. ASSUME Skips(tree, b) PROVE FALSE
  <2>1. PICK c \in DOMAIN tree : Len(c) = Len(b) + BIT_NUM /\ Prefix(c, Len(b)) = b
    BY <1>7 DEF Skips, Children
  <2>2. Len(b) \in Nat /\ Len(b) % BIT_NUM = 0 /\ Len(c) \in Nat
    BY ShapeIs
  <2>3. Len(b) \in 0 .. Len(c) /\ Len(node) \in 0 .. Len(b)
    BY <1>1, <1>2, <1>6, <2>1, <2>2
  <2>4. \A k \in 0 .. Len(b) : Prefix(c, k) = Prefix(b, k)
    BY <2>1, <2>3, ShapeIs
  <2>5. Prefix(c, Len(node)) = node
    BY <1>6, <2>3, <2>4
  <2>6. ASSUME NEW n \in Len(node) .. Len(c) - 1, n % BIT_NUM = 0
        PROVE  Skips(tree, Prefix(c, n))
    <3>1. n \in Nat /\ Len(node) <= n /\ n < Len(b) + BIT_NUM
      BY <1>1, <1>2, <2>1, <2>2
    <3>2. CASE n < Len(b)
      <4>1. n \in Len(node) .. Len(b) - 1 /\ n \in 0 .. Len(b)
        BY <1>2, <2>2, <3>1, <3>2
      <4> QED
        BY <1>6, <2>4, <2>6, <4>1
    <3>3. CASE n = Len(b)
      BY <1>7, <2>1, <3>3
    <3>4. CASE Len(b) < n
      <4>1. Len(b) + BIT_NUM <= n
        BY <1>1, <2>2, <2>6, <3>1, <3>4, MultiplesApart
      <4> QED
        BY <1>1, <2>2, <3>1, <4>1
    <3> QED
      BY <2>2, <3>1, <3>2, <3>3, <3>4
  <2>7. Len(c) >= Len(node)
    BY <1>1, <1>2, <2>1, <2>2, <2>3
  <2>8. On(c)
    BY <2>5, <2>6, <2>7
  <2>9. Len(c) <= Len(b)
    <3> HIDE DEF On
    <3> QED
      BY <1>6, <2>8
  <2> QED
    BY <1>1, <2>1, <2>2, <2>9
<1> QED
  BY <1>6, <1>7 DEF Ends

\* Two chains below a node take the same way as far as both go.
LEMMA SameWay ==
  ASSUME TreesInv, NEW tree, Shape(tree), NEW node \in DOMAIN tree,
         NEW b \in DOMAIN tree, NEW c \in DOMAIN tree,
         Ends(tree, node, b), Ends(tree, node, c), Len(b) <= Len(c)
  PROVE  Prefix(c, Len(b)) = b
<1> DEFINE D == {m \in Nat : /\ Len(node) <= m /\ m <= Len(b) /\ m % BIT_NUM = 0
                             /\ Prefix(b, m) # Prefix(c, m)}
<1>1. BIT_NUM \in Nat \ {0}
  BY StrideIs
<1>2. /\ Len(node) \in Nat /\ Len(node) % BIT_NUM = 0
      /\ Len(b) \in Nat /\ Len(b) % BIT_NUM = 0 /\ Len(c) \in Nat
      /\ Prefix(b, Len(b)) = b
  BY ShapeIs
<1>3. CASE D = {}
  <2>1. Len(b) \notin D
    BY <1>3
  <2>2. Len(node) <= Len(b) /\ Len(b) <= Len(b)
    BY <1>2 DEF Ends
  <2> QED
    BY <1>2, <2>1, <2>2
<1>4. CASE D # {}
  <2>1. PICK m \in D : \A k \in D : m <= k
    <3>1. D \in SUBSET Nat
      OBVIOUS
    <3> HIDE DEF D
    <3> QED
      BY <1>4, <3>1, LeastExists
  <2>2. /\ m \in Nat /\ Len(node) <= m /\ m <= Len(b) /\ m % BIT_NUM = 0
        /\ Prefix(b, m) # Prefix(c, m)
    BY <2>1
  <2>3. m # Len(node)
    BY <2>2 DEF Ends
  <2>4. Len(node) < m
    BY <1>2, <2>2, <2>3
  <2> DEFINE k == m - BIT_NUM
  <2>5. k \in Nat /\ k % BIT_NUM = 0 /\ Len(node) <= k /\ k < m
    BY <1>1, <1>2, <2>2, <2>4, MultipleBefore
  <2>6. k + BIT_NUM = m /\ k <= Len(b) /\ k + BIT_NUM <= Len(b) /\ k + BIT_NUM <= Len(c)
    BY <1>1, <1>2, <2>2, <2>5
  <2> HIDE DEF k
  <2>7. k \notin D
    BY <1>1, <2>1, <2>2, <2>5
  <2>8. Prefix(b, k) = Prefix(c, k)
    BY <2>5, <2>6, <2>7
  <2>9. k \in Len(node) .. Len(b) - 1
    BY <1>2, <2>2, <2>5
  <2>10. Skips(tree, Prefix(b, k))
    BY <2>5, <2>9 DEF Ends
  <2>11. /\ Prefix(b, k + BIT_NUM) \in Children(tree, Prefix(b, k))
         /\ Prefix(c, k + BIT_NUM) \in Children(tree, Prefix(c, k))
    BY <2>5, <2>6, ChildOf
  <2>12. Prefix(b, k + BIT_NUM) = Prefix(c, k + BIT_NUM)
    BY <2>8, <2>10, <2>11, OnlyChild
  <2> QED
    BY <2>2, <2>6, <2>12
<1> QED
  BY <1>3, <1>4

LEMMA EndUnique ==
  ASSUME TreesInv, NEW tree, Shape(tree), NEW node \in DOMAIN tree,
         NEW b \in DOMAIN tree, NEW c \in DOMAIN tree,
         Ends(tree, node, b), Ends(tree, node, c)
  PROVE  b = c
<1>1. ASSUME NEW d \in DOMAIN tree, NEW f \in DOMAIN tree,
             Ends(tree, node, d), Ends(tree, node, f), Len(d) <= Len(f)
      PROVE  d = f
  <2>1. Prefix(f, Len(d)) = d
    BY <1>1, SameWay
  <2>2. /\ Len(d) \in Nat /\ Len(d) % BIT_NUM = 0 /\ Len(f) \in Nat
        /\ Len(node) \in Nat /\ Prefix(f, Len(f)) = f
    BY ShapeIs
  <2>3. CASE Len(d) = Len(f)
    BY <2>1, <2>2, <2>3
  <2>4. CASE Len(d) < Len(f)
    <3>1. Len(d) \in Len(node) .. Len(f) - 1
      BY <1>1, <2>2, <2>4 DEF Ends
    <3>2. Skips(tree, Prefix(f, Len(d)))
      BY <1>1, <2>2, <3>1 DEF Ends
    <3> QED
      BY <1>1, <2>1, <3>2 DEF Ends
  <2> QED
    BY <1>1, <2>2, <2>3, <2>4
<1>2. Len(b) \in Nat /\ Len(c) \in Nat
  BY ShapeIs
<1>3. Len(b) <= Len(c) \/ Len(c) <= Len(b)
  BY <1>2
<1> QED
  BY <1>1, <1>3

\* How far a node reaches is the end of its chain.
LEMMA BottomIs ==
  ASSUME TreesInv, NEW tree, Shape(tree), NEW node \in DOMAIN tree
  PROVE  /\ Bottom(tree, node) \in DOMAIN tree /\ Ends(tree, node, Bottom(tree, node))
         /\ \A below \in DOMAIN tree : Ends(tree, node, below) => below = Bottom(tree, node)
<1>1. Bottom(tree, node) = CHOOSE below \in DOMAIN tree : Ends(tree, node, below)
  BY DEF Bottom, Ends
<1>2. \E below \in DOMAIN tree : Ends(tree, node, below)
  BY EndExists
<1>3. Bottom(tree, node) \in DOMAIN tree /\ Ends(tree, node, Bottom(tree, node))
  BY <1>1, <1>2
<1> QED
  BY <1>3, EndUnique

-----------------------------------------------------------------------------
(* The search of the compressed tree.                                      *)

\* Where an address meets nodes that were kept.
Stops(tree, ip) == {n \in 0 .. W : n % BIT_NUM = 0 /\ Prefix(ip, n) \in Kept(tree)}

\* A search at k goes on to n.
Follows(tree, ip, k, n) ==
  /\ n = k + Len(tree[Prefix(ip, k)].skip) + BIT_NUM
  /\ Prefix(ip, n - BIT_NUM) = Prefix(ip, k) \o tree[Prefix(ip, k)].skip

\* The equation of `reached' in Reached, and the function that solves it
GoesTo(tree, ip, f, n) ==
  \/ n = 0
  \/ /\ Prefix(ip, n) \in DOMAIN tree
     /\ \E k \in 0 .. n - BIT_NUM : f[k] /\ Follows(tree, ip, k, n)

Onward(tree, ip, f) == [n \in 0 .. W |-> GoesTo(tree, ip, f, n)]

Solution(tree, ip) == CHOOSE f : f = Onward(tree, ip, f)

LEMMA ReachedIs ==
  ASSUME NEW tree, NEW ip
  PROVE  Reached(tree, ip) = {n \in 0 .. W : Solution(tree, ip)[n]}
  BY DEF Reached, Solution, Onward, GoesTo, Follows

LEMMA CompressedIs ==
  ASSUME NEW tree
  PROVE  /\ DOMAIN compressTree(tree) = Kept(tree)
         /\ Kept(tree) \subseteq DOMAIN tree
         /\ \A node \in Kept(tree) :
              /\ compressTree(tree)[node].entry = tree[node]
              /\ compressTree(tree)[node].skip
                   = SubSeq(Bottom(tree, node), Len(node) + 1, Len(Bottom(tree, node)))
  BY DEF compressTree, Kept

\* A node below the root is kept if the node above it does not skip.
LEMMA KeptIs ==
  ASSUME TreesInv, NEW tree, Shape(tree), NEW ip \in Address,
         NEW n \in 1 .. W, n % BIT_NUM = 0, Prefix(ip, n) \in DOMAIN tree
  PROVE  /\ n - BIT_NUM \in Nat /\ (n - BIT_NUM) % BIT_NUM = 0
         /\ Prefix(ip, n) \in Kept(tree) <=> ~ Skips(tree, Prefix(ip, n - BIT_NUM))
<1>1. BIT_NUM \in Nat \ {0} /\ W \in Nat /\ n \in Nat /\ 0 < n /\ 0 % BIT_NUM = 0
  BY StrideIs
<1>2. n - BIT_NUM \in Nat /\ (n - BIT_NUM) % BIT_NUM = 0 /\ n - BIT_NUM < n
  <2>1. PICK x \in Nat : x % BIT_NUM = 0 /\ x < n
    BY <1>1
  <2> QED
    BY <1>1, <2>1, MultipleBefore
<1>3. ip \in Seq(Bit) /\ Len(ip) = W
  BY AddressIs
<1>4. n \in 0 .. Len(ip) /\ n - BIT_NUM \in 0 .. n
  BY <1>1, <1>2, <1>3
<1>5. Len(Prefix(ip, n)) = n /\ Prefix(Prefix(ip, n), n - BIT_NUM) = Prefix(ip, n - BIT_NUM)
  BY <1>3, <1>4, SeqPrefix
<1>6. Prefix(ip, n) # <<>>
  BY <1>1, <1>5, EmptySeq
<1> QED
  BY <1>2, <1>5, <1>6 DEF Kept

LEMMA RootStops ==
  ASSUME TreesInv, NEW tree, Shape(tree), NEW ip
  PROVE  0 \in Stops(tree, ip)
<1>1. BIT_NUM \in Nat \ {0} /\ W \in Nat
  BY StrideIs
<1>2. 0 \in 0 .. W /\ 0 % BIT_NUM = 0
  BY <1>1
<1>3. Prefix(ip, 0) = <<>>
  BY PrefixNone
<1> QED
  BY <1>2, <1>3 DEF Stops, Kept, Shape

\* What is skipped below a stop is a string of whole strides.
LEMMA SkipIs ==
  ASSUME TreesInv, NEW tree, Shape(tree), NEW ip \in Address, NEW k \in Stops(tree, ip)
  PROVE  LET node == Prefix(ip, k)
             b == Bottom(tree, node)
             skip == compressTree(tree)[node].skip
         IN  /\ node \in DOMAIN tree /\ Len(node) = k /\ k \in Nat /\ k % BIT_NUM = 0 /\ k <= W
             /\ skip = SubSeq(b, k + 1, Len(b)) /\ Len(skip) \in Nat
             /\ Len(b) = k + Len(skip) /\ Len(b) % BIT_NUM = 0 /\ Len(b) \in 0 .. W
             /\ b = node \o skip
<1> DEFINE node == Prefix(ip, k)
           b == Bottom(tree, node)
           skip == compressTree(tree)[node].skip
<1>1. W \in Nat /\ ip \in Seq(Bit) /\ Len(ip) = W
  BY AddressIs
<1>2. k \in 0 .. W /\ k % BIT_NUM = 0 /\ node \in Kept(tree)
  BY DEF Stops
<1>3. k \in Nat /\ k <= W /\ k \in 0 .. Len(ip)
  BY <1>1, <1>2
<1>4. Len(node) = k
  BY <1>1, <1>3, SeqPrefix
<1>5. node \in DOMAIN tree /\ skip = SubSeq(b, Len(node) + 1, Len(b))
  BY <1>2, CompressedIs
<1> HIDE DEF node
<1>6. b \in DOMAIN tree /\ Ends(tree, node, b)
  BY <1>5, BottomIs
<1> HIDE DEF b, skip
<1>7. b \in Seq(Bit) /\ Len(b) \in 0 .. W /\ Len(b) % BIT_NUM = 0 /\ Len(b) \in Nat
  BY <1>6, ShapeIs
<1>8. Len(b) >= k /\ Prefix(b, k) = node
  BY <1>4, <1>6 DEF Ends
<1>9. k \in 0 .. Len(b)
  BY <1>3, <1>7, <1>8
<1>10. SubSeq(b, 1, k) \o SubSeq(b, k + 1, Len(b)) = SubSeq(b, 1, Len(b))
  <2>1. 1 \in 1 .. Len(b) + 1 /\ k \in 1 - 1 .. Len(b) /\ Len(b) \in k .. Len(b)
    BY <1>7, <1>9
  <2> QED
    BY <1>7, <2>1, ConcatAdjacentSubSeq
<1>11. SubSeq(b, 1, Len(b)) = b
  BY <1>7, SubSeqFull
<1>12. skip = SubSeq(b, k + 1, Len(b))
  BY <1>4, <1>5
<1>13. b = node \o skip
  BY <1>8, <1>10, <1>11, <1>12 DEF Prefix
<1>14. Len(skip) = IF k + 1 <= Len(b) THEN Len(b) - (k + 1) + 1 ELSE 0
  <2>1. \A i \in k + 1 .. Len(b) : b[i] \in Bit
    BY <1>3, <1>7, ElementOfSeq
  <2>2. k + 1 \in Int /\ Len(b) \in Int
    BY <1>3, <1>7
  <2> QED
    BY <1>12, <2>1, <2>2, SubSeqProperties
<1>15. Len(skip) \in Nat /\ Len(b) = k + Len(skip)
  BY <1>3, <1>7, <1>9, <1>14
<1> QED
  BY <1>2, <1>3, <1>4, <1>5, <1>7, <1>12, <1>13, <1>15 DEF node, b, skip

\* A search goes on from a stop to the next stop, and to nothing else.
LEMMA StopsFollow ==
  ASSUME TreesInv, NEW tree, Shape(tree), NEW ip \in Address, NEW n \in 1 .. W
  PROVE  n \in Stops(tree, ip) <=>
           /\ Prefix(ip, n) \in Kept(tree)
           /\ \E k \in 0 .. n - BIT_NUM :
                k \in Stops(tree, ip) /\ Follows(compressTree(tree), ip, k, n)
<1>1. BIT_NUM \in Nat \ {0} /\ W \in Nat /\ n \in Nat
  BY StrideIs
<1>2. ASSUME Prefix(ip, n) \in Kept(tree),
             NEW k \in 0 .. n - BIT_NUM, k \in Stops(tree, ip), Follows(compressTree(tree), ip, k, n)
      PROVE  n \in Stops(tree, ip)
  <2> DEFINE skip == compressTree(tree)[Prefix(ip, k)].skip
             b == Bottom(tree, Prefix(ip, k))
  <2>1. Len(b) = k + Len(skip) /\ Len(b) % BIT_NUM = 0 /\ Len(b) \in 0 .. W
    BY <1>2, SkipIs
  <2>2. n = k + Len(skip) + BIT_NUM
    BY <1>2 DEF Follows
  <2> HIDE DEF skip, b
  <2>3. Len(b) \in Nat /\ n = Len(b) + BIT_NUM
    BY <1>1, <2>1, <2>2
  <2>4. n % BIT_NUM = 0
    BY <1>1, <2>1, <2>3, NextLap
  <2> QED
    BY <1>2, <2>4 DEF Stops
<1>3. ASSUME n \in Stops(tree, ip)
      PROVE  /\ Prefix(ip, n) \in Kept(tree)
             /\ \E k \in 0 .. n - BIT_NUM :
                  k \in Stops(tree, ip) /\ Follows(compressTree(tree), ip, k, n)
  <2> DEFINE up == n - BIT_NUM
             S == {k \in Stops(tree, ip) : k <= up}
             k == Max(S)
             node == Prefix(ip, k)
             b == Prefix(ip, up)
  <2>1. Prefix(ip, n) \in Kept(tree) /\ n % BIT_NUM = 0 /\ Prefix(ip, n) \in DOMAIN tree
    BY <1>3, CompressedIs DEF Stops
  <2>2. up \in Nat /\ up % BIT_NUM = 0 /\ ~ Skips(tree, b)
    BY <2>1, KeptIs
  <2>3. n = up + BIT_NUM /\ up < n /\ up <= W /\ n <= W
    BY <1>1
  <2>4. ip \in Seq(Bit) /\ Len(ip) = W
    BY AddressIs
  <2> HIDE DEF up
  <2>5. k \in S /\ \A x \in S : x <= k
    <3>1. 0 \in S
      BY <2>2, RootStops
    <3>2. S \in SUBSET (0 .. W) /\ S # {}
      BY <3>1 DEF Stops
    <3> HIDE DEF S
    <3> QED
      BY <1>1, <3>2, MaxExists
  <2>6. k \in Stops(tree, ip) /\ k <= up
    BY <2>5
  <2> HIDE DEF k
  <2>7. node \in DOMAIN tree /\ Len(node) = k /\ k \in Nat /\ k % BIT_NUM = 0 /\ k <= W
    BY <2>6, SkipIs
  <2>8. \A m \in 0 .. n : m % BIT_NUM = 0 =>
          Prefix(ip, m) \in DOMAIN tree /\ Prefix(Prefix(ip, n), m) = Prefix(ip, m) /\ Len(Prefix(ip, m)) = m
    <3>1. n \in 0 .. Len(ip)
      BY <1>1, <2>3, <2>4
    <3>2. Len(Prefix(ip, n)) = n /\ \A m \in 0 .. n : Prefix(Prefix(ip, n), m) = Prefix(ip, m)
      BY <2>4, <3>1, SeqPrefix
    <3> QED
      BY <2>1, <3>2, ShapeIs
  <2>9. up \in 0 .. n /\ k \in 0 .. n
    BY <1>1, <2>2, <2>3, <2>6, <2>7
  <2>10. b \in DOMAIN tree /\ Len(b) = up
    BY <2>2, <2>8, <2>9
  <2>11. Prefix(b, k) = node
    <3>1. up \in 0 .. Len(ip) /\ k \in 0 .. up
      BY <2>2, <2>3, <2>4, <2>6, <2>7
    <3> QED
      BY <2>4, <3>1, SeqPrefix
  <2>12. ASSUME NEW m \in k .. up - 1, m % BIT_NUM = 0
         PROVE  Skips(tree, Prefix(b, m))
    <3>1. m \in Nat /\ k <= m /\ m < up
      BY <2>2, <2>7
    <3>2. m + BIT_NUM <= up
      BY <1>1, <2>2, <2>12, <3>1, MultiplesApart
    <3> DEFINE d == m + BIT_NUM
    <3>3. d \in 0 .. n /\ d \in 1 .. W /\ d % BIT_NUM = 0 /\ k < d /\ d <= up /\ d - BIT_NUM = m
      <4>1. d % BIT_NUM = 0
        BY <1>1, <2>12, <3>1, NextLap
      <4> QED
        BY <1>1, <2>2, <2>3, <2>7, <3>1, <3>2, <4>1
    <3> HIDE DEF d
    <3>4. Prefix(ip, d) \in DOMAIN tree
      BY <2>8, <3>3
    <3>5. d \notin S
      BY <2>5, <2>7, <3>3
    <3>6. Prefix(ip, d) \notin Kept(tree)
      BY <3>3, <3>5 DEF Stops
    <3>7. Skips(tree, Prefix(ip, m))
      BY <3>3, <3>4, <3>6, KeptIs
    <3>8. Prefix(b, m) = Prefix(ip, m)
      <4>1. up \in 0 .. Len(ip) /\ m \in 0 .. up
        BY <2>2, <2>3, <2>4, <3>1
      <4> QED
        BY <2>4, <4>1, SeqPrefix
    <3> QED
      BY <3>7, <3>8
  <2>13. Ends(tree, node, b)
    <3> HIDE DEF b, node
    <3> QED
      BY <2>2, <2>6, <2>7, <2>10, <2>11, <2>12 DEF Ends
  <2>14. b = Bottom(tree, node)
    BY <2>7, <2>10, <2>13, BottomIs
  <2> DEFINE skip == compressTree(tree)[node].skip
  <2>15. /\ Len(Bottom(tree, node)) = k + Len(skip) /\ Len(skip) \in Nat
         /\ Bottom(tree, node) = node \o skip
    BY <2>6, SkipIs
  <2>16. Follows(compressTree(tree), ip, k, n)
    <3>1. n = k + Len(skip) + BIT_NUM
      <4>1. up = k + Len(skip)
        BY <2>10, <2>14, <2>15
      <4> HIDE DEF skip
      <4> QED
        BY <1>1, <2>3, <2>7, <2>15, <4>1
    <3>2. Prefix(ip, up) = node \o skip
      BY <2>14, <2>15
    <3> QED
      BY <3>1, <3>2 DEF Follows, up
  <2>17. k \in 0 .. n - BIT_NUM
    BY <2>2, <2>6, <2>7 DEF up
  <2> QED
    BY <2>1, <2>6, <2>16, <2>17
<1> QED
  BY <1>2, <1>3

\* The stops of an address solve the equation, and nothing else does: two
\* solutions that differ would differ first at some n, which only asks them
\* about smaller numbers.
LEMMA StopsSolve ==
  ASSUME TreesInv, NEW tree, Shape(tree), NEW ip \in Address
  PROVE  Reached(compressTree(tree), ip) = Stops(tree, ip)
<1> DEFINE C == compressTree(tree)
           S == Stops(tree, ip)
           g == [n \in 0 .. W |-> n \in S]
           f == Solution(C, ip)
<1>1. BIT_NUM \in Nat \ {0} /\ W \in Nat
  BY StrideIs
<1>2. S \subseteq 0 .. W /\ 0 \in S
  BY RootStops DEF Stops
<1>3. \A n \in 1 .. W :
        n \in S <=> /\ Prefix(ip, n) \in DOMAIN C
                    /\ \E k \in 0 .. n - BIT_NUM : k \in S /\ Follows(C, ip, k, n)
  BY StopsFollow, CompressedIs
<1> HIDE DEF C, S
<1>4. \A n \in 0 .. W : \A k \in 0 .. n - BIT_NUM : k \in 0 .. W /\ k < n
  BY <1>1
<1>5. g = Onward(C, ip, g)
  <2>1. ASSUME NEW n \in 0 .. W PROVE GoesTo(C, ip, g, n) = (n \in S)
    <3>1. \A k \in 0 .. n - BIT_NUM : g[k] <=> k \in S
      BY <1>4
    <3> HIDE DEF g
    <3>2. CASE n = 0
      BY <1>2, <3>2 DEF GoesTo
    <3>3. CASE n # 0
      <4>1. n \in 1 .. W
        BY <1>1, <3>3
      <4>2. n \in S <=> /\ Prefix(ip, n) \in DOMAIN C
                        /\ \E k \in 0 .. n - BIT_NUM : k \in S /\ Follows(C, ip, k, n)
        BY <1>3, <4>1
      <4>3. GoesTo(C, ip, g, n)
              <=> /\ Prefix(ip, n) \in DOMAIN C
                  /\ \E k \in 0 .. n - BIT_NUM : g[k] /\ Follows(C, ip, k, n)
        BY <3>3 DEF GoesTo
      <4>4. GoesTo(C, ip, g, n) <=> n \in S
        BY <3>1, <4>2, <4>3
      <4>5. GoesTo(C, ip, g, n) \in BOOLEAN /\ (n \in S) \in BOOLEAN
        BY DEF GoesTo
      <4> QED
        BY <4>4, <4>5
    <3> QED
      BY <3>2, <3>3
  <2>2. Onward(C, ip, g) = [n \in 0 .. W |-> n \in S]
    <3> HIDE DEF g
    <3> QED
      BY <2>1 DEF Onward
  <2> QED
    BY <2>2
<1>6. f = Onward(C, ip, f)
  <2> HIDE DEF g
  <2> QED
    BY <1>5 DEF Solution
<1> HIDE DEF f, g
<1>7. ASSUME NEW n \in 0 .. W
      PROVE  f[n] <=> \/ n = 0
                      \/ /\ Prefix(ip, n) \in DOMAIN C
                         /\ \E k \in 0 .. n - BIT_NUM : f[k] /\ Follows(C, ip, k, n)
  BY <1>6 DEF Onward, GoesTo
<1> DEFINE D == {n \in 0 .. W : ~ (f[n] <=> n \in S)}
<1>8. D = {}
  <2>1. SUFFICES ASSUME D # {} PROVE FALSE
    OBVIOUS
  <2>2. PICK n \in D : \A k \in D : n <= k
    <3>1. D \in SUBSET Nat
      BY <1>1
    <3> HIDE DEF D
    <3> QED
      BY <2>1, <3>1, LeastExists
  <2>3. n \in 0 .. W /\ ~ (f[n] <=> n \in S)
    BY <2>2
  <2>4. ASSUME NEW k \in 0 .. n - BIT_NUM PROVE f[k] <=> k \in S
    <3>1. k \in 0 .. W /\ k < n
      BY <1>4, <2>3
    <3>2. k \notin D
      <4> HIDE DEF D
      <4> QED
        BY <1>1, <2>2, <2>3, <3>1
    <3> QED
      BY <3>1, <3>2
  <2> HIDE DEF D
  <2>5. CASE n = 0
    BY <1>2, <1>7, <2>3, <2>5
  <2>6. CASE n # 0
    <3>1. n \in 1 .. W
      BY <1>1, <2>3, <2>6
    <3> QED
      BY <1>3, <1>7, <2>3, <2>4, <2>6, <3>1
  <2> QED
    BY <2>5, <2>6
<1>9. \A n \in 0 .. W : f[n] <=> n \in S
  BY <1>8
<1>10. Reached(C, ip) = {n \in 0 .. W : f[n]}
  BY ReachedIs DEF f
<1>11. Reached(C, ip) = S
  BY <1>2, <1>9, <1>10
<1> QED
  BY <1>11 DEF C, S

\* The search of the compressed tree meets the entries the search of the multibit
\* tree meets: a node that holds an entry is never skipped.
LEMMA CompressedMet ==
  ASSUME TreesInv, NEW tree, Shape(tree), NEW ip \in Address
  PROVE  /\ Met(tree, ip, BIT_NUM)
              = {n \in Stops(tree, ip) \ {0} : compressTree(tree)[Prefix(ip, n)].entry # NoEntry}
         /\ \A n \in Stops(tree, ip) :
              compressTree(tree)[Prefix(ip, n)].entry = tree[Prefix(ip, n)]
<1> DEFINE S == Stops(tree, ip)
<1>1. BIT_NUM \in Nat \ {0} /\ W \in Nat
  BY StrideIs
<1>2. ip \in Seq(Bit) /\ Len(ip) = W
  BY AddressIs
<1>3. \A n \in S : /\ n \in 0 .. W /\ n % BIT_NUM = 0 /\ Prefix(ip, n) \in DOMAIN tree
                   /\ compressTree(tree)[Prefix(ip, n)].entry = tree[Prefix(ip, n)]
  BY CompressedIs DEF Stops
<1>4. ASSUME NEW n \in S, n # 0, tree[Prefix(ip, n)] # NoEntry PROVE n \in Met(tree, ip, BIT_NUM)
  <2>1. n \in 1 .. W /\ n % BIT_NUM = 0 /\ Prefix(ip, n) \in DOMAIN tree
    BY <1>1, <1>3, <1>4
  <2>2. ASSUME NEW k \in 1 .. n, k % BIT_NUM = 0 PROVE Prefix(ip, k) \in DOMAIN tree
    <3>1. n \in 0 .. Len(ip) /\ k \in 0 .. n
      BY <1>1, <1>2, <2>1
    <3>2. Len(Prefix(ip, n)) = n /\ Prefix(Prefix(ip, n), k) = Prefix(ip, k)
      BY <1>2, <3>1, SeqPrefix
    <3> QED
      BY <2>1, <2>2, <3>1, <3>2, ShapeIs
  <2> QED
    BY <1>4, <2>1, <2>2 DEF Met
<1>5. ASSUME NEW n \in Met(tree, ip, BIT_NUM)
      PROVE  n \in S /\ n # 0 /\ tree[Prefix(ip, n)] # NoEntry
  <2>1. n \in 1 .. W /\ n % BIT_NUM = 0 /\ tree[Prefix(ip, n)] # NoEntry
    BY DEF Met
  <2>2. n \in 1 .. n /\ n \in Nat
    BY <2>1
  <2>3. Prefix(ip, n) \in DOMAIN tree
    BY <2>1, <2>2 DEF Met
  <2> DEFINE up == n - BIT_NUM
  <2>4. /\ up \in Nat /\ up % BIT_NUM = 0
        /\ Prefix(ip, n) \in Kept(tree) <=> ~ Skips(tree, Prefix(ip, up))
    BY <2>1, <2>3, KeptIs
  <2>5. ASSUME Skips(tree, Prefix(ip, up)) PROVE FALSE
    <3>1. n \in 0 .. Len(ip) /\ up \in 0 .. n /\ up + BIT_NUM = n
      BY <1>1, <1>2, <2>1, <2>2, <2>4
    <3>2. /\ Len(Prefix(ip, n)) = n /\ Prefix(Prefix(ip, n), up) = Prefix(ip, up)
          /\ Prefix(Prefix(ip, n), n) = Prefix(ip, n)
      <4>1. n \in 0 .. n
        BY <2>2
      <4> QED
        BY <1>2, <3>1, <4>1, SeqPrefix
    <3> HIDE DEF up
    <3>3. up + BIT_NUM <= Len(Prefix(ip, n))
      BY <2>2, <3>1, <3>2
    <3>4. Prefix(Prefix(ip, n), up + BIT_NUM) \in Children(tree, Prefix(Prefix(ip, n), up))
      BY <2>3, <2>4, <3>3, ChildOf
    <3>5. Prefix(ip, n) \in Children(tree, Prefix(ip, up))
      BY <3>1, <3>2, <3>4
    <3> QED
      BY <2>1, <2>5, <3>5, OnlyChild
  <2>6. n \in S
    BY <2>1, <2>4, <2>5 DEF Stops
  <2> QED
    BY <2>1, <2>6
<1> HIDE DEF S
<1>6. Met(tree, ip, BIT_NUM) = {n \in S \ {0} : tree[Prefix(ip, n)] # NoEntry}
  BY <1>4, <1>5
<1>7. {n \in S \ {0} : tree[Prefix(ip, n)] # NoEntry}
        = {n \in S \ {0} : compressTree(tree)[Prefix(ip, n)].entry # NoEntry}
  BY <1>3
<1>8. \A n \in S : compressTree(tree)[Prefix(ip, n)].entry = tree[Prefix(ip, n)]
  BY <1>3
<1> QED
  BY <1>6, <1>7, <1>8 DEF S

LEMMA CompressedSearch ==
  ASSUME TreesInv, NEW tree, Shape(tree), NEW ip \in Address
  PROVE  searchCompressed(compressTree(tree), ip) = searchIP(tree, ip, BIT_NUM)
<1> DEFINE met == Met(tree, ip, BIT_NUM)
<1>1. met = {n \in Reached(compressTree(tree), ip) \ {0} :
               compressTree(tree)[Prefix(ip, n)].entry # NoEntry}
  BY CompressedMet, StopsSolve
<1>2. \A n \in met : compressTree(tree)[Prefix(ip, n)].entry = tree[Prefix(ip, n)]
  BY CompressedMet
<1>3. met \in SUBSET (0 .. W) /\ W \in Nat
  BY PrefixTreesAssumption DEF Met
<1>4. searchIP(tree, ip, BIT_NUM) = IF met = {} THEN NoEntry ELSE tree[Prefix(ip, Max(met))]
  BY DEF searchIP
<1> HIDE DEF met
<1>5. searchCompressed(compressTree(tree), ip)
        = IF met = {} THEN NoEntry ELSE compressTree(tree)[Prefix(ip, Max(met))].entry
  BY <1>1 DEF searchCompressed
<1>6. met # {} => Max(met) \in met
  BY <1>3, MaxExists
<1> QED
  BY <1>2, <1>4, <1>5, <1>6

\* A chain of skipped nodes ends above the last level, where a node would hold an
\* entry.
LEMMA SkipsEnd ==
  ASSUME TreesInv, NEW tree, Shape(tree), NEW ip \in Address,
         NEW n \in Stops(tree, ip), n # W
  PROVE  n + Len(compressTree(tree)[Prefix(ip, n)].skip) < W
<1> DEFINE node == Prefix(ip, n)
           b == Bottom(tree, node)
           skip == compressTree(tree)[node].skip
<1>1. /\ node \in DOMAIN tree /\ Len(node) = n /\ n \in Nat /\ n % BIT_NUM = 0 /\ n <= W
      /\ Len(skip) \in Nat /\ Len(b) = n + Len(skip) /\ Len(b) \in 0 .. W
  BY SkipIs
<1>2. BIT_NUM \in Nat \ {0} /\ W \in Nat /\ W % BIT_NUM = 0
  BY StrideIs
<1> HIDE DEF node, skip
<1>3. b \in DOMAIN tree /\ Ends(tree, node, b)
  BY <1>1, BottomIs
<1> HIDE DEF b
<1>4. ASSUME Len(b) = W PROVE FALSE
  <2> DEFINE up == W - BIT_NUM
  <2>1. n < W
    BY <1>1, <1>2
  <2>2. up \in Nat /\ up % BIT_NUM = 0 /\ n <= up /\ up < W
    BY <1>1, <1>2, <2>1, MultipleBefore
  <2>3. up + BIT_NUM = W /\ up \in Len(node) .. Len(b) - 1
    BY <1>1, <1>2, <1>4, <2>2
  <2> HIDE DEF up
  <2>4. Skips(tree, Prefix(b, up))
    BY <1>3, <2>2, <2>3 DEF Ends
  <2>5. Prefix(b, up + BIT_NUM) \in Children(tree, Prefix(b, up))
    <3>1. up + BIT_NUM <= Len(b)
      BY <1>2, <1>4, <2>3
    <3> QED
      BY <1>3, <2>2, <3>1, ChildOf
  <2>6. Prefix(b, up + BIT_NUM) = b
    BY <1>3, <1>4, <2>3, ShapeIs
  <2>7. tree[b] = NoEntry
    BY <2>4, <2>5, <2>6, OnlyChild
  <2> QED
    BY <1>3, <1>4, <2>7 DEF Shape
<1>5. n + Len(skip) < W
  BY <1>1, <1>2, <1>4
<1> QED
  BY <1>5 DEF node, skip

\* What checkWithBase asserts of the compressed tree: whatever nodes are left
\* out, it finds what the bit-by-bit search finds, and never reads past the end
\* of an address (multibitCompressedPrefixTree_c).
THEOREM TreesCompressed == Spec => []CompressedAsBase
<1>1. CompressedInv => CompressedAsBase
  <2> SUFFICES ASSUME CompressedInv, compressed # NoTree, NEW ip \in Address
               PROVE  /\ searchCompressed(compressed, ip) = searchIP(base, ip, 1)
                      /\ \A n \in Reached(compressed, ip) \ {W} :
                           LET skip == compressed[Prefix(ip, n)].skip
                           IN  Prefix(ip, n + Len(skip)) = Prefix(ip, n) \o skip => n + Len(skip) < W
    BY DEF CompressedAsBase
  <2>1. TreesInv /\ Shape(multibit) /\ compressed = compressTree(multibit)
    BY DEF CompressedInv
  <2>2. searchCompressed(compressed, ip) = searchIP(multibit, ip, BIT_NUM)
    BY <2>1, CompressedSearch
  <2>3. searchIP(multibit, ip, BIT_NUM) = searchIP(base, ip, 1)
    BY <2>1, BaseSearch, MultibitSearch
  <2>4. Reached(compressed, ip) = Stops(multibit, ip)
    BY <2>1, StopsSolve
  <2>5. \A n \in Reached(compressed, ip) \ {W} : n + Len(compressed[Prefix(ip, n)].skip) < W
    BY <2>1, <2>4, SkipsEnd
  <2> QED
    BY <2>2, <2>3, <2>5
<1> QED
  BY <1>1, CompressedInvInvariant, PTL

=============================================================================
