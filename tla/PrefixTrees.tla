---------------------------- MODULE PrefixTrees ----------------------------
(***************************************************************************)
(* The three lookup structures of lab11: the tree of single bits           *)
(* (basePrefixTree.py), the tree that takes BIT_NUM bits at a time         *)
(* (multibitPrefixTree.py), and that tree without the nodes that decide    *)
(* nothing (multibitCompressedPrefixTree.py).  A script fills its tree     *)
(* with the entries of a table and compares every search with the first.   *)
(*                                                                         *)
(* A node is named by the bits that lead to it, so a tree is a function    *)
(* from the names of its nodes to what they hold: an entry or NoEntry.     *)
(***************************************************************************)
EXTENDS Integers, Sequences, FiniteSets, FiniteSetsExt

CONSTANTS
  W,           \* bits of an address, 32 in the code
  Strides,     \* the values of BIT_NUM the scripts run with
  Entries,     \* the entries a table may have
  MaxEntries   \* bound: entries of a table

Bit == {0, 1}
Address == [1 .. W -> Bit]
NoEntry == [IPStr |-> <<>>, mask |-> 0]

ASSUME PrefixTreesAssumption ==
  /\ W \in Nat \ {0}
  /\ Strides \subseteq {b \in 1 .. W : W % b = 0}
  /\ Entries \subseteq [IPStr : Address, mask : 1 .. W]
  /\ MaxEntries \in Nat

VARIABLES BIT_NUM, table, base, multibit, compressed

vars == <<BIT_NUM, table, base, multibit, compressed>>

Prefix(ip, n) == SubSeq(ip, 1, n)
Matches(e, ip) == Prefix(ip, e.mask) = Prefix(e.IPStr, e.mask)
Held(tree, node) == IF node \in DOMAIN tree THEN tree[node] ELSE NoEntry

NoTree == [node \in {} |-> NoEntry]
Root == [node \in {<<>>} |-> NoEntry]

-----------------------------------------------------------------------------
(* basePrefixTree_c                                                        *)

\* Mutant of insertEntry: one bit too few leads to the entry.
insertEntry_Short(tree, e) ==
  LET path == {Prefix(e.IPStr, n) : n \in 0 .. e.mask - 1}
  IN  [node \in DOMAIN tree \cup path |->
         IF node = Prefix(e.IPStr, e.mask - 1) THEN e ELSE Held(tree, node)]

insertEntry(tree, e) ==
  LET path == {Prefix(e.IPStr, n) : n \in 0 .. e.mask}
  IN  [node \in DOMAIN tree \cup path |->
         IF node = Prefix(e.IPStr, e.mask) THEN e ELSE Held(tree, node)]

\* The search goes down while there is a node, `step' bits at a time, and keeps
\* the last entry it meets.  What the root holds does not count.
Met(tree, ip, step) ==
  {n \in 1 .. W : /\ n % step = 0
                  /\ \A k \in 1 .. n : k % step = 0 => Prefix(ip, k) \in DOMAIN tree
                  /\ tree[Prefix(ip, n)] # NoEntry}

searchIP(tree, ip, step) ==
  LET met == Met(tree, ip, step)
  IN  IF met = {} THEN NoEntry ELSE tree[Prefix(ip, Max(met))]

-----------------------------------------------------------------------------
(* multibitPrefixTree_c                                                    *)

\* Nodes stand for BIT_NUM bits more.
Level(mask) == ((mask + BIT_NUM - 1) \div BIT_NUM) * BIT_NUM

\* A mask between two levels takes all nodes of the next level that agree
\* with it.
Expanded(e) == {node \in [1 .. Level(e.mask) -> Bit] : Matches(e, node)}

\* Mutant of insertMultibit: a shorter mask takes the node of a longer one.
insertMultibit_Over(tree, e) ==
  LET path == {Prefix(e.IPStr, n) : n \in {k \in 0 .. e.mask : k % BIT_NUM = 0}}
  IN  [node \in DOMAIN tree \cup path \cup Expanded(e) |->
         IF node \in Expanded(e) THEN e ELSE Held(tree, node)]

insertMultibit(tree, e) ==
  LET path == {Prefix(e.IPStr, n) : n \in {k \in 0 .. e.mask : k % BIT_NUM = 0}}
  IN  [node \in DOMAIN tree \cup path \cup Expanded(e) |->
         IF node \in Expanded(e) /\ Held(tree, node).mask < e.mask
         THEN e ELSE Held(tree, node)]

-----------------------------------------------------------------------------
(* multibitCompressedPrefixTree_c                                          *)

\* A node is left out if it holds nothing and is the only child; the node above
\* it then skips its bits.
Children(tree, node) ==
  {child \in DOMAIN tree : Len(child) = Len(node) + BIT_NUM /\ Prefix(child, Len(node)) = node}

\* Mutant of Skips: what the child holds is not looked at.
Skips_Any(tree, node) == Cardinality(Children(tree, node)) = 1

Skips(tree, node) ==
  \E child \in Children(tree, node) :
    Children(tree, node) = {child} /\ tree[child] = NoEntry

\* How far a node that is kept reaches: the last node it has taken over
Bottom(tree, node) ==
  CHOOSE below \in DOMAIN tree :
    /\ Len(below) >= Len(node) /\ Prefix(below, Len(node)) = node
    /\ ~Skips(tree, below)
    /\ \A n \in Len(node) .. Len(below) - 1 :
         n % BIT_NUM = 0 => Skips(tree, Prefix(below, n))

Kept(tree) ==
  {node \in DOMAIN tree : node = <<>> \/ ~Skips(tree, Prefix(node, Len(node) - BIT_NUM))}

compressTree(tree) ==
  [node \in Kept(tree) |->
     [entry |-> tree[node],
      skip |-> SubSeq(Bottom(tree, node), Len(node) + 1, Len(Bottom(tree, node)))]]

\* How far a search comes: from a node it goes on if the address agrees with
\* the bits skipped, and the next BIT_NUM bits lead to a node.
Reached(tree, ip) ==
  LET reached[n \in 0 .. W] ==
        \/ n = 0
        \/ /\ Prefix(ip, n) \in DOMAIN tree
           /\ \E k \in 0 .. n - BIT_NUM :
                /\ reached[k]
                /\ n = k + Len(tree[Prefix(ip, k)].skip) + BIT_NUM
                /\ Prefix(ip, n - BIT_NUM) = Prefix(ip, k) \o tree[Prefix(ip, k)].skip
  IN  {n \in 0 .. W : reached[n]}

searchCompressed(tree, ip) ==
  LET met == {n \in Reached(tree, ip) \ {0} : tree[Prefix(ip, n)].entry # NoEntry}
  IN  IF met = {} THEN NoEntry ELSE tree[Prefix(ip, Max(met))].entry

-----------------------------------------------------------------------------

Init ==
  /\ BIT_NUM \in Strides
  /\ table = {}
  /\ base = Root /\ multibit = Root
  /\ compressed = NoTree

\* A table has one entry for a prefix.
Insert(e) ==
  /\ compressed = NoTree
  /\ Cardinality(table) < MaxEntries
  /\ \A f \in table : f.mask = e.mask => ~Matches(e, f.IPStr)
  /\ table' = table \cup {e}
  /\ base' = insertEntry(base, e)
  /\ multibit' = insertMultibit(multibit, e)
  /\ UNCHANGED <<BIT_NUM, compressed>>

\* The last script compresses its tree before it searches.
Compress ==
  /\ compressed = NoTree
  /\ compressed' = compressTree(multibit)
  /\ UNCHANGED <<BIT_NUM, table, base, multibit>>

Next == Compress \/ \E e \in Entries : Insert(e)

Spec == Init /\ [][Next]_vars

-----------------------------------------------------------------------------

\* What a search has to find: the entry of the table with the longest mask
\* among those that match the address, and nothing else.
Longest(ip) ==
  IF \E e \in table : Matches(e, ip)
  THEN CHOOSE e \in table : Matches(e, ip) /\ \A f \in table : Matches(f, ip) => f.mask <= e.mask
  ELSE NoEntry

\* The reference of the other scripts finds the longest match, in whatever
\* order the table was read (basePrefixTree_c).
BaseFindsLongest == \A ip \in Address : searchIP(base, ip, 1) = Longest(ip)

\* What checkWithBase asserts of the multibit tree
MultibitAsBase == \A ip \in Address : searchIP(multibit, ip, BIT_NUM) = searchIP(base, ip, 1)

\* and of the compressed one, in which no search runs past the end of an
\* address.
CompressedAsBase ==
  compressed # NoTree =>
    \A ip \in Address :
      /\ searchCompressed(compressed, ip) = searchIP(base, ip, 1)
      /\ \A n \in Reached(compressed, ip) \ {W} :
           LET skip == compressed[Prefix(ip, n)].skip
           IN  Prefix(ip, n + Len(skip)) = Prefix(ip, n) \o skip => n + Len(skip) < W

=============================================================================
