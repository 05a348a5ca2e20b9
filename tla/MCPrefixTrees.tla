--------------------------- MODULE MCPrefixTrees ---------------------------
(* The tables for TLC's runs of PrefixTrees.                               *)
EXTENDS PrefixTrees

\* The prefixes of some addresses, among them ones that differ in the first, a
\* middle and the last bit
MCEntries ==
  {[IPStr |-> ip, mask |-> n] :
     ip \in {<<0, 0, 0, 0, 0, 0>>, <<0, 0, 0, 0, 0, 1>>, <<0, 0, 1, 0, 1, 1>>, <<1, 0, 0, 1, 0, 0>>},
     n \in 1 .. 6}
=============================================================================
