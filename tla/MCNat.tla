-------------------------------- MODULE MCNat --------------------------------
(* The two private networks of lab13/mininet/nat_topo3.py, with the same    *)
(* addresses in both and their dnat-rules, and a public host.               *)
EXTENDS Nat, TLC

MCExtIP  == "n1" :> "ext1" @@ "n2" :> "ext2"
MCHostIP == "n1" :> {"a", "b"} @@ "n2" :> {"a", "b"} @@ "public" :> {"w"}

MCRules ==
  [b \in Box |->
     <<[external |-> <<ExtIP[b], 8>>, internal |-> <<"a", 80>>],
       [external |-> <<ExtIP[b], 9>>, internal |-> <<"b", 80>>]>>]

MCListening ==
  (Box \X {<<"a", 80>>, <<"b", 80>>}) \cup {<<"public", <<"w", 80>>>>}

From(s, h, p, ip, q) == [site |-> s, src |-> <<h, p>>, dst |-> <<ip, q>>]

\* Three calls leave n2, which has two ports, and no rule fits the last.
MCCalls ==
  {From("n2", "a", 5, "ext1", 8), From("n2", "b", 5, "ext1", 8),
   From("n1", "a", 5, "ext2", 8), From("n2", "a", 5, "ext1", 9),
   From("public", "w", 6, "ext1", 7)}

MCUnmatchedCalls ==
  {From("public", "w", 5, "ext1", 7), From("public", "w", 6, "ext1", 7)}

MCReportPorts == <<769, 0>>
=============================================================================
