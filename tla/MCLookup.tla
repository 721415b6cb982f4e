------------------------------ MODULE MCLookup ------------------------------
(* A small Lookup: chains of up to seven CNAME records with every end, and  *)
(* directories of up to three entries.                                      *)
EXTENDS Lookup, TLC

Chain == <<<<"a", "b">>, <<"n1">>, <<"n2">>, <<"n3">>, <<"n4">>, <<"n5">>, <<"n6">>>>
MCLabels == {"a", "A", "b", "default", "n1", "n2", "n3", "n4", "n5", "n6", "N1"}
MCLowerOf == [l \in MCLabels |-> CASE l = "A" -> "a" [] l = "N1" -> "n1" [] OTHER -> l]
MCDefault == <<"default">>
MCNames ==
    {Chain[i] : i \in DOMAIN Chain}
      \cup {<<>>, <<"b">>, <<"A", "b">>, <<"N1">>, MCDefault, <<"a", "a", "b">>}
MCApex ==
    [n \in MCNames |-> IF Len(n) < 2 THEN "no apex" ELSE SubSeq(n, Len(n) - 1, Len(n))]

\* The first k names of the chain have CNAME records, and the next one has the
\* answer e; every other name has an address.
ZoneOf(k, e) ==
    [n \in MCNames |->
       IF \E i \in 1..k : Chain[i] = n
         THEN [kind |-> "cname", name |-> Chain[(CHOOSE i \in 1..k : Chain[i] = n) + 1]]
         ELSE IF n = Chain[k + 1] THEN e ELSE [kind |-> "a", name |-> <<>>]]

Ends ==
    {[kind |-> t, name |-> <<>>] : t \in {"a", "cname", "none", "nxdomain", "other"}}
      \cup {[kind |-> "cname", name |-> n] : n \in {Chain[1], Chain[2], <<"A", "b">>, <<"N1">>}}
MCZones == {ZoneOf(k, e) : k \in 0..6, e \in Ends}

Lua(n) == [name |-> n, kind |-> "lua"]
MCListings ==
    {<<Lua(MCDefault)>>,
     <<Lua(<<"A", "b">>), Lua(<<"a", "b">>), Lua(MCDefault)>>,
     <<Lua(<<"a", "b">>), Lua(<<"b">>), Lua(MCDefault)>>,
     <<Lua(<<"b">>), Lua(MCDefault), Lua(<<"N1">>)>>,
     <<[name |-> <<"a", "b">>, kind |-> "dir"], Lua(<<"b">>), [name |-> MCDefault, kind |-> "dir"]>>,
     <<[name |-> <<"b">>, kind |-> "other"], Lua(<<>>), Lua(MCDefault)>>}
=============================================================================
