----------------------------- MODULE MCAffinityKeys -----------------------------
(* Messages with every kind of field that a path can meet, for TLC. *)
EXTENDS AffinityKeys

MCTitle == [name |-> "Name", names |-> "Names", session |-> "Session",
            sessions |-> "Sessions", owner_name |-> "Owner_name"]

MCBound == SUBSET {"k1", "k2"}

MCLocators == {<<"name">>, <<"names">>, <<"session">>, <<"sessions">>, <<"owner_name">>,
               <<"session", "name">>, <<"session", "names">>, <<"sessions", "name">>,
               <<"sessions", "names">>, <<"name", "name">>}

Leaves == {Text("k1"), Text("k2"), [kind |-> "int"]}
Lists == {<<>>} \cup {<<a>> : a \in Leaves} \cup {<<a, b>> : a, b \in Leaves}

Sessions == {PointerTo(Nil), PointerTo(Struct([Names |-> Slice(<<Text("k2"), Text("k1")>>)]))}
    \cup {PointerTo(Struct([Name |-> a])) : a \in Leaves}
    \cup {PointerTo(Struct([Names |-> Slice(l)])) : l \in {<<>>, <<Text("k1")>>}}

\* A session in a oneof, as a pointer in an interface.
OneOf == [kind |-> "interface", elem |-> PointerTo(Struct([Name |-> Text("k1")]))]

MCMessages == {Nil, [kind |-> "int"]} \cup {PointerTo(m) : m \in
    {Struct([Name |-> a, OwnerName |-> a]) : a \in Leaves} \cup
    {Struct([Names |-> Slice(l)]) : l \in Lists} \cup
    {Struct([Session |-> s]) : s \in Sessions \cup {OneOf}} \cup
    {Struct([Sessions |-> Slice(l)]) : l \in {<<>>} \cup {<<s, t>> : s, t \in Sessions}}}
=============================================================================
