----------------------------- MODULE MCGcpPicker -----------------------------
(* Instances of GcpPicker for TLC. *)
EXTENDS GcpPicker, TLC

MCBalancer(minSize, fallback, detection) ==
    [minSize |-> minSize, fallbackToReady |-> fallback, unresponsiveDetection |-> detection]

MCPool(balancer, maxSize, maxStreams, roundRobin, commands, keys, more) ==
    [balancer |-> balancer, maxSize |-> maxSize, maxStreams |-> maxStreams,
     unresponsiveCalls |-> 1, roundRobin |-> roundRobin, commands |-> commands, keys |-> keys,
     reported |-> {"Connecting", "Ready"} \cup more]

\* A pool that grows, one with keys and fallbacks, one that binds round robin,
\* one that unbinds keys, "" among them, and one that refreshes its channels.
GrowingPool == MCPool(MCBalancer(1, FALSE, FALSE), 2, 1, FALSE, {"NONE"}, {}, {"Idle", "TransientFailure"})
KeyedPool == MCPool(MCBalancer(2, TRUE, FALSE), 2, 1, FALSE, {"BOUND", "BIND"}, Key \ {EmptyKey}, {})
RoundRobinPool == MCPool(MCBalancer(2, FALSE, FALSE), 2, 1, TRUE, {"BIND"}, Key \ {EmptyKey}, {})
UnbindingPool == MCPool(MCBalancer(0, FALSE, FALSE), 1, 1, FALSE, {"BIND", "UNBIND"}, Key, {"TransientFailure"})
RefreshedPool == MCPool(MCBalancer(1, FALSE, TRUE), 1, 2, FALSE, {"NONE"}, {}, {})

AllPools == {GrowingPool, KeyedPool, UnbindingPool, RoundRobinPool, RefreshedPool}

MCConfigs == {p.balancer : p \in AllPools}

\* A picker matters only as the current one or an older one, and to the calls that
\* share it, not by its number.
Sharing(c) == {x \in Call : calls[x].pc # "none" /\ calls[x].id = calls[c].id}
Unnumbered(c) ==
    IF calls[c].pc = "none" THEN <<>>
    ELSE <<calls[c].id = pickerId, Sharing(c), [calls[c] EXCEPT !.id = 0]>>
UpToNumbers == <<balancerVars, cp, streamsCnt, rrRefId, [c \in Call |-> Unnumbered(c)]>>

Symmetry == Permutations(SubConn) \cup Permutations(Key \ {EmptyKey}) \cup Permutations(Call)
=============================================================================
