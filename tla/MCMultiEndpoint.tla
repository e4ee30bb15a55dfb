---------------------------- MODULE MCMultiEndpoint ----------------------------
(* Small instances of MultiEndpoint for TLC. *)
EXTENDS MultiEndpoint, TLC

CONSTANTS MaxLength, Delays

\* Every list without repetitions, and one with.
MCLists ==
    LET all == UNION {[1..n -> Endpoint] : n \in 1..MaxLength}
        repeated == CHOOSE l \in all : Len(l) = 2 /\ l[1] = l[2]
    IN  {l \in all : Cardinality(ListedIn(l)) = Len(l)} \cup {repeated}

MCOptions == [recoveryTimeout : BOOLEAN, switchingDelay : Delays]
=============================================================================
