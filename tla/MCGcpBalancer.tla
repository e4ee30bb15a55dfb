---------------------------- MODULE MCGcpBalancer ----------------------------
(* Instances of GcpBalancer for TLC. *)
EXTENDS GcpBalancer, TLC

\* Pools of one or more channels, with refreshes or with fallbacks.
MCConfigs ==
    {[minSize |-> 0, fallbackToReady |-> FALSE, unresponsiveDetection |-> TRUE],
     [minSize |-> 2, fallbackToReady |-> TRUE, unresponsiveDetection |-> FALSE]}

Symmetry == Permutations(SubConn)
=============================================================================
