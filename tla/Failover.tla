------------------------------- MODULE Failover -------------------------------
(***************************************************************************)
(* What a MultiEndpoint promises to those who ask for Current(): an        *)
(* endpoint of the list, which changes only to an available one or because *)
(* it left the list, and is not a dead one while another could serve.      *)
(* src/grpcgcp/multiendpoint/multiendpoint.go:44-71.                       *)
(***************************************************************************)
CONSTANT Endpoint

VARIABLES
    listed,      \* the endpoints of the list
    available,   \* those known to be available
    recovering,  \* those given time to become available
    current      \* what Current() returns

fvars == <<listed, available, recovering, current>>

FTypeOK ==
    /\ listed \subseteq Endpoint
    /\ available \subseteq listed
    /\ recovering \subseteq listed \ available
    /\ current \in listed

FInit ==
    /\ FTypeOK
    /\ available = {}

\* An endpoint that may stay current.
MayServe(e) ==
    /\ e \in listed
    /\ available = {} \/ e \in available \cup recovering

\* The list or the availability changes, or time passes.
FNext ==
    /\ FTypeOK'
    /\ \/ current' = current /\ MayServe(current)'
       \/ current' \in available'
       \/ current \notin listed' /\ available' = {}

FSpec == FInit /\ [][FNext]_fvars
=============================================================================
