----------------------------- MODULE AffinityPool -----------------------------
(***************************************************************************)
(* What the pool of channels promises to RPCs: which channel one goes on,  *)
(* and what its key is bound to afterwards.  No SubConns, pickers, locks   *)
(* or counters.  src/grpcgcp/gcp_picker.go, the picks and the callback;    *)
(* src/grpcgcp/grpc_gcp/grpc_gcp.proto:105-122.                            *)
(***************************************************************************)
CONSTANTS Call, Key, Channel, None

VARIABLES
    options,   \* fallbackToReady, roundRobin
    channels,  \* the channels ever made
    ready,     \* those that are ready
    bound,     \* the keys that are bound
    home,      \* the channel of a bound key, None if the channel lost its SubConn
    rpc,       \* what an RPC asks for, and what it was offered
    on,        \* the channel an RPC is on
    due        \* the channel with which an RPC will bind or unbind its key

apVars == <<options, channels, ready, bound, home, rpc, on, due>>

\* What an RPC asks for, the channels it is offered, and whether it may choose.
Rpc(cmd, k, offered, free) == [cmd |-> cmd, key |-> k, offered |-> offered, free |-> free]

NoRpc == Rpc("NONE", None, {}, FALSE)

\* An RPC is offered the channels that are ready; one that binds may be told
\* the next of all channels instead, round robin.
Asking(cmd, k) ==
    Rpc(cmd, k, IF cmd = "BIND" /\ options.roundRobin THEN {} ELSE ready, FALSE)

\* It is between Pick and the end of its callback in no channel's debt.
Routing(c) == on[c] = None /\ due[c] = None

APInit ==
    /\ options \in [fallbackToReady : BOOLEAN, roundRobin : BOOLEAN]
    /\ channels = {} /\ ready = {} /\ bound = {}
    /\ home = [k \in Key |-> None]
    /\ rpc = [c \in Call |-> NoRpc]
    /\ on = [c \in Call |-> None]
    /\ due = [c \in Call |-> None]

-----------------------------------------------------------------------------
\* Channels are made, become ready or not, or lose their SubConn for good.
PoolChanges ==
    /\ UNCHANGED <<options, bound, rpc, on, due>>
    /\ channels \subseteq channels' /\ channels' \subseteq Channel
    /\ ready' \subseteq channels'
    /\ \A k \in Key : home'[k] \in {home[k], None}

\* An RPC starts, or tries again: it is given the picker of that time.
Ask(c, cmd, k) ==
    /\ Routing(c)
    /\ rpc[c] = NoRpc \/ (rpc[c].cmd = cmd /\ rpc[c].key = k)
    /\ rpc' = [rpc EXCEPT ![c] = Asking(cmd, k)]
    /\ UNCHANGED <<options, channels, ready, bound, home, on, due>>

\* Its key binds it to no channel.
Unbound(c) == rpc[c].cmd \notin {"BOUND", "UNBIND"} \/ rpc[c].key \notin bound

FindUnbound(c) ==
    /\ Routing(c) /\ Unbound(c)
    /\ rpc' = [rpc EXCEPT ![c] = Rpc(@.cmd, @.key, @.offered, TRUE)]
    /\ UNCHANGED <<options, channels, ready, bound, home, on, due>>

\* It has found nothing and waits; the pool may be given a channel for that.
Wait(c) ==
    /\ Routing(c)
    /\ channels \subseteq channels' /\ channels' \subseteq Channel
    /\ rpc' = [rpc EXCEPT ![c] = Rpc(@.cmd, @.key, {}, FALSE)]
    /\ UNCHANGED <<options, ready, bound, home, on, due>>

\* An RPC with a bound key goes where the key is, and elsewhere only if it must
\* and may.
ByKey(c, ch) ==
    /\ ~Unbound(c)
    /\ ch \in ready
    /\ ch = home[rpc[c].key] \/ (options.fallbackToReady /\ home[rpc[c].key] \notin ready)

\* Any other goes on a channel it was offered.
Anywhere(c, ch) ==
    \/ rpc[c].free /\ ch \in rpc[c].offered
    \/ rpc[c].cmd = "BIND" /\ options.roundRobin /\ ch \in channels

Go(c, ch) ==
    /\ Routing(c)
    /\ ByKey(c, ch) \/ Anywhere(c, ch)
    /\ on' = [on EXCEPT ![c] = ch]
    /\ rpc' = [rpc EXCEPT ![c] = Rpc(@.cmd, @.key, {}, FALSE)]
    /\ UNCHANGED <<options, channels, ready, bound, home, due>>

\* An RPC is no more, or goes back to wait.
Ends(c) == rpc' \in {rpc, [rpc EXCEPT ![c] = NoRpc]}

\* It leaves its channel; one that succeeded may have to bind or unbind its key.
Leave(c) ==
    /\ on[c] # None
    /\ on' = [on EXCEPT ![c] = None]
    /\ \/ UNCHANGED rpc /\ rpc[c].cmd \in {"BIND", "UNBIND"} /\ due' = [due EXCEPT ![c] = on[c]]
       \/ Ends(c) /\ UNCHANGED due
    /\ UNCHANGED <<options, channels, ready, bound, home>>

Quit(c) ==
    /\ Routing(c)
    /\ rpc' = [rpc EXCEPT ![c] = NoRpc]
    /\ UNCHANGED <<options, channels, ready, bound, home, on, due>>

\* A key is bound to the channel of the RPC, unless it is bound already, or that
\* channel has lost the SubConn meanwhile.
Bind(c) ==
    /\ due[c] # None /\ rpc[c].cmd = "BIND"
    /\ due' = [due EXCEPT ![c] = None]
    /\ bound' = bound \cup {rpc[c].key}
    /\ home' \in IF rpc[c].key \in bound THEN {home}
                 ELSE {[home EXCEPT ![rpc[c].key] = ch] : ch \in {due[c], None}}
    /\ Ends(c)
    /\ UNCHANGED <<options, channels, ready, on>>

\* A key whose channel was lost cannot be unbound.
Unbind(c) ==
    /\ due[c] # None /\ rpc[c].cmd = "UNBIND"
    /\ due' = [due EXCEPT ![c] = None]
    /\ IF rpc[c].key \in bound /\ home[rpc[c].key] = None
       THEN UNCHANGED <<bound, home>>
       ELSE bound' = bound \ {rpc[c].key} /\ home' = [home EXCEPT ![rpc[c].key] = None]
    /\ Ends(c)
    /\ UNCHANGED <<options, channels, ready, on>>

RpcNext(c) ==
    \/ \E cmd \in {"NONE", "BOUND", "BIND", "UNBIND"}, k \in Key \cup {None} : Ask(c, cmd, k)
    \/ FindUnbound(c)
    \/ Wait(c)
    \/ \E ch \in Channel : Go(c, ch)
    \/ Leave(c)
    \/ Quit(c)
    \/ Bind(c)
    \/ Unbind(c)

APNext == PoolChanges \/ \E c \in Call : RpcNext(c)

APSpec == APInit /\ [][APNext]_apVars
=============================================================================
