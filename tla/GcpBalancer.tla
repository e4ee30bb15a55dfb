------------------------------ MODULE GcpBalancer ------------------------------
(***************************************************************************)
(* The grpc_gcp load balancer, src/grpcgcp/gcp_balancer.go: the pool of    *)
(* subConnRefs, the SubConns behind them, the affinity and fallback maps,  *)
(* the aggregated connectivity state and the picker handed to ClientConn.  *)
(*                                                                         *)
(* Every method of gcpBalancer runs under gb.mu, so a method is one atomic *)
(* action here, except UpdateClientConnState, whose enforceMinSize loop is *)
(* several (mu is held throughout).  The RPC side (gcp_picker.go) appears  *)
(* only through the methods it calls, with any arguments it could pass;    *)
(* GcpPicker refines it to actual calls.                                   *)
(*                                                                         *)
(* A subConnRef is named by the SubConn it was created with.  Go maps are  *)
(* total functions, a missing key has the value NoSubConn or "none".       *)
(***************************************************************************)
EXTENDS Integers, Sequences, FiniteSets

CONSTANTS SubConn,      \* the SubConns the ClientConn can create
          NoSubConn,    \* no SubConn, no subConnRef (nil, or a missing key)
          Key,          \* affinity keys
          Configs,      \* the load balancing configurations that may be given
          NoConfig,     \* gb.cfg = nil
          CanFail,      \* may ClientConn.NewSubConn return an error
          LiveShutdown, \* may a SubConn still in the pool be shut down
          MaxAddrs,     \* bound: number of different address lists resolved
          MaxCount      \* bound: affinityCnt and deCalls

ConfigType == [minSize : Nat, fallbackToReady : BOOLEAN, unresponsiveDetection : BOOLEAN]

ASSUME SubConnAssumption == NoSubConn \notin SubConn /\ IsFiniteSet(SubConn)
ASSUME ConfigAssumption == Configs \subseteq ConfigType /\ NoConfig \notin ConfigType
ASSUME FlagAssumption == CanFail \in BOOLEAN /\ LiveShutdown \in BOOLEAN
ASSUME BoundAssumption == MaxAddrs \in Nat /\ MaxCount \in Nat

VARIABLES
    mu,               \* gb.mu: "free", "enforceMinSize" (held by the loop) or "stuck"
    panicked,         \* a nil dereference or a failed type assertion killed the process
    cfg,              \* gb.cfg
    addrs,            \* gb.addrs, as the number of the resolved list
    scRefs,           \* gb.scRefs: SubConn -> subConnRef
    scStates,         \* gb.scStates: SubConn -> connectivity.State
    refreshingScRefs, \* gb.refreshingScRefs: replacement SubConn -> subConnRef
    refs,             \* the fields of every subConnRef
    scRefList,        \* gb.scRefList
    affinityMap,      \* gb.affinityMap: key -> SubConn
    fallbackMap,      \* gb.fallbackMap: key -> SubConn
    csEvltr,          \* gb.csEvltr, the counters of SubConns by state
    state,            \* gb.state, the aggregated connectivity state
    picker,           \* gb.picker
    cc,               \* what the ClientConn was last told by UpdateState
    conn,             \* the last state of each SubConn the ClientConn reported
    wantConnect,      \* SubConns asked to Connect() since they became Idle
    scAddrs,          \* the address list each SubConn dials
    removed           \* SubConns given to ClientConn.RemoveSubConn

poolVars == <<scRefs, scStates, refreshingScRefs, refs, scRefList>>
keyVars  == <<affinityMap, fallbackMap>>
aggrVars == <<csEvltr, state, picker, cc>>
connVars == <<conn, wantConnect, scAddrs, removed>>
vars == <<mu, panicked, cfg, addrs, poolVars, keyVars, aggrVars, connVars>>

ConnState == {"Idle", "Connecting", "Ready", "TransientFailure", "Shutdown"}
MaybeSubConn == SubConn \cup {NoSubConn}

Pool == {sc \in SubConn : scRefs[sc] # NoSubConn}
Fresh == {sc \in SubConn : conn[sc] = "none"}
ReadyRefs == {scRefs[sc] : sc \in {x \in SubConn : scStates[x] = "Ready"}}

\* The SubConns that are, or were, the subConn of a subConnRef.
Assigned == {sc \in SubConn : conn[sc] # "none" /\ refreshingScRefs[sc] = NoSubConn}

NewRef(sc) == [subConn |-> sc, affinityCnt |-> 0, deCalls |-> 0,
               refreshing |-> FALSE, refreshCnt |-> 0]

Init ==
    /\ mu = "free"
    /\ panicked = FALSE
    /\ cfg = NoConfig
    /\ addrs = 0
    /\ scRefs = [sc \in SubConn |-> NoSubConn]
    /\ scStates = [sc \in SubConn |-> "none"]
    /\ refreshingScRefs = [sc \in SubConn |-> NoSubConn]
    /\ refs = [sc \in SubConn |-> NewRef(NoSubConn)]
    /\ scRefList = <<>>
    /\ affinityMap = [k \in Key |-> NoSubConn]
    /\ fallbackMap = [k \in Key |-> NoSubConn]
    /\ csEvltr = [numReady |-> 0, numConnecting |-> 0, numTransientFailure |-> 0]
    /\ state = "Idle"
    /\ picker = [kind |-> "errNoSubConnAvailable", refs |-> {}]
    /\ cc = [state |-> "none", picker |-> picker, served |-> FALSE]
    /\ conn = [sc \in SubConn |-> "none"]
    /\ wantConnect = {}
    /\ scAddrs = [sc \in SubConn |-> 0]
    /\ removed = {}

-----------------------------------------------------------------------------
(***************************************************************************)
(* Creating SubConns.                                                      *)
(***************************************************************************)

\* ClientConn.NewSubConn returns the fresh sc, and sc.Connect() is called on it.
NewSubConn(sc) ==
    /\ sc \in Fresh
    /\ conn' = [conn EXCEPT ![sc] = "Idle"]
    /\ wantConnect' = wantConnect \cup {sc}
    /\ scAddrs' = [scAddrs EXCEPT ![sc] = addrs]
    /\ UNCHANGED removed

addSubConn ==
    /\ \/ /\ CanFail
          /\ UNCHANGED <<poolVars, connVars>>
       \/ \E sc \in SubConn :
            /\ NewSubConn(sc)
            /\ scRefs' = [scRefs EXCEPT ![sc] = sc]
            /\ scStates' = [scStates EXCEPT ![sc] = "Idle"]
            /\ refs' = [refs EXCEPT ![sc] = NewRef(sc)]
            /\ scRefList' = Append(scRefList, sc)
            /\ UNCHANGED refreshingScRefs

\* Mutant: a pool that has channels is not grown.
newSubConn_skips == UNCHANGED <<poolVars, connVars>>

newSubConn ==
    IF \E sc \in SubConn : scStates[sc] \in {"Connecting", "Idle"}
    THEN UNCHANGED <<poolVars, connVars>>
    ELSE addSubConn

-----------------------------------------------------------------------------
(***************************************************************************)
(* UpdateClientConnState: the resolver and the service config.             *)
(***************************************************************************)

defaultMinSize == 1

\* Mutant: min_size 0 is kept.
initializeConfig_noDefault(c) == c

initializeConfig(c) ==
    [c EXCEPT !.minSize = IF c.minSize = 0 THEN defaultMinSize ELSE c.minSize]

UpdateAddresses ==
    scAddrs' = [sc \in SubConn |-> IF sc \in Pool THEN addrs' ELSE scAddrs[sc]]

\* Every SubConn of the pool gets the new addresses and is asked to connect.
\* An empty pool calls newSubConn, which locks gb.mu a second time.
UpdatePoolAddresses ==
    \/ /\ Pool = {}
       /\ mu' = "stuck"
       /\ UNCHANGED connVars
    \/ /\ Pool # {}
       /\ mu' = "free"
       /\ UpdateAddresses
       /\ wantConnect' = wantConnect \cup {sc \in Pool : conn[sc] = "Idle"}
       /\ UNCHANGED <<conn, removed>>

UpdateClientConnState ==
    /\ ~panicked /\ mu = "free"
    /\ addrs' \in {addrs, addrs + 1}
    /\ addrs' \in 1..MaxAddrs
    /\ \/ /\ cfg = NoConfig                          \* not a GCPBalancerConfig
          /\ UNCHANGED <<mu, cfg, connVars>>
       \/ /\ cfg = NoConfig
          /\ \E c \in Configs : cfg' = initializeConfig(c)
          /\ mu' = "enforceMinSize"
          /\ UNCHANGED connVars
       \/ /\ cfg # NoConfig
          /\ UpdatePoolAddresses
          /\ UNCHANGED cfg
    /\ UNCHANGED <<panicked, poolVars, keyVars, aggrVars>>

\* One round of the loop, which repeats while NewSubConn fails.
enforceMinSize ==
    /\ ~panicked /\ mu = "enforceMinSize"
    /\ Cardinality(Pool) < cfg.minSize
    /\ addSubConn
    /\ UNCHANGED <<mu, panicked, cfg, addrs, keyVars, aggrVars>>

\* The loop is over: the rest of UpdateClientConnState.
MinSizeReached ==
    /\ ~panicked /\ mu = "enforceMinSize"
    /\ Cardinality(Pool) >= cfg.minSize
    /\ addrs' = addrs
    /\ UpdatePoolAddresses
    /\ UNCHANGED <<panicked, cfg, poolVars, keyVars, aggrVars>>

-----------------------------------------------------------------------------
(***************************************************************************)
(* UpdateSubConnState.                                                     *)
(***************************************************************************)

Shift(oldS, newS, s) == (IF newS = s THEN 1 ELSE 0) - (IF oldS = s THEN 1 ELSE 0)

\* Mutant: the state left behind is not counted off.
recordTransition_newOnly(e, oldS, newS) ==
    [numReady |-> e.numReady + Shift("none", newS, "Ready"),
     numConnecting |-> e.numConnecting + Shift("none", newS, "Connecting"),
     numTransientFailure |-> e.numTransientFailure + Shift("none", newS, "TransientFailure")]

\* The counters recordTransition leaves, and the aggregated state it returns.
recordTransition(e, oldS, newS) ==
    [numReady |-> e.numReady + Shift(oldS, newS, "Ready"),
     numConnecting |-> e.numConnecting + Shift(oldS, newS, "Connecting"),
     numTransientFailure |-> e.numTransientFailure + Shift(oldS, newS, "TransientFailure")]

Aggregate(e) ==
    IF e.numReady > 0 THEN "Ready"
    ELSE IF e.numConnecting > 0 THEN "Connecting"
    ELSE "TransientFailure"

regeneratePicker ==
    picker' = IF state' = "TransientFailure"
              THEN [kind |-> "errTransientFailure", refs |-> {}]
              ELSE [kind |-> "gcpPicker", refs |-> ReadyRefs']

\* gb.cc.UpdateState; served records that a picker with channels was handed out.
UpdateState ==
    cc' = [state |-> state', picker |-> picker',
           served |-> cc.served \/ picker'.refs # {}]

\* Mutant: a broken fallback is kept.
DropsFallback_recovered(k, sc, oldS, s) ==
    oldS # "Ready" /\ s = "Ready" /\ affinityMap[k] = sc

\* A key loses its fallback when the fallback breaks or its own SubConn recovers.
DropsFallback(k, sc, oldS, s) ==
    \/ oldS = "Ready" /\ s # "Ready" /\ fallbackMap[k] = sc
    \/ oldS # "Ready" /\ s = "Ready" /\ affinityMap[k] = sc

\* Mutant: a SubConn that stops being ready keeps the picker.
PickerOutdated_gainsOnly(oldS, s) ==
    \/ s = "Ready" /\ oldS # "Ready"
    \/ (state' = "TransientFailure") # (state = "TransientFailure")

PickerOutdated(oldS, s) ==
    \/ (s = "Ready") # (oldS = "Ready")
    \/ (state' = "TransientFailure") # (state = "TransientFailure")

\* Mutants: a closed SubConn is kept; a failing one is dropped.
LeavesPool_never(s) == FALSE
LeavesPool_failing(s) == s \in {"Shutdown", "TransientFailure"}

LeavesPool(s) == s = "Shutdown"

\* The part of the handler that known SubConns and finished refreshes share;
\* known and states are scRefs and scStates with the replacement moved in.
HandleStateChange(sc, oldS, s, known, states) ==
    /\ scRefs' = IF LeavesPool(s) THEN [known EXCEPT ![sc] = NoSubConn] ELSE known
    /\ scStates' = [states EXCEPT ![sc] = IF LeavesPool(s) THEN "none" ELSE s]
    /\ fallbackMap' = [k \in Key |-> IF DropsFallback(k, sc, oldS, s)
                                     THEN NoSubConn ELSE fallbackMap[k]]
    /\ csEvltr' = recordTransition(csEvltr, oldS, s)
    /\ state' = Aggregate(csEvltr')
    /\ IF PickerOutdated(oldS, s)
       THEN regeneratePicker /\ UpdateState
       ELSE UNCHANGED <<picker, cc>>
    /\ UNCHANGED <<scRefList, affinityMap>>

\* A subConnRef with its fresh SubConn.
Refreshed(ref, sc) ==
    [subConn |-> sc, affinityCnt |-> ref.affinityCnt, deCalls |-> 0,
     refreshing |-> FALSE, refreshCnt |-> ref.refreshCnt + 1]

\* The replacement of a refreshing subConnRef is ready and takes its place.
ReplaceSubConn(sc, s) ==
    LET ref == refreshingScRefs[sc]
        oldSc == refs[ref].subConn
        oldS == IF scStates[oldSc] = "none" THEN "Idle" ELSE scStates[oldSc]
    IN /\ refreshingScRefs' = [refreshingScRefs EXCEPT ![sc] = NoSubConn]
       /\ refs' = [refs EXCEPT ![ref] = Refreshed(@, sc)]
       /\ removed' = removed \cup {oldSc}
       /\ HandleStateChange(sc, oldS, s,
                            [scRefs EXCEPT ![oldSc] = NoSubConn, ![sc] = ref],
                            [scStates EXCEPT ![oldSc] = "none", ![sc] = oldS])

\* Mutant: a replacement that is still connecting is taken.
ReplacementUsable_connecting(s) == s \in {"Ready", "Connecting"}

ReplacementUsable(s) == s = "Ready"

\* Mutant: an Idle SubConn is left alone.
Reconnects_failing(s) == s = "TransientFailure"

Reconnects(s) == s = "Idle"

\* What the ClientConn may report next of a SubConn.  An Idle SubConn stays
\* so until it is asked to connect.
CanReport(sc, s) ==
    \/ conn[sc] = "Idle" /\ s = "Connecting" /\ sc \in wantConnect
    \/ conn[sc] = "Connecting" /\ s \in {"Ready", "TransientFailure", "Idle"}
    \/ conn[sc] = "Ready" /\ s \in {"Idle", "Connecting", "TransientFailure"}
    \/ conn[sc] = "TransientFailure" /\ s \in {"Idle", "Connecting"}
    \/ /\ conn[sc] \notin {"none", "Shutdown"} /\ s = "Shutdown"
       /\ sc \in removed \/ LiveShutdown

UpdateSubConnState(sc, s) ==
    /\ ~panicked /\ mu = "free"
    /\ CanReport(sc, s)
    /\ conn' = [conn EXCEPT ![sc] = s]
    /\ \/ /\ refreshingScRefs[sc] # NoSubConn /\ ~ReplacementUsable(s)
          /\ wantConnect' = wantConnect \ {sc}
          /\ UNCHANGED <<poolVars, keyVars, aggrVars, removed>>
       \/ /\ refreshingScRefs[sc] # NoSubConn /\ ReplacementUsable(s)
          /\ ReplaceSubConn(sc, s)
          /\ wantConnect' = wantConnect \ {sc}
       \/ /\ refreshingScRefs[sc] = NoSubConn /\ scStates[sc] = "none"
          /\ wantConnect' = wantConnect \ {sc}
          /\ UNCHANGED <<poolVars, keyVars, aggrVars, removed>>
       \/ /\ refreshingScRefs[sc] = NoSubConn /\ scStates[sc] # "none"
          /\ HandleStateChange(sc, scStates[sc], s, scRefs, scStates)
          /\ wantConnect' = IF Reconnects(s) THEN wantConnect \cup {sc} ELSE wantConnect \ {sc}
          /\ UNCHANGED <<refreshingScRefs, refs, removed>>
    /\ UNCHANGED <<mu, panicked, cfg, addrs, scAddrs>>

-----------------------------------------------------------------------------
(***************************************************************************)
(* The methods the picker calls.  An RPC exists only once a picker with    *)
(* ready channels has been published.                                      *)
(***************************************************************************)

ServesCalls == /\ ~panicked /\ mu = "free"
               /\ cc.served

\* The least busy subConnRefs are full and the pool may grow.
GrowPool ==
    /\ ServesCalls
    /\ newSubConn
    /\ UNCHANGED <<mu, panicked, cfg, addrs, keyVars, aggrVars>>

\* Mutant: refreshing is not checked again under the lock.
MayRefresh_unchecked(ref) == refs[ref].subConn # NoSubConn

MayRefresh(ref) == refs[ref].subConn # NoSubConn /\ ~refs[ref].refreshing

\* A refresh of ref; a failed NewSubConn leaves ref refreshing.
refresh(ref) ==
    /\ ServesCalls /\ cfg.unresponsiveDetection
    /\ MayRefresh(ref)
    /\ refs' = [refs EXCEPT ![ref].refreshing = TRUE]
    /\ \/ /\ CanFail
          /\ UNCHANGED <<refreshingScRefs, connVars>>
       \/ \E sc \in SubConn :
            /\ NewSubConn(sc)
            /\ refreshingScRefs' = [refreshingScRefs EXCEPT ![sc] = ref]
    /\ UNCHANGED <<mu, panicked, cfg, addrs, scRefs, scStates, scRefList, keyVars, aggrVars>>

Responded(ref) == [ref EXCEPT !.deCalls = 0, !.refreshCnt = 0]

gotResp(ref) ==
    /\ ServesCalls /\ cfg.unresponsiveDetection
    /\ refs[ref].subConn # NoSubConn
    /\ refs' = [refs EXCEPT ![ref] = Responded(@)]
    /\ UNCHANGED <<mu, panicked, cfg, addrs, scRefs, scStates, refreshingScRefs, scRefList,
                   keyVars, aggrVars, connVars>>

deCallsInc(ref) ==
    /\ ServesCalls /\ cfg.unresponsiveDetection
    /\ refs[ref].subConn # NoSubConn
    /\ refs[ref].deCalls < MaxCount
    /\ refs' = [refs EXCEPT ![ref].deCalls = @ + 1]
    /\ UNCHANGED <<mu, panicked, cfg, addrs, scRefs, scStates, refreshingScRefs, scRefList,
                   keyVars, aggrVars, connVars>>

\* sc was read from a subConnRef before gb.mu was taken.
bindSubConn(k, sc) ==
    /\ ServesCalls
    /\ sc \in Assigned
    /\ affinityMap' = [affinityMap EXCEPT ![k] = IF @ = NoSubConn THEN sc ELSE @]
    /\ \/ /\ sc \in Pool
          /\ refs[scRefs[sc]].affinityCnt < MaxCount
          /\ refs' = [refs EXCEPT ![scRefs[sc]].affinityCnt = @ + 1]
          /\ UNCHANGED panicked
       \/ /\ sc \notin Pool                          \* scRefs[sc] is nil
          /\ panicked' = TRUE
          /\ UNCHANGED refs
    /\ UNCHANGED <<mu, cfg, addrs, scRefs, scStates, refreshingScRefs, scRefList,
                   fallbackMap, aggrVars, connVars>>

unbindSubConn(k) ==
    /\ ServesCalls
    /\ affinityMap[k] # NoSubConn
    /\ \/ /\ affinityMap[k] \in Pool
          /\ refs' = [refs EXCEPT ![scRefs[affinityMap[k]]].affinityCnt = @ - 1]
          /\ affinityMap' = [affinityMap EXCEPT ![k] = NoSubConn]
          /\ UNCHANGED panicked
       \/ /\ affinityMap[k] \notin Pool              \* scRefs[boundSC] is nil
          /\ panicked' = TRUE
          /\ UNCHANGED <<refs, affinityMap>>
    /\ UNCHANGED <<mu, cfg, addrs, scRefs, scStates, refreshingScRefs, scRefList,
                   fallbackMap, aggrVars, connVars>>

\* The key is bound to a SubConn that is not ready and has no fallback yet.
NeedsFallback(k) ==
    /\ cfg.fallbackToReady
    /\ affinityMap[k] # NoSubConn
    /\ scStates[affinityMap[k]] # "Ready"
    /\ fallbackMap[k] = NoSubConn

\* getReadySubConnRef where it changes state: it asks gb.picker for the least
\* busy subConnRef.  gb.picker may no longer be a gcpPicker, or hold no ref; and
\* if all its refs are busy it asks for the pool size, which locks gb.mu again.
CreateFallback(k) ==
    /\ ServesCalls
    /\ NeedsFallback(k)
    /\ \/ /\ picker.kind # "gcpPicker" \/ picker.refs = {}
          /\ panicked' = TRUE
          /\ UNCHANGED <<mu, fallbackMap>>
       \/ \E ref \in picker.refs :
            /\ fallbackMap' = [fallbackMap EXCEPT ![k] = refs[ref].subConn]
            /\ UNCHANGED <<mu, panicked>>
       \/ /\ picker.refs # {}
          /\ mu' = "stuck"
          /\ UNCHANGED <<panicked, fallbackMap>>
    /\ UNCHANGED <<cfg, addrs, poolVars, affinityMap, aggrVars, connVars>>

\* What getReadySubConnRef returns for a bound key, when it needs no new fallback.
ReadySubConnRef(k) ==
    IF scStates[affinityMap[k]] = "Ready" THEN scRefs[affinityMap[k]]
    ELSE IF cfg.fallbackToReady /\ fallbackMap[k] # NoSubConn THEN scRefs[fallbackMap[k]]
    ELSE NoSubConn

-----------------------------------------------------------------------------
Next ==
    \/ UpdateClientConnState
    \/ enforceMinSize
    \/ MinSizeReached
    \/ \E sc \in SubConn, s \in ConnState : UpdateSubConnState(sc, s)
    \/ GrowPool
    \/ \E ref \in SubConn : refresh(ref) \/ gotResp(ref) \/ deCallsInc(ref)
    \/ \E k \in Key, sc \in SubConn : bindSubConn(k, sc)
    \/ \E k \in Key : unbindSubConn(k) \/ CreateFallback(k)

Spec == Init /\ [][Next]_vars

-----------------------------------------------------------------------------
(***************************************************************************)
(* Properties.                                                             *)
(***************************************************************************)

PickerType == [kind : {"errNoSubConnAvailable", "errTransientFailure", "gcpPicker"},
               refs : SUBSET SubConn]

RefType == [subConn : MaybeSubConn, affinityCnt : Int, deCalls : Nat,
            refreshing : BOOLEAN, refreshCnt : Nat]

ControlTypeOK ==
    /\ mu \in {"free", "enforceMinSize", "stuck"}
    /\ panicked \in BOOLEAN
    /\ cfg \in ConfigType \cup {NoConfig}
    /\ addrs \in Nat

PoolTypeOK ==
    /\ scRefs \in [SubConn -> MaybeSubConn]
    /\ scStates \in [SubConn -> (ConnState \ {"Shutdown"}) \cup {"none"}]
    /\ refreshingScRefs \in [SubConn -> MaybeSubConn]
    /\ refs \in [SubConn -> RefType]
    /\ scRefList \in Seq(SubConn)

KeyTypeOK ==
    /\ affinityMap \in [Key -> MaybeSubConn]
    /\ fallbackMap \in [Key -> MaybeSubConn]

AggrTypeOK ==
    /\ csEvltr \in [numReady : Int, numConnecting : Int, numTransientFailure : Int]
    /\ state \in ConnState
    /\ picker \in PickerType
    /\ cc \in [state : ConnState \cup {"none"}, picker : PickerType, served : BOOLEAN]

ConnTypeOK ==
    /\ conn \in [SubConn -> ConnState \cup {"none"}]
    /\ wantConnect \in SUBSET SubConn
    /\ scAddrs \in [SubConn -> Nat]
    /\ removed \in SUBSET SubConn

TypeOK == ControlTypeOK /\ PoolTypeOK /\ KeyTypeOK /\ AggrTypeOK /\ ConnTypeOK

InState(s) == {sc \in SubConn : scStates[sc] = s}

\* The counters of the connectivityStateEvaluator, which only ever see
\* differences, equal the number of SubConns of the pool in each state: through
\* refreshes that move a state from one SubConn to another and through shutdowns.
EvaluatorExact ==
    /\ csEvltr.numReady = Cardinality(InState("Ready"))
    /\ csEvltr.numConnecting = Cardinality(InState("Connecting"))
    /\ csEvltr.numTransientFailure = Cardinality(InState("TransientFailure"))

\* scRefs, scStates, refreshingScRefs and the subConn fields agree: each SubConn
\* of the pool is the subConn of its ref and has the state last reported for it;
\* a replacement is outside the pool, belongs to a refreshing ref, and is the
\* only one of that ref; and, unless NewSubConn fails, a refreshing ref has one.
RefsConsistent ==
    /\ \A sc \in Pool : refs[scRefs[sc]].subConn = sc
    /\ \A sc \in SubConn : scStates[sc] = IF sc \in Pool THEN conn[sc] ELSE "none"
    /\ \A sc \in SubConn : refreshingScRefs[sc] # NoSubConn =>
          /\ sc \notin Pool
          /\ refs[refreshingScRefs[sc]].refreshing
          /\ \A x \in SubConn : refreshingScRefs[x] = refreshingScRefs[sc] => x = sc
    /\ \A ref \in SubConn : refs[ref].refreshing =>
          CanFail \/ \E sc \in SubConn : refreshingScRefs[sc] = ref

\* The picker of the balancer offers exactly the ready channels, the ClientConn
\* has that picker and the state that goes with it, and the channel is reported
\* READY exactly when an RPC can be placed.
PickerCurrent ==
    /\ picker.refs = ReadyRefs
    /\ cc.state = "none" => ReadyRefs = {}
    /\ cc.state # "none" =>
          /\ cc.picker = picker
          /\ cc.state = state
          /\ (cc.state = "Ready") = (ReadyRefs # {})
          /\ (cc.state = "TransientFailure") = (picker.kind = "errTransientFailure")

\* A finished refresh takes no ready channel from the pool, and leaves the
\* refreshed channel ready (TestRefreshingSubConnsDoesNotAffectConnState).
RefreshKeepsReady ==
    [][\A ref \in SubConn : refs[ref].subConn \notin {NoSubConn, refs'[ref].subConn} =>
         ReadyRefs' = ReadyRefs \cup {ref}]_vars

\* No channel of the pool is left Idle: whatever the order of refreshes and
\* state changes, it has been asked to connect since it became Idle.
PoolReconnects == \A sc \in Pool : scStates[sc] = "Idle" => sc \in wantConnect

\* Without refreshes, every channel of the pool dials the latest addresses: the
\* one added while they changed too.  (A replacement being connected keeps the
\* old ones.)
AddrsCurrent ==
    (mu = "free" /\ cfg # NoConfig /\ ~cfg.unresponsiveDetection)
        => \A sc \in Pool : scAddrs[sc] = addrs

\* Without refreshes, a fallback SubConn is ready whenever the map has one.
FallbackReady ==
    (cfg # NoConfig /\ ~cfg.unresponsiveDetection)
        => \A k \in Key : fallbackMap[k] # NoSubConn => scStates[fallbackMap[k]] = "Ready"

\* Only refreshes and shutdowns can leave a key bound to a SubConn that has left
\* the pool, which getReadySubConnRef can never find ready again.
BoundInPool ==
    (cfg # NoConfig /\ ~cfg.unresponsiveDetection /\ ~LiveShutdown)
        => \A k \in Key : affinityMap[k] # NoSubConn => affinityMap[k] \in Pool

\* Keys never name a SubConn that cannot serve them again, nor one as a fallback
\* that is not ready, however bindings, fallbacks and state changes follow.
KeysUsable == BoundInPool /\ FallbackReady

\* The balancer neither panics nor locks itself out when neither refreshes,
\* fallbacks nor shutdowns of pool channels happen.
NoFault ==
    (panicked \/ mu = "stuck")
        => LiveShutdown \/ cfg.unresponsiveDetection \/ cfg.fallbackToReady

(***************************************************************************)
(* What the comments and docs say, and the code does not do.               *)
(***************************************************************************)

\* gcp_balancer.go:578-580: "When a SubConn enters Idle, the balancer will
\* immediately call sc.Connect()".
IdleReconnects ==
    \A sc \in SubConn : conn[sc] = "Idle" /\ sc \notin removed => sc \in wantConnect

\* gcp_balancer.go:162: refreshing is "If this subconn is in the process of
\* refreshing", that is, has a replacement on its way.
RefreshingHasReplacement ==
    \A ref \in SubConn : refs[ref].refreshing =>
        \E sc \in SubConn : refreshingScRefs[sc] = ref

\* gcp_balancer.go:158: affinityCnt is "the number of keys bound to the subConn".
AffinityCntExact ==
    \A sc \in Pool : refs[scRefs[sc]].affinityCnt =
                       Cardinality({k \in Key : affinityMap[k] = sc})

\* gcp_balancer.go:352-354: a nil subConnRef for a bound key "means the underlying
\* subconn is not READY yet"; so it must be one that can still become ready.
NilMeansNotReadyYet ==
    \A k \in Key : affinityMap[k] # NoSubConn /\ ReadySubConnRef(k) = NoSubConn
                     => affinityMap[k] \in Pool

\* gcp_balancer.go:426: "unbindSubConn removes the existing binding associated
\* with the key".
UnbindRemovesBinding ==
    [][\A k \in Key : unbindSubConn(k) => affinityMap'[k] = NoSubConn]_vars

\* grpc_gcp.proto:52-53: with fallback_to_ready an RPC goes "to another ready channel".
FallbackIsReady ==
    \A k \in Key : fallbackMap[k] # NoSubConn => scStates[fallbackMap[k]] = "Ready"

\* gcp_balancer.go:315: "newSubConn creates a new SubConn", but not for an update
\* that finds no channel in the pool; and gcp_balancer.go:368: "Try to create
\* fallback mapping" ends, if all channels are busy, in asking for the pool size.
\* Both lock gb.mu for the second time, and nobody gets it any more.
LockReleased == mu # "stuck"
=============================================================================
