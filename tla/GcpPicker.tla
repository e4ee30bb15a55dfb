------------------------------ MODULE GcpPicker ------------------------------
(***************************************************************************)
(* RPCs that pick a channel of the grpc_gcp balancer and give it back,     *)
(* src/grpcgcp/gcp_picker.go.  Concurrent Picks and Done callbacks call    *)
(* the methods of GcpBalancer, with the arguments the code really passes   *)
(* and at the point it passes them; state is read and used in the steps    *)
(* the locks allow.                                                        *)
(*                                                                         *)
(* p.mu is one lock per picker, not per balancer: a Pick on an old picker  *)
(* runs beside one on the current picker.  Pickers are told apart by a     *)
(* number, which is reused when no call holds it any more.                 *)
(*                                                                         *)
(* Time is abstracted: a call may exceed its deadline, and the window of   *)
(* unresponsiveWindow may have passed, at any moment.                      *)
(***************************************************************************)
EXTENDS GcpBalancer

CONSTANTS Call,          \* RPCs in flight
          ChannelPools,  \* the configurations, with what happens under them
          EmptyKey,      \* the key ""
          RRWidth        \* rrRefId is a counter modulo RRWidth, 2^32 in the code

Commands == {"NONE", "BOUND", "BIND", "UNBIND"}

ChannelPoolType ==
    [balancer : Configs,                      \* what GcpBalancer needs of it
     maxSize : Nat \ {0},                     \* max_size, or its default
     maxStreams : Nat \ {0},                  \* max_concurrent_streams_low_watermark, too
     unresponsiveCalls : Nat,                 \* unresponsive_calls
     roundRobin : BOOLEAN,                    \* bind_pick_strategy = ROUND_ROBIN
     commands : SUBSET Commands,              \* gb.methodCfg, "NONE" for no affinity
     keys : SUBSET Key,                       \* bound: the keys requests and replies hold
     reported : SUBSET ConnState]             \* bound: the states SubConns report

ASSUME CallAssumption == IsFiniteSet(Call) /\ Call # {}
ASSUME ChannelPoolsAssumption == ChannelPools \subseteq ChannelPoolType
ASSUME EmptyKeyAssumption == EmptyKey \in Key
ASSUME WidthAssumption == RRWidth \in Nat \ {0}

VARIABLES
    cp,         \* gb.cfg.GetChannelPool() and gb.methodCfg
    pickerId,   \* which picker gb.picker is
    streamsCnt, \* subConnRef.streamsCnt
    rrRefId,    \* gb.rrRefId
    calls       \* the locals of every RPC's Pick and callback

balancerVars == vars
pickerVars == <<balancerVars, cp, pickerId, streamsCnt, rrRefId, calls>>

(* Where a call is:
     "none"      not started, or over       "picked"   Pick has returned sc
     "lock"      before p.mu.Lock()         "running"  on the ready transport of sc
     "read"      before minStreamsCnt = ... "gotResp"  Done: before gotResp()
     "scan"      in the loop over p.scRefs  "count"    Done: before deCallsInc()
     "full"      all channels were full     "refresh"  Done: before gb.refresh(scRef)
     "grow"      before gb.newSubConn()     "affinity" Done: before reading scRef.subConn
     "waiting"   no picker chose a SubConn, "update"   Done: before bindSubConn, unbindSubConn
                 for the next picker        "roundRobin", "rrWait"  in getSubConnRoundRobin
     "fbRead", "fbScan"  as "read" and "scan", for a fallback and with gb.mu held *)
FallbackPCs == {"fbRead", "fbScan"}
ChoosingPCs == {"read", "scan", "full", "grow"}
LockingPCs == ChoosingPCs \cup FallbackPCs
OfferedPCs == LockingPCs \cup {"lock"}
HoldingPCs == {"picked", "running"}
DonePCs == {"gotResp", "count", "refresh", "affinity", "update"}
PCs == {"none", "waiting", "roundRobin", "rrWait"} \cup OfferedPCs \cup HoldingPCs \cup DonePCs

NoCall == [pc |-> "none", cmd |-> "NONE", key |-> NoSubConn, id |-> 0, refs |-> {},
           left |-> {}, ref |-> NoSubConn, cnt |-> 0, sc |-> NoSubConn,
           late |-> FALSE, ok |-> FALSE, retry |-> FALSE]

InUse == {calls[c].id : c \in {x \in Call : calls[x].pc # "none"}}
FreeId == CHOOSE i \in 0..Cardinality(Call) : i \notin InUse

PickerInit ==
    /\ Init
    /\ cp \in ChannelPools
    /\ pickerId = 0
    /\ streamsCnt = [ref \in SubConn |-> 0]
    /\ rrRefId = RRWidth - 1
    /\ calls = [c \in Call |-> NoCall]

-----------------------------------------------------------------------------
(***************************************************************************)
(* The balancer's own events.                                              *)
(***************************************************************************)

\* A Pick holds gb.mu while it looks for a fallback.
Searching == \E x \in Call : calls[x].pc \in FallbackPCs

MuFree == mu = "free" /\ ~Searching

\* gb.picker is a new picker whenever it was regenerated.
NewPickerId == pickerId' = IF picker' = picker THEN pickerId ELSE FreeId

\* ref.lastResp = time.Now(): calls on ref started before it.
Late(call) == [call EXCEPT !.late = TRUE]

Responding(f, ref) ==
    [c \in Call |-> IF f[c].ref = ref /\ f[c].pc \in HoldingPCs THEN Late(f[c]) ELSE f[c]]

ClientConnUpdate ==
    /\ \/ UpdateClientConnState /\ ~Searching /\ cfg' \in {cfg, initializeConfig(cp.balancer)}
       \/ enforceMinSize
       \/ MinSizeReached
    /\ UNCHANGED <<cp, pickerId, streamsCnt, rrRefId, calls>>

\* What is still reported of a removed SubConn is ignored, and left out.
SubConnUpdate(sc, s) ==
    /\ sc \notin removed /\ MuFree
    /\ UpdateSubConnState(sc, s)
    /\ NewPickerId
    /\ calls' = IF refreshingScRefs'[sc] = refreshingScRefs[sc] THEN calls
                ELSE Responding(calls, refreshingScRefs[sc])
    /\ UNCHANGED <<cp, streamsCnt, rrRefId>>

-----------------------------------------------------------------------------
(***************************************************************************)
(* Pick.                                                                   *)
(***************************************************************************)

\* A step of c that ends in the given locals and leaves the balancer alone.
Local(c, call) ==
    /\ ~panicked
    /\ calls' = [calls EXCEPT ![c] = call]
    /\ UNCHANGED <<balancerVars, cp, pickerId>>

Quietly(c, call) == Local(c, call) /\ UNCHANGED <<streamsCnt, rrRefId>>

\* The ClientConn calls Pick on the published picker: gb.picker by PickerCurrent.
UsesPicker(call) ==
    [call EXCEPT !.id = pickerId, !.refs = picker.refs,
                 !.pc = IF call.cmd = "BIND" /\ cp.roundRobin THEN "roundRobin" ELSE "lock"]

\* Pickers without channels return ErrNoSubConnAvailable or an error at once.
StartCall(c, cmd, k) ==
    /\ calls[c].pc = "none"
    /\ cc.served /\ picker.refs # {}
    /\ cmd \in cp.commands
    /\ k \in IF cmd = "NONE" THEN {NoSubConn} ELSE cp.keys
    /\ Quietly(c, UsesPicker([NoCall EXCEPT !.cmd = cmd, !.key = k]))

\* Mutant: no lock.
Locked_never(call) == FALSE

\* p.mu of the call's picker.
Locked(call) == \E x \in Call : calls[x].pc \in LockingPCs /\ calls[x].id = call.id

ServedBy(ref) == refs[ref].subConn

\* Mutant: getSubConnRoundRobin is used without streamsIncr.
Acquired_noBind(n, call) == IF call.cmd = "BIND" THEN n ELSE n + 1

Acquired(n, call) == n + 1

\* streamsIncr, and Pick returns the SubConn of ref.
Picked(c, ref) ==
    /\ streamsCnt' = [streamsCnt EXCEPT ![ref] = Acquired(@, calls[c])]
    /\ calls' = [calls EXCEPT ![c] = [@ EXCEPT !.pc = "picked", !.ref = ref, !.sc = ServedBy(ref),
                                               !.left = {}, !.cnt = 0, !.late = FALSE]]
    /\ UNCHANGED <<cp, pickerId, rrRefId>>

PicksRef(c, ref) == ~panicked /\ Picked(c, ref) /\ UNCHANGED balancerVars

\* Pick returns ErrNoSubConnAvailable: the RPC waits for the next picker.
Waits(call) == [call EXCEPT !.pc = "waiting", !.refs = {}, !.left = {}, !.ref = NoSubConn, !.cnt = 0]

\* The key "" counts as none when a channel is picked.
HasBoundKey(call) ==
    /\ call.cmd \in {"BOUND", "UNBIND"} /\ call.key # EmptyKey
    /\ affinityMap[call.key] # NoSubConn

\* The channel for the bound key of the call, if one is ready.
PickBound(c) ==
    LET ref == ReadySubConnRef(calls[c].key)
    IN /\ HasBoundKey(calls[c]) /\ ~NeedsFallback(calls[c].key)
       /\ IF ref = NoSubConn THEN Quietly(c, Waits(calls[c])) ELSE PicksRef(c, ref)

\* getLeastBusySubConnRef begins with the first of refSet.
Begins(c, pc, refSet) ==
    \E ref \in refSet : Quietly(c, [calls[c] EXCEPT !.pc = pc, !.left = refSet, !.ref = ref])

\* getReadySubConnRef keeps gb.mu, and searches gb.picker, not the call's picker.
PickFallback(c) ==
    /\ HasBoundKey(calls[c]) /\ NeedsFallback(calls[c].key)
    /\ \/ picker.kind = "gcpPicker" /\ Begins(c, "fbRead", picker.refs)
       \/ /\ CreateFallback(calls[c].key) /\ panicked'
          /\ UNCHANGED <<cp, pickerId, streamsCnt, rrRefId, calls>>

StartScan(c) == ~HasBoundKey(calls[c]) /\ Begins(c, "read", calls[c].refs)

\* p.mu.Lock() and, with a key, getReadySubConnRef.
LockPicker(c) ==
    /\ calls[c].pc = "lock"
    /\ MuFree
    /\ ~Locked(calls[c])
    /\ PickBound(c) \/ PickFallback(c) \/ StartScan(c)

\* minStreamsCnt = minScRef.getStreamsCnt().
ReadCount(c) ==
    /\ calls[c].pc \in {"read", "fbRead"}
    /\ Quietly(c, [calls[c] EXCEPT !.pc = IF @ = "read" THEN "scan" ELSE "fbScan",
                                   !.cnt = streamsCnt[calls[c].ref]])

\* The loop starts with scRefs[0], which was chosen before it.
Comes(call, ref) ==
    /\ ref \in call.left
    /\ call.left = (IF call.pc = "scan" THEN call.refs ELSE picker.refs) => ref = call.ref

\* The loop reads the counters one after the other, and that of a channel that is
\* less busy a second time.
ScanRef(c, ref) ==
    /\ calls[c].pc \in {"scan", "fbScan"}
    /\ Comes(calls[c], ref)
    /\ Quietly(c, IF streamsCnt[ref] < calls[c].cnt
                  THEN [calls[c] EXCEPT !.pc = IF @ = "scan" THEN "read" ELSE "fbRead",
                                        !.left = @ \ {ref}, !.ref = ref]
                  ELSE [calls[c] EXCEPT !.left = @ \ {ref}])

EndScan(c) ==
    /\ calls[c].pc = "scan" /\ calls[c].left = {}
    /\ IF calls[c].cnt < cp.maxStreams THEN PicksRef(c, calls[c].ref)
                                       ELSE Quietly(c, [calls[c] EXCEPT !.pc = "full"])

\* A fallback, or the second lock of gb.mu.
EndFallback(c) ==
    /\ calls[c].pc = "fbScan" /\ calls[c].left = {}
    /\ CreateFallback(calls[c].key)
    /\ IF calls[c].cnt < cp.maxStreams
       THEN fallbackMap'[calls[c].key] = refs[calls[c].ref].subConn /\ Picked(c, calls[c].ref)
       ELSE mu' = "stuck" /\ UNCHANGED <<cp, pickerId, streamsCnt, rrRefId, calls>>

\* Mutant: max_size is not looked at.
MayGrow_always == TRUE

MayGrow == Cardinality(Pool) < cp.maxSize

\* getConnectionPoolSize, which releases gb.mu before newSubConn takes it again.
CheckSize(c) ==
    /\ calls[c].pc = "full" /\ MuFree
    /\ IF MayGrow THEN Quietly(c, [calls[c] EXCEPT !.pc = "grow"])
                  ELSE PicksRef(c, calls[c].ref)

Grow(c) ==
    /\ calls[c].pc = "grow" /\ MuFree
    /\ GrowPool
    /\ calls' = [calls EXCEPT ![c] = Waits(@)]
    /\ UNCHANGED <<cp, pickerId, streamsCnt, rrRefId>>

\* The next picker is tried; an RPC gives up on its own or on errTransientFailure.
NextPicker(c) ==
    /\ calls[c].pc = "waiting"
    /\ \/ /\ pickerId # calls[c].id /\ picker.refs # {}
          /\ Quietly(c, UsesPicker([NoCall EXCEPT !.cmd = calls[c].cmd, !.key = calls[c].key]))
       \/ Quietly(c, NoCall)

\* getSubConnRoundRobin: the next channel, once it is ready.
RoundRobin(c) ==
    LET next == (rrRefId + 1) % RRWidth
        ref == scRefList[(next % Len(scRefList)) + 1]
    IN /\ calls[c].pc = "roundRobin" /\ MuFree
       /\ Local(c, [calls[c] EXCEPT !.pc = "rrWait", !.ref = ref, !.refs = {}])
       /\ rrRefId' = next
       /\ UNCHANGED streamsCnt

\* The channel is ready, or the RPC's context is done.
RoundRobinReady(c) ==
    /\ calls[c].pc = "rrWait" /\ MuFree
    /\ PicksRef(c, calls[c].ref)

-----------------------------------------------------------------------------
(***************************************************************************)
(* The RPC and its Done callback.                                          *)
(***************************************************************************)

\* Mutant: the stream is not counted off when the RPC fails.
Released_okOnly(n, call) == IF call.ok THEN n - 1 ELSE n

Released(n, call) == n - 1

\* What the callback does after detectUnresponsive.
Affinity(call) ==
    IF call.ok /\ call.cmd \in {"BIND", "UNBIND"} THEN [call EXCEPT !.pc = "affinity"]
    ELSE IF call.retry THEN Waits([call EXCEPT !.retry = FALSE, !.ok = FALSE])
    ELSE NoCall

\* The callback up to the first use of the balancer.
Done(c, call, deadline) ==
    /\ Local(c, IF ~cfg.unresponsiveDetection THEN Affinity(call)
                ELSE IF ~deadline THEN [call EXCEPT !.pc = "gotResp"]
                ELSE IF call.late THEN NoCall
                ELSE [call EXCEPT !.pc = "count"])
    /\ streamsCnt' = [streamsCnt EXCEPT ![call.ref] = Released(@, call)]
    /\ UNCHANGED rrRefId

Outcome(c, ok, retry) == [calls[c] EXCEPT !.ok = ok, !.retry = retry, !.refs = {}, !.sc = NoSubConn]

\* The ClientConn sends the RPC if sc is ready; if not, or if sc is being torn
\* down after RemoveSubConn, it calls Done with no error and waits for the next
\* picker.
Place(c) ==
    /\ calls[c].pc = "picked"
    /\ \/ /\ conn[calls[c].sc] = "Ready"
          /\ Quietly(c, [calls[c] EXCEPT !.pc = "running"])
       \/ /\ conn[calls[c].sc] # "Ready" \/ calls[c].sc \in removed
          /\ Done(c, Outcome(c, TRUE, TRUE), FALSE)

\* The RPC succeeds, fails, or exceeds its deadline.
Finish(c) ==
    /\ calls[c].pc = "running"
    /\ \/ \E ok \in BOOLEAN : Done(c, Outcome(c, ok, FALSE), FALSE)
       \/ Done(c, Outcome(c, FALSE, FALSE), TRUE)

GotResp(c) ==
    /\ calls[c].pc = "gotResp"
    /\ gotResp(calls[c].ref)
    /\ calls' = Responding([calls EXCEPT ![c] = Affinity(@)], calls[c].ref)
    /\ UNCHANGED <<cp, pickerId, streamsCnt, rrRefId>>

\* deCallsInc, and whether it leads to a refresh.
Count(c) ==
    /\ calls[c].pc = "count"
    /\ deCallsInc(calls[c].ref)
    /\ \/ /\ refs'[calls[c].ref].deCalls >= cp.unresponsiveCalls
          /\ calls' = [calls EXCEPT ![c].pc = "refresh"]
       \/ calls' = [calls EXCEPT ![c] = NoCall]
    /\ UNCHANGED <<cp, pickerId, streamsCnt, rrRefId>>

Refresh(c) ==
    /\ calls[c].pc = "refresh" /\ MuFree
    /\ \/ refresh(calls[c].ref)
       \/ ~panicked /\ ~MayRefresh(calls[c].ref) /\ UNCHANGED balancerVars
    /\ calls' = [calls EXCEPT ![c] = NoCall]
    /\ UNCHANGED <<cp, pickerId, streamsCnt, rrRefId>>

\* A call that was never sent has an empty reply.
Unanswered(call) == call.cmd = "BIND" /\ call.retry

\* No key is found in an empty reply, or the key "" in one with a string on top.
ReadSubConn(c) ==
    /\ calls[c].pc = "affinity"
    /\ \/ Unanswered(calls[c]) /\ Quietly(c, Affinity([calls[c] EXCEPT !.ok = FALSE]))
       \/ /\ Unanswered(calls[c]) => EmptyKey \in cp.keys
          /\ Quietly(c, [calls[c] EXCEPT !.pc = "update", !.sc = refs[calls[c].ref].subConn])

RepliedKey(call) == IF call.retry THEN EmptyKey ELSE call.key

\* A missing key leaves unbindSubConn nothing to do.
UpdateAffinity(c) ==
    /\ calls[c].pc = "update" /\ MuFree
    /\ \/ calls[c].cmd = "BIND" /\ bindSubConn(RepliedKey(calls[c]), calls[c].sc)
       \/ calls[c].cmd = "UNBIND" /\ unbindSubConn(calls[c].key)
       \/ /\ calls[c].cmd = "UNBIND" /\ affinityMap[calls[c].key] = NoSubConn
          /\ ~panicked /\ UNCHANGED balancerVars
    /\ calls' = [calls EXCEPT ![c] = Affinity([@ EXCEPT !.ok = FALSE, !.sc = NoSubConn])]
    /\ UNCHANGED <<cp, pickerId, streamsCnt, rrRefId>>

-----------------------------------------------------------------------------
CallNext(c) ==
    \/ \E cmd \in Commands, k \in Key \cup {NoSubConn} : StartCall(c, cmd, k)
    \/ LockPicker(c)
    \/ ReadCount(c)
    \/ \E ref \in SubConn : ScanRef(c, ref)
    \/ EndScan(c)
    \/ EndFallback(c)
    \/ CheckSize(c)
    \/ Grow(c)
    \/ NextPicker(c)
    \/ RoundRobin(c)
    \/ RoundRobinReady(c)
    \/ Place(c)
    \/ Finish(c)
    \/ GotResp(c)
    \/ Count(c)
    \/ Refresh(c)
    \/ ReadSubConn(c)
    \/ UpdateAffinity(c)

PickerNext ==
    \/ ClientConnUpdate
    \/ \E sc \in SubConn, s \in cp.reported : SubConnUpdate(sc, s)
    \/ \E c \in Call : CallNext(c)

PickerSpec == PickerInit /\ [][PickerNext]_pickerVars

-----------------------------------------------------------------------------
(***************************************************************************)
(* Properties.                                                             *)
(***************************************************************************)

CallType == [pc : PCs, cmd : Commands, key : Key \cup {NoSubConn}, id : 0..Cardinality(Call),
             refs : SUBSET SubConn, left : SUBSET SubConn, ref : MaybeSubConn, cnt : Nat,
             sc : MaybeSubConn, late : BOOLEAN, ok : BOOLEAN, retry : BOOLEAN]

\* The types, and what each place in the code may rely on: a channel that was
\* chosen where one is used, and a SubConn where one is returned or bound.
PickerTypeOK ==
    /\ cp \in ChannelPools
    /\ pickerId \in 0..Cardinality(Call)
    /\ streamsCnt \in [SubConn -> Nat]
    /\ rrRefId \in 0..(RRWidth - 1)
    /\ calls \in [Call -> CallType]
    /\ \A c \in Call :
          /\ calls[c].pc \in {"rrWait"} \cup LockingPCs \cup HoldingPCs \cup DonePCs => calls[c].ref # NoSubConn
          /\ calls[c].pc \in HoldingPCs \cup {"update"} => calls[c].sc # NoSubConn

\* streamsCnt of a channel is the number of RPCs that were given the channel and
\* have not called Done: over retries, failures and refreshes no stream is lost
\* or counted off twice.
StreamsExact ==
    \A ref \in SubConn :
        streamsCnt[ref] = Cardinality({c \in Call : calls[c].pc \in HoldingPCs /\ calls[c].ref = ref})

\* Waiting for a picker with something to offer, when none has come since.
Blocked(c) == calls[c].pc = "waiting" /\ (calls[c].id = pickerId \/ picker.refs = {})

\* An RPC that was sent back to wait for a picker will be woken by one: without
\* refreshes, failing NewSubConn calls and shutdowns, some channel of the pool is
\* still to become ready.
WaitingWillWake ==
    (cfg # NoConfig /\ ~cfg.unresponsiveDetection /\ ~CanFail /\ ~LiveShutdown)
        => \A c \in Call : Blocked(c) => \E sc \in Pool : scStates[sc] # "Ready"

\* While the pool may grow, one picker never puts more RPCs without affinity on
\* a channel than the low watermark: counting and choosing are under its lock.
WatermarkPerPicker ==
    MayGrow /\ ~LiveShutdown =>
        \A ref \in SubConn, i \in 0..Cardinality(Call) :
            Cardinality({c \in Call : /\ calls[c].pc \in HoldingPCs /\ calls[c].ref = ref
                                      /\ calls[c].id = i /\ calls[c].cmd = "NONE"})
                <= cp.maxStreams

PoolLimit == IF initializeConfig(cp.balancer).minSize > cp.maxSize
             THEN initializeConfig(cp.balancer).minSize ELSE cp.maxSize

\* max_size can be overrun, because the size is checked and the SubConn added
\* under different holds of gb.mu; but by no more than one SubConn for every RPC
\* beyond two: one that keeps the channels busy and one that adds the last channel.
PoolBounded ==
    ~LiveShutdown =>
        Cardinality(Pool) + Cardinality({c \in Call : calls[c].pc = "grow"})
            <= PoolLimit + (IF Cardinality(Call) < 2 THEN 0 ELSE Cardinality(Call) - 2)

\* The two limits of the configuration, as far as the locks keep them.
LimitsKept == WatermarkPerPicker /\ PoolBounded

\* A channel picked, from an old picker too and right after a refresh, is handed
\* out with the SubConn it has in the pool.
PicksInPool ==
    [][~LiveShutdown =>
         \A c \in Call : calls[c].pc # "picked" /\ calls'[c].pc = "picked" => calls'[c].sc \in Pool']_pickerVars

\* The pool as RPCs see it: its channels are the subConnRefs that have a SubConn.
Options == [fallbackToReady |-> cp.balancer.fallbackToReady, roundRobin |-> cp.roundRobin]

LiveRefs == {ref \in SubConn : refs[ref].subConn # NoSubConn}

\* The key "" binds no RPC to a channel.
BoundKeys == {k \in Key \ {EmptyKey} : affinityMap[k] # NoSubConn}

HomeOf == [k \in Key |-> IF k \in BoundKeys THEN scRefs[affinityMap[k]] ELSE NoSubConn]

\* What an RPC asks for, which channel it is on, and whether its callback is
\* still to bind or unbind a key.
RpcOf(call) ==
    [cmd |-> call.cmd, key |-> call.key,
     offered |-> IF call.pc \in OfferedPCs THEN call.refs ELSE {},
     free |-> call.pc \in ChoosingPCs]

OnOf(call) == IF call.pc \in HoldingPCs THEN call.ref ELSE NoSubConn

Binds(call) ==
    call.key # EmptyKey /\ (call.cmd = "UNBIND" \/ (call.cmd = "BIND" /\ ~call.retry))

DueOf(call) == IF call.pc \in DonePCs /\ call.ok /\ Binds(call) THEN call.ref ELSE NoSubConn

RpcView == [c \in Call |-> RpcOf(calls[c])]
OnView == [c \in Call |-> OnOf(calls[c])]
DueView == [c \in Call |-> DueOf(calls[c])]

Promise == INSTANCE AffinityPool WITH
    Channel <- SubConn, None <- NoSubConn,
    options <- Options, channels <- LiveRefs, ready <- ReadyRefs,
    bound <- BoundKeys, home <- HomeOf, rpc <- RpcView, on <- OnView, due <- DueView

\* RPCs go on the channels, and keys stay bound to them, as AffinityPool says:
\* whichever pickers concurrent Picks use, while channels come and go under them.
ImplementsAffinityPool == Promise!APSpec

(***************************************************************************)
(* What the comments and docs say, and the code does not do.               *)
(***************************************************************************)

\* grpc_gcp.proto:36: max_size is "The max number of channels in the pool".
MaxSizeKept == Cardinality(Pool) <= PoolLimit

\* gcp_balancer.go:415: "bindSubConn binds the given affinity key to an existing
\* subConnRef", but the one of the SubConn may have gone since it was read.
BindFindsRef ==
    \A c \in Call : calls[c].pc = "update" /\ calls[c].cmd = "BIND" => calls[c].sc \in Pool

\* grpc_gcp.proto:61: a channel is refreshed if ">= unresponsive_calls RPC calls
\* (started after last response from the server) timed-out".
RefreshJustified ==
    [][\A ref \in SubConn : ~refs[ref].refreshing /\ refs'[ref].refreshing
         => refs[ref].deCalls >= cp.unresponsiveCalls]_pickerVars

\* grpc_gcp.proto:63-64: "The calls on the old connection will not be interrupted":
\* an RPC without a bound key is not left waiting when all channels are ready.
RefreshStrandsNoCall ==
    \A c \in Call : Blocked(c) /\ calls[c].cmd = "NONE"
                      => \E sc \in Pool : scStates[sc] # "Ready"
=============================================================================
