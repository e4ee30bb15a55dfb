--------------------------- MODULE GcpPicker_proofs ---------------------------
(***************************************************************************)
(* Proofs about GcpPicker, for any number of RPCs: every step of it is one *)
(* GcpBalancer allows, so the theorems about the balancer hold under the   *)
(* calls the code makes; streams are counted exactly; the limits of the    *)
(* configuration hold as far as the locks keep them; no RPC waits for a    *)
(* picker that will not come; and the whole implements AffinityPool.       *)
(***************************************************************************)
EXTENDS GcpPicker, GcpBalancer_proofs

-----------------------------------------------------------------------------
(***************************************************************************)
(* What the picker relies on in the balancer.                              *)
(***************************************************************************)

ListLive ==
    /\ \A i \in DOMAIN scRefList : scRefList[i] \in LiveRefs
    /\ LiveRefs # {} => scRefList # <<>>

BInv == IInv /\ EvaluatorExact /\ PInv /\ FInv /\ ListLive

\* Refs stay alive.
LEMMA LiveGrows ==
    ASSUME IInv, IInv', ListLive, [Next]_vars
    PROVE  LiveRefs \subseteq LiveRefs' /\ ListLive'
<1> USE SubConnAssumption
<1>0. /\ refs \in [SubConn -> RefType]
      /\ scRefList \in Seq(SubConn)
  BY DEF IInv, TypeOK, PoolTypeOK
<1> DEFINE Kept == LiveRefs' = LiveRefs /\ scRefList' = scRefList
<1>1. CASE UpdateClientConnState \/ MinSizeReached \/ UNCHANGED vars
  <2>1. Kept
    BY <1>1, ConfigSteps DEF LiveRefs, poolVars, vars
  <2> QED
    BY <2>1 DEF ListLive
<1>2. CASE addSubConn
  <2>1. CASE UNCHANGED <<poolVars, connVars>>
    BY <2>1 DEF ListLive, LiveRefs, poolVars
  <2>2. ASSUME NEW sc \in SubConn,
               refs' = [refs EXCEPT ![sc] = NewRef(sc)],
               scRefList' = Append(scRefList, sc)
        PROVE  LiveRefs \subseteq LiveRefs' /\ ListLive'
    <3>1. LiveRefs' = LiveRefs \cup {sc}
      BY <1>0, <2>2 DEF LiveRefs, NewRef
    <3> QED
      BY <1>0, <2>2, <3>1 DEF ListLive
  <2> QED
    BY <1>2, <2>1, <2>2 DEF addSubConn
<1>3. CASE (enforceMinSize \/ GrowPool) /\ UNCHANGED <<poolVars, connVars>>
  BY <1>3 DEF ListLive, LiveRefs, poolVars
<1>4. ASSUME NEW sc \in SubConn, NEW s \in ConnState, UpdateSubConnState(sc, s)
      PROVE  LiveRefs \subseteq LiveRefs' /\ ListLive'
  <2>1. scRefList' = scRefList
    BY <1>4 DEF UpdateSubConnState, ReplaceSubConn, HandleStateChange, poolVars
  <2>2. CASE Ignored(sc) \/ Recorded(sc, s)
    BY <2>1, <2>2 DEF Ignored, Recorded, LiveRefs, ListLive, poolVars
  <2>3. ASSUME NEW ref \in SubConn, NEW oldSc \in SubConn, Replaced(sc, ref, oldSc)
        PROVE  LiveRefs' = LiveRefs
    BY <1>0, <2>3 DEF LiveRefs, Replaced, Refreshed
  <2> QED
    BY <1>4, <2>1, <2>2, <2>3, ReportSteps DEF ListLive
<1>5. ASSUME NEW ref \in SubConn, refresh(ref) PROVE Kept
  BY <1>5, RefreshSteps DEF LiveRefs, refresh
<1>6. ASSUME Bookkeeping PROVE Kept
  BY <1>6, BookkeepingSteps DEF LiveRefs
<1> QED
  BY <1>1, <1>2, <1>3, <1>4, <1>5, <1>6, Steps DEF Stepping, enforceMinSize, GrowPool, newSubConn, ListLive

LEMMA BInit == Init => BInv
BY InitIInv, InitCounts, InitPicker, FInit DEF BInv, ListLive, LiveRefs, Init, NewRef

LEMMA BNext == BInv /\ [Next]_vars => BInv' /\ LiveRefs \subseteq LiveRefs'
BY NextIInv, NextCounts, NextPInv, FNext, LiveGrows DEF BInv

\* A picker offers, and the maps lead to, living refs.
LEMMA LiveOffered ==
    ASSUME BInv
    PROVE  /\ LiveRefs \subseteq SubConn
           /\ picker.refs \subseteq LiveRefs
           /\ \A sc \in SubConn : scRefs[sc] # NoSubConn => scRefs[sc] \in LiveRefs
<1> USE SubConnAssumption DEF BInv, IInv
<1>1. \A sc \in SubConn : scRefs[sc] # NoSubConn => scRefs[sc] \in LiveRefs
  BY DEF LiveRefs, Linked, RefsConsistent, Pool, TypeOK, PoolTypeOK, MaybeSubConn
<1>2. picker.refs \subseteq LiveRefs
  <2>1. \A sc \in SubConn : scStates[sc] = "Ready" => sc \in Pool
    BY DEF Linked, RefsConsistent
  <2> QED
    BY <1>1, <2>1 DEF PInv, PickerCurrent, ReadyRefs, Pool
<1> QED
  BY <1>1, <1>2 DEF LiveRefs

-----------------------------------------------------------------------------
(***************************************************************************)
(* The locals of one RPC.                                                  *)
(***************************************************************************)

LocalsOK(call, live) ==
    /\ call \in CallType
    /\ call.cmd # "NONE" => call.key \in Key
    /\ call.pc \in FallbackPCs => call.cmd # "NONE"
    /\ call.refs \subseteq live /\ call.left \subseteq live
    /\ call.ref \in live \cup {NoSubConn}
    /\ call.pc = "lock" => call.refs # {}
    /\ call.pc \in {"rrWait"} \cup LockingPCs \cup HoldingPCs \cup DonePCs => call.ref # NoSubConn
    /\ call.pc \in HoldingPCs \cup {"update"} => call.sc # NoSubConn
    /\ call.pc = "roundRobin" => live # {}

LEMMA CallCount == Cardinality(Call) \in Nat
BY CallAssumption, FS_CardinalityType

LEMMA NoCallOK == \A live : LocalsOK(NoCall, live)
BY CallCount DEF LocalsOK, CallType, NoCall, PCs, OfferedPCs, LockingPCs,
   ChoosingPCs, FallbackPCs, Commands, HoldingPCs, DonePCs, MaybeSubConn

LEMMA LocalsGrow ==
    ASSUME NEW call, NEW live, NEW more, live \subseteq more, LocalsOK(call, live)
    PROVE  LocalsOK(call, more)
BY DEF LocalsOK

LEMMA LateOK == ASSUME NEW call, NEW live, LocalsOK(call, live) PROVE LocalsOK(Late(call), live)
BY DEF LocalsOK, CallType, Late

LEMMA WaitsOK ==
    ASSUME NEW call \in CallType, NEW live, call.cmd # "NONE" => call.key \in Key
    PROVE  LocalsOK(Waits(call), live) /\ Waits(call).pc = "waiting"
BY DEF LocalsOK, CallType, Waits, PCs, OfferedPCs, LockingPCs, ChoosingPCs,
     FallbackPCs, HoldingPCs, DonePCs, MaybeSubConn

LEMMA UsesPickerOK ==
    ASSUME BInv, pickerId \in 0..Cardinality(Call), picker.refs # {},
           NEW cmd \in Commands, NEW k \in Key \cup {NoSubConn}, cmd # "NONE" => k \in Key
    PROVE  LocalsOK(UsesPicker([NoCall EXCEPT !.cmd = cmd, !.key = k]), LiveRefs)
<1>1. picker.refs \subseteq LiveRefs /\ LiveRefs \subseteq SubConn
  BY LiveOffered
<1> QED
  BY <1>1, CallCount DEF LocalsOK, CallType, UsesPicker, NoCall, PCs, OfferedPCs, LockingPCs,
     ChoosingPCs, FallbackPCs, Commands, HoldingPCs, DonePCs, MaybeSubConn

LEMMA AffinityOK ==
    ASSUME NEW call, NEW live, LocalsOK(call, live), call.ref # NoSubConn
    PROVE  LocalsOK(Affinity(call), live)
<1>1. LocalsOK([call EXCEPT !.pc = "affinity"], live)
  BY DEF LocalsOK, CallType, PCs, OfferedPCs, LockingPCs, ChoosingPCs,
     FallbackPCs, HoldingPCs, DonePCs
<1>2. [call EXCEPT !.retry = FALSE, !.ok = FALSE] \in CallType
  BY DEF LocalsOK, CallType
<1>3. call.cmd # "NONE" => [call EXCEPT !.retry = FALSE, !.ok = FALSE].key \in Key
  BY DEF LocalsOK, CallType
<1>4. [call EXCEPT !.retry = FALSE, !.ok = FALSE].cmd = call.cmd
  BY DEF LocalsOK, CallType
<1>5. LocalsOK(Waits([call EXCEPT !.retry = FALSE, !.ok = FALSE]), live)
  BY <1>2, <1>3, <1>4, WaitsOK
<1> QED
  BY <1>1, <1>5, NoCallOK DEF Affinity

-----------------------------------------------------------------------------
(***************************************************************************)
(* The steps of one RPC.                                                   *)
(***************************************************************************)

PkInv ==
    /\ BInv
    /\ cp \in ChannelPools
    /\ pickerId \in 0..Cardinality(Call)
    /\ rrRefId \in 0..(RRWidth - 1)
    /\ streamsCnt \in [SubConn -> Nat]
    /\ calls = [c \in Call |-> calls[c]]
    /\ \A c \in Call : LocalsOK(calls[c], LiveRefs)
    /\ StreamsExact

\* An RPC that goes from the locals call to the locals new has its stream counted.
StreamCounted(call, new) ==
    \/ /\ UNCHANGED streamsCnt
       /\ call.pc \in HoldingPCs <=> new.pc \in HoldingPCs
       /\ call.pc \in HoldingPCs => new.ref = call.ref
    \/ /\ call.pc \notin HoldingPCs /\ new.pc \in HoldingPCs
       /\ new.ref \in SubConn
       /\ streamsCnt' = [streamsCnt EXCEPT ![new.ref] = @ + 1]
    \/ /\ call.pc \in HoldingPCs /\ new.pc \notin HoldingPCs
       /\ call.ref \in SubConn
       /\ streamsCnt' = [streamsCnt EXCEPT ![call.ref] = @ - 1]

\* An RPC that picks is given the SubConn of its ref.
ServedByRef(call, new) ==
    call.pc # "picked" /\ new.pc = "picked" => /\ new.ref \in LiveRefs
                                               /\ new.sc = refs[new.ref].subConn

\* The others are at most late.
OthersStay(c, new) ==
    /\ calls' = [x \in Call |-> calls'[x]]
    /\ calls'[c] = new
    /\ \A x \in Call \ {c} : calls'[x] = calls[x] \/ calls'[x] = Late(calls[x])

Moves(c, new) ==
    /\ LocalsOK(new, LiveRefs)
    /\ StreamCounted(calls[c], new)
    /\ ServedByRef(calls[c], new)
    /\ OthersStay(c, new)

LEMMA CallSet ==
    ASSUME PkInv, NEW c \in Call, NEW new, calls' = [calls EXCEPT ![c] = new]
    PROVE  OthersStay(c, new)
BY DEF PkInv, OthersStay

LEMMA QuietMoves ==
    ASSUME PkInv, NEW c \in Call, NEW new, Quietly(c, new),
           LocalsOK(new, LiveRefs),
           \/ calls[c].pc \notin HoldingPCs /\ new.pc \notin HoldingPCs
           \/ calls[c].pc = "picked" /\ new.pc = "running" /\ new.ref = calls[c].ref
    PROVE  Moves(c, new)
<1>1. OthersStay(c, new)
  BY CallSet DEF Quietly, Local
<1> QED
  BY <1>1 DEF Moves, Quietly, StreamCounted, ServedByRef, HoldingPCs

LEMMA PickMoves ==
    ASSUME PkInv, NEW c \in Call, NEW ref \in LiveRefs, Picked(c, ref),
           calls[c].pc \notin HoldingPCs
    PROVE  \E new : Moves(c, new)
<1> DEFINE new == [calls[c] EXCEPT !.pc = "picked", !.ref = ref, !.sc = ServedBy(ref),
                                   !.left = {}, !.cnt = 0, !.late = FALSE]
<1>0. LocalsOK(calls[c], LiveRefs) /\ LiveRefs \subseteq SubConn
  BY DEF PkInv, LiveRefs
<1>1. refs[ref].subConn \in SubConn
  BY DEF LiveRefs, PkInv, BInv, IInv, TypeOK, PoolTypeOK, RefType, MaybeSubConn
<1>2. LocalsOK(new, LiveRefs) /\ new.pc = "picked" /\ new.ref = ref /\ new.sc = refs[ref].subConn
  <2>1. new \in CallType
    BY <1>0, <1>1 DEF LocalsOK, CallType, PCs, OfferedPCs, LockingPCs, ChoosingPCs,
     FallbackPCs, HoldingPCs, DonePCs, MaybeSubConn, ServedBy
  <2>2. /\ new.pc = "picked" /\ new.ref = ref /\ new.sc = refs[ref].subConn /\ new.left = {}
        /\ new.cmd = calls[c].cmd /\ new.key = calls[c].key /\ new.refs = calls[c].refs
    BY <1>0 DEF LocalsOK, CallType, ServedBy
  <2> HIDE DEF new
  <2> QED
    BY <1>0, <1>1, <2>1, <2>2, SubConnAssumption DEF LocalsOK, FallbackPCs, HoldingPCs, DonePCs
<1>3. calls' = [calls EXCEPT ![c] = new] /\ streamsCnt' = [streamsCnt EXCEPT ![ref] = @ + 1]
  BY DEF Picked, Acquired, PkInv
<1> HIDE DEF new
<1>4. OthersStay(c, new)
  BY <1>3, CallSet
<1>5. StreamCounted(calls[c], new)
  BY <1>0, <1>2, <1>3 DEF StreamCounted, HoldingPCs
<1> QED
  BY <1>2, <1>4, <1>5 DEF Moves, ServedByRef

LEMMA DoneMoves ==
    ASSUME PkInv, NEW c \in Call, NEW ok \in BOOLEAN, NEW retry \in BOOLEAN, NEW deadline \in BOOLEAN,
           calls[c].pc \in HoldingPCs,
           Done(c, Outcome(c, ok, retry), deadline)
    PROVE  \E new : Moves(c, new)
<1> DEFINE call == Outcome(c, ok, retry)
           new == IF ~cfg.unresponsiveDetection THEN Affinity(call)
                  ELSE IF ~deadline THEN [call EXCEPT !.pc = "gotResp"]
                  ELSE IF call.late THEN NoCall
                  ELSE [call EXCEPT !.pc = "count"]
<1>0. LocalsOK(calls[c], LiveRefs) /\ calls[c].ref # NoSubConn
  BY DEF PkInv, LocalsOK
<1>1. call.ref = calls[c].ref /\ call.pc = calls[c].pc /\ calls[c].ref \in SubConn
  BY <1>0 DEF Outcome, LocalsOK, CallType, LiveRefs
<1>2. call \in CallType /\ LocalsOK([call EXCEPT !.pc = "gotResp"], LiveRefs)
      /\ LocalsOK([call EXCEPT !.pc = "count"], LiveRefs) /\ LocalsOK([call EXCEPT !.pc = "affinity"], LiveRefs)
  BY <1>0 DEF Outcome, LocalsOK, CallType, PCs, OfferedPCs, LockingPCs, ChoosingPCs,
     FallbackPCs, HoldingPCs, DonePCs, MaybeSubConn
<1> HIDE DEF call
<1>3. LocalsOK(Affinity(call), LiveRefs) /\ Affinity(call).pc \notin HoldingPCs
  <2> DEFINE again == [call EXCEPT !.retry = FALSE, !.ok = FALSE]
  <2>1. again \in CallType /\ again.cmd = call.cmd /\ again.key = call.key
    BY <1>2 DEF CallType
  <2>2. call.cmd # "NONE" => call.key \in Key
    BY <1>0 DEF call, Outcome, LocalsOK, CallType
  <2>3. [call EXCEPT !.pc = "affinity"].pc = "affinity" /\ NoCall.pc = "none"
    BY <1>2 DEF CallType, NoCall
  <2>4. LocalsOK(Waits(again), LiveRefs) /\ Waits(again).pc = "waiting"
    <3> HIDE DEF again
    <3> QED
      BY <2>1, <2>2, WaitsOK
  <2> QED
    BY <1>2, <2>3, <2>4, NoCallOK DEF Affinity, HoldingPCs
<1>4. LocalsOK(new, LiveRefs) /\ new.pc \notin HoldingPCs
  <2>1. /\ [call EXCEPT !.pc = "gotResp"].pc = "gotResp"
        /\ [call EXCEPT !.pc = "count"].pc = "count"
        /\ NoCall.pc = "none"
    BY <1>2 DEF CallType, NoCall
  <2> QED
    BY <1>2, <1>3, <2>1, NoCallOK DEF HoldingPCs
<1>5. calls' = [calls EXCEPT ![c] = new]
      /\ streamsCnt' = [streamsCnt EXCEPT ![calls[c].ref] = @ - 1]
  BY <1>1 DEF Done, Local, Released, call
<1> HIDE DEF new
<1>6. OthersStay(c, new)
  BY <1>5, CallSet
<1> QED
  BY <1>1, <1>4, <1>5, <1>6 DEF Moves, StreamCounted, ServedByRef, HoldingPCs

SomeMove(c) == \E new : Moves(c, new)

LEMMA UsesPickerMoves ==
    ASSUME PkInv, NEW c \in Call, calls[c].pc \notin HoldingPCs, picker.refs # {},
           NEW cmd \in Commands, NEW k \in Key \cup {NoSubConn}, cmd # "NONE" => k \in Key,
           Quietly(c, UsesPicker([NoCall EXCEPT !.cmd = cmd, !.key = k]))
    PROVE  SomeMove(c)
<1> DEFINE new == UsesPicker([NoCall EXCEPT !.cmd = cmd, !.key = k])
<1>1. LocalsOK(new, LiveRefs)
  BY UsesPickerOK DEF PkInv
<1>2. new.pc \notin HoldingPCs
  BY DEF UsesPicker, NoCall, HoldingPCs
<1> HIDE DEF new
<1>3. Moves(c, new)
  BY <1>1, <1>2, QuietMoves DEF new
<1> QED
  BY <1>3 DEF SomeMove

LEMMA WaitsMoves ==
    ASSUME PkInv, NEW c \in Call, calls[c].pc \notin HoldingPCs, Quietly(c, Waits(calls[c]))
    PROVE  SomeMove(c)
<1>1. calls[c] \in CallType /\ (calls[c].cmd # "NONE" => calls[c].key \in Key)
  BY DEF PkInv, LocalsOK
<1>2. LocalsOK(Waits(calls[c]), LiveRefs) /\ Waits(calls[c]).pc = "waiting"
  BY <1>1, WaitsOK
<1>3. Moves(c, Waits(calls[c]))
  BY <1>2, QuietMoves DEF HoldingPCs
<1> QED
  BY <1>3 DEF SomeMove

LEMMA NoCallMoves ==
    ASSUME PkInv, NEW c \in Call, calls[c].pc \notin HoldingPCs, Quietly(c, NoCall)
    PROVE  SomeMove(c)
<1>1. Moves(c, NoCall)
  BY NoCallOK, QuietMoves DEF NoCall, HoldingPCs
<1> QED
  BY <1>1 DEF SomeMove

LEMMA StartCallMoves ==
    ASSUME PkInv, NEW c \in Call, NEW cmd \in Commands, NEW k \in Key \cup {NoSubConn},
           StartCall(c, cmd, k)
    PROVE  SomeMove(c)
<1>1. cmd # "NONE" => k \in Key
  BY ChannelPoolsAssumption DEF StartCall, PkInv, ChannelPoolType
<1> QED
  BY <1>1, UsesPickerMoves DEF StartCall, HoldingPCs

LEMMA PickBoundMoves ==
    ASSUME PkInv, NEW c \in Call, calls[c].pc = "lock", PickBound(c)
    PROVE  SomeMove(c)
<1> DEFINE k == calls[c].key
           ref == ReadySubConnRef(k)
<1>1. k \in Key
  BY DEF PickBound, HasBoundKey, PkInv, LocalsOK
<1>2. affinityMap[k] \in SubConn /\ fallbackMap[k] \in SubConn \cup {NoSubConn}
  BY <1>1 DEF PickBound, HasBoundKey, PkInv, BInv, IInv, TypeOK, KeyTypeOK, MaybeSubConn
<1>3. ref = NoSubConn \/ ref \in LiveRefs
  BY <1>2, LiveOffered DEF ReadySubConnRef, PkInv
<1>4. CASE ref = NoSubConn
  BY <1>4, WaitsMoves DEF PickBound, HoldingPCs
<1>5. CASE ref # NoSubConn
  BY <1>3, <1>5, PickMoves DEF PickBound, PicksRef, HoldingPCs, SomeMove
<1> QED
  BY <1>4, <1>5

\* The locals of c stay as they are.
LEMMA StayMoves ==
    ASSUME PkInv, NEW c \in Call, UNCHANGED <<streamsCnt, calls>>
    PROVE  SomeMove(c)
<1>1. Moves(c, calls[c])
  BY DEF PkInv, Moves, StreamCounted, ServedByRef, OthersStay
<1> QED
  BY <1>1 DEF SomeMove

LEMMA BeginsMoves ==
    ASSUME PkInv, NEW c \in Call, NEW pc \in {"read", "fbRead"}, NEW refSet, refSet \subseteq LiveRefs,
           calls[c].pc = "lock", pc = "fbRead" => calls[c].cmd # "NONE", Begins(c, pc, refSet)
    PROVE  SomeMove(c)
<1>1. PICK ref \in refSet : Quietly(c, [calls[c] EXCEPT !.pc = pc, !.left = refSet, !.ref = ref])
  BY DEF Begins
<1> DEFINE new == [calls[c] EXCEPT !.pc = pc, !.left = refSet, !.ref = ref]
<1>2. LocalsOK(calls[c], LiveRefs) /\ LiveRefs \subseteq SubConn
  BY DEF PkInv, LiveRefs
<1>3. LocalsOK(new, LiveRefs) /\ new.pc = pc
  <2>1. /\ new.pc = pc /\ new.left = refSet /\ new.ref = ref
        /\ new.refs = calls[c].refs /\ new.cmd = calls[c].cmd /\ new.key = calls[c].key
    BY <1>2 DEF LocalsOK, CallType
  <2>2. new \in CallType
    BY <1>2 DEF LocalsOK, CallType, PCs, OfferedPCs, LockingPCs, ChoosingPCs, FallbackPCs, MaybeSubConn
  <2> HIDE DEF new
  <2> QED
    BY <1>2, <2>1, <2>2, SubConnAssumption DEF LocalsOK, FallbackPCs, HoldingPCs, DonePCs
<1> HIDE DEF new
<1>4. Moves(c, new)
  BY <1>1, <1>3, QuietMoves DEF HoldingPCs, new
<1> QED
  BY <1>4 DEF SomeMove

LEMMA PickFallbackMoves ==
    ASSUME PkInv, NEW c \in Call, calls[c].pc = "lock", PickFallback(c)
    PROVE  SomeMove(c)
<1>1. picker.refs \subseteq LiveRefs
  BY LiveOffered DEF PkInv
<1> QED
  BY <1>1, BeginsMoves, StayMoves DEF PickFallback, HasBoundKey

LEMMA StartScanMoves ==
    ASSUME PkInv, NEW c \in Call, calls[c].pc = "lock", StartScan(c)
    PROVE  SomeMove(c)
<1>1. calls[c].refs \subseteq LiveRefs
  BY DEF PkInv, LocalsOK
<1> QED
  BY <1>1, BeginsMoves DEF StartScan

LEMMA ReadCountMoves ==
    ASSUME PkInv, NEW c \in Call, ReadCount(c)
    PROVE  SomeMove(c)
<1> DEFINE new == [calls[c] EXCEPT !.pc = IF @ = "read" THEN "scan" ELSE "fbScan",
                                   !.cnt = streamsCnt[calls[c].ref]]
<1>1. /\ LocalsOK(calls[c], LiveRefs) /\ calls[c].pc \in {"read", "fbRead"}
      /\ streamsCnt[calls[c].ref] \in Nat
  BY DEF PkInv, ReadCount, LocalsOK, LockingPCs, ChoosingPCs, FallbackPCs, LiveRefs
<1>2. LocalsOK(new, LiveRefs) /\ new.pc \in {"scan", "fbScan"}
  BY <1>1 DEF LocalsOK, CallType, PCs, OfferedPCs, LockingPCs, ChoosingPCs, FallbackPCs,
     HoldingPCs, DonePCs
<1> HIDE DEF new
<1>3. Moves(c, new)
  BY <1>1, <1>2, QuietMoves DEF ReadCount, HoldingPCs, new
<1> QED
  BY <1>3 DEF SomeMove

LEMMA ScanRefMoves ==
    ASSUME PkInv, NEW c \in Call, NEW ref \in SubConn, ScanRef(c, ref)
    PROVE  SomeMove(c)
<1> DEFINE next == [calls[c] EXCEPT !.pc = IF @ = "scan" THEN "read" ELSE "fbRead",
                                    !.left = @ \ {ref}, !.ref = ref]
           same == [calls[c] EXCEPT !.left = @ \ {ref}]
<1>1. /\ LocalsOK(calls[c], LiveRefs) /\ calls[c].pc \in {"scan", "fbScan"}
      /\ ref \in LiveRefs /\ ref # NoSubConn
  BY SubConnAssumption DEF PkInv, ScanRef, Comes, LocalsOK
<1>2. LocalsOK(next, LiveRefs) /\ next.pc \in {"read", "fbRead"}
  BY <1>1 DEF LocalsOK, CallType, PCs, OfferedPCs, LockingPCs, ChoosingPCs, FallbackPCs,
     HoldingPCs, DonePCs, MaybeSubConn
<1>3. LocalsOK(same, LiveRefs) /\ same.pc = calls[c].pc
  BY <1>1 DEF LocalsOK, CallType, PCs, OfferedPCs, LockingPCs, ChoosingPCs, FallbackPCs,
     HoldingPCs, DonePCs, MaybeSubConn
<1> HIDE DEF next, same
<1>4. CASE Quietly(c, next)
  <2>1. Moves(c, next)
    BY <1>1, <1>2, <1>4, QuietMoves DEF HoldingPCs
  <2> QED
    BY <2>1 DEF SomeMove
<1>5. CASE Quietly(c, same)
  <2>1. Moves(c, same)
    BY <1>1, <1>3, <1>5, QuietMoves DEF HoldingPCs
  <2> QED
    BY <2>1 DEF SomeMove
<1> QED
  BY <1>4, <1>5 DEF ScanRef, next, same

LEMMA EndFallbackMoves ==
    ASSUME PkInv, NEW c \in Call, EndFallback(c)
    PROVE  SomeMove(c)
<1>1. calls[c].ref \in LiveRefs /\ calls[c].pc = "fbScan"
  BY DEF PkInv, EndFallback, LocalsOK, LockingPCs, FallbackPCs
<1>2. CASE Picked(c, calls[c].ref)
  BY <1>1, <1>2, PickMoves DEF HoldingPCs, SomeMove
<1>3. CASE UNCHANGED <<streamsCnt, calls>>
  BY <1>3, StayMoves
<1> QED
  BY <1>2, <1>3 DEF EndFallback

LEMMA EndScanMoves ==
    ASSUME PkInv, NEW c \in Call, EndScan(c)
    PROVE  SomeMove(c)
<1> DEFINE new == [calls[c] EXCEPT !.pc = "full"]
<1>1. /\ LocalsOK(calls[c], LiveRefs) /\ calls[c].pc = "scan"
      /\ calls[c].ref \in LiveRefs /\ calls[c].ref # NoSubConn
  BY DEF PkInv, EndScan, LocalsOK, LockingPCs, ChoosingPCs
<1>2. LocalsOK(new, LiveRefs) /\ new.pc = "full"
  BY <1>1 DEF LocalsOK, CallType, PCs, OfferedPCs, LockingPCs, ChoosingPCs,
     FallbackPCs, HoldingPCs, DonePCs
<1> HIDE DEF new
<1>3. CASE Quietly(c, new)
  <2>1. Moves(c, new)
    BY <1>1, <1>2, <1>3, QuietMoves DEF HoldingPCs
  <2> QED
    BY <2>1 DEF SomeMove
<1>4. CASE PicksRef(c, calls[c].ref)
  BY <1>1, <1>4, PickMoves DEF PicksRef, HoldingPCs, SomeMove
<1> QED
  BY <1>3, <1>4 DEF EndScan, new

LEMMA CheckSizeMoves ==
    ASSUME PkInv, NEW c \in Call, CheckSize(c)
    PROVE  SomeMove(c)
<1> DEFINE new == [calls[c] EXCEPT !.pc = "grow"]
<1>1. /\ LocalsOK(calls[c], LiveRefs) /\ calls[c].pc = "full"
      /\ calls[c].ref \in LiveRefs /\ calls[c].ref # NoSubConn
  BY DEF PkInv, CheckSize, LocalsOK, LockingPCs, ChoosingPCs
<1>2. LocalsOK(new, LiveRefs) /\ new.pc = "grow"
  BY <1>1 DEF LocalsOK, CallType, PCs, OfferedPCs, LockingPCs, ChoosingPCs,
     FallbackPCs, HoldingPCs, DonePCs
<1> HIDE DEF new
<1>3. CASE Quietly(c, new)
  <2>1. Moves(c, new)
    BY <1>1, <1>2, <1>3, QuietMoves DEF HoldingPCs
  <2> QED
    BY <2>1 DEF SomeMove
<1>4. CASE PicksRef(c, calls[c].ref)
  BY <1>1, <1>4, PickMoves DEF PicksRef, HoldingPCs, SomeMove
<1> QED
  BY <1>3, <1>4 DEF CheckSize, new

\* A step that sets the locals of c, to something that holds no stream.
LEMMA SetMoves ==
    ASSUME PkInv, NEW c \in Call, NEW new, calls' = [calls EXCEPT ![c] = new],
           UNCHANGED streamsCnt, LocalsOK(new, LiveRefs),
           calls[c].pc \notin HoldingPCs, new.pc \notin HoldingPCs
    PROVE  SomeMove(c)
<1>1. OthersStay(c, new)
  BY CallSet
<1>2. Moves(c, new)
  BY <1>1 DEF Moves, StreamCounted, ServedByRef, HoldingPCs
<1> QED
  BY <1>2 DEF SomeMove

LEMMA GrowMoves ==
    ASSUME PkInv, NEW c \in Call, Grow(c)
    PROVE  SomeMove(c)
<1>1. calls[c] \in CallType /\ (calls[c].cmd # "NONE" => calls[c].key \in Key)
  BY DEF PkInv, LocalsOK
<1>2. LocalsOK(Waits(calls[c]), LiveRefs) /\ Waits(calls[c]).pc = "waiting"
  BY <1>1, WaitsOK
<1> QED
  BY <1>2, SetMoves DEF Grow, HoldingPCs

LEMMA NextPickerMoves ==
    ASSUME PkInv, NEW c \in Call, NextPicker(c)
    PROVE  SomeMove(c)
<1>1. /\ calls[c].cmd \in Commands /\ calls[c].key \in Key \cup {NoSubConn}
      /\ calls[c].cmd # "NONE" => calls[c].key \in Key
  BY DEF PkInv, LocalsOK, CallType
<1> QED
  BY <1>1, UsesPickerMoves, NoCallMoves DEF NextPicker, HoldingPCs

LEMMA RoundRobinMoves ==
    ASSUME PkInv, NEW c \in Call, RoundRobin(c)
    PROVE  SomeMove(c) /\ rrRefId' \in 0..(RRWidth - 1)
<1> DEFINE next == (rrRefId + 1) % RRWidth
           i == (next % Len(scRefList)) + 1
           ref == scRefList[i]
           new == [calls[c] EXCEPT !.pc = "rrWait", !.ref = ref, !.refs = {}]
<1>1. LocalsOK(calls[c], LiveRefs) /\ calls[c].pc = "roundRobin"
  BY DEF PkInv, RoundRobin
<1>2. next \in 0..(RRWidth - 1)
  <2>1. RRWidth \in Nat /\ RRWidth > 0 /\ rrRefId + 1 \in Nat
    BY WidthAssumption DEF PkInv
  <2> QED
    BY <2>1
<1>3. scRefList \in Seq(SubConn) /\ scRefList # <<>>
  BY <1>1 DEF PkInv, BInv, IInv, TypeOK, PoolTypeOK, ListLive, LocalsOK
<1>4. ref \in LiveRefs
  <2>1. Len(scRefList) \in Nat /\ Len(scRefList) > 0 /\ DOMAIN scRefList = 1..Len(scRefList)
    BY <1>3
  <2>2. next \in Nat
    BY <1>2
  <2> HIDE DEF next
  <2>3. i \in 1..Len(scRefList)
    BY <2>1, <2>2
  <2> HIDE DEF i
  <2> QED
    BY <2>1, <2>3 DEF PkInv, BInv, ListLive
<1> HIDE DEF i, ref
<1>5. ref \in SubConn /\ ref # NoSubConn
  BY <1>4, SubConnAssumption DEF LiveRefs
<1>6. LocalsOK(new, LiveRefs) /\ new.pc = "rrWait"
  BY <1>1, <1>4, <1>5 DEF LocalsOK, CallType, PCs, OfferedPCs, LockingPCs, ChoosingPCs,
     FallbackPCs, HoldingPCs, DonePCs, MaybeSubConn
<1>7. calls' = [calls EXCEPT ![c] = new] /\ rrRefId' = next /\ UNCHANGED streamsCnt
  BY DEF RoundRobin, Local, ref, i
<1> HIDE DEF new, next
<1> QED
  BY <1>1, <1>2, <1>6, <1>7, SetMoves DEF HoldingPCs

LEMMA RoundRobinReadyMoves ==
    ASSUME PkInv, NEW c \in Call, RoundRobinReady(c)
    PROVE  SomeMove(c)
<1>1. calls[c].ref \in LiveRefs
  BY DEF PkInv, RoundRobinReady, LocalsOK
<1> QED
  BY <1>1, PickMoves DEF RoundRobinReady, PicksRef, HoldingPCs, SomeMove

LEMMA PlaceMoves ==
    ASSUME PkInv, NEW c \in Call, Place(c)
    PROVE  SomeMove(c)
<1> DEFINE new == [calls[c] EXCEPT !.pc = "running"]
<1>1. LocalsOK(calls[c], LiveRefs) /\ calls[c].pc = "picked"
  BY DEF PkInv, Place
<1>2. LocalsOK(new, LiveRefs) /\ new.pc = "running" /\ new.ref = calls[c].ref
  BY <1>1 DEF LocalsOK, CallType, PCs, OfferedPCs, LockingPCs, ChoosingPCs,
     FallbackPCs, HoldingPCs, DonePCs
<1> HIDE DEF new
<1>3. CASE Quietly(c, new)
  <2>1. Moves(c, new)
    BY <1>1, <1>2, <1>3, QuietMoves
  <2> QED
    BY <2>1 DEF SomeMove
<1>4. CASE Done(c, Outcome(c, TRUE, TRUE), FALSE)
  BY <1>1, <1>4, DoneMoves DEF HoldingPCs, SomeMove
<1> QED
  BY <1>3, <1>4 DEF Place, new

LEMMA FinishMoves ==
    ASSUME PkInv, NEW c \in Call, Finish(c)
    PROVE  SomeMove(c)
<1>1. calls[c].pc \in HoldingPCs
  BY DEF Finish, HoldingPCs
<1> QED
  BY <1>1, DoneMoves DEF Finish, SomeMove

\* The callback is over, or the RPC that was not sent waits for a picker.
LEMMA AffinityEnds ==
    ASSUME NEW call \in CallType, NEW live, ~call.ok, call.cmd # "NONE" => call.key \in Key
    PROVE  LocalsOK(Affinity(call), live) /\ Affinity(call).pc \in {"waiting", "none"}
<1> DEFINE again == [call EXCEPT !.retry = FALSE, !.ok = FALSE]
<1>1. again \in CallType /\ again.cmd = call.cmd /\ again.key = call.key
  BY DEF CallType
<1>2. LocalsOK(Waits(again), live) /\ Waits(again).pc = "waiting"
  <2> HIDE DEF again
  <2> QED
    BY <1>1, WaitsOK
<1>3. LocalsOK(NoCall, live) /\ NoCall.pc = "none"
  BY NoCallOK DEF NoCall
<1> QED
  BY <1>2, <1>3 DEF Affinity

LEMMA GotRespMoves ==
    ASSUME PkInv, NEW c \in Call, GotResp(c)
    PROVE  SomeMove(c)
<1> DEFINE new == Affinity(calls[c])
           next == [calls EXCEPT ![c] = new]
<1>1. LocalsOK(calls[c], LiveRefs) /\ calls[c].pc = "gotResp" /\ calls[c].ref # NoSubConn
  BY DEF PkInv, GotResp, LocalsOK, DonePCs
<1>2. LocalsOK(new, LiveRefs)
  BY <1>1, AffinityOK
<1>3. new.pc \notin HoldingPCs
  <2>1. [calls[c] EXCEPT !.pc = "affinity"].pc = "affinity" /\ NoCall.pc = "none"
    BY <1>1 DEF LocalsOK, CallType, NoCall
  <2>2. Waits([calls[c] EXCEPT !.retry = FALSE, !.ok = FALSE]).pc = "waiting"
    BY <1>1 DEF LocalsOK, CallType, Waits
  <2> QED
    BY <2>1, <2>2 DEF Affinity, HoldingPCs
<1>4. calls' = Responding(next, calls[c].ref) /\ UNCHANGED streamsCnt
  BY DEF GotResp
<1>5. next[c] = new /\ \A x \in Call \ {c} : next[x] = calls[x]
  <2> HIDE DEF new
  <2> QED
    BY DEF PkInv
<1> HIDE DEF new, next
<1>6. OthersStay(c, new)
  BY <1>3, <1>4, <1>5 DEF OthersStay, Responding
<1>7. Moves(c, new)
  BY <1>1, <1>2, <1>3, <1>4, <1>6 DEF Moves, StreamCounted, ServedByRef, HoldingPCs
<1> QED
  BY <1>7 DEF SomeMove

LEMMA CountMoves ==
    ASSUME PkInv, NEW c \in Call, Count(c)
    PROVE  SomeMove(c)
<1> DEFINE new == [calls[c] EXCEPT !.pc = "refresh"]
<1>1. LocalsOK(calls[c], LiveRefs) /\ calls[c].pc = "count"
  BY DEF PkInv, Count
<1>2. LocalsOK(new, LiveRefs) /\ new.pc = "refresh"
  BY <1>1 DEF LocalsOK, CallType, PCs, OfferedPCs, LockingPCs, ChoosingPCs,
     FallbackPCs, HoldingPCs, DonePCs
<1>3. calls' = [calls EXCEPT ![c] = new] \/ calls' = [calls EXCEPT ![c] = NoCall]
  BY DEF Count
<1>4. UNCHANGED streamsCnt
  BY DEF Count
<1>5. LocalsOK(NoCall, LiveRefs) /\ NoCall.pc = "none"
  BY NoCallOK DEF NoCall
<1> HIDE DEF new
<1> QED
  BY <1>1, <1>2, <1>3, <1>4, <1>5, SetMoves DEF HoldingPCs

LEMMA RefreshMoves ==
    ASSUME PkInv, NEW c \in Call, Refresh(c)
    PROVE  SomeMove(c)
<1>1. LocalsOK(NoCall, LiveRefs) /\ NoCall.pc = "none"
  BY NoCallOK DEF NoCall
<1> QED
  BY <1>1, SetMoves DEF Refresh, HoldingPCs

LEMMA ReadSubConnMoves ==
    ASSUME PkInv, NEW c \in Call, ReadSubConn(c)
    PROVE  SomeMove(c)
<1> DEFINE failed == [calls[c] EXCEPT !.ok = FALSE]
           new == [calls[c] EXCEPT !.pc = "update", !.sc = refs[calls[c].ref].subConn]
<1>1. LocalsOK(calls[c], LiveRefs) /\ calls[c].pc = "affinity" /\ calls[c].ref \in LiveRefs
  BY DEF PkInv, ReadSubConn, LocalsOK, DonePCs
<1>2. refs[calls[c].ref].subConn \in SubConn
  BY <1>1 DEF LiveRefs, PkInv, BInv, IInv, TypeOK, PoolTypeOK, RefType, MaybeSubConn
<1>3. LocalsOK(new, LiveRefs) /\ new.pc = "update"
  BY <1>1, <1>2, SubConnAssumption DEF LocalsOK, CallType, PCs, OfferedPCs, LockingPCs, ChoosingPCs,
     FallbackPCs, HoldingPCs, DonePCs,
     MaybeSubConn
<1>4. failed \in CallType /\ ~failed.ok /\ failed.cmd = calls[c].cmd /\ failed.key = calls[c].key
  BY <1>1 DEF LocalsOK, CallType
<1> HIDE DEF failed, new
<1>5. LocalsOK(Affinity(failed), LiveRefs) /\ Affinity(failed).pc \in {"waiting", "none"}
  BY <1>1, <1>4, AffinityEnds DEF LocalsOK
<1>6. /\ calls' = [calls EXCEPT ![c] = new] \/ calls' = [calls EXCEPT ![c] = Affinity(failed)]
      /\ UNCHANGED streamsCnt
  BY DEF ReadSubConn, Quietly, Local, failed, new
<1> QED
  BY <1>1, <1>3, <1>5, <1>6, SetMoves DEF HoldingPCs

LEMMA UpdateAffinityMoves ==
    ASSUME PkInv, NEW c \in Call, UpdateAffinity(c)
    PROVE  SomeMove(c)
<1> DEFINE done == [calls[c] EXCEPT !.ok = FALSE, !.sc = NoSubConn]
<1>1. LocalsOK(calls[c], LiveRefs) /\ calls[c].pc = "update"
  BY DEF PkInv, UpdateAffinity
<1>2. done \in CallType /\ ~done.ok /\ done.cmd = calls[c].cmd /\ done.key = calls[c].key
  BY <1>1 DEF LocalsOK, CallType, MaybeSubConn
<1>3. calls' = [calls EXCEPT ![c] = Affinity(done)] /\ UNCHANGED streamsCnt
  BY DEF UpdateAffinity
<1> HIDE DEF done
<1>4. LocalsOK(Affinity(done), LiveRefs) /\ Affinity(done).pc \in {"waiting", "none"}
  BY <1>1, <1>2, AffinityEnds DEF LocalsOK
<1> QED
  BY <1>1, <1>3, <1>4, SetMoves DEF HoldingPCs

-----------------------------------------------------------------------------
(***************************************************************************)
(* Every step is one the balancer allows.                                  *)
(***************************************************************************)

LEMMA CallIsBalancerStep ==
    ASSUME PkInv, NEW c \in Call, CallNext(c)
    PROVE  [Next]_vars
<1> USE DEF balancerVars
<1>0. LocalsOK(calls[c], LiveRefs)
  BY DEF PkInv
<1>1. calls[c].pc \in DonePCs => calls[c].ref \in SubConn
  BY <1>0 DEF LocalsOK, LiveRefs
<1>2. calls[c].cmd # "NONE" => calls[c].key \in Key
  BY <1>0 DEF LocalsOK
<1>3. CASE UNCHANGED vars
  BY <1>3
<1>4. CASE LockPicker(c)
  <2>1. CASE PickBound(c)
    BY <2>1 DEF PickBound, Quietly, Local, PicksRef
  <2>2. CASE PickFallback(c)
    BY <1>2, <2>2 DEF PickFallback, Begins, HasBoundKey, Next, Quietly, Local
  <2>3. CASE StartScan(c)
    BY <2>3 DEF StartScan, Begins, Quietly, Local
  <2> QED
    BY <1>4, <2>1, <2>2, <2>3 DEF LockPicker
<1>5. CASE Grow(c)
  BY <1>5 DEF Grow, Next
<1>6. CASE GotResp(c)
  BY <1>1, <1>6 DEF GotResp, Next, DonePCs
<1>7. CASE Count(c)
  BY <1>1, <1>7 DEF Count, Next, DonePCs
<1>8. CASE Refresh(c)
  BY <1>1, <1>3, <1>8 DEF Refresh, Next, DonePCs
<1>9. CASE UpdateAffinity(c)
  <2>1. CASE calls[c].cmd = "BIND" /\ bindSubConn(RepliedKey(calls[c]), calls[c].sc)
    <3>1. calls[c].sc \in SubConn /\ RepliedKey(calls[c]) \in Key
      BY <1>2, <2>1, EmptyKeyAssumption DEF bindSubConn, Assigned, RepliedKey
    <3> QED
      BY <1>2, <2>1, <3>1 DEF Next
  <2>2. CASE calls[c].cmd = "UNBIND" /\ unbindSubConn(calls[c].key)
    BY <1>2, <2>2 DEF Next
  <2> QED
    BY <1>3, <1>9, <2>1, <2>2 DEF UpdateAffinity
<1>10. CASE \/ \E cmd \in Commands, k \in Key \cup {NoSubConn} : StartCall(c, cmd, k)
            \/ ReadCount(c) \/ \E ref \in SubConn : ScanRef(c, ref)
            \/ EndScan(c) \/ CheckSize(c) \/ NextPicker(c) \/ RoundRobin(c) \/ RoundRobinReady(c)
            \/ ReadSubConn(c)
  BY <1>3, <1>10 DEF StartCall, ReadCount, ScanRef, EndScan, CheckSize, NextPicker, RoundRobin, RoundRobinReady,
     ReadSubConn, Quietly, Local, PicksRef
<1>11. CASE Place(c) \/ Finish(c)
  BY <1>3, <1>11 DEF Place, Finish, Done, Quietly, Local
<1>12. CASE EndFallback(c)
  <2>1. calls[c].key \in Key
    BY <1>0, <1>12 DEF EndFallback, LocalsOK, FallbackPCs
  <2> QED
    BY <1>12, <2>1 DEF EndFallback, Next
<1> QED
  BY <1>4, <1>5, <1>6, <1>7, <1>8, <1>9, <1>10, <1>11, <1>12 DEF CallNext

\* An RPC takes no channel out of the pool.
LEMMA CallKeepsChannels == ASSUME PkInv, NEW c \in Call, CallNext(c) PROVE Pool \subseteq Pool'
<1> USE DEF balancerVars, vars, poolVars
<1>1. CASE Grow(c)
  <2>1. GrowPool /\ IInv
    BY <1>1 DEF Grow, PkInv, BInv
  <2> QED
    BY <2>1, GrowthSteps DEF Added, Pool
<1>2. CASE UNCHANGED scRefs
  BY <1>2 DEF Pool
<1>3. CASE LockPicker(c)
  BY <1>2, <1>3 DEF LockPicker, PickBound, PickFallback, CreateFallback, StartScan, Begins, Quietly,
     Local, PicksRef
<1>4. CASE \/ \E cmd \in Commands, k \in Key \cup {NoSubConn} : StartCall(c, cmd, k)
           \/ ReadCount(c) \/ \E ref \in SubConn : ScanRef(c, ref)
           \/ EndScan(c) \/ EndFallback(c) \/ CheckSize(c) \/ NextPicker(c)
           \/ RoundRobin(c) \/ RoundRobinReady(c)
  BY <1>2, <1>4 DEF StartCall, ReadCount, ScanRef, EndScan, EndFallback, CreateFallback, CheckSize,
     NextPicker, RoundRobin, RoundRobinReady, Quietly, Local, PicksRef
<1>5. CASE Place(c) \/ Finish(c) \/ ReadSubConn(c)
  BY <1>2, <1>5 DEF Place, Finish, Done, ReadSubConn, Quietly, Local
<1>6. CASE GotResp(c) \/ Count(c) \/ Refresh(c)
  BY <1>2, <1>6 DEF GotResp, gotResp, Count, deCallsInc, Refresh, refresh
<1>7. CASE UpdateAffinity(c)
  BY <1>2, <1>7 DEF UpdateAffinity, bindSubConn, unbindSubConn
<1> QED
  BY <1>1, <1>3, <1>4, <1>5, <1>6, <1>7 DEF CallNext

LEMMA CallMovesOnly ==
    ASSUME PkInv, NEW c \in Call, CallNext(c)
    PROVE  SomeMove(c)
<1>1. LockPicker(c) => SomeMove(c)
  BY PickBoundMoves, PickFallbackMoves, StartScanMoves DEF LockPicker
<1> QED
  BY <1>1, StartCallMoves, ReadCountMoves, ScanRefMoves, EndScanMoves, EndFallbackMoves,
     CheckSizeMoves, GrowMoves, NextPickerMoves,
     RoundRobinMoves, RoundRobinReadyMoves, PlaceMoves, FinishMoves, GotRespMoves, CountMoves,
     RefreshMoves, ReadSubConnMoves, UpdateAffinityMoves DEF CallNext

LEMMA CallKeepsPool ==
    ASSUME PkInv, NEW c \in Call, CallNext(c)
    PROVE  UNCHANGED <<cp, pickerId>> /\ rrRefId' \in 0..(RRWidth - 1)
<1>0. rrRefId \in 0..(RRWidth - 1)
  BY DEF PkInv
<1>1. CASE LockPicker(c)
  BY <1>0, <1>1 DEF LockPicker, PickBound, PickFallback, StartScan, Begins, Quietly, Local, PicksRef,
     Picked
<1>2. CASE RoundRobin(c)
  BY <1>2, RoundRobinMoves DEF RoundRobin, Local
<1>3. CASE \/ \E cmd \in Commands, k \in Key \cup {NoSubConn} : StartCall(c, cmd, k)
           \/ ReadCount(c) \/ \E ref \in SubConn : ScanRef(c, ref)
           \/ EndScan(c) \/ EndFallback(c) \/ CheckSize(c) \/ Grow(c) \/ NextPicker(c)
           \/ RoundRobinReady(c)
  BY <1>0, <1>3 DEF StartCall, ReadCount, ScanRef, EndScan, EndFallback, CheckSize, Grow,
     NextPicker, RoundRobinReady, Quietly, Local, PicksRef, Picked
<1>4. CASE \/ Place(c) \/ Finish(c) \/ GotResp(c) \/ Count(c) \/ Refresh(c)
           \/ ReadSubConn(c) \/ UpdateAffinity(c)
  BY <1>0, <1>4 DEF Place, Finish, Done, GotResp, Count, Refresh, ReadSubConn, UpdateAffinity,
     Quietly, Local
<1> QED
  BY <1>1, <1>2, <1>3, <1>4 DEF CallNext

LEMMA ReportIsBalancerStep ==
    ASSUME PkInv, ClientConnUpdate \/ \E sc \in SubConn, s \in cp.reported : SubConnUpdate(sc, s)
    PROVE  [Next]_vars
<1>1. cp.reported \subseteq ConnState
  BY ChannelPoolsAssumption DEF PkInv, ChannelPoolType
<1> QED
  BY <1>1 DEF ClientConnUpdate, SubConnUpdate, Next

\* There is always a number for a new picker.
LEMMA FreeIdType == FreeId \in 0..Cardinality(Call) /\ FreeId \notin InUse
<1> DEFINE Ids == 0..Cardinality(Call)
<1>1. \E i \in Ids : i \notin InUse
  <2> SUFFICES ASSUME \A i \in Ids : i \in InUse PROVE FALSE
    OBVIOUS
  <2> DEFINE user == [i \in Ids |-> CHOOSE c \in Call : calls[c].id = i]
  <2>1. \A i \in Ids : user[i] \in Call /\ calls[user[i]].id = i
    BY DEF InUse
  <2>2. user \in [Ids -> Call]
    BY <2>1
  <2>3. IsFiniteSet(Ids) /\ Cardinality(Ids) = Cardinality(Call) + 1
    BY CallCount, FS_Interval
  <2> HIDE DEF user, Ids
  <2>4. \E i, j \in Ids : i # j /\ user[i] = user[j]
    BY <2>2, <2>3, CallCount, CallAssumption, FS_PigeonHole
  <2> QED
    BY <2>1, <2>4
<1> QED
  BY <1>1 DEF FreeId

-----------------------------------------------------------------------------
(***************************************************************************)
(* Streams.                                                                *)
(***************************************************************************)

HeldIn(f, ref) == {x \in Call : f[x].pc \in HoldingPCs /\ f[x].ref = ref}

\* The locals of RPCs but c are the same in f and g, as far as streams go.
SameBut(f, g, c) ==
    \A x \in Call \ {c} : /\ g[x].pc = f[x].pc
                          /\ g[x].ref = f[x].ref

LEMMA HeldFinite ==
    ASSUME NEW f, NEW ref
    PROVE  IsFiniteSet(HeldIn(f, ref)) /\ Cardinality(HeldIn(f, ref)) \in Nat
<1>1. HeldIn(f, ref) \subseteq Call
  BY DEF HeldIn
<1> QED
  BY <1>1, CallAssumption, FS_Subset, FS_CardinalityType

LEMMA HeldTaken ==
    ASSUME NEW f, NEW g, NEW c \in Call, SameBut(f, g, c),
           f[c].pc \notin HoldingPCs, g[c].pc \in HoldingPCs,
           NEW ref
    PROVE  Cardinality(HeldIn(g, ref)) = IF ref = g[c].ref THEN Cardinality(HeldIn(f, ref)) + 1
                                                           ELSE Cardinality(HeldIn(f, ref))
<1>1. c \notin HeldIn(f, ref)
  BY DEF HeldIn
<1>2. HeldIn(g, ref) = IF ref = g[c].ref THEN HeldIn(f, ref) \cup {c} ELSE HeldIn(f, ref)
  BY DEF HeldIn, SameBut
<1> QED
  BY <1>1, <1>2, HeldFinite, FS_AddElement

LEMMA HeldGiven ==
    ASSUME NEW f, NEW g, NEW c \in Call, SameBut(f, g, c),
           f[c].pc \in HoldingPCs, g[c].pc \notin HoldingPCs,
           NEW ref
    PROVE  Cardinality(HeldIn(g, ref)) = IF ref = f[c].ref THEN Cardinality(HeldIn(f, ref)) - 1
                                                           ELSE Cardinality(HeldIn(f, ref))
<1>1. c \in HeldIn(f, ref) <=> ref = f[c].ref
  BY DEF HeldIn
<1>2. HeldIn(g, ref) = IF ref = f[c].ref THEN HeldIn(f, ref) \ {c} ELSE HeldIn(f, ref)
  BY DEF HeldIn, SameBut
<1> QED
  BY <1>1, <1>2, HeldFinite, FS_RemoveElement

LEMMA StreamsKept ==
    ASSUME PkInv, NEW c \in Call, NEW new, Moves(c, new)
    PROVE  StreamsExact' /\ streamsCnt' \in [SubConn -> Nat]
<1>0. /\ streamsCnt \in [SubConn -> Nat]
      /\ \A ref \in SubConn : streamsCnt[ref] = Cardinality(HeldIn(calls, ref))
  BY DEF PkInv, StreamsExact, HeldIn
<1>1. calls'[c] = new /\ SameBut(calls, calls', c)
  <2>1. \A x \in Call : Late(calls[x]).pc = calls[x].pc /\ Late(calls[x]).ref = calls[x].ref
    BY DEF PkInv, LocalsOK, CallType, Late
  <2> QED
    BY <2>1 DEF Moves, OthersStay, SameBut
<1> DEFINE Exact == \A ref \in SubConn : streamsCnt'[ref] = Cardinality(HeldIn(calls', ref))
<1>2. CASE /\ UNCHANGED streamsCnt
           /\ calls[c].pc \in HoldingPCs <=> new.pc \in HoldingPCs
           /\ calls[c].pc \in HoldingPCs => new.ref = calls[c].ref
  <2>1. \A ref \in SubConn : HeldIn(calls', ref) = HeldIn(calls, ref)
    BY <1>1, <1>2 DEF HeldIn, SameBut
  <2> QED
    BY <1>0, <1>2, <2>1 DEF StreamsExact, HeldIn
<1>3. CASE /\ calls[c].pc \notin HoldingPCs /\ new.pc \in HoldingPCs
           /\ new.ref \in SubConn
           /\ streamsCnt' = [streamsCnt EXCEPT ![new.ref] = @ + 1]
  <2>1. \A ref \in SubConn : Cardinality(HeldIn(calls', ref)) =
            IF ref = new.ref THEN Cardinality(HeldIn(calls, ref)) + 1 ELSE Cardinality(HeldIn(calls, ref))
    BY <1>1, <1>3, HeldTaken
  <2>2. Exact /\ streamsCnt' \in [SubConn -> Nat]
    BY <1>0, <1>3, <2>1
  <2> QED
    BY <2>2 DEF StreamsExact, HeldIn
<1>4. CASE /\ calls[c].pc \in HoldingPCs /\ new.pc \notin HoldingPCs
           /\ calls[c].ref \in SubConn
           /\ streamsCnt' = [streamsCnt EXCEPT ![calls[c].ref] = @ - 1]
  <2>1. \A ref \in SubConn : Cardinality(HeldIn(calls', ref)) =
            IF ref = calls[c].ref THEN Cardinality(HeldIn(calls, ref)) - 1 ELSE Cardinality(HeldIn(calls, ref))
    BY <1>1, <1>4, HeldGiven
  <2>2. Exact
    BY <1>0, <1>4, <2>1
  <2>3. \A ref \in SubConn : Cardinality(HeldIn(calls', ref)) \in Nat
    BY HeldFinite
  <2>4. streamsCnt' \in [SubConn -> Nat]
    BY <1>0, <1>4, <2>2, <2>3
  <2> QED
    BY <2>2, <2>4 DEF StreamsExact, HeldIn
<1> QED
  BY <1>2, <1>3, <1>4 DEF Moves, StreamCounted

\* A report changes nothing in the RPCs but that some are late.
LEMMA LateKept ==
    ASSUME PkInv, UNCHANGED streamsCnt, calls' = [x \in Call |-> calls'[x]],
           \A x \in Call : calls'[x] = calls[x] \/ calls'[x] = Late(calls[x])
    PROVE  /\ StreamsExact' /\ streamsCnt' \in [SubConn -> Nat]
           /\ \A x \in Call : LocalsOK(calls'[x], LiveRefs) /\ calls'[x].pc = calls[x].pc
<1>1. \A x \in Call : Late(calls[x]).pc = calls[x].pc /\ Late(calls[x]).ref = calls[x].ref
  BY DEF PkInv, LocalsOK, CallType, Late
<1>2. \A ref \in SubConn : HeldIn(calls', ref) = HeldIn(calls, ref)
  BY <1>1 DEF HeldIn
<1>3. StreamsExact'
  BY <1>2 DEF PkInv, StreamsExact, HeldIn
<1>4. \A x \in Call : LocalsOK(calls[x], LiveRefs)
  BY DEF PkInv
<1>5. \A x \in Call : LocalsOK(Late(calls[x]), LiveRefs)
  BY <1>4, LateOK
<1> QED
  BY <1>1, <1>3, <1>4, <1>5 DEF PkInv

LEMMA ReportKeepsCalls ==
    ASSUME PkInv, ClientConnUpdate \/ \E sc \in SubConn, s \in cp.reported : SubConnUpdate(sc, s)
    PROVE  /\ UNCHANGED <<cp, streamsCnt, rrRefId>>
           /\ pickerId' \in 0..Cardinality(Call)
           /\ calls' = [x \in Call |-> calls'[x]]
           /\ \A x \in Call : calls'[x] = calls[x] \/ calls'[x] = Late(calls[x])
<1>0. calls = [x \in Call |-> calls[x]] /\ pickerId \in 0..Cardinality(Call)
  BY DEF PkInv
<1>1. CASE ClientConnUpdate
  BY <1>0, <1>1 DEF ClientConnUpdate
<1>2. ASSUME NEW sc \in SubConn, NEW s \in cp.reported, SubConnUpdate(sc, s)
      PROVE  /\ UNCHANGED <<cp, streamsCnt, rrRefId>>
             /\ pickerId' \in 0..Cardinality(Call)
             /\ calls' = [x \in Call |-> calls'[x]]
             /\ \A x \in Call : calls'[x] = calls[x] \/ calls'[x] = Late(calls[x])
  <2>1. pickerId' \in 0..Cardinality(Call)
    BY <1>0, <1>2, FreeIdType DEF SubConnUpdate, NewPickerId
  <2>2. calls' = calls \/ calls' = Responding(calls, refreshingScRefs[sc])
    BY <1>2 DEF SubConnUpdate
  <2>3. \A ref : /\ Responding(calls, ref) = [x \in Call |-> Responding(calls, ref)[x]]
                 /\ \A x \in Call : \/ Responding(calls, ref)[x] = calls[x]
                                    \/ Responding(calls, ref)[x] = Late(calls[x])
    BY DEF Responding
  <2> QED
    BY <1>0, <1>2, <2>1, <2>2, <2>3 DEF SubConnUpdate
<1> QED
  BY <1>1, <1>2

-----------------------------------------------------------------------------
(***************************************************************************)
(* The theorems.                                                           *)
(***************************************************************************)

LEMMA InitPk == PickerInit => PkInv
<1> SUFFICES ASSUME PickerInit PROVE PkInv
  OBVIOUS
<1>1. BInv
  BY BInit DEF PickerInit
<1>2. /\ cp \in ChannelPools
      /\ pickerId \in 0..Cardinality(Call)
      /\ rrRefId \in 0..(RRWidth - 1)
      /\ streamsCnt \in [SubConn -> Nat]
      /\ calls = [c \in Call |-> calls[c]]
      /\ \A c \in Call : calls[c] = NoCall
  BY CallCount, WidthAssumption DEF PickerInit
<1>3. \A c \in Call : LocalsOK(calls[c], LiveRefs)
  BY <1>2, NoCallOK
<1>4. StreamsExact
  <2>1. \A ref \in SubConn : {c \in Call : calls[c].pc \in HoldingPCs /\ calls[c].ref = ref} = {}
    BY <1>2 DEF NoCall, HoldingPCs
  <2> QED
    BY <2>1, FS_EmptySet DEF StreamsExact, PickerInit
<1> QED
  BY <1>1, <1>2, <1>3, <1>4 DEF PkInv

LEMMA PickerIsBalancerStep == PkInv /\ [PickerNext]_pickerVars => [Next]_vars
BY CallIsBalancerStep, ReportIsBalancerStep DEF PickerNext, pickerVars, balancerVars

LEMMA NextPk == PkInv /\ [PickerNext]_pickerVars => PkInv'
<1> SUFFICES ASSUME PkInv, [PickerNext]_pickerVars PROVE PkInv'
  OBVIOUS
<1>1. BInv' /\ LiveRefs \subseteq LiveRefs'
  BY PickerIsBalancerStep, BNext DEF PkInv
<1>2. ASSUME \A x \in Call : LocalsOK(calls'[x], LiveRefs)
      PROVE  \A x \in Call : LocalsOK(calls'[x], LiveRefs')
  BY <1>1, <1>2, LocalsGrow
<1>3. ASSUME NEW c \in Call, CallNext(c) PROVE PkInv'
  <2>1. PICK new : Moves(c, new)
    BY <1>3, CallMovesOnly DEF SomeMove
  <2>2. StreamsExact' /\ streamsCnt' \in [SubConn -> Nat]
    BY <2>1, StreamsKept
  <2>3. \A x \in Call : LocalsOK(calls[x], LiveRefs)
    BY DEF PkInv
  <2>4. \A x \in Call : LocalsOK(Late(calls[x]), LiveRefs)
    BY <2>3, LateOK
  <2>5. \A x \in Call : LocalsOK(calls'[x], LiveRefs)
    BY <2>1, <2>3, <2>4 DEF Moves, OthersStay
  <2>6. calls' = [x \in Call |-> calls'[x]]
    BY <2>1 DEF Moves, OthersStay
  <2>7. /\ cp' \in ChannelPools /\ pickerId' \in 0..Cardinality(Call)
        /\ rrRefId' \in 0..(RRWidth - 1)
    BY <1>3, CallKeepsPool DEF PkInv
  <2> QED
    BY <1>1, <1>2, <2>2, <2>5, <2>6, <2>7 DEF PkInv
<1>4. CASE ClientConnUpdate \/ \E sc \in SubConn, s \in cp.reported : SubConnUpdate(sc, s)
  <2>1. /\ UNCHANGED <<cp, streamsCnt, rrRefId>>
        /\ pickerId' \in 0..Cardinality(Call)
        /\ calls' = [x \in Call |-> calls'[x]]
        /\ \A x \in Call : calls'[x] = calls[x] \/ calls'[x] = Late(calls[x])
    BY <1>4, ReportKeepsCalls
  <2>2. /\ StreamsExact' /\ streamsCnt' \in [SubConn -> Nat]
        /\ \A x \in Call : LocalsOK(calls'[x], LiveRefs)
    BY <2>1, LateKept
  <2> QED
    BY <1>1, <1>2, <2>1, <2>2 DEF PkInv
<1>5. CASE UNCHANGED pickerVars
  <2>1. UNCHANGED <<cp, pickerId, streamsCnt, rrRefId, calls>>
    BY <1>5 DEF pickerVars
  <2>2. \A x \in Call : LocalsOK(calls'[x], LiveRefs)
    BY <2>1 DEF PkInv
  <2> QED
    BY <1>1, <1>2, <2>1, <2>2 DEF PkInv, StreamsExact
<1> QED
  BY <1>3, <1>4, <1>5 DEF PickerNext

THEOREM PickerInvariance == PickerSpec => []PkInv
BY InitPk, NextPk, PTL DEF PickerSpec

\* Whatever RPCs do, and in whatever order, they call the balancer as
\* GcpBalancer lets its methods be called: every theorem about Spec holds of the
\* balancer that is called by Pick and the Done callbacks.
THEOREM BalancerImplemented == PickerSpec => Spec
<1>1. PickerInit => Init
  BY DEF PickerInit
<1> QED
  BY <1>1, PickerIsBalancerStep, PickerInvariance, PTL DEF PickerSpec, Spec

\* Every variable always has its type; no nil subConnRef or SubConn is used.
THEOREM PickerTypeCorrect == PickerSpec => []PickerTypeOK
<1>1. PkInv => PickerTypeOK
  <2> SUFFICES ASSUME PkInv PROVE PickerTypeOK
    OBVIOUS
  <2>1. \A c \in Call : LocalsOK(calls[c], LiveRefs)
    BY DEF PkInv
  <2>2. calls \in [Call -> CallType]
    BY <2>1 DEF PkInv, LocalsOK
  <2> QED
    BY <2>1, <2>2 DEF PkInv, PickerTypeOK, LocalsOK
<1> QED
  BY <1>1, PickerInvariance, PTL

\* streamsCnt of every channel is the number of RPCs that hold a stream of it,
\* for any number of RPCs, pickers and refreshes.
THEOREM StreamsAreExact == PickerSpec => []StreamsExact
<1>1. PkInv => StreamsExact
  BY DEF PkInv
<1> QED
  BY <1>1, PickerInvariance, PTL

\* No RPC is given a SubConn outside the pool, however old its picker is.
THEOREM PicksAreInPool == PickerSpec => PicksInPool
<1> DEFINE A == ~LiveShutdown =>
         \A c \in Call : calls[c].pc # "picked" /\ calls'[c].pc = "picked" => calls'[c].sc \in Pool'
<1>1. PkInv /\ [PickerNext]_pickerVars => [A]_pickerVars
  <2> SUFFICES ASSUME PkInv, PickerNext, ~LiveShutdown, NEW x \in Call,
                      calls[x].pc # "picked", calls'[x].pc = "picked"
               PROVE  calls'[x].sc \in Pool'
    OBVIOUS
  <2>1. \A y \in Call : Late(calls[y]).pc = calls[y].pc
    BY DEF PkInv, LocalsOK, CallType, Late
  <2>2. ~(ClientConnUpdate \/ \E sc \in SubConn, s \in cp.reported : SubConnUpdate(sc, s))
    BY <2>1, ReportKeepsCalls
  <2>3. PICK c \in Call : CallNext(c)
    BY <2>2 DEF PickerNext
  <2>4. PICK new : Moves(c, new)
    BY <2>3, CallMovesOnly DEF SomeMove
  <2>5. x = c /\ calls'[x] = new
    BY <2>1, <2>4 DEF Moves, OthersStay
  <2>6. new.ref \in LiveRefs /\ new.sc = refs[new.ref].subConn
    BY <2>4, <2>5 DEF Moves, ServedByRef
  <2>7. new.sc \in Pool
    BY <2>6 DEF LiveRefs, PkInv, BInv, FInv, Placed
  <2>8. Pool \subseteq Pool'
    BY <2>3, CallKeepsChannels
  <2> QED
    BY <2>5, <2>7, <2>8
<1> QED
  BY <1>1, PickerInvariance, PTL DEF PickerSpec, PicksInPool

-----------------------------------------------------------------------------
(***************************************************************************)
(* How an RPC comes to where it is: what the limits, and the waking of     *)
(* RPCs, rest on.                                                          *)
(***************************************************************************)

\* The ways of RPCs through Pick do not mix.
RouteOK(call) == call.pc \in {"roundRobin", "rrWait"} => call.cmd = "BIND"

\* No SubConn is ever replaced, missing or lost.
Undisturbed == ~cp.balancer.unresponsiveDetection /\ ~CanFail /\ ~LiveShutdown

RouteInv ==
    /\ PkInv
    /\ cfg \in {NoConfig, initializeConfig(cp.balancer)}
    /\ mu = "enforceMinSize" => ~cc.served
    /\ \A c \in Call : /\ RouteOK(calls[c])
                       /\ calls[c].pc # "none" => cc.served /\ LiveRefs # {}
                       /\ Undisturbed /\ calls[c].pc \in HoldingPCs => calls[c].sc \in Pool

\* Some channel of the pool is still to become ready.
Unready == \E sc \in Pool : scStates[sc] # "Ready"

\* The RPC waits for a picker, or will when its callback is over.
SentBack(call) == call.pc = "waiting" \/ call.retry

\* A step of c leads to the locals new.
Proceeds(c, new) ==
    LET call == calls[c]
    IN  /\ RouteOK(new)
        /\ new.pc # "none" => call.pc # "none" \/ (cc.served /\ LiveRefs # {})
        /\ new.pc \in LockingPCs =>
              /\ new.id = call.id
              /\ call.pc \in LockingPCs \/ (call.pc = "lock" /\ ~Locked(call))
        /\ new.pc = "scan" =>
              /\ new.ref = call.ref
              /\ \/ call.pc = "scan" /\ new.cnt = call.cnt
                 \/ call.pc = "read" /\ new.cnt = streamsCnt[new.ref]
        /\ new.pc = "full" => call.pc = "scan" /\ call.cnt >= cp.maxStreams
        /\ new.pc = "grow" => call.pc = "full" /\ MayGrow
        /\ new.pc \in HoldingPCs =>
              /\ new.id = call.id /\ new.cmd = call.cmd
              /\ \/ call.pc \in HoldingPCs /\ new.ref = call.ref /\ new.sc = call.sc
                 \/ /\ call.pc \notin HoldingPCs
                    /\ new.ref \in LiveRefs /\ new.sc = refs[new.ref].subConn
                    /\ \/ new.cmd # "NONE" \/ ~MayGrow
                       \/ call.pc = "scan" /\ call.ref = new.ref /\ call.cnt < cp.maxStreams
        /\ SentBack(new) => /\ new.id = call.id /\ new.pc # "none"
                            /\ SentBack(call) \/ (Undisturbed => Unready')

LEMMA PoolsTyped ==
    ASSUME PkInv
    PROVE  /\ cp.maxStreams \in Nat /\ cp.maxStreams > 0
           /\ cp.maxSize \in Nat /\ cp.maxSize > 0
           /\ cp.reported \subseteq ConnState
           /\ cp.balancer \in ConfigType
BY ChannelPoolsAssumption, ConfigAssumption DEF PkInv, ChannelPoolType

LEMMA StreamsTyped ==
    ASSUME PkInv, NEW c \in Call
    PROVE  /\ calls[c] \in CallType /\ LocalsOK(calls[c], LiveRefs)
           /\ LiveRefs \subseteq SubConn /\ NoSubConn \notin LiveRefs
BY SubConnAssumption DEF PkInv, LocalsOK, LiveRefs

\* A picked RPC, from a place that decides that it may be.
LEMMA PickProceeds ==
    ASSUME RouteInv, NEW c \in Call, NEW ref \in LiveRefs, Picked(c, ref),
           calls[c].pc \notin HoldingPCs, calls[c].pc # "none",
           \/ calls[c].cmd # "NONE" \/ ~MayGrow
           \/ calls[c].pc = "scan" /\ calls[c].ref = ref /\ calls[c].cnt < cp.maxStreams
    PROVE  Proceeds(c, calls'[c])
<1> DEFINE new == [calls[c] EXCEPT !.pc = "picked", !.ref = ref, !.sc = ServedBy(ref),
                                   !.left = {}, !.cnt = 0, !.late = FALSE]
<1>0. calls[c] \in CallType
  BY StreamsTyped DEF RouteInv
<1>1. calls'[c] = new
  BY DEF Picked, RouteInv, PkInv
<1>2. /\ new.pc = "picked" /\ new.ref = ref /\ new.sc = refs[ref].subConn
      /\ new.cmd = calls[c].cmd /\ new.id = calls[c].id /\ new.retry = calls[c].retry
  BY <1>0 DEF CallType, ServedBy
<1> HIDE DEF new
<1> QED
  BY <1>1, <1>2 DEF Proceeds, RouteOK, SentBack, LockingPCs, ChoosingPCs,
   FallbackPCs, HoldingPCs

\* The RPC is over.
LEMMA OverProceeds == ASSUME NEW c \in Call PROVE Proceeds(c, NoCall)
BY DEF Proceeds, NoCall, RouteOK, SentBack, LockingPCs, ChoosingPCs,
   FallbackPCs, HoldingPCs

\* It is in its callback, or waits for the next picker.
LEMMA EndsProceeds ==
    ASSUME NEW c \in Call, NEW new, calls[c].pc # "none",
           new.pc \in DonePCs \cup {"waiting"}, new.id = calls[c].id,
           SentBack(new) => SentBack(calls[c]) \/ (Undisturbed => Unready')
    PROVE  Proceeds(c, new)
BY DEF Proceeds, RouteOK, SentBack, LockingPCs, ChoosingPCs,
   FallbackPCs, HoldingPCs, DonePCs

LEMMA AffinityProceeds ==
    ASSUME NEW c \in Call, NEW call \in CallType, calls[c].pc # "none",
           call.id = calls[c].id,
           call.retry => SentBack(calls[c]) \/ (Undisturbed => Unready')
    PROVE  Proceeds(c, Affinity(call))
<1> DEFINE reads == [call EXCEPT !.pc = "affinity"]
           waits == Waits([call EXCEPT !.retry = FALSE, !.ok = FALSE])
<1>1. reads.pc = "affinity" /\ reads.id = call.id /\ reads.retry = call.retry
  BY DEF CallType
<1>2. waits.pc = "waiting" /\ waits.id = call.id
  BY DEF CallType, Waits
<1>3. Affinity(call) \in {reads, NoCall} \/ (call.retry /\ Affinity(call) = waits)
  BY DEF Affinity
<1> HIDE DEF reads, waits
<1>4. Proceeds(c, reads)
  BY <1>1, EndsProceeds DEF SentBack, DonePCs
<1>5. call.retry => Proceeds(c, waits)
  BY <1>2, EndsProceeds
<1> QED
  BY <1>3, <1>4, <1>5, OverProceeds

LEMMA UsesPickerProceeds ==
    ASSUME BInv, NEW c \in Call, calls[c].pc # "none" \/ cc.served, picker.refs # {},
           NEW cmd, NEW k
    PROVE  Proceeds(c, UsesPicker([NoCall EXCEPT !.cmd = cmd, !.key = k]))
<1> DEFINE new == UsesPicker([NoCall EXCEPT !.cmd = cmd, !.key = k])
<1>1. /\ new.pc = IF cmd = "BIND" /\ cp.roundRobin THEN "roundRobin" ELSE "lock"
      /\ new.cmd = cmd /\ new.ref = NoSubConn /\ ~new.retry
  BY DEF UsesPicker, NoCall
<1>2. LiveRefs # {}
  BY LiveOffered
<1> HIDE DEF new
<1>3. Proceeds(c, new)
  BY <1>1, <1>2 DEF Proceeds, RouteOK, SentBack, LockingPCs, ChoosingPCs,
   FallbackPCs, HoldingPCs
<1> QED
  BY <1>3 DEF new

LEMMA SetTo ==
    ASSUME RouteInv, NEW c \in Call, NEW new, calls' = [calls EXCEPT ![c] = new]
    PROVE  calls'[c] = new
BY DEF RouteInv, PkInv

LEMMA StartProceeds ==
    ASSUME RouteInv, NEW c \in Call, NEW cmd, NEW k, StartCall(c, cmd, k)
    PROVE  Proceeds(c, calls'[c])
BY SetTo, UsesPickerProceeds DEF StartCall, Quietly, Local, RouteInv, PkInv

LEMMA NextPickerProceeds ==
    ASSUME RouteInv, NEW c \in Call, NextPicker(c)
    PROVE  Proceeds(c, calls'[c])
<1>1. CASE Quietly(c, NoCall)
  BY <1>1, SetTo, OverProceeds DEF Quietly, Local
<1>2. CASE ~Quietly(c, NoCall)
  <2>1. calls' = [calls EXCEPT ![c] = UsesPicker([NoCall EXCEPT !.cmd = calls[c].cmd, !.key = calls[c].key])]
    BY <1>2 DEF NextPicker, Quietly, Local
  <2>2. calls[c].pc # "none" /\ picker.refs # {} /\ BInv
    BY <1>2 DEF NextPicker, RouteInv, PkInv
  <2> QED
    BY <2>1, <2>2, SetTo, UsesPickerProceeds
<1> QED
  BY <1>1, <1>2

\* A key without a channel that can be used is bound to one that will be ready.
LEMMA BoundUnready ==
    ASSUME RouteInv, Undisturbed, NEW c \in Call, calls[c].pc = "lock", HasBoundKey(calls[c]),
           ReadySubConnRef(calls[c].key) = NoSubConn
    PROVE  Unready
<1> DEFINE k == calls[c].key
           sc == affinityMap[k]
<1>1. cfg # NoConfig /\ ~cfg.unresponsiveDetection /\ ~LiveShutdown
  <2>1. cc.served
    BY DEF RouteInv
  <2>2. cfg # NoConfig
    BY <2>1 DEF RouteInv, PkInv, BInv, FInv, ConfigFirst
  <2> QED
    BY <2>2, PoolsTyped DEF Undisturbed, RouteInv, initializeConfig, ConfigType
<1>2. k \in Key /\ sc # NoSubConn
  BY DEF HasBoundKey, RouteInv, PkInv, LocalsOK
<1>3. sc \in Pool
  BY <1>1, <1>2 DEF RouteInv, PkInv, BInv, FInv, BoundInPool
<1>4. scStates[sc] # "Ready"
  BY <1>3 DEF ReadySubConnRef, Pool
<1> QED
  BY <1>3, <1>4 DEF Unready

LEMMA PickBoundProceeds ==
    ASSUME RouteInv, NEW c \in Call, calls[c].pc = "lock", PickBound(c)
    PROVE  Proceeds(c, calls'[c])
<1> DEFINE k == calls[c].key
           ref == ReadySubConnRef(k)
<1>0. calls[c] \in CallType
  BY StreamsTyped DEF RouteInv
<1>1. CASE ref = NoSubConn
  <2>1. calls'[c] = Waits(calls[c]) /\ UNCHANGED <<cp, scRefs, scStates>>
    BY <1>1, SetTo DEF PickBound, Quietly, Local, balancerVars, vars, poolVars
  <2>2. Undisturbed => Unready'
    BY <1>1, <2>1, BoundUnready DEF PickBound, Unready, Pool
  <2>3. Waits(calls[c]).pc = "waiting" /\ Waits(calls[c]).id = calls[c].id
    BY <1>0 DEF Waits, CallType
  <2> QED
    BY <2>1, <2>2, <2>3, EndsProceeds
<1>2. CASE ref # NoSubConn
  <2>1. k \in Key
    BY DEF PickBound, HasBoundKey, RouteInv, PkInv, LocalsOK
  <2>2. affinityMap[k] \in SubConn /\ fallbackMap[k] \in SubConn \cup {NoSubConn}
    BY <2>1 DEF PickBound, HasBoundKey, RouteInv, PkInv, BInv, IInv, TypeOK, KeyTypeOK, MaybeSubConn
  <2>3. ref \in LiveRefs
    BY <1>2, <2>2, LiveOffered DEF ReadySubConnRef, RouteInv, PkInv
  <2>4. Picked(c, ref) /\ calls[c].cmd # "NONE"
    BY <1>2 DEF PickBound, PicksRef, HasBoundKey
  <2> HIDE DEF ref
  <2> QED
    BY <2>3, <2>4, PickProceeds DEF HoldingPCs
<1> QED
  BY <1>1, <1>2

LEMMA BeginsProceeds ==
    ASSUME RouteInv, NEW c \in Call, NEW pc \in {"read", "fbRead"}, NEW refSet,
           calls[c].pc = "lock", ~Locked(calls[c]), Begins(c, pc, refSet)
    PROVE  Proceeds(c, calls'[c])
<1>1. PICK ref \in refSet : Quietly(c, [calls[c] EXCEPT !.pc = pc, !.left = refSet, !.ref = ref])
  BY DEF Begins
<1> DEFINE new == [calls[c] EXCEPT !.pc = pc, !.left = refSet, !.ref = ref]
<1>2. calls[c] \in CallType
  BY StreamsTyped DEF RouteInv
<1>3. calls'[c] = new
  BY <1>1, SetTo DEF Quietly, Local
<1>4. new.pc = pc /\ new.id = calls[c].id /\ new.retry = calls[c].retry
  BY <1>2 DEF CallType
<1> HIDE DEF new
<1> QED
  BY <1>3, <1>4 DEF Proceeds, RouteOK, SentBack, LockingPCs, ChoosingPCs, FallbackPCs, HoldingPCs

\* Nothing happens to the RPC.
LEMMA StayProceeds ==
    ASSUME RouteInv, NEW c \in Call, UNCHANGED calls, calls[c].pc \in {"lock", "fbScan"}
    PROVE  Proceeds(c, calls'[c])
BY DEF Proceeds, RouteInv, SentBack, LockingPCs, ChoosingPCs, FallbackPCs, HoldingPCs

LEMMA LockProceeds ==
    ASSUME RouteInv, NEW c \in Call, LockPicker(c)
    PROVE  Proceeds(c, calls'[c])
BY PickBoundProceeds, BeginsProceeds, StayProceeds DEF LockPicker, PickFallback, StartScan

LEMMA ReadCountProceeds ==
    ASSUME RouteInv, NEW c \in Call, ReadCount(c)
    PROVE  Proceeds(c, calls'[c])
<1> DEFINE new == [calls[c] EXCEPT !.pc = IF @ = "read" THEN "scan" ELSE "fbScan",
                                   !.cnt = streamsCnt[calls[c].ref]]
<1>0. calls[c] \in CallType /\ calls[c].pc \in {"read", "fbRead"}
  BY StreamsTyped DEF RouteInv, ReadCount
<1>1. calls'[c] = new
  BY SetTo DEF ReadCount, Quietly, Local
<1>2. /\ new.pc \in {"scan", "fbScan"} /\ (new.pc = "scan" => calls[c].pc = "read")
      /\ new.ref = calls[c].ref /\ new.cnt = streamsCnt[new.ref]
      /\ new.id = calls[c].id /\ new.retry = calls[c].retry
  BY <1>0 DEF CallType
<1> HIDE DEF new
<1> QED
  BY <1>0, <1>1, <1>2 DEF Proceeds, RouteOK, SentBack, LockingPCs, ChoosingPCs, FallbackPCs, HoldingPCs

LEMMA ScanRefProceeds ==
    ASSUME RouteInv, NEW c \in Call, NEW ref \in SubConn, ScanRef(c, ref)
    PROVE  Proceeds(c, calls'[c])
<1> DEFINE next == [calls[c] EXCEPT !.pc = IF @ = "scan" THEN "read" ELSE "fbRead",
                                    !.left = @ \ {ref}, !.ref = ref]
           same == [calls[c] EXCEPT !.left = @ \ {ref}]
<1>0. calls[c] \in CallType /\ calls[c].pc \in {"scan", "fbScan"}
  BY StreamsTyped DEF RouteInv, ScanRef
<1>1. calls'[c] \in {next, same}
  BY SetTo DEF ScanRef, Quietly, Local
<1>2. next.pc \in {"read", "fbRead"} /\ next.id = calls[c].id /\ next.retry = calls[c].retry
  BY <1>0 DEF CallType
<1>3. /\ same.pc = calls[c].pc /\ same.ref = calls[c].ref /\ same.cnt = calls[c].cnt
      /\ same.id = calls[c].id /\ same.retry = calls[c].retry
  BY <1>0 DEF CallType
<1> HIDE DEF next, same
<1>4. Proceeds(c, next) /\ Proceeds(c, same)
  BY <1>0, <1>2, <1>3 DEF Proceeds, RouteOK, SentBack, LockingPCs, ChoosingPCs, FallbackPCs, HoldingPCs
<1> QED
  BY <1>1, <1>4

LEMMA EndFallbackProceeds ==
    ASSUME RouteInv, NEW c \in Call, EndFallback(c)
    PROVE  Proceeds(c, calls'[c])
<1>1. calls[c].ref \in LiveRefs /\ calls[c].pc = "fbScan" /\ calls[c].cmd # "NONE"
  BY StreamsTyped DEF EndFallback, RouteInv, LocalsOK, LockingPCs, FallbackPCs
<1>2. CASE Picked(c, calls[c].ref)
  BY <1>1, <1>2, PickProceeds DEF HoldingPCs
<1>3. CASE UNCHANGED calls
  BY <1>1, <1>3, StayProceeds
<1> QED
  BY <1>2, <1>3 DEF EndFallback

\* The RPC goes on under the same lock.
LEMMA StepsProceeds ==
    ASSUME RouteInv, NEW c \in Call, NEW to,
           \/ to = "full" /\ calls[c].pc = "scan" /\ calls[c].cnt >= cp.maxStreams
           \/ to = "grow" /\ calls[c].pc = "full" /\ MayGrow
    PROVE  Proceeds(c, [calls[c] EXCEPT !.pc = to])
<1> DEFINE new == [calls[c] EXCEPT !.pc = to]
<1>0. calls[c] \in CallType
  BY StreamsTyped DEF RouteInv
<1>1. new.pc = to /\ new.id = calls[c].id /\ new.retry = calls[c].retry
  BY <1>0 DEF CallType
<1> HIDE DEF new
<1>2. Proceeds(c, new)
  BY <1>1 DEF Proceeds, RouteOK, SentBack, LockingPCs, ChoosingPCs,
   FallbackPCs, HoldingPCs
<1> QED
  BY <1>2 DEF new

LEMMA EndScanProceeds ==
    ASSUME RouteInv, NEW c \in Call, EndScan(c)
    PROVE  Proceeds(c, calls'[c])
<1>1. calls[c].pc = "scan" /\ calls[c].ref \in LiveRefs /\ calls[c].cnt \in Nat
  BY StreamsTyped DEF EndScan, RouteInv, LocalsOK, CallType, LockingPCs, ChoosingPCs
<1>2. CASE calls[c].cnt < cp.maxStreams
  BY <1>1, <1>2, PickProceeds DEF EndScan, PicksRef, HoldingPCs
<1>3. CASE ~(calls[c].cnt < cp.maxStreams)
  <2>1. calls[c].cnt >= cp.maxStreams
    BY <1>1, <1>3, PoolsTyped DEF RouteInv
  <2>2. calls'[c] = [calls[c] EXCEPT !.pc = "full"]
    BY <1>3, SetTo DEF EndScan, Quietly, Local
  <2> QED
    BY <1>1, <2>1, <2>2, StepsProceeds
<1> QED
  BY <1>2, <1>3

LEMMA CheckSizeProceeds ==
    ASSUME RouteInv, NEW c \in Call, CheckSize(c)
    PROVE  Proceeds(c, calls'[c])
<1>1. calls[c].pc = "full" /\ calls[c].ref \in LiveRefs
  BY StreamsTyped DEF CheckSize, RouteInv, LocalsOK, LockingPCs, ChoosingPCs
<1>2. CASE ~MayGrow
  BY <1>1, <1>2, PickProceeds DEF CheckSize, PicksRef, HoldingPCs
<1>3. CASE MayGrow
  <2>1. calls'[c] = [calls[c] EXCEPT !.pc = "grow"]
    BY <1>3, SetTo DEF CheckSize, Quietly, Local
  <2> QED
    BY <1>1, <1>3, <2>1, StepsProceeds
<1> QED
  BY <1>2, <1>3

\* A new channel is not ready yet, nor are those for which none is added.
LEMMA GrowthUnready ==
    ASSUME IInv, GrowPool, ~CanFail
    PROVE  Unready'
<1> USE SubConnAssumption DEF IInv
<1>1. CASE \E sc \in SubConn : scStates[sc] \in {"Connecting", "Idle"}
  <2>1. PICK sc \in SubConn : scStates[sc] \in {"Connecting", "Idle"}
    BY <1>1
  <2>2. sc \in Pool
    BY <2>1 DEF Linked, RefsConsistent
  <2>3. UNCHANGED <<scRefs, scStates>>
    BY <1>1 DEF GrowPool, newSubConn, poolVars
  <2> QED
    BY <2>1, <2>2, <2>3 DEF Unready, Pool
<1>2. CASE ~\E sc \in SubConn : scStates[sc] \in {"Connecting", "Idle"}
  <2>1. PICK sc \in SubConn : /\ scRefs' = [scRefs EXCEPT ![sc] = sc]
                              /\ scStates' = [scStates EXCEPT ![sc] = "Idle"]
    BY <1>2 DEF GrowPool, newSubConn, addSubConn
  <2>2. scRefs'[sc] = sc /\ scStates'[sc] = "Idle"
    BY <2>1 DEF TypeOK, PoolTypeOK
  <2> QED
    BY <2>2 DEF Unready, Pool
<1> QED
  BY <1>1, <1>2

LEMMA GrowProceeds ==
    ASSUME RouteInv, NEW c \in Call, Grow(c)
    PROVE  Proceeds(c, calls'[c])
<1>0. calls[c] \in CallType
  BY StreamsTyped DEF RouteInv
<1>1. calls[c].pc = "grow" /\ GrowPool /\ calls' = [calls EXCEPT ![c] = Waits(calls[c])]
  BY DEF Grow
<1>2. Undisturbed => Unready'
  BY <1>1, GrowthUnready DEF Undisturbed, RouteInv, PkInv, BInv
<1>3. Waits(calls[c]).pc = "waiting" /\ Waits(calls[c]).id = calls[c].id
  BY <1>0 DEF Waits, CallType
<1> QED
  BY <1>1, <1>2, <1>3, SetTo, EndsProceeds

LEMMA RoundRobinProceeds ==
    ASSUME RouteInv, NEW c \in Call, RoundRobin(c)
    PROVE  Proceeds(c, calls'[c])
<1> DEFINE new(ref) == [calls[c] EXCEPT !.pc = "rrWait", !.ref = ref, !.refs = {}]
<1>0. calls[c] \in CallType /\ calls[c].pc = "roundRobin" /\ calls[c].cmd = "BIND"
  BY StreamsTyped DEF RouteInv, RoundRobin, RouteOK
<1>1. PICK ref : calls'[c] = new(ref)
  BY SetTo DEF RoundRobin, Local
<1>2. /\ new(ref).pc = "rrWait" /\ new(ref).cmd = calls[c].cmd /\ new(ref).id = calls[c].id
      /\ new(ref).retry = calls[c].retry
  BY <1>0 DEF CallType
<1> HIDE DEF new
<1> QED
  BY <1>0, <1>1, <1>2 DEF Proceeds, RouteOK, SentBack, LockingPCs, ChoosingPCs,
   FallbackPCs, HoldingPCs

LEMMA RoundRobinReadyProceeds ==
    ASSUME RouteInv, NEW c \in Call, RoundRobinReady(c)
    PROVE  Proceeds(c, calls'[c])
<1>1. calls[c].pc = "rrWait" /\ calls[c].cmd = "BIND" /\ calls[c].ref \in LiveRefs
  BY StreamsTyped DEF RoundRobinReady, RouteInv, RouteOK, LocalsOK
<1> QED
  BY <1>1, PickProceeds DEF RoundRobinReady, PicksRef, HoldingPCs

LEMMA DoneProceeds ==
    ASSUME RouteInv, NEW c \in Call, NEW ok \in BOOLEAN, NEW retry \in BOOLEAN, NEW deadline \in BOOLEAN,
           calls[c].pc \in HoldingPCs, Done(c, Outcome(c, ok, retry), deadline),
           retry = TRUE => (Undisturbed => Unready')
    PROVE  Proceeds(c, calls'[c])
<1> DEFINE call == Outcome(c, ok, retry)
           to(pc) == [call EXCEPT !.pc = pc]
<1>0. calls[c] \in CallType
  BY StreamsTyped DEF RouteInv
<1>1. call \in CallType /\ call.id = calls[c].id /\ call.retry = retry
  BY <1>0 DEF Outcome, CallType, MaybeSubConn
<1>2. calls'[c] \in {Affinity(call), to("gotResp"), NoCall, to("count")}
  BY SetTo DEF Done, Local
<1>3. \A pc : to(pc).pc = pc /\ to(pc).id = call.id /\ to(pc).retry = call.retry
  BY <1>1 DEF CallType
<1>4. calls[c].pc # "none"
  BY DEF HoldingPCs
<1> HIDE DEF call, to
<1>5. Proceeds(c, Affinity(call))
  BY <1>1, <1>4, AffinityProceeds
<1>6. Proceeds(c, to("gotResp")) /\ Proceeds(c, to("count"))
  BY <1>1, <1>3, <1>4, EndsProceeds DEF SentBack, DonePCs
<1> QED
  BY <1>2, <1>5, <1>6, OverProceeds

LEMMA PlaceProceeds ==
    ASSUME RouteInv, NEW c \in Call, Place(c)
    PROVE  Proceeds(c, calls'[c])
<1> DEFINE new == [calls[c] EXCEPT !.pc = "running"]
<1>0. calls[c] \in CallType /\ calls[c].pc = "picked"
  BY StreamsTyped DEF RouteInv, Place
<1>1. CASE Quietly(c, new)
  <2>1. calls'[c] = new
    BY <1>1, SetTo DEF Quietly, Local
  <2>2. /\ new.pc = "running" /\ new.id = calls[c].id /\ new.cmd = calls[c].cmd /\ new.ref = calls[c].ref
        /\ new.sc = calls[c].sc /\ new.retry = calls[c].retry
    BY <1>0 DEF CallType
  <2> HIDE DEF new
  <2> QED
    BY <1>0, <2>1, <2>2 DEF Proceeds, RouteOK, SentBack, LockingPCs, ChoosingPCs,
   FallbackPCs, HoldingPCs
<1>2. CASE /\ conn[calls[c].sc] # "Ready" \/ calls[c].sc \in removed
           /\ Done(c, Outcome(c, TRUE, TRUE), FALSE)
  <2>1. ASSUME Undisturbed PROVE Unready
    <3>1. calls[c].sc \in Pool
      BY <1>0, <2>1 DEF RouteInv, HoldingPCs
    <3>2. ~Refreshes
      BY <2>1, PoolsTyped DEF Refreshes, Undisturbed, RouteInv, initializeConfig, ConfigType
    <3>3. removed = {}
      BY <3>2 DEF RouteInv, PkInv, BInv, FInv, Placed
    <3>4. scStates[calls[c].sc] = conn[calls[c].sc]
      BY <3>1 DEF RouteInv, PkInv, BInv, IInv, Linked, RefsConsistent, Pool
    <3> QED
      BY <1>2, <3>1, <3>3, <3>4 DEF Unready
  <2>2. UNCHANGED <<cp, scRefs, scStates>>
    BY <1>2 DEF Done, Local, balancerVars, vars, poolVars
  <2>3. Undisturbed => Unready'
    BY <2>1, <2>2 DEF Unready, Pool
  <2> QED
    BY <1>0, <1>2, <2>3, DoneProceeds DEF HoldingPCs
<1> QED
  BY <1>1, <1>2 DEF Place

LEMMA FinishProceeds ==
    ASSUME RouteInv, NEW c \in Call, Finish(c)
    PROVE  Proceeds(c, calls'[c])
BY DoneProceeds DEF Finish, HoldingPCs

LEMMA GotRespProceeds ==
    ASSUME RouteInv, NEW c \in Call, GotResp(c)
    PROVE  Proceeds(c, calls'[c])
<1> DEFINE next == [calls EXCEPT ![c] = Affinity(calls[c])]
<1>0. calls[c] \in CallType /\ calls[c].pc = "gotResp"
  BY StreamsTyped DEF RouteInv, GotResp
<1>1. Affinity(calls[c]).pc \notin HoldingPCs
  BY <1>0 DEF Affinity, Waits, NoCall, CallType, HoldingPCs
<1>2. next[c] = Affinity(calls[c])
  BY DEF RouteInv, PkInv
<1>3. calls' = Responding(next, calls[c].ref)
  BY DEF GotResp
<1> HIDE DEF next
<1>4. calls'[c] = Affinity(calls[c])
  BY <1>1, <1>2, <1>3 DEF Responding
<1> QED
  BY <1>0, <1>4, AffinityProceeds DEF SentBack

LEMMA CountProceeds ==
    ASSUME RouteInv, NEW c \in Call, Count(c)
    PROVE  Proceeds(c, calls'[c])
<1> DEFINE new == [calls[c] EXCEPT !.pc = "refresh"]
<1>0. calls[c] \in CallType /\ calls[c].pc = "count"
  BY StreamsTyped DEF RouteInv, Count
<1>1. calls'[c] = new \/ calls'[c] = NoCall
  <2>1. calls' = [calls EXCEPT ![c] = new] \/ calls' = [calls EXCEPT ![c] = NoCall]
    BY DEF Count
  <2> QED
    BY <2>1, SetTo
<1>2. new.pc = "refresh" /\ new.id = calls[c].id /\ new.retry = calls[c].retry
  BY <1>0 DEF CallType
<1> HIDE DEF new
<1> QED
  BY <1>0, <1>1, <1>2, OverProceeds, EndsProceeds DEF SentBack, DonePCs

LEMMA RefreshProceeds ==
    ASSUME RouteInv, NEW c \in Call, Refresh(c)
    PROVE  Proceeds(c, calls'[c])
BY SetTo, OverProceeds DEF Refresh

LEMMA ReadSubConnProceeds ==
    ASSUME RouteInv, NEW c \in Call, ReadSubConn(c)
    PROVE  Proceeds(c, calls'[c])
<1> DEFINE failed == [calls[c] EXCEPT !.ok = FALSE]
           new == [calls[c] EXCEPT !.pc = "update", !.sc = refs[calls[c].ref].subConn]
<1>0. calls[c] \in CallType /\ calls[c].pc = "affinity"
  BY StreamsTyped DEF RouteInv, ReadSubConn
<1>1. calls'[c] \in {new, Affinity(failed)}
  BY SetTo DEF ReadSubConn, Quietly, Local
<1>2. new.pc = "update" /\ new.id = calls[c].id /\ new.retry = calls[c].retry
  BY <1>0 DEF CallType
<1>3. failed \in CallType /\ failed.id = calls[c].id /\ failed.retry = calls[c].retry
  BY <1>0 DEF CallType
<1> HIDE DEF failed, new
<1> QED
  BY <1>0, <1>1, <1>2, <1>3, EndsProceeds, AffinityProceeds DEF SentBack, DonePCs

LEMMA UpdateAffinityProceeds ==
    ASSUME RouteInv, NEW c \in Call, UpdateAffinity(c)
    PROVE  Proceeds(c, calls'[c])
<1> DEFINE done == [calls[c] EXCEPT !.ok = FALSE, !.sc = NoSubConn]
<1>0. calls[c] \in CallType /\ calls[c].pc = "update"
  BY StreamsTyped DEF RouteInv, UpdateAffinity
<1>1. calls'[c] = Affinity(done)
  BY SetTo DEF UpdateAffinity
<1>2. done \in CallType /\ done.id = calls[c].id /\ done.retry = calls[c].retry
  BY <1>0 DEF CallType, MaybeSubConn
<1> HIDE DEF done
<1> QED
  BY <1>0, <1>1, <1>2, AffinityProceeds DEF SentBack

LEMMA CallProceeds ==
    ASSUME RouteInv, NEW c \in Call, CallNext(c)
    PROVE  Proceeds(c, calls'[c])
BY StartProceeds, LockProceeds, ReadCountProceeds, ScanRefProceeds, EndScanProceeds,
   EndFallbackProceeds, CheckSizeProceeds, GrowProceeds, NextPickerProceeds, RoundRobinProceeds,
   RoundRobinReadyProceeds, PlaceProceeds, FinishProceeds, GotRespProceeds, CountProceeds, RefreshProceeds, ReadSubConnProceeds, UpdateAffinityProceeds
   DEF CallNext

-----------------------------------------------------------------------------
(***************************************************************************)
(* What a step does to the balancer.                                       *)
(***************************************************************************)

LEMMA CallKeepsBalancer ==
    ASSUME PkInv, NEW c \in Call, CallNext(c)
    PROVE  /\ UNCHANGED <<cp, pickerId, cfg, picker, cc>>
           /\ mu' = "enforceMinSize" => mu = "enforceMinSize"
           /\ \/ Pool' = Pool /\ UNCHANGED scStates
              \/ calls[c].pc = "grow" /\ \E sc \in SubConn : Added(sc)
<1> USE DEF balancerVars, vars, poolVars, aggrVars
<1>0. UNCHANGED <<cp, pickerId>>
  BY CallKeepsPool
<1>1. CASE Grow(c)
  <2>1. calls[c].pc = "grow" /\ GrowPool /\ IInv
    BY <1>1 DEF Grow, PkInv, BInv
  <2> QED
    BY <1>0, <2>1, GrowthSteps DEF Pool
<1> DEFINE Kept == /\ UNCHANGED <<cfg, picker, cc, scRefs, scStates>>
                   /\ mu' = "enforceMinSize" => mu = "enforceMinSize"
<1>2. CASE Kept
  BY <1>0, <1>2 DEF Pool
<1>3. LockPicker(c) \/ EndFallback(c) => Kept
  BY DEF LockPicker, PickBound, PickFallback, CreateFallback, StartScan, Begins, EndFallback, Quietly,
     Local, PicksRef
<1>4. ASSUME \/ \E cmd \in Commands, k \in Key \cup {NoSubConn} : StartCall(c, cmd, k)
             \/ ReadCount(c) \/ \E ref \in SubConn : ScanRef(c, ref)
             \/ EndScan(c) \/ CheckSize(c) \/ NextPicker(c) \/ RoundRobin(c) \/ RoundRobinReady(c)
      PROVE  Kept
  BY <1>4 DEF StartCall, ReadCount, ScanRef, EndScan, CheckSize, NextPicker, RoundRobin, RoundRobinReady,
     Quietly, Local, PicksRef
<1>5. Place(c) \/ Finish(c) \/ ReadSubConn(c) => Kept
  BY DEF Place, Finish, Done, ReadSubConn, Quietly, Local
<1>6. GotResp(c) \/ Count(c) \/ Refresh(c) => Kept
  BY DEF GotResp, gotResp, Count, deCallsInc, Refresh, refresh
<1>7. UpdateAffinity(c) => Kept
  BY DEF UpdateAffinity, bindSubConn, unbindSubConn
<1> HIDE DEF Kept
<1> QED
  BY <1>1, <1>2, <1>3, <1>4, <1>5, <1>6, <1>7 DEF CallNext

\* The state of sc is recorded, or sc becomes the SubConn of a refreshed channel.
Reported ==
    /\ mu = "free"
    /\ UNCHANGED <<mu, cfg>>
    /\ NewPickerId
    /\ \/ UNCHANGED <<scRefs, scStates>>
       \/ \E sc \in SubConn, s \in ConnState : Recorded(sc, s) /\ (s = "Shutdown" => LiveShutdown)
       \/ /\ refreshingScRefs # [sc \in SubConn |-> NoSubConn]
          /\ \E sc, ref, oldSc \in SubConn : Replaced(sc, ref, oldSc)

\* The pool is configured or grown to its minimum.
Configured ==
    /\ UNCHANGED <<pickerId, picker, cc>>
    /\ \/ /\ UNCHANGED <<scRefs, scStates>>
          /\ cfg' = cfg \/ (cfg = NoConfig /\ cfg' = initializeConfig(cp.balancer))
          /\ mu' = "enforceMinSize" => mu = "enforceMinSize" \/ cfg = NoConfig
       \/ /\ UNCHANGED <<mu, cfg>>
          /\ mu = "enforceMinSize" /\ Cardinality(Pool) < cfg.minSize
          /\ UNCHANGED <<scRefs, scStates>> \/ \E sc \in SubConn : Added(sc)

LEMMA ReportedSteps ==
    ASSUME PkInv, NEW sc \in SubConn, NEW s \in cp.reported, SubConnUpdate(sc, s)
    PROVE  Reported /\ (cc.served => cc'.served)
<1>0. s \in ConnState /\ IInv
  BY PoolsTyped DEF PkInv, BInv
<1>1. UpdateSubConnState(sc, s) /\ NewPickerId /\ sc \notin removed
  BY DEF SubConnUpdate
<1>2. cc.served => cc'.served
  <2>1. cc' = cc \/ UpdateState
    BY <1>1 DEF UpdateSubConnState, ReplaceSubConn, HandleStateChange, aggrVars
  <2>2. ASSUME UpdateState, cc.served PROVE cc'.served
    <3> DEFINE now == cc.served \/ picker'.refs # {}
    <3>1. now = TRUE
      BY <2>2
    <3>2. cc'.served = now
      <4> HIDE DEF now
      <4>1. cc' = [state |-> state', picker |-> picker', served |-> now]
        BY <2>2 DEF UpdateState, now
      <4> QED
        BY <4>1
    <3> QED
      BY <3>1, <3>2
  <2> QED
    BY <2>1, <2>2
<1>3. /\ mu = "free" /\ UNCHANGED <<mu, cfg>>
      /\ s = "Shutdown" => LiveShutdown
      /\ \/ Ignored(sc) \/ Recorded(sc, s)
         \/ \E ref, oldSc \in SubConn : Replaced(sc, ref, oldSc)
  BY <1>0, <1>1, ReportSteps
<1>4. ASSUME NEW ref \in SubConn, NEW oldSc \in SubConn, Replaced(sc, ref, oldSc)
      PROVE  refreshingScRefs # [x \in SubConn |-> NoSubConn]
  BY <1>4 DEF Replaced
<1> QED
  BY <1>0, <1>1, <1>2, <1>3, <1>4 DEF Reported, Ignored, poolVars

LEMMA ConfiguredSteps ==
    ASSUME RouteInv, ClientConnUpdate
    PROVE  Configured
<1> USE DEF poolVars, aggrVars
<1>0. IInv
  BY DEF RouteInv, PkInv, BInv
<1>1. CASE enforceMinSize
  BY <1>0, <1>1, GrowthSteps DEF ClientConnUpdate, Configured, enforceMinSize
<1>2. CASE UpdateClientConnState /\ cfg' \in {cfg, initializeConfig(cp.balancer)}
  <2>1. cfg # NoConfig => cfg' = cfg
    BY <1>2 DEF UpdateClientConnState
  <2> QED
    BY <1>0, <1>2, <2>1, ConfigSteps DEF ClientConnUpdate, Configured, PoolUpdated
<1>3. CASE MinSizeReached
  BY <1>0, <1>3, ConfigSteps DEF ClientConnUpdate, Configured, PoolUpdated, MinSizeReached
<1> QED
  BY <1>1, <1>2, <1>3 DEF ClientConnUpdate

\* The locals of an RPC that only others change.
SameLocals(call, new) ==
    /\ new.pc = call.pc /\ new.id = call.id /\ new.cmd = call.cmd /\ new.ref = call.ref
    /\ new.cnt = call.cnt /\ new.sc = call.sc /\ new.retry = call.retry

LEMMA LateSame == ASSUME PkInv, NEW x \in Call PROVE SameLocals(calls[x], Late(calls[x]))
BY DEF PkInv, LocalsOK, CallType, SameLocals, Late

LEMMA OthersSame ==
    ASSUME RouteInv, NEW c \in Call, CallNext(c)
    PROVE  \A x \in Call \ {c} : SameLocals(calls[x], calls'[x])
<1>1. PICK new : Moves(c, new)
  BY CallMovesOnly DEF SomeMove, RouteInv
<1> QED
  BY <1>1, LateSame DEF Moves, OthersStay, RouteInv, SameLocals

Event == ClientConnUpdate \/ \E sc \in SubConn, s \in cp.reported : SubConnUpdate(sc, s)

LEMMA EventSteps ==
    ASSUME RouteInv, Event
    PROVE  /\ UNCHANGED <<cp, streamsCnt>>
           /\ \A x \in Call : SameLocals(calls[x], calls'[x])
           /\ cc.served => cc'.served
           /\ Reported \/ Configured
<1>1. /\ UNCHANGED <<cp, streamsCnt, rrRefId>>
      /\ \A x \in Call : calls'[x] = calls[x] \/ calls'[x] = Late(calls[x])
  BY ReportKeepsCalls DEF Event, RouteInv
<1>2. \A x \in Call : SameLocals(calls[x], calls'[x])
  BY <1>1, LateSame DEF RouteInv, SameLocals
<1>3. (cc.served => cc'.served) /\ (Reported \/ Configured)
  BY ReportedSteps, ConfiguredSteps DEF Event, RouteInv, Configured
<1> QED
  BY <1>1, <1>2, <1>3

\* Without refreshes and shutdowns a report changes no more than a state.
LEMMA QuietReport ==
    ASSUME RouteInv, Undisturbed, Reported
    PROVE  /\ Pool' = Pool
           /\ \/ UNCHANGED <<scRefs, scStates>>
              \/ /\ UNCHANGED refs
                 /\ \E sc \in SubConn, s \in ConnState : scStates' = [scStates EXCEPT ![sc] = s]
<1>1. ~Refreshes
  BY PoolsTyped DEF Refreshes, Undisturbed, RouteInv, initializeConfig, ConfigType
<1>2. refreshingScRefs = [sc \in SubConn |-> NoSubConn]
  <2>1. \A sc \in SubConn : refreshingScRefs[sc] = NoSubConn
    BY <1>1 DEF RouteInv, PkInv, BInv, FInv, Placed
  <2>2. refreshingScRefs = [sc \in SubConn |-> refreshingScRefs[sc]]
    BY DEF RouteInv, PkInv, BInv, IInv, TypeOK, PoolTypeOK
  <2> QED
    BY <2>1, <2>2
<1>3. \/ UNCHANGED <<scRefs, scStates>>
      \/ \E sc \in SubConn, s \in ConnState : Recorded(sc, s) /\ s # "Shutdown"
  BY <1>2 DEF Reported, Undisturbed
<1> QED
  BY <1>3 DEF Recorded, Pool

LEMMA InitRoute == PickerInit => RouteInv
<1> SUFFICES ASSUME PickerInit PROVE RouteInv
  OBVIOUS
<1>1. \A c \in Call : calls[c] = NoCall
  BY DEF PickerInit
<1>2. cfg = NoConfig /\ mu = "free"
  BY DEF PickerInit, Init
<1> QED
  BY <1>1, <1>2, InitPk DEF RouteInv, NoCall, RouteOK, HoldingPCs

LEMMA NextRoute == RouteInv /\ [PickerNext]_pickerVars => RouteInv'
<1> SUFFICES ASSUME RouteInv, [PickerNext]_pickerVars PROVE RouteInv'
  OBVIOUS
<1>0. PkInv' /\ LiveRefs \subseteq LiveRefs'
  BY NextPk, PickerIsBalancerStep, BNext DEF RouteInv, PkInv
<1> DEFINE Routed(c) == /\ RouteOK(calls[c])
                        /\ calls[c].pc # "none" => cc.served /\ LiveRefs # {}
                        /\ Undisturbed /\ calls[c].pc \in HoldingPCs => calls[c].sc \in Pool
<1>1. ASSUME NEW x \in Call, SameLocals(calls[x], calls'[x]), cc.served => cc'.served,
             UNCHANGED cp, Undisturbed => Pool \subseteq Pool'
      PROVE  Routed(x)'
  BY <1>0, <1>1 DEF RouteInv, SameLocals, RouteOK, Undisturbed
<1>2. ASSUME NEW c \in Call, CallNext(c) PROVE RouteInv'
  <2>1. /\ UNCHANGED <<cp, cfg, cc>> /\ Pool \subseteq Pool'
        /\ mu' = "enforceMinSize" => mu = "enforceMinSize"
    BY <1>2, CallKeepsBalancer, CallKeepsChannels DEF RouteInv
  <2>2. Proceeds(c, calls'[c])
    BY <1>2, CallProceeds
  <2>3. RouteOK(calls'[c])
    BY <2>2 DEF Proceeds
  <2>4. calls'[c].pc # "none" => cc.served /\ LiveRefs # {}
    BY <2>2 DEF Proceeds, RouteInv
  <2>5. ASSUME Undisturbed, calls'[c].pc \in HoldingPCs PROVE calls'[c].sc \in Pool
    <3>1. CASE calls[c].pc \in HoldingPCs
      BY <2>2, <2>5, <3>1 DEF Proceeds, RouteInv
    <3>2. CASE calls[c].pc \notin HoldingPCs
      <4>1. calls'[c].ref \in LiveRefs /\ calls'[c].sc = refs[calls'[c].ref].subConn
        BY <2>2, <2>5, <3>2 DEF Proceeds
      <4> QED
        BY <2>5, <4>1 DEF LiveRefs, Undisturbed, RouteInv, PkInv, BInv, FInv, Placed
    <3> QED
      BY <3>1, <3>2
  <2>6. Routed(c)'
    BY <1>0, <2>1, <2>3, <2>4, <2>5 DEF Undisturbed
  <2>7. \A x \in Call \ {c} : Routed(x)'
    BY <1>1, <1>2, <2>1, OthersSame
  <2> HIDE DEF Routed
  <2>8. \A x \in Call : Routed(x)'
    BY <2>6, <2>7
  <2> USE DEF Routed
  <2> QED
    BY <1>0, <2>1, <2>8 DEF RouteInv
<1>3. CASE Event
  <2>1. /\ UNCHANGED cp
        /\ cc.served => cc'.served
        /\ \A x \in Call : SameLocals(calls[x], calls'[x])
        /\ Reported \/ Configured
    BY <1>3, EventSteps
  <2>2. Undisturbed => Pool \subseteq Pool'
    BY <2>1, QuietReport DEF Configured, Added, Pool
  <2>3. \A x \in Call : Routed(x)'
    BY <1>1, <2>1, <2>2
  <2>4. cfg' \in {NoConfig, initializeConfig(cp.balancer)}
    BY <2>1 DEF Reported, Configured, RouteInv
  <2>5. mu' = "enforceMinSize" => ~cc'.served
    <3>1. cfg = NoConfig => ~cc.served
      BY DEF RouteInv, PkInv, BInv, FInv, ConfigFirst
    <3> QED
      BY <2>1, <3>1 DEF Reported, Configured, RouteInv
  <2> QED
    BY <1>0, <2>1, <2>3, <2>4, <2>5 DEF RouteInv
<1>4. CASE UNCHANGED pickerVars
  BY <1>0, <1>4 DEF pickerVars, balancerVars, vars, poolVars, aggrVars, RouteInv, RouteOK, Undisturbed, Pool
<1> QED
  BY <1>2, <1>3, <1>4 DEF PickerNext, Event

THEOREM RouteInvariance == PickerSpec => []RouteInv
BY InitRoute, NextRoute, PTL DEF PickerSpec

-----------------------------------------------------------------------------
(***************************************************************************)
(* The size of the pool.                                                   *)
(***************************************************************************)

LEMMA PoolFinite ==
    /\ IsFiniteSet(Pool) /\ Cardinality(Pool) \in Nat
    /\ IsFiniteSet(Pool') /\ Cardinality(Pool') \in Nat
BY SubConnAssumption, FS_Subset, FS_CardinalityType DEF Pool

LEMMA AddedSize ==
    ASSUME NEW sc \in SubConn, Added(sc)
    PROVE  Cardinality(Pool') = Cardinality(Pool) + 1
BY PoolFinite, FS_AddElement DEF Added

LEMMA CallSize ==
    ASSUME PkInv, NEW c \in Call, CallNext(c)
    PROVE  \/ Cardinality(Pool') = Cardinality(Pool)
           \/ calls[c].pc = "grow" /\ Cardinality(Pool') = Cardinality(Pool) + 1
BY CallKeepsBalancer, AddedSize

LEMMA ReportedSize ==
    ASSUME RouteInv, Reported, ~LiveShutdown
    PROVE  Cardinality(Pool') = Cardinality(Pool)
<1>1. CASE UNCHANGED scRefs
  BY <1>1 DEF Pool
<1>2. ASSUME NEW sc \in SubConn, NEW s \in ConnState, Recorded(sc, s), s # "Shutdown"
      PROVE  Pool' = Pool
  BY <1>2 DEF Recorded
<1>3. ASSUME NEW sc \in SubConn, NEW ref \in SubConn, NEW oldSc \in SubConn, Replaced(sc, ref, oldSc)
      PROVE  Cardinality(Pool') = Cardinality(Pool)
  <2>1. oldSc \in Pool /\ sc \notin Pool \ {oldSc} /\ Pool' = (Pool \ {oldSc}) \cup {sc}
    BY <1>3, SubConnAssumption DEF Replaced, RouteInv, PkInv, BInv, FInv, Placed
  <2>2. IsFiniteSet(Pool \ {oldSc}) /\ Cardinality(Pool \ {oldSc}) = Cardinality(Pool) - 1
    BY <2>1, PoolFinite, FS_RemoveElement
  <2>3. Cardinality(Pool') = Cardinality(Pool \ {oldSc}) + 1
    BY <2>1, <2>2, FS_AddElement
  <2> QED
    BY <2>2, <2>3, PoolFinite
<1> QED
  BY <1>1, <1>2, <1>3 DEF Reported

LEMMA ConfiguredSize ==
    ASSUME Configured
    PROVE  \/ Cardinality(Pool') = Cardinality(Pool)
           \/ /\ mu = "enforceMinSize" /\ Cardinality(Pool) < cfg.minSize
              /\ Cardinality(Pool') = Cardinality(Pool) + 1
<1>1. CASE UNCHANGED scRefs
  BY <1>1 DEF Pool
<1> QED
  BY <1>1, AddedSize DEF Configured

\* A pool that has no room for another channel never has it again.
LEMMA PoolStaysFull ==
    ASSUME RouteInv, [PickerNext]_pickerVars, ~LiveShutdown, MayGrow'
    PROVE  MayGrow
<1>1. CASE \E c \in Call : CallNext(c)
  BY <1>1, CallSize, CallKeepsPool, PoolFinite, PoolsTyped DEF RouteInv, MayGrow
<1>2. CASE Event
  <2>1. UNCHANGED cp /\ (Reported \/ Configured)
    BY <1>2, EventSteps
  <2> QED
    BY <2>1, ReportedSize, ConfiguredSize, PoolFinite, PoolsTyped DEF RouteInv, MayGrow
<1>3. CASE UNCHANGED pickerVars
  BY <1>3 DEF pickerVars, balancerVars, vars, poolVars, MayGrow, Pool
<1> QED
  BY <1>1, <1>2, <1>3 DEF PickerNext, Event

-----------------------------------------------------------------------------
(***************************************************************************)
(* The low watermark: what a scan has counted is not exceeded, because no  *)
(* other RPC without a key is given a channel by the same picker.          *)
(***************************************************************************)

\* The RPCs without affinity that the picker i put on the channel ref.
PutOn(f, ref, i) ==
    {x \in Call : f[x].pc \in HoldingPCs /\ f[x].ref = ref /\ f[x].id = i /\ f[x].cmd = "NONE"}

\* p.mu is held by one RPC at a time.
OnePerPicker ==
    \A x, y \in Call :
        (calls[x].pc \in LockingPCs /\ calls[y].pc \in LockingPCs /\ calls[x].id = calls[y].id)
            => x = y

\* The counter that a scan has chosen counts at least the RPCs of its picker.
ScanCounted(c) ==
    calls[c].pc = "scan" =>
        Cardinality(PutOn(calls, calls[c].ref, calls[c].id)) <= calls[c].cnt

UpToWatermark ==
    \A ref, i : Cardinality(PutOn(calls, ref, i)) <= cp.maxStreams

LockInv ==
    /\ RouteInv
    /\ OnePerPicker
    /\ MayGrow /\ ~LiveShutdown => UpToWatermark /\ \A c \in Call : ScanCounted(c)

LEMMA PlacedFinite ==
    ASSUME NEW f, NEW ref, NEW i
    PROVE  IsFiniteSet(PutOn(f, ref, i)) /\ Cardinality(PutOn(f, ref, i)) \in Nat
<1>1. PutOn(f, ref, i) \subseteq Call
  BY DEF PutOn
<1> QED
  BY <1>1, CallAssumption, FS_Subset, FS_CardinalityType

LEMMA InitLock == PickerInit => LockInv
<1> SUFFICES ASSUME PickerInit PROVE LockInv
  OBVIOUS
<1>1. \A c \in Call : calls[c] = NoCall
  BY DEF PickerInit
<1>2. \A ref, i : PutOn(calls, ref, i) = {}
  BY <1>1 DEF PutOn, NoCall, HoldingPCs
<1>3. UpToWatermark
  BY <1>2, InitRoute, PoolsTyped, FS_EmptySet DEF UpToWatermark, RouteInv
<1>4. \A c \in Call : calls[c].pc = "none"
  BY <1>1 DEF NoCall
<1> QED
  BY <1>3, <1>4, InitRoute DEF LockInv, OnePerPicker, ScanCounted, LockingPCs, ChoosingPCs, FallbackPCs

\* A step of c that gives c no channel as an RPC without affinity.
LEMMA PlacedShrinks ==
    ASSUME NEW c \in Call, Proceeds(c, calls'[c]),
           \A x \in Call \ {c} : SameLocals(calls[x], calls'[x]),
           calls[c].pc \in HoldingPCs \/ calls'[c].pc \notin HoldingPCs \/ calls'[c].cmd # "NONE",
           NEW ref, NEW i
    PROVE  Cardinality(PutOn(calls', ref, i)) <= Cardinality(PutOn(calls, ref, i))
<1>1. PutOn(calls', ref, i) \subseteq PutOn(calls, ref, i)
  BY DEF PutOn, Proceeds, SameLocals
<1> QED
  BY <1>1, PlacedFinite, FS_Subset

\* And one that does.
LEMMA PlacedGrows ==
    ASSUME NEW c \in Call, \A x \in Call \ {c} : SameLocals(calls[x], calls'[x]),
           calls[c].pc \notin HoldingPCs,
           NEW ref, NEW i
    PROVE  Cardinality(PutOn(calls', ref, i)) <=
               Cardinality(PutOn(calls, ref, i)) + (IF ref = calls'[c].ref /\ i = calls'[c].id THEN 1 ELSE 0)
<1>1. PutOn(calls', ref, i) \subseteq IF ref = calls'[c].ref /\ i = calls'[c].id
                                       THEN PutOn(calls, ref, i) \cup {c} ELSE PutOn(calls, ref, i)
  BY DEF PutOn, SameLocals
<1>2. c \notin PutOn(calls, ref, i)
  BY DEF PutOn
<1>3. /\ IsFiniteSet(PutOn(calls, ref, i) \cup {c})
      /\ Cardinality(PutOn(calls, ref, i) \cup {c}) = Cardinality(PutOn(calls, ref, i)) + 1
  BY <1>2, PlacedFinite, FS_AddElement
<1>4. /\ Cardinality(PutOn(calls', ref, i)) \in Nat /\ Cardinality(PutOn(calls, ref, i)) \in Nat
      /\ IsFiniteSet(PutOn(calls, ref, i))
  BY PlacedFinite
<1>5. CASE ref = calls'[c].ref /\ i = calls'[c].id
  <2>1. PutOn(calls', ref, i) \subseteq PutOn(calls, ref, i) \cup {c}
    BY <1>1, <1>5
  <2> QED
    BY <1>3, <1>5, <2>1, FS_Subset
<1>6. CASE ~(ref = calls'[c].ref /\ i = calls'[c].id)
  <2>1. PutOn(calls', ref, i) \subseteq PutOn(calls, ref, i)
    BY <1>1, <1>6
  <2>2. Cardinality(PutOn(calls', ref, i)) <= Cardinality(PutOn(calls, ref, i))
    BY <1>4, <2>1, FS_Subset
  <2> QED
    BY <1>4, <1>6, <2>2
<1> QED
  BY <1>5, <1>6

LEMMA CallLock ==
    ASSUME LockInv, RouteInv', NEW c \in Call, CallNext(c), MayGrow' /\ ~LiveShutdown => MayGrow
    PROVE  LockInv'
<1> DEFINE call == calls[c]
           new == calls'[c]
<1>0. /\ Proceeds(c, new) /\ UNCHANGED cp
      /\ \A x \in Call \ {c} : SameLocals(calls[x], calls'[x])
  BY CallProceeds, OthersSame, CallKeepsPool DEF LockInv, RouteInv
<1>1. OnePerPicker'
  <2>1. ASSUME NEW y \in Call \ {c}, new.pc \in LockingPCs, calls[y].pc \in LockingPCs,
               new.id = calls[y].id
        PROVE  FALSE
    BY <1>0, <2>1 DEF Proceeds, Locked, LockInv, OnePerPicker
  <2> HIDE DEF new
  <2> SUFFICES ASSUME NEW x \in Call, NEW y \in Call, x # y, calls'[x].id = calls'[y].id,
                      calls'[x].pc \in LockingPCs, calls'[y].pc \in LockingPCs
               PROVE  FALSE
    BY DEF OnePerPicker
  <2>2. CASE x = c
    BY <1>0, <2>1, <2>2 DEF SameLocals, new
  <2>3. CASE y = c
    BY <1>0, <2>1, <2>3 DEF SameLocals, new
  <2>4. CASE x # c /\ y # c
    BY <1>0, <2>4 DEF LockInv, OnePerPicker, SameLocals
  <2> QED
    BY <2>2, <2>3, <2>4
<1>2. ASSUME MayGrow', ~LiveShutdown PROVE UpToWatermark' /\ \A x \in Call : ScanCounted(x)'
  <2>0. /\ MayGrow /\ UpToWatermark /\ \A x \in Call : ScanCounted(x)
        /\ cp.maxStreams \in Nat
    BY <1>2, PoolsTyped DEF LockInv, RouteInv
  <2>1. CASE call.pc \in HoldingPCs \/ new.pc \notin HoldingPCs \/ new.cmd # "NONE"
    <3>1. \A ref, i : /\ Cardinality(PutOn(calls', ref, i)) <= Cardinality(PutOn(calls, ref, i))
                      /\ Cardinality(PutOn(calls', ref, i)) \in Nat
                      /\ Cardinality(PutOn(calls, ref, i)) \in Nat
      BY <1>0, <2>1, PlacedShrinks, PlacedFinite
    <3>2. UpToWatermark'
      BY <1>0, <2>0, <3>1 DEF UpToWatermark
    <3>3. ASSUME NEW x \in Call \ {c} PROVE ScanCounted(x)'
      <4> SUFFICES ASSUME calls'[x].pc = "scan"
                   PROVE  Cardinality(PutOn(calls', calls'[x].ref, calls'[x].id)) <= calls'[x].cnt
        BY DEF ScanCounted
      <4>1. SameLocals(calls[x], calls'[x]) /\ calls[x].cnt \in Nat
        BY <1>0, StreamsTyped DEF LockInv, RouteInv, CallType
      <4>2. Cardinality(PutOn(calls, calls[x].ref, calls[x].id)) <= calls[x].cnt
        BY <2>0, <4>1 DEF ScanCounted, SameLocals
      <4>3. Cardinality(PutOn(calls', calls[x].ref, calls[x].id)) <= calls[x].cnt
        BY <3>1, <4>1, <4>2
      <4> QED
        BY <4>1, <4>3 DEF SameLocals
    <3>4. ScanCounted(c)'
      <4> SUFFICES ASSUME new.pc = "scan"
                   PROVE  Cardinality(PutOn(calls', new.ref, new.id)) <= new.cnt
        BY DEF ScanCounted
      <4>1. call.cnt \in Nat /\ new.id = call.id /\ new.ref = call.ref
        BY <1>0, StreamsTyped DEF LockInv, RouteInv, CallType, Proceeds, LockingPCs, ChoosingPCs
      <4>2. CASE call.pc = "scan" /\ new.cnt = call.cnt
        <5>1. Cardinality(PutOn(calls, call.ref, call.id)) <= call.cnt
          BY <2>0, <4>2 DEF ScanCounted
        <5> QED
          BY <3>1, <4>1, <4>2, <5>1
      <4>3. CASE call.pc = "read" /\ new.cnt = streamsCnt[new.ref]
        <5>0. call.ref \in SubConn
          BY <4>3, StreamsTyped DEF LockInv, RouteInv, LocalsOK, LockingPCs, ChoosingPCs
        <5>1. new.cnt = Cardinality(HeldIn(calls, new.ref))
          BY <4>1, <4>3, <5>0 DEF LockInv, RouteInv, PkInv, StreamsExact, HeldIn
        <5>2. PutOn(calls, new.ref, new.id) \subseteq HeldIn(calls, new.ref)
          BY DEF PutOn, HeldIn
        <5>3. Cardinality(PutOn(calls, new.ref, new.id)) <= Cardinality(HeldIn(calls, new.ref))
          BY <5>2, HeldFinite, FS_Subset
        <5>4. Cardinality(HeldIn(calls, new.ref)) \in Nat
          BY HeldFinite
        <5> HIDE DEF new
        <5> QED
          BY <3>1, <5>1, <5>3, <5>4
      <4> QED
        BY <1>0, <4>2, <4>3 DEF Proceeds
    <3> QED
      BY <3>2, <3>3, <3>4
  <2>2. CASE call.pc \notin HoldingPCs /\ new.pc \in HoldingPCs /\ new.cmd = "NONE"
    <3>1. call.pc = "scan" /\ call.ref = new.ref /\ call.cnt < cp.maxStreams /\ new.id = call.id
      BY <1>0, <2>0, <2>2 DEF Proceeds
    <3>2. Cardinality(PutOn(calls, new.ref, new.id)) <= call.cnt /\ call.cnt \in Nat
      BY <2>0, <3>1, StreamsTyped DEF ScanCounted, LockInv, RouteInv, CallType
    <3>3. \A ref, i : /\ Cardinality(PutOn(calls', ref, i)) <= Cardinality(PutOn(calls, ref, i))
                            + (IF ref = new.ref /\ i = new.id THEN 1 ELSE 0)
                      /\ Cardinality(PutOn(calls', ref, i)) \in Nat
                      /\ Cardinality(PutOn(calls, ref, i)) \in Nat
      BY <1>0, <2>2, PlacedGrows, PlacedFinite
    <3>4. UpToWatermark'
      <4> SUFFICES ASSUME NEW ref, NEW i PROVE Cardinality(PutOn(calls', ref, i)) <= cp.maxStreams
        BY <1>0 DEF UpToWatermark
      <4>1. Cardinality(PutOn(calls, ref, i)) <= cp.maxStreams
        BY <2>0 DEF UpToWatermark
      <4> HIDE DEF call, new
      <4>2. CASE ref = new.ref /\ i = new.id
        BY <2>0, <3>1, <3>2, <3>3, <4>2
      <4>3. CASE ~(ref = new.ref /\ i = new.id)
        <5>1. Cardinality(PutOn(calls', ref, i)) <= Cardinality(PutOn(calls, ref, i)) + 0
          BY <3>3, <4>3
        <5> QED
          BY <2>0, <3>3, <4>1, <5>1
      <4> QED
        BY <4>2, <4>3
    <3>5. ASSUME NEW x \in Call, calls'[x].pc = "scan"
          PROVE  Cardinality(PutOn(calls', calls'[x].ref, calls'[x].id)) <= calls'[x].cnt
      <4>1. x # c
        BY <2>2, <3>5 DEF HoldingPCs
      <4>2. SameLocals(calls[x], calls'[x]) /\ calls[x].cnt \in Nat
        BY <1>0, <4>1, StreamsTyped DEF LockInv, RouteInv, CallType
      <4>3. calls[x].id # new.id
        BY <3>1, <3>5, <4>1, <4>2 DEF LockInv, OnePerPicker, SameLocals, LockingPCs, ChoosingPCs
      <4>4. Cardinality(PutOn(calls, calls[x].ref, calls[x].id)) <= calls[x].cnt
        BY <2>0, <3>5, <4>2 DEF ScanCounted, SameLocals
      <4>5. Cardinality(PutOn(calls', calls[x].ref, calls[x].id)) <=
              Cardinality(PutOn(calls, calls[x].ref, calls[x].id)) + 0
        BY <3>3, <4>3
      <4> QED
        BY <3>3, <4>2, <4>4, <4>5 DEF SameLocals
    <3> QED
      BY <3>4, <3>5 DEF ScanCounted
  <2> QED
    BY <2>1, <2>2
<1> QED
  BY <1>1, <1>2 DEF LockInv

\* Where nothing changes for the RPCs.
LEMMA SameLock ==
    ASSUME LockInv, RouteInv', UNCHANGED cp, MayGrow' /\ ~LiveShutdown => MayGrow,
           \A x \in Call : SameLocals(calls[x], calls'[x])
    PROVE  LockInv'
<1>1. \A ref, i : PutOn(calls', ref, i) = PutOn(calls, ref, i)
  BY DEF PutOn, SameLocals
<1>2. UpToWatermark => UpToWatermark'
  BY <1>1 DEF UpToWatermark
<1>3. \A x \in Call : ScanCounted(x) => ScanCounted(x)'
  BY <1>1 DEF ScanCounted, SameLocals
<1>4. OnePerPicker'
  BY DEF LockInv, OnePerPicker, SameLocals
<1> QED
  BY <1>2, <1>3, <1>4 DEF LockInv

LEMMA NextLock == LockInv /\ [PickerNext]_pickerVars => LockInv'
<1> SUFFICES ASSUME LockInv, [PickerNext]_pickerVars PROVE LockInv'
  OBVIOUS
<1>1. RouteInv' /\ (MayGrow' /\ ~LiveShutdown => MayGrow)
  BY NextRoute, PoolStaysFull DEF LockInv
<1>2. ASSUME NEW c \in Call, CallNext(c) PROVE LockInv'
  BY <1>1, <1>2, CallLock
<1>3. CASE Event
  BY <1>1, <1>3, EventSteps, SameLock DEF LockInv
<1>4. CASE UNCHANGED pickerVars
  BY <1>1, <1>4, SameLock DEF pickerVars, SameLocals
<1> QED
  BY <1>2, <1>3, <1>4 DEF PickerNext, Event

\* While the pool may grow, a picker puts no more RPCs without affinity on a
\* channel than the low watermark, for any number of RPCs and pickers.
LEMMA LockedWatermark == ASSUME LockInv PROVE WatermarkPerPicker
<1> SUFFICES ASSUME MayGrow, ~LiveShutdown, NEW ref \in SubConn, NEW i \in 0..Cardinality(Call)
             PROVE  Cardinality({c \in Call : /\ calls[c].pc \in HoldingPCs /\ calls[c].ref = ref
                                              /\ calls[c].id = i /\ calls[c].cmd = "NONE"})
                        <= cp.maxStreams
  BY DEF WatermarkPerPicker
<1>1. Cardinality(PutOn(calls, ref, i)) <= cp.maxStreams
  BY DEF LockInv, UpToWatermark
<1>2. PutOn(calls, ref, i) = {c \in Call : /\ calls[c].pc \in HoldingPCs /\ calls[c].ref = ref
                                           /\ calls[c].id = i /\ calls[c].cmd = "NONE"}
  BY DEF PutOn
<1> QED
  BY <1>1, <1>2

-----------------------------------------------------------------------------
(***************************************************************************)
(* max_size: an RPC that found all channels busy was given the time by     *)
(* another that was on one of them.                                        *)
(***************************************************************************)

\* All that the RPC has seen are busy channels.
FoundBusy(call) ==
    \/ call.pc \in {"full", "grow"}
    \/ call.pc = "scan" /\ call.cnt > 0

Growing(f) == {c \in Call : f[c].pc = "grow"}

Overrun == IF Cardinality(Call) < 2 THEN 0 ELSE Cardinality(Call) - 2

SizeInv ==
    /\ RouteInv
    /\ \E c \in Call : ~FoundBusy(calls[c])
    /\ ~LiveShutdown => Cardinality(Pool) + Cardinality(Growing(calls)) <= PoolLimit + Overrun

LEMMA GrowingFinite ==
    ASSUME NEW f
    PROVE  IsFiniteSet(Growing(f)) /\ Cardinality(Growing(f)) \in Nat
<1>1. Growing(f) \subseteq Call
  BY DEF Growing
<1> QED
  BY <1>1, CallAssumption, FS_Subset, FS_CardinalityType

LEMMA LimitTyped ==
    ASSUME PkInv
    PROVE  /\ PoolLimit \in Nat /\ Overrun \in Nat /\ PoolLimit >= cp.maxSize
           /\ initializeConfig(cp.balancer).minSize \in Nat
           /\ PoolLimit >= initializeConfig(cp.balancer).minSize
<1>1. Cardinality(Call) \in Nat
  BY CallAssumption, FS_CardinalityType
<1>2. initializeConfig(cp.balancer).minSize \in Nat
  BY PoolsTyped DEF initializeConfig, ConfigType, defaultMinSize
<1> QED
  BY <1>1, <1>2, PoolsTyped DEF PoolLimit, Overrun

LEMMA InitSize == PickerInit => SizeInv
<1> SUFFICES ASSUME PickerInit PROVE SizeInv
  OBVIOUS
<1>1. \A c \in Call : calls[c].pc = "none"
  BY DEF PickerInit, NoCall
<1>2. Growing(calls) = {}
  BY <1>1 DEF Growing
<1>3. Pool = {}
  BY SubConnAssumption DEF PickerInit, Init, Pool
<1>4. RouteInv
  BY InitRoute
<1>5. Cardinality(Pool) + Cardinality(Growing(calls)) <= PoolLimit + Overrun
  BY <1>2, <1>3, <1>4, LimitTyped, FS_EmptySet DEF RouteInv
<1>6. \E c \in Call : ~FoundBusy(calls[c])
  BY <1>1, CallAssumption DEF FoundBusy
<1> QED
  BY <1>4, <1>5, <1>6 DEF SizeInv

\* The stream that the RPC found is that of another, which is not looking.
LEMMA SomeNotBusy ==
    ASSUME SizeInv, NEW c \in Call, CallNext(c)
    PROVE  \E x \in Call : ~FoundBusy(calls'[x])
<1> DEFINE call == calls[c]
           new == calls'[c]
<1>0. /\ Proceeds(c, new) /\ \A x \in Call \ {c} : SameLocals(calls[x], calls'[x])
      /\ call.cnt \in Nat /\ cp.maxStreams > 0 /\ cp.maxStreams \in Nat
  BY CallProceeds, OthersSame, StreamsTyped, PoolsTyped DEF SizeInv, RouteInv, CallType
<1>1. CASE ~FoundBusy(new)
  BY <1>1
<1>2. CASE FoundBusy(call)
  <2>1. PICK x \in Call : ~FoundBusy(calls[x])
    BY DEF SizeInv
  <2>2. x # c
    BY <1>2, <2>1
  <2> QED
    BY <1>0, <2>1, <2>2 DEF FoundBusy, SameLocals
<1>3. CASE ~FoundBusy(call) /\ FoundBusy(new)
  <2>0. /\ new.pc = "scan" /\ new.ref = call.ref /\ new.cnt > 0
        /\ new.cnt = streamsCnt[new.ref] /\ call.pc = "read"
    BY <1>0, <1>3 DEF Proceeds, FoundBusy
  <2>1. new.ref \in SubConn
    BY <2>0, StreamsTyped DEF SizeInv, RouteInv, LocalsOK, LockingPCs, ChoosingPCs
  <2>2. new.cnt = Cardinality(HeldIn(calls, new.ref))
    BY <2>0, <2>1 DEF SizeInv, RouteInv, PkInv, StreamsExact, HeldIn
  <2>3. HeldIn(calls, new.ref) # {}
    BY <2>0, <2>2, FS_EmptySet
  <2>4. PICK x \in Call : calls[x].pc \in HoldingPCs
    BY <2>3 DEF HeldIn
  <2>5. x # c
    BY <2>0, <2>4 DEF HoldingPCs
  <2> QED
    BY <1>0, <2>4, <2>5 DEF FoundBusy, SameLocals, HoldingPCs
<1> QED
  BY <1>1, <1>2, <1>3

LEMMA CallBounded ==
    ASSUME SizeInv, NEW c \in Call, CallNext(c), ~LiveShutdown
    PROVE  Cardinality(Pool') + Cardinality(Growing(calls')) <= PoolLimit + Overrun
<1> DEFINE call == calls[c]
           new == calls'[c]
<1>0. /\ Proceeds(c, new) /\ \A x \in Call \ {c} : SameLocals(calls[x], calls'[x])
      /\ Cardinality(Pool) + Cardinality(Growing(calls)) <= PoolLimit + Overrun
  BY CallProceeds, OthersSame DEF SizeInv
<1>t. /\ Cardinality(Pool) \in Nat /\ Cardinality(Pool') \in Nat
      /\ Cardinality(Growing(calls)) \in Nat /\ IsFiniteSet(Growing(calls))
      /\ Cardinality(Growing(calls')) \in Nat /\ IsFiniteSet(Growing(calls'))
      /\ PoolLimit \in Nat /\ Overrun \in Nat /\ PoolLimit >= cp.maxSize /\ cp.maxSize \in Nat
  BY PoolFinite, GrowingFinite, LimitTyped, PoolsTyped DEF SizeInv, RouteInv
<1>1. CASE new.pc # "grow" /\ Cardinality(Pool') = Cardinality(Pool)
  <2>1. Growing(calls') \subseteq Growing(calls)
    BY <1>0, <1>1 DEF Growing, SameLocals
  <2>2. Cardinality(Growing(calls')) <= Cardinality(Growing(calls))
    BY <1>t, <2>1, FS_Subset
  <2> QED
    BY <1>0, <1>1, <1>t, <2>2
<1>2. CASE call.pc = "grow" /\ Cardinality(Pool') = Cardinality(Pool) + 1
  <2>1. new.pc # "grow"
    BY <1>0, <1>2 DEF Proceeds
  <2>2. Growing(calls') \subseteq Growing(calls) \ {c}
    BY <1>0, <2>1 DEF Growing, SameLocals
  <2>3. c \in Growing(calls)
    BY <1>2 DEF Growing
  <2>4. /\ IsFiniteSet(Growing(calls) \ {c})
        /\ Cardinality(Growing(calls) \ {c}) = Cardinality(Growing(calls)) - 1
    BY <1>t, <2>3, FS_RemoveElement
  <2>5. Cardinality(Growing(calls')) <= Cardinality(Growing(calls) \ {c})
    BY <2>2, <2>4, FS_Subset
  <2> QED
    BY <1>0, <1>2, <1>t, <2>4, <2>5
<1>3. CASE new.pc = "grow"
  <2>1. call.pc = "full" /\ Cardinality(Pool) < cp.maxSize
    BY <1>0, <1>3 DEF Proceeds, MayGrow
  <2>2. Cardinality(Pool') = Cardinality(Pool)
    BY <2>1, CallSize DEF SizeInv, RouteInv
  <2>3. PICK x \in Call : ~FoundBusy(calls'[x])
    BY SomeNotBusy
  <2>4. Growing(calls') \subseteq Call \ {x} /\ c \in Growing(calls')
    BY <1>3, <2>3 DEF Growing, FoundBusy
  <2>5. IsFiniteSet(Call \ {x}) /\ Cardinality(Call \ {x}) = Cardinality(Call) - 1
    BY CallAssumption, FS_RemoveElement
  <2>6. Cardinality(Growing(calls')) <= Cardinality(Call) - 1
    BY <2>4, <2>5, FS_Subset
  <2>7. Cardinality(Growing(calls')) # 0
    BY <1>t, <2>4, FS_EmptySet
  <2>8. Cardinality(Call) \in Nat
    BY CallAssumption, FS_CardinalityType
  <2>9. Cardinality(Growing(calls')) <= Overrun + 1
    BY <1>t, <2>6, <2>7, <2>8 DEF Overrun
  <2> QED
    BY <1>t, <2>1, <2>2, <2>9
<1>4. \/ Cardinality(Pool') = Cardinality(Pool)
      \/ call.pc = "grow" /\ Cardinality(Pool') = Cardinality(Pool) + 1
  BY CallSize DEF SizeInv, RouteInv
<1> QED
  BY <1>1, <1>2, <1>3, <1>4

LEMMA EventBounded ==
    ASSUME SizeInv, Event, ~LiveShutdown
    PROVE  Cardinality(Pool') + Cardinality(Growing(calls')) <= PoolLimit + Overrun
<1>0. /\ Cardinality(Pool) \in Nat /\ Cardinality(Pool') \in Nat
      /\ Cardinality(Growing(calls)) \in Nat /\ PoolLimit \in Nat /\ Overrun \in Nat
      /\ initializeConfig(cp.balancer).minSize \in Nat
      /\ PoolLimit >= initializeConfig(cp.balancer).minSize
      /\ Cardinality(Pool) + Cardinality(Growing(calls)) <= PoolLimit + Overrun
  BY PoolFinite, GrowingFinite, LimitTyped DEF SizeInv, RouteInv
<1>1. \A x \in Call : SameLocals(calls[x], calls'[x])
  BY EventSteps DEF SizeInv
<1>2. Growing(calls') = Growing(calls)
  BY <1>1 DEF Growing, SameLocals
<1>3. CASE Cardinality(Pool') = Cardinality(Pool)
  BY <1>0, <1>2, <1>3
<1>4. CASE /\ mu = "enforceMinSize" /\ Cardinality(Pool) < cfg.minSize
           /\ Cardinality(Pool') = Cardinality(Pool) + 1
  <2>1. cfg = initializeConfig(cp.balancer)
    BY <1>4 DEF SizeInv, RouteInv, PkInv, BInv, FInv, ConfigFirst
  <2>2. \A x \in Call : calls[x].pc = "none"
    BY <1>4 DEF SizeInv, RouteInv
  <2>3. Growing(calls) = {}
    BY <2>2 DEF Growing
  <2>4. Cardinality(Growing(calls)) = 0
    BY <2>3, FS_EmptySet
  <2> QED
    BY <1>0, <1>2, <1>4, <2>1, <2>4
<1> QED
  BY <1>3, <1>4, EventSteps, ReportedSize, ConfiguredSize DEF SizeInv

LEMMA NextSize == SizeInv /\ [PickerNext]_pickerVars => SizeInv'
<1> SUFFICES ASSUME SizeInv, [PickerNext]_pickerVars PROVE SizeInv'
  OBVIOUS
<1>0. RouteInv'
  BY NextRoute DEF SizeInv
<1>1. ASSUME NEW c \in Call, CallNext(c) PROVE SizeInv'
  <2>1. UNCHANGED cp
    BY <1>1, CallKeepsPool DEF SizeInv, RouteInv
  <2>2. ~LiveShutdown => Cardinality(Pool') + Cardinality(Growing(calls')) <= PoolLimit + Overrun
    BY <1>1, CallBounded
  <2>3. PoolLimit' = PoolLimit
    BY <2>1 DEF PoolLimit
  <2>4. \E x \in Call : ~FoundBusy(calls'[x])
    BY <1>1, SomeNotBusy
  <2> QED
    BY <1>0, <2>2, <2>3, <2>4 DEF SizeInv
<1>2. CASE Event
  <2>1. UNCHANGED cp /\ \A x \in Call : SameLocals(calls[x], calls'[x])
    BY <1>2, EventSteps DEF SizeInv
  <2>2. ~LiveShutdown => Cardinality(Pool') + Cardinality(Growing(calls')) <= PoolLimit + Overrun
    BY <1>2, EventBounded
  <2>3. PoolLimit' = PoolLimit
    BY <2>1 DEF PoolLimit
  <2>4. \E x \in Call : ~FoundBusy(calls'[x])
    BY <2>1 DEF SizeInv, FoundBusy, SameLocals
  <2> QED
    BY <1>0, <2>2, <2>3, <2>4 DEF SizeInv
<1>3. CASE UNCHANGED pickerVars
  BY <1>0, <1>3 DEF pickerVars, balancerVars, vars, poolVars, SizeInv, PoolLimit, Pool, FoundBusy
<1> QED
  BY <1>1, <1>2, <1>3 DEF PickerNext, Event

LEMMA SizeBounded == ASSUME SizeInv PROVE PoolBounded
<1>1. Growing(calls) = {c \in Call : calls[c].pc = "grow"}
  BY DEF Growing
<1> QED
  BY <1>1 DEF SizeInv, PoolBounded, Overrun

\* Both limits of the configuration hold as far as the locks keep them, for any
\* number of RPCs, pickers and channels: no picker puts more RPCs without affinity
\* on a channel than the low watermark while the pool may grow, and the pool
\* outgrows max_size by at most the number of RPCs less two.
THEOREM LimitsAreKept == PickerSpec => []LimitsKept
<1>1. LockInv /\ SizeInv => LimitsKept
  BY LockedWatermark, SizeBounded DEF LimitsKept
<1> QED
  BY <1>1, InitLock, NextLock, InitSize, NextSize, PTL DEF PickerSpec

-----------------------------------------------------------------------------
(***************************************************************************)
(* RPCs that wait are woken.  A picker sends an RPC back for the sake of a *)
(* channel that is not ready; when that changes there is another picker,   *)
(* which is not mistaken for the one that sent it back.                    *)
(***************************************************************************)

WakeInv ==
    /\ RouteInv
    /\ \A c \in Call : SentBack(calls[c]) =>
          /\ calls[c].pc # "none"
          /\ Undisturbed /\ calls[c].id = pickerId => Unready

\* The picker tells which channels of the pool are ready.
Shown == \A sc \in Pool : scStates[sc] = "Ready" <=> \E ref \in picker.refs : refs[ref].subConn = sc

LEMMA PickerShows == BInv => Shown
<1> SUFFICES ASSUME BInv, NEW sc \in Pool
             PROVE  scStates[sc] = "Ready" <=> \E ref \in picker.refs : refs[ref].subConn = sc
  BY DEF Shown
<1>1. /\ \A x \in Pool : refs[scRefs[x]].subConn = x
      /\ \A x \in SubConn : scStates[x] = "Ready" => x \in Pool
      /\ picker.refs = ReadyRefs
  BY DEF BInv, IInv, Linked, RefsConsistent, PInv, PickerCurrent
<1> QED
  BY <1>1 DEF ReadyRefs, Pool

LEMMA InitWake == PickerInit => WakeInv
<1> SUFFICES ASSUME PickerInit PROVE WakeInv
  OBVIOUS
<1>1. \A c \in Call : calls[c] = NoCall
  BY DEF PickerInit
<1> QED
  BY <1>1, InitRoute DEF WakeInv, NoCall, SentBack

LEMMA AddedUnready ==
    ASSUME IInv, NEW sc \in SubConn, Added(sc)
    PROVE  Unready'
<1>1. sc \in Pool' /\ scStates'[sc] = "Idle"
  BY DEF Added, IInv, TypeOK, PoolTypeOK
<1> QED
  BY <1>1 DEF Unready

LEMMA CallWakes ==
    ASSUME WakeInv, RouteInv', NEW c \in Call, CallNext(c)
    PROVE  WakeInv'
<1>1. /\ Proceeds(c, calls'[c]) /\ \A x \in Call \ {c} : SameLocals(calls[x], calls'[x])
      /\ UNCHANGED <<cp, pickerId>>
  BY CallProceeds, OthersSame, CallKeepsPool DEF WakeInv, RouteInv
<1>2. Unready => Unready'
  <2>1. Pool' = Pool /\ UNCHANGED scStates => (Unready => Unready')
    BY DEF Unready
  <2> QED
    BY <2>1, CallKeepsBalancer, AddedUnready DEF WakeInv, RouteInv, PkInv, BInv
<1>3. Undisturbed' <=> Undisturbed
  BY <1>1 DEF Undisturbed
<1>4. ASSUME NEW x \in Call \ {c}, SentBack(calls'[x])
      PROVE  calls'[x].pc # "none" /\ (Undisturbed' /\ calls'[x].id = pickerId' => Unready')
  BY <1>1, <1>2, <1>3, <1>4 DEF WakeInv, SentBack, SameLocals
<1>5. ASSUME SentBack(calls'[c])
      PROVE  calls'[c].pc # "none" /\ (Undisturbed' /\ calls'[c].id = pickerId' => Unready')
  BY <1>1, <1>2, <1>3, <1>5 DEF WakeInv, Proceeds
<1> QED
  BY <1>4, <1>5 DEF WakeInv

LEMMA EventWakes ==
    ASSUME WakeInv, RouteInv', Event
    PROVE  WakeInv'
<1>1. /\ UNCHANGED cp /\ \A x \in Call : SameLocals(calls[x], calls'[x])
      /\ Reported \/ Configured
  BY EventSteps DEF WakeInv
<1>2. ASSUME Undisturbed, Unready, pickerId' \in InUse PROVE Unready'
  <2>1. CASE Configured
    <3>1. UNCHANGED <<scRefs, scStates>> => Unready'
      BY <1>2 DEF Unready, Pool
    <3> QED
      BY <2>1, <3>1, AddedUnready DEF Configured, WakeInv, RouteInv, PkInv, BInv
  <2>2. CASE Reported
    <3>1. UNCHANGED picker
      BY <1>2, <2>2, FreeIdType DEF Reported, NewPickerId
    <3>2. Shown /\ Shown'
      BY PickerShows, PTL DEF WakeInv, RouteInv, PkInv
    <3>3. /\ Pool' = Pool
          /\ \/ UNCHANGED <<scRefs, scStates>>
             \/ /\ UNCHANGED refs
                /\ \E sc \in SubConn, s \in ConnState : scStates' = [scStates EXCEPT ![sc] = s]
      BY <1>2, <2>2, QuietReport DEF WakeInv
    <3> QED
      BY <1>2, <3>1, <3>2, <3>3 DEF Shown, Unready
  <2> QED
    BY <1>1, <2>1, <2>2
<1>3. Undisturbed' <=> Undisturbed
  BY <1>1 DEF Undisturbed
<1>4. ASSUME NEW x \in Call, SentBack(calls'[x])
      PROVE  calls'[x].pc # "none" /\ (Undisturbed' /\ calls'[x].id = pickerId' => Unready')
  <2>1. /\ SentBack(calls[x]) /\ calls'[x].pc = calls[x].pc /\ calls'[x].id = calls[x].id
    BY <1>1, <1>4 DEF SameLocals, SentBack
  <2>2. calls[x].pc # "none" /\ calls[x].id \in InUse
    BY <2>1 DEF WakeInv, InUse
  <2>3. ASSUME Undisturbed, calls[x].id = pickerId' PROVE Unready'
    <3>1. CASE pickerId' = pickerId
      BY <1>2, <2>1, <2>2, <2>3, <3>1 DEF WakeInv
    <3>2. CASE pickerId' # pickerId
      BY <1>1, <2>2, <2>3, <3>2, FreeIdType DEF Reported, Configured, NewPickerId
    <3> QED
      BY <3>1, <3>2
  <2> QED
    BY <1>3, <2>1, <2>2, <2>3
<1> QED
  BY <1>4 DEF WakeInv

LEMMA NextWake == WakeInv /\ [PickerNext]_pickerVars => WakeInv'
<1> SUFFICES ASSUME WakeInv, [PickerNext]_pickerVars PROVE WakeInv'
  OBVIOUS
<1>0. RouteInv'
  BY NextRoute DEF WakeInv
<1>1. CASE UNCHANGED pickerVars
  BY <1>0, <1>1 DEF pickerVars, balancerVars, vars, poolVars, WakeInv, Undisturbed, Unready, Pool, SentBack
<1> QED
  BY <1>0, <1>1, CallWakes, EventWakes DEF PickerNext, Event

LEMMA AwaitedComes == ASSUME WakeInv PROVE WaitingWillWake
<1> SUFFICES ASSUME cfg # NoConfig, ~cfg.unresponsiveDetection, ~CanFail, ~LiveShutdown,
                    NEW c \in Call, calls[c].pc = "waiting",
                    calls[c].id = pickerId \/ picker.refs = {}
             PROVE  \E sc \in Pool : scStates[sc] # "Ready"
  BY DEF WaitingWillWake, Blocked
<1>1. Undisturbed
  BY PoolsTyped DEF Undisturbed, WakeInv, RouteInv, initializeConfig, ConfigType
<1>2. CASE calls[c].id = pickerId
  BY <1>1, <1>2 DEF WakeInv, SentBack, Unready
<1>3. CASE picker.refs = {}
  <2>1. LiveRefs # {}
    BY DEF WakeInv, RouteInv
  <2>2. Pool # {}
    BY <2>1 DEF LiveRefs, WakeInv, RouteInv, PkInv, BInv, FInv, Placed
  <2> QED
    BY <1>3, <2>2, PickerShows DEF Shown, WakeInv, RouteInv, PkInv
<1> QED
  BY <1>2, <1>3

\* No RPC waits for a picker that will never come: as long as no SubConn is
\* replaced, missing or lost, some channel of the pool is still to become ready,
\* and its report will bring another picker.
THEOREM CallsAreWoken == PickerSpec => []WaitingWillWake
BY AwaitedComes, InitWake, NextWake, PTL DEF PickerSpec

-----------------------------------------------------------------------------
(***************************************************************************)
(* The promise to RPCs.  Keys know SubConns that were in the pool, which a *)
(* channel has for good or not at all.                                     *)
(***************************************************************************)

\* The SubConn sc is that of the channel ref, or of none any more.
Belongs(sc, ref) == sc \in Assigned /\ scRefs[sc] \in {ref, NoSubConn}

\* A SubConn that a key may have kept: it was in the pool, and is ready if it is
\* there to be a fallback.
KeysKnown ==
    \A k \in Key :
        /\ affinityMap[k] # NoSubConn => affinityMap[k] \in Assigned
        /\ fallbackMap[k] # NoSubConn =>
              /\ fallbackMap[k] \in Assigned
              /\ fallbackMap[k] \in Pool => scStates[fallbackMap[k]] = "Ready"

\* Who is in the pool has been assigned.
LEMMA PoolAssigned == IInv => Pool \subseteq Assigned
<1> SUFFICES ASSUME IInv, NEW sc \in Pool PROVE sc \in Assigned
  OBVIOUS
<1>1. sc \in SubConn /\ conn[sc] # "none"
  BY DEF Pool, IInv, Linked
<1>2. refreshingScRefs[sc] = NoSubConn
  BY <1>1 DEF IInv, Linked, RefsConsistent
<1> QED
  BY <1>1, <1>2 DEF Assigned

LEMMA PoolTyped ==
    ASSUME IInv
    PROVE  /\ scRefs \in [SubConn -> MaybeSubConn]
           /\ scStates \in [SubConn -> (ConnState \ {"Shutdown"}) \cup {"none"}]
           /\ refreshingScRefs \in [SubConn -> MaybeSubConn]
           /\ refs \in [SubConn -> RefType]
           /\ conn \in [SubConn -> ConnState \cup {"none"}]
           /\ affinityMap \in [Key -> MaybeSubConn]
           /\ fallbackMap \in [Key -> MaybeSubConn]
BY DEF IInv, TypeOK, PoolTypeOK, ConnTypeOK, KeyTypeOK

\* A step takes a SubConn from its channel or leaves it there.
Settled == \A sc \in Assigned : sc \in Assigned' /\ scRefs'[sc] \in {scRefs[sc], NoSubConn}

LEMMA GrowthSettled ==
    ASSUME IInv, enforceMinSize \/ GrowPool
    PROVE  Settled
<1>1. CASE UNCHANGED <<poolVars, connVars>>
  BY <1>1 DEF Settled, Assigned, poolVars, connVars
<1>2. ASSUME NEW x \in SubConn, NewSubConn(x), scRefs' = [scRefs EXCEPT ![x] = x], UNCHANGED refreshingScRefs
      PROVE  Settled
  BY <1>2, PoolTyped DEF Settled, Assigned, NewSubConn, Fresh
<1> QED
  BY <1>1, <1>2 DEF enforceMinSize, GrowPool, newSubConn, addSubConn

LEMMA ReportSettled ==
    ASSUME IInv, NEW x \in SubConn, NEW s \in ConnState, UpdateSubConnState(x, s)
    PROVE  Settled
<1>1. /\ conn' = [conn EXCEPT ![x] = s] /\ s # "none"
  BY ReportSteps
<1>2. CASE UNCHANGED poolVars
  BY <1>1, <1>2, PoolTyped DEF Settled, Assigned, poolVars
<1>3. CASE /\ HandleStateChange(x, scStates[x], s, scRefs, scStates)
           /\ UNCHANGED refreshingScRefs
  <2>1. \A sc \in SubConn : scRefs'[sc] \in {scRefs[sc], NoSubConn}
    BY <1>3, PoolTyped DEF HandleStateChange
  <2> QED
    BY <1>1, <1>3, <2>1, PoolTyped DEF Settled, Assigned
<1>4. CASE refreshingScRefs[x] # NoSubConn /\ ReplaceSubConn(x, "Ready")
  <2> DEFINE ref == refreshingScRefs[x]
             oldSc == refs[ref].subConn
  <2>1. /\ scRefs' = [y \in SubConn |-> IF y = x THEN ref
                                        ELSE IF y = oldSc THEN NoSubConn ELSE scRefs[y]]
        /\ refreshingScRefs' = [refreshingScRefs EXCEPT ![x] = NoSubConn]
    BY <1>4, ReplaceSubConnMaps
  <2> HIDE DEF ref, oldSc
  <2> QED
    BY <1>1, <1>4, <2>1, PoolTyped DEF Settled, Assigned
<1> QED
  BY <1>2, <1>3, <1>4 DEF UpdateSubConnState, ReplacementUsable

LEMMA StepSettled == ASSUME IInv, Next PROVE Settled
<1>1. CASE UpdateClientConnState \/ MinSizeReached
  BY <1>1, ConfigSteps DEF Settled, Assigned, poolVars
<1>2. ASSUME NEW ref \in SubConn, refresh(ref) PROVE Settled
  <2>1. UNCHANGED scRefs
    BY <1>2, RefreshSteps
  <2>2. CASE UNCHANGED <<refreshingScRefs, connVars>>
    BY <2>1, <2>2 DEF Settled, Assigned, connVars
  <2>3. ASSUME NEW x \in SubConn, Refreshing(x, ref) PROVE Settled
    BY <2>1, <2>3, PoolTyped DEF Settled, Assigned, Refreshing
  <2> QED
    BY <1>2, <2>2, <2>3, RefreshSteps
<1>3. CASE Bookkeeping
  BY <1>3, BookkeepingSteps DEF Settled, Assigned, connVars
<1> QED
  BY <1>1, <1>2, <1>3, GrowthSettled, ReportSettled, Steps DEF Stepping

\* The fallbacks of keys after a report: those that serve.
LEMMA ReportFallbacks ==
    ASSUME IInv, KeysKnown, NEW x \in SubConn, NEW s \in ConnState, UpdateSubConnState(x, s),
           NEW k \in Key, fallbackMap'[k] # NoSubConn
    PROVE  /\ fallbackMap'[k] = fallbackMap[k]
           /\ fallbackMap[k] \in Pool' => scStates'[fallbackMap[k]] = "Ready"
<1> USE SubConnAssumption
<1>0. fallbackMap[k] \in MaybeSubConn
  BY PoolTyped
<1>1. CASE UNCHANGED <<poolVars, keyVars>>
  BY <1>1 DEF KeysKnown, Pool, poolVars, keyVars
<1>2. CASE Recorded(x, s)
  <2>1. fallbackMap'[k] = fallbackMap[k] /\ ~DropsFallback(k, x, scStates[x], s)
    BY <1>2 DEF Recorded
  <2>2. fallbackMap[k] \in Pool' => fallbackMap[k] \in Pool /\ scStates[fallbackMap[k]] = "Ready"
    BY <1>2, <2>1 DEF Recorded, KeysKnown
  <2>3. fallbackMap[k] = x /\ scStates[x] = "Ready" => s = "Ready"
    BY <2>1 DEF DropsFallback
  <2> QED
    BY <1>0, <1>2, <2>1, <2>2, <2>3, PoolTyped DEF Recorded, Pool
<1>3. ASSUME NEW ref \in SubConn, NEW oldSc \in SubConn, Replaced(x, ref, oldSc),
             fallbackMap'[k] = fallbackMap[k]
      PROVE  fallbackMap[k] \in Pool' => scStates'[fallbackMap[k]] = "Ready"
  BY <1>0, <1>3 DEF Replaced, KeysKnown, Pool
<1>4. fallbackMap'[k] = fallbackMap[k]
  BY DEF UpdateSubConnState, ReplaceSubConn, HandleStateChange, keyVars
<1> QED
  BY <1>1, <1>2, <1>3, <1>4, ReportSteps DEF Ignored

LEMMA KeysKept == ASSUME IInv, IInv', PInv, KeysKnown, Next PROVE KeysKnown'
<1> USE SubConnAssumption
<1>0. Settled
  BY StepSettled
<1> DEFINE Known(k) == affinityMap[k] # NoSubConn => affinityMap[k] \in Assigned
           Serving(k) == fallbackMap[k] # NoSubConn =>
                            /\ fallbackMap[k] \in Assigned
                            /\ fallbackMap[k] \in Pool => scStates[fallbackMap[k]] = "Ready"
<1>1. ASSUME NEW k \in Key, UNCHANGED affinityMap PROVE Known(k)'
  BY <1>0, <1>1 DEF Settled, KeysKnown
<1>2. ASSUME NEW k \in Key, UNCHANGED <<fallbackMap, scRefs, scStates>> PROVE Serving(k)'
  BY <1>0, <1>2 DEF Settled, KeysKnown, Pool
<1>3. CASE UpdateClientConnState \/ MinSizeReached \/ \E ref \in SubConn : refresh(ref)
  <2>1. UNCHANGED <<keyVars, scRefs, scStates>>
    BY <1>3, ConfigSteps, RefreshSteps DEF poolVars
  <2> QED
    BY <1>1, <1>2, <2>1 DEF keyVars, KeysKnown
<1>4. CASE enforceMinSize \/ GrowPool
  <2>1. UNCHANGED keyVars
    BY <1>4, GrowthSteps
  <2>2. ASSUME NEW x \in SubConn, Added(x), NEW k \in Key PROVE Serving(k)'
    <3>1. (fallbackMap'[k] = fallbackMap[k] /\ fallbackMap[k] # x) \/ fallbackMap'[k] = NoSubConn
      BY <2>1, <2>2, PoolTyped DEF keyVars, Added, KeysKnown, Assigned
    <3> QED
      BY <1>0, <2>2, <3>1, PoolTyped DEF Settled, Added, KeysKnown
  <2> QED
    BY <1>1, <1>2, <1>4, <2>1, <2>2, GrowthSteps DEF keyVars, poolVars, KeysKnown
<1>5. ASSUME NEW x \in SubConn, NEW s \in ConnState, UpdateSubConnState(x, s) PROVE KeysKnown'
  <2>1. UNCHANGED affinityMap
    BY <1>5 DEF UpdateSubConnState, ReplaceSubConn, HandleStateChange, keyVars
  <2>2. \A k \in Key : Serving(k)'
    BY <1>0, <1>5, ReportFallbacks DEF Settled, KeysKnown
  <2> QED
    BY <1>1, <2>1, <2>2 DEF KeysKnown
<1>6. CASE Bookkeeping
  <2>1. UNCHANGED <<scRefs, scStates>>
    BY <1>6, BookkeepingSteps
  <2>2. ASSUME NEW k \in Key, NEW x \in SubConn, bindSubConn(k, x) PROVE KeysKnown'
    BY <1>0, <1>2, <2>1, <2>2, PoolTyped DEF bindSubConn, Settled, KeysKnown
  <2>3. ASSUME NEW k \in Key, unbindSubConn(k) PROVE KeysKnown'
    BY <1>0, <1>2, <2>1, <2>3, PoolTyped DEF unbindSubConn, Settled, KeysKnown
  <2>4. ASSUME NEW k \in Key, CreateFallback(k) PROVE KeysKnown'
    <3>1. UNCHANGED affinityMap
      BY <2>4 DEF CreateFallback
    <3>2. ASSUME NEW ref \in picker.refs, fallbackMap' = [fallbackMap EXCEPT ![k] = refs[ref].subConn]
          PROVE  \A i \in Key : Serving(i)'
      <4>1. PICK x \in SubConn : scStates[x] = "Ready" /\ ref = scRefs[x]
        BY <3>2 DEF PInv, PickerCurrent, ReadyRefs
      <4>2. x \in Pool /\ refs[ref].subConn = x
        BY <4>1 DEF IInv, Linked, RefsConsistent
      <4>3. x \in Assigned'
        BY <1>0, <4>2, PoolAssigned DEF Settled
      <4> QED
        BY <1>0, <2>1, <3>2, <4>1, <4>2, <4>3, PoolTyped DEF Settled, KeysKnown, Pool
    <3> QED
      BY <1>1, <1>2, <2>1, <2>4, <3>1, <3>2 DEF CreateFallback, KeysKnown
  <2>5. CASE UNCHANGED keyVars
    BY <1>1, <1>2, <2>1, <2>5 DEF keyVars, KeysKnown
  <2> QED
    BY <1>6, <2>2, <2>3, <2>4, <2>5 DEF Bookkeeping, gotResp, deCallsInc
<1> QED
  BY <1>3, <1>4, <1>5, <1>6, Steps DEF Stepping

-----------------------------------------------------------------------------
(***************************************************************************)
(* What a step of one RPC shows.                                           *)
(***************************************************************************)

\* What the other fields are at each place, as far as the promise needs it.
RpcOK(call) ==
    /\ call.pc = "none" => call.cmd = "NONE" /\ call.key = NoSubConn
    /\ call.pc \in ChoosingPCs => call.left \subseteq call.refs /\ call.ref \in call.refs
    /\ call.pc \in FallbackPCs => call.cmd \in {"BOUND", "UNBIND"} /\ call.key # EmptyKey
    /\ call.pc \in {"roundRobin", "rrWait"} => cp.roundRobin
    /\ call.pc \in {"affinity", "update"} => call.ok /\ call.cmd \in {"BIND", "UNBIND"}
    /\ call.pc \in {"count", "refresh"} => ~call.ok

ViewInv ==
    /\ RouteInv
    /\ KeysKnown
    /\ \A c \in Call : /\ RpcOK(calls[c])
                       /\ calls[c].pc = "update" => Belongs(calls[c].sc, calls[c].ref)

\* The step of c is one that the promise allows, or is not seen.
Fits(c) == Promise!RpcNext(c) \/ UNCHANGED Promise!apVars

\* The step of c leads to the locals new.
Views(c, new) ==
    /\ RpcView' = [RpcView EXCEPT ![c] = RpcOf(new)]
    /\ OnView' = [OnView EXCEPT ![c] = OnOf(new)]
    /\ DueView' = [DueView EXCEPT ![c] = DueOf(new)]

PoolSame == UNCHANGED <<Options, LiveRefs, ReadyRefs, BoundKeys, HomeOf>>

\* Being late is not seen.
LEMMA LateUnseen ==
    ASSUME NEW call \in CallType
    PROVE  /\ RpcOf(Late(call)) = RpcOf(call)
           /\ OnOf(Late(call)) = OnOf(call)
           /\ DueOf(Late(call)) = DueOf(call)
           /\ RpcOK(call) => RpcOK(Late(call))
           /\ Late(call).pc = call.pc /\ Late(call).sc = call.sc /\ Late(call).ref = call.ref
<1> DEFINE new == Late(call)
<1>1. /\ new.pc = call.pc /\ new.cmd = call.cmd /\ new.key = call.key /\ new.refs = call.refs
      /\ new.left = call.left /\ new.ref = call.ref /\ new.ok = call.ok /\ new.retry = call.retry
      /\ new.sc = call.sc
  BY DEF CallType, Late
<1> HIDE DEF new
<1>2. RpcOf(new) = RpcOf(call)
  BY <1>1 DEF RpcOf
<1>3. OnOf(new) = OnOf(call)
  BY <1>1 DEF OnOf
<1>4. DueOf(new) = DueOf(call)
  BY <1>1 DEF DueOf, Binds
<1>5. RpcOK(call) => RpcOK(new)
  BY <1>1 DEF RpcOK, Binds
<1> QED
  BY <1>1, <1>2, <1>3, <1>4, <1>5 DEF new

LEMMA ViewsSet ==
    ASSUME PkInv, NEW c \in Call, NEW new, OthersStay(c, new)
    PROVE  Views(c, new)
<1>1. \A x \in Call \ {c} : /\ RpcOf(calls'[x]) = RpcOf(calls[x])
                             /\ OnOf(calls'[x]) = OnOf(calls[x])
                             /\ DueOf(calls'[x]) = DueOf(calls[x])
  BY StreamsTyped, LateUnseen DEF OthersStay
<1>2. calls'[c] = new
  BY DEF OthersStay
<1>3. RpcView' = [RpcView EXCEPT ![c] = RpcOf(new)]
  BY <1>1, <1>2 DEF RpcView
<1>4. OnView' = [OnView EXCEPT ![c] = OnOf(new)]
  BY <1>1, <1>2 DEF OnView
<1>5. DueView' = [DueView EXCEPT ![c] = DueOf(new)]
  BY <1>1, <1>2 DEF DueView
<1> QED
  BY <1>3, <1>4, <1>5 DEF Views

LEMMA ViewOf ==
    ASSUME NEW c \in Call
    PROVE  RpcView[c] = RpcOf(calls[c]) /\ OnView[c] = OnOf(calls[c]) /\ DueView[c] = DueOf(calls[c])
BY DEF RpcView, OnView, DueView

\* The balancer is left alone, or changes what is not seen.
LEMMA PoolIsSame ==
    ASSUME UNCHANGED <<cp, affinityMap, scRefs, scStates>>, LiveRefs' = LiveRefs
    PROVE  PoolSame
BY DEF PoolSame, Options, ReadyRefs, BoundKeys, HomeOf

LEMMA QuietIsSame ==
    ASSUME UNCHANGED <<balancerVars, cp>>
    PROVE  PoolSame
BY PoolIsSame DEF balancerVars, vars, poolVars, keyVars, LiveRefs

LEMMA FitsUnseen ==
    ASSUME NEW c \in Call, NEW new, Views(c, new), PoolSame,
           RpcOf(new) = RpcOf(calls[c]), OnOf(new) = OnOf(calls[c]), DueOf(new) = DueOf(calls[c])
    PROVE  Fits(c)
<1>1. RpcView' = RpcView
  BY ViewOf DEF Views, RpcView
<1>2. OnView' = OnView
  BY ViewOf DEF Views, OnView
<1>3. DueView' = DueView
  BY ViewOf DEF Views, DueView
<1> QED
  BY <1>1, <1>2, <1>3 DEF Fits, PoolSame, Promise!apVars

\* Neither on a channel nor bound to report to one, before and after.
LEMMA RoutingSame ==
    ASSUME NEW c \in Call, NEW new, Views(c, new),
           OnOf(calls[c]) = NoSubConn, OnOf(new) = NoSubConn,
           DueOf(calls[c]) = NoSubConn, DueOf(new) = NoSubConn
    PROVE  Promise!Routing(c) /\ UNCHANGED <<OnView, DueView>>
<1>1. OnView' = OnView
  BY ViewOf DEF Views, OnView
<1>2. DueView' = DueView
  BY ViewOf DEF Views, DueView
<1> QED
  BY <1>1, <1>2, ViewOf DEF Promise!Routing

LEMMA FitsAsk ==
    ASSUME NEW c \in Call, NEW new, Views(c, new), PoolSame,
           OnOf(calls[c]) = NoSubConn, OnOf(new) = NoSubConn,
           DueOf(calls[c]) = NoSubConn, DueOf(new) = NoSubConn,
           NEW cmd \in Commands, NEW k \in Key \cup {NoSubConn},
           \/ RpcOf(calls[c]) = Promise!NoRpc
           \/ RpcOf(calls[c]).cmd = cmd /\ RpcOf(calls[c]).key = k,
           RpcOf(new) = Promise!Asking(cmd, k)
    PROVE  Fits(c)
<1>1. RpcView[c] = Promise!NoRpc \/ (RpcView[c].cmd = cmd /\ RpcView[c].key = k)
  BY ViewOf
<1>2. RpcView' = [RpcView EXCEPT ![c] = Promise!Asking(cmd, k)]
  BY DEF Views
<1>3. Promise!Routing(c) /\ UNCHANGED <<OnView, DueView>>
  BY RoutingSame
<1>4. Promise!Ask(c, cmd, k)
  BY <1>1, <1>2, <1>3 DEF Promise!Ask, PoolSame
<1> QED
  BY <1>4 DEF Fits, Promise!RpcNext, Commands

\* It gives up, or nothing is seen.
LEMMA FitsEnds ==
    ASSUME NEW c \in Call, NEW new, Views(c, new), PoolSame,
           OnOf(calls[c]) = NoSubConn, OnOf(new) = NoSubConn,
           DueOf(calls[c]) = NoSubConn, DueOf(new) = NoSubConn,
           RpcOf(new) \in {RpcOf(calls[c]), Promise!NoRpc}
    PROVE  Fits(c)
<1>1. CASE RpcOf(new) = RpcOf(calls[c])
  BY <1>1, FitsUnseen
<1>2. CASE RpcOf(new) = Promise!NoRpc
  <2>1. RpcView' = [RpcView EXCEPT ![c] = Promise!NoRpc]
    BY <1>2 DEF Views
  <2>2. Promise!Routing(c) /\ UNCHANGED <<OnView, DueView>>
    BY RoutingSame
  <2>3. Promise!Quit(c)
    BY <2>1, <2>2 DEF Promise!Quit, PoolSame
  <2> QED
    BY <2>3 DEF Fits, Promise!RpcNext
<1> QED
  BY <1>1, <1>2

\* What an RPC asks for, with the offer taken away, or with the scan begun.
Asked(call) == Promise!Rpc(call.cmd, call.key, {}, FALSE)
Scanning(call) == Promise!Rpc(call.cmd, call.key, call.refs, TRUE)

LEMMA AskedOf ==
    ASSUME NEW c \in Call
    PROVE  /\ RpcView[c].cmd = calls[c].cmd /\ RpcView[c].key = calls[c].key
           /\ calls[c].pc = "lock" => RpcView[c].offered = calls[c].refs
BY DEF RpcView, RpcOf, OfferedPCs, LockingPCs, ChoosingPCs, FallbackPCs

LEMMA FitsFree ==
    ASSUME NEW c \in Call, NEW new, Views(c, new), PoolSame, calls[c].pc = "lock",
           OnOf(new) = NoSubConn, DueOf(new) = NoSubConn,
           ~HasBoundKey(calls[c]), RpcOf(new) = Scanning(calls[c])
    PROVE  Fits(c)
<1>1. OnOf(calls[c]) = NoSubConn /\ DueOf(calls[c]) = NoSubConn
  BY DEF OnOf, DueOf, HoldingPCs, DonePCs
<1>2. Promise!Routing(c) /\ UNCHANGED <<OnView, DueView>>
  BY <1>1, RoutingSame
<1>3. Promise!Unbound(c)
  BY DEF Promise!Unbound, HasBoundKey, BoundKeys, RpcView, RpcOf
<1>4. RpcView' = [RpcView EXCEPT ![c] = Promise!Rpc(@.cmd, @.key, @.offered, TRUE)]
  BY AskedOf DEF Views, Scanning
<1>5. Promise!FindUnbound(c)
  BY <1>2, <1>3, <1>4 DEF Promise!FindUnbound, PoolSame
<1> QED
  BY <1>5 DEF Fits, Promise!RpcNext

LEMMA FitsWait ==
    ASSUME NEW c \in Call, NEW new, Views(c, new),
           LiveRefs \subseteq LiveRefs', UNCHANGED <<Options, ReadyRefs, BoundKeys, HomeOf>>,
           OnOf(calls[c]) = NoSubConn, OnOf(new) = NoSubConn,
           DueOf(calls[c]) = NoSubConn, DueOf(new) = NoSubConn,
           RpcOf(new) = Asked(calls[c])
    PROVE  Fits(c)
<1>1. Promise!Routing(c) /\ UNCHANGED <<OnView, DueView>>
  BY RoutingSame
<1>2. RpcView' = [RpcView EXCEPT ![c] = Promise!Rpc(@.cmd, @.key, {}, FALSE)]
  BY AskedOf DEF Views, Asked
<1>3. LiveRefs' \subseteq SubConn
  BY DEF LiveRefs
<1>4. Promise!Wait(c)
  BY <1>1, <1>2, <1>3 DEF Promise!Wait
<1> QED
  BY <1>4 DEF Fits, Promise!RpcNext

LEMMA FitsGo ==
    ASSUME NEW c \in Call, NEW new, Views(c, new), PoolSame, NEW ref \in SubConn,
           OnOf(calls[c]) = NoSubConn, OnOf(new) = ref,
           DueOf(calls[c]) = NoSubConn, DueOf(new) = NoSubConn,
           RpcOf(new) = Asked(calls[c]),
           Promise!ByKey(c, ref) \/ Promise!Anywhere(c, ref)
    PROVE  Fits(c)
<1>1. Promise!Routing(c) /\ UNCHANGED DueView
  <2>1. UNCHANGED DueView
    BY ViewOf DEF Views, DueView
  <2> QED
    BY <2>1, ViewOf DEF Promise!Routing
<1>2. RpcView' = [RpcView EXCEPT ![c] = Promise!Rpc(@.cmd, @.key, {}, FALSE)]
  BY AskedOf DEF Views, Asked
<1>3. OnView' = [OnView EXCEPT ![c] = ref]
  BY DEF Views
<1>4. Promise!Go(c, ref)
  BY <1>1, <1>2, <1>3 DEF Promise!Go, PoolSame
<1> QED
  BY <1>4 DEF Fits, Promise!RpcNext

\* What an RPC asks for stays, or is no more.
LEMMA EndsOf ==
    ASSUME NEW c \in Call, NEW new, Views(c, new), RpcOf(new) \in {RpcOf(calls[c]), Promise!NoRpc}
    PROVE  Promise!Ends(c)
<1>1. RpcView' = [RpcView EXCEPT ![c] = RpcOf(new)]
  BY DEF Views
<1>2. [RpcView EXCEPT ![c] = RpcOf(calls[c])] = RpcView
  BY ViewOf DEF RpcView
<1> QED
  BY <1>1, <1>2 DEF Promise!Ends

LEMMA FitsLeave ==
    ASSUME NEW c \in Call, NEW new, Views(c, new), PoolSame,
           OnOf(calls[c]) # NoSubConn, OnOf(new) = NoSubConn, DueOf(calls[c]) = NoSubConn,
           \/ /\ DueOf(new) = OnOf(calls[c]) /\ RpcOf(new) = RpcOf(calls[c])
              /\ RpcOf(calls[c]).cmd \in {"BIND", "UNBIND"}
           \/ /\ DueOf(new) = NoSubConn /\ RpcOf(new) \in {RpcOf(calls[c]), Promise!NoRpc}
    PROVE  Fits(c)
<1>1. OnView[c] # NoSubConn /\ OnView' = [OnView EXCEPT ![c] = NoSubConn]
  BY ViewOf DEF Views
<1>2. CASE /\ DueOf(new) = OnOf(calls[c]) /\ RpcOf(new) = RpcOf(calls[c])
           /\ RpcOf(calls[c]).cmd \in {"BIND", "UNBIND"}
  <2>1. /\ UNCHANGED RpcView /\ RpcView[c].cmd \in {"BIND", "UNBIND"}
        /\ DueView' = [DueView EXCEPT ![c] = OnView[c]]
    <3>1. RpcView' = [RpcView EXCEPT ![c] = RpcOf(calls[c])]
      BY <1>2 DEF Views
    <3>2. RpcView' = RpcView
      BY <3>1, ViewOf DEF RpcView
    <3> QED
      BY <1>2, <3>2, ViewOf DEF Views
  <2>2. Promise!Leave(c)
    BY <1>1, <2>1 DEF Promise!Leave, PoolSame
  <2> QED
    BY <2>2 DEF Fits, Promise!RpcNext
<1>3. CASE DueOf(new) = NoSubConn /\ RpcOf(new) \in {RpcOf(calls[c]), Promise!NoRpc}
  <2>1. UNCHANGED DueView
    BY <1>3, ViewOf DEF Views, DueView
  <2>2. Promise!Leave(c)
    BY <1>1, <1>3, <2>1, EndsOf DEF Promise!Leave, PoolSame
  <2> QED
    BY <2>2 DEF Fits, Promise!RpcNext
<1> QED
  BY <1>2, <1>3

\* A key is bound or unbound by the RPC that owed it.
LEMMA FitsUpdate ==
    ASSUME NEW c \in Call, NEW new, Views(c, new), UNCHANGED <<Options, LiveRefs, ReadyRefs>>,
           OnOf(calls[c]) = NoSubConn, OnOf(new) = NoSubConn,
           NEW ref, ref # NoSubConn, DueOf(calls[c]) = ref, DueOf(new) = NoSubConn,
           RpcOf(new) \in {RpcOf(calls[c]), Promise!NoRpc},
           NEW k, RpcOf(calls[c]).key = k,
           \/ /\ RpcOf(calls[c]).cmd = "BIND"
              /\ BoundKeys' = BoundKeys \cup {k}
              /\ HomeOf' \in IF k \in BoundKeys THEN {HomeOf}
                             ELSE {[HomeOf EXCEPT ![k] = ch] : ch \in {ref, NoSubConn}}
           \/ /\ RpcOf(calls[c]).cmd = "UNBIND"
              /\ IF k \in BoundKeys /\ HomeOf[k] = NoSubConn
                 THEN UNCHANGED <<BoundKeys, HomeOf>>
                 ELSE /\ BoundKeys' = BoundKeys \ {k}
                      /\ HomeOf' = [HomeOf EXCEPT ![k] = NoSubConn]
    PROVE  Fits(c)
<1>1. UNCHANGED OnView
  BY ViewOf DEF Views, OnView
<1>2. DueView[c] = ref /\ DueView' = [DueView EXCEPT ![c] = NoSubConn]
  BY ViewOf DEF Views
<1>3. Promise!Ends(c)
  BY EndsOf
<1>4. RpcView[c].key = k /\ RpcView[c].cmd = RpcOf(calls[c]).cmd
  BY ViewOf
<1>5. Promise!Bind(c) \/ Promise!Unbind(c)
  <2>1. CASE RpcView[c].cmd = "BIND"
    BY <1>1, <1>2, <1>3, <1>4, <2>1 DEF Promise!Bind
  <2>2. CASE RpcView[c].cmd = "UNBIND"
    BY <1>1, <1>2, <1>3, <1>4, <2>2 DEF Promise!Unbind
  <2> QED
    BY <1>4, <2>1, <2>2
<1> QED
  BY <1>5 DEF Fits, Promise!RpcNext

-----------------------------------------------------------------------------
(***************************************************************************)
(* Each step of an RPC is one that the promise allows.                     *)
(***************************************************************************)

Fulfils(c) ==
    /\ Fits(c)
    /\ RpcOK(calls'[c])
    /\ calls'[c].pc = "update" => Belongs(calls'[c].sc, calls'[c].ref)

\* Where an RPC is that is on no channel.
LEMMA OffChannel ==
    ASSUME NEW call, call.pc \notin HoldingPCs
    PROVE  /\ OnOf(call) = NoSubConn
           /\ call.pc \notin DonePCs => DueOf(call) = NoSubConn
BY DEF OnOf, DueOf

\* Where it is that is offered nothing.
LEMMA NotOffered ==
    ASSUME NEW call, call.pc \notin OfferedPCs
    PROVE  RpcOf(call) = Asked(call)
<1> DEFINE offered == IF call.pc \in OfferedPCs THEN call.refs ELSE {}
           free == call.pc \in ChoosingPCs
<1>1. offered = {} /\ free = FALSE
  BY DEF OfferedPCs, LockingPCs
<1> HIDE DEF offered, free
<1>2. [cmd |-> call.cmd, key |-> call.key, offered |-> offered, free |-> free] = Asked(call)
  BY <1>1 DEF Asked, Promise!Rpc
<1> QED
  BY <1>2 DEF RpcOf, offered, free

LEMMA NoCallSeen ==
    /\ RpcOf(NoCall) = Promise!NoRpc
    /\ OnOf(NoCall) = NoSubConn /\ DueOf(NoCall) = NoSubConn
    /\ RpcOK(NoCall) /\ NoCall.pc = "none"
<1>1. /\ NoCall.pc = "none" /\ NoCall.cmd = "NONE" /\ NoCall.key = NoSubConn
      /\ NoCall.ref = NoSubConn
  BY DEF NoCall
<1>2. RpcOf(NoCall) = Asked(NoCall) /\ OnOf(NoCall) = NoSubConn /\ DueOf(NoCall) = NoSubConn
  BY <1>1, OffChannel, NotOffered DEF OfferedPCs, LockingPCs, ChoosingPCs, FallbackPCs, HoldingPCs, DonePCs
<1> QED
  BY <1>1, <1>2 DEF Asked, Promise!NoRpc, RpcOK, OfferedPCs, LockingPCs, ChoosingPCs, FallbackPCs

LEMMA WaitsSeen ==
    ASSUME NEW call \in CallType
    PROVE  /\ RpcOf(Waits(call)) = Asked(call)
           /\ OnOf(Waits(call)) = NoSubConn /\ DueOf(Waits(call)) = NoSubConn
           /\ RpcOK(Waits(call)) /\ Waits(call).pc = "waiting"
<1> DEFINE new == Waits(call)
<1>1. new.pc = "waiting" /\ new.cmd = call.cmd /\ new.key = call.key
  BY DEF CallType, Waits
<1> HIDE DEF new
<1>2. RpcOf(new) = Asked(new) /\ OnOf(new) = NoSubConn /\ DueOf(new) = NoSubConn
  BY <1>1, OffChannel, NotOffered DEF OfferedPCs, LockingPCs, ChoosingPCs, FallbackPCs, HoldingPCs, DonePCs
<1>3. Asked(new) = Asked(call) /\ RpcOK(new)
  BY <1>1 DEF Asked, RpcOK, OfferedPCs, LockingPCs, ChoosingPCs, FallbackPCs
<1> QED
  BY <1>1, <1>2, <1>3 DEF new

\* From a callback, the RPC goes to where its key is yet to be bound or unbound,
\* or ends, or goes back to wait.
Ended(call, new) ==
    /\ OnOf(new) = NoSubConn
    /\ RpcOK(new) /\ new.pc # "update"
    /\ RpcOf(new) \in {Asked(call), Promise!NoRpc}
    /\ IF call.ok /\ Binds(call)
       THEN RpcOf(new) = Asked(call) /\ DueOf(new) = call.ref
       ELSE DueOf(new) = NoSubConn

LEMMA AffinitySeen == ASSUME NEW call \in CallType PROVE Ended(call, Affinity(call))
<1> DEFINE reads == [call EXCEPT !.pc = "affinity"]
           again == [call EXCEPT !.retry = FALSE, !.ok = FALSE]
<1>1. /\ reads.pc = "affinity" /\ reads.cmd = call.cmd /\ reads.key = call.key
      /\ reads.ref = call.ref /\ reads.ok = call.ok /\ reads.retry = call.retry
  BY DEF CallType
<1>2. again \in CallType /\ Asked(again) = Asked(call)
  BY DEF CallType, Asked
<1>3. Affinity(call) = IF call.ok /\ call.cmd \in {"BIND", "UNBIND"} THEN reads
                       ELSE IF call.retry THEN Waits(again) ELSE NoCall
  BY DEF Affinity
<1> HIDE DEF reads, again
<1>4. /\ RpcOf(reads) = Asked(call) /\ OnOf(reads) = NoSubConn
      /\ Binds(reads) = Binds(call)
  <2>1. RpcOf(reads) = Asked(reads) /\ OnOf(reads) = NoSubConn
    BY <1>1, OffChannel, NotOffered DEF OfferedPCs, LockingPCs, ChoosingPCs, FallbackPCs, HoldingPCs, DonePCs
  <2> QED
    BY <1>1, <2>1 DEF Asked, Binds
<1>5. CASE call.ok /\ call.cmd \in {"BIND", "UNBIND"}
  <2>1. DueOf(reads) = IF Binds(call) THEN call.ref ELSE NoSubConn
    BY <1>1, <1>4, <1>5 DEF DueOf, DonePCs
  <2>2. RpcOK(reads)
    BY <1>1, <1>5 DEF RpcOK, OfferedPCs, LockingPCs, ChoosingPCs, FallbackPCs
  <2>3. Affinity(call) = reads
    BY <1>3, <1>5
  <2> QED
    BY <1>1, <1>4, <1>5, <2>1, <2>2, <2>3 DEF Ended
<1>6. CASE ~(call.ok /\ call.cmd \in {"BIND", "UNBIND"})
  <2>1. ~(call.ok /\ Binds(call))
    BY <1>6 DEF Binds
  <2>2. Affinity(call) \in {Waits(again), NoCall}
    BY <1>3, <1>6
  <2> QED
    BY <1>2, <2>1, <2>2, WaitsSeen, NoCallSeen DEF Ended
<1> QED
  BY <1>5, <1>6

LEMMA ViewTyped ==
    ASSUME ViewInv, NEW c \in Call
    PROVE  /\ RouteInv /\ PkInv /\ BInv /\ IInv
           /\ calls[c] \in CallType /\ LocalsOK(calls[c], LiveRefs) /\ RouteOK(calls[c]) /\ RpcOK(calls[c])
           /\ NoSubConn \notin LiveRefs /\ LiveRefs \subseteq SubConn
BY StreamsTyped DEF ViewInv, RouteInv, PkInv, BInv

\* It is given the channel ref.
LEMMA PickFulfils ==
    ASSUME ViewInv, NEW c \in Call, Views(c, calls'[c]), PoolSame,
           NEW ref \in LiveRefs, Picked(c, ref),
           calls[c].pc \in {"rrWait"} \cup OfferedPCs,
           Promise!ByKey(c, ref) \/ Promise!Anywhere(c, ref)
    PROVE  Fulfils(c)
<1> DEFINE new == [calls[c] EXCEPT !.pc = "picked", !.ref = ref, !.sc = ServedBy(ref),
                                   !.left = {}, !.cnt = 0, !.late = FALSE]
<1>0. calls[c] \in CallType /\ ref \in SubConn
  BY ViewTyped
<1>1. calls'[c] = new
  BY ViewTyped, SetTo DEF Picked
<1>2. new.pc = "picked" /\ new.ref = ref /\ new.cmd = calls[c].cmd /\ new.key = calls[c].key
  BY <1>0 DEF CallType
<1> HIDE DEF new
<1>3. /\ RpcOf(new) = Asked(new) /\ Asked(new) = Asked(calls[c])
      /\ OnOf(new) = ref /\ DueOf(new) = NoSubConn
  <2>1. RpcOf(new) = Asked(new)
    BY <1>2, NotOffered DEF OfferedPCs, LockingPCs, ChoosingPCs, FallbackPCs
  <2> QED
    BY <1>2, <2>1 DEF Asked, OnOf, DueOf, HoldingPCs, DonePCs
<1>4. OnOf(calls[c]) = NoSubConn /\ DueOf(calls[c]) = NoSubConn
  BY OffChannel DEF OfferedPCs, LockingPCs, ChoosingPCs, FallbackPCs, HoldingPCs, DonePCs
<1>5. Fits(c)
  BY <1>0, <1>1, <1>3, <1>4, FitsGo
<1>6. RpcOK(new)
  BY <1>2 DEF RpcOK, OfferedPCs, LockingPCs, ChoosingPCs, FallbackPCs
<1> QED
  BY <1>1, <1>2, <1>5, <1>6 DEF Fulfils

\* It goes to wait.
LEMMA WaitFulfils ==
    ASSUME ViewInv, NEW c \in Call, Views(c, calls'[c]),
           calls' = [calls EXCEPT ![c] = Waits(calls[c])],
           calls[c].pc \in OfferedPCs,
           LiveRefs \subseteq LiveRefs', UNCHANGED <<Options, ReadyRefs, BoundKeys, HomeOf>>
    PROVE  Fulfils(c)
<1>0. calls[c] \in CallType
  BY ViewTyped
<1>1. calls'[c] = Waits(calls[c])
  BY ViewTyped, SetTo
<1>2. OnOf(calls[c]) = NoSubConn /\ DueOf(calls[c]) = NoSubConn
  BY OffChannel DEF OfferedPCs, LockingPCs, ChoosingPCs, FallbackPCs, HoldingPCs, DonePCs
<1>3. Fits(c)
  BY <1>0, <1>1, <1>2, WaitsSeen, FitsWait
<1> QED
  BY <1>0, <1>1, <1>3, WaitsSeen DEF Fulfils

\* It ends, or goes back to wait, from its callback or from waiting.
LEMMA EndFulfils ==
    ASSUME ViewInv, NEW c \in Call, NEW new, Views(c, calls'[c]), calls'[c] = new, PoolSame,
           calls[c].pc \in {"waiting"} \cup DonePCs, DueOf(calls[c]) = NoSubConn,
           OnOf(new) = NoSubConn, DueOf(new) = NoSubConn,
           RpcOf(new) \in {Asked(calls[c]), Promise!NoRpc},
           RpcOK(new), new.pc # "update"
    PROVE  Fulfils(c)
<1>1. OnOf(calls[c]) = NoSubConn
  BY OffChannel DEF HoldingPCs, DonePCs
<1>2. RpcOf(calls[c]) = Asked(calls[c])
  BY NotOffered DEF OfferedPCs, LockingPCs, ChoosingPCs, FallbackPCs, DonePCs
<1>3. Fits(c)
  BY <1>1, <1>2, FitsEnds
<1> QED
  BY <1>3 DEF Fulfils

\* It is in its callback and goes on.
LEMMA EndedFulfils ==
    ASSUME ViewInv, NEW c \in Call, NEW call, Views(c, calls'[c]), PoolSame,
           Ended(call, calls'[c]), Asked(call) = Asked(calls[c]),
           calls[c].pc \in {"waiting"} \cup DonePCs,
           DueOf(calls[c]) = IF call.ok /\ Binds(call) THEN call.ref ELSE NoSubConn
    PROVE  Fulfils(c)
<1> DEFINE new == calls'[c]
<1>0. OnOf(calls[c]) = NoSubConn /\ OnOf(new) = NoSubConn
  BY OffChannel DEF HoldingPCs, DonePCs, Ended
<1>1. RpcOf(calls[c]) = Asked(calls[c]) /\ DueOf(new) = DueOf(calls[c])
  BY NotOffered DEF OfferedPCs, LockingPCs, ChoosingPCs, FallbackPCs, DonePCs, Ended
<1> HIDE DEF new
<1>2. CASE call.ok /\ Binds(call)
  <2>1. RpcOf(new) = RpcOf(calls[c])
    BY <1>1, <1>2 DEF Ended, new
  <2>2. Fits(c)
    BY <1>0, <1>1, <2>1, FitsUnseen DEF new
  <2> QED
    BY <2>2 DEF Fulfils, Ended
<1>3. CASE ~(call.ok /\ Binds(call))
  <2>1. DueOf(calls[c]) = NoSubConn /\ RpcOf(new) \in {RpcOf(calls[c]), Promise!NoRpc}
    BY <1>1, <1>3 DEF Ended, new
  <2>2. Fits(c)
    BY <1>0, <1>1, <2>1, FitsEnds DEF new
  <2> QED
    BY <2>2 DEF Fulfils, Ended
<1> QED
  BY <1>2, <1>3

\* It calls Done: it leaves its channel.
LEMMA DoneFulfils ==
    ASSUME ViewInv, NEW c \in Call, Views(c, calls'[c]), PoolSame,
           NEW ok \in BOOLEAN, NEW retry \in BOOLEAN, NEW deadline \in BOOLEAN, deadline => ~ok,
           calls[c].pc \in HoldingPCs, Done(c, Outcome(c, ok, retry), deadline)
    PROVE  Fulfils(c)
<1> DEFINE call == Outcome(c, ok, retry)
           to(pc) == [call EXCEPT !.pc = pc]
<1>0. calls[c] \in CallType /\ calls[c].ref # NoSubConn
  BY ViewTyped DEF LocalsOK
<1>1. /\ call \in CallType /\ call.cmd = calls[c].cmd /\ call.key = calls[c].key
      /\ call.ref = calls[c].ref /\ call.ok = ok
  BY <1>0 DEF Outcome, CallType, MaybeSubConn
<1>2. /\ calls'[c] \in {Affinity(call), to("gotResp"), NoCall, to("count")}
      /\ calls'[c] \in {NoCall, to("count")} => calls'[c] = Affinity(call) \/ calls'[c] = to("gotResp") \/ deadline
  BY ViewTyped, SetTo DEF Done, Local
<1>3. \A pc : /\ to(pc).pc = pc /\ to(pc).cmd = call.cmd /\ to(pc).key = call.key
              /\ to(pc).ref = call.ref /\ to(pc).ok = call.ok /\ to(pc).retry = call.retry
  BY <1>1 DEF CallType
<1> HIDE DEF call, to
<1>4. Ended(call, to("gotResp"))
  <2> DEFINE new == to("gotResp")
  <2>1. new.pc = "gotResp" /\ Asked(new) = Asked(call) /\ Binds(new) = Binds(call)
    BY <1>3 DEF Asked, Binds
  <2>2. RpcOf(new) = Asked(new) /\ OnOf(new) = NoSubConn
    BY <2>1, NotOffered, OffChannel DEF OfferedPCs, LockingPCs, ChoosingPCs, FallbackPCs, HoldingPCs
  <2>3. DueOf(new) = IF call.ok /\ Binds(call) THEN call.ref ELSE NoSubConn
    BY <1>3, <2>1 DEF DueOf, DonePCs
  <2>4. RpcOK(new)
    BY <2>1 DEF RpcOK, OfferedPCs, LockingPCs, ChoosingPCs, FallbackPCs
  <2> QED
    BY <2>1, <2>2, <2>3, <2>4 DEF Ended
<1>5. ~ok => Ended(call, to("count"))
  <2> DEFINE new == to("count")
  <2>1. new.pc = "count" /\ Asked(new) = Asked(call) /\ new.ok = ok
    BY <1>1, <1>3 DEF Asked
  <2>2. RpcOf(new) = Asked(new) /\ OnOf(new) = NoSubConn
    BY <2>1, NotOffered, OffChannel DEF OfferedPCs, LockingPCs, ChoosingPCs, FallbackPCs, HoldingPCs
  <2>3. ~ok => DueOf(new) = NoSubConn
    BY <2>1 DEF DueOf
  <2>4. ~ok => RpcOK(new)
    BY <2>1 DEF RpcOK, OfferedPCs, LockingPCs, ChoosingPCs, FallbackPCs
  <2> HIDE DEF new
  <2>5. ~ok => Ended(call, new)
    BY <1>1, <2>1, <2>2, <2>3, <2>4 DEF Ended
  <2> QED
    BY <2>5 DEF new
<1>6. ~ok => Ended(call, NoCall)
  BY <1>1, NoCallSeen DEF Ended
<1>7. Ended(call, calls'[c])
  BY <1>1, <1>2, <1>4, <1>5, <1>6, AffinitySeen
<1>8. RpcOf(calls[c]) = Asked(calls[c]) /\ Asked(call) = Asked(calls[c])
  BY <1>1, NotOffered DEF Asked, OfferedPCs, LockingPCs, ChoosingPCs, FallbackPCs, HoldingPCs
<1>9. OnOf(calls[c]) = calls[c].ref /\ DueOf(calls[c]) = NoSubConn
  BY DEF OnOf, DueOf, HoldingPCs, DonePCs
<1>10. Binds(call) => RpcOf(calls[c]).cmd \in {"BIND", "UNBIND"}
  BY <1>1 DEF Binds, RpcOf
<1> DEFINE new == calls'[c]
<1> HIDE DEF new
<1>11. Fits(c)
  <2>1. OnOf(new) = NoSubConn
    BY <1>7 DEF Ended, new
  <2>2. CASE call.ok /\ Binds(call)
    <3>1. DueOf(new) = OnOf(calls[c]) /\ RpcOf(new) = RpcOf(calls[c])
      BY <1>1, <1>7, <1>8, <1>9, <2>2 DEF Ended, new
    <3> QED
      BY <1>0, <1>9, <1>10, <2>1, <2>2, <3>1, FitsLeave DEF new
  <2>3. CASE ~(call.ok /\ Binds(call))
    <3>1. DueOf(new) = NoSubConn /\ RpcOf(new) \in {RpcOf(calls[c]), Promise!NoRpc}
      BY <1>7, <1>8, <2>3 DEF Ended, new
    <3> QED
      BY <1>0, <1>9, <2>1, <3>1, FitsLeave DEF new
  <2> QED
    BY <2>2, <2>3
<1> QED
  BY <1>7, <1>11 DEF Fulfils, Ended

\* It asks, or asks again with the next picker.
LEMMA AskFulfils ==
    ASSUME ViewInv, NEW c \in Call, Views(c, calls'[c]),
           NEW cmd \in Commands, NEW k \in Key \cup {NoSubConn},
           Quietly(c, UsesPicker([NoCall EXCEPT !.cmd = cmd, !.key = k])),
           \/ calls[c].pc = "none"
           \/ calls[c].pc = "waiting" /\ cmd = calls[c].cmd /\ k = calls[c].key
    PROVE  Fulfils(c)
<1> DEFINE new == UsesPicker([NoCall EXCEPT !.cmd = cmd, !.key = k])
<1>1. calls'[c] = new /\ PoolSame
  BY ViewTyped, SetTo, QuietIsSame DEF Quietly, Local
<1>2. /\ new.cmd = cmd /\ new.key = k /\ new.refs = picker.refs
      /\ new.pc = IF cmd = "BIND" /\ cp.roundRobin THEN "roundRobin" ELSE "lock"
      /\ new.ref = NoSubConn
  BY DEF UsesPicker, NoCall
<1>3. picker.refs = ReadyRefs
  BY ViewTyped DEF BInv, PInv, PickerCurrent
<1> HIDE DEF new
<1>4. RpcOf(new) = Promise!Asking(cmd, k)
  <2>1. Options.roundRobin = cp.roundRobin
    BY DEF Options
  <2>2. CASE cmd = "BIND" /\ cp.roundRobin
    <3>1. RpcOf(new) = Promise!Rpc(cmd, k, {}, FALSE)
      BY <1>2, <2>2, NotOffered DEF Asked, OfferedPCs, LockingPCs, ChoosingPCs, FallbackPCs
    <3> QED
      BY <2>1, <2>2, <3>1 DEF Promise!Asking
  <2>3. CASE ~(cmd = "BIND" /\ cp.roundRobin)
    <3>1. new.pc = "lock" /\ new.pc \in OfferedPCs /\ (new.pc \in ChoosingPCs) = FALSE
      BY <1>2, <2>3 DEF OfferedPCs, ChoosingPCs
    <3>2. RpcOf(new) = Promise!Rpc(cmd, k, ReadyRefs, FALSE)
      BY <1>2, <1>3, <3>1 DEF RpcOf, Promise!Rpc
    <3> QED
      BY <2>1, <2>3, <3>2 DEF Promise!Asking
  <2> QED
    BY <2>2, <2>3
<1>5. /\ OnOf(calls[c]) = NoSubConn /\ OnOf(new) = NoSubConn
      /\ DueOf(calls[c]) = NoSubConn /\ DueOf(new) = NoSubConn
  BY <1>2, OffChannel DEF HoldingPCs, DonePCs
<1>6. RpcOf(calls[c]) = Promise!NoRpc \/ (RpcOf(calls[c]).cmd = cmd /\ RpcOf(calls[c]).key = k)
  <2>1. RpcOf(calls[c]) = Asked(calls[c])
    BY NotOffered DEF OfferedPCs, LockingPCs, ChoosingPCs, FallbackPCs
  <2>2. calls[c].pc = "none" => calls[c].cmd = "NONE" /\ calls[c].key = NoSubConn
    BY ViewTyped DEF RpcOK
  <2>3. calls[c].pc = "none" => Asked(calls[c]) = Promise!NoRpc
    BY <2>2 DEF Asked, Promise!NoRpc
  <2>4. Asked(calls[c]).cmd = calls[c].cmd /\ Asked(calls[c]).key = calls[c].key
    BY DEF Asked, Promise!Rpc
  <2> QED
    BY <2>1, <2>3, <2>4
<1>7. Fits(c)
  BY <1>1, <1>4, <1>5, <1>6, FitsAsk
<1>8. RpcOK(new) /\ new.pc # "update"
  BY <1>2 DEF RpcOK, OfferedPCs, LockingPCs, ChoosingPCs, FallbackPCs
<1> QED
  BY <1>1, <1>7, <1>8 DEF Fulfils

LEMMA StartFulfils ==
    ASSUME ViewInv, NEW c \in Call, Views(c, calls'[c]),
           NEW cmd \in Commands, NEW k \in Key \cup {NoSubConn}, StartCall(c, cmd, k)
    PROVE  Fulfils(c)
BY AskFulfils DEF StartCall

LEMMA NextPickerFulfils ==
    ASSUME ViewInv, NEW c \in Call, Views(c, calls'[c]), NextPicker(c)
    PROVE  Fulfils(c)
<1>0. calls[c].cmd \in Commands /\ calls[c].key \in Key \cup {NoSubConn} /\ calls[c].pc = "waiting"
  BY ViewTyped DEF CallType, NextPicker
<1>1. CASE Quietly(c, NoCall)
  <2>1. calls'[c] = NoCall /\ PoolSame
    BY <1>1, ViewTyped, SetTo, QuietIsSame DEF Quietly, Local
  <2>2. DueOf(calls[c]) = NoSubConn
    BY <1>0, OffChannel DEF HoldingPCs, DonePCs
  <2> QED
    BY <1>0, <2>1, <2>2, NoCallSeen, EndFulfils
<1>2. CASE ~Quietly(c, NoCall)
  BY <1>0, <1>2, AskFulfils DEF NextPicker
<1> QED
  BY <1>1, <1>2

\* A channel that is ready is in the pool, and is told by its SubConn.
LEMMA ReadyIs ==
    ASSUME IInv
    PROVE  /\ \A sc \in SubConn : scStates[sc] = "Ready" => scRefs[sc] \in ReadyRefs /\ sc \in Pool
           /\ \A sc \in SubConn : scRefs[sc] \in ReadyRefs => scStates[sc] = "Ready"
           /\ ReadyRefs \subseteq LiveRefs /\ NoSubConn \notin ReadyRefs
<1>1. \A sc \in SubConn : scStates[sc] = "Ready" => scRefs[sc] \in ReadyRefs /\ sc \in Pool
  BY DEF IInv, Linked, RefsConsistent, ReadyRefs
<1>2. \A sc \in Pool : scRefs[sc] \in SubConn /\ refs[scRefs[sc]].subConn = sc
  BY PoolTyped DEF Pool, MaybeSubConn, IInv, Linked, RefsConsistent
<1>3. ReadyRefs \subseteq LiveRefs /\ NoSubConn \notin ReadyRefs
  BY <1>1, <1>2, SubConnAssumption DEF ReadyRefs, LiveRefs, Pool
<1>4. ASSUME NEW sc \in SubConn, scRefs[sc] \in ReadyRefs PROVE scStates[sc] = "Ready"
  <2>1. PICK x \in SubConn : scStates[x] = "Ready" /\ scRefs[x] = scRefs[sc]
    BY <1>4 DEF ReadyRefs
  <2>2. x \in Pool /\ sc \in Pool
    BY <1>1, <1>3, <1>4, <2>1 DEF Pool
  <2> QED
    BY <1>2, <2>1, <2>2
<1> QED
  BY <1>1, <1>3, <1>4

\* The configuration the balancer has once RPCs exist.
LEMMA CallsConfigured ==
    ASSUME RouteInv, NEW c \in Call, calls[c].pc # "none"
    PROVE  cfg # NoConfig /\ cfg.fallbackToReady = Options.fallbackToReady
<1>1. cc.served
  BY DEF RouteInv
<1>2. cfg # NoConfig
  BY <1>1 DEF RouteInv, PkInv, BInv, FInv, ConfigFirst
<1> QED
  BY <1>2, PoolsTyped DEF RouteInv, initializeConfig, ConfigType, Options

\* The channel of a bound key, if it is ready, or else that of its fallback.
LEMMA RefByKey ==
    ASSUME ViewInv, NEW c \in Call, calls[c].pc # "none", HasBoundKey(calls[c]),
           NEW ref \in ReadyRefs,
           \/ ref = scRefs[affinityMap[calls[c].key]]
           \/ cfg.fallbackToReady /\ scStates[affinityMap[calls[c].key]] # "Ready"
    PROVE  Promise!ByKey(c, ref)
<1> DEFINE k == calls[c].key
<1>1. k \in Key /\ k \in BoundKeys /\ affinityMap[k] \in SubConn
  BY ViewTyped, PoolTyped DEF HasBoundKey, LocalsOK, BoundKeys, MaybeSubConn
<1>2. RpcView[c].key = k /\ RpcView[c].cmd \in {"BOUND", "UNBIND"}
  BY AskedOf DEF HasBoundKey
<1>3. HomeOf[k] = scRefs[affinityMap[k]]
  BY <1>1 DEF HomeOf
<1>4. scStates[affinityMap[k]] # "Ready" => HomeOf[k] \notin ReadyRefs
  BY <1>1, <1>3, ViewTyped, ReadyIs
<1>5. cfg.fallbackToReady => Options.fallbackToReady
  BY ViewTyped, CallsConfigured
<1> HIDE DEF k
<1>6. ~Promise!Unbound(c)
  BY <1>1, <1>2 DEF Promise!Unbound
<1> QED
  BY <1>2, <1>3, <1>4, <1>5, <1>6 DEF Promise!ByKey, k

LEMMA PickBoundFulfils ==
    ASSUME ViewInv, NEW c \in Call, Views(c, calls'[c]), calls[c].pc = "lock", PickBound(c)
    PROVE  Fulfils(c)
<1> DEFINE k == calls[c].key
           ref == ReadySubConnRef(k)
<1>0. PoolSame
  BY QuietIsSame DEF PickBound, Quietly, Local, PicksRef, Picked
<1>1. CASE ref = NoSubConn
  <2>1. calls' = [calls EXCEPT ![c] = Waits(calls[c])]
    BY <1>1 DEF PickBound, Quietly, Local
  <2> QED
    BY <1>0, <2>1, WaitFulfils DEF PoolSame, OfferedPCs
<1>2. CASE ref # NoSubConn
  <2>1. k \in Key /\ affinityMap[k] \in SubConn /\ fallbackMap[k] \in MaybeSubConn
    BY ViewTyped, PoolTyped DEF PickBound, HasBoundKey, LocalsOK, MaybeSubConn
  <2>2. /\ ref \in ReadyRefs
        /\ \/ ref = scRefs[affinityMap[k]]
           \/ cfg.fallbackToReady /\ scStates[affinityMap[k]] # "Ready"
    <3>1. CASE scStates[affinityMap[k]] = "Ready"
      BY <2>1, <3>1, ViewTyped, ReadyIs DEF ReadySubConnRef
    <3>2. CASE scStates[affinityMap[k]] # "Ready"
      <4>1. cfg.fallbackToReady /\ fallbackMap[k] # NoSubConn /\ ref = scRefs[fallbackMap[k]]
        BY <1>2, <3>2 DEF ReadySubConnRef
      <4>2. fallbackMap[k] \in Pool
        BY <1>2, <2>1, <4>1 DEF Pool, MaybeSubConn
      <4>3. scStates[fallbackMap[k]] = "Ready"
        BY <2>1, <4>1, <4>2 DEF ViewInv, KeysKnown
      <4> QED
        BY <3>2, <4>1, <4>2, <4>3, ViewTyped, ReadyIs DEF Pool
    <3> QED
      BY <3>1, <3>2
  <2>3. Picked(c, ref) /\ HasBoundKey(calls[c])
    BY <1>2 DEF PickBound, PicksRef
  <2>4. ref \in LiveRefs
    BY <2>2, ViewTyped, ReadyIs
  <2> HIDE DEF ref
  <2>5. Promise!ByKey(c, ref)
    BY <2>2, <2>3, RefByKey
  <2> QED
    BY <1>0, <2>3, <2>4, <2>5, PickFulfils DEF OfferedPCs
<1> QED
  BY <1>1, <1>2

\* Nothing is seen of a step that leaves the locals of c alone.
LEMMA StayFulfils ==
    ASSUME ViewInv, NEW c \in Call, Views(c, calls'[c]), PoolSame, UNCHANGED calls,
           calls[c].pc # "update"
    PROVE  Fulfils(c)
<1>1. calls'[c] = calls[c]
  OBVIOUS
<1>2. Fits(c)
  BY <1>1, FitsUnseen
<1> QED
  BY <1>1, <1>2, ViewTyped DEF Fulfils

\* The search for a fallback begins.
LEMMA PickFallbackFulfils ==
    ASSUME ViewInv, NEW c \in Call, Views(c, calls'[c]), calls[c].pc = "lock", PickFallback(c)
    PROVE  Fulfils(c)
<1>0. UNCHANGED <<cp, affinityMap, scRefs, scStates, refs>>
  BY DEF PickFallback, CreateFallback, Begins, Quietly, Local, balancerVars, vars, poolVars, keyVars
<1>1. PoolSame
  BY <1>0, PoolIsSame DEF LiveRefs
<1>2. CASE UNCHANGED calls
  BY <1>1, <1>2, StayFulfils
<1>3. ASSUME NEW ref, Quietly(c, [calls[c] EXCEPT !.pc = "fbRead", !.left = picker.refs, !.ref = ref])
      PROVE  Fulfils(c)
  <2> DEFINE new == [calls[c] EXCEPT !.pc = "fbRead", !.left = picker.refs, !.ref = ref]
  <2>1. calls'[c] = new
    BY <1>3, ViewTyped, SetTo DEF Quietly, Local
  <2>2. /\ new.pc = "fbRead" /\ new.cmd = calls[c].cmd /\ new.key = calls[c].key
        /\ new.refs = calls[c].refs
    BY ViewTyped DEF CallType
  <2> HIDE DEF new
  <2>3. RpcOf(new) = RpcOf(calls[c])
    <3>1. new.pc \in OfferedPCs /\ (new.pc \in ChoosingPCs) = FALSE
      BY <2>2 DEF OfferedPCs, LockingPCs, ChoosingPCs, FallbackPCs
    <3>2. calls[c].pc \in OfferedPCs /\ (calls[c].pc \in ChoosingPCs) = FALSE
      BY DEF OfferedPCs, ChoosingPCs
    <3> QED
      BY <2>2, <3>1, <3>2 DEF RpcOf
  <2>4. /\ OnOf(calls[c]) = NoSubConn /\ DueOf(calls[c]) = NoSubConn
        /\ OnOf(new) = NoSubConn /\ DueOf(new) = NoSubConn
    BY <2>2, OffChannel DEF HoldingPCs, DonePCs
  <2>5. Fits(c)
    BY <1>1, <2>1, <2>3, <2>4, FitsUnseen
  <2>6. RpcOK(new)
    BY <2>2 DEF RpcOK, ChoosingPCs, FallbackPCs, PickFallback, HasBoundKey
  <2> QED
    BY <2>1, <2>2, <2>5, <2>6 DEF Fulfils
<1> QED
  BY <1>2, <1>3 DEF PickFallback, Begins

LEMMA StartScanFulfils ==
    ASSUME ViewInv, NEW c \in Call, Views(c, calls'[c]), calls[c].pc = "lock", StartScan(c)
    PROVE  Fulfils(c)
<1>1. PICK ref \in calls[c].refs :
           Quietly(c, [calls[c] EXCEPT !.pc = "read", !.left = calls[c].refs, !.ref = ref])
  BY DEF StartScan, Begins
<1> DEFINE new == [calls[c] EXCEPT !.pc = "read", !.left = calls[c].refs, !.ref = ref]
<1>2. calls'[c] = new /\ PoolSame
  BY <1>1, ViewTyped, SetTo, QuietIsSame DEF Quietly, Local
<1>3. /\ new.pc = "read" /\ new.cmd = calls[c].cmd /\ new.key = calls[c].key
      /\ new.refs = calls[c].refs /\ new.left = calls[c].refs /\ new.ref = ref
  BY ViewTyped DEF CallType
<1> HIDE DEF new
<1>4. RpcOf(new) = Scanning(calls[c])
  <2>1. new.pc \in OfferedPCs /\ (new.pc \in ChoosingPCs) = TRUE
    BY <1>3 DEF OfferedPCs, LockingPCs, ChoosingPCs
  <2> QED
    BY <1>3, <2>1 DEF RpcOf, Scanning, Promise!Rpc
<1>5. OnOf(new) = NoSubConn /\ DueOf(new) = NoSubConn
  BY <1>3, OffChannel DEF HoldingPCs, DonePCs
<1>6. Fits(c)
  BY <1>2, <1>4, <1>5, FitsFree DEF StartScan
<1>7. RpcOK(new)
  BY <1>3 DEF RpcOK, FallbackPCs
<1> QED
  BY <1>2, <1>3, <1>6, <1>7 DEF Fulfils

LEMMA LockFulfils ==
    ASSUME ViewInv, NEW c \in Call, Views(c, calls'[c]), LockPicker(c)
    PROVE  Fulfils(c)
BY PickBoundFulfils, PickFallbackFulfils, StartScanFulfils DEF LockPicker

\* It goes on with the scan, or with what follows it.
LEMMA ScansFulfils ==
    ASSUME ViewInv, NEW c \in Call, NEW new, Views(c, calls'[c]), PoolSame, calls'[c] = new,
           new.cmd = calls[c].cmd, new.key = calls[c].key, new.refs = calls[c].refs,
           \/ /\ calls[c].pc \in ChoosingPCs /\ new.pc \in ChoosingPCs
              /\ new.left \subseteq new.refs /\ new.ref \in new.refs
           \/ calls[c].pc \in FallbackPCs /\ new.pc \in FallbackPCs
    PROVE  Fulfils(c)
<1>1. RpcOf(new) = RpcOf(calls[c])
  <2>1. calls[c].pc \in OfferedPCs /\ new.pc \in OfferedPCs
    BY DEF OfferedPCs, LockingPCs
  <2>2. (calls[c].pc \in ChoosingPCs) = (new.pc \in ChoosingPCs)
    BY DEF ChoosingPCs, FallbackPCs
  <2> QED
    BY <2>1, <2>2 DEF RpcOf
<1>2. /\ OnOf(calls[c]) = NoSubConn /\ DueOf(calls[c]) = NoSubConn
      /\ OnOf(new) = NoSubConn /\ DueOf(new) = NoSubConn
  BY OffChannel DEF ChoosingPCs, FallbackPCs, HoldingPCs, DonePCs
<1>3. Fits(c)
  BY <1>1, <1>2, FitsUnseen
<1>4. RpcOK(new) /\ new.pc # "update"
  BY ViewTyped DEF RpcOK, ChoosingPCs, FallbackPCs
<1> QED
  BY <1>3, <1>4 DEF Fulfils

LEMMA ReadCountFulfils ==
    ASSUME ViewInv, NEW c \in Call, Views(c, calls'[c]), ReadCount(c)
    PROVE  Fulfils(c)
<1> DEFINE new == [calls[c] EXCEPT !.pc = IF @ = "read" THEN "scan" ELSE "fbScan",
                                   !.cnt = streamsCnt[calls[c].ref]]
<1>1. calls'[c] = new /\ PoolSame
  BY ViewTyped, SetTo, QuietIsSame DEF ReadCount, Quietly, Local
<1>2. /\ \/ calls[c].pc = "read" /\ new.pc = "scan"
         \/ calls[c].pc = "fbRead" /\ new.pc = "fbScan"
      /\ new.cmd = calls[c].cmd /\ new.key = calls[c].key /\ new.refs = calls[c].refs
      /\ new.left = calls[c].left /\ new.ref = calls[c].ref
  BY ViewTyped DEF CallType, ReadCount
<1> HIDE DEF new
<1> QED
  BY <1>1, <1>2, ViewTyped, ScansFulfils DEF RpcOK, ChoosingPCs, FallbackPCs

LEMMA ScanRefFulfils ==
    ASSUME ViewInv, NEW c \in Call, Views(c, calls'[c]), NEW ref \in SubConn, ScanRef(c, ref)
    PROVE  Fulfils(c)
<1> DEFINE next == [calls[c] EXCEPT !.pc = IF @ = "scan" THEN "read" ELSE "fbRead",
                                    !.left = @ \ {ref}, !.ref = ref]
           same == [calls[c] EXCEPT !.left = @ \ {ref}]
<1>0. /\ calls[c] \in CallType /\ calls[c].pc \in {"scan", "fbScan"} /\ ref \in calls[c].left
      /\ calls[c].pc = "scan" => calls[c].left \subseteq calls[c].refs /\ calls[c].ref \in calls[c].refs
  BY ViewTyped DEF ScanRef, Comes, RpcOK, ChoosingPCs
<1>1. calls'[c] \in {next, same} /\ PoolSame
  BY ViewTyped, SetTo, QuietIsSame DEF ScanRef, Quietly, Local
<1>2. /\ next.pc = (IF calls[c].pc = "scan" THEN "read" ELSE "fbRead")
      /\ next.cmd = calls[c].cmd /\ next.key = calls[c].key
      /\ next.refs = calls[c].refs /\ next.left \subseteq calls[c].left /\ next.ref = ref
  BY <1>0 DEF CallType
<1>3. /\ same.pc = calls[c].pc /\ same.cmd = calls[c].cmd /\ same.key = calls[c].key
      /\ same.refs = calls[c].refs /\ same.left \subseteq calls[c].left /\ same.ref = calls[c].ref
  BY <1>0 DEF CallType
<1> HIDE DEF next, same
<1>4. CASE calls'[c] = next
  BY <1>0, <1>1, <1>2, <1>4, ScansFulfils DEF ChoosingPCs, FallbackPCs
<1>5. CASE calls'[c] = same
  BY <1>0, <1>1, <1>3, <1>5, ScansFulfils DEF ChoosingPCs, FallbackPCs
<1> QED
  BY <1>1, <1>4, <1>5

\* One of the channels it was offered.
LEMMA OfferedIs ==
    ASSUME ViewInv, NEW c \in Call, calls[c].pc \in ChoosingPCs
    PROVE  Promise!Anywhere(c, calls[c].ref)
<1>1. calls[c].ref \in calls[c].refs
  BY ViewTyped DEF RpcOK
<1>2. RpcView[c].free /\ RpcView[c].offered = calls[c].refs
  BY DEF RpcView, RpcOf, OfferedPCs, LockingPCs
<1> QED
  BY <1>1, <1>2 DEF Promise!Anywhere

\* The scan is over, and the channel is taken or found too busy.
LEMMA ChosenFulfils ==
    ASSUME ViewInv, NEW c \in Call, Views(c, calls'[c]), calls[c].pc \in {"scan", "full"},
           \/ PicksRef(c, calls[c].ref)
           \/ \E to \in {"full", "grow"} : Quietly(c, [calls[c] EXCEPT !.pc = to])
    PROVE  Fulfils(c)
<1>0. PoolSame /\ calls[c].pc \in ChoosingPCs
  BY QuietIsSame DEF Quietly, Local, PicksRef, Picked, ChoosingPCs
<1>1. CASE PicksRef(c, calls[c].ref)
  <2>1. calls[c].ref \in LiveRefs
    BY <1>0, ViewTyped DEF LocalsOK, LockingPCs
  <2>2. Promise!Anywhere(c, calls[c].ref)
    BY <1>0, OfferedIs
  <2> QED
    BY <1>0, <1>1, <2>1, <2>2, PickFulfils DEF PicksRef, OfferedPCs, LockingPCs
<1>2. ASSUME NEW to \in {"full", "grow"}, Quietly(c, [calls[c] EXCEPT !.pc = to]) PROVE Fulfils(c)
  <2> DEFINE new == [calls[c] EXCEPT !.pc = to]
  <2>1. calls'[c] = new
    BY <1>2, ViewTyped, SetTo DEF Quietly, Local
  <2>2. /\ new.pc = to /\ new.cmd = calls[c].cmd /\ new.key = calls[c].key
        /\ new.refs = calls[c].refs /\ new.left = calls[c].left /\ new.ref = calls[c].ref
    BY ViewTyped DEF CallType
  <2> HIDE DEF new
  <2>3. new.pc \in ChoosingPCs /\ calls[c].left \subseteq calls[c].refs /\ calls[c].ref \in calls[c].refs
    BY <1>0, <2>2, ViewTyped DEF RpcOK, ChoosingPCs
  <2> QED
    BY <1>0, <1>2, <2>1, <2>2, <2>3, ScansFulfils
<1> QED
  BY <1>1, <1>2

LEMMA EndScanFulfils ==
    ASSUME ViewInv, NEW c \in Call, Views(c, calls'[c]), EndScan(c)
    PROVE  Fulfils(c)
BY ChosenFulfils DEF EndScan

\* The fallback that was found is a channel that is ready.
LEMMA EndFallbackFulfils ==
    ASSUME ViewInv, NEW c \in Call, Views(c, calls'[c]), EndFallback(c)
    PROVE  Fulfils(c)
<1> DEFINE k == calls[c].key
           ref == calls[c].ref
<1>0. UNCHANGED <<cp, affinityMap, scRefs, scStates, refs>>
  BY DEF EndFallback, CreateFallback, Picked, poolVars
<1>1. PoolSame
  BY <1>0, PoolIsSame DEF LiveRefs
<1>2. CASE UNCHANGED calls
  BY <1>1, <1>2, StayFulfils DEF EndFallback
<1>3. CASE Picked(c, ref) /\ fallbackMap'[k] = refs[ref].subConn
  <2>1. /\ k \in Key /\ ref \in LiveRefs /\ calls[c].pc = "fbScan"
        /\ calls[c].cmd \in {"BOUND", "UNBIND"} /\ k # EmptyKey
    BY ViewTyped DEF EndFallback, LocalsOK, RpcOK, LockingPCs, FallbackPCs
  <2>2. NeedsFallback(k) /\ CreateFallback(k)
    BY DEF EndFallback, CreateFallback
  <2>3. HasBoundKey(calls[c]) /\ cfg.fallbackToReady /\ scStates[affinityMap[k]] # "Ready"
    BY <2>1, <2>2 DEF HasBoundKey, NeedsFallback
  <2>4. PICK r \in picker.refs : refs[r].subConn = refs[ref].subConn
    <3>1. fallbackMap' # fallbackMap
      BY <1>3, <2>1, <2>2 DEF NeedsFallback, LiveRefs
    <3>2. PICK r \in picker.refs : fallbackMap' = [fallbackMap EXCEPT ![k] = refs[r].subConn]
      BY <2>2, <3>1 DEF CreateFallback
    <3>3. fallbackMap'[k] = refs[r].subConn
      BY <2>1, <3>2, ViewTyped, PoolTyped
    <3> QED
      BY <1>3, <3>3
  <2>5. ref \in ReadyRefs
    <3>1. r \in ReadyRefs /\ r \in LiveRefs
      BY <2>4, ViewTyped, ReadyIs DEF BInv, PInv, PickerCurrent
    <3>2. PICK sc \in Pool : scRefs[sc] = r /\ refs[r].subConn = sc
      <4>1. PICK x \in SubConn : scStates[x] = "Ready" /\ scRefs[x] = r
        BY <3>1 DEF ReadyRefs
      <4>2. x \in Pool
        BY <4>1, ViewTyped, ReadyIs
      <4>3. RefsConsistent
        BY ViewTyped DEF IInv, Linked
      <4>4. refs[scRefs[x]].subConn = x
        BY <4>2, <4>3 DEF RefsConsistent
      <4> QED
        BY <4>1, <4>2, <4>4
    <3>3. scRefs[sc] = ref
      <4>1. ref \in SubConn /\ refs[ref].subConn = sc
        BY <2>1, <2>4, <3>2, ViewTyped
      <4>2. Linked
        BY ViewTyped DEF IInv
      <4> QED
        BY <4>1, <4>2 DEF Linked
    <3> QED
      BY <3>1, <3>2, <3>3
  <2>6. Promise!ByKey(c, ref)
    BY <2>1, <2>3, <2>5, RefByKey
  <2> QED
    BY <1>1, <1>3, <2>1, <2>6, PickFulfils DEF OfferedPCs, LockingPCs, FallbackPCs
<1> QED
  BY <1>2, <1>3 DEF EndFallback

LEMMA CheckSizeFulfils ==
    ASSUME ViewInv, NEW c \in Call, Views(c, calls'[c]), CheckSize(c)
    PROVE  Fulfils(c)
BY ChosenFulfils DEF CheckSize

LEMMA GrowFulfils ==
    ASSUME ViewInv, NEW c \in Call, Views(c, calls'[c]), Grow(c)
    PROVE  Fulfils(c)
<1>0. GrowPool /\ IInv /\ IInv' /\ ListLive
  <2>1. [Next]_vars
    BY DEF Grow, Next
  <2> QED
    BY <2>1, ViewTyped, BNext DEF Grow, BInv
<1>1. LiveRefs \subseteq LiveRefs'
  BY <1>0, LiveGrows DEF Next
<1>2. UNCHANGED <<Options, ReadyRefs>>
  BY <1>0, AddSubConnReady DEF GrowPool, newSubConn, Grow, Options, ReadyRefs, poolVars
<1>3. UNCHANGED affinityMap
  BY DEF Grow, GrowPool, keyVars
<1>4. \A k \in BoundKeys : scRefs'[affinityMap[k]] = scRefs[affinityMap[k]]
  <2> SUFFICES ASSUME NEW k \in BoundKeys PROVE scRefs'[affinityMap[k]] = scRefs[affinityMap[k]]
    OBVIOUS
  <2>1. affinityMap[k] \in SubConn /\ conn[affinityMap[k]] # "none"
    BY DEF BoundKeys, ViewInv, KeysKnown, Assigned
  <2>2. ASSUME NEW x \in SubConn, NewSubConn(x), scRefs' = [scRefs EXCEPT ![x] = x]
        PROVE  scRefs'[affinityMap[k]] = scRefs[affinityMap[k]]
    BY <1>0, <2>1, <2>2, PoolTyped DEF NewSubConn, Fresh
  <2> QED
    BY <1>0, <2>2 DEF GrowPool, newSubConn, addSubConn, poolVars
<1>5. UNCHANGED <<BoundKeys, HomeOf>>
  BY <1>3, <1>4 DEF BoundKeys, HomeOf
<1> QED
  BY <1>1, <1>2, <1>5, WaitFulfils DEF Grow, OfferedPCs, LockingPCs, ChoosingPCs, FallbackPCs

LEMMA RoundRobinFulfils ==
    ASSUME ViewInv, NEW c \in Call, Views(c, calls'[c]), RoundRobin(c)
    PROVE  Fulfils(c)
<1> DEFINE next == (rrRefId + 1) % RRWidth
           ref == scRefList[(next % Len(scRefList)) + 1]
           new == [calls[c] EXCEPT !.pc = "rrWait", !.ref = ref, !.refs = {}]
<1>0. calls[c] \in CallType /\ calls[c].pc = "roundRobin" /\ cp.roundRobin
  BY ViewTyped DEF RoundRobin, RpcOK
<1>1. calls'[c] = new /\ PoolSame
  BY ViewTyped, SetTo, QuietIsSame DEF RoundRobin, Local
<1> HIDE DEF next, ref
<1>2. new.pc = "rrWait" /\ new.cmd = calls[c].cmd /\ new.key = calls[c].key
  BY <1>0 DEF CallType
<1> HIDE DEF new
<1>3. RpcOf(new) = RpcOf(calls[c])
  <2>1. RpcOf(new) = Asked(new) /\ RpcOf(calls[c]) = Asked(calls[c])
    BY <1>0, <1>2, NotOffered DEF OfferedPCs, LockingPCs, ChoosingPCs, FallbackPCs
  <2> QED
    BY <1>2, <2>1 DEF Asked
<1>4. /\ OnOf(calls[c]) = NoSubConn /\ DueOf(calls[c]) = NoSubConn
      /\ OnOf(new) = NoSubConn /\ DueOf(new) = NoSubConn
  BY <1>0, <1>2, OffChannel DEF HoldingPCs, DonePCs
<1>5. Fits(c)
  BY <1>1, <1>3, <1>4, FitsUnseen
<1>6. RpcOK(new)
  BY <1>0, <1>2 DEF RpcOK, OfferedPCs, LockingPCs, ChoosingPCs, FallbackPCs
<1> QED
  BY <1>1, <1>2, <1>5, <1>6 DEF Fulfils

LEMMA RoundRobinReadyFulfils ==
    ASSUME ViewInv, NEW c \in Call, Views(c, calls'[c]), RoundRobinReady(c)
    PROVE  Fulfils(c)
<1>0. /\ calls[c].pc = "rrWait" /\ calls[c].ref \in LiveRefs
      /\ cp.roundRobin /\ calls[c].cmd = "BIND"
  BY ViewTyped DEF RoundRobinReady, LocalsOK, RpcOK, RouteOK
<1>1. PoolSame
  BY QuietIsSame DEF RoundRobinReady, PicksRef, Picked
<1>2. Promise!Anywhere(c, calls[c].ref)
  BY <1>0, AskedOf DEF Promise!Anywhere, Options
<1> QED
  BY <1>0, <1>1, <1>2, PickFulfils DEF RoundRobinReady, PicksRef

LEMMA PlaceFulfils ==
    ASSUME ViewInv, NEW c \in Call, Views(c, calls'[c]), Place(c)
    PROVE  Fulfils(c)
<1> DEFINE new == [calls[c] EXCEPT !.pc = "running"]
<1>0. calls[c] \in CallType /\ calls[c].pc = "picked"
  BY ViewTyped DEF Place
<1>1. PoolSame
  BY QuietIsSame DEF Place, Done, Quietly, Local
<1>2. CASE Quietly(c, new)
  <2>1. calls'[c] = new
    BY <1>2, ViewTyped, SetTo DEF Quietly, Local
  <2>2. /\ new.pc = "running" /\ new.cmd = calls[c].cmd /\ new.key = calls[c].key
        /\ new.ref = calls[c].ref
    BY <1>0 DEF CallType
  <2> HIDE DEF new
  <2>3. RpcOf(new) = Asked(new) /\ RpcOf(calls[c]) = Asked(calls[c]) /\ Asked(new) = Asked(calls[c])
    <3>1. Asked(new) = Asked(calls[c])
      BY <2>2 DEF Asked
    <3> QED
      BY <1>0, <2>2, <3>1, NotOffered DEF OfferedPCs, LockingPCs, ChoosingPCs, FallbackPCs
  <2>4. OnOf(new) = OnOf(calls[c]) /\ DueOf(new) = NoSubConn /\ DueOf(calls[c]) = NoSubConn
    BY <1>0, <2>2 DEF OnOf, DueOf, HoldingPCs, DonePCs
  <2>5. Fits(c)
    BY <1>1, <2>1, <2>3, <2>4, FitsUnseen
  <2>6. RpcOK(new)
    BY <2>2 DEF RpcOK, OfferedPCs, LockingPCs, ChoosingPCs, FallbackPCs
  <2> QED
    BY <2>1, <2>2, <2>5, <2>6 DEF Fulfils
<1>3. CASE Done(c, Outcome(c, TRUE, TRUE), FALSE)
  BY <1>0, <1>1, <1>3, DoneFulfils DEF HoldingPCs
<1> QED
  BY <1>2, <1>3 DEF Place

LEMMA FinishFulfils ==
    ASSUME ViewInv, NEW c \in Call, Views(c, calls'[c]), Finish(c)
    PROVE  Fulfils(c)
<1>1. PoolSame
  BY QuietIsSame DEF Finish, Done, Local
<1> QED
  BY <1>1, DoneFulfils DEF Finish, HoldingPCs

LEMMA GotRespFulfils ==
    ASSUME ViewInv, NEW c \in Call, Views(c, calls'[c]), GotResp(c)
    PROVE  Fulfils(c)
<1> DEFINE next == [calls EXCEPT ![c] = Affinity(calls[c])]
<1>0. /\ calls[c] \in CallType /\ calls[c].pc = "gotResp" /\ IInv
      /\ calls[c].ref \in SubConn
  BY ViewTyped DEF GotResp, LocalsOK, DonePCs
<1>1. Affinity(calls[c]).pc \notin HoldingPCs
  BY <1>0 DEF Affinity, Waits, NoCall, CallType, HoldingPCs
<1>2. next[c] = Affinity(calls[c])
  BY ViewTyped DEF PkInv
<1>3. calls' = Responding(next, calls[c].ref)
  BY DEF GotResp
<1> HIDE DEF next
<1>4. calls'[c] = Affinity(calls[c])
  BY <1>1, <1>2, <1>3 DEF Responding
<1>5. PoolSame
  <2>1. /\ UNCHANGED <<scRefs, scStates>>
        /\ \A r \in SubConn : refs'[r].subConn = refs[r].subConn
    BY <1>0, BookkeepingSteps DEF GotResp, Bookkeeping
  <2>2. UNCHANGED <<cp, affinityMap>> /\ LiveRefs' = LiveRefs
    BY <2>1 DEF GotResp, gotResp, keyVars, LiveRefs
  <2> QED
    BY <2>1, <2>2, PoolIsSame
<1>6. DueOf(calls[c]) = IF calls[c].ok /\ Binds(calls[c]) THEN calls[c].ref ELSE NoSubConn
  BY <1>0 DEF DueOf, DonePCs
<1>7. Ended(calls[c], calls'[c])
  BY <1>0, <1>4, AffinitySeen
<1> QED
  BY <1>0, <1>5, <1>6, <1>7, EndedFulfils DEF DonePCs

\* A callback that failed has no key to bind.
LEMMA FailedDue ==
    ASSUME ViewInv, NEW c \in Call, calls[c].pc \in {"count", "refresh"}
    PROVE  DueOf(calls[c]) = NoSubConn
BY ViewTyped DEF RpcOK, DueOf

LEMMA CountFulfils ==
    ASSUME ViewInv, NEW c \in Call, Views(c, calls'[c]), Count(c)
    PROVE  Fulfils(c)
<1> DEFINE new == [calls[c] EXCEPT !.pc = "refresh"]
<1>0. /\ calls[c] \in CallType /\ calls[c].pc = "count" /\ ~calls[c].ok /\ IInv
      /\ calls[c].ref \in SubConn
  BY ViewTyped DEF Count, LocalsOK, DonePCs, RpcOK
<1>1. calls'[c] = new \/ calls'[c] = NoCall
  <2>1. calls' = [calls EXCEPT ![c] = new] \/ calls' = [calls EXCEPT ![c] = NoCall]
    BY DEF Count
  <2> QED
    BY <2>1, ViewTyped, SetTo
<1>2. /\ new.pc = "refresh" /\ new.cmd = calls[c].cmd /\ new.key = calls[c].key
      /\ ~new.ok
  BY <1>0 DEF CallType
<1> HIDE DEF new
<1>3. PoolSame
  <2>1. /\ UNCHANGED <<scRefs, scStates>>
        /\ \A r \in SubConn : refs'[r].subConn = refs[r].subConn
    BY <1>0, BookkeepingSteps DEF Count, Bookkeeping
  <2>2. UNCHANGED <<cp, affinityMap>> /\ LiveRefs' = LiveRefs
    BY <2>1 DEF Count, deCallsInc, keyVars, LiveRefs
  <2> QED
    BY <2>1, <2>2, PoolIsSame
<1>4. DueOf(calls[c]) = NoSubConn
  BY <1>0, FailedDue
<1>5. /\ RpcOf(new) = Asked(calls[c]) /\ OnOf(new) = NoSubConn /\ DueOf(new) = NoSubConn
      /\ RpcOK(new)
  <2>1. RpcOf(new) = Asked(new) /\ Asked(new) = Asked(calls[c])
    <3>1. Asked(new) = Asked(calls[c])
      BY <1>2 DEF Asked
    <3> QED
      BY <1>2, <3>1, NotOffered DEF OfferedPCs, LockingPCs, ChoosingPCs, FallbackPCs
  <2>2. OnOf(new) = NoSubConn
    BY <1>2, OffChannel DEF HoldingPCs
  <2>3. DueOf(new) = NoSubConn
    BY <1>2 DEF DueOf
  <2>4. RpcOK(new)
    BY <1>2 DEF RpcOK, OfferedPCs, LockingPCs, ChoosingPCs, FallbackPCs
  <2> QED
    BY <2>1, <2>2, <2>3, <2>4
<1>6. CASE calls'[c] = new
  BY <1>0, <1>2, <1>3, <1>4, <1>5, <1>6, EndFulfils DEF DonePCs
<1>7. CASE calls'[c] = NoCall
  BY <1>0, <1>3, <1>4, <1>7, NoCallSeen, EndFulfils DEF DonePCs
<1> QED
  BY <1>1, <1>6, <1>7

LEMMA RefreshFulfils ==
    ASSUME ViewInv, NEW c \in Call, Views(c, calls'[c]), Refresh(c)
    PROVE  Fulfils(c)
<1>0. calls[c].pc = "refresh" /\ calls[c].ref \in SubConn /\ IInv
  BY ViewTyped DEF Refresh, LocalsOK, DonePCs
<1>1. calls'[c] = NoCall
  BY ViewTyped, SetTo DEF Refresh
<1>2. PoolSame
  <2>1. CASE UNCHANGED balancerVars
    BY <2>1, QuietIsSame DEF Refresh
  <2>2. CASE refresh(calls[c].ref)
    <3>1. /\ UNCHANGED <<scRefs, scStates, keyVars>>
          /\ \A r \in SubConn : refs'[r].subConn = refs[r].subConn
      BY <1>0, <2>2, RefreshSteps
    <3>2. UNCHANGED <<cp, affinityMap>> /\ LiveRefs' = LiveRefs
      BY <3>1 DEF Refresh, keyVars, LiveRefs
    <3> QED
      BY <3>1, <3>2, PoolIsSame
  <2> QED
    BY <2>1, <2>2 DEF Refresh
<1>3. DueOf(calls[c]) = NoSubConn
  BY <1>0, FailedDue
<1> QED
  BY <1>0, <1>1, <1>2, <1>3, NoCallSeen, EndFulfils DEF DonePCs

LEMMA ReadSubConnFulfils ==
    ASSUME ViewInv, NEW c \in Call, Views(c, calls'[c]), ReadSubConn(c)
    PROVE  Fulfils(c)
<1> DEFINE failed == [calls[c] EXCEPT !.ok = FALSE]
           sc == refs[calls[c].ref].subConn
           new == [calls[c] EXCEPT !.pc = "update", !.sc = sc]
<1>0. /\ calls[c] \in CallType /\ calls[c].pc = "affinity" /\ IInv
      /\ calls[c].ok /\ calls[c].cmd \in {"BIND", "UNBIND"}
      /\ calls[c].ref \in LiveRefs
  BY ViewTyped DEF ReadSubConn, LocalsOK, DonePCs, RpcOK
<1>1. /\ (Unanswered(calls[c]) /\ calls'[c] = Affinity(failed)) \/ calls'[c] = new
      /\ PoolSame
  BY ViewTyped, SetTo, QuietIsSame DEF ReadSubConn, Quietly, Local
<1>2. CASE Unanswered(calls[c]) /\ calls'[c] = Affinity(failed)
  <2>1. /\ failed \in CallType /\ ~failed.ok /\ failed.cmd = calls[c].cmd /\ failed.key = calls[c].key
    BY <1>0 DEF CallType
  <2>2. DueOf(calls[c]) = NoSubConn
    BY <1>2 DEF DueOf, Binds, Unanswered
  <2> HIDE DEF failed
  <2>3. Ended(failed, calls'[c]) /\ Asked(failed) = Asked(calls[c])
    BY <1>2, <2>1, AffinitySeen DEF Asked
  <2> QED
    BY <1>0, <1>1, <2>1, <2>2, <2>3, EndedFulfils DEF DonePCs
<1>3. CASE calls'[c] = new
  <2>2. sc \in SubConn
    BY <1>0, PoolTyped DEF LiveRefs, RefType, MaybeSubConn
  <2>3. /\ new.pc = "update" /\ new.cmd = calls[c].cmd /\ new.key = calls[c].key
        /\ new.ref = calls[c].ref /\ new.sc = sc /\ new.ok = calls[c].ok /\ new.retry = calls[c].retry
    BY <1>0, <2>2 DEF CallType, MaybeSubConn
  <2>4. Belongs(sc, calls[c].ref)
    <3>1. sc \in Assigned
      BY <1>0, <2>2 DEF LiveRefs, Assigned, IInv, Linked
    <3>2. sc \in Pool => scRefs[sc] = calls[c].ref
      BY <1>0 DEF LiveRefs, IInv, Linked
    <3> QED
      BY <2>2, <3>1, <3>2 DEF Belongs, Pool
  <2> HIDE DEF new, sc
  <2>5. Binds(new) = Binds(calls[c])
    BY <2>3 DEF Binds
  <2>6. DueOf(new) = DueOf(calls[c])
    BY <1>0, <2>3, <2>5 DEF DueOf, DonePCs
  <2>7. RpcOf(new) = RpcOf(calls[c])
    <3>1. Asked(new) = Asked(calls[c])
      BY <2>3 DEF Asked
    <3> QED
      BY <1>0, <2>3, <3>1, NotOffered DEF OfferedPCs, LockingPCs, ChoosingPCs, FallbackPCs
  <2>8. OnOf(new) = NoSubConn /\ OnOf(calls[c]) = NoSubConn
    BY <1>0, <2>3, OffChannel DEF HoldingPCs
  <2>9. Fits(c)
    BY <1>1, <1>3, <2>6, <2>7, <2>8, FitsUnseen
  <2>10. RpcOK(new)
    BY <1>0, <2>3 DEF RpcOK, ChoosingPCs, FallbackPCs
  <2> QED
    BY <1>3, <2>3, <2>4, <2>9, <2>10 DEF Fulfils
<1> QED
  BY <1>1, <1>2, <1>3

\* What the maps of the keys become when one is bound or unbound.
LEMMA KeyBound ==
    ASSUME IInv, NEW k \in Key \ {EmptyKey}, NEW sc \in SubConn, NEW ref, Belongs(sc, ref), bindSubConn(k, sc)
    PROVE  /\ BoundKeys' = BoundKeys \cup {k}
           /\ HomeOf' \in IF k \in BoundKeys THEN {HomeOf}
                          ELSE {[HomeOf EXCEPT ![k] = ch] : ch \in {ref, NoSubConn}}
<1>0. affinityMap \in [Key -> MaybeSubConn] /\ sc # NoSubConn /\ UNCHANGED scRefs
  BY PoolTyped, SubConnAssumption DEF bindSubConn
<1>1. affinityMap' = [affinityMap EXCEPT ![k] = IF @ = NoSubConn THEN sc ELSE @]
  BY DEF bindSubConn
<1>2. BoundKeys' = BoundKeys \cup {k}
  BY <1>0, <1>1 DEF BoundKeys
<1>3. CASE k \in BoundKeys
  <2>1. affinityMap' = affinityMap
    BY <1>0, <1>1, <1>3 DEF BoundKeys
  <2>2. HomeOf' = HomeOf
    BY <1>0, <2>1 DEF HomeOf, BoundKeys
  <2> QED
    BY <1>2, <1>3, <2>2
<1>4. CASE k \notin BoundKeys
  <2>1. affinityMap' = [affinityMap EXCEPT ![k] = sc]
    BY <1>0, <1>1, <1>4 DEF BoundKeys
  <2>2. HomeOf' = [HomeOf EXCEPT ![k] = scRefs[sc]]
    BY <1>0, <1>2, <2>1 DEF HomeOf
  <2> QED
    BY <1>2, <1>4, <2>2 DEF Belongs
<1> QED
  BY <1>3, <1>4

LEMMA KeyUnbound ==
    ASSUME IInv, NEW k \in Key \ {EmptyKey},
           \/ unbindSubConn(k)
           \/ affinityMap[k] = NoSubConn /\ UNCHANGED balancerVars
    PROVE  IF k \in BoundKeys /\ HomeOf[k] = NoSubConn
           THEN UNCHANGED <<BoundKeys, HomeOf>>
           ELSE /\ BoundKeys' = BoundKeys \ {k}
                /\ HomeOf' = [HomeOf EXCEPT ![k] = NoSubConn]
<1>0. affinityMap \in [Key -> MaybeSubConn]
  BY PoolTyped
<1>1. UNCHANGED scRefs
  BY DEF unbindSubConn, balancerVars, vars, poolVars
<1>2. CASE affinityMap[k] = NoSubConn
  <2>1. UNCHANGED affinityMap /\ k \notin BoundKeys
    BY <1>2 DEF unbindSubConn, balancerVars, vars, keyVars, BoundKeys
  <2>2. UNCHANGED <<BoundKeys, HomeOf>> /\ HomeOf[k] = NoSubConn
    BY <1>1, <2>1 DEF BoundKeys, HomeOf
  <2>3. [HomeOf EXCEPT ![k] = NoSubConn] = HomeOf
    BY <2>2 DEF HomeOf
  <2> QED
    BY <2>1, <2>2, <2>3
<1>3. CASE affinityMap[k] # NoSubConn
  <2>1. k \in BoundKeys /\ HomeOf[k] = scRefs[affinityMap[k]] /\ unbindSubConn(k)
    BY <1>3 DEF BoundKeys, HomeOf
  <2>2. CASE affinityMap[k] \in Pool
    <3>1. affinityMap' = [affinityMap EXCEPT ![k] = NoSubConn]
      BY <2>1, <2>2 DEF unbindSubConn
    <3>2. BoundKeys' = BoundKeys \ {k}
      BY <1>0, <3>1 DEF BoundKeys
    <3>3. HomeOf' = [HomeOf EXCEPT ![k] = NoSubConn]
      BY <1>0, <1>1, <3>1, <3>2 DEF HomeOf
    <3> QED
      BY <2>1, <2>2, <3>2, <3>3 DEF Pool
  <2>3. CASE affinityMap[k] \notin Pool
    <3>1. UNCHANGED affinityMap
      BY <2>1, <2>3 DEF unbindSubConn
    <3>2. UNCHANGED <<BoundKeys, HomeOf>>
      BY <1>1, <3>1 DEF BoundKeys, HomeOf
    <3>3. HomeOf[k] = NoSubConn
      BY <1>0, <1>3, <2>1, <2>3 DEF Pool, MaybeSubConn
    <3> QED
      BY <2>1, <3>2, <3>3
  <2> QED
    BY <2>2, <2>3
<1> QED
  BY <1>2, <1>3

\* The key "" can be bound and unbound, and nothing is seen of it.
LEMMA EmptyKeyUnseen ==
    ASSUME IInv,
           \/ \E sc \in SubConn : bindSubConn(EmptyKey, sc)
           \/ unbindSubConn(EmptyKey)
           \/ UNCHANGED balancerVars
    PROVE  UNCHANGED <<BoundKeys, HomeOf>>
<1>1. UNCHANGED scRefs
  BY DEF bindSubConn, unbindSubConn, balancerVars, vars, poolVars
<1>2. \A k \in Key \ {EmptyKey} : affinityMap'[k] = affinityMap[k]
  <2>1. affinityMap \in [Key -> MaybeSubConn]
    BY PoolTyped
  <2> QED
    BY <2>1 DEF bindSubConn, unbindSubConn, balancerVars, vars, keyVars
<1>3. BoundKeys' = BoundKeys
  BY <1>2 DEF BoundKeys
<1>4. \A k \in BoundKeys : scRefs'[affinityMap'[k]] = scRefs[affinityMap[k]]
  BY <1>1, <1>2 DEF BoundKeys
<1> QED
  BY <1>3, <1>4 DEF HomeOf

LEMMA UpdateAffinityFulfils ==
    ASSUME ViewInv, NEW c \in Call, Views(c, calls'[c]), UpdateAffinity(c)
    PROVE  Fulfils(c)
<1> DEFINE done == [calls[c] EXCEPT !.ok = FALSE, !.sc = NoSubConn]
           k == calls[c].key
           ref == calls[c].ref
<1>0. /\ calls[c] \in CallType /\ calls[c].pc = "update" /\ IInv
      /\ calls[c].ok /\ calls[c].cmd \in {"BIND", "UNBIND"}
      /\ k \in Key /\ ref # NoSubConn /\ Belongs(calls[c].sc, ref)
  BY ViewTyped DEF UpdateAffinity, LocalsOK, DonePCs, RpcOK, ViewInv
<1>1. calls'[c] = Affinity(done)
  BY ViewTyped, SetTo DEF UpdateAffinity
<1>2. done \in CallType /\ ~done.ok /\ done.cmd = calls[c].cmd /\ done.key = calls[c].key
  BY <1>0 DEF CallType, MaybeSubConn
<1> HIDE DEF done
<1> DEFINE new == calls'[c]
<1>3. Ended(done, new) /\ Asked(done) = Asked(calls[c])
  BY <1>1, <1>2, AffinitySeen DEF Asked
<1> HIDE DEF new
<1>4. OnOf(new) = NoSubConn /\ DueOf(new) = NoSubConn /\ RpcOf(new) \in {Asked(calls[c]), Promise!NoRpc}
  BY <1>2, <1>3 DEF Ended
<1>5. /\ RpcOf(calls[c]) = Asked(calls[c]) /\ OnOf(calls[c]) = NoSubConn
      /\ DueOf(calls[c]) = IF Binds(calls[c]) THEN ref ELSE NoSubConn
  BY <1>0, NotOffered, OffChannel
     DEF OfferedPCs, LockingPCs, ChoosingPCs, FallbackPCs, HoldingPCs, DonePCs, DueOf
<1>6. RpcOf(calls[c]).cmd = calls[c].cmd /\ RpcOf(calls[c]).key = k
  BY DEF RpcOf
<1>7. UNCHANGED <<Options, LiveRefs, ReadyRefs>>
  <2>1. CASE UNCHANGED balancerVars
    BY <2>1, QuietIsSame DEF UpdateAffinity, PoolSame
  <2>2. CASE Bookkeeping
    BY <1>0, <2>2, BookkeepingSteps DEF UpdateAffinity, Options, LiveRefs, ReadyRefs
  <2>3. calls[c].sc \in SubConn /\ RepliedKey(calls[c]) \in Key
    BY <1>0, EmptyKeyAssumption DEF Belongs, Assigned, RepliedKey
  <2> QED
    BY <1>0, <2>1, <2>2, <2>3 DEF UpdateAffinity, Bookkeeping
<1> HIDE DEF k, ref
<1>8. CASE calls[c].cmd = "BIND" /\ Binds(calls[c])
  <2>1. bindSubConn(k, calls[c].sc) /\ calls[c].sc \in SubConn /\ k # EmptyKey
    BY <1>0, <1>8 DEF UpdateAffinity, Binds, RepliedKey, k, Belongs, Assigned
  <2>2. /\ BoundKeys' = BoundKeys \cup {k}
        /\ HomeOf' \in IF k \in BoundKeys THEN {HomeOf}
                       ELSE {[HomeOf EXCEPT ![k] = ch] : ch \in {ref, NoSubConn}}
    BY <1>0, <2>1, KeyBound
  <2>3. Fits(c)
    BY <1>0, <1>4, <1>5, <1>6, <1>7, <1>8, <2>2, FitsUpdate DEF new
  <2> QED
    BY <1>3, <2>3 DEF Fulfils, Ended, new
<1>9. CASE calls[c].cmd = "UNBIND" /\ Binds(calls[c])
  <2>1. /\ unbindSubConn(k) \/ (affinityMap[k] = NoSubConn /\ UNCHANGED balancerVars)
        /\ k # EmptyKey
    BY <1>9 DEF UpdateAffinity, Binds, k
  <2>2. IF k \in BoundKeys /\ HomeOf[k] = NoSubConn
        THEN UNCHANGED <<BoundKeys, HomeOf>>
        ELSE /\ BoundKeys' = BoundKeys \ {k}
             /\ HomeOf' = [HomeOf EXCEPT ![k] = NoSubConn]
    BY <1>0, <2>1, KeyUnbound
  <2>3. Fits(c)
    BY <1>0, <1>4, <1>5, <1>6, <1>7, <1>9, <2>2, FitsUpdate DEF new
  <2> QED
    BY <1>3, <2>3 DEF Fulfils, Ended, new
<1>10. CASE ~Binds(calls[c])
  <2>1. \/ bindSubConn(EmptyKey, calls[c].sc) /\ calls[c].sc \in SubConn
        \/ unbindSubConn(EmptyKey)
        \/ UNCHANGED balancerVars
    BY <1>0, <1>10 DEF UpdateAffinity, Binds, RepliedKey, k, Belongs, Assigned
  <2>2. PoolSame
    BY <1>0, <1>7, <2>1, EmptyKeyUnseen DEF PoolSame
  <2> QED
    BY <1>0, <1>3, <1>4, <1>5, <1>10, <2>2, EndFulfils DEF DonePCs, Ended, new
<1> QED
  BY <1>0, <1>8, <1>9, <1>10

LEMMA CallFulfils ==
    ASSUME ViewInv, NEW c \in Call, CallNext(c)
    PROVE  Fulfils(c)
<1>1. PICK new : Moves(c, new)
  BY ViewTyped, CallMovesOnly DEF SomeMove
<1>2. Views(c, calls'[c])
  BY <1>1, ViewTyped, ViewsSet DEF Moves, OthersStay
<1> QED
  BY <1>2, StartFulfils, LockFulfils, ReadCountFulfils, ScanRefFulfils,
     EndScanFulfils, EndFallbackFulfils, CheckSizeFulfils, GrowFulfils,
     NextPickerFulfils, RoundRobinFulfils, RoundRobinReadyFulfils, PlaceFulfils, FinishFulfils,
     GotRespFulfils, CountFulfils, RefreshFulfils, ReadSubConnFulfils, UpdateAffinityFulfils
     DEF CallNext

-----------------------------------------------------------------------------
(***************************************************************************)
(* The balancer's own events change the pool, and no more.                 *)
(***************************************************************************)

LEMMA EventUnseen ==
    ASSUME ViewInv, Event
    PROVE  /\ UNCHANGED <<RpcView, OnView, DueView>>
           /\ \A x \in Call : /\ RpcOK(calls[x]) => RpcOK(calls'[x])
                              /\ calls'[x].pc = calls[x].pc /\ calls'[x].sc = calls[x].sc
                              /\ calls'[x].ref = calls[x].ref
<1>1. \A x \in Call : calls'[x] = calls[x] \/ calls'[x] = Late(calls[x])
  BY ReportKeepsCalls DEF ViewInv, RouteInv, Event
<1>2. \A x \in Call : /\ RpcOf(calls'[x]) = RpcOf(calls[x])
                      /\ OnOf(calls'[x]) = OnOf(calls[x])
                      /\ DueOf(calls'[x]) = DueOf(calls[x])
                      /\ RpcOK(calls[x]) => RpcOK(calls'[x])
                      /\ calls'[x].pc = calls[x].pc /\ calls'[x].sc = calls[x].sc
                      /\ calls'[x].ref = calls[x].ref
  BY <1>1, ViewTyped, LateUnseen
<1> QED
  BY <1>2 DEF RpcView, OnView, DueView

LEMMA EventKeepsKeys == ASSUME Event PROVE UNCHANGED affinityMap
<1>1. CASE ClientConnUpdate
  BY <1>1 DEF ClientConnUpdate, UpdateClientConnState, enforceMinSize, MinSizeReached, keyVars
<1>2. ASSUME NEW sc \in SubConn, NEW s \in cp.reported, SubConnUpdate(sc, s) PROVE UNCHANGED affinityMap
  BY <1>2 DEF SubConnUpdate, UpdateSubConnState, ReplaceSubConn, HandleStateChange, keyVars
<1> QED
  BY <1>1, <1>2 DEF Event

ReadyAreLive == ReadyRefs \subseteq LiveRefs

LEMMA ReadyLive == IInv => ReadyAreLive
BY ReadyIs DEF ReadyAreLive

LEMMA ReadyLiveNext == IInv' => ReadyAreLive'
BY ReadyLive, PTL

LEMMA EventFulfils ==
    ASSUME ViewInv, BInv', LiveRefs \subseteq LiveRefs', Settled, Event
    PROVE  Promise!PoolChanges
<1>0. IInv /\ IInv'
  BY DEF ViewInv, RouteInv, PkInv, BInv
<1>1. UNCHANGED <<RpcView, OnView, DueView>>
  BY EventUnseen
<1>2. UNCHANGED Options
  BY EventSteps DEF ViewInv, Options
<1>3. UNCHANGED affinityMap /\ UNCHANGED BoundKeys
  BY EventKeepsKeys DEF BoundKeys
<1>4. LiveRefs' \subseteq SubConn
  BY DEF LiveRefs
<1>5. ReadyRefs' \subseteq LiveRefs'
  BY <1>0, ReadyLiveNext DEF ReadyAreLive
<1>6. \A k \in Key : HomeOf'[k] \in {HomeOf[k], NoSubConn}
  <2> SUFFICES ASSUME NEW k \in Key PROVE HomeOf'[k] \in {HomeOf[k], NoSubConn}
    OBVIOUS
  <2>1. CASE k \in BoundKeys
    <3>1. affinityMap[k] \in Assigned
      BY <2>1 DEF BoundKeys, ViewInv, KeysKnown
    <3>2. scRefs'[affinityMap[k]] \in {scRefs[affinityMap[k]], NoSubConn}
      BY <3>1 DEF Settled
    <3>3. HomeOf[k] = scRefs[affinityMap[k]] /\ HomeOf'[k] = scRefs'[affinityMap[k]]
      BY <1>3, <2>1 DEF HomeOf
    <3> QED
      BY <3>2, <3>3
  <2>2. CASE k \notin BoundKeys
    BY <1>3, <2>2 DEF HomeOf
  <2> QED
    BY <2>1, <2>2
<1> QED
  BY <1>1, <1>2, <1>3, <1>4, <1>5, <1>6 DEF Promise!PoolChanges

LEMMA ViewFulfils ==
    ASSUME ViewInv, [PickerNext]_pickerVars
    PROVE  [Promise!APNext]_(Promise!apVars)
<1>1. CASE Event
  <2>1. [Next]_vars /\ PkInv
    BY PickerIsBalancerStep DEF ViewInv, RouteInv
  <2>2. BInv' /\ LiveRefs \subseteq LiveRefs'
    BY <2>1, BNext DEF PkInv
  <2>3. Settled
    <3>1. CASE Next
      BY <2>1, <3>1, StepSettled DEF PkInv, BInv
    <3>2. CASE UNCHANGED vars
      BY <3>2 DEF vars, poolVars, connVars, Settled, Assigned
    <3> QED
      BY <2>1, <3>1, <3>2
  <2>4. Promise!PoolChanges
    BY <1>1, <2>2, <2>3, EventFulfils
  <2> QED
    BY <2>4 DEF Promise!APNext
<1>2. ASSUME NEW c \in Call, CallNext(c) PROVE [Promise!APNext]_(Promise!apVars)
  BY <1>2, CallFulfils DEF Fulfils, Fits, Promise!APNext
<1>3. CASE UNCHANGED pickerVars
  <2>1. UNCHANGED <<cp, calls, refs, scRefs, scStates, affinityMap>>
    BY <1>3 DEF pickerVars, balancerVars, vars, poolVars, keyVars
  <2>2. UNCHANGED <<Options, LiveRefs, ReadyRefs, BoundKeys, HomeOf, RpcView, OnView, DueView>>
    BY <2>1 DEF Options, LiveRefs, ReadyRefs, BoundKeys, HomeOf, RpcView, OnView, DueView
  <2> QED
    BY <2>2 DEF Promise!apVars
<1> QED
  BY <1>1, <1>2, <1>3 DEF PickerNext, Event

-----------------------------------------------------------------------------
LEMMA InitView == PickerInit => ViewInv
<1> SUFFICES ASSUME PickerInit PROVE ViewInv
  OBVIOUS
<1>1. RouteInv
  BY InitRoute
<1>2. KeysKnown
  BY DEF KeysKnown, PickerInit, Init
<1>3. \A c \in Call : calls[c] = NoCall
  BY DEF PickerInit
<1> QED
  BY <1>1, <1>2, <1>3, NoCallSeen DEF ViewInv

LEMMA NextView == ViewInv /\ [PickerNext]_pickerVars => ViewInv'
<1> SUFFICES ASSUME ViewInv, [PickerNext]_pickerVars PROVE ViewInv'
  OBVIOUS
<1>1. RouteInv' /\ RouteInv /\ PkInv
  BY NextRoute DEF ViewInv, RouteInv
<1>2. [Next]_vars /\ BInv /\ BInv'
  BY <1>1, PickerIsBalancerStep, BNext DEF PkInv
<1>3. KeysKnown' /\ Settled
  <2>1. CASE Next
    BY <1>2, <2>1, KeysKept, StepSettled DEF BInv, ViewInv
  <2>2. CASE UNCHANGED vars
    BY <2>2 DEF vars, poolVars, keyVars, connVars, Settled, Assigned, Pool, KeysKnown, ViewInv
  <2> QED
    BY <1>2, <2>1, <2>2
<1>4. \A x \in Call : calls[x].pc = "update" => Belongs(calls[x].sc, calls[x].ref)
  BY DEF ViewInv
<1>5. \A sc, ref : Belongs(sc, ref) => sc \in Assigned' /\ scRefs'[sc] \in {ref, NoSubConn}
  BY <1>3 DEF Belongs, Settled
<1> DEFINE Good(x) == /\ RpcOK(calls[x])
                      /\ calls[x].pc = "update" => Belongs(calls[x].sc, calls[x].ref)
<1>6. ASSUME NEW x \in Call, UNCHANGED cp,
             RpcOK(calls'[x]),
             calls'[x].pc = "update" => Belongs(calls'[x].sc, calls'[x].ref)
      PROVE  Good(x)'
  <2>1. RpcOK(calls[x])'
    BY <1>6 DEF RpcOK
  <2> QED
    BY <1>5, <1>6, <2>1 DEF Belongs
<1>7. CASE Event
  BY <1>1, <1>3, <1>4, <1>6, <1>7, EventUnseen, EventSteps, ViewTyped DEF ViewInv
<1>8. ASSUME NEW c \in Call, CallNext(c) PROVE ViewInv'
  <2>1. UNCHANGED cp /\ Fulfils(c)
    BY <1>1, <1>8, CallKeepsPool, CallFulfils
  <2>2. PICK new : OthersStay(c, new)
    BY <1>1, <1>8, CallMovesOnly DEF SomeMove, Moves
  <2>3. ASSUME NEW x \in Call \ {c}
        PROVE  /\ RpcOK(calls'[x])
               /\ calls'[x].pc = "update" => Belongs(calls'[x].sc, calls'[x].ref)
    <3>1. calls[x] \in CallType /\ RpcOK(calls[x])
      BY ViewTyped
    <3>2. calls'[x] = calls[x] \/ calls'[x] = Late(calls[x])
      BY <2>2 DEF OthersStay
    <3> QED
      BY <1>4, <3>1, <3>2, LateUnseen
  <2>4. \A x \in Call : Good(x)'
    BY <1>6, <2>1, <2>3 DEF Fulfils
  <2> QED
    BY <1>1, <1>3, <2>4 DEF ViewInv
<1>9. CASE UNCHANGED pickerVars
  <2>1. UNCHANGED <<cp, calls>>
    BY <1>9 DEF pickerVars
  <2>2. \A x \in Call : Good(x)'
    BY <1>4, <1>6, <2>1 DEF ViewInv
  <2> QED
    BY <1>1, <1>3, <2>2 DEF ViewInv
<1> QED
  BY <1>7, <1>8, <1>9 DEF PickerNext, Event

LEMMA InitFulfils == PickerInit => Promise!APInit
<1> SUFFICES ASSUME PickerInit PROVE Promise!APInit
  OBVIOUS
<1>1. Options \in [fallbackToReady : BOOLEAN, roundRobin : BOOLEAN]
  BY ChannelPoolsAssumption, ConfigAssumption DEF PickerInit, Options, ChannelPoolType, ConfigType
<1>2. LiveRefs = {} /\ ReadyRefs = {}
  BY DEF PickerInit, Init, NewRef, LiveRefs, ReadyRefs
<1>3. BoundKeys = {} /\ HomeOf = [k \in Key |-> NoSubConn]
  BY DEF PickerInit, Init, BoundKeys, HomeOf
<1>4. \A c \in Call : calls[c] = NoCall
  BY DEF PickerInit
<1>5. RpcView = [c \in Call |-> Promise!NoRpc]
  BY <1>4, NoCallSeen DEF RpcView
<1>6. OnView = [c \in Call |-> NoSubConn] /\ DueView = [c \in Call |-> NoSubConn]
  BY <1>4, NoCallSeen DEF OnView, DueView
<1> QED
  BY <1>1, <1>2, <1>3, <1>5, <1>6 DEF Promise!APInit

\* RPCs go on the channels they are promised, and keys stay bound to them, for
\* any number of RPCs, keys and channels, with refreshes, fallbacks and SubConns
\* that are shut down: the pool with its pickers implements AffinityPool.
THEOREM AffinityPoolImplemented == PickerSpec => ImplementsAffinityPool
<1>1. PickerSpec => []ViewInv
  BY InitView, NextView, PTL DEF PickerSpec
<1>2. ViewInv /\ [PickerNext]_pickerVars => [Promise!APNext]_(Promise!apVars)
  BY ViewFulfils
<1> QED
  BY <1>1, <1>2, InitFulfils, PTL DEF PickerSpec, ImplementsAffinityPool, Promise!APSpec
=============================================================================
