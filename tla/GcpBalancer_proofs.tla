-------------------------- MODULE GcpBalancer_proofs --------------------------
(***************************************************************************)
(* Proofs about GcpBalancer, for every set of SubConns and keys, every set *)
(* of configurations and every bound.                                      *)
(***************************************************************************)
EXTENDS GcpBalancer, FiniteSetTheorems, TLAPS

(***************************************************************************)
(* How the maps of the pool hang together: RefsConsistent and what makes   *)
(* it inductive.                                                           *)
(***************************************************************************)
Linked ==
    /\ RefsConsistent
    /\ \A sc \in SubConn : conn[sc] = "none" =>
          /\ sc \notin Pool
          /\ refreshingScRefs[sc] = NoSubConn
          /\ refs[sc].subConn = NoSubConn
          /\ \A ref \in SubConn : refs[ref].subConn # sc
    /\ \A ref \in SubConn : refs[ref].subConn \in Pool => scRefs[refs[ref].subConn] = ref
    /\ \A ref \in SubConn : refs[ref].subConn # NoSubConn =>
          refreshingScRefs[refs[ref].subConn] = NoSubConn
    /\ \A sc \in SubConn : refreshingScRefs[sc] # NoSubConn =>
          refs[refreshingScRefs[sc]].subConn # NoSubConn

IInv == TypeOK /\ Linked

-----------------------------------------------------------------------------
LEMMA InitIInv == Init => IInv
<1> SUFFICES ASSUME Init PROVE IInv
  OBVIOUS
<1> USE SubConnAssumption, ConfigAssumption
<1>1. TypeOK
  <2>1. ControlTypeOK
    BY DEF Init, ControlTypeOK
  <2>2. PoolTypeOK
    BY DEF Init, PoolTypeOK, ConnState, MaybeSubConn, RefType, NewRef
  <2>3. KeyTypeOK
    BY DEF Init, KeyTypeOK, MaybeSubConn
  <2>4. AggrTypeOK
    BY DEF Init, AggrTypeOK, ConnState, PickerType
  <2>5. ConnTypeOK
    BY DEF Init, ConnTypeOK
  <2> QED
    BY <2>1, <2>2, <2>3, <2>4, <2>5 DEF TypeOK
<1>2. Linked
  BY DEF Init, Linked, RefsConsistent, Pool, NewRef
<1> QED
  BY <1>1, <1>2 DEF IInv

\* A SubConn that NewSubConn creates was in no map and behind no subConnRef.
LEMMA AddSubConnIInv ==
    ASSUME IInv, addSubConn,
           UNCHANGED <<mu, panicked, cfg, addrs, keyVars, aggrVars>>
    PROVE  IInv'
<1> USE SubConnAssumption DEF IInv, keyVars, aggrVars, poolVars, connVars
<1>1. CASE UNCHANGED <<poolVars, connVars>>
  BY <1>1 DEF TypeOK, ControlTypeOK, PoolTypeOK, KeyTypeOK, AggrTypeOK, ConnTypeOK,
               Linked, RefsConsistent, Pool
<1>2. ASSUME NEW sc \in SubConn,
             NewSubConn(sc),
             scRefs' = [scRefs EXCEPT ![sc] = sc],
             scStates' = [scStates EXCEPT ![sc] = "Idle"],
             refs' = [refs EXCEPT ![sc] = NewRef(sc)],
             scRefList' = Append(scRefList, sc),
             UNCHANGED refreshingScRefs
      PROVE  IInv'
  <2>1. TypeOK'
    <3>1. PoolTypeOK'
      BY <1>2 DEF TypeOK, PoolTypeOK, NewRef, MaybeSubConn, RefType, ConnState
    <3>2. ConnTypeOK'
      BY <1>2 DEF TypeOK, ControlTypeOK, ConnTypeOK, NewSubConn, ConnState
    <3> QED
      BY <3>1, <3>2 DEF TypeOK, ControlTypeOK, KeyTypeOK, AggrTypeOK
  <2>2. conn[sc] = "none"
    BY <1>2 DEF NewSubConn, Fresh
  <2>3. RefsConsistent'
    BY <1>2, <2>2 DEF TypeOK, PoolTypeOK, ConnTypeOK, Linked, RefsConsistent, Pool, NewSubConn, NewRef, RefType
  <2>4. Linked'
    BY <1>2, <2>2, <2>3 DEF TypeOK, PoolTypeOK, ConnTypeOK, Linked, Pool, NewSubConn, NewRef, RefType
  <2> QED
    BY <2>1, <2>4
<1> QED
  BY <1>1, <1>2 DEF addSubConn

\* Linked is about scRefs, scStates, refreshingScRefs, conn and two fields of refs.
LEMMA LinkedFrame ==
    ASSUME Linked,
           UNCHANGED <<scRefs, scStates, refreshingScRefs, conn>>,
           \A ref \in SubConn : /\ refs'[ref].subConn = refs[ref].subConn
                                /\ refs'[ref].refreshing = refs[ref].refreshing,
           TypeOK
    PROVE  Linked'
<1>1. Pool' = Pool
  BY DEF Pool
<1>2. RefsConsistent'
  BY <1>1 DEF Linked, RefsConsistent, Pool, TypeOK, PoolTypeOK, MaybeSubConn
<1> QED
  BY <1>1, <1>2 DEF Linked, Pool, TypeOK, PoolTypeOK, MaybeSubConn

LEMMA UpdateClientConnStateIInv ==
    ASSUME IInv, UpdateClientConnState \/ MinSizeReached
    PROVE  IInv'
<1> USE DEF IInv, poolVars, keyVars, aggrVars, connVars
<1>1. UNCHANGED <<panicked, scRefs, scStates, refreshingScRefs, refs, scRefList, affinityMap,
                  fallbackMap, csEvltr, state, picker, cc, conn, removed>>
  BY DEF UpdateClientConnState, MinSizeReached, UpdatePoolAddresses
<1>2. Linked'
  BY <1>1, LinkedFrame
<1>3. addrs' \in Nat
  BY DEF UpdateClientConnState, MinSizeReached, TypeOK, ControlTypeOK
<1>4. ControlTypeOK'
  <2>1. mu' \in {"free", "enforceMinSize", "stuck"}
    BY DEF UpdateClientConnState, MinSizeReached, UpdatePoolAddresses, TypeOK, ControlTypeOK
  <2>2. cfg' \in ConfigType \cup {NoConfig}
    BY ConfigAssumption DEF UpdateClientConnState, MinSizeReached, TypeOK, ControlTypeOK,
       initializeConfig, defaultMinSize, ConfigType
  <2> QED
    BY <1>1, <1>3, <2>1, <2>2 DEF TypeOK, ControlTypeOK
<1>5. ConnTypeOK'
  BY <1>1, <1>3 DEF UpdateClientConnState, MinSizeReached, UpdatePoolAddresses, UpdateAddresses,
     TypeOK, ConnTypeOK, Pool
<1> QED
  BY <1>1, <1>2, <1>4, <1>5 DEF TypeOK, PoolTypeOK, KeyTypeOK, AggrTypeOK

-----------------------------------------------------------------------------
(***************************************************************************)
(* UpdateSubConnState.                                                     *)
(***************************************************************************)

\* What HandleStateChange leaves well typed, if the maps it is given are.
LEMMA HandleStateChangeType ==
    ASSUME TypeOK,
           NEW sc \in SubConn, NEW oldS \in ConnState, NEW s \in ConnState,
           NEW known \in [SubConn -> MaybeSubConn],
           NEW states \in [SubConn -> (ConnState \ {"Shutdown"}) \cup {"none"}],
           HandleStateChange(sc, oldS, s, known, states),
           \A x \in SubConn : scStates'[x] # "none" => scRefs'[x] # NoSubConn
    PROVE  /\ scRefs' \in [SubConn -> MaybeSubConn]
           /\ scStates' \in [SubConn -> (ConnState \ {"Shutdown"}) \cup {"none"}]
           /\ scRefList' \in Seq(SubConn)
           /\ KeyTypeOK'
           /\ AggrTypeOK'
<1>1. scRefs' \in [SubConn -> MaybeSubConn]
  BY DEF HandleStateChange, MaybeSubConn
<1>2. scStates' \in [SubConn -> (ConnState \ {"Shutdown"}) \cup {"none"}]
  BY DEF HandleStateChange, LeavesPool, ConnState
<1>3. KeyTypeOK'
  BY DEF HandleStateChange, TypeOK, KeyTypeOK, MaybeSubConn
<1>4. /\ csEvltr' \in [numReady : Int, numConnecting : Int, numTransientFailure : Int]
      /\ state' \in ConnState
  BY DEF HandleStateChange, TypeOK, AggrTypeOK, recordTransition, Shift, Aggregate, ConnState
<1>5. ReadyRefs' \subseteq SubConn
  BY <1>1, <1>2 DEF ReadyRefs, MaybeSubConn
<1>6. AggrTypeOK'
  <2>1. CASE PickerOutdated(oldS, s)
    <3>1. picker' \in PickerType
      BY <2>1, <1>5 DEF HandleStateChange, regeneratePicker, PickerType
    <3>2. cc' \in [state : ConnState \cup {"none"}, picker : PickerType, served : BOOLEAN]
      <4>1. (cc.served \/ picker'.refs # {}) \in BOOLEAN
        OBVIOUS
      <4>2. cc' = [state |-> state', picker |-> picker',
                   served |-> cc.served \/ picker'.refs # {}]
        BY <2>1 DEF HandleStateChange, UpdateState
      <4> QED
        BY <1>4, <3>1, <4>1, <4>2
    <3> QED
      BY <1>4, <3>1, <3>2 DEF AggrTypeOK
  <2>2. CASE ~PickerOutdated(oldS, s)
    BY <2>2, <1>4 DEF HandleStateChange, TypeOK, AggrTypeOK
  <2> QED
    BY <2>1, <2>2
<1>7. scRefList' \in Seq(SubConn)
  BY DEF HandleStateChange, TypeOK, PoolTypeOK
<1> QED
  BY <1>1, <1>2, <1>3, <1>6, <1>7

\* The first two kinds of update that the handler ignores.
LEMMA IgnoredUpdateIInv ==
    ASSUME IInv,
           NEW sc \in SubConn, NEW s \in ConnState,
           CanReport(sc, s),
           sc \notin Pool,
           conn' = [conn EXCEPT ![sc] = s],
           wantConnect' = wantConnect \ {sc},
           UNCHANGED <<poolVars, keyVars, aggrVars, removed, mu, panicked, cfg, addrs, scAddrs>>
    PROVE  IInv'
<1> USE DEF IInv, poolVars, keyVars, aggrVars
<1>1. TypeOK'
  BY DEF TypeOK, ControlTypeOK, PoolTypeOK, KeyTypeOK, AggrTypeOK, ConnTypeOK
<1>2. conn[sc] # "none"
  BY DEF CanReport
<1>3. Pool' = Pool /\ s # "none"
  BY DEF Pool, ConnState
<1>4. RefsConsistent'
  BY <1>3 DEF Linked, RefsConsistent, TypeOK, ConnTypeOK, Pool
<1>5. Linked'
  BY <1>2, <1>3, <1>4 DEF Linked, TypeOK, ConnTypeOK, Pool
<1> QED
  BY <1>1, <1>5

\* An update of a SubConn of the pool.
LEMMA RecordedUpdateIInv ==
    ASSUME IInv,
           NEW sc \in SubConn, NEW s \in ConnState,
           CanReport(sc, s),
           refreshingScRefs[sc] = NoSubConn, scStates[sc] # "none",
           conn' = [conn EXCEPT ![sc] = s],
           HandleStateChange(sc, scStates[sc], s, scRefs, scStates),
           wantConnect' = IF Reconnects(s) THEN wantConnect \cup {sc} ELSE wantConnect \ {sc},
           UNCHANGED <<refreshingScRefs, refs, removed, mu, panicked, cfg, addrs, scAddrs>>
    PROVE  IInv'
<1> USE SubConnAssumption DEF IInv
<1>1. sc \in Pool
  BY DEF Linked, RefsConsistent
<1>2. /\ scRefs' = IF s = "Shutdown" THEN [scRefs EXCEPT ![sc] = NoSubConn] ELSE scRefs
      /\ scStates' = [scStates EXCEPT ![sc] = IF s = "Shutdown" THEN "none" ELSE s]
  BY DEF HandleStateChange, LeavesPool
<1>3. RefsConsistent'
  BY <1>1, <1>2 DEF Linked, RefsConsistent, TypeOK, PoolTypeOK, ConnTypeOK, Pool, MaybeSubConn
<1>4. Linked'
  <2>1. \A x \in Pool' : x \in Pool /\ scRefs'[x] = scRefs[x]
    BY <1>2 DEF Pool, TypeOK, PoolTypeOK
  <2>2. \A x \in SubConn : conn'[x] = "none" => conn[x] = "none"
    BY DEF TypeOK, ConnTypeOK, ConnState
  <2>3. \A x \in SubConn : conn'[x] = "none" =>
          /\ x \notin Pool'
          /\ refreshingScRefs'[x] = NoSubConn
          /\ refs'[x].subConn = NoSubConn
          /\ \A ref \in SubConn : refs'[ref].subConn # x
    BY <2>1, <2>2 DEF Linked
  <2>4. \A ref \in SubConn : refs'[ref].subConn \in Pool' => scRefs'[refs'[ref].subConn] = ref
    BY <2>1 DEF Linked
  <2> QED
    BY <1>3, <2>3, <2>4 DEF Linked
<1>5. TypeOK'
  <2>1. \A x \in SubConn : scStates'[x] # "none" => scRefs'[x] # NoSubConn
    BY <1>3 DEF RefsConsistent, Pool
  <2>2. scStates[sc] \in ConnState
    BY DEF TypeOK, PoolTypeOK
  <2>3. PoolTypeOK' /\ KeyTypeOK' /\ AggrTypeOK'
    BY <2>1, <2>2, HandleStateChangeType DEF TypeOK, PoolTypeOK
  <2>4. ConnTypeOK'
    BY DEF TypeOK, ConnTypeOK
  <2> QED
    BY <2>3, <2>4 DEF TypeOK, ControlTypeOK
<1> QED
  BY <1>4, <1>5

\* A replacement sc that takes the place of oldSc behind ref: the maps in terms
\* of the old ones.
LEMMA ReplaceSubConnMaps ==
    ASSUME IInv, NEW sc \in SubConn,
           refreshingScRefs[sc] # NoSubConn,
           ReplaceSubConn(sc, "Ready"),
           NEW ref, NEW oldSc,
           ref = refreshingScRefs[sc],
           oldSc = refs[ref].subConn
    PROVE  /\ ref \in SubConn /\ oldSc \in SubConn /\ oldSc # sc
           /\ sc \notin Pool
           /\ scRefs' = [x \in SubConn |-> IF x = sc THEN ref
                                           ELSE IF x = oldSc THEN NoSubConn ELSE scRefs[x]]
           /\ scStates' = [x \in SubConn |-> IF x = sc THEN "Ready"
                                             ELSE IF x = oldSc THEN "none" ELSE scStates[x]]
           /\ refreshingScRefs' = [refreshingScRefs EXCEPT ![sc] = NoSubConn]
           /\ refs' = [refs EXCEPT ![ref] = Refreshed(refs[ref], sc)]
           /\ removed' = removed \cup {oldSc}
<1> USE SubConnAssumption DEF IInv
<1>1. ref \in SubConn
  BY DEF TypeOK, PoolTypeOK, MaybeSubConn
<1>2. oldSc \in SubConn
  BY <1>1 DEF Linked, TypeOK, PoolTypeOK, RefType, MaybeSubConn
<1>3. oldSc # sc
  BY <1>1, <1>2 DEF Linked
<1>4. sc \notin Pool
  BY DEF Linked, RefsConsistent
<1> QED
  BY <1>1, <1>2, <1>3, <1>4 DEF ReplaceSubConn, HandleStateChange, LeavesPool, TypeOK, PoolTypeOK

LEMMA ReplaceSubConnIInv ==
    ASSUME IInv, NEW sc \in SubConn,
           CanReport(sc, "Ready"),
           refreshingScRefs[sc] # NoSubConn,
           ReplaceSubConn(sc, "Ready"),
           conn' = [conn EXCEPT ![sc] = "Ready"],
           wantConnect' = wantConnect \ {sc},
           UNCHANGED <<mu, panicked, cfg, addrs, scAddrs>>
    PROVE  IInv'
<1> USE SubConnAssumption DEF IInv
<1> DEFINE ref == refreshingScRefs[sc]
           oldSc == refs[ref].subConn
           oldS == IF scStates[oldSc] = "none" THEN "Idle" ELSE scStates[oldSc]
<1>1. /\ ref \in SubConn /\ oldSc \in SubConn /\ oldSc # sc
      /\ sc \notin Pool
      /\ scRefs' = [x \in SubConn |-> IF x = sc THEN ref
                                      ELSE IF x = oldSc THEN NoSubConn ELSE scRefs[x]]
      /\ scStates' = [x \in SubConn |-> IF x = sc THEN "Ready"
                                        ELSE IF x = oldSc THEN "none" ELSE scStates[x]]
      /\ refreshingScRefs' = [refreshingScRefs EXCEPT ![sc] = NoSubConn]
      /\ refs' = [refs EXCEPT ![ref] = Refreshed(refs[ref], sc)]
      /\ removed' = removed \cup {oldSc}
  BY ReplaceSubConnMaps
<1>2. conn[sc] # "none"
  BY DEF CanReport
<1>3. /\ refs'[ref].subConn = sc /\ ~refs'[ref].refreshing
      /\ \A r \in SubConn : r # ref => refs'[r] = refs[r]
  BY <1>1 DEF TypeOK, PoolTypeOK, Refreshed
<1> HIDE DEF ref, oldSc
<1>4. \A x \in Pool' : x = sc \/ (x \in Pool /\ x # oldSc /\ scRefs'[x] = scRefs[x])
  BY <1>1 DEF Pool
<1>5. sc \in Pool' /\ scRefs'[sc] = ref
  BY <1>1 DEF Pool
<1>6. \A x \in Pool : x # oldSc => scRefs[x] \in SubConn /\ scRefs[x] # ref
  BY <1>1 DEF Linked, RefsConsistent, Pool, TypeOK, PoolTypeOK, MaybeSubConn, oldSc
<1>7. RefsConsistent'
  <2>1. \A x \in Pool' : refs'[scRefs'[x]].subConn = x
    BY <1>3, <1>4, <1>5, <1>6 DEF Linked, RefsConsistent
  <2>2. \A x \in SubConn : scStates'[x] = IF x \in Pool' THEN conn'[x] ELSE "none"
    BY <1>1 DEF Linked, RefsConsistent, Pool, TypeOK, ConnTypeOK
  <2>3. \A x \in SubConn : refreshingScRefs'[x] # NoSubConn =>
          /\ x # sc /\ refreshingScRefs'[x] = refreshingScRefs[x]
          /\ refreshingScRefs[x] \in SubConn \ {ref}
    BY <1>1 DEF Linked, RefsConsistent, TypeOK, PoolTypeOK, MaybeSubConn, ref
  <2>4. \A x \in SubConn : refreshingScRefs'[x] # NoSubConn =>
          /\ x \notin Pool'
          /\ refs'[refreshingScRefs'[x]].refreshing
          /\ \A y \in SubConn : refreshingScRefs'[y] = refreshingScRefs'[x] => y = x
    BY <1>3, <1>4, <2>3 DEF Linked, RefsConsistent
  <2>5. ASSUME NEW r \in SubConn, refs'[r].refreshing, ~CanFail
        PROVE  \E x \in SubConn : refreshingScRefs'[x] = r
    <3>1. r # ref /\ refs[r].refreshing
      BY <1>3, <2>5
    <3>2. PICK x \in SubConn : refreshingScRefs[x] = r
      BY <3>1, <2>5 DEF Linked, RefsConsistent
    <3>3. refreshingScRefs'[x] = r
      BY <1>1, <3>1, <3>2 DEF ref, TypeOK, PoolTypeOK
    <3> QED
      BY <3>3
  <2> QED
    BY <2>1, <2>2, <2>4, <2>5 DEF RefsConsistent
<1>8. Linked'
  <2>1. \A x \in SubConn : conn'[x] = "none" => conn[x] = "none" /\ x # sc
    BY <1>2 DEF TypeOK, ConnTypeOK
  <2>2. \A x \in SubConn : conn'[x] = "none" =>
          /\ x \notin Pool'
          /\ refreshingScRefs'[x] = NoSubConn
          /\ refs'[x].subConn = NoSubConn
          /\ \A r \in SubConn : refs'[r].subConn # x
    <3> SUFFICES ASSUME NEW x \in SubConn, conn'[x] = "none"
                 PROVE  /\ x \notin Pool'
                        /\ refreshingScRefs'[x] = NoSubConn
                        /\ refs'[x].subConn = NoSubConn
                        /\ \A r \in SubConn : refs'[r].subConn # x
      OBVIOUS
    <3>1. conn[x] = "none" /\ x # sc
      BY <2>1
    <3>2. x # ref
      BY <1>1, <3>1 DEF Linked, oldSc
    <3> QED
      BY <1>1, <1>3, <1>4, <3>1, <3>2 DEF Linked, TypeOK, PoolTypeOK
  <2>3. \A r \in SubConn : refs'[r].subConn \in Pool' => scRefs'[refs'[r].subConn] = r
    <3> SUFFICES ASSUME NEW r \in SubConn, refs'[r].subConn \in Pool', r # ref
                 PROVE  scRefs'[refs'[r].subConn] = r
      BY <1>3, <1>5
    <3>1. refs'[r].subConn = refs[r].subConn
      BY <1>3
    <3>2. refs[r].subConn # sc
      BY <1>1 DEF Linked, ref
    <3> QED
      BY <1>4, <3>1, <3>2 DEF Linked
  <2>4. \A r \in SubConn : refs'[r].subConn # NoSubConn =>
          refreshingScRefs'[refs'[r].subConn] = NoSubConn
    BY <1>1, <1>3 DEF Linked, TypeOK, PoolTypeOK, RefType, MaybeSubConn
  <2>5. \A x \in SubConn : refreshingScRefs'[x] # NoSubConn =>
          refs'[refreshingScRefs'[x]].subConn # NoSubConn
    BY <1>1, <1>3 DEF Linked, TypeOK, PoolTypeOK, RefType, MaybeSubConn
  <2> QED
    BY <1>7, <2>2, <2>3, <2>4, <2>5 DEF Linked
<1>9. TypeOK'
  <2> DEFINE known == [scRefs EXCEPT ![oldSc] = NoSubConn, ![sc] = ref]
             states == [scStates EXCEPT ![oldSc] = "none", ![sc] = oldS]
  <2>1. oldS \in ConnState \ {"Shutdown"}
    BY <1>1 DEF TypeOK, PoolTypeOK, ConnState
  <2>2. /\ known \in [SubConn -> MaybeSubConn]
        /\ states \in [SubConn -> (ConnState \ {"Shutdown"}) \cup {"none"}]
    BY <1>1, <2>1 DEF TypeOK, PoolTypeOK, MaybeSubConn
  <2>3. HandleStateChange(sc, oldS, "Ready", known, states)
    BY DEF ReplaceSubConn, ref, oldSc
  <2>4. \A x \in SubConn : scStates'[x] # "none" => scRefs'[x] # NoSubConn
    BY <1>7 DEF RefsConsistent, Pool
  <2> HIDE DEF known, states, oldS
  <2>5. /\ scRefs' \in [SubConn -> MaybeSubConn]
        /\ scStates' \in [SubConn -> (ConnState \ {"Shutdown"}) \cup {"none"}]
        /\ scRefList' \in Seq(SubConn)
        /\ KeyTypeOK' /\ AggrTypeOK'
    <3>1. "Ready" \in ConnState
      BY DEF ConnState
    <3> QED
      BY <2>1, <2>2, <2>3, <2>4, <3>1, HandleStateChangeType
  <2>6. refreshingScRefs' \in [SubConn -> MaybeSubConn] /\ refs' \in [SubConn -> RefType]
    <3>1. refreshingScRefs' \in [SubConn -> MaybeSubConn]
      BY <1>1 DEF TypeOK, PoolTypeOK, MaybeSubConn
    <3>2. Refreshed(refs[ref], sc) \in RefType
      BY <1>1 DEF Refreshed, TypeOK, PoolTypeOK, RefType, MaybeSubConn
    <3> QED
      BY <1>1, <3>1, <3>2 DEF TypeOK, PoolTypeOK
  <2>7. ConnTypeOK'
    BY <1>1 DEF TypeOK, ConnTypeOK, ConnState
  <2> QED
    BY <2>5, <2>6, <2>7 DEF TypeOK, ControlTypeOK, PoolTypeOK
<1> QED
  BY <1>8, <1>9

LEMMA UpdateSubConnStateIInv ==
    ASSUME IInv, NEW sc \in SubConn, NEW s \in ConnState, UpdateSubConnState(sc, s)
    PROVE  IInv'
<1> USE DEF IInv
<1>1. CASE refreshingScRefs[sc] # NoSubConn /\ ~ReplacementUsable(s)
  <2>1. sc \notin Pool
    BY <1>1 DEF Linked, RefsConsistent
  <2> QED
    BY <1>1, <2>1, IgnoredUpdateIInv DEF UpdateSubConnState
<1>2. CASE refreshingScRefs[sc] # NoSubConn /\ ReplacementUsable(s)
  <2>1. s = "Ready"
    BY <1>2 DEF ReplacementUsable
  <2> QED
    BY <1>2, <2>1, ReplaceSubConnIInv DEF UpdateSubConnState
<1>3. CASE refreshingScRefs[sc] = NoSubConn /\ scStates[sc] = "none"
  <2>1. sc \notin Pool
    BY <1>3 DEF Linked, RefsConsistent, Pool, TypeOK, ConnTypeOK, PoolTypeOK, UpdateSubConnState,
       CanReport
  <2> QED
    BY <1>3, <2>1, IgnoredUpdateIInv DEF UpdateSubConnState
<1>4. CASE refreshingScRefs[sc] = NoSubConn /\ scStates[sc] # "none"
  BY <1>4, RecordedUpdateIInv DEF UpdateSubConnState
<1> QED
  BY <1>1, <1>2, <1>3, <1>4

-----------------------------------------------------------------------------
(***************************************************************************)
(* The methods the picker calls.                                           *)
(***************************************************************************)

LEMMA refreshIInv ==
    ASSUME IInv, NEW ref \in SubConn, refresh(ref)
    PROVE  IInv'
<1> USE SubConnAssumption DEF IInv, keyVars, aggrVars, connVars
<1>1. refs' = [refs EXCEPT ![ref].refreshing = TRUE]
  BY DEF refresh
<1>2. refs' \in [SubConn -> RefType]
  BY <1>1 DEF TypeOK, PoolTypeOK, RefType
<1>3. \A r \in SubConn : /\ refs'[r].subConn = refs[r].subConn
                         /\ r # ref => refs'[r].refreshing = refs[r].refreshing
  BY <1>1 DEF TypeOK, PoolTypeOK, RefType
<1>4. refs'[ref].refreshing /\ ~refs[ref].refreshing /\ refs[ref].subConn # NoSubConn
  BY <1>1 DEF refresh, MayRefresh, TypeOK, PoolTypeOK, RefType
<1>5. Pool' = Pool
  BY DEF refresh, Pool
<1>6. CASE CanFail /\ UNCHANGED <<refreshingScRefs, connVars>>
  <2>1. TypeOK'
    BY <1>2, <1>6 DEF refresh, TypeOK, ControlTypeOK, PoolTypeOK, KeyTypeOK, AggrTypeOK, ConnTypeOK
  <2>2. RefsConsistent'
    BY <1>3, <1>4, <1>5, <1>6 DEF refresh, Linked, RefsConsistent, TypeOK, PoolTypeOK,
       MaybeSubConn, Pool
  <2>3. Linked'
    BY <1>3, <1>5, <1>6, <2>2 DEF refresh, Linked, TypeOK, PoolTypeOK, MaybeSubConn, Pool
  <2> QED
    BY <2>1, <2>3
<1>7. ASSUME NEW sc \in SubConn,
             NewSubConn(sc),
             refreshingScRefs' = [refreshingScRefs EXCEPT ![sc] = ref]
      PROVE  IInv'
  <2>1. TypeOK'
    <3>1. ConnTypeOK'
      BY <1>7 DEF NewSubConn, TypeOK, ControlTypeOK, ConnTypeOK, ConnState
    <3>2. PoolTypeOK'
      BY <1>2, <1>7 DEF refresh, TypeOK, PoolTypeOK, MaybeSubConn
    <3> QED
      BY <3>1, <3>2 DEF refresh, TypeOK, ControlTypeOK, KeyTypeOK, AggrTypeOK
  <2>2. /\ conn[sc] = "none"
        /\ conn' = [conn EXCEPT ![sc] = "Idle"]
    BY <1>7 DEF NewSubConn, Fresh
  <2>3. sc \notin Pool /\ refreshingScRefs[sc] = NoSubConn /\ scStates[sc] = "none"
    BY <2>2 DEF Linked, RefsConsistent
  <2>4. \A x \in SubConn : refreshingScRefs[x] # ref
    BY <1>4 DEF Linked, RefsConsistent
  <2>5. RefsConsistent'
    <3>1. \A x \in Pool' : refs'[scRefs'[x]].subConn = x
      BY <1>3, <1>5 DEF refresh, Linked, RefsConsistent, Pool, TypeOK, PoolTypeOK, MaybeSubConn
    <3>2. \A x \in SubConn : scStates'[x] = IF x \in Pool' THEN conn'[x] ELSE "none"
      BY <1>5, <2>2, <2>3 DEF refresh, Linked, RefsConsistent, TypeOK, ConnTypeOK
    <3>3. \A x \in SubConn : refreshingScRefs'[x] # NoSubConn =>
            /\ x \notin Pool'
            /\ refs'[refreshingScRefs'[x]].refreshing
            /\ \A y \in SubConn : refreshingScRefs'[y] = refreshingScRefs'[x] => y = x
      BY <1>3, <1>4, <1>5, <1>7, <2>3, <2>4 DEF Linked, RefsConsistent, TypeOK, PoolTypeOK,
         MaybeSubConn
    <3>4. \A r \in SubConn : refs'[r].refreshing =>
            CanFail \/ \E x \in SubConn : refreshingScRefs'[x] = r
      BY <1>3, <1>7, <2>3 DEF Linked, RefsConsistent, TypeOK, PoolTypeOK
    <3> QED
      BY <3>1, <3>2, <3>3, <3>4 DEF RefsConsistent
  <2>6. Linked'
    <3>1. \A x \in SubConn : conn'[x] = "none" => conn[x] = "none" /\ x # sc
      BY <2>2 DEF TypeOK, ConnTypeOK
    <3>2. \A r \in SubConn : refs'[r].subConn # sc
      BY <1>3, <2>2 DEF Linked
    <3> QED
      BY <1>3, <1>4, <1>5, <1>7, <2>5, <3>1, <3>2 DEF refresh, Linked, TypeOK, PoolTypeOK,
         MaybeSubConn, Pool, RefType
  <2> QED
    BY <2>1, <2>6
<1> QED
  BY <1>6, <1>7 DEF refresh

RefsKept ==
    /\ refs' \in [SubConn -> RefType]
    /\ \A r \in SubConn : /\ refs'[r].subConn = refs[r].subConn
                          /\ refs'[r].refreshing = refs[r].refreshing

\* Counting calls and binding keys leaves each ref its SubConn.
LEMMA CountersKeepRefs ==
    ASSUME TypeOK,
           \/ \E ref \in SubConn : gotResp(ref) \/ deCallsInc(ref)
           \/ \E k \in Key, sc \in SubConn : bindSubConn(k, sc)
           \/ \E k \in Key : unbindSubConn(k) \/ CreateFallback(k)
    PROVE  RefsKept
<1> USE DEF RefsKept, poolVars
<1>0. refs \in [SubConn -> RefType]
  BY DEF TypeOK, PoolTypeOK
<1>1. ASSUME NEW ref \in SubConn, gotResp(ref) PROVE RefsKept
  <2>1. refs' = [refs EXCEPT ![ref] = Responded(refs[ref])]
    BY <1>1 DEF gotResp
  <2>2. Responded(refs[ref]) \in RefType
    BY <1>0 DEF Responded, RefType
  <2> QED
    BY <1>0, <2>1, <2>2 DEF Responded
<1>2. ASSUME NEW ref \in SubConn, deCallsInc(ref) PROVE RefsKept
  <2>1. refs' = [refs EXCEPT ![ref].deCalls = @ + 1]
    BY <1>2 DEF deCallsInc
  <2> QED
    BY <1>0, <2>1 DEF RefType
<1>3. ASSUME NEW k \in Key, NEW sc \in SubConn, bindSubConn(k, sc) PROVE RefsKept
  <2>1. CASE UNCHANGED refs
    BY <1>0, <2>1
  <2>2. CASE sc \in Pool /\ refs' = [refs EXCEPT ![scRefs[sc]].affinityCnt = @ + 1]
    <3>1. scRefs[sc] \in SubConn
      BY <2>2 DEF Pool, TypeOK, PoolTypeOK, MaybeSubConn
    <3> QED
      BY <1>0, <2>2, <3>1 DEF RefType
  <2> QED
    BY <1>3, <2>1, <2>2 DEF bindSubConn
<1>4. ASSUME NEW k \in Key, unbindSubConn(k) PROVE RefsKept
  <2> DEFINE sc == affinityMap[k]
  <2>1. CASE UNCHANGED refs
    BY <1>0, <2>1
  <2>2. CASE sc \in Pool /\ refs' = [refs EXCEPT ![scRefs[sc]].affinityCnt = @ - 1]
    <3>1. scRefs[sc] \in SubConn
      BY <2>2 DEF Pool, TypeOK, PoolTypeOK, MaybeSubConn
    <3> HIDE DEF sc
    <3> QED
      BY <1>0, <2>2, <3>1 DEF RefType
  <2> QED
    BY <1>4, <2>1, <2>2 DEF unbindSubConn
<1>5. CASE \E k \in Key : CreateFallback(k)
  BY <1>0, <1>5 DEF CreateFallback
<1> QED
  BY <1>1, <1>2, <1>3, <1>4, <1>5

\* The methods that only change counters of a subConnRef or the key maps.
LEMMA CountersAndKeysIInv ==
    ASSUME IInv,
           \/ \E ref \in SubConn : gotResp(ref) \/ deCallsInc(ref)
           \/ \E k \in Key, sc \in SubConn : bindSubConn(k, sc)
           \/ \E k \in Key : unbindSubConn(k) \/ CreateFallback(k)
    PROVE  IInv'
<1> USE DEF IInv, keyVars, aggrVars, connVars, poolVars
<1>1. UNCHANGED <<scRefs, scStates, refreshingScRefs, scRefList, csEvltr, state, picker, cc,
                  conn, wantConnect, scAddrs, removed, cfg, addrs>>
  BY DEF gotResp, deCallsInc, bindSubConn, unbindSubConn, CreateFallback
<1>2. RefsKept
  BY CountersKeepRefs
<1>3. Linked'
  BY <1>1, <1>2, LinkedFrame DEF RefsKept
<1>4. KeyTypeOK'
  <2>1. CASE \E ref \in SubConn : gotResp(ref) \/ deCallsInc(ref)
    BY <2>1 DEF gotResp, deCallsInc, TypeOK, KeyTypeOK
  <2>2. CASE \E k \in Key, sc \in SubConn : bindSubConn(k, sc)
    BY <2>2 DEF bindSubConn, TypeOK, KeyTypeOK, MaybeSubConn
  <2>3. CASE \E k \in Key : unbindSubConn(k)
    BY <2>3 DEF unbindSubConn, TypeOK, KeyTypeOK, MaybeSubConn
  <2>4. ASSUME NEW k \in Key, CreateFallback(k) PROVE KeyTypeOK'
    <3>1. picker.refs \subseteq SubConn
      BY DEF TypeOK, AggrTypeOK, PickerType
    <3>2. \A ref \in picker.refs : refs[ref].subConn \in MaybeSubConn
      BY <3>1 DEF TypeOK, PoolTypeOK, RefType
    <3>3. affinityMap' = affinityMap /\ (UNCHANGED fallbackMap \/ \E ref \in picker.refs :
              fallbackMap' = [fallbackMap EXCEPT ![k] = refs[ref].subConn])
      BY <2>4 DEF CreateFallback
    <3> QED
      BY <3>2, <3>3 DEF TypeOK, KeyTypeOK
  <2> QED
    BY <2>1, <2>2, <2>3, <2>4
<1>5. ControlTypeOK'
  BY DEF gotResp, deCallsInc, bindSubConn, unbindSubConn, CreateFallback, TypeOK, ControlTypeOK
<1> QED
  BY <1>1, <1>2, <1>3, <1>4, <1>5 DEF RefsKept, TypeOK, PoolTypeOK, AggrTypeOK, ConnTypeOK

LEMMA NextIInv == IInv /\ [Next]_vars => IInv'
<1> SUFFICES ASSUME IInv, [Next]_vars PROVE IInv'
  OBVIOUS
<1>1. CASE UpdateClientConnState \/ MinSizeReached
  BY <1>1, UpdateClientConnStateIInv
<1>2. CASE enforceMinSize
  BY <1>2, AddSubConnIInv DEF enforceMinSize
<1>3. ASSUME NEW sc \in SubConn, NEW s \in ConnState, UpdateSubConnState(sc, s) PROVE IInv'
  BY <1>3, UpdateSubConnStateIInv
<1>4. CASE UNCHANGED vars
  BY <1>4, LinkedFrame DEF IInv, vars, poolVars, keyVars, aggrVars, connVars, TypeOK,
     ControlTypeOK, PoolTypeOK, KeyTypeOK, AggrTypeOK, ConnTypeOK
<1>5. CASE GrowPool
  <2>1. CASE addSubConn
    BY <1>5, <2>1, AddSubConnIInv DEF GrowPool
  <2>2. CASE UNCHANGED <<poolVars, connVars>>
    BY <1>5, <1>4, <2>2 DEF GrowPool, vars
  <2> QED
    BY <1>5, <2>1, <2>2 DEF GrowPool, newSubConn
<1>6. ASSUME NEW ref \in SubConn, refresh(ref) PROVE IInv'
  BY <1>6, refreshIInv
<1>7. CASE \/ \E ref \in SubConn : gotResp(ref) \/ deCallsInc(ref)
           \/ \E k \in Key, sc \in SubConn : bindSubConn(k, sc)
           \/ \E k \in Key : unbindSubConn(k) \/ CreateFallback(k)
  BY <1>7, CountersAndKeysIInv
<1> QED
  BY <1>1, <1>2, <1>3, <1>4, <1>5, <1>6, <1>7 DEF Next

THEOREM Invariance == Spec => []IInv
BY InitIInv, NextIInv, PTL DEF Spec

\* Every variable always has its type.
THEOREM TypeCorrect == Spec => []TypeOK
<1>1. IInv => TypeOK
  BY DEF IInv
<1> QED
  BY <1>1, Invariance, PTL

\* The pool, the replacements being connected and the subConnRefs always agree
\* with each other and with the states the ClientConn reported.
THEOREM PoolConsistent == Spec => []RefsConsistent
<1>1. IInv => RefsConsistent
  BY DEF IInv, Linked
<1> QED
  BY <1>1, Invariance, PTL

-----------------------------------------------------------------------------
(***************************************************************************)
(* The connectivityStateEvaluator counts the SubConns of the pool.         *)
(***************************************************************************)

CountOf(f, st) == Cardinality({x \in SubConn : f[x] = st})
DifferAt(f, g, sc) == \A x \in SubConn : x # sc => g[x] = f[x]
Counted == {"Ready", "Connecting", "TransientFailure"}

LEMMA CountOfInState == \A st : Cardinality(InState(st)) = CountOf(scStates, st)
BY DEF CountOf, InState

LEMMA CountOfIsNat == \A f, st : CountOf(f, st) \in Nat
BY SubConnAssumption, FS_CardinalityType, FS_Subset DEF CountOf

\* Changing the state of one SubConn changes a count by Shift.
LEMMA CountShift ==
    ASSUME NEW f, NEW g, NEW sc \in SubConn, NEW st, DifferAt(f, g, sc)
    PROVE  CountOf(g, st) = CountOf(f, st) + Shift(f[sc], g[sc], st)
<1> USE DEF DifferAt
<1> DEFINE A == {x \in SubConn : f[x] = st}
           B == {x \in SubConn : g[x] = st}
<1>1. IsFiniteSet(A) /\ IsFiniteSet(B)
  BY SubConnAssumption, FS_Subset
<1>2. Cardinality(A) \in Nat /\ Cardinality(B) \in Nat
  BY <1>1, FS_CardinalityType
<1>3. CASE f[sc] = st <=> g[sc] = st
  <2>1. A = B
    BY <1>3
  <2>2. Shift(f[sc], g[sc], st) = 0
    BY <1>3 DEF Shift
  <2>3. CountOf(g, st) = Cardinality(B) /\ CountOf(f, st) = Cardinality(A)
    BY DEF CountOf
  <2>4. Cardinality(B) = Cardinality(A) + 0
    BY <1>2, <2>1
  <2> QED
    BY <2>2, <2>3, <2>4
<1>4. CASE f[sc] = st /\ g[sc] # st
  <2>1. B = A \ {sc} /\ sc \in A
    BY <1>4
  <2>2. Cardinality(B) = Cardinality(A) - 1
    BY <1>1, <2>1, FS_RemoveElement
  <2> QED
    BY <1>2, <1>4, <2>2 DEF Shift, CountOf
<1>5. CASE f[sc] # st /\ g[sc] = st
  <2>1. B = A \cup {sc} /\ sc \notin A
    BY <1>5
  <2>2. Cardinality(B) = Cardinality(A) + 1
    BY <1>1, <2>1, FS_AddElement
  <2> QED
    BY <1>2, <1>5, <2>2 DEF Shift, CountOf
<1> QED
  BY <1>3, <1>4, <1>5

\* What the handler does to the counts, given the states it starts from.
LEMMA HandleStateChangeCounts ==
    ASSUME TypeOK, EvaluatorExact,
           NEW sc \in SubConn, NEW oldS \in ConnState, NEW s \in ConnState,
           NEW known,
           NEW states \in [SubConn -> (ConnState \ {"Shutdown"}) \cup {"none"}],
           HandleStateChange(sc, oldS, s, known, states),
           states[sc] = oldS,
           \A st \in Counted : CountOf(states, st) = CountOf(scStates, st)
    PROVE  EvaluatorExact'
<1>1. scStates' = [states EXCEPT ![sc] = IF s = "Shutdown" THEN "none" ELSE s]
  BY DEF HandleStateChange, LeavesPool
<1>2. \A st \in Counted : CountOf(scStates', st) = CountOf(scStates, st) + Shift(oldS, s, st)
  <2> SUFFICES ASSUME NEW st \in Counted
               PROVE  CountOf(scStates', st) = CountOf(scStates, st) + Shift(oldS, s, st)
    OBVIOUS
  <2>1. DifferAt(states, scStates', sc)
    BY <1>1 DEF DifferAt
  <2>2. CountOf(scStates', st) = CountOf(states, st) + Shift(states[sc], scStates'[sc], st)
    BY <2>1, CountShift
  <2>3. Shift(states[sc], scStates'[sc], st) = Shift(oldS, s, st)
    BY <1>1 DEF Shift, Counted
  <2> QED
    BY <2>2, <2>3
<1>3. csEvltr' = recordTransition(csEvltr, oldS, s)
  BY DEF HandleStateChange
<1>4. \A st \in Counted : Shift(oldS, s, st) \in Int
  BY DEF Shift
<1> QED
  <2>1. /\ csEvltr.numReady = CountOf(scStates, "Ready")
        /\ csEvltr.numConnecting = CountOf(scStates, "Connecting")
        /\ csEvltr.numTransientFailure = CountOf(scStates, "TransientFailure")
    BY CountOfInState DEF EvaluatorExact
  <2>2. /\ csEvltr'.numReady = CountOf(scStates', "Ready")
        /\ csEvltr'.numConnecting = CountOf(scStates', "Connecting")
        /\ csEvltr'.numTransientFailure = CountOf(scStates', "TransientFailure")
    BY <1>2, <1>3, <1>4, <2>1 DEF recordTransition, Counted
  <2> QED
    BY <2>2 DEF EvaluatorExact, InState, CountOf

\* Moving a state from one SubConn to another that had none changes no count.
\* A missing state moves as Idle, which is not counted.
Moved(f, g, a, b) ==
    /\ a # b
    /\ f[b] = "none"
    /\ g[a] = "none"
    /\ g[b] = IF f[a] = "none" THEN "Idle" ELSE f[a]
    /\ \A x \in SubConn : x \notin {a, b} => g[x] = f[x]

LEMMA CountMove ==
    ASSUME NEW f, NEW g, NEW a \in SubConn, NEW b \in SubConn, NEW st \in Counted,
           Moved(f, g, a, b)
    PROVE  CountOf(g, st) = CountOf(f, st)
<1> USE DEF Moved
<1> DEFINE h == [x \in SubConn |-> IF x = a THEN "none" ELSE f[x]]
<1>1. h[a] = "none" /\ h[b] = "none"
  OBVIOUS
<1>2. DifferAt(f, h, a)
  BY DEF DifferAt
<1>3. DifferAt(h, g, b)
  BY DEF DifferAt
<1> HIDE DEF h
<1>4. CountOf(h, st) = CountOf(f, st) + Shift(f[a], h[a], st)
  BY <1>2, CountShift
<1>5. CountOf(g, st) = CountOf(h, st) + Shift(h[b], g[b], st)
  BY <1>3, CountShift
<1>6. CASE f[a] = st
  <2>1. Shift(f[a], h[a], st) = -1 /\ Shift(h[b], g[b], st) = 1
    BY <1>1, <1>6 DEF Shift, Counted
  <2> QED
    BY <1>4, <1>5, <2>1, CountOfIsNat
<1>7. CASE f[a] # st
  <2>1. Shift(f[a], h[a], st) = 0 /\ Shift(h[b], g[b], st) = 0
    BY <1>1, <1>7 DEF Shift, Counted
  <2> QED
    BY <1>4, <1>5, <2>1, CountOfIsNat
<1> QED
  BY <1>6, <1>7

LEMMA ReplaceSubConnCounts ==
    ASSUME IInv, EvaluatorExact, NEW sc \in SubConn,
           refreshingScRefs[sc] # NoSubConn,
           ReplaceSubConn(sc, "Ready")
    PROVE  EvaluatorExact'
<1> USE SubConnAssumption DEF IInv
<1> DEFINE ref == refreshingScRefs[sc]
           oldSc == refs[ref].subConn
           oldS == IF scStates[oldSc] = "none" THEN "Idle" ELSE scStates[oldSc]
           known == [scRefs EXCEPT ![oldSc] = NoSubConn, ![sc] = ref]
           states == [scStates EXCEPT ![oldSc] = "none", ![sc] = oldS]
<1>1. ref \in SubConn /\ oldSc \in SubConn /\ oldSc # sc /\ sc \notin Pool
  BY ReplaceSubConnMaps
<1>2. scStates[sc] = "none"
  BY <1>1 DEF Linked, RefsConsistent
<1>3. HandleStateChange(sc, oldS, "Ready", known, states)
  BY DEF ReplaceSubConn
<1>4. oldS \in ConnState \ {"Shutdown"} /\ "Ready" \in ConnState
  BY <1>1 DEF TypeOK, PoolTypeOK, ConnState
<1>5. scStates \in [SubConn -> (ConnState \ {"Shutdown"}) \cup {"none"}]
  BY DEF TypeOK, PoolTypeOK
<1>6. /\ states \in [SubConn -> (ConnState \ {"Shutdown"}) \cup {"none"}]
      /\ states[sc] = oldS
  BY <1>1, <1>4, <1>5
<1>7. Moved(scStates, states, oldSc, sc)
  BY <1>1, <1>2, <1>5 DEF Moved
<1> HIDE DEF states, oldSc, known
<1>8. \A st \in Counted : CountOf(states, st) = CountOf(scStates, st)
  BY <1>1, <1>7, CountMove
<1> HIDE DEF oldS
<1> QED
  BY <1>3, <1>4, <1>6, <1>8, HandleStateChangeCounts

\* A new SubConn starts Idle, a state that is not counted.
LEMMA AddSubConnCounts ==
    ASSUME IInv, EvaluatorExact, UNCHANGED csEvltr, addSubConn
    PROVE  EvaluatorExact'
<1>1. CASE UNCHANGED poolVars
  BY <1>1 DEF poolVars, EvaluatorExact, InState
<1>2. ASSUME NEW sc \in SubConn, NewSubConn(sc), scStates' = [scStates EXCEPT ![sc] = "Idle"]
      PROVE  EvaluatorExact'
  <2>1. scStates[sc] = "none"
    BY <1>2 DEF NewSubConn, Fresh, IInv, Linked, RefsConsistent
  <2>2. scStates' \in [SubConn -> ConnState \cup {"none"}] /\ scStates'[sc] = "Idle"
    BY <1>2 DEF IInv, TypeOK, PoolTypeOK, ConnState
  <2>3. \A st \in Counted : {x \in SubConn : scStates'[x] = st} = {x \in SubConn : scStates[x] = st}
    BY <1>2, <2>1, <2>2 DEF Counted
  <2> QED
    BY <2>3 DEF EvaluatorExact, InState, Counted
<1> QED
  BY <1>1, <1>2 DEF addSubConn

LEMMA NextCounts == IInv /\ EvaluatorExact /\ [Next]_vars => EvaluatorExact'
<1> SUFFICES ASSUME IInv, EvaluatorExact, [Next]_vars PROVE EvaluatorExact'
  OBVIOUS
<1> DEFINE Same == UNCHANGED <<scStates, csEvltr>>
<1>1. ASSUME Same PROVE EvaluatorExact'
  BY <1>1 DEF EvaluatorExact, InState
<1>2. CASE UpdateClientConnState \/ MinSizeReached \/ UNCHANGED vars
  BY <1>1, <1>2 DEF UpdateClientConnState, MinSizeReached, vars, poolVars, aggrVars
<1>3. CASE enforceMinSize
  BY <1>3, AddSubConnCounts DEF enforceMinSize, aggrVars
<1>4. CASE GrowPool
  <2>1. CASE addSubConn
    BY <1>4, <2>1, AddSubConnCounts DEF GrowPool, aggrVars
  <2>2. CASE UNCHANGED <<poolVars, connVars>>
    BY <1>1, <1>4, <2>2 DEF GrowPool, poolVars, aggrVars
  <2> QED
    BY <1>4, <2>1, <2>2 DEF GrowPool, newSubConn
<1>5. ASSUME NEW ref \in SubConn, refresh(ref) \/ gotResp(ref) \/ deCallsInc(ref)
      PROVE  EvaluatorExact'
  BY <1>1, <1>5 DEF refresh, gotResp, deCallsInc, poolVars, aggrVars
<1>6. CASE \/ \E k \in Key, sc \in SubConn : bindSubConn(k, sc)
           \/ \E k \in Key : unbindSubConn(k) \/ CreateFallback(k)
  BY <1>1, <1>6 DEF bindSubConn, unbindSubConn, CreateFallback, poolVars, aggrVars
<1>7. ASSUME NEW sc \in SubConn, NEW s \in ConnState, UpdateSubConnState(sc, s)
      PROVE  EvaluatorExact'
  <2>1. CASE UNCHANGED <<poolVars, keyVars, aggrVars, removed>>
    BY <1>1, <2>1 DEF poolVars, aggrVars
  <2>2. CASE refreshingScRefs[sc] # NoSubConn /\ ReplacementUsable(s) /\ ReplaceSubConn(sc, s)
    BY <2>2, ReplaceSubConnCounts DEF ReplacementUsable
  <2>3. CASE scStates[sc] # "none" /\ HandleStateChange(sc, scStates[sc], s, scRefs, scStates)
    <3>1. /\ scStates \in [SubConn -> (ConnState \ {"Shutdown"}) \cup {"none"}]
          /\ scStates[sc] \in ConnState
      BY <2>3 DEF IInv, TypeOK, PoolTypeOK
    <3> QED
      BY <2>3, <3>1, HandleStateChangeCounts DEF IInv
  <2> QED
    BY <1>7, <2>1, <2>2, <2>3 DEF UpdateSubConnState
<1> QED
  BY <1>2, <1>3, <1>4, <1>5, <1>6, <1>7 DEF Next

LEMMA InitCounts == Init => EvaluatorExact
<1> SUFFICES ASSUME Init PROVE EvaluatorExact
  OBVIOUS
<1>1. \A st \in Counted : InState(st) = {}
  BY DEF Init, InState, Counted
<1>2. Cardinality({}) = 0
  BY FS_EmptySet
<1> QED
  BY <1>1, <1>2 DEF Init, EvaluatorExact, Counted

\* The counters of the evaluator always equal the number of SubConns of the pool
\* in each state.
THEOREM CountersExact == Spec => []EvaluatorExact
BY InitCounts, NextCounts, Invariance, PTL DEF Spec

-----------------------------------------------------------------------------
(***************************************************************************)
(* The picker offers the ready channels of the pool.                       *)
(***************************************************************************)

\* PickerCurrent is inductive with the aggregated state tied to the counters.
PInv ==
    /\ PickerCurrent
    /\ cc.state # "none" => state = Aggregate(csEvltr)

\* A step that keeps the ready channels and what the ClientConn knows.
LEMMA PickerFrame ==
    ASSUME PInv, UNCHANGED <<csEvltr, state, picker, cc>>, ReadyRefs' = ReadyRefs
    PROVE  PInv'
BY DEF PInv, PickerCurrent, Aggregate

LEMMA AddSubConnReady ==
    ASSUME IInv, addSubConn
    PROVE  ReadyRefs' = ReadyRefs
<1>1. CASE UNCHANGED poolVars
  BY <1>1 DEF poolVars, ReadyRefs
<1>2. ASSUME NEW sc \in SubConn, NewSubConn(sc),
             scStates' = [scStates EXCEPT ![sc] = "Idle"],
             scRefs' = [scRefs EXCEPT ![sc] = sc]
      PROVE  ReadyRefs' = ReadyRefs
  <2>1. scStates[sc] = "none"
    BY <1>2 DEF NewSubConn, Fresh, IInv, Linked, RefsConsistent
  <2>2. /\ scStates \in [SubConn -> (ConnState \ {"Shutdown"}) \cup {"none"}]
        /\ scRefs \in [SubConn -> MaybeSubConn]
    BY DEF IInv, TypeOK, PoolTypeOK
  <2>3. \A x \in SubConn : scStates'[x] = "Ready" <=> scStates[x] = "Ready"
    BY <1>2, <2>1, <2>2
  <2>4. \A x \in SubConn : scStates[x] = "Ready" => scRefs'[x] = scRefs[x]
    BY <1>2, <2>1, <2>2
  <2> QED
    BY <2>3, <2>4 DEF ReadyRefs
<1> QED
  BY <1>1, <1>2 DEF addSubConn

\* The aggregated state follows from the counters, which count ready channels.
ReadyIsCounted ==
    /\ csEvltr.numReady \in Nat
    /\ csEvltr.numReady > 0 <=> ReadyRefs # {}

LEMMA ReadyCounted == EvaluatorExact => ReadyIsCounted
<1> SUFFICES ASSUME EvaluatorExact PROVE ReadyIsCounted
  OBVIOUS
<1>1. IsFiniteSet(InState("Ready"))
  BY SubConnAssumption, FS_Subset DEF InState
<1>2. /\ Cardinality(InState("Ready")) \in Nat
      /\ Cardinality(InState("Ready")) = 0 <=> InState("Ready") = {}
  BY <1>1, FS_CardinalityType, FS_EmptySet
<1>3. InState("Ready") = {} <=> ReadyRefs = {}
  BY DEF InState, ReadyRefs
<1> QED
  BY <1>2, <1>3 DEF EvaluatorExact, ReadyIsCounted

\* What the handler does to the picker.  ready is ReadyRefs as the replacement,
\* if any, left it; only a change to or from READY may change it further.
LEMMA HandleStateChangePicker ==
    ASSUME TypeOK, EvaluatorExact, EvaluatorExact', PInv,
           NEW sc \in SubConn, NEW oldS \in ConnState, NEW s \in ConnState,
           NEW known, NEW states,
           HandleStateChange(sc, oldS, s, known, states),
           ~PickerOutdated(oldS, s) => ReadyRefs' = ReadyRefs
    PROVE  PInv'
<1>1. /\ csEvltr' = recordTransition(csEvltr, oldS, s)
      /\ state' = Aggregate(csEvltr')
  BY DEF HandleStateChange
<1>2. CASE PickerOutdated(oldS, s)
  <2>1. regeneratePicker /\ UpdateState
    BY <1>2 DEF HandleStateChange
  <2>2. cc'.state = state' /\ cc'.picker = picker' /\ state' # "none"
    BY <1>1, <2>1 DEF UpdateState, Aggregate
  <2>3. csEvltr'.numReady \in Nat /\ (csEvltr'.numReady > 0 <=> ReadyRefs' # {})
    <3>1. EvaluatorExact' => ReadyIsCounted'
      BY ReadyCounted, PTL
    <3> QED
      BY <3>1 DEF ReadyIsCounted
  <2> QED
    BY <1>1, <2>1, <2>2, <2>3 DEF regeneratePicker, Aggregate, PInv, PickerCurrent
<1>3. CASE ~PickerOutdated(oldS, s)
  <2>1. UNCHANGED <<picker, cc>> /\ ReadyRefs' = ReadyRefs
    BY <1>3 DEF HandleStateChange
  <2>2. csEvltr'.numReady = csEvltr.numReady
    <3>1. Shift(oldS, s, "Ready") = 0
      BY <1>3 DEF PickerOutdated, Shift
    <3>2. csEvltr.numReady \in Int
      BY DEF TypeOK, AggrTypeOK
    <3> QED
      BY <1>1, <3>1, <3>2 DEF recordTransition
  <2>3. (state' = "TransientFailure") <=> (state = "TransientFailure")
    BY <1>3 DEF PickerOutdated
  <2>4. ASSUME cc.state # "none" PROVE state' = state
    BY <1>1, <2>2, <2>3, <2>4 DEF PInv, Aggregate
  <2> QED
    BY <1>1, <2>1, <2>4 DEF PInv, PickerCurrent
<1> QED
  BY <1>2, <1>3

\* A finished refresh: the refreshed channel is ready, no other changes.
LEMMA ReplaceSubConnReady ==
    ASSUME IInv, NEW sc \in SubConn, refreshingScRefs[sc] # NoSubConn,
           ReplaceSubConn(sc, "Ready")
    PROVE  ReadyRefs' = ReadyRefs \cup {refreshingScRefs[sc]}
<1> USE SubConnAssumption DEF IInv
<1> DEFINE ref == refreshingScRefs[sc]
           oldSc == refs[ref].subConn
<1>1. ref \in SubConn /\ oldSc \in SubConn /\ oldSc # sc /\ sc \notin Pool
  BY ReplaceSubConnMaps
<1>2. /\ scStates \in [SubConn -> (ConnState \ {"Shutdown"}) \cup {"none"}]
      /\ scRefs \in [SubConn -> MaybeSubConn]
  BY DEF TypeOK, PoolTypeOK
<1>3. scStates[sc] = "none"
  BY <1>1 DEF Linked, RefsConsistent
<1>4. /\ scRefs' = [scRefs EXCEPT ![oldSc] = NoSubConn, ![sc] = ref]
      /\ \A x \in SubConn : scStates'[x] = IF x = sc THEN "Ready" ELSE
                                           IF x = oldSc THEN "none" ELSE scStates[x]
  BY <1>1, <1>2 DEF ReplaceSubConn, HandleStateChange, LeavesPool
<1>5. \A x \in SubConn : scRefs'[x] = IF x = sc THEN ref ELSE
                                      IF x = oldSc THEN NoSubConn ELSE scRefs[x]
  BY <1>1, <1>2, <1>4
<1>6. scStates[oldSc] = "Ready" => scRefs[oldSc] = ref
  BY <1>1, <1>2 DEF Linked, RefsConsistent
<1> HIDE DEF ref, oldSc
<1>7. ASSUME NEW x \in SubConn, scStates'[x] = "Ready"
      PROVE  scRefs'[x] \in ReadyRefs \cup {ref}
  BY <1>4, <1>5, <1>7 DEF ReadyRefs
<1>8. ref \in ReadyRefs'
  BY <1>4, <1>5 DEF ReadyRefs
<1>9. ASSUME NEW x \in SubConn, scStates[x] = "Ready" PROVE scRefs[x] \in ReadyRefs'
  <2>1. CASE x = oldSc
    BY <1>6, <1>8, <1>9, <2>1
  <2>2. CASE x # oldSc
    <3>1. x # sc
      BY <1>3, <1>9
    <3> QED
      BY <1>4, <1>5, <1>9, <2>2, <3>1 DEF ReadyRefs
  <2> QED
    BY <2>1, <2>2
<1>10. ReadyRefs \subseteq ReadyRefs'
  BY <1>9 DEF ReadyRefs
<1>11. ReadyRefs' \subseteq ReadyRefs \cup {ref}
  BY <1>7 DEF ReadyRefs
<1> QED
  BY <1>8, <1>10, <1>11 DEF ref

\* When the report on a SubConn of the pool is not about readiness, the ready
\* channels stay.
LEMMA RecordedUpdateReady ==
    ASSUME IInv, NEW sc \in SubConn, NEW s \in ConnState,
           scStates[sc] # "none",
           HandleStateChange(sc, scStates[sc], s, scRefs, scStates),
           ~PickerOutdated(scStates[sc], s)
    PROVE  ReadyRefs' = ReadyRefs
<1>1. /\ scStates \in [SubConn -> (ConnState \ {"Shutdown"}) \cup {"none"}]
      /\ scRefs \in [SubConn -> MaybeSubConn]
  BY DEF IInv, TypeOK, PoolTypeOK
<1>2. s = "Ready" <=> scStates[sc] = "Ready"
  BY DEF PickerOutdated
<1>3. \A x \in SubConn : scStates'[x] = "Ready" <=> scStates[x] = "Ready"
  BY <1>1, <1>2 DEF HandleStateChange, LeavesPool
<1>4. \A x \in SubConn : scStates[x] = "Ready" => scRefs'[x] = scRefs[x]
  BY <1>1, <1>2 DEF HandleStateChange, LeavesPool
<1> QED
  BY <1>3, <1>4 DEF ReadyRefs

\* When the replaced SubConn was ready, so was its ref: no channel is gained.
LEMMA ReplacedReady ==
    ASSUME IInv, NEW sc \in SubConn, refreshingScRefs[sc] # NoSubConn,
           scStates[refs[refreshingScRefs[sc]].subConn] = "Ready"
    PROVE  refreshingScRefs[sc] \in ReadyRefs
<1> USE SubConnAssumption DEF IInv
<1> DEFINE ref == refreshingScRefs[sc]
           oldSc == refs[ref].subConn
<1>1. ref \in SubConn
  BY DEF TypeOK, PoolTypeOK, MaybeSubConn
<1>2. oldSc \in SubConn
  BY <1>1 DEF TypeOK, PoolTypeOK, MaybeSubConn, RefType, Linked
<1>3. oldSc \in Pool
  BY <1>2 DEF Linked, RefsConsistent
<1>4. scRefs[oldSc] = ref
  BY <1>1, <1>3 DEF Linked
<1> QED
  BY <1>2, <1>4 DEF ReadyRefs

LEMMA NextPInv ==
    IInv /\ EvaluatorExact /\ EvaluatorExact' /\ PInv /\ [Next]_vars => PInv'
<1> SUFFICES ASSUME IInv, EvaluatorExact, EvaluatorExact', PInv, [Next]_vars
             PROVE  PInv'
  OBVIOUS
<1> DEFINE Same == UNCHANGED <<csEvltr, state, picker, cc>>
<1>1. ASSUME Same, UNCHANGED <<scRefs, scStates>> PROVE PInv'
  <2>1. ReadyRefs' = ReadyRefs
    BY <1>1 DEF ReadyRefs
  <2> QED
    BY <1>1, <2>1, PickerFrame
<1>2. CASE UpdateClientConnState \/ MinSizeReached \/ UNCHANGED vars
  BY <1>1, <1>2 DEF UpdateClientConnState, MinSizeReached, vars, poolVars, aggrVars
<1>3. CASE enforceMinSize
  BY <1>3, AddSubConnReady, PickerFrame DEF enforceMinSize, aggrVars
<1>4. CASE GrowPool
  <2>1. CASE addSubConn
    BY <1>4, <2>1, AddSubConnReady, PickerFrame DEF GrowPool, aggrVars
  <2>2. CASE UNCHANGED <<poolVars, connVars>>
    BY <1>1, <1>4, <2>2 DEF GrowPool, poolVars, aggrVars
  <2> QED
    BY <1>4, <2>1, <2>2 DEF GrowPool, newSubConn
<1>5. ASSUME NEW ref \in SubConn, refresh(ref) \/ gotResp(ref) \/ deCallsInc(ref)
      PROVE  PInv'
  BY <1>1, <1>5 DEF refresh, gotResp, deCallsInc, aggrVars
<1>6. CASE \/ \E k \in Key, sc \in SubConn : bindSubConn(k, sc)
           \/ \E k \in Key : unbindSubConn(k) \/ CreateFallback(k)
  BY <1>1, <1>6 DEF bindSubConn, unbindSubConn, CreateFallback, poolVars, aggrVars
<1>7. ASSUME NEW sc \in SubConn, NEW s \in ConnState, UpdateSubConnState(sc, s)
      PROVE  PInv'
  <2>1. CASE UNCHANGED <<poolVars, keyVars, aggrVars, removed>>
    BY <1>1, <2>1 DEF poolVars, aggrVars
  <2>2. CASE refreshingScRefs[sc] # NoSubConn /\ ReplacementUsable(s) /\ ReplaceSubConn(sc, s)
    <3> DEFINE oldSc == refs[refreshingScRefs[sc]].subConn
               oldS == IF scStates[oldSc] = "none" THEN "Idle" ELSE scStates[oldSc]
               known == [scRefs EXCEPT ![oldSc] = NoSubConn, ![sc] = refreshingScRefs[sc]]
               states == [scStates EXCEPT ![oldSc] = "none", ![sc] = oldS]
    <3>1. s = "Ready"
      BY <2>2 DEF ReplacementUsable
    <3>2. oldSc \in SubConn
      BY <2>2, <3>1, ReplaceSubConnMaps
    <3>3. oldS \in ConnState
      BY <3>2 DEF IInv, TypeOK, PoolTypeOK, ConnState
    <3>4. HandleStateChange(sc, oldS, "Ready", known, states)
      BY <2>2, <3>1 DEF ReplaceSubConn
    <3>5. ASSUME ~PickerOutdated(oldS, "Ready") PROVE ReadyRefs' = ReadyRefs
      <4>1. scStates[oldSc] = "Ready"
        BY <3>5 DEF PickerOutdated
      <4>2. refreshingScRefs[sc] \in ReadyRefs
        BY <2>2, <4>1, ReplacedReady
      <4> QED
        BY <2>2, <3>1, <4>2, ReplaceSubConnReady
    <3> HIDE DEF oldS, known, states
    <3> QED
      BY <3>1, <3>3, <3>4, <3>5, HandleStateChangePicker DEF IInv
  <2>3. CASE scStates[sc] # "none" /\ HandleStateChange(sc, scStates[sc], s, scRefs, scStates)
    <3>1. scStates[sc] \in ConnState
      BY <2>3 DEF IInv, TypeOK, PoolTypeOK
    <3>2. ~PickerOutdated(scStates[sc], s) => ReadyRefs' = ReadyRefs
      BY <2>3, RecordedUpdateReady
    <3> QED
      BY <2>3, <3>1, <3>2, HandleStateChangePicker DEF IInv
  <2> QED
    BY <1>7, <2>1, <2>2, <2>3 DEF UpdateSubConnState
<1> QED
  BY <1>2, <1>3, <1>4, <1>5, <1>6, <1>7 DEF Next

LEMMA InitPicker == Init => PInv
BY DEF Init, PInv, PickerCurrent, ReadyRefs

\* The balancer's picker always offers exactly the ready channels, and the
\* ClientConn always has it with the state that goes with it.
THEOREM PickerIsCurrent == Spec => []PickerCurrent
<1>1. PInv => PickerCurrent
  BY DEF PInv
<1> QED
  BY <1>1, InitPicker, NextPInv, Invariance, CountersExact, PTL DEF Spec

\* Only a finished refresh gives a subConnRef another SubConn.
LEMMA NextRefresh ==
    ASSUME IInv, Next, NEW ref \in SubConn,
           refs[ref].subConn \notin {NoSubConn, refs'[ref].subConn}
    PROVE  ReadyRefs' = ReadyRefs \cup {ref}
<1> USE DEF IInv
<1> DEFINE Kept == refs'[ref].subConn = refs[ref].subConn
<1>0. refs \in [SubConn -> RefType]
  BY DEF TypeOK, PoolTypeOK
<1>1. ASSUME NEW sc \in SubConn, NEW s \in ConnState, UpdateSubConnState(sc, s)
      PROVE  ReadyRefs' = ReadyRefs \cup {ref}
  <2>1. ~(UNCHANGED refs)
    OBVIOUS
  <2>2. refreshingScRefs[sc] # NoSubConn /\ ReplaceSubConn(sc, "Ready")
    BY <1>1, <2>1 DEF UpdateSubConnState, ReplacementUsable, poolVars
  <2>3. refs' = [refs EXCEPT ![refreshingScRefs[sc]] = Refreshed(@, sc)]
    BY <2>2 DEF ReplaceSubConn
  <2>4. ref = refreshingScRefs[sc]
    BY <1>0, <2>3
  <2> QED
    BY <2>2, <2>4, ReplaceSubConnReady
<1>2. CASE UpdateClientConnState \/ MinSizeReached
  BY <1>2 DEF UpdateClientConnState, MinSizeReached, poolVars
<1>3. ASSUME addSubConn PROVE Kept
  <2>1. ASSUME NEW sc \in SubConn, NewSubConn(sc), refs' = [refs EXCEPT ![sc] = NewRef(sc)]
        PROVE  Kept
    <3>1. refs[sc].subConn = NoSubConn
      BY <2>1 DEF NewSubConn, Fresh, Linked
    <3> QED
      BY <1>0, <2>1, <3>1
  <2> QED
    BY <1>3, <2>1 DEF addSubConn, poolVars
<1>4. CASE enforceMinSize \/ GrowPool
  BY <1>3, <1>4 DEF enforceMinSize, GrowPool, newSubConn, poolVars
<1>5. ASSUME NEW r \in SubConn, refresh(r) PROVE Kept
  BY <1>0, <1>5 DEF refresh, RefType
<1>6. CASE \/ \E r \in SubConn : gotResp(r) \/ deCallsInc(r)
           \/ \E k \in Key, sc \in SubConn : bindSubConn(k, sc)
           \/ \E k \in Key : unbindSubConn(k) \/ CreateFallback(k)
  BY <1>6, CountersKeepRefs DEF RefsKept
<1> QED
  BY <1>1, <1>2, <1>4, <1>5, <1>6 DEF Next

\* A finished refresh never costs the pool a ready channel, and leaves the
\* refreshed one ready.
THEOREM RefreshIsSmooth == Spec => RefreshKeepsReady
<1> DEFINE A == \A ref \in SubConn : refs[ref].subConn \notin {NoSubConn, refs'[ref].subConn}
                  => ReadyRefs' = ReadyRefs \cup {ref}
<1>1. IInv /\ [Next]_vars => [A]_vars
  BY NextRefresh
<1> QED
  BY <1>1, Invariance, PTL DEF Spec, RefreshKeepsReady

-----------------------------------------------------------------------------
(***************************************************************************)
(* What no sequence of events does to a pool without refreshes, fallbacks  *)
(* or shutdowns, and what none does to any.                                *)
(***************************************************************************)

Refreshes == cfg # NoConfig /\ cfg.unresponsiveDetection

\* Before the first configuration there is nothing.
ConfigFirst ==
    /\ cfg # NoConfig => cfg.minSize > 0
    /\ cfg = NoConfig =>
          /\ mu = "free" /\ ~panicked /\ ~cc.served
          /\ removed = {}
          /\ \A sc \in SubConn : conn[sc] = "none"
          /\ \A k \in Key : affinityMap[k] = NoSubConn /\ fallbackMap[k] = NoSubConn

\* Where the SubConns are: in the pool, on their way into it, removed or shut down.
Placed ==
    /\ \A sc \in removed : conn[sc] # "none" /\ sc \notin Pool /\ refreshingScRefs[sc] = NoSubConn
    /\ Refreshes \/ (removed = {} /\ \A sc \in SubConn : refreshingScRefs[sc] = NoSubConn)
    /\ ~LiveShutdown =>
          /\ \A sc \in SubConn : conn[sc] # "none" =>
                sc \in Pool \/ sc \in removed \/ refreshingScRefs[sc] # NoSubConn
          /\ \A ref \in SubConn : refs[ref].subConn # NoSubConn => refs[ref].subConn \in Pool
          /\ (cfg # NoConfig /\ mu = "free") => Pool # {}

FInv == ConfigFirst /\ Placed /\ PoolReconnects /\ AddrsCurrent /\ FallbackReady /\ BoundInPool /\ NoFault

-----------------------------------------------------------------------------
(***************************************************************************)
(* What the steps do, as far as these invariants tell steps apart.         *)
(***************************************************************************)

\* The pool gets the SubConn sc.
Added(sc) ==
    /\ conn[sc] = "none" /\ sc \notin Pool
    /\ Pool' = Pool \cup {sc}
    /\ conn' = [conn EXCEPT ![sc] = "Idle"]
    /\ wantConnect' = wantConnect \cup {sc}
    /\ scAddrs' = [scAddrs EXCEPT ![sc] = addrs]
    /\ scStates' = [scStates EXCEPT ![sc] = "Idle"]
    /\ refs' = [refs EXCEPT ![sc] = NewRef(sc)]
    /\ UNCHANGED <<removed, refreshingScRefs>>

LEMMA GrowthSteps ==
    ASSUME IInv, enforceMinSize \/ GrowPool
    PROVE  /\ UNCHANGED <<mu, panicked, cfg, addrs, keyVars, aggrVars>>
           /\ cfg = NoConfig => mu # "free" \/ cc.served
           /\ UNCHANGED <<poolVars, connVars>> \/ \E sc \in SubConn : Added(sc)
<1>1. addSubConn => UNCHANGED <<poolVars, connVars>> \/ \E sc \in SubConn : Added(sc)
  <2> SUFFICES ASSUME NEW sc \in SubConn, NewSubConn(sc),
                      scRefs' = [scRefs EXCEPT ![sc] = sc],
                      scStates' = [scStates EXCEPT ![sc] = "Idle"],
                      refs' = [refs EXCEPT ![sc] = NewRef(sc)],
                      UNCHANGED refreshingScRefs
               PROVE  Added(sc)
    BY DEF addSubConn
  <2>1. conn[sc] = "none" /\ sc \notin Pool
    BY DEF NewSubConn, Fresh, IInv, Linked
  <2>2. Pool' = Pool \cup {sc}
    BY SubConnAssumption DEF Pool, IInv, TypeOK, PoolTypeOK
  <2> QED
    BY <2>1, <2>2 DEF Added, NewSubConn
<1> QED
  BY <1>1 DEF enforceMinSize, GrowPool, newSubConn, ServesCalls

\* The state s of sc is left out of account.
Ignored(sc) ==
    /\ sc \notin Pool
    /\ wantConnect' = wantConnect \ {sc}
    /\ UNCHANGED <<poolVars, keyVars, aggrVars, removed>>

\* The state s of sc, which is in the pool, is noted.
Recorded(sc, s) ==
    /\ sc \in Pool /\ scStates[sc] # "none"
    /\ Pool' = IF s = "Shutdown" THEN Pool \ {sc} ELSE Pool
    /\ scStates' = [scStates EXCEPT ![sc] = IF s = "Shutdown" THEN "none" ELSE s]
    /\ wantConnect' = IF s = "Idle" THEN wantConnect \cup {sc} ELSE wantConnect \ {sc}
    /\ fallbackMap' = [k \in Key |-> IF DropsFallback(k, sc, scStates[sc], s)
                                     THEN NoSubConn ELSE fallbackMap[k]]
    /\ UNCHANGED <<refreshingScRefs, refs, removed, affinityMap>>

\* sc takes the place of oldSc as the SubConn of ref.
Replaced(sc, ref, oldSc) ==
    /\ ref = refreshingScRefs[sc] /\ ref # NoSubConn
    /\ sc \notin Pool /\ oldSc # sc
    /\ refs[ref].subConn = oldSc
    /\ Pool' = (Pool \ {oldSc}) \cup {sc}
    /\ scStates' = [x \in SubConn |-> IF x = sc THEN "Ready"
                                      ELSE IF x = oldSc THEN "none" ELSE scStates[x]]
    /\ refreshingScRefs' = [refreshingScRefs EXCEPT ![sc] = NoSubConn]
    /\ refs' = [refs EXCEPT ![ref] = Refreshed(refs[ref], sc)]
    /\ removed' = removed \cup {oldSc}
    /\ wantConnect' = wantConnect \ {sc}
    /\ UNCHANGED affinityMap

LEMMA ReportSteps ==
    ASSUME IInv, NEW sc \in SubConn, NEW s \in ConnState, UpdateSubConnState(sc, s)
    PROVE  /\ ~panicked /\ mu = "free" /\ conn[sc] # "none" /\ s # "none"
           /\ s = "Shutdown" => sc \in removed \/ LiveShutdown
           /\ conn' = [conn EXCEPT ![sc] = s]
           /\ UNCHANGED <<mu, panicked, cfg, addrs, scAddrs>>
           /\ \/ Ignored(sc)
              \/ Recorded(sc, s)
              \/ \E ref, oldSc \in SubConn : s = "Ready" /\ Replaced(sc, ref, oldSc)
<1> USE DEF IInv
<1>1. /\ ~panicked /\ mu = "free" /\ conn[sc] # "none" /\ s # "none"
      /\ s = "Shutdown" => sc \in removed \/ LiveShutdown
      /\ conn' = [conn EXCEPT ![sc] = s]
      /\ UNCHANGED <<mu, panicked, cfg, addrs, scAddrs>>
  BY DEF UpdateSubConnState, CanReport, ConnState
<1>2. CASE refreshingScRefs[sc] # NoSubConn /\ ~ReplacementUsable(s)
  <2>1. sc \notin Pool
    BY <1>2 DEF Linked, RefsConsistent
  <2> QED
    BY <1>1, <1>2, <2>1 DEF UpdateSubConnState, Ignored
<1>3. CASE refreshingScRefs[sc] = NoSubConn /\ scStates[sc] = "none"
  <2>1. sc \notin Pool
    BY <1>1, <1>3 DEF Linked, RefsConsistent
  <2> QED
    BY <1>1, <1>3, <2>1 DEF UpdateSubConnState, Ignored
<1>4. CASE refreshingScRefs[sc] = NoSubConn /\ scStates[sc] # "none"
  <2>1. sc \in Pool
    BY <1>4 DEF Linked, RefsConsistent
  <2>2. HandleStateChange(sc, scStates[sc], s, scRefs, scStates)
    BY <1>4 DEF UpdateSubConnState
  <2>3. Pool' = IF s = "Shutdown" THEN Pool \ {sc} ELSE Pool
    BY <2>2, SubConnAssumption DEF Pool, HandleStateChange, LeavesPool, TypeOK, PoolTypeOK
  <2>4. Recorded(sc, s)
    BY <1>4, <2>1, <2>2, <2>3 DEF Recorded, UpdateSubConnState, HandleStateChange, LeavesPool, Reconnects
  <2> QED
    BY <1>1, <2>4
<1>5. CASE refreshingScRefs[sc] # NoSubConn /\ ReplacementUsable(s)
  <2> DEFINE ref == refreshingScRefs[sc]
             oldSc == refs[ref].subConn
  <2>1. s = "Ready" /\ ReplaceSubConn(sc, "Ready") /\ wantConnect' = wantConnect \ {sc}
    BY <1>5 DEF UpdateSubConnState, ReplacementUsable
  <2>2. /\ ref \in SubConn /\ oldSc \in SubConn /\ oldSc # sc
        /\ sc \notin Pool
        /\ scRefs' = [x \in SubConn |-> IF x = sc THEN ref
                                        ELSE IF x = oldSc THEN NoSubConn ELSE scRefs[x]]
        /\ scStates' = [x \in SubConn |-> IF x = sc THEN "Ready"
                                          ELSE IF x = oldSc THEN "none" ELSE scStates[x]]
        /\ refreshingScRefs' = [refreshingScRefs EXCEPT ![sc] = NoSubConn]
        /\ refs' = [refs EXCEPT ![ref] = Refreshed(refs[ref], sc)]
        /\ removed' = removed \cup {oldSc}
    BY <1>5, <2>1, ReplaceSubConnMaps
  <2>3. affinityMap' = affinityMap
    BY <2>1 DEF ReplaceSubConn, HandleStateChange
  <2> HIDE DEF oldSc
  <2>4. Pool' = (Pool \ {oldSc}) \cup {sc}
    BY <1>5, <2>2, SubConnAssumption DEF Pool
  <2>5. Replaced(sc, ref, oldSc)
    BY <1>5, <2>1, <2>2, <2>3, <2>4 DEF Replaced, oldSc
  <2> QED
    BY <1>1, <2>1, <2>2, <2>5
<1> QED
  BY <1>2, <1>3, <1>4, <1>5 DEF ReplacementUsable

\* A replacement sc is created for ref.
Refreshing(sc, ref) ==
    /\ conn[sc] = "none" /\ sc \notin Pool
    /\ conn' = [conn EXCEPT ![sc] = "Idle"]
    /\ wantConnect' = wantConnect \cup {sc}
    /\ scAddrs' = [scAddrs EXCEPT ![sc] = addrs]
    /\ refreshingScRefs' = [refreshingScRefs EXCEPT ![sc] = ref]
    /\ UNCHANGED removed

LEMMA RefreshSteps ==
    ASSUME IInv, NEW ref \in SubConn, refresh(ref)
    PROVE  /\ cc.served /\ cfg.unresponsiveDetection
           /\ UNCHANGED <<mu, panicked, cfg, addrs, scRefs, scStates, keyVars, cc>>
           /\ \A r \in SubConn : refs'[r].subConn = refs[r].subConn
           /\ \/ UNCHANGED <<refreshingScRefs, connVars>>
              \/ \E sc \in SubConn : Refreshing(sc, ref)
<1>1. \A r \in SubConn : refs'[r].subConn = refs[r].subConn
  BY DEF refresh, IInv, TypeOK, PoolTypeOK, RefType
<1>2. ASSUME NEW sc \in SubConn, NewSubConn(sc) PROVE conn[sc] = "none" /\ sc \notin Pool
  BY <1>2 DEF NewSubConn, Fresh, IInv, Linked
<1> QED
  BY <1>1, <1>2 DEF refresh, ServesCalls, aggrVars, NewSubConn, Refreshing

\* Counters and keys change.
Bookkeeping ==
    \/ \E ref \in SubConn : gotResp(ref) \/ deCallsInc(ref)
    \/ \E k \in Key, sc \in SubConn : bindSubConn(k, sc)
    \/ \E k \in Key : unbindSubConn(k) \/ CreateFallback(k)

LEMMA BookkeepingSteps ==
    ASSUME IInv, Bookkeeping
    PROVE  /\ cc.served /\ ~panicked /\ mu = "free"
           /\ UNCHANGED <<cfg, addrs, scRefs, scStates, refreshingScRefs, scRefList, connVars, aggrVars>>
           /\ \A r \in SubConn : refs'[r].subConn = refs[r].subConn
<1>1. RefsKept
  BY CountersKeepRefs DEF IInv, Bookkeeping
<1> QED
  BY <1>1 DEF Bookkeeping, gotResp, deCallsInc, bindSubConn, unbindSubConn, CreateFallback, ServesCalls,
     RefsKept, poolVars

Stepping ==
    \/ UpdateClientConnState
    \/ MinSizeReached
    \/ enforceMinSize \/ GrowPool
    \/ \E sc \in SubConn, s \in ConnState : UpdateSubConnState(sc, s)
    \/ \E ref \in SubConn : refresh(ref)
    \/ Bookkeeping

LEMMA Steps == Next => Stepping
BY DEF Next, Stepping, Bookkeeping

\* What UpdateClientConnState does to a pool.
PoolUpdated ==
    \/ /\ Pool = {} /\ mu' = "stuck"
       /\ UNCHANGED connVars
    \/ /\ Pool # {} /\ mu' = "free"
       /\ scAddrs' = [sc \in SubConn |-> IF sc \in Pool THEN addrs' ELSE scAddrs[sc]]
       /\ wantConnect \subseteq wantConnect'

LEMMA ConfigSteps ==
    ASSUME IInv, UpdateClientConnState \/ MinSizeReached
    PROVE  /\ ~panicked
           /\ UNCHANGED <<panicked, poolVars, keyVars, aggrVars, conn, removed>>
           /\ Pool' = Pool
           /\ \/ cfg = NoConfig /\ mu = "free" /\ UNCHANGED <<mu, cfg, wantConnect>>
              \/ /\ cfg = NoConfig /\ mu = "free" /\ mu' = "enforceMinSize"
                 /\ cfg' \in ConfigType /\ cfg'.minSize > 0
                 /\ UNCHANGED wantConnect
              \/ cfg # NoConfig /\ mu = "free" /\ cfg' = cfg /\ PoolUpdated
              \/ /\ mu = "enforceMinSize" /\ cfg' = cfg /\ Cardinality(Pool) >= cfg.minSize
                 /\ PoolUpdated
<1> USE DEF poolVars, connVars
<1>1. UNCHANGED scRefs => Pool' = Pool
  BY DEF Pool
<1>2. \A c \in Configs : initializeConfig(c) \in ConfigType /\ initializeConfig(c).minSize > 0
  BY ConfigAssumption DEF initializeConfig, defaultMinSize, ConfigType
<1>3. UpdatePoolAddresses => PoolUpdated /\ UNCHANGED <<conn, removed>>
  BY DEF UpdatePoolAddresses, UpdateAddresses, PoolUpdated
<1>4. CASE MinSizeReached
  BY <1>1, <1>3, <1>4 DEF MinSizeReached
<1>5. CASE UpdateClientConnState
  BY <1>1, <1>2, <1>3, <1>5 DEF UpdateClientConnState
<1> QED
  BY <1>4, <1>5

-----------------------------------------------------------------------------
(***************************************************************************)
(* Before the first configuration, only UpdateClientConnState can happen.  *)
(***************************************************************************)

LEMMA Unconfigured ==
    ASSUME IInv, ConfigFirst, cfg = NoConfig, Next
    PROVE  UpdateClientConnState /\ mu = "free"
<1>0. mu = "free" /\ ~cc.served /\ \A sc \in SubConn : conn[sc] = "none"
  BY DEF ConfigFirst
<1>1. ~MinSizeReached
  BY <1>0 DEF MinSizeReached
<1>2. ~(enforceMinSize \/ GrowPool)
  BY <1>0, GrowthSteps DEF enforceMinSize, GrowPool, ServesCalls
<1>3. \A sc \in SubConn, s \in ConnState : ~UpdateSubConnState(sc, s)
  BY <1>0, ReportSteps
<1>4. (\A ref \in SubConn : ~refresh(ref)) /\ ~Bookkeeping
  BY <1>0, RefreshSteps, BookkeepingSteps
<1> QED
  BY <1>0, <1>1, <1>2, <1>3, <1>4, Steps DEF Stepping

LEMMA ConfigKept ==
    ASSUME IInv, cfg # NoConfig, Next
    PROVE  cfg' = cfg
<1> USE DEF Stepping
<1>1. CASE UpdateClientConnState \/ MinSizeReached
  BY <1>1, ConfigSteps
<1>2. CASE enforceMinSize \/ GrowPool
  BY <1>2, GrowthSteps
<1>3. CASE \E sc \in SubConn, s \in ConnState : UpdateSubConnState(sc, s)
  BY <1>3, ReportSteps
<1>4. CASE \E ref \in SubConn : refresh(ref)
  BY <1>4, RefreshSteps
<1>5. CASE Bookkeeping
  BY <1>5, BookkeepingSteps
<1> QED
  BY <1>1, <1>2, <1>3, <1>4, <1>5, Steps

LEMMA ConfigFirstKept == ASSUME IInv, ConfigFirst, Next PROVE ConfigFirst'
<1>1. CASE cfg = NoConfig
  <2>1. UpdateClientConnState /\ mu = "free"
    BY <1>1, Unconfigured
  <2>2. NoConfig \notin ConfigType
    BY ConfigAssumption
  <2> QED
    BY <1>1, <2>1, <2>2, ConfigSteps DEF ConfigFirst, keyVars, aggrVars
<1>2. CASE cfg # NoConfig
  BY <1>2, ConfigKept DEF ConfigFirst
<1> QED
  BY <1>1, <1>2

-----------------------------------------------------------------------------
(***************************************************************************)
(* Where SubConns are.                                                     *)
(***************************************************************************)

\* The SubConns of living subConnRefs are in the pool.
RefsInPool == \A ref \in SubConn : refs[ref].subConn # NoSubConn => refs[ref].subConn \in Pool

\* Every SubConn created is in a place.
InPlace == \A sc \in SubConn : conn[sc] # "none" =>
              sc \in Pool \/ sc \in removed \/ refreshingScRefs[sc] # NoSubConn

LEMMA PlacedKept == ASSUME IInv, IInv', ConfigFirst, Placed, Next PROVE Placed'
<1> USE SubConnAssumption
<1>0. /\ conn \in [SubConn -> ConnState \cup {"none"}]
      /\ refreshingScRefs \in [SubConn -> MaybeSubConn]
      /\ refs \in [SubConn -> RefType]
      /\ removed \in SUBSET SubConn
      /\ scStates \in [SubConn -> (ConnState \ {"Shutdown"}) \cup {"none"}]
  BY DEF IInv, TypeOK, PoolTypeOK, ConnTypeOK
<1>c. cfg # NoConfig => cfg' = cfg
  BY ConfigKept
<1>1. CASE UpdateClientConnState \/ MinSizeReached
  <2>1. Pool # {} \/ mu' # "free" \/ (cfg = NoConfig /\ cfg' = NoConfig)
    BY <1>1, ConfigSteps DEF PoolUpdated
  <2>2. Refreshes => Refreshes'
    BY <1>c DEF Refreshes
  <2> QED
    BY <1>1, <2>1, <2>2, ConfigSteps DEF Placed, poolVars
<1>2. CASE enforceMinSize \/ GrowPool
  <2>0. Refreshes' = Refreshes /\ UNCHANGED <<mu, cfg>>
    BY <1>2, GrowthSteps DEF Refreshes
  <2>1. CASE UNCHANGED <<poolVars, connVars>>
    <3>1. Pool' = Pool
      BY <2>1 DEF Pool, poolVars
    <3> QED
      BY <2>0, <2>1, <3>1 DEF Placed, poolVars, connVars
  <2>2. ASSUME NEW sc \in SubConn, Added(sc) PROVE Placed'
    BY <1>0, <2>0, <2>2 DEF Placed, Added, NewRef
  <2> QED
    BY <1>2, <2>1, <2>2, GrowthSteps
<1>3. ASSUME NEW sc \in SubConn, NEW s \in ConnState, UpdateSubConnState(sc, s) PROVE Placed'
  <2>0. /\ Refreshes' = Refreshes /\ UNCHANGED <<mu, cfg>>
        /\ conn' = [conn EXCEPT ![sc] = s] /\ s # "none" /\ conn[sc] # "none"
    BY <1>3, ReportSteps DEF Refreshes
  <2>1. CASE Ignored(sc)
    <3>1. Pool' = Pool
      BY <2>1 DEF Ignored, Pool, poolVars
    <3> QED
      BY <1>0, <2>0, <2>1, <3>1 DEF Placed, Ignored, poolVars
  <2>2. CASE Recorded(sc, s)
    <3>1. LiveShutdown \/ Pool' = Pool
      BY <1>3, <2>2, ReportSteps DEF Recorded, Placed
    <3> QED
      BY <1>0, <2>0, <2>2, <3>1 DEF Placed, Recorded
  <2>3. ASSUME NEW ref \in SubConn, NEW oldSc \in SubConn, Replaced(sc, ref, oldSc) PROVE Placed'
    <3>1. conn[oldSc] # "none" /\ refreshingScRefs[oldSc] = NoSubConn
      BY <2>3 DEF Replaced, IInv, Linked
    <3>2. Refreshes
      BY <2>3 DEF Placed, Replaced
    <3>3. \A x \in removed' : conn'[x] # "none" /\ x \notin Pool' /\ refreshingScRefs'[x] = NoSubConn
      BY <1>0, <2>0, <2>3, <3>1 DEF Placed, Replaced
    <3>4. InPlace => InPlace'
      BY <1>0, <2>0, <2>3 DEF InPlace, Replaced
    <3>5. \A r \in SubConn : refs'[r].subConn = IF r = ref THEN sc ELSE refs[r].subConn
      BY <1>0, <2>3 DEF Replaced, Refreshed
    <3>6. \A r \in SubConn : r # ref /\ RefsInPool => refs[r].subConn # oldSc
      BY <2>3 DEF Replaced, RefsInPool, IInv, Linked
    <3>7. RefsInPool => RefsInPool'
      BY <2>3, <3>5, <3>6 DEF RefsInPool, Replaced
    <3>8. Pool' # {}
      BY <2>3 DEF Replaced
    <3> QED
      BY <2>0, <3>2, <3>3, <3>4, <3>7, <3>8 DEF Placed, InPlace, RefsInPool
  <2> QED
    BY <1>3, <2>1, <2>2, <2>3, ReportSteps
<1>4. ASSUME NEW ref \in SubConn, refresh(ref) PROVE Placed'
  <2>0. /\ Pool' = Pool /\ UNCHANGED <<mu, cfg>>
        /\ \A r \in SubConn : refs'[r].subConn = refs[r].subConn
    BY <1>4, RefreshSteps DEF Pool
  <2>1. Refreshes /\ Refreshes'
    BY <1>4, <2>0, RefreshSteps DEF Refreshes, ConfigFirst
  <2>2. CASE UNCHANGED <<refreshingScRefs, connVars>>
    BY <2>0, <2>1, <2>2 DEF Placed, connVars
  <2>3. ASSUME NEW sc \in SubConn, Refreshing(sc, ref) PROVE Placed'
    BY <1>0, <2>0, <2>1, <2>3 DEF Placed, Refreshing
  <2> QED
    BY <1>4, <2>2, <2>3, RefreshSteps
<1>5. CASE Bookkeeping
  <2>1. Pool' = Pool
    BY <1>5, BookkeepingSteps DEF Pool
  <2>2. mu' = "free" => mu = "free"
    BY <1>5, BookkeepingSteps
  <2> QED
    BY <1>5, <2>1, <2>2, BookkeepingSteps DEF Placed, Refreshes, connVars
<1> QED
  BY <1>1, <1>2, <1>3, <1>4, <1>5, Steps DEF Stepping

-----------------------------------------------------------------------------
(***************************************************************************)
(* The properties.                                                         *)
(***************************************************************************)

LEMMA ReconnectsKept == ASSUME IInv, PoolReconnects, Next PROVE PoolReconnects'
<1>0. scStates \in [SubConn -> (ConnState \ {"Shutdown"}) \cup {"none"}]
  BY DEF IInv, TypeOK, PoolTypeOK
<1>1. CASE UpdateClientConnState \/ MinSizeReached
  BY <1>1, ConfigSteps DEF PoolReconnects, PoolUpdated, poolVars, connVars
<1>2. CASE enforceMinSize \/ GrowPool
  <2>1. CASE UNCHANGED <<poolVars, connVars>>
    BY <2>1 DEF PoolReconnects, Pool, poolVars, connVars
  <2>2. ASSUME NEW sc \in SubConn, Added(sc) PROVE PoolReconnects'
    BY <1>0, <2>2 DEF PoolReconnects, Added
  <2> QED
    BY <1>2, <2>1, <2>2, GrowthSteps
<1>3. ASSUME NEW sc \in SubConn, NEW s \in ConnState, UpdateSubConnState(sc, s)
      PROVE  PoolReconnects'
  <2>1. CASE Ignored(sc)
    BY <2>1 DEF PoolReconnects, Ignored, Pool, poolVars
  <2>2. CASE Recorded(sc, s)
    BY <1>0, <2>2 DEF PoolReconnects, Recorded, Pool
  <2>3. ASSUME NEW ref \in SubConn, NEW oldSc \in SubConn, Replaced(sc, ref, oldSc)
        PROVE  PoolReconnects'
    BY <1>0, <2>3 DEF PoolReconnects, Replaced, Pool
  <2> QED
    BY <1>3, <2>1, <2>2, <2>3, ReportSteps
<1>4. ASSUME NEW ref \in SubConn, refresh(ref) PROVE PoolReconnects'
  BY <1>4, RefreshSteps DEF PoolReconnects, Refreshing, Pool, connVars
<1>5. CASE Bookkeeping
  BY <1>5, BookkeepingSteps DEF PoolReconnects, Pool, connVars
<1> QED
  BY <1>1, <1>2, <1>3, <1>4, <1>5, Steps DEF Stepping

LEMMA AddrsKept ==
    ASSUME IInv, ConfigFirst, Placed, AddrsCurrent, Next
    PROVE  AddrsCurrent'
<1>0. scAddrs \in [SubConn -> Nat]
  BY DEF IInv, TypeOK, ConnTypeOK
<1>1. CASE UpdateClientConnState \/ MinSizeReached
  BY <1>1, ConfigSteps DEF AddrsCurrent, PoolUpdated, Pool, poolVars
<1>2. CASE enforceMinSize \/ GrowPool
  <2>1. CASE UNCHANGED <<poolVars, connVars>>
    BY <1>2, <2>1, GrowthSteps DEF AddrsCurrent, Pool, poolVars, connVars
  <2>2. ASSUME NEW sc \in SubConn, Added(sc) PROVE AddrsCurrent'
    BY <1>0, <1>2, <2>2, GrowthSteps DEF AddrsCurrent, Added, Pool
  <2> QED
    BY <1>2, <2>1, <2>2, GrowthSteps
<1>3. ASSUME NEW sc \in SubConn, NEW s \in ConnState, UpdateSubConnState(sc, s)
      PROVE  AddrsCurrent'
  <2>0. UNCHANGED <<mu, cfg, addrs, scAddrs>>
    BY <1>3, ReportSteps
  <2>1. CASE Ignored(sc) \/ Recorded(sc, s)
    <3>1. Pool' \subseteq Pool
      BY <2>1 DEF Ignored, Recorded, Pool, poolVars
    <3> QED
      BY <2>0, <3>1 DEF AddrsCurrent
  <2>2. ASSUME NEW ref \in SubConn, NEW oldSc \in SubConn, Replaced(sc, ref, oldSc)
        PROVE  AddrsCurrent'
    BY <2>0, <2>2 DEF AddrsCurrent, Replaced, Placed, Refreshes
  <2> QED
    BY <1>3, <2>1, <2>2, ReportSteps
<1>4. ASSUME NEW ref \in SubConn, refresh(ref) PROVE AddrsCurrent'
  BY <1>4, RefreshSteps DEF AddrsCurrent
<1>5. CASE Bookkeeping
  BY <1>5, BookkeepingSteps DEF AddrsCurrent, Pool, connVars
<1> QED
  BY <1>1, <1>2, <1>3, <1>4, <1>5, Steps DEF Stepping

LEMMA FallbackKept ==
    ASSUME IInv, ConfigFirst, Placed, PInv, FallbackReady, Next
    PROVE  FallbackReady'
<1> USE SubConnAssumption
<1>0. /\ scStates \in [SubConn -> (ConnState \ {"Shutdown"}) \cup {"none"}]
      /\ affinityMap \in [Key -> MaybeSubConn]
      /\ fallbackMap \in [Key -> MaybeSubConn]
  BY DEF IInv, TypeOK, PoolTypeOK, KeyTypeOK
<1> DEFINE Fallbacks == \A k \in Key : fallbackMap[k] # NoSubConn => scStates[fallbackMap[k]] = "Ready"
<1>c. CASE cfg = NoConfig
  <2>1. UpdateClientConnState
    BY <1>c, Unconfigured
  <2>2. UNCHANGED fallbackMap
    BY <2>1, ConfigSteps DEF keyVars
  <2> QED
    BY <1>c, <2>2 DEF ConfigFirst, FallbackReady
<1>d. CASE cfg # NoConfig /\ cfg.unresponsiveDetection
  BY <1>d, ConfigKept DEF FallbackReady
<1>e. CASE cfg # NoConfig /\ ~cfg.unresponsiveDetection
  <2>0. Fallbacks
    BY <1>e DEF FallbackReady
  <2> SUFFICES Fallbacks'
    BY DEF FallbackReady
  <2>1. CASE UpdateClientConnState \/ MinSizeReached
    BY <2>0, <2>1, ConfigSteps DEF poolVars, keyVars
  <2>2. CASE enforceMinSize \/ GrowPool
    <3>1. CASE UNCHANGED <<poolVars, connVars>>
      BY <2>0, <2>2, <3>1, GrowthSteps DEF poolVars, keyVars
    <3>2. ASSUME NEW sc \in SubConn, Added(sc) PROVE Fallbacks'
      <4>1. scStates[sc] # "Ready"
        BY <3>2 DEF Added, IInv, Linked, RefsConsistent
      <4> QED
        BY <1>0, <2>0, <2>2, <3>2, <4>1, GrowthSteps DEF Added, keyVars, MaybeSubConn
    <3> QED
      BY <2>2, <3>1, <3>2, GrowthSteps
  <2>3. ASSUME NEW sc \in SubConn, NEW s \in ConnState, UpdateSubConnState(sc, s)
        PROVE  Fallbacks'
    <3>1. CASE Ignored(sc)
      BY <2>0, <3>1 DEF Ignored, poolVars, keyVars
    <3>2. CASE Recorded(sc, s)
      <4>1. ASSUME NEW k \in Key, fallbackMap'[k] # NoSubConn PROVE scStates'[fallbackMap'[k]] = "Ready"
        <5>1. fallbackMap'[k] = fallbackMap[k] /\ ~DropsFallback(k, sc, scStates[sc], s)
          BY <3>2, <4>1 DEF Recorded
        <5>2. fallbackMap[k] \in SubConn /\ scStates[fallbackMap[k]] = "Ready"
          BY <1>0, <2>0, <4>1, <5>1 DEF MaybeSubConn
        <5>3. fallbackMap[k] = sc => s = "Ready"
          BY <5>1, <5>2 DEF DropsFallback
        <5> QED
          BY <1>0, <3>2, <5>1, <5>2, <5>3 DEF Recorded
      <4> QED
        BY <4>1
    <3>3. \A ref, oldSc \in SubConn : ~Replaced(sc, ref, oldSc)
      BY <1>e DEF Replaced, Placed, Refreshes
    <3> QED
      BY <2>3, <3>1, <3>2, <3>3, ReportSteps
  <2>4. \A ref \in SubConn : ~refresh(ref)
    BY <1>e, RefreshSteps
  <2>5. CASE Bookkeeping
    <3>1. UNCHANGED scStates
      BY <2>5, BookkeepingSteps
    <3>2. CASE UNCHANGED fallbackMap
      BY <2>0, <3>1, <3>2
    <3>3. ASSUME NEW k \in Key, CreateFallback(k), ~UNCHANGED fallbackMap PROVE Fallbacks'
      <4>1. PICK ref \in picker.refs : fallbackMap' = [fallbackMap EXCEPT ![k] = refs[ref].subConn]
        BY <3>3 DEF CreateFallback
      <4>2. PICK sc \in SubConn : scStates[sc] = "Ready" /\ ref = scRefs[sc]
        BY <4>1 DEF PInv, PickerCurrent, ReadyRefs
      <4>3. sc \in Pool
        BY <4>2 DEF IInv, Linked, RefsConsistent
      <4>4. refs[ref].subConn = sc
        BY <4>2, <4>3 DEF IInv, Linked, RefsConsistent
      <4> QED
        BY <1>0, <2>0, <3>1, <4>1, <4>2, <4>4
    <3> QED
      BY <2>5, <3>2, <3>3 DEF Bookkeeping, gotResp, deCallsInc, bindSubConn, unbindSubConn, keyVars
  <2> QED
    BY <2>1, <2>2, <2>3, <2>4, <2>5, Steps DEF Stepping
<1> QED
  BY <1>c, <1>d, <1>e

LEMMA BoundKept ==
    ASSUME IInv, ConfigFirst, Placed, BoundInPool, Next
    PROVE  BoundInPool'
<1> USE SubConnAssumption
<1>0. affinityMap \in [Key -> MaybeSubConn]
  BY DEF IInv, TypeOK, KeyTypeOK
<1> DEFINE Bound == \A k \in Key : affinityMap[k] # NoSubConn => affinityMap[k] \in Pool
<1>c. CASE cfg = NoConfig
  <2>1. UpdateClientConnState
    BY <1>c, Unconfigured
  <2>2. UNCHANGED affinityMap
    BY <2>1, ConfigSteps DEF keyVars
  <2> QED
    BY <1>c, <2>2 DEF ConfigFirst, BoundInPool
<1>d. CASE cfg # NoConfig /\ (cfg.unresponsiveDetection \/ LiveShutdown)
  BY <1>d, ConfigKept DEF BoundInPool
<1>e. CASE cfg # NoConfig /\ ~cfg.unresponsiveDetection /\ ~LiveShutdown
  <2>0. Bound
    BY <1>e DEF BoundInPool
  <2> SUFFICES Bound'
    BY DEF BoundInPool
  <2>1. CASE UpdateClientConnState \/ MinSizeReached
    BY <2>0, <2>1, ConfigSteps DEF keyVars
  <2>2. CASE enforceMinSize \/ GrowPool
    BY <2>0, <2>2, GrowthSteps DEF keyVars, Added, Pool, poolVars
  <2>3. ASSUME NEW sc \in SubConn, NEW s \in ConnState, UpdateSubConnState(sc, s)
        PROVE  Bound'
    <3>1. CASE Ignored(sc)
      BY <2>0, <3>1 DEF Ignored, Pool, poolVars, keyVars
    <3>2. CASE Recorded(sc, s)
      <4>1. s # "Shutdown"
        BY <1>e, <2>3, <3>2, ReportSteps DEF Recorded, Placed
      <4> QED
        BY <2>0, <3>2, <4>1 DEF Recorded
    <3>3. \A ref, oldSc \in SubConn : ~Replaced(sc, ref, oldSc)
      BY <1>e DEF Replaced, Placed, Refreshes
    <3> QED
      BY <2>3, <3>1, <3>2, <3>3, ReportSteps
  <2>4. \A ref \in SubConn : ~refresh(ref)
    BY <1>e, RefreshSteps
  <2>5. CASE Bookkeeping
    <3>1. Pool' = Pool
      BY <2>5, BookkeepingSteps DEF Pool
    <3>2. \A k \in Key, sc \in SubConn : bindSubConn(k, sc) => sc \in Pool
      BY <1>e DEF bindSubConn, Assigned, Placed, Refreshes
    <3>3. ASSUME NEW k \in Key, NEW sc \in SubConn, bindSubConn(k, sc) PROVE Bound'
      BY <1>0, <2>0, <3>1, <3>2, <3>3 DEF bindSubConn
    <3>4. ASSUME NEW k \in Key, unbindSubConn(k) PROVE Bound'
      BY <1>0, <2>0, <3>1, <3>4 DEF unbindSubConn
    <3>5. CASE UNCHANGED affinityMap
      BY <2>0, <3>1, <3>5
    <3> QED
      BY <2>5, <3>3, <3>4, <3>5 DEF Bookkeeping, gotResp, deCallsInc, CreateFallback, keyVars
  <2> QED
    BY <2>1, <2>2, <2>3, <2>4, <2>5, Steps DEF Stepping
<1> QED
  BY <1>c, <1>d, <1>e

LEMMA FaultsKept ==
    ASSUME IInv, ConfigFirst, Placed, BoundInPool, NoFault, Next
    PROVE  NoFault'
<1>c. CASE cfg = NoConfig
  <2>1. UpdateClientConnState /\ mu = "free"
    BY <1>c, Unconfigured
  <2>2. ~panicked' /\ mu' # "stuck"
    BY <1>c, <2>1, ConfigSteps DEF ConfigFirst
  <2> QED
    BY <2>2 DEF NoFault
<1>d. CASE cfg # NoConfig /\ (LiveShutdown \/ cfg.unresponsiveDetection \/ cfg.fallbackToReady)
  BY <1>d, ConfigKept DEF NoFault
<1>e. CASE cfg # NoConfig /\ ~LiveShutdown /\ ~cfg.unresponsiveDetection /\ ~cfg.fallbackToReady
  <2>0. ~panicked /\ mu # "stuck"
    BY <1>e DEF NoFault
  <2> SUFFICES ~panicked' /\ mu' # "stuck"
    BY DEF NoFault
  <2>1. CASE UpdateClientConnState \/ MinSizeReached
    <3>1. mu = "enforceMinSize" /\ Cardinality(Pool) >= cfg.minSize => Pool # {}
      <4>1. cfg.minSize \in Nat /\ cfg.minSize > 0
        BY <1>e DEF IInv, TypeOK, ControlTypeOK, ConfigType, ConfigFirst
      <4>2. Cardinality({}) = 0
        BY FS_EmptySet
      <4> QED
        BY <4>1, <4>2
    <3>2. mu = "free" => Pool # {}
      BY <1>e DEF Placed
    <3> QED
      BY <1>e, <2>0, <2>1, <3>1, <3>2, ConfigSteps DEF PoolUpdated
  <2>2. CASE enforceMinSize \/ GrowPool
    BY <2>0, <2>2, GrowthSteps
  <2>3. CASE \E sc \in SubConn, s \in ConnState : UpdateSubConnState(sc, s)
    BY <2>0, <2>3, ReportSteps
  <2>4. CASE \E ref \in SubConn : refresh(ref)
    BY <2>0, <2>4, RefreshSteps
  <2>5. CASE Bookkeeping
    <3>1. \A k \in Key, sc \in SubConn : bindSubConn(k, sc) => sc \in Pool
      BY <1>e DEF bindSubConn, Assigned, Placed, Refreshes
    <3>2. \A k \in Key : affinityMap[k] # NoSubConn => affinityMap[k] \in Pool
      BY <1>e DEF BoundInPool
    <3>3. \A k \in Key : ~CreateFallback(k)
      BY <1>e DEF CreateFallback, NeedsFallback
    <3>4. \A ref \in SubConn : gotResp(ref) \/ deCallsInc(ref) => UNCHANGED <<panicked, mu>>
      BY DEF gotResp, deCallsInc
    <3>5. \A k \in Key, sc \in SubConn : bindSubConn(k, sc) => UNCHANGED <<panicked, mu>>
      BY <3>1 DEF bindSubConn
    <3>6. \A k \in Key : unbindSubConn(k) => UNCHANGED <<panicked, mu>>
      BY <3>2 DEF unbindSubConn
    <3> QED
      BY <2>0, <2>5, <3>3, <3>4, <3>5, <3>6 DEF Bookkeeping
  <2> QED
    BY <2>1, <2>2, <2>3, <2>4, <2>5, Steps DEF Stepping
<1> QED
  BY <1>c, <1>d, <1>e

-----------------------------------------------------------------------------
(***************************************************************************)
(* The theorems.                                                           *)
(***************************************************************************)

LEMMA FInit == Init => FInv
BY DEF Init, FInv, ConfigFirst, Placed, Refreshes, Pool, PoolReconnects, AddrsCurrent, FallbackReady,
   BoundInPool, NoFault, NewRef

LEMMA FNext == IInv /\ IInv' /\ PInv /\ FInv /\ [Next]_vars => FInv'
<1> SUFFICES ASSUME IInv, IInv', PInv, FInv, [Next]_vars PROVE FInv'
  OBVIOUS
<1> USE DEF FInv
<1>1. CASE Next
  BY <1>1, ConfigFirstKept, PlacedKept, ReconnectsKept, AddrsKept, FallbackKept, BoundKept, FaultsKept
<1>2. CASE UNCHANGED vars
  <2>1. Pool' = Pool
    BY <1>2 DEF vars, poolVars, Pool
  <2> QED
    BY <1>2, <2>1 DEF vars, poolVars, keyVars, aggrVars, connVars, ConfigFirst, Placed, Refreshes,
       PoolReconnects, AddrsCurrent, FallbackReady, BoundInPool, NoFault
<1> QED
  BY <1>1, <1>2

THEOREM FaultInvariance == Spec => []FInv
BY FInit, FNext, InitPicker, NextPInv, Invariance, CountersExact, PTL DEF Spec

\* No channel of the pool is left Idle without having been asked to connect, for
\* any number of channels, refreshes and shutdowns.
THEOREM ChannelsReconnect == Spec => []PoolReconnects
<1>1. FInv => PoolReconnects
  BY DEF FInv
<1> QED
  BY <1>1, FaultInvariance, PTL

\* Without refreshes, every channel of the pool dials the latest addresses.
THEOREM AddrsAreCurrent == Spec => []AddrsCurrent
<1>1. FInv => AddrsCurrent
  BY DEF FInv
<1> QED
  BY <1>1, FaultInvariance, PTL

\* Without refreshes, a fallback SubConn is ready whenever fallbackMap has one.
THEOREM FallbacksAreReady == Spec => []FallbackReady
<1>1. FInv => FallbackReady
  BY DEF FInv
<1> QED
  BY <1>1, FaultInvariance, PTL

\* Without refreshes and shutdowns, a key stays bound to a channel of the pool.
THEOREM KeysStayInPool == Spec => []BoundInPool
<1>1. FInv => BoundInPool
  BY DEF FInv
<1> QED
  BY <1>1, FaultInvariance, PTL

\* Without refreshes and shutdowns the channels that keys name, bound or for
\* the time being, are ones that can serve them.
THEOREM KeysAreUsable == Spec => []KeysUsable
<1>1. BoundInPool /\ FallbackReady => KeysUsable
  BY DEF KeysUsable
<1> QED
  BY <1>1, KeysStayInPool, FallbacksAreReady, PTL

\* Refreshes, fallbacks and shutdowns are the only ways to a panic or a
\* self-deadlock of the balancer.
THEOREM FaultsHaveCauses == Spec => []NoFault
<1>1. FInv => NoFault
  BY DEF FInv
<1> QED
  BY <1>1, FaultInvariance, PTL
=============================================================================
