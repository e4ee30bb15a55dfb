------------------------- MODULE MultiEndpoint_proofs -------------------------
(***************************************************************************)
(* Proofs about MultiEndpoint, for any set of endpoints, any lists and any *)
(* number of timers.                                                       *)
(***************************************************************************)
EXTENDS MultiEndpoint, FiniteSetTheorems, WellFoundedInduction, TLAPS

-----------------------------------------------------------------------------
(***************************************************************************)
(* Choosing by priority.                                                   *)
(***************************************************************************)

LessThan == OpToRel(<, Nat)

\* Every nonempty set of numbers has a least one.
LEMMA LeastExists ==
    ASSUME NEW T, T \subseteq Nat, T # {}
    PROVE  \E m \in T : \A n \in T : m <= n
<1>1. IsWellFoundedOn(LessThan, Nat)
  BY NatLessThanWellFounded DEF LessThan
<1>2. PICK m \in T : \A n \in T : ~(<<n, m>> \in LessThan)
  BY <1>1, WFMin
<1>3. \A n \in T : <<n, m>> \in LessThan <=> n < m
  BY DEF LessThan, OpToRel
<1>4. \A n \in T : n \in Nat /\ m \in Nat /\ ~(n < m)
  BY <1>2, <1>3
<1>5. \A n \in T : m <= n
  BY <1>4
<1> QED
  BY <1>5

\* The top of a nonempty set of endpoints is in it, and none is above it.
LEMMA TopIsTop ==
    ASSUME NEW pr \in [Endpoint -> Nat], NEW S, S \subseteq Endpoint, S # {}
    PROVE  /\ Top(S, pr) \in S
           /\ \A e \in S : pr[Top(S, pr)] <= pr[e]
<1> DEFINE T == {pr[e] : e \in S}
<1>1. PICK m \in T : \A n \in T : m <= n
  <2>1. T \subseteq Nat /\ T # {}
    OBVIOUS
  <2> HIDE DEF T
  <2> QED
    BY <2>1, LeastExists
<1>2. PICK x \in S : pr[x] = m
  BY <1>1
<1>3. \A f \in S : pr[x] <= pr[f]
  BY <1>1, <1>2
<1> QED
  BY <1>2, <1>3 DEF Top

\* The position of a listed endpoint is one of the list.
LEMMA PriorityIsPosition ==
    ASSUME NEW list \in Seq(Endpoint), NEW e \in Endpoint
    PROVE  /\ PriorityIn(e, list) \in Nat
           /\ PriorityIn(e, list) = 0 <=> e \notin ListedIn(list)
<1>1. CASE e \notin ListedIn(list)
  BY <1>1 DEF PriorityIn
<1>2. CASE e \in ListedIn(list)
  <2> DEFINE P == {Len(list) - i : i \in {j \in DOMAIN list : list[j] = e}}
  <2>1. DOMAIN list = 1..Len(list) /\ Len(list) \in Nat
    OBVIOUS
  <2>2. P \subseteq Nat /\ P # {}
    BY <1>2, <2>1 DEF ListedIn
  <2>3. PICK m \in P : \A n \in P : m <= n
    <3> HIDE DEF P
    <3> QED
      BY <2>2, LeastExists
  <2>4. PICK i \in DOMAIN list : list[i] = e /\ m = Len(list) - i
    BY <2>3
  <2>5. \A j \in DOMAIN list : list[j] = e => j <= i
    <3> SUFFICES ASSUME NEW j \in DOMAIN list, list[j] = e PROVE j <= i
      OBVIOUS
    <3>1. Len(list) - j \in P
      OBVIOUS
    <3>2. m <= Len(list) - j
      BY <2>3, <3>1
    <3> QED
      BY <2>1, <2>4, <3>2
  <2>6. PriorityIn(e, list) \in DOMAIN list
    BY <1>2, <2>4, <2>5 DEF PriorityIn
  <2> QED
    BY <1>2, <2>1, <2>6
<1> QED
  BY <1>1, <1>2

-----------------------------------------------------------------------------
(***************************************************************************)
(* What maybeUpdateCurrent decides, by the statuses and priorities given.  *)
(***************************************************************************)

StatusesOK(st) == st \in [Endpoint -> Status \cup {"none"}]

\* The endpoint c is a good choice by the statuses st.
Usable(c, st) ==
    /\ st[c] # "none"
    /\ InStatus("available", st) # {} => st[c] # "unavailable"

\* Without a delay, c is the best choice.
Best(c, st, pr) ==
    (~options.switchingDelay /\ InStatus("available", st) # {}) =>
        \/ c = Top(InStatus("available", st), pr)
        \/ /\ st[c] = "recovering"
           /\ \A e \in InStatus("available", st) : pr[c] < pr[e]

ChoiceOK ==
    /\ current \in Endpoint
    /\ future \in Endpoint \cup {NoEndpoint}
    /\ switchTimers \in Nat
    /\ switchTimers > 0 => options.switchingDelay

LEMMA Choice ==
    ASSUME NEW st, StatusesOK(st), NEW pr \in [Endpoint -> Nat],
           \E e \in Endpoint : st[e] # "none",
           ChoiceOK, UNCHANGED options,
           maybeUpdateCurrent(st, pr)
    PROVE  /\ ChoiceOK'
           /\ Usable(current', st)
           /\ Best(current', st, pr)
           /\ \/ current' = current
              \/ current' \in InStatus("available", st)
              \/ st[current] = "none" /\ InStatus("available", st) = {}
<1> DEFINE avail == InStatus("available", st)
           listed == {e \in Endpoint : st[e] # "none"}
<1>0. avail \subseteq Endpoint /\ listed \subseteq Endpoint /\ listed # {}
  BY DEF InStatus
<1>1. CASE KeepsRecovering(st, pr) /\ UNCHANGED choice
  <2>1. st[current] = "recovering" /\ \A e \in avail : pr[current] < pr[e]
    BY <1>1 DEF KeepsRecovering
  <2> QED
    BY <1>1, <2>1 DEF ChoiceOK, choice, Usable, Best
<1>2. CASE ~KeepsRecovering(st, pr) /\ avail # {} /\ switchFromTo(Top(avail, pr), st)
  <2> DEFINE t == Top(avail, pr)
  <2>1. t \in avail
    BY <1>0, <1>2, TopIsTop
  <2>2. t \in Endpoint /\ st[t] = "available"
    BY <2>1 DEF InStatus
  <2> HIDE DEF t
  <2>3. CASE current' = t /\ UNCHANGED <<future, switchTimers>>
    BY <2>1, <2>2, <2>3 DEF ChoiceOK, Usable, Best, t
  <2>4. CASE /\ current # t /\ ~SwitchesNow(st)
             /\ future' = t
             /\ switchTimers' = switchTimers + 1
             /\ UNCHANGED current
    <3>1. options.switchingDelay /\ st[current] \notin {"none", "unavailable"}
      BY <2>4 DEF SwitchesNow
    <3> QED
      BY <2>2, <2>4, <3>1 DEF ChoiceOK, Usable, Best
  <2> QED
    BY <1>2, <2>3, <2>4 DEF switchFromTo, choice, t
<1>3. CASE /\ ~KeepsRecovering(st, pr) /\ avail = {}
           /\ current' = IF Resorts(st) THEN Top(listed, pr) ELSE current
           /\ UNCHANGED <<future, switchTimers>>
  <2>1. Top(listed, pr) \in listed
    BY <1>0, TopIsTop
  <2>2. CASE st[current] = "none"
    BY <1>3, <2>1, <2>2 DEF ChoiceOK, Usable, Best, Resorts
  <2>3. CASE st[current] # "none"
    BY <1>3, <2>3 DEF ChoiceOK, Usable, Best, Resorts
  <2> QED
    BY <2>2, <2>3
<1> QED
  BY <1>1, <1>2, <1>3 DEF maybeUpdateCurrent

-----------------------------------------------------------------------------
(***************************************************************************)
(* The inductive invariant.                                                *)
(***************************************************************************)

\* The endpoints and their timers.
EndpointsOK ==
    /\ options \in OptionsType
    /\ StatusesOK(status)
    /\ priority \in [Endpoint -> Nat]
    /\ \A e \in Endpoint : priority[e] = 0 <=> status[e] = "none"
    /\ timers \subseteq {Timer(e) : e \in Endpoint} \cup {Late(e) : e \in Endpoint}
    /\ orphans \in Nat
    /\ RecoveryTimed
    /\ \E e \in Endpoint : status[e] # "none"

IInv ==
    /\ EndpointsOK
    /\ ChoiceOK
    /\ Usable(current, status)
    /\ Best(current, status, priority)

LEMMA IInvImplies ==
    IInv => TypeOK /\ RecoveryTimed /\ CurrentUsable /\ CurrentIsTop
BY DEF IInv, EndpointsOK, ChoiceOK, StatusesOK, Usable, Best, TypeOK, CurrentUsable,
   CurrentIsTop, Available, Listed

\* A step that updates the endpoints and then the choice.
LEMMA UpdateIInv ==
    ASSUME IInv, EndpointsOK', UNCHANGED options, maybeUpdateCurrent(status', priority')
    PROVE  /\ IInv'
           /\ \/ current' = current
              \/ current' \in InStatus("available", status')
              \/ status'[current] = "none" /\ InStatus("available", status') = {}
<1>1. ChoiceOK
  BY DEF IInv
<1>2. /\ StatusesOK(status')
      /\ priority' \in [Endpoint -> Nat]
      /\ \E e \in Endpoint : status'[e] # "none"
  BY DEF EndpointsOK
<1>3. /\ ChoiceOK'
      /\ Usable(current', status')
      /\ Best(current', status', priority')
      /\ \/ current' = current
         \/ current' \in InStatus("available", status')
         \/ status'[current] = "none" /\ InStatus("available", status') = {}
  BY <1>1, <1>2, Choice
<1> QED
  BY <1>3 DEF IInv, Usable, Best

LEMMA TimersDiffer == \A e, f : Timer(e) # Late(f) /\ (Timer(e) = Timer(f) => e = f)
BY DEF Timer, Late

\* Lists are nonempty.
LEMMA ListListed ==
    ASSUME NEW list \in Lists
    PROVE  /\ list \in Seq(Endpoint)
           /\ ListedIn(list) \subseteq Endpoint
           /\ list[1] \in ListedIn(list)
<1>1. list \in Seq(Endpoint) /\ list # <<>>
  BY ListsAssumption
<1>2. 1 \in DOMAIN list
  BY <1>1
<1> QED
  BY <1>1, <1>2 DEF ListedIn

LEMMA NewStatusType == NewStatus \in {"recovering", "unavailable"}
BY DEF NewStatus

LEMMA SetEndpointsOK ==
    ASSUME IInv, NEW list \in Lists, SetEndpoints(list)
    PROVE  EndpointsOK'
<1> DEFINE removed == Listed \ ListedIn(list)
           added == ListedIn(list) \ Listed
<1>0. EndpointsOK
  BY DEF IInv
<1>1. /\ status' = [e \in Endpoint |-> IF e \in removed THEN "none"
                                       ELSE IF e \in added THEN NewStatus ELSE status[e]]
      /\ priority' = [e \in Endpoint |-> PriorityIn(e, list)]
      /\ timers' = {t \in timers : t.endpoint \notin removed} \cup NewTimers(added)
      /\ orphans' = orphans + Cardinality({e \in removed : Timer(e) \in timers})
      /\ options' = options
  BY DEF SetEndpoints
<1>2. list \in Seq(Endpoint) /\ ListedIn(list) \subseteq Endpoint /\ list[1] \in ListedIn(list)
  BY ListListed
<1>3. StatusesOK(status')
  BY <1>0, <1>1, NewStatusType DEF EndpointsOK, StatusesOK, Status
<1>4. \A e \in Endpoint : status'[e] # "none" <=> e \in ListedIn(list)
  BY <1>0, <1>1, NewStatusType DEF Listed
<1>5. priority' \in [Endpoint -> Nat]
  BY <1>1, <1>2, PriorityIsPosition
<1>6. \A e \in Endpoint : priority'[e] = 0 <=> status'[e] = "none"
  BY <1>1, <1>2, <1>4, PriorityIsPosition
<1>7. timers' \subseteq {Timer(e) : e \in Endpoint} \cup {Late(e) : e \in Endpoint}
  BY <1>0, <1>1, <1>2 DEF EndpointsOK, NewTimers
<1>8. orphans' \in Nat
  <2>1. IsFiniteSet({e \in removed : Timer(e) \in timers})
    BY EndpointAssumption, FS_Subset DEF Listed
  <2>2. Cardinality({e \in removed : Timer(e) \in timers}) \in Nat
    BY <2>1, FS_CardinalityType
  <2> QED
    BY <1>0, <1>1, <2>2 DEF EndpointsOK
<1>9. RecoveryTimed'
  <2> SUFFICES ASSUME NEW e \in Endpoint
               PROVE  status'[e] = "recovering" <=> Timer(e) \in timers'
    BY DEF RecoveryTimed
  <2>1. Timer(e) \in timers' <=> (Timer(e) \in timers /\ e \notin removed) \/ Timer(e) \in NewTimers(added)
    BY <1>1 DEF Timer
  <2>2. Timer(e) \in NewTimers(added) <=> e \in added /\ options.recoveryTimeout
    BY TimersDiffer DEF NewTimers
  <2>3. Timer(e) \in timers <=> status[e] = "recovering"
    BY <1>0 DEF EndpointsOK, RecoveryTimed
  <2>4. CASE e \in removed
    BY <1>1, <2>1, <2>2, <2>4
  <2>5. CASE e \in added
    <3>1. status[e] = "none"
      BY <2>5 DEF Listed
    <3>2. status'[e] = NewStatus
      BY <1>1, <2>5
    <3>3. NewStatus = "recovering" <=> options.recoveryTimeout
      BY DEF NewStatus
    <3> QED
      BY <2>1, <2>2, <2>3, <2>5, <3>1, <3>2, <3>3
  <2>6. CASE e \notin removed /\ e \notin added
    <3>1. status'[e] = status[e]
      BY <1>1, <2>6
    <3> QED
      BY <2>1, <2>2, <2>3, <2>6, <3>1
  <2> QED
    BY <2>4, <2>5, <2>6
<1>10. \E e \in Endpoint : status'[e] # "none"
  BY <1>2, <1>4
<1> QED
  BY <1>0, <1>1, <1>3, <1>5, <1>6, <1>7, <1>8, <1>9, <1>10 DEF EndpointsOK

LEMMA SetEndpointAvailabilityOK ==
    ASSUME IInv, NEW e \in Endpoint, NEW avail \in BOOLEAN,
           SetEndpointAvailability(e, avail)
    PROVE  EndpointsOK'
<1>0. EndpointsOK /\ StatusesOK(status) /\ RecoveryTimed
  BY DEF IInv, EndpointsOK
<1>1. UNCHANGED <<options, priority, orphans>>
  BY DEF SetEndpointAvailability
<1>2. \/ \E s \in {"available", "unavailable"} : Known(e) /\ setState(e, s)
      \/ /\ Known(e) /\ status' = [status EXCEPT ![e] = "recovering"]
         /\ timers' = timers \cup {Timer(e)}
      \/ UNCHANGED <<status, timers>>
  BY DEF SetEndpointAvailability, setEndpointAvailability
<1>3. ASSUME NEW s \in {"available", "unavailable"}, Known(e), setState(e, s)
      PROVE  EndpointsOK'
  <2>1. /\ status' = [status EXCEPT ![e] = s]
        /\ timers' \subseteq timers \cup {Late(e)}
        /\ \A x \in Endpoint : Timer(x) \in timers' <=> Timer(x) \in timers /\ x # e
    BY <1>3, TimersDiffer DEF setState
  <2>2. StatusesOK(status') /\ status'[e] = s /\ \A x \in Endpoint : x # e => status'[x] = status[x]
    BY <1>0, <2>1 DEF StatusesOK, Status
  <2>3. status[e] # "none"
    BY <1>3 DEF Known, Listed
  <2> QED
    BY <1>0, <1>1, <2>1, <2>2, <2>3 DEF EndpointsOK, RecoveryTimed
<1>4. CASE /\ Known(e) /\ status' = [status EXCEPT ![e] = "recovering"]
           /\ timers' = timers \cup {Timer(e)}
  <2>1. \A x \in Endpoint : Timer(x) \in timers' <=> Timer(x) \in timers \/ x = e
    BY <1>4, TimersDiffer
  <2>2. /\ StatusesOK(status') /\ status'[e] = "recovering"
        /\ \A x \in Endpoint : x # e => status'[x] = status[x]
    BY <1>0, <1>4 DEF StatusesOK, Status
  <2>3. status[e] # "none"
    BY <1>4 DEF Known, Listed
  <2> QED
    BY <1>0, <1>1, <1>4, <2>1, <2>2, <2>3 DEF EndpointsOK, RecoveryTimed
<1>5. CASE UNCHANGED <<status, timers>>
  BY <1>0, <1>1, <1>5 DEF EndpointsOK, RecoveryTimed
<1> QED
  BY <1>2, <1>3, <1>4, <1>5

LEMMA RecoveryTimeoutOK ==
    ASSUME IInv, NEW t \in timers, RecoveryTimeout(t)
    PROVE  EndpointsOK'
<1>0. EndpointsOK /\ StatusesOK(status) /\ RecoveryTimed
  BY DEF IInv, EndpointsOK
<1>1. timers' = timers \ {t} /\ UNCHANGED <<options, priority, orphans>>
  BY DEF RecoveryTimeout
<1>2. CASE Outdated(t) /\ UNCHANGED status
  <2>1. \A x \in Endpoint : Timer(x) # t
    BY <1>2 DEF Outdated, Timer
  <2> QED
    BY <1>0, <1>1, <1>2, <2>1 DEF EndpointsOK, RecoveryTimed
<1>3. CASE ~Outdated(t) /\ status' = [status EXCEPT ![t.endpoint] = "unavailable"]
  <2>1. PICK e \in Endpoint : t = Timer(e)
    BY <1>0, <1>3 DEF EndpointsOK, Outdated, Late
  <2>2. t.endpoint = e
    BY <2>1 DEF Timer
  <2>3. /\ StatusesOK(status') /\ status'[e] = "unavailable"
        /\ \A x \in Endpoint : x # e => status'[x] = status[x]
    BY <1>0, <1>3, <2>2 DEF StatusesOK, Status
  <2>4. status[e] = "recovering"
    BY <1>0, <2>1 DEF RecoveryTimed
  <2>5. \A x \in Endpoint : Timer(x) \in timers' <=> Timer(x) \in timers /\ x # e
    BY <1>1, <2>1, TimersDiffer
  <2> QED
    BY <1>0, <1>1, <2>3, <2>4, <2>5 DEF EndpointsOK, RecoveryTimed
<1> QED
  BY <1>2, <1>3 DEF RecoveryTimeout

LEMMA InitIInv == Init => IInv
<1> SUFFICES ASSUME Init PROVE IInv
  OBVIOUS
<1>1. PICK list \in Lists :
         /\ status = [e \in Endpoint |-> IF e \in ListedIn(list) THEN NewStatus ELSE "none"]
         /\ priority = [e \in Endpoint |-> PriorityIn(e, list)]
         /\ timers = NewTimers(ListedIn(list))
         /\ orphans = IF options.recoveryTimeout
                      THEN Len(list) - Cardinality(ListedIn(list)) ELSE 0
         /\ current = list[1]
  BY DEF Init
<1>2. list \in Seq(Endpoint) /\ ListedIn(list) \subseteq Endpoint /\ list[1] \in ListedIn(list)
  BY ListListed
<1>3. options \in OptionsType /\ future = NoEndpoint /\ switchTimers = 0
  BY OptionsAssumption DEF Init
<1>4. StatusesOK(status) /\ \A e \in Endpoint : status[e] # "available"
  BY <1>1, NewStatusType DEF StatusesOK, Status
<1>5. \A e \in Endpoint : status[e] # "none" <=> e \in ListedIn(list)
  BY <1>1, NewStatusType
<1>6. /\ priority \in [Endpoint -> Nat]
      /\ \A e \in Endpoint : priority[e] = 0 <=> status[e] = "none"
  BY <1>1, <1>2, <1>5, PriorityIsPosition
<1>7. timers \subseteq {Timer(e) : e \in Endpoint} \cup {Late(e) : e \in Endpoint}
  BY <1>1, <1>2 DEF NewTimers
<1>8. RecoveryTimed
  BY <1>1, <1>2, TimersDiffer DEF RecoveryTimed, NewTimers, NewStatus
<1>9. orphans \in Nat
  <2>1. DOMAIN list = 1..Len(list) /\ Len(list) \in Nat
    BY <1>2
  <2>2. list \in Surjection(1..Len(list), ListedIn(list))
    BY <1>2, <2>1 DEF Surjection, ListedIn
  <2>3. IsFiniteSet(ListedIn(list))
    BY <1>2, EndpointAssumption, FS_Subset
  <2>4. Cardinality(ListedIn(list)) <= Len(list)
    BY <2>1, <2>2, FS_SurjCardinalityBound DEF ExistsSurjection
  <2>5. Cardinality(ListedIn(list)) \in Nat
    BY <2>3, FS_CardinalityType
  <2> QED
    BY <1>1, <2>1, <2>4, <2>5
<1>10. InStatus("available", status) = {}
  BY <1>4 DEF InStatus
<1>11. ChoiceOK
  BY <1>1, <1>2, <1>3 DEF ChoiceOK
<1>12. status[current] # "none" /\ \E e \in Endpoint : status[e] # "none"
  BY <1>1, <1>2, <1>5
<1> QED
  BY <1>3, <1>4, <1>6, <1>7, <1>8, <1>9, <1>10, <1>11, <1>12
  DEF IInv, EndpointsOK, Usable, Best

\* How a step may change the current endpoint.
Moves ==
    \/ current' = current
    \/ current' \in InStatus("available", status')
    \/ status'[current] = "none" /\ InStatus("available", status') = {}

LEMMA NextIInv == IInv /\ [Next]_vars => IInv' /\ Moves
<1> SUFFICES ASSUME IInv, [Next]_vars PROVE IInv' /\ Moves
  OBVIOUS
<1>0. EndpointsOK /\ ChoiceOK
  BY DEF IInv
<1>1. ASSUME NEW list \in Lists, SetEndpoints(list) PROVE IInv' /\ Moves
  <2>1. maybeUpdateCurrent(status', priority') /\ UNCHANGED options
    BY <1>1 DEF SetEndpoints
  <2> QED
    BY <1>1, <2>1, SetEndpointsOK, UpdateIInv DEF Moves
<1>2. ASSUME NEW e \in Endpoint, NEW avail \in BOOLEAN, SetEndpointAvailability(e, avail)
      PROVE  IInv' /\ Moves
  <2>1. maybeUpdateCurrent(status', priority') /\ UNCHANGED options
    BY <1>2 DEF SetEndpointAvailability
  <2> QED
    BY <1>2, <2>1, SetEndpointAvailabilityOK, UpdateIInv DEF Moves
<1>3. ASSUME NEW t \in timers, RecoveryTimeout(t) PROVE IInv' /\ Moves
  <2>1. EndpointsOK' /\ UNCHANGED <<options, priority>>
    BY <1>3, RecoveryTimeoutOK DEF RecoveryTimeout
  <2>2. CASE maybeUpdateCurrent(status', priority)
    BY <2>1, <2>2, UpdateIInv DEF Moves
  <2>3. CASE UNCHANGED <<status, choice>>
    BY <2>1, <2>3 DEF IInv, choice, ChoiceOK, Usable, Best, Moves
  <2> QED
    BY <1>3, <2>2, <2>3 DEF RecoveryTimeout
<1>4. CASE OrphanTimeout
  <2>1. UNCHANGED <<options, status, priority, timers>> /\ maybeUpdateCurrent(status', priority')
    BY <1>4 DEF OrphanTimeout
  <2>2. orphans' \in Nat
    BY <1>0, <1>4 DEF OrphanTimeout, EndpointsOK
  <2>3. EndpointsOK'
    BY <1>0, <2>1, <2>2 DEF EndpointsOK, StatusesOK, RecoveryTimed
  <2> QED
    BY <2>1, <2>3, UpdateIInv DEF Moves
<1>5. CASE SwitchTimeout
  <2>1. UNCHANGED <<options, status, priority, timers, orphans, future>>
    BY <1>5 DEF SwitchTimeout
  <2>2. EndpointsOK'
    BY <1>0, <2>1 DEF EndpointsOK, StatusesOK, RecoveryTimed
  <2>3. switchTimers' \in Nat /\ (switchTimers' > 0 => options'.switchingDelay)
    BY <1>0, <1>5, <2>1 DEF SwitchTimeout, ChoiceOK
  <2>4. current' = IF future \in Available THEN future ELSE current
    BY <1>5 DEF SwitchTimeout, SwitchTarget
  <2>5. CASE future \notin Available
    BY <1>0, <2>1, <2>2, <2>3, <2>4, <2>5 DEF IInv, ChoiceOK, Usable, Best, Moves
  <2>6. CASE future \in Available
    <3>1. current' \in Endpoint /\ status'[current'] = "available"
      BY <2>1, <2>4, <2>6 DEF Available, InStatus
    <3>2. options.switchingDelay
      BY <1>0, <1>5 DEF SwitchTimeout, ChoiceOK
    <3> QED
      BY <1>0, <2>1, <2>2, <2>3, <2>4, <2>6, <3>1, <3>2
      DEF IInv, ChoiceOK, Usable, Best, Moves, Available
  <2> QED
    BY <2>5, <2>6
<1>6. CASE UNCHANGED vars
  BY <1>0, <1>6 DEF vars, IInv, EndpointsOK, StatusesOK, RecoveryTimed, ChoiceOK, Usable, Best, Moves
<1> QED
  BY <1>1, <1>2, <1>3, <1>4, <1>5, <1>6 DEF Next

THEOREM Invariance == Spec => []IInv
BY InitIInv, NextIInv, PTL DEF Spec

\* Every variable always has its type, and endpoints have a priority as long as
\* they are listed.
THEOREM TypeCorrect == Spec => []TypeOK
BY IInvImplies, Invariance, PTL

\* No endpoint recovers without a timer that ends it, and no timer that could
\* still act belongs to another endpoint.
THEOREM RecoveryIsTimed == Spec => []RecoveryTimed
BY IInvImplies, Invariance, PTL

\* The current endpoint is always listed, and never a dead one while another is
\* available.
THEOREM CurrentIsUsable == Spec => []CurrentUsable
BY IInvImplies, Invariance, PTL

\* Without a switching delay the current endpoint is always the right one.
THEOREM CurrentIsBest == Spec => []CurrentIsTop
BY IInvImplies, Invariance, PTL

\* With nothing available, MultiEndpoint sticks to the current endpoint.
THEOREM CurrentSticks == Spec => SticksToCurrent
<1> DEFINE A == Available' = {} => current' = current \/ current \notin Listed'
<1>1. IInv /\ [Next]_vars => [A]_vars
  <2> SUFFICES ASSUME IInv, [Next]_vars, Available' = {}
               PROVE  current' = current \/ current \notin Listed'
    OBVIOUS
  <2>1. Moves
    BY NextIInv
  <2> QED
    BY <2>1 DEF Moves, Available, Listed
<1> QED
  BY <1>1, Invariance, PTL DEF Spec, SticksToCurrent

\* A recovery timer only ever acts on an endpoint that is recovering.
THEOREM TimersHarmless == Spec => TimersKeepAvailable
<1> DEFINE A == (\E t \in timers : RecoveryTimeout(t)) => Available' = Available
<1>1. IInv /\ [Next]_vars => [A]_vars
  <2> SUFFICES ASSUME IInv, NEW t \in timers, RecoveryTimeout(t)
               PROVE  Available' = Available
    OBVIOUS
  <2>0. EndpointsOK /\ StatusesOK(status) /\ RecoveryTimed
    BY DEF IInv, EndpointsOK
  <2>1. CASE Outdated(t) /\ UNCHANGED status
    BY <2>1 DEF Available, InStatus
  <2>2. CASE ~Outdated(t) /\ status' = [status EXCEPT ![t.endpoint] = "unavailable"]
    <3>1. PICK e \in Endpoint : t = Timer(e)
      BY <2>0, <2>2 DEF EndpointsOK, Outdated, Late
    <3>2. t.endpoint = e
      BY <3>1 DEF Timer
    <3>3. status[e] = "recovering"
      BY <2>0, <3>1 DEF RecoveryTimed
    <3> QED
      BY <2>0, <2>2, <3>2, <3>3 DEF StatusesOK, Available, InStatus
  <2> QED
    BY <2>1, <2>2 DEF RecoveryTimeout
<1> QED
  BY <1>1, Invariance, PTL DEF Spec, TimersKeepAvailable

-----------------------------------------------------------------------------
(***************************************************************************)
(* MultiEndpoint implements Failover.                                      *)
(***************************************************************************)

LEMMA FailoverState == IInv => F!FTypeOK
BY DEF IInv, EndpointsOK, ChoiceOK, Usable, F!FTypeOK, Listed, Available, Recovering, InStatus

LEMMA FailoverInit == Init => F!FInit
<1> SUFFICES ASSUME Init PROVE F!FInit
  OBVIOUS
<1>1. F!FTypeOK
  BY InitIInv, FailoverState
<1>2. \A e \in Endpoint : status[e] # "available"
  BY NewStatusType DEF Init
<1> QED
  BY <1>1, <1>2 DEF F!FInit, Available, InStatus

LEMMA FailoverStep == IInv /\ [Next]_vars => [F!FNext]_(F!fvars)
<1> SUFFICES ASSUME IInv, [Next]_vars PROVE F!FNext
  OBVIOUS
<1>1. IInv' /\ Moves
  BY NextIInv
<1>2. F!FTypeOK'
  BY <1>1, FailoverState, PTL
<1>3. current' \in Endpoint /\ Usable(current, status)'
  BY <1>1 DEF IInv, ChoiceOK
<1>4. F!MayServe(current)'
  BY <1>1, <1>3 DEF IInv, EndpointsOK, StatusesOK, Status, Usable, F!MayServe, Listed,
     Available, Recovering, InStatus
<1> QED
  BY <1>1, <1>2, <1>3, <1>4 DEF Moves, F!FNext, Available, Listed

\* A MultiEndpoint keeps the promise of Failover, whatever its delays.
THEOREM FailoverImplemented == Spec => ImplementsFailover
BY FailoverInit, FailoverStep, Invariance, PTL DEF Spec, ImplementsFailover, F!FSpec
=============================================================================
