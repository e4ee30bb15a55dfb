------------------------ MODULE GcpMultiEndpoint_proofs ------------------------
(***************************************************************************)
(* Proofs about GcpMultiEndpoint, for every set of endpoints, names,       *)
(* connections and options.                                                *)
(***************************************************************************)
EXTENDS GcpMultiEndpoint, TLAPS

\* What is updated and how far the update has come.
Progress ==
    /\ life \in {"failed", "closed"} => mu = "free"
    /\ mu # "free" =>
          /\ Readers = {}
          /\ opts \in Options
          /\ opts.default \in Named(opts)
    /\ mu = "adding" =>
          /\ ValidPools(opts) \subseteq todo.add \cup Pooled
          /\ todo.add \cap Pooled = {}
          /\ todo.set \subseteq Named(opts)
          /\ todo.tell.left = {}
          /\ \A n \in Named(opts) : n \in todo.set
                \/ (n \in MEs /\ mes[n].listed = opts.mes[n])
    /\ mu = "removing" =>
          /\ defaultName = opts.default
          /\ ValidPools(opts) \subseteq Pooled
          /\ todo.remove \cap (ValidPools(opts) \cup todo.status) = {}
          /\ \A n \in Named(opts) : n \in MEs /\ mes[n].listed = opts.mes[n]
          /\ todo.tell.left # {} =>
                Obsolete = {} /\ todo.remove = {} /\ todo.tell.left \subseteq MEs

\* Every MultiEndpoint was given endpoints by some options, and all have pools.
Served ==
    /\ \A n \in MEs :
          /\ mes[n].listed \subseteq Pooled
          /\ mes[n].current \in mes[n].listed
          /\ \E o \in Options : n \in Named(o) /\ o.mes[n] # {}
    /\ \A c \in Conn : /\ conns[c].left \subseteq MEs
                       /\ conns[c].left # {} => conns[c].monitor = "notifying"
    /\ life \in {"built", "closed"} => defaultName \in MEs

\* A call that no update overlaps finds what it was routed to.
CallsFine ==
    /\ call.pc # "idle" => life \in {"built", "closed"}
    /\ (call.pc # "idle" /\ ~call.overlapped) => mu = "free"
    /\ ~call.overlapped =>
          /\ call.pc # "panicked"
          /\ call.pc = "me" => call.name \in MEs
          /\ call.pc = "pool" => call.endpoint \in Pooled

IInv == TypeOK /\ Progress /\ Served /\ ConnsOwned /\ CallsFine

-----------------------------------------------------------------------------
(***************************************************************************)
(* The MultiEndpoints.                                                     *)
(***************************************************************************)

MesType == mes \in [Name -> ME \cup {None}]

\* A step that changes neither which MultiEndpoints there are nor their lists.
MEsKept ==
    /\ MesType'
    /\ MEs' = MEs
    /\ \A n \in MEs : mes'[n].listed = mes[n].listed /\ mes'[n].current \in mes[n].listed

LEMMA BecomesME ==
    ASSUME MesType, NEW n \in Name, NEW L \in SUBSET Endpoint, NEW A \in SUBSET Endpoint,
           NEW RR \in SUBSET SUBSET Endpoint, Becomes(n, L, A, RR)
    PROVE  /\ MesType'
           /\ n \in MEs'
           /\ mes'[n].listed = L /\ mes'[n].current \in L
           /\ \A m \in Name \ {n} : mes'[m] = mes[m]
<1>1. PICK R \in RR, cur \in L :
        mes' = [mes EXCEPT ![n] = [listed |-> L, available |-> A,
                                   recovering |-> R, current |-> cur]]
  BY DEF Becomes
<1>2. [listed |-> L, available |-> A, recovering |-> R, current |-> cur] \in ME
  BY DEF ME
<1>3. \A m \in ME : m # None
  BY NoneAssumption
<1> QED
  BY <1>1, <1>2, <1>3 DEF MesType, MEs

LEMMA BecomesKept ==
    ASSUME MesType, Served, NEW n \in MEs, NEW A \in SUBSET Endpoint,
           NEW RR \in SUBSET SUBSET Endpoint, Becomes(n, mes[n].listed, A, RR)
    PROVE  MEsKept
<1>1. n \in Name /\ mes[n] \in ME /\ mes[n].listed \in SUBSET Endpoint
  BY DEF MEs, MesType, ME
<1>2. /\ MesType'
      /\ n \in MEs'
      /\ mes'[n].listed = mes[n].listed /\ mes'[n].current \in mes[n].listed
      /\ \A m \in Name \ {n} : mes'[m] = mes[m]
  BY <1>1, BecomesME
<1>3. MEs' = MEs
  BY <1>2 DEF MEs
<1> QED
  BY <1>2, <1>3 DEF MEsKept, Served, MEs

LEMMA AvailabilityKept ==
    ASSUME MesType, Served, NEW n \in MEs, NEW e, NEW avail \in BOOLEAN,
           SetEndpointAvailability(n, e, avail)
    PROVE  MEsKept
<1>1. /\ mes[n].listed \in SUBSET Endpoint /\ mes[n].available \in SUBSET Endpoint
      /\ mes[n].recovering \in SUBSET Endpoint
  BY DEF MEs, MesType, ME
<1>2. CASE e \in mes[n].listed /\ avail
  <2>1. Becomes(n, mes[n].listed, mes[n].available \cup {e}, {mes[n].recovering \ {e}})
    BY <1>2 DEF SetEndpointAvailability
  <2>2. /\ mes[n].available \cup {e} \in SUBSET Endpoint
        /\ {mes[n].recovering \ {e}} \in SUBSET SUBSET Endpoint
    BY <1>1, <1>2
  <2> QED
    BY <2>1, <2>2, BecomesKept
<1>3. CASE e \in mes[n].listed /\ ~avail
  <2> DEFINE RR == {mes[n].recovering} \cup
                   (IF e \in mes[n].available THEN {mes[n].recovering \cup {e}} ELSE {})
  <2>1. RR \in SUBSET SUBSET Endpoint
    BY <1>1, <1>3
  <2>2. Becomes(n, mes[n].listed, mes[n].available \ {e}, RR)
    BY <1>3 DEF SetEndpointAvailability
  <2> HIDE DEF RR
  <2> QED
    BY <1>1, <2>1, <2>2, BecomesKept
<1>4. CASE e \notin mes[n].listed
  <2>1. Becomes(n, mes[n].listed, mes[n].available, {mes[n].recovering})
    BY <1>4 DEF SetEndpointAvailability
  <2>2. {mes[n].recovering} \in SUBSET SUBSET Endpoint
    BY <1>1
  <2> QED
    BY <1>1, <2>1, <2>2, BecomesKept
<1> QED
  BY <1>2, <1>3, <1>4

LEMMA TimeoutKept ==
    ASSUME MesType, Served, NEW n \in Name, METimeout(n)
    PROVE  MEsKept
<1>1. /\ n \in MEs /\ mes[n].available \in SUBSET Endpoint
      /\ SUBSET mes[n].recovering \in SUBSET SUBSET Endpoint
  BY DEF MEs, MesType, ME, METimeout
<1> QED
  BY <1>1, BecomesKept DEF METimeout

-----------------------------------------------------------------------------
(***************************************************************************)
(* The invariant holds initially, and every step preserves it.             *)
(***************************************************************************)

LEMMA InitIInv == Init => IInv
<1> SUFFICES ASSUME Init PROVE IInv
  OBVIOUS
<1> USE NoneAssumption DEF Init, NothingToDo, NobodyToTell, NoMonitoredConn, NoCall
<1>1. TypeOK
  <2>1. todo \in TodoType /\ todo.remove \cup todo.status \subseteq Pooled
    BY DEF TodoType, Pooled
  <2>2. conns \in [Conn -> ConnType]
    BY DEF ConnType
  <2> QED
    BY <2>1, <2>2 DEF TypeOK
<1>2. Progress /\ Served /\ CallsFine
  BY DEF Progress, Served, CallsFine, MEs
<1>3. ConnsOwned
  BY DEF ConnsOwned, Pooled
<1> QED
  BY <1>1, <1>2, <1>3 DEF IInv

\* A step that only changes what is available, or only the MultiEndpoints' choices.
LEMMA KeptIInv ==
    ASSUME IInv, MEsKept, UNCHANGED <<updateVars, defaultName, pools, conns, call>>
    PROVE  IInv'
<1> USE DEF IInv, updateVars
<1>0. Pooled' = Pooled /\ Readers' = Readers /\ MEs' = MEs /\ (Obsolete = Obsolete')
  BY DEF Pooled, Readers, MEsKept, Obsolete
<1>1. TypeOK'
  BY <1>0 DEF TypeOK, MEsKept, MesType
<1>2. Progress'
  BY <1>0 DEF Progress, MEsKept
<1>3. Served'
  BY <1>0 DEF Served, MEsKept
<1>4. ConnsOwned'
  BY <1>0 DEF ConnsOwned
<1>5. CallsFine'
  BY <1>0 DEF CallsFine
<1> QED
  BY <1>1, <1>2, <1>3, <1>4, <1>5

LEMMA METimeoutIInv == ASSUME IInv, NEW n \in Name, METimeout(n) PROVE IInv'
<1>1. MEsKept
  BY TimeoutKept DEF IInv, TypeOK, MesType
<1> QED
  BY <1>1, KeptIInv DEF METimeout

LEMMA SameKept == ASSUME IInv, UNCHANGED mes PROVE MEsKept
BY DEF IInv, TypeOK, Served, MEsKept, MesType, MEs

(***************************************************************************)
(* The monitors.                                                           *)
(***************************************************************************)

\* What a step of the monitor, or of the connection, leaves of a monitoredConn.
Moves(c, new) ==
    /\ new \in ConnType
    /\ new.endpoint = conns[c].endpoint /\ new.cancelled = conns[c].cancelled
    /\ new.state = conns[c].state \/ {new.state, conns[c].state} \subseteq {"Idle", "Ready"}
    /\ new.monitor \notin {"none", "done"} \/ new.monitor = conns[c].monitor
    /\ new.left \subseteq MEs
    /\ new.left # {} => new.monitor = "notifying"
    /\ new.monitor = "notifying" => mu = "free"

LEMMA MovesIInv ==
    ASSUME IInv, MEsKept, NEW c \in Conn, conns[c] # NoMonitoredConn, NEW new, Moves(c, new),
           conns' = [conns EXCEPT ![c] = new],
           UNCHANGED <<updateVars, defaultName, pools, call>>
    PROVE  IInv'
<1> USE DEF IInv, updateVars
<1>0. /\ Pooled' = Pooled /\ MEs' = MEs /\ (Obsolete = Obsolete')
      /\ conns \in [Conn -> ConnType] /\ conns' \in [Conn -> ConnType]
      /\ conns'[c] = new /\ \A d \in Conn \ {c} : conns'[d] = conns[d]
  BY DEF Pooled, MEsKept, Obsolete, TypeOK, Moves
<1>1. TypeOK'
  BY <1>0 DEF TypeOK, MEsKept, MesType
<1>2. Progress'
  <2>1. mu # "free" => Readers' = {}
    BY <1>0 DEF Progress, Readers, Moves
  <2> QED
    BY <1>0, <2>1 DEF Progress, MEsKept
<1>3. Served'
  BY <1>0 DEF Served, MEsKept, Moves
<1>4. ConnsOwned'
  <2>1. pools \in [Endpoint -> Conn \cup {None}] /\ \A e \in Pooled : pools[e] \in Conn
    BY DEF TypeOK, Pooled
  <2>2. \A d \in Conn :
          /\ conns'[d].endpoint = conns[d].endpoint /\ conns'[d].cancelled = conns[d].cancelled
          /\ conns'[d].state = "Shutdown" <=> conns[d].state = "Shutdown"
          /\ conns[d].monitor \notin {"none", "done"} => conns'[d].monitor \notin {"none", "done"}
          /\ conns'[d] # NoMonitoredConn => conns[d] # NoMonitoredConn
    BY <1>0 DEF Moves
  <2> QED
    BY <1>0, <2>1, <2>2 DEF ConnsOwned
<1>5. CallsFine'
  BY <1>0 DEF CallsFine
<1> QED
  BY <1>1, <1>2, <1>3, <1>4, <1>5

\* A monitor that was stopped ends.
LEMMA StopIInv ==
    ASSUME IInv, NEW c \in Conn, conns[c].cancelled, conns[c].monitor = "wait",
           conns' = [conns EXCEPT ![c] = IF \E e \in Endpoint : pools[e] = c
                                         THEN [conns[c] EXCEPT !.monitor = "done"]
                                         ELSE NoMonitoredConn],
           UNCHANGED mes, UNCHANGED <<updateVars, defaultName, pools, call>>
    PROVE  IInv'
<1> USE DEF IInv, updateVars
<1>0. /\ Pooled' = Pooled /\ MEs' = MEs /\ (Obsolete = Obsolete')
      /\ conns \in [Conn -> ConnType] /\ pools \in [Endpoint -> Conn \cup {None}]
  BY DEF Pooled, MEs, Obsolete, TypeOK
<1> DEFINE new == IF \E e \in Endpoint : pools[e] = c
                  THEN [conns[c] EXCEPT !.monitor = "done"] ELSE NoMonitoredConn
<1>1. /\ new \in ConnType /\ new.left = {} /\ new.monitor \in {"none", "done"}
  BY <1>0 DEF ConnType, NoMonitoredConn, Served
<1>2. /\ (\E e \in Endpoint : pools[e] = c) => new.endpoint = conns[c].endpoint
                                               /\ new.cancelled /\ new.state = conns[c].state
      /\ ~(\E e \in Endpoint : pools[e] = c) => new = NoMonitoredConn
  BY <1>0 DEF ConnType
<1>3. conns' = [conns EXCEPT ![c] = new]
  OBVIOUS
<1> HIDE DEF new
<1>4. conns'[c] = new /\ \A d \in Conn \ {c} : conns'[d] = conns[d]
  BY <1>0, <1>3
<1>5. TypeOK'
  BY <1>0, <1>1, <1>3 DEF TypeOK
<1>6. Progress' /\ Served' /\ CallsFine'
  <2>1. mu # "free" => Readers' = {}
    BY <1>1, <1>4 DEF Progress, Readers
  <2> QED
    BY <1>0, <1>1, <1>4, <2>1 DEF Progress, Served, CallsFine
<1>7. ConnsOwned'
  <2>1. \A e \in Pooled : pools[e] \in Conn
    BY <1>0 DEF Pooled
  <2>2. ASSUME NEW e \in Pooled, pools[e] = c PROVE life = "closed" /\ conns[c].endpoint = e
    BY <2>2 DEF ConnsOwned
  <2>3. ASSUME NEW d \in Conn, d # c PROVE conns'[d] = conns[d]
    BY <1>4, <2>3
  <2>4. ASSUME NEW e \in Pooled
        PROVE  LET d == conns'[pools[e]]
               IN  /\ d.endpoint = e
                   /\ life # "closed" => d.state # "Shutdown" /\ ~d.cancelled
                                           /\ d.monitor \notin {"none", "done"}
    <3>1. CASE pools[e] = c
      BY <1>2, <1>4, <2>2, <3>1 DEF Pooled
    <3>2. CASE pools[e] # c
      BY <2>1, <2>3, <3>2 DEF ConnsOwned
    <3> QED
      BY <3>1, <3>2
  <2>5. ASSUME NEW d \in Conn, conns'[d] # NoMonitoredConn
        PROVE  \/ (conns'[d].endpoint \in Pooled /\ pools[conns'[d].endpoint] = d /\ life # "closed")
               \/ conns'[d].state = "Shutdown" /\ conns'[d].cancelled
    <3>1. CASE d = c
      <4>1. PICK e \in Endpoint : pools[e] = c
        BY <1>2, <1>4, <2>5, <3>1
      <4>2. e \in Pooled
        BY <4>1, NoneAssumption DEF Pooled
      <4>3. life = "closed" /\ conns[c] # NoMonitoredConn
        BY <2>2, <4>1, <4>2 DEF NoMonitoredConn
      <4> QED
        BY <1>2, <1>4, <3>1, <4>1, <4>3 DEF ConnsOwned
    <3>2. CASE d # c
      BY <2>3, <2>5, <3>2 DEF ConnsOwned
    <3> QED
      BY <3>1, <3>2
  <2> QED
    BY <1>0, <2>4, <2>5 DEF ConnsOwned
<1> QED
  BY <1>5, <1>6, <1>7

LEMMA MonitorIInv ==
    ASSUME IInv, NEW c \in Conn, Monitor(c) \/ ConnStateChange(c)
    PROVE  IInv'
<1> USE DEF IInv, updateVars, Advance
<1>0. /\ conns \in [Conn -> ConnType] /\ conns[c] \in ConnType
      /\ conns[c].left \subseteq MEs /\ (conns[c].left # {} => conns[c].monitor = "notifying")
      /\ (conns[c].monitor = "notifying" => mu = "free")
  BY DEF TypeOK, Served, Progress, Readers
<1>a. NoMonitoredConn.state = "none" /\ NoMonitoredConn.monitor = "none"
  BY DEF NoMonitoredConn
<1>1. CASE ConnStateChange(c)
  <2> DEFINE new == [conns[c] EXCEPT !.state = IF @ = "Idle" THEN "Ready" ELSE "Idle"]
  <2>1. Moves(c, new)
    BY <1>0, <1>1 DEF Moves, ConnType, ConnStateChange
  <2>2. conns' = [conns EXCEPT ![c] = new] /\ conns[c] # NoMonitoredConn
    BY <1>0, <1>1, <1>a DEF ConnStateChange
  <2> HIDE DEF new
  <2> QED
    BY <1>1, <2>1, <2>2, SameKept, MovesIInv DEF ConnStateChange
<1>2. CASE GetState(c)
  <2> DEFINE new == [conns[c] EXCEPT !.monitor = "notify", !.seen = conns[c].state]
  <2>1. Moves(c, new)
    BY <1>0, <1>2 DEF Moves, ConnType, GetState
  <2>2. conns' = [conns EXCEPT ![c] = new] /\ conns[c] # NoMonitoredConn
    BY <1>0, <1>2, <1>a DEF GetState
  <2> HIDE DEF new
  <2> QED
    BY <1>2, <2>1, <2>2, SameKept, MovesIInv DEF GetState
<1>3. CASE StartNotify(c)
  <2> DEFINE new == [conns[c] EXCEPT !.monitor = "notifying", !.left = MEs]
  <2>1. Moves(c, new)
    BY <1>0, <1>3 DEF Moves, ConnType, StartNotify, MEs
  <2>2. conns' = [conns EXCEPT ![c] = new] /\ conns[c] # NoMonitoredConn
    BY <1>0, <1>3, <1>a DEF StartNotify
  <2> HIDE DEF new
  <2> QED
    BY <1>3, <2>1, <2>2, SameKept, MovesIInv DEF StartNotify
<1>4. ASSUME NEW n \in Name, Notify(c, n) PROVE IInv'
  <2> DEFINE new == [conns[c] EXCEPT !.left = @ \ {n}]
  <2>1. Moves(c, new)
    BY <1>0, <1>4 DEF Moves, ConnType, Notify
  <2>2. conns' = [conns EXCEPT ![c] = new] /\ conns[c] # NoMonitoredConn
    BY <1>0, <1>4, <1>a DEF Notify
  <2> HIDE DEF new
  <2>3. n \in MEs /\ SetEndpointAvailability(n, conns[c].endpoint, conns[c].seen = "Ready")
    BY <1>0, <1>4 DEF Notify
  <2>4. MEsKept
    BY <2>3, AvailabilityKept DEF TypeOK, MesType
  <2> QED
    BY <1>4, <2>1, <2>2, <2>4, MovesIInv DEF Notify
<1>5. CASE FinishNotify(c)
  <2> DEFINE new == [conns[c] EXCEPT !.monitor = "wait"]
  <2>1. Moves(c, new)
    BY <1>0, <1>5 DEF Moves, ConnType, FinishNotify
  <2>2. conns' = [conns EXCEPT ![c] = new] /\ conns[c] # NoMonitoredConn
    BY <1>0, <1>5, <1>a DEF FinishNotify
  <2> HIDE DEF new
  <2> QED
    BY <1>5, <2>1, <2>2, SameKept, MovesIInv DEF FinishNotify
<1>6. CASE WaitForStateChange(c) /\ conns'[c].monitor = "get"
  <2> DEFINE new == [conns[c] EXCEPT !.monitor = "get"]
  <2>1. conns[c].monitor = "wait"
    BY <1>6 DEF WaitForStateChange
  <2>2. Moves(c, new)
    BY <1>0, <2>1 DEF Moves, ConnType
  <2>3. conns' = [conns EXCEPT ![c] = new] /\ conns[c] # NoMonitoredConn
    BY <1>0, <1>6, <1>a DEF WaitForStateChange
  <2> HIDE DEF new
  <2> QED
    BY <1>6, <2>2, <2>3, SameKept, MovesIInv DEF WaitForStateChange
<1>7. CASE WaitForStateChange(c) /\ conns'[c].monitor # "get"
  <2>1. /\ conns[c].cancelled /\ conns[c].monitor = "wait" /\ UNCHANGED mes
        /\ conns' = [conns EXCEPT ![c] = IF \E e \in Endpoint : pools[e] = c
                                         THEN [conns[c] EXCEPT !.monitor = "done"]
                                         ELSE NoMonitoredConn]
        /\ UNCHANGED <<updateVars, defaultName, pools, call>>
    <3>1. conns' # [conns EXCEPT ![c] = [conns[c] EXCEPT !.monitor = "get"]]
      BY <1>0, <1>7 DEF ConnType
    <3> QED
      BY <1>7, <3>1 DEF WaitForStateChange, Stops
  <2> QED
    BY <2>1, StopIInv
<1> QED
  BY <1>1, <1>2, <1>3, <1>4, <1>5, <1>6, <1>7 DEF Monitor

(***************************************************************************)
(* The calls.                                                              *)
(***************************************************************************)

LEMMA PickConnIInv == ASSUME IInv, PickConn PROVE IInv'
<1> USE DEF IInv, updateVars, StepCall
<1>0. /\ Pooled' = Pooled /\ MEs' = MEs /\ (Obsolete = Obsolete') /\ Readers' = Readers
      /\ UNCHANGED <<updateVars, mes, defaultName, pools, conns>>
  BY DEF Pooled, MEs, Obsolete, Readers, PickConn, StartCall, ReadDefaultName, ReadDefaultME,
         FindPool
<1> DEFINE CallType == [pc : {"idle", "default", "me", "pool", "panicked"},
                        name : Name \cup {None}, endpoint : Endpoint \cup {None},
                        overlapped : BOOLEAN]
<1>1. call \in CallType /\ \A n \in MEs : n \in Name /\ mes[n].current \in Endpoint
                                            /\ mes[n].current \in Pooled
  BY DEF TypeOK, MEs, ME, Served
<1>2. call' \in CallType /\ CallsFine'
  <2>1. ASSUME NEW n \in Name \cup {None}, StartCall(n) PROVE call' \in CallType /\ CallsFine'
    BY <1>0, <1>1, <2>1 DEF StartCall, Routed, CallsFine
  <2>2. CASE ReadDefaultName
    <3>1. defaultName \in Name
      BY DEF TypeOK
    <3> QED
      BY <1>0, <1>1, <2>2, <3>1 DEF ReadDefaultName, CallsFine, Served
  <2>3. CASE ReadDefaultME
    BY <1>0, <1>1, <2>3 DEF ReadDefaultME, Routed, CallsFine, Served
  <2>4. CASE FindPool
    BY <1>0, <1>1, <2>4 DEF FindPool, NoCall, CallsFine
  <2> QED
    BY <2>1, <2>2, <2>3, <2>4 DEF PickConn
<1>3. TypeOK'
  BY <1>0, <1>2 DEF TypeOK
<1>4. Progress' /\ Served' /\ ConnsOwned'
  BY <1>0 DEF Progress, Served, ConnsOwned
<1> QED
  BY <1>2, <1>3, <1>4

(***************************************************************************)
(* The update, one step after the other.                                   *)
(***************************************************************************)

LEMMA StartUpdateIInv == ASSUME IInv, NEW o \in Options, StartUpdate(o) PROVE IInv'
<1> USE DEF IInv, StartUpdate, updateVars
<1>0. Pooled' = Pooled /\ MEs' = MEs /\ Readers' = Readers
  BY DEF Pooled, MEs, Readers
<1>1. o \in OptionsType /\ Named(o) \subseteq Name /\ ValidPools(o) \subseteq Endpoint /\ o # None
  BY OptionsAssumption, NoneAssumption DEF OptionsType, Named, ValidPools
<1>2. TypeOK'
  <2>1. todo' \in TodoType /\ todo'.remove = {} /\ todo'.status = {}
    BY <1>1 DEF TodoType, NothingToDo, NobodyToTell
  <2>2. call' \in [pc : {"idle", "default", "me", "panicked", "pool"}, name : Name \cup {None},
                   endpoint : Endpoint \cup {None}, overlapped : BOOLEAN]
    BY DEF TypeOK
  <2> QED
    BY <1>1, <2>1, <2>2 DEF TypeOK
<1>3. Progress'
  BY <1>0, <1>1 DEF Progress, NothingToDo, NobodyToTell, Readers
<1>4. Served' /\ ConnsOwned'
  BY <1>0 DEF Served, ConnsOwned
<1>5. CallsFine'
  BY <1>0 DEF CallsFine, TypeOK
<1> QED
  BY <1>2, <1>3, <1>4, <1>5

LEMMA AbandonIInv ==
    ASSUME IInv, mu = "adding", Abandon, UNCHANGED <<mes, defaultName, pools, conns, call>>
    PROVE  IInv'
<1> USE DEF IInv, Abandon
<1>0. Pooled' = Pooled /\ MEs' = MEs /\ Readers' = Readers
  BY DEF Pooled, MEs, Readers
<1>1. todo' \in TodoType /\ todo'.remove = {} /\ todo'.status = {}
  BY DEF TodoType, NothingToDo, NobodyToTell
<1>2. TypeOK'
  BY <1>0, <1>1 DEF TypeOK
<1>3. Progress' /\ Served' /\ ConnsOwned' /\ CallsFine'
  BY <1>0 DEF Progress, Served, ConnsOwned, CallsFine
<1> QED
  BY <1>2, <1>3

LEMMA AddPoolIInv == ASSUME IInv, NEW e \in Endpoint, AddPool(e) PROVE IInv'
<1> USE DEF IInv
<1>1. CASE Abandon /\ UNCHANGED <<pools, conns>>
  BY <1>1, AbandonIInv DEF AddPool
<1>2. ASSUME NEW c \in Unused,
             pools' = [pools EXCEPT ![e] = c],
             conns' = [conns EXCEPT ![c] = NewMonitoredConn(e)],
             todo' = [todo EXCEPT !.add = @ \ {e}],
             UNCHANGED <<life, mu, opts>>
      PROVE  IInv'
  <2> DEFINE new == NewMonitoredConn(e)
  <2>1. new \in ConnType /\ conns' = [conns EXCEPT ![c] = new] /\ new.left = {}
        /\ new.monitor = "get" /\ new.endpoint = e /\ new.state = "Idle" /\ ~new.cancelled
    BY <1>2 DEF ConnType, NewMonitoredConn
  <2> HIDE DEF new
  <2>2. /\ c \in Conn /\ conns[c] = NoMonitoredConn
        /\ conns[c].state = "none" /\ conns[c].endpoint = None
        /\ conns \in [Conn -> ConnType] /\ pools \in [Endpoint -> Conn \cup {None}]
        /\ c # None /\ mu = "adding" /\ e \in todo.add
        /\ UNCHANGED <<mes, defaultName, call>>
    BY NoneAssumption, <1>2 DEF Unused, NoMonitoredConn, TypeOK, AddPool
  <2>3. /\ conns'[c] = new /\ \A d \in Conn \ {c} : conns'[d] = conns[d]
        /\ pools'[e] = c /\ \A f \in Endpoint \ {e} : pools'[f] = pools[f]
        /\ conns' \in [Conn -> ConnType] /\ pools' \in [Endpoint -> Conn \cup {None}]
    BY <1>2, <2>1, <2>2
  <2>4. Pooled' = Pooled \cup {e} /\ MEs' = MEs
    BY <2>2, <2>3 DEF Pooled, MEs
  <2>5. /\ todo' \in TodoType /\ todo'.add = todo.add \ {e} /\ todo'.set = todo.set
        /\ todo'.remove = todo.remove /\ todo'.status = todo.status /\ todo'.tell = todo.tell
    BY <1>2 DEF TypeOK, TodoType
  <2>6. TypeOK'
    <3>1. todo'.remove \cup todo'.status \subseteq Pooled'
      BY <2>4, <2>5 DEF TypeOK
    <3> QED
      BY <1>2, <2>2, <2>3, <2>5, <3>1 DEF TypeOK
  <2>7. Progress'
    <3>1. Readers' = {}
      BY <2>1, <2>2, <2>3 DEF Progress, Readers
    <3> QED
      BY <1>2, <2>2, <2>4, <2>5, <3>1 DEF Progress
  <2>8. Served' /\ CallsFine'
    <3>1. \A d \in Conn : /\ conns'[d].left \subseteq MEs
                          /\ conns'[d].left # {} => conns'[d].monitor = "notifying"
      BY <2>1, <2>3 DEF Served
    <3>2. Served'
      BY <1>2, <2>2, <2>4, <3>1 DEF Served
    <3>3. CallsFine'
      BY <1>2, <2>2, <2>4 DEF CallsFine
    <3> QED
      BY <3>2, <3>3
  <2>9. ConnsOwned'
    <3>1. \A f \in Pooled : pools[f] \in Conn /\ pools[f] # c /\ f \in Endpoint
      BY <2>2, NoneAssumption DEF ConnsOwned, Pooled
    <3>2. pools[e] # c \/ e \notin Pooled
      BY <3>1
    <3>3. life # "closed"
      BY <2>2 DEF Progress
    <3>4. \A f \in Pooled \ {e} : pools'[f] = pools[f] /\ conns'[pools[f]] = conns[pools[f]]
      BY <2>3, <3>1
    <3>5. ASSUME NEW f \in Pooled'
          PROVE  LET d == conns'[pools'[f]]
                 IN  d.endpoint = f /\ d.state # "Shutdown" /\ ~d.cancelled
                       /\ d.monitor \notin {"none", "done"}
      BY <2>1, <2>3, <2>4, <3>3, <3>4, <3>5 DEF ConnsOwned
    <3>6. ASSUME NEW d \in Conn, d # c, conns'[d] # NoMonitoredConn
          PROVE  \/ (conns'[d].endpoint \in Pooled' /\ pools'[conns'[d].endpoint] = d)
                 \/ conns'[d].state = "Shutdown" /\ conns'[d].cancelled
      <4>1. conns'[d] = conns[d] /\ conns[d] # NoMonitoredConn
        BY <2>3, <3>6
      <4>2. \/ (conns[d].endpoint \in Pooled /\ pools[conns[d].endpoint] = d)
            \/ conns[d].state = "Shutdown" /\ conns[d].cancelled
        BY <4>1 DEF ConnsOwned
      <4>3. e \notin Pooled
        BY <2>2 DEF Progress
      <4>4. \A f \in Pooled : f \in Pooled' /\ pools'[f] = pools[f]
        BY <2>4, <3>4, <4>3
      <4> QED
        BY <4>1, <4>2, <4>4
    <3>7. conns'[c].endpoint \in Pooled' /\ pools'[conns'[c].endpoint] = c
      BY <2>1, <2>3, <2>4
    <3> QED
      BY <1>2, <3>3, <3>5, <3>6, <3>7 DEF ConnsOwned
  <2> QED
    BY <2>6, <2>7, <2>8, <2>9
<1> QED
  BY <1>1, <1>2 DEF AddPool

\* Where it matters that no list is empty which could be given to a MultiEndpoint.
LEMMA SetMultiEndpointIInv ==
    ASSUME ListsOK, IInv, NEW n \in Name, SetMultiEndpoint(n)
    PROVE  IInv'
<1> USE DEF IInv
<1> DEFINE L == opts.mes[n]
<1>0. /\ mu = "adding" /\ todo.add = {} /\ n \in todo.set
      /\ UNCHANGED <<defaultName, pools, conns, call>>
  BY DEF SetMultiEndpoint
<1>1. CASE Abandon /\ UNCHANGED mes
  BY <1>0, <1>1, AbandonIInv
<1>2. CASE /\ MesType' /\ n \in MEs' /\ mes'[n].listed = L /\ mes'[n].current \in L
           /\ \A m \in Name \ {n} : mes'[m] = mes[m]
           /\ L # {} /\ n \in Named(opts)
           /\ todo' = [todo EXCEPT !.set = @ \ {n}]
           /\ UNCHANGED <<life, mu, opts>>
  <2>1. /\ todo' \in TodoType /\ todo'.add = {} /\ todo'.set = todo.set \ {n}
        /\ todo'.remove = todo.remove /\ todo'.status = todo.status /\ todo'.tell = todo.tell
    BY <1>0, <1>2 DEF TypeOK, TodoType
  <2>2. Pooled' = Pooled /\ Readers' = Readers /\ MEs' = MEs \cup {n}
    BY <1>0, <1>2 DEF Pooled, Readers, MEs
  <2>3. TypeOK'
    BY <1>0, <1>2, <2>1, <2>2 DEF TypeOK, MesType
  <2>4. L \subseteq Pooled
    <3>1. L \subseteq ValidPools(opts)
      BY <1>2 DEF ValidPools
    <3> QED
      BY <1>0, <3>1 DEF Progress
  <2> HIDE DEF L
  <2>5. Served'
    <3>1. opts \in Options /\ opts.mes[n] # {}
      BY <1>0, <1>2 DEF Progress, L
    <3>2. ASSUME NEW m \in MEs'
          PROVE  /\ mes'[m].listed \subseteq Pooled
                 /\ mes'[m].current \in mes'[m].listed
                 /\ \E o \in Options : m \in Named(o) /\ o.mes[m] # {}
      <4>1. CASE m = n
        BY <1>2, <2>4, <3>1, <4>1
      <4>2. CASE m # n
        <5>1. m \in MEs /\ mes'[m] = mes[m]
          BY <1>2, <2>2, <4>2 DEF MEs
        <5> QED
          BY <5>1 DEF Served
      <4> QED
        BY <4>1, <4>2
    <3> QED
      BY <1>0, <1>2, <2>2, <3>2 DEF Served
  <2>6. Progress'
    <3>1. \A m \in Named(opts) : m \in todo.set \ {n} \/ (m \in MEs' /\ mes'[m].listed = opts.mes[m])
      <4>1. ASSUME NEW m \in Named(opts), m \notin todo.set, m # n
            PROVE  m \in MEs' /\ mes'[m].listed = opts.mes[m]
        <5>1. m \in MEs /\ mes[m].listed = opts.mes[m]
          BY <1>0, <4>1 DEF Progress
        <5>2. m \in Name
          BY <5>1 DEF MEs
        <5> QED
          BY <1>2, <2>2, <4>1, <5>1, <5>2
      <4> QED
        BY <1>2, <4>1 DEF L
    <3> QED
      BY <1>0, <1>2, <2>1, <2>2, <3>1 DEF Progress
  <2>7. ConnsOwned' /\ CallsFine'
    BY <1>0, <1>2, <2>2 DEF ConnsOwned, CallsFine
  <2> QED
    BY <2>3, <2>5, <2>6, <2>7
<1>3. CASE ~(Abandon /\ UNCHANGED mes)
  <2>1. opts \in Options /\ opts \in OptionsType
    BY <1>0, OptionsAssumption DEF Progress
  <2>2. n \in Named(opts)
    BY <1>0 DEF Progress
  <2>3. L \in SUBSET Endpoint
    BY <2>1, <2>2 DEF OptionsType, Named
  <2>6. MesType
    BY DEF TypeOK, MesType
  <2>4. CASE mes[n] = None
    <3>1. L # {} /\ NewMultiEndpoint(n, L)
      BY <1>3, <2>4 DEF SetMultiEndpoint
    <3>2. /\ Becomes(n, L, {}, {{}, L})
          /\ {} \in SUBSET Endpoint /\ {{}, L} \in SUBSET SUBSET Endpoint
      BY <2>3, <3>1 DEF NewMultiEndpoint
    <3> HIDE DEF L
    <3>3. /\ MesType' /\ n \in MEs' /\ mes'[n].listed = L /\ mes'[n].current \in L
          /\ \A m \in Name \ {n} : mes'[m] = mes[m]
      BY <2>3, <2>6, <3>2, BecomesME
    <3> USE DEF L
    <3> QED
      BY <1>2, <1>3, <2>2, <2>4, <3>1, <3>3 DEF SetMultiEndpoint
  <2>5. CASE mes[n] # None
    <3>1. PICK o \in Options : n \in Named(o) /\ o.mes[n] # {}
      BY <2>5 DEF Served, MEs
    <3>2. L # {}
      BY <2>1, <2>2, <3>1 DEF ListsOK
    <3>3. SetEndpoints(n, L)
      BY <1>3, <2>5, <3>2 DEF SetMultiEndpoint
    <3> DEFINE kept == mes[n].recovering \cap L
               RR == {kept, kept \cup (L \ mes[n].listed)}
    <3>4. Becomes(n, L, mes[n].available \cap L, RR)
      BY <3>3 DEF SetEndpoints
    <3>5. RR \in SUBSET SUBSET Endpoint /\ mes[n].available \cap L \in SUBSET Endpoint
      BY <2>3
    <3> HIDE DEF RR, L
    <3>6. /\ MesType' /\ n \in MEs' /\ mes'[n].listed = L /\ mes'[n].current \in L
          /\ \A m \in Name \ {n} : mes'[m] = mes[m]
      BY <2>3, <2>6, <3>4, <3>5, BecomesME
    <3> USE DEF L
    <3> QED
      BY <1>2, <1>3, <2>2, <2>5, <3>2, <3>6 DEF SetMultiEndpoint
  <2> QED
    BY <2>4, <2>5
<1> QED
  BY <1>1, <1>3

LEMMA SetDefaultIInv == ASSUME IInv, SetDefault PROVE IInv'
<1> USE DEF IInv, SetDefault
<1>0. Pooled' = Pooled /\ MEs' = MEs /\ Readers' = Readers
  BY DEF Pooled, MEs, Readers
<1>1. /\ todo' \in TodoType /\ todo'.remove = Pooled \ ValidPools(opts)
      /\ todo'.status \subseteq Pooled /\ todo'.status \cap todo'.remove = {}
      /\ todo'.tell = todo.tell
  BY DEF TypeOK, TodoType, ObsoletePools, Pooled
<1>2. opts \in OptionsType /\ opts.default \in Name
  BY OptionsAssumption DEF Progress, OptionsType
<1>3. TypeOK'
  BY <1>0, <1>1, <1>2 DEF TypeOK, NewDefault
<1>4. Progress'
  BY <1>0, <1>1, <1>2 DEF Progress, NewDefault
<1>5. Served' /\ ConnsOwned'
  BY <1>0 DEF Served, ConnsOwned, Progress, NewDefault
<1>6. CallsFine'
  BY <1>0 DEF CallsFine
<1> QED
  BY <1>3, <1>4, <1>5, <1>6

LEMMA RemoveMultiEndpointIInv == ASSUME IInv, NEW n \in Name, RemoveMultiEndpoint(n) PROVE IInv'
<1> USE DEF IInv, RemoveMultiEndpoint, updateVars
<1>0. /\ Pooled' = Pooled /\ Readers' = Readers /\ n \notin Named(opts)
      /\ mu = "removing" /\ mes' = [mes EXCEPT ![n] = None]
      /\ UNCHANGED <<updateVars, defaultName, pools, conns, call>>
  BY DEF Pooled, Readers, Obsolete
<1>1. /\ MEs' = MEs \ {n} /\ \A m \in MEs' : mes'[m] = mes[m]
      /\ mes' \in [Name -> ME \cup {None}]
  BY <1>0 DEF MEs, TypeOK
<1>2. TypeOK'
  BY <1>0, <1>1 DEF TypeOK
<1>3. todo.tell.left = {} /\ \A c \in Conn : conns[c].left = {}
  BY <1>0 DEF Progress, Served, Readers
<1>4. Progress'
  BY <1>0, <1>1, <1>3 DEF Progress
<1>5. Served'
  BY <1>0, <1>1, <1>3 DEF Served, Progress
<1>6. ConnsOwned' /\ CallsFine'
  BY <1>0 DEF ConnsOwned, CallsFine, Progress
<1> QED
  BY <1>2, <1>4, <1>5, <1>6

LEMMA RemovedConn ==
    ASSUME NEW c \in ConnType
    PROVE  /\ Removed(c) \in ConnType /\ Removed(c).endpoint = c.endpoint
           /\ Removed(c).left = c.left /\ Removed(c).monitor = c.monitor
           /\ Removed(c).state = "Shutdown" /\ Removed(c).cancelled
BY DEF ConnType, Removed

LEMMA RemovePoolIInv == ASSUME IInv, NEW e \in Endpoint, RemovePool(e) PROVE IInv'
<1> USE DEF IInv, RemovePool
<1> DEFINE c == pools[e]
           new == Removed(conns[c])
<1>0. /\ mu = "removing" /\ Obsolete = {} /\ e \in todo.remove /\ e \in Pooled /\ c \in Conn
      /\ pools \in [Endpoint -> Conn \cup {None}] /\ conns \in [Conn -> ConnType]
      /\ UNCHANGED <<life, mu, opts, mes, defaultName, call>>
  BY DEF TypeOK, Pooled
<1>1. /\ new \in ConnType /\ new.endpoint = conns[c].endpoint /\ new.left = conns[c].left
      /\ new.monitor = conns[c].monitor /\ new.state = "Shutdown" /\ new.cancelled
  BY <1>0, RemovedConn
<1>2. conns' = [conns EXCEPT ![c] = new]
  OBVIOUS
<1> HIDE DEF new
<1>3. /\ conns'[c] = new /\ \A d \in Conn \ {c} : conns'[d] = conns[d]
      /\ conns' \in [Conn -> ConnType]
      /\ pools'[e] = None /\ \A f \in Endpoint \ {e} : pools'[f] = pools[f]
      /\ pools' \in [Endpoint -> Conn \cup {None}]
  BY <1>0, <1>1, <1>2
<1>4. Pooled' = Pooled \ {e} /\ MEs' = MEs /\ Readers' = Readers
  BY <1>0, <1>1, <1>3 DEF Pooled, MEs, Readers
<1>5. /\ todo' \in TodoType /\ todo'.remove = todo.remove \ {e}
      /\ todo'.status = todo.status /\ todo'.tell = todo.tell
  BY DEF TypeOK, TodoType
<1>6. e \notin todo.status /\ e \notin ValidPools(opts) /\ todo.tell.left = {}
  BY <1>0 DEF Progress
<1>7. TypeOK'
  BY <1>0, <1>3, <1>4, <1>5, <1>6 DEF TypeOK
<1>8. Progress'
  BY <1>0, <1>4, <1>5, <1>6 DEF Progress
<1>9. Served'
  <2>1. \A n \in MEs : mes[n].listed \subseteq ValidPools(opts)
    BY <1>0 DEF Progress, Obsolete, ValidPools
  <2>2. \A d \in Conn : conns'[d].left = conns[d].left /\ conns'[d].monitor = conns[d].monitor
    BY <1>1, <1>3
  <2> QED
    BY <1>0, <1>4, <1>6, <2>1, <2>2 DEF Served
<1>10. ConnsOwned'
  <2>1. life # "closed"
    BY <1>0 DEF Progress
  <2>2. ASSUME NEW f \in Pooled' PROVE f \in Pooled /\ f # e /\ pools'[f] = pools[f]
                                      /\ pools[f] \in Conn /\ pools[f] # c
    BY <1>0, <1>3, <1>4 DEF ConnsOwned, Pooled
  <2>3. \A f \in Pooled' : conns'[pools'[f]] = conns[pools[f]]
    BY <1>3, <2>2
  <2>4. ASSUME NEW d \in Conn, conns'[d] # NoMonitoredConn
        PROVE  \/ (conns'[d].endpoint \in Pooled' /\ pools'[conns'[d].endpoint] = d)
               \/ conns'[d].state = "Shutdown" /\ conns'[d].cancelled
    <3>1. CASE d = c
      BY <1>1, <1>3, <3>1
    <3>2. CASE d # c
      <4>1. conns'[d] = conns[d]
        BY <1>3, <3>2
      <4>2. \/ (conns[d].endpoint \in Pooled /\ pools[conns[d].endpoint] = d)
            \/ conns[d].state = "Shutdown" /\ conns[d].cancelled
        BY <2>4, <4>1 DEF ConnsOwned
      <4>3. \A f \in Pooled : pools[f] = d => f \in Pooled' /\ pools'[f] = d
        BY <1>3, <1>4, <3>2 DEF Pooled
      <4> QED
        BY <4>1, <4>2, <4>3
    <3> QED
      BY <3>1, <3>2
  <2> QED
    BY <1>0, <2>1, <2>2, <2>3, <2>4 DEF ConnsOwned
<1>11. CallsFine'
  BY <1>0, <1>4 DEF CallsFine
<1> QED
  BY <1>7, <1>8, <1>9, <1>10, <1>11

LEMMA ReadStatusIInv == ASSUME IInv, NEW e \in Endpoint, ReadStatus(e) PROVE IInv'
<1> USE DEF IInv, ReadStatus
<1>0. Pooled' = Pooled /\ MEs' = MEs /\ Readers' = Readers /\ (Obsolete' = Obsolete)
  BY DEF Pooled, MEs, Readers, Obsolete
<1>1. /\ todo' \in TodoType /\ todo'.remove = {} /\ todo'.status = todo.status \ {e}
      /\ todo'.tell.left = MEs
  BY DEF TypeOK, TodoType, MEs
<1>2. TypeOK'
  BY <1>0, <1>1 DEF TypeOK
<1>3. Progress' /\ Served' /\ ConnsOwned' /\ CallsFine'
  BY <1>0, <1>1 DEF Progress, Served, ConnsOwned, CallsFine
<1> QED
  BY <1>2, <1>3

LEMMA TellStatusIInv == ASSUME IInv, NEW n \in Name, TellStatus(n) PROVE IInv'
<1> USE DEF IInv
<1>0. /\ mu = "removing" /\ n \in todo.tell.left /\ n \in MEs
      /\ Obsolete = {} /\ todo.remove = {} /\ todo.tell.left \subseteq MEs
      /\ SetEndpointAvailability(n, todo.tell.endpoint, todo.tell.ready)
      /\ todo.tell.ready \in BOOLEAN
      /\ UNCHANGED <<life, mu, opts, defaultName, pools, conns, call>>
  BY DEF TellStatus, Progress, TypeOK, TodoType
<1>1. MEsKept
  BY <1>0, AvailabilityKept DEF TypeOK, MesType
<1>2. Pooled' = Pooled /\ Readers' = Readers /\ MEs' = MEs /\ (Obsolete' = Obsolete)
  BY <1>0, <1>1 DEF Pooled, Readers, MEsKept, Obsolete
<1>3. /\ todo' \in TodoType /\ todo'.remove = todo.remove /\ todo'.status = todo.status
      /\ todo'.tell.left \subseteq todo.tell.left
  BY DEF TypeOK, TodoType, TellStatus
<1>4. TypeOK'
  BY <1>0, <1>1, <1>2, <1>3 DEF TypeOK, MEsKept, MesType
<1>5. Progress'
  BY <1>0, <1>1, <1>2, <1>3 DEF Progress, MEsKept
<1>6. Served' /\ ConnsOwned' /\ CallsFine'
  BY <1>0, <1>1, <1>2 DEF Served, MEsKept, ConnsOwned, CallsFine
<1> QED
  BY <1>4, <1>5, <1>6

LEMMA FinishUpdateIInv == ASSUME IInv, FinishUpdate PROVE IInv'
<1> USE DEF IInv, FinishUpdate
<1>0. Pooled' = Pooled /\ MEs' = MEs /\ Readers' = Readers
  BY DEF Pooled, MEs, Readers
<1>1. todo' \in TodoType /\ todo'.remove = {} /\ todo'.status = {}
  BY DEF TodoType, NothingToDo, NobodyToTell
<1>2. TypeOK'
  BY <1>0, <1>1 DEF TypeOK
<1>3. defaultName \in MEs /\ life # "closed"
  BY DEF Progress
<1>4. Progress' /\ Served' /\ ConnsOwned' /\ CallsFine'
  BY <1>0, <1>3 DEF Progress, Served, ConnsOwned, CallsFine
<1> QED
  BY <1>2, <1>4

LEMMA CloseIInv == ASSUME IInv, Close PROVE IInv'
<1> USE DEF IInv, Close
<1> DEFINE Owned(c) == \E e \in Endpoint : pools[e] = c
<1>0. /\ Pooled' = Pooled /\ MEs' = MEs /\ mu = "free" /\ conns \in [Conn -> ConnType]
      /\ pools \in [Endpoint -> Conn \cup {None}]
  BY DEF Pooled, MEs, TypeOK
<1>1. \A c \in Conn :
        /\ conns'[c] \in ConnType /\ conns'[c].endpoint = conns[c].endpoint
        /\ conns'[c].left = conns[c].left /\ conns'[c].monitor = conns[c].monitor
        /\ Owned(c) => conns'[c].state = "Shutdown" /\ conns'[c].cancelled
        /\ ~Owned(c) => conns'[c] = conns[c]
  BY <1>0, RemovedConn
<1>2. TypeOK'
  <2>1. conns' \in [Conn -> ConnType]
    BY <1>1
  <2> QED
    BY <1>0, <2>1 DEF TypeOK
<1>3. Progress' /\ CallsFine'
  BY <1>0 DEF Progress, CallsFine
<1>4. Served'
  BY <1>0, <1>1 DEF Served
<1>5. ConnsOwned'
  <2>1. \A e \in Pooled : pools[e] \in Conn
    BY <1>0 DEF Pooled
  <2>2. ASSUME NEW c \in Conn, conns'[c] # NoMonitoredConn, ~Owned(c)
        PROVE  conns'[c].state = "Shutdown" /\ conns'[c].cancelled
    <3>1. conns'[c] = conns[c]
      BY <1>1, <2>2
    <3>2. CASE conns[c].endpoint \in Pooled /\ pools[conns[c].endpoint] = c
      BY <2>2, <3>2 DEF Pooled
    <3> QED
      BY <2>2, <3>1, <3>2 DEF ConnsOwned
  <2> QED
    BY <1>0, <1>1, <2>1, <2>2 DEF ConnsOwned
<1> QED
  BY <1>2, <1>3, <1>4, <1>5

LEMMA NextIInv == ListsOK /\ IInv /\ [Next]_vars => IInv'
<1> SUFFICES ASSUME ListsOK, IInv, [Next]_vars PROVE IInv'
  OBVIOUS
<1>1. CASE Update
  BY <1>1, StartUpdateIInv, AddPoolIInv, RemovePoolIInv, ReadStatusIInv, SetMultiEndpointIInv,
     RemoveMultiEndpointIInv, TellStatusIInv, SetDefaultIInv, FinishUpdateIInv DEF Update
<1>2. CASE Close
  BY <1>2, CloseIInv
<1>3. CASE \E c \in Conn : ConnStateChange(c) \/ Monitor(c)
  BY <1>3, MonitorIInv
<1>4. CASE \E n \in Name : METimeout(n)
  BY <1>4, METimeoutIInv
<1>5. CASE PickConn
  BY <1>5, PickConnIInv
<1>6. CASE UNCHANGED vars
  <2>1. MEsKept
    BY <1>6, SameKept DEF vars
  <2> QED
    BY <1>6, <2>1, KeptIInv DEF vars, updateVars
<1> QED
  BY <1>1, <1>2, <1>3, <1>4, <1>5, <1>6 DEF Next

-----------------------------------------------------------------------------
(***************************************************************************)
(* The theorems.                                                           *)
(***************************************************************************)

\* The inductive invariant holds throughout, if no list that could be given to a
\* MultiEndpoint is empty.
THEOREM Invariance == ASSUME ListsOK PROVE Spec => []IInv
<1>1. IInv /\ [Next]_vars => IInv'
  BY ListsOK, NextIInv
<1> QED
  BY <1>1, InitIInv, PTL DEF Spec

\* Every variable keeps its type, and the loops of an update never look at a
\* pool that is gone.
THEOREM TypeCorrect == ASSUME ListsOK PROVE Spec => []TypeOK
<1>1. IInv => TypeOK
  BY DEF IInv
<1>2. Spec => []IInv
  BY ListsOK, Invariance
<1> QED
  BY <1>1, <1>2, PTL

\* UpdateMultiEndpoints, wherever it fails and whatever runs beside it, leaves
\* no endpoint of a MultiEndpoint without a pool.
THEOREM EndpointsArePooled == ASSUME ListsOK PROVE Spec => []PoolPerEndpoint
<1>1. IInv => PoolPerEndpoint
  BY DEF IInv, Served, PoolPerEndpoint
<1>2. Spec => []IInv
  BY ListsOK, Invariance
<1> QED
  BY <1>1, <1>2, PTL

\* Once it is built, a GCPMultiEndpoint has a default with a pool to use.
THEOREM DefaultIsServed == ASSUME ListsOK PROVE Spec => []DefaultServes
<1>1. IInv => DefaultServes
  BY DEF IInv, Served, DefaultServes
<1>2. Spec => []IInv
  BY ListsOK, Invariance
<1> QED
  BY <1>1, <1>2, PTL

\* pickConn finds a pool unless an update overlaps it.
THEOREM QuietCallsAreServed == ASSUME ListsOK PROVE Spec => []QuietCallsServed
<1>1. IInv => QuietCallsServed
  BY DEF IInv, CallsFine, QuietCallsServed
<1>2. Spec => []IInv
  BY ListsOK, Invariance
<1> QED
  BY <1>1, <1>2, PTL

\* Every open connection belongs to its endpoint, and has a monitor; with any
\* number of connections, so that an endpoint may be dialled again while the
\* monitor of its last pool still runs.
THEOREM ConnectionsAreOwned == ASSUME ListsOK PROVE Spec => []ConnsOwned
<1>1. IInv => ConnsOwned
  BY DEF IInv
<1>2. Spec => []IInv
  BY ListsOK, Invariance
<1> QED
  BY <1>1, <1>2, PTL
=============================================================================
