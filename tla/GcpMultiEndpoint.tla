---------------------------- MODULE GcpMultiEndpoint ----------------------------
(***************************************************************************)
(* src/grpcgcp/gcp_multiendpoint.go: one connection pool per endpoint, a   *)
(* monitor of each pool, the MultiEndpoints that route calls to pools, and *)
(* the updates that reconfigure all of it while calls are being made.      *)
(*                                                                         *)
(* A MultiEndpoint is what Failover says it is (MultiEndpoint implements   *)
(* Failover): lists are sets, and which endpoint becomes current, among    *)
(* those Failover allows, is left open.                                    *)
(*                                                                         *)
(* UpdateMultiEndpoints holds gme.mu and a monitor that notifies holds it  *)
(* for reading; pickConn takes no lock and reads the maps step by step.    *)
(***************************************************************************)
EXTENDS Naturals, FiniteSets

CONSTANTS Endpoint,
          Name,       \* names of MultiEndpoints
          Conn,       \* the monitoredConns that can exist at a time
          None,       \* no MultiEndpoint, no pool, no update (nil, or a missing key)
          Options,    \* the options that may be given
          CanFail,    \* may dialFunc return an error
          MayCall     \* are calls made

\* The name of the default MultiEndpoint, and the endpoints listed for each name given.
OptionsType == [default : Name, mes : UNION {[S -> SUBSET Endpoint] : S \in SUBSET Name}]
ME == [listed : SUBSET Endpoint, available : SUBSET Endpoint,
       recovering : SUBSET Endpoint, current : Endpoint]

ASSUME NoneAssumption == /\ None \notin Endpoint \cup Conn \cup Name
                         /\ None \notin ME
                         /\ None \notin OptionsType
ASSUME OptionsAssumption == Options \subseteq OptionsType
ASSUME FlagAssumption == CanFail \in BOOLEAN /\ MayCall \in BOOLEAN

VARIABLES
    life,         \* "new" while the constructor's update runs, "built", "failed", "closed"
    mu,           \* gme.mu: "free", or which half of UpdateMultiEndpoints holds it
    opts,         \* the options of the update under way
    todo,         \* the entries its loops have still to visit
    mes,          \* gme.mes
    defaultName,  \* gme.defaultName
    pools,        \* gme.pools: endpoint -> Conn
    conns,        \* every monitoredConn: its ClientConn and its monitor
    call          \* a call in pickConn

vars == <<life, mu, opts, todo, mes, defaultName, pools, conns, call>>
updateVars == <<life, mu, opts, todo>>

F(n) == INSTANCE Failover WITH
          listed <- mes[n].listed, available <- mes[n].available,
          recovering <- mes[n].recovering, current <- mes[n].current

Named(o) == DOMAIN o.mes
ValidPools(o) == UNION {o.mes[n] : n \in Named(o)}
MEs == {n \in Name : mes[n] # None}
Pooled == {e \in Endpoint : pools[e] # None}
Readers == {c \in Conn : conns[c].monitor = "notifying"}

\* One pair of an endpoint, with what is said of it, and who is still to be told.
NobodyToTell == [endpoint |-> None, ready |-> FALSE, left |-> {}]
NothingToDo == [add |-> {}, set |-> {}, remove |-> {}, status |-> {}, tell |-> NobodyToTell]

NoMonitoredConn == [endpoint |-> None, state |-> "none", monitor |-> "none",
                    cancelled |-> FALSE, seen |-> "none", left |-> {}]
NewMonitoredConn(e) == [endpoint |-> e, state |-> "Idle", monitor |-> "get",
                        cancelled |-> FALSE, seen |-> "none", left |-> {}]
Unused == {c \in Conn : conns[c] = NoMonitoredConn}
NoCall == [pc |-> "idle", name |-> None, endpoint |-> None, overlapped |-> FALSE]

Init ==
    /\ life = "new"
    /\ mu = "free"
    /\ opts = None
    /\ todo = NothingToDo
    /\ mes = [n \in Name |-> None]
    /\ defaultName \in Name
    /\ pools = [e \in Endpoint |-> None]
    /\ conns = [c \in Conn |-> NoMonitoredConn]
    /\ call = NoCall

-----------------------------------------------------------------------------
(***************************************************************************)
(* The MultiEndpoints.                                                     *)
(***************************************************************************)

\* MultiEndpoint n comes to list L with A available; what else it does is
\* up to its promise.
Becomes(n, L, A, recoverings) ==
    \E R \in recoverings, cur \in L :
        /\ mes' = [mes EXCEPT ![n] = [listed |-> L, available |-> A,
                                      recovering |-> R, current |-> cur]]
        /\ IF mes[n] = None THEN F(n)!FInit' ELSE F(n)!FNext

\* me.SetEndpointAvailability(e, avail)
SetEndpointAvailability(n, e, avail) ==
    LET m == mes[n]
    IN  IF e \in m.listed
        THEN IF avail
             THEN Becomes(n, m.listed, m.available \cup {e}, {m.recovering \ {e}})
             ELSE Becomes(n, m.listed, m.available \ {e},
                          {m.recovering} \cup
                          (IF e \in m.available THEN {m.recovering \cup {e}} ELSE {}))
        ELSE Becomes(n, m.listed, m.available, {m.recovering})

\* Mutant: the endpoints that are not in the list any more are kept.
SetEndpoints_adds(n, L) ==
    LET m == mes[n]
    IN  Becomes(n, L \cup m.listed, m.available, {m.recovering})

\* me.SetEndpoints(list)
SetEndpoints(n, L) ==
    LET m == mes[n]
        kept == m.recovering \cap L
    IN  Becomes(n, L, m.available \cap L, {kept, kept \cup (L \ m.listed)})

\* multiendpoint.NewMultiEndpoint
NewMultiEndpoint(n, L) == Becomes(n, L, {}, {{}, L})

\* A timer of the MultiEndpoint fires.
METimeout(n) ==
    /\ n \in MEs
    /\ Becomes(n, mes[n].listed, mes[n].available, SUBSET mes[n].recovering)
    /\ UNCHANGED <<updateVars, defaultName, pools, conns, call>>

-----------------------------------------------------------------------------
(***************************************************************************)
(* UpdateMultiEndpoints, with gme.mu held from StartUpdate to its end.     *)
(***************************************************************************)

StartUpdate(o) ==
    /\ mu = "free" /\ Readers = {}
    /\ life \in {"new", "built"}
    /\ life = "new" => o.default = defaultName
    /\ o.default \in Named(o)
    /\ Cardinality(ValidPools(o) \ Pooled) <= Cardinality(Unused)   \* the bound Conn
    /\ mu' = "adding"
    /\ opts' = o
    /\ todo' = [NothingToDo EXCEPT !.add = ValidPools(o) \ Pooled, !.set = Named(o)]
    /\ call' = [call EXCEPT !.overlapped = @ \/ call.pc # "idle"]
    /\ UNCHANGED <<life, mes, defaultName, pools, conns>>

\* Mutant: the mutex is not released.
Abandon_locked ==
    /\ opts' = None
    /\ todo' = NothingToDo
    /\ life' = IF life = "new" THEN "failed" ELSE life
    /\ UNCHANGED mu

\* Returning an error in the middle.
Abandon ==
    /\ mu' = "free"
    /\ opts' = None
    /\ todo' = NothingToDo
    /\ life' = IF life = "new" THEN "failed" ELSE life

AddPool(e) ==
    /\ mu = "adding"
    /\ e \in todo.add
    /\ \/ /\ CanFail
          /\ Abandon
          /\ UNCHANGED <<pools, conns>>
       \/ \E c \in Unused :
            /\ pools' = [pools EXCEPT ![e] = c]
            /\ conns' = [conns EXCEPT ![c] = NewMonitoredConn(e)]
            /\ todo' = [todo EXCEPT !.add = @ \ {e}]
            /\ UNCHANGED <<life, mu, opts>>
    /\ UNCHANGED <<mes, defaultName, call>>

\* SetEndpoints on an existing MultiEndpoint, whose error is ignored, or a new one.
SetMultiEndpoint(n) ==
    LET L == opts.mes[n]
    IN  /\ mu = "adding"
        /\ todo.add = {} /\ n \in todo.set
        /\ \/ /\ mes[n] = None /\ L = {}
              /\ Abandon
              /\ UNCHANGED mes
           \/ /\ mes[n] = None /\ L # {}
              /\ NewMultiEndpoint(n, L)
              /\ todo' = [todo EXCEPT !.set = @ \ {n}]
              /\ UNCHANGED <<life, mu, opts>>
           \/ /\ mes[n] # None
              /\ IF L = {} THEN UNCHANGED mes ELSE SetEndpoints(n, L)
              /\ todo' = [todo EXCEPT !.set = @ \ {n}]
              /\ UNCHANGED <<life, mu, opts>>
        /\ UNCHANGED <<defaultName, pools, conns, call>>

\* Mutant: a pool is obsolete unless every MultiEndpoint lists its endpoint.
ObsoletePools_unlisted(o) == {e \in Pooled : \E n \in Named(o) : e \notin o.mes[n]}

ObsoletePools(o) == Pooled \ ValidPools(o)

NewDefault(o) == o.default

SetDefault ==
    /\ mu = "adding"
    /\ todo.add = {} /\ todo.set = {}
    /\ defaultName' = NewDefault(opts)
    /\ mu' = "removing"
    /\ todo' = [todo EXCEPT !.remove = ObsoletePools(opts),
                            !.status = Pooled \ ObsoletePools(opts)]
    /\ UNCHANGED <<life, opts, mes, pools, conns, call>>

Obsolete == MEs \ Named(opts)

RemoveMultiEndpoint(n) ==
    /\ mu = "removing"
    /\ n \in Obsolete
    /\ mes' = [mes EXCEPT ![n] = None]
    /\ UNCHANGED <<updateVars, defaultName, pools, conns, call>>

\* Mutant: the monitor is not stopped.
Removed_monitored(c) == [c EXCEPT !.state = "Shutdown"]

\* conn.Close() and stopMonitoring().
Removed(c) == [c EXCEPT !.state = "Shutdown", !.cancelled = TRUE]

RemovePool(e) ==
    /\ mu = "removing" /\ Obsolete = {}
    /\ e \in todo.remove
    /\ conns' = [conns EXCEPT ![pools[e]] = Removed(@)]
    /\ pools' = [pools EXCEPT ![e] = None]
    /\ todo' = [todo EXCEPT !.remove = @ \ {e}]
    /\ UNCHANGED <<life, mu, opts, mes, defaultName, call>>

\* The state of a pool is read once, and then told to one MultiEndpoint at a time.
ReadStatus(e) ==
    /\ mu = "removing" /\ Obsolete = {} /\ todo.remove = {}
    /\ todo.tell.left = {}
    /\ e \in todo.status
    /\ todo' = [todo EXCEPT !.status = @ \ {e},
                            !.tell = [endpoint |-> e, left |-> MEs,
                                      ready |-> conns[pools[e]].state = "Ready"]]
    /\ UNCHANGED <<life, mu, opts, mes, defaultName, pools, conns, call>>

TellStatus(n) ==
    /\ mu = "removing"
    /\ n \in todo.tell.left
    /\ SetEndpointAvailability(n, todo.tell.endpoint, todo.tell.ready)
    /\ todo' = [todo EXCEPT !.tell.left = @ \ {n}]
    /\ UNCHANGED <<life, mu, opts, defaultName, pools, conns, call>>

FinishUpdate ==
    /\ mu = "removing" /\ Obsolete = {}
    /\ todo.remove = {} /\ todo.status = {} /\ todo.tell.left = {}
    /\ mu' = "free"
    /\ opts' = None
    /\ todo' = NothingToDo
    /\ life' = "built"
    /\ UNCHANGED <<mes, defaultName, pools, conns, call>>

\* Close: not called during an update, and nothing is updated after it.
Close ==
    /\ life = "built" /\ mu = "free"
    /\ life' = "closed"
    /\ conns' = [c \in Conn |-> IF \E e \in Endpoint : pools[e] = c
                                THEN Removed(conns[c]) ELSE conns[c]]
    /\ UNCHANGED <<mu, opts, todo, mes, defaultName, pools, call>>

-----------------------------------------------------------------------------
(***************************************************************************)
(* The connections and their monitors.                                     *)
(***************************************************************************)

\* "Idle" stands for every state that is neither Ready nor Shutdown.
ConnStateChange(c) ==
    /\ conns[c].state \in {"Idle", "Ready"}
    /\ conns' = [conns EXCEPT ![c].state = IF @ = "Idle" THEN "Ready" ELSE "Idle"]
    /\ UNCHANGED <<updateVars, mes, defaultName, pools, call>>

Advance(c, new) ==
    /\ conns' = [conns EXCEPT ![c] = new]
    /\ UNCHANGED <<updateVars, defaultName, pools, call>>

GetState(c) ==
    /\ conns[c].monitor = "get"
    /\ Advance(c, [conns[c] EXCEPT !.monitor = "notify", !.seen = conns[c].state])
    /\ UNCHANGED mes

\* mu.RLock(); the MultiEndpoints cannot change until they are all told.
StartNotify(c) ==
    /\ conns[c].monitor = "notify"
    /\ mu = "free"
    /\ Advance(c, [conns[c] EXCEPT !.monitor = "notifying", !.left = MEs])
    /\ UNCHANGED mes

Notify(c, n) ==
    /\ conns[c].monitor = "notifying"
    /\ n \in conns[c].left
    /\ SetEndpointAvailability(n, conns[c].endpoint, conns[c].seen = "Ready")
    /\ Advance(c, [conns[c] EXCEPT !.left = @ \ {n}])

FinishNotify(c) ==
    /\ conns[c].monitor = "notifying" /\ conns[c].left = {}
    /\ Advance(c, [conns[c] EXCEPT !.monitor = "wait"])
    /\ UNCHANGED mes

\* Mutant: only a change that comes while waiting is seen.
Differs_missed(c) == conns[c].state = "Shutdown"

Differs(c) == conns[c].state # conns[c].seen

\* Mutant: the context is not looked at.
Stops_never(c) == FALSE

Stops(c) == conns[c].cancelled

\* WaitForStateChange compares the states first; a monitor that is stopped and
\* has a change to report does either.  When it ends nothing refers to it.
WaitForStateChange(c) ==
    /\ conns[c].monitor = "wait"
    /\ \/ /\ Differs(c)
          /\ Advance(c, [conns[c] EXCEPT !.monitor = "get"])
       \/ /\ Stops(c)
          /\ Advance(c, IF \E e \in Endpoint : pools[e] = c
                        THEN [conns[c] EXCEPT !.monitor = "done"] ELSE NoMonitoredConn)
    /\ UNCHANGED mes

-----------------------------------------------------------------------------
(***************************************************************************)
(* pickConn, which takes no lock.  A MultiEndpoint found in the map and    *)
(* its Current() are one step.                                             *)
(***************************************************************************)

StepCall(new) ==
    /\ call' = new
    /\ UNCHANGED <<updateVars, mes, defaultName, pools, conns>>

Routed(n) == [call EXCEPT !.pc = "pool", !.endpoint = mes[n].current, !.name = None]

\* n is the name in the context of the call, or None.
StartCall(n) ==
    /\ MayCall /\ life \in {"built", "closed"}
    /\ call.pc = "idle"
    /\ StepCall([(IF n \in MEs THEN Routed(n) ELSE [call EXCEPT !.pc = "default"])
                   EXCEPT !.overlapped = mu # "free"])

ReadDefaultName ==
    /\ call.pc = "default"
    /\ StepCall([call EXCEPT !.pc = "me", !.name = defaultName])

ReadDefaultME ==
    /\ call.pc = "me"
    /\ StepCall(IF call.name \in MEs THEN Routed(call.name)
                ELSE [call EXCEPT !.pc = "panicked"])

\* The pool is found and the call goes on outside; or it is nil.
FindPool ==
    /\ call.pc = "pool"
    /\ StepCall(IF call.endpoint \in Pooled THEN NoCall
                ELSE [call EXCEPT !.pc = "panicked"])

-----------------------------------------------------------------------------
Update ==
    \/ \E o \in Options : StartUpdate(o)
    \/ \E e \in Endpoint : AddPool(e) \/ RemovePool(e) \/ ReadStatus(e)
    \/ \E n \in Name : SetMultiEndpoint(n) \/ RemoveMultiEndpoint(n) \/ TellStatus(n)
    \/ SetDefault
    \/ FinishUpdate

Monitor(c) ==
    \/ GetState(c) \/ StartNotify(c) \/ FinishNotify(c) \/ WaitForStateChange(c)
    \/ \E n \in Name : Notify(c, n)

PickConn == (\E n \in Name \cup {None} : StartCall(n)) \/ ReadDefaultName \/ ReadDefaultME \/ FindPool

Next ==
    /\ call.pc # "panicked"
    /\ \/ Update
       \/ Close
       \/ \E c \in Conn : ConnStateChange(c) \/ Monitor(c)
       \/ \E n \in Name : METimeout(n)
       \/ PickConn

Spec == Init /\ [][Next]_vars

\* Goroutines that can run do.  An update makes the monitors wait again and
\* again, but sync.RWMutex lets the readers that wait go before the next writer.
Fairness ==
    /\ WF_vars(Update /\ mu # "free")
    /\ \A c \in Conn : WF_vars(Monitor(c)) /\ SF_vars(StartNotify(c))

FairSpec == Spec /\ Fairness

-----------------------------------------------------------------------------
(***************************************************************************)
(* Properties.                                                             *)
(***************************************************************************)

ConnType ==
    [endpoint : Endpoint \cup {None}, state : {"none", "Idle", "Ready", "Shutdown"},
     monitor : {"none", "get", "notify", "notifying", "wait", "done"},
     cancelled : BOOLEAN, seen : {"none", "Idle", "Ready", "Shutdown"}, left : SUBSET Name]

TodoType ==
    [add : SUBSET Endpoint, set : SUBSET Name, remove : SUBSET Endpoint,
     status : SUBSET Endpoint,
     tell : [endpoint : Endpoint \cup {None}, ready : BOOLEAN, left : SUBSET Name]]

\* The type of every variable.  Options are held while the mutex is, and a pool
\* that is still to be looked at is there.
TypeOK ==
    /\ life \in {"new", "built", "failed", "closed"}
    /\ mu \in {"free", "adding", "removing"}
    /\ opts \in Options \cup {None} /\ (opts = None <=> mu = "free")
    /\ todo \in TodoType /\ todo.remove \cup todo.status \subseteq Pooled
    /\ mes \in [Name -> ME \cup {None}]
    /\ defaultName \in Name
    /\ pools \in [Endpoint -> Conn \cup {None}]
    /\ conns \in [Conn -> ConnType]
    /\ call \in [pc : {"idle", "default", "me", "pool", "panicked"}, name : Name \cup {None},
                 endpoint : Endpoint \cup {None}, overlapped : BOOLEAN]

\* No list is empty, but one that is always refused: of a MultiEndpoint that
\* does not exist yet.
ListsOK ==
    \A o, p \in Options : \A n \in Named(o) \cap Named(p) : o.mes[n] = {} => p.mes[n] = {}

\* Every endpoint a MultiEndpoint lists has a pool, through every step of every
\* update, the ones that fail half way included: so whatever becomes current can
\* be used ("creates a connection pool for every unique endpoint", :108).
PoolPerEndpoint == \A n \in MEs : mes[n].listed \subseteq Pooled

\* Once built there is a default MultiEndpoint whose current endpoint has a pool,
\* whatever updates fail and wherever they do.
DefaultServes ==
    life \in {"built", "closed"} =>
        /\ defaultName \in MEs
        /\ mes[defaultName].current \in Pooled

\* A call that no update overlaps gets a connection, whatever the monitors and
\* the timers of the MultiEndpoints do meanwhile.
QuietCallsServed == call.pc = "panicked" => call.overlapped

\* No connection leaks: every open connection is the pool of its endpoint and of
\* no other, with a running monitor; and a connection that is no pool any more, or
\* was closed, has its monitor stopped.  (A failed constructor drops its pools open.)
ConnsOwned ==
    /\ \A e \in Pooled :
         LET c == conns[pools[e]]
         IN  /\ c.endpoint = e
             /\ life # "closed" => c.state # "Shutdown" /\ ~c.cancelled
                                     /\ c.monitor \notin {"none", "done"}
    /\ \A c \in Conn : conns[c] # NoMonitoredConn =>
         \/ (conns[c].endpoint \in Pooled /\ pools[conns[c].endpoint] = c /\ life # "closed")
         \/ conns[c].state = "Shutdown" /\ conns[c].cancelled

\* The state a connection settles in reaches its monitor, however many changes
\* came while it was busy notifying.
SettledStateSeen ==
    \A c \in Conn, s \in {"Idle", "Ready"} :
        <>[](conns[c].state = s)
            => <>[](conns[c].seen = s /\ conns[c].monitor = "wait")

\* The monitor of a connection that is given up ends, waiting for updates to
\* release the mutex or not.
StoppedMonitorsEnd ==
    \A c \in Conn : conns[c].cancelled ~> conns[c].monitor \in {"none", "done"}

(***************************************************************************)
(* What the comments say, and the code does not do.                        *)
(***************************************************************************)

\* All monitors wait and have seen the state their connection is in.
Quiet ==
    /\ mu = "free" /\ life = "built"
    /\ \A c \in Conn : conns[c].monitor = "none"
                         \/ (conns[c].monitor = "wait" /\ ~Differs(c))

\* gcp_multiendpoint.go:65: "A MultiEndpoint tracks endpoints' availability", so
\* when all is quiet it knows it.
Tracks ==
    Quiet => \A n \in MEs : \A e \in mes[n].listed :
                e \in mes[n].available <=> conns[pools[e]].state = "Ready"

\* gcp_multiendpoint.go:291-292: the pool of an endpoint that is not used "will
\* be shutdown": it has no say about an endpoint any more.
ShutdownIsSilent ==
    [][\A c \in Conn, n \in Name :
         Notify(c, n) /\ conns[c].state = "Shutdown" /\ life = "built"
            => mes'[n].available = mes[n].available]_vars

\* gcp_multiendpoint.go:61: GCPMultiEndpoint is to "be able to reconfigure
\* endpoints in runtime", that is, while calls are made.
CallsServed == call.pc # "panicked"
=============================================================================
