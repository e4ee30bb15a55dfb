------------------------------ MODULE SpannerProber ------------------------------
(***************************************************************************)
(* The Spanner prober, src/spanner_prober: main.go and proberlib.go.       *)
(*                                                                         *)
(* Prober tasks on different machines share one Spanner instance and one   *)
(* database, which each of them creates if it is missing.  A task that is  *)
(* set up starts a goroutine per tick; each probes a random row, and sends *)
(* its result to a channel of bounded size that one goroutine drains.      *)
(*                                                                         *)
(* Spanner is external: its requests and operations may fail, and its      *)
(* read-write transactions are isolated: one that another's commit         *)
(* conflicts with is run again.  A read at a bounded staleness is a read   *)
(* that took place earlier.                                                *)
(***************************************************************************)
EXTENDS Naturals, Sequences, FiniteSets

CONSTANTS Task,         \* prober tasks
          Main,         \* the tasks that are main.go; the others call the library
          Probe,        \* the goroutines of probes that can exist at a time
          Row,          \* the rows probed
          None,         \* no Probe interface, no task, no row (nil)
          Options,      \* the ProberOptions a task may be given
          ChannelSize,  \* aggregationChannelSize
          CanFail       \* may Spanner fail requests and operations

Kinds == {"noop", "read", "dml", "read_write"}

\* QPS, a float64: "usual" is positive and at most 1000, and a second divided by it
\* is a Duration; "tiny" is positive, but that is too long for a Duration, or it
\* is NaN; "outside" is not positive, or above 1000.
Rates == {"usual", "tiny", "outside"}
OptionsType == [prober : Kinds \cup {None}, numRows : Nat, nodeCount : Nat,
                processingUnits : Nat, channelPoolSize : Nat, qps : Rates]
RowType == [payload : Probe, hash : Probe]

ASSUME TasksAssumption == Main \subseteq Task
ASSUME NoneAssumption == None \notin Task \cup Row \cup Kinds \cup RowType
ASSUME OptionsAssumption == Options \subseteq OptionsType
ASSUME SizeAssumption == ChannelSize \in Nat \ {0} /\ CanFail \in BOOLEAN

VARIABLES
    instance,   \* the state of the shared instance: "none", "creating" or "ready"
    database,   \* the same for the database
    table,      \* the rows of ProbeTarget
    faulted,    \* a request, an operation or the making of a client has failed
    task,       \* the progress of every task: where it is and its create operation
    cancelled,  \* the tasks whose context is done
    probe,      \* the goroutines of the probes
    opsChannel  \* p.opsChannel of every task, as the probes whose results it holds

vars == <<instance, database, table, faulted, task, cancelled, probe, opsChannel>>
spannerVars == <<instance, database, faulted>>
probingVars == <<table, cancelled, probe, opsChannel>>

NoProbe == [at |-> "idle", task |-> None, row |-> None, rows |-> 0, error |-> "none"]

Init ==
    /\ instance = "none" /\ database = "none"
    /\ table = [r \in Row |-> None]
    /\ faulted = FALSE
    /\ \E o \in [Task -> Options] :
         task = [t \in Task |-> [at |-> IF t \in Main THEN "flags" ELSE "new",
                                 op |-> "none", options |-> o[t]]]
    /\ cancelled = {}
    /\ probe = [p \in Probe |-> NoProbe]
    /\ opsChannel = [t \in Task |-> <<>>]

-----------------------------------------------------------------------------
(***************************************************************************)
(* Setting up a task: main, NewProber and newSpannerProber.                *)
(***************************************************************************)

Set(t, at, op) == task' = [task EXCEPT ![t] = [at |-> at, op |-> op, options |-> task[t].options]]

Move(t, from, to) == task[t].at = from /\ Set(t, to, task[t].op)

\* validateFlags, as far as the options go.  NaN is neither <= 0 nor > 1000.
FlagsValid(o) == o.qps # "outside" /\ o.numRows > 0 /\ o.prober # None

validateFlags(t) ==
    /\ Move(t, "flags", IF FlagsValid(task[t].options) THEN "new" ELSE "exited")
    /\ UNCHANGED <<spannerVars, probingVars>>

Refused(o) ==
    \/ o.numRows = 0
    \/ o.nodeCount > 0 /\ o.processingUnits > 0
    \/ o.channelPoolSize < 1

\* The name of the Probe is taken before newSpannerProber looks whether there is one.
NewProber(t) ==
    /\ Move(t, "new", LET o == task[t].options
                      IN  IF o.prober = None THEN "panicked"
                          ELSE IF Refused(o) THEN "exited" ELSE "present")
    /\ UNCHANGED <<spannerVars, probingVars>>

\* A client, an RPC, an operation or a dial of the setup fails, and so does the
\* task; but a failed check for the instance counts as absence.
SetupFails(t) ==
    /\ CanFail \/ t \in cancelled
    /\ task[t].at \in {"present", "create", "wait", "poll", "database", "waitDatabase", "dial"}
    /\ \/ Set(t, "exited", task[t].op)
       \/ task[t].at = "present" /\ Set(t, "create", task[t].op)
    /\ faulted' = (faulted \/ t \notin cancelled)
    /\ UNCHANGED <<instance, database, probingVars>>

checkInstancePresence(t) ==
    /\ Move(t, "present", IF instance = "ready" THEN "database" ELSE "create")
    /\ UNCHANGED <<spannerVars, probingVars>>

\* Mutant: losing the race to create the instance is an error.
AfterExists_fails == "exited"

\* Another task has created the instance: codes.AlreadyExists.
AfterExists == "poll"

CreateInstance(t) ==
    /\ task[t].at = "create"
    /\ IF instance = "none"
       THEN /\ instance' = "creating"
            /\ Set(t, "wait", "running")
       ELSE /\ Set(t, AfterExists, task[t].op)
            /\ UNCHANGED instance
    /\ UNCHANGED <<database, faulted, probingVars>>

\* Mutant: the state of the instance found is not looked at.
InstanceUsable_any == instance # "none"

InstanceUsable == instance = "ready"

\* One round of the loop that waits for the instance; one that finds it
\* "creating" sleeps and goes on.
GetInstance(t) ==
    /\ InstanceUsable \/ instance = "none"
    /\ Move(t, "poll", IF InstanceUsable THEN "database" ELSE "exited")
    /\ UNCHANGED <<spannerVars, probingVars>>

\* A database that exists, or is being created by another task, is not waited for.
CreateDatabase(t) ==
    /\ task[t].at = "database"
    /\ IF database = "none"
       THEN /\ database' = "creating"
            /\ Set(t, "waitDatabase", "running")
       ELSE /\ Set(t, "dial", task[t].op)
            /\ UNCHANGED database
    /\ UNCHANGED <<instance, faulted, probingVars>>

\* op.Wait: the operation this task started has ended.
OperationDone(t) ==
    /\ task[t].at \in {"wait", "waitDatabase"} /\ task[t].op \in {"done", "failed"}
    /\ Set(t, IF task[t].op = "failed" THEN "exited"
              ELSE IF task[t].at = "wait" THEN "poll" ELSE "dial", "none")
    /\ UNCHANGED <<spannerVars, probingVars>>

\* The clients and the channel pool are made, and backgroundStatsAggregator runs.
Dial(t) ==
    /\ Move(t, "dial", "built")
    /\ UNCHANGED <<spannerVars, probingVars>>

\* A second divided by qps, as a Duration, is positive: if it does not fit, what
\* the conversion gives is left to the implementation.
IntervalPositive(qps) == IF qps = "usual" THEN {TRUE} ELSE BOOLEAN

\* Start: time.NewTicker panics unless the interval is positive.
Start(t) ==
    /\ \E positive \in IntervalPositive(task[t].options.qps) :
          Move(t, "built", IF positive THEN "probing" ELSE "panicked")
    /\ UNCHANGED <<spannerVars, probingVars>>

\* Spanner ends the creation of the instance or of the database, of which one task waits.
OperationEnds(ok) ==
    /\ ok \/ CanFail
    /\ faulted' = (faulted \/ ~ok)
    /\ \/ /\ instance = "creating"
          /\ instance' = IF ok THEN "ready" ELSE "none"
          /\ UNCHANGED database
       \/ /\ database = "creating"
          /\ database' = IF ok THEN "ready" ELSE "none"
          /\ UNCHANGED instance
    /\ task' = [t \in Task |->
                   [task[t] EXCEPT !.op = IF @ # "running" THEN @
                                          ELSE IF ok THEN "done" ELSE "failed"]]
    /\ UNCHANGED probingVars

Setup(t) ==
    \/ validateFlags(t) \/ NewProber(t) \/ SetupFails(t)
    \/ checkInstancePresence(t) \/ CreateInstance(t) \/ GetInstance(t)
    \/ CreateDatabase(t) \/ OperationDone(t) \/ Dial(t) \/ Start(t)

-----------------------------------------------------------------------------
(***************************************************************************)
(* Probing.                                                                *)
(***************************************************************************)

setupVars == <<spannerVars, task>>

\* The context given to NewProber and Start is cancelled.
Cancel(t) ==
    /\ t \notin Main /\ task[t].at # "exited"
    /\ cancelled' = cancelled \cup {t}
    /\ UNCHANGED <<setupVars, table, probe, opsChannel>>

\* The select of Start's loop: it may take a tick although the context is done.
Stop(t) ==
    /\ t \in cancelled
    /\ Move(t, "probing", "stopped")
    /\ UNCHANGED <<spannerVars, probingVars>>

Tick(t, p) ==
    /\ task[t].at = "probing"
    /\ probe[p] = NoProbe
    /\ \E r \in Row :
         probe' = [probe EXCEPT ![p] = [at |-> "begun", task |-> t, row |-> r, rows |-> 0, error |-> "none"]]
    /\ UNCHANGED <<setupVars, table, cancelled, opsChannel>>

Kind(p) == task[probe[p].task].options.prober

\* The goroutine of a probe, where it has got to.
InState(p, at, rows, error) ==
    [at |-> at, task |-> probe[p].task, row |-> probe[p].row, rows |-> rows, error |-> error]

Ended(p, error) == InState(p, "ended", 0, error)
End(p, error) == [probe EXCEPT ![p] = Ended(p, error)]

NoopProbe(p) ==
    /\ probe[p].at = "begun" /\ Kind(p) = "noop"
    /\ probe' = End(p, "none")
    /\ UNCHANGED <<setupVars, table, cancelled, opsChannel>>

\* The deadline expires, or a request fails: always when there is no database.
Interrupted(p) ==
    /\ probe[p].at \in {"begun", "read"} /\ Kind(p) # "noop"
    /\ probe' = End(p, "outside")
    /\ UNCHANGED <<setupVars, table, cancelled, opsChannel>>

\* validateRows
HashMatches(r) == table[r] = None \/ table[r].payload = table[r].hash

\* Mutant: rows are counted over the runs of a transaction.
RowsRead_all(p) == probe[p].rows + (IF table[probe[p].row] = None THEN 0 ELSE 1)

RowsRead(p) == IF table[probe[p].row] = None THEN 0 ELSE 1

\* The row is read and validated; a transaction goes on from there, also when
\* it is run again.
Read(p) ==
    /\ probe[p].at = "begun" /\ Kind(p) # "noop" /\ database = "ready"
    /\ probe' = IF ~HashMatches(probe[p].row) THEN End(p, "hash")
                ELSE IF Kind(p) = "read" THEN End(p, "none")
                ELSE [probe EXCEPT ![p] = InState(p, "read", RowsRead(p), "none")]
    /\ UNCHANGED <<setupVars, table, cancelled, opsChannel>>

\* The payload and its hash are generated together, before the transaction.
Written(p) == [payload |-> p, hash |-> p]

\* Mutant: the probe reads the row before its transaction.
InTransaction_write(q) == FALSE

\* The transactions of which the read is a part.
InTransaction(q) == probe[q].at = "read"

\* The end of a transaction: the DML statement, or the mutation, and the commit.
\* Transactions that have read the row will be run again.
Commit(p) ==
    LET r == probe[p].row
        exists == table[r] # None
    IN  /\ probe[p].at = "read"
        /\ IF Kind(p) = "dml" /\ probe[p].rows = 0 /\ exists
           THEN probe' = End(p, "AlreadyExists") /\ UNCHANGED table
           ELSE /\ table' = [table EXCEPT ![r] = Written(p)]
                /\ probe' = [q \in Probe |->
                               IF q = p THEN Ended(p, "none")
                               ELSE IF probe[q].row = r /\ InTransaction(q)
                                    THEN InState(q, "begun", probe[q].rows, "none")
                                    ELSE probe[q]]
        /\ UNCHANGED <<setupVars, cancelled, opsChannel>>

\* p.opsChannel <- op, which waits while the channel is full.
Send(p) ==
    LET t == probe[p].task
    IN  /\ probe[p].at = "ended"
        /\ Len(opsChannel[t]) < ChannelSize
        /\ opsChannel' = [opsChannel EXCEPT ![t] = Append(@, p)]
        /\ probe' = [probe EXCEPT ![p] = InState(p, "sent", 0, probe[p].error)]
        /\ UNCHANGED <<setupVars, table, cancelled>>

\* Mutant: the goroutine that drains the channel ends with the context.
Aggregating_cancelled(t) == t \notin cancelled

Aggregating(t) == task[t].at \in {"built", "probing", "stopped"}

\* backgroundStatsAggregator records a result.
Record(t) ==
    /\ Aggregating(t) /\ opsChannel[t] # <<>>
    /\ probe' = [probe EXCEPT ![Head(opsChannel[t])] = NoProbe]
    /\ opsChannel' = [opsChannel EXCEPT ![t] = Tail(@)]
    /\ UNCHANGED <<setupVars, table, cancelled>>

RunProbe(p) == NoopProbe(p) \/ Read(p) \/ Commit(p) \/ Interrupted(p)

\* A panic ends the process, here all that is looked at of it.
Next ==
    \/ \E t \in Task : Setup(t) \/ Cancel(t) \/ Stop(t) \/ Record(t)
    \/ \E t \in Task, p \in Probe : Tick(t, p)
    \/ \E ok \in BOOLEAN : OperationEnds(ok)
    \/ \E p \in Probe : RunProbe(p) \/ Send(p)

Spec == Init /\ [][Next]_vars

\* Goroutines run, deadlines expire (WithTimeout), and a channel serves the
\* goroutines that wait to send in their order.
Fairness ==
    /\ \A p \in Probe : WF_vars(NoopProbe(p)) /\ WF_vars(Interrupted(p)) /\ SF_vars(Send(p))
    /\ \A t \in Task : WF_vars(Record(t)) /\ WF_vars(Stop(t))

FairSpec == Spec /\ Fairness

-----------------------------------------------------------------------------
(***************************************************************************)
(* Properties.                                                             *)
(***************************************************************************)

Operations == {"none", "running", "done", "failed"}
TaskPlace == {"flags", "new", "present", "create", "wait", "poll", "database",
              "waitDatabase", "dial", "built", "probing", "stopped", "exited", "panicked"}

ProbeType == [at : {"begun", "read", "ended", "sent"}, task : Task, row : Row, rows : {0, 1},
              error : {"none", "outside", "hash", "AlreadyExists"}]

\* The type of every variable.
TypeOK ==
    /\ instance \in {"none", "creating", "ready"}
    /\ database \in {"none", "creating", "ready"}
    /\ table \in [Row -> RowType \cup {None}]
    /\ faulted \in BOOLEAN
    /\ task \in [Task -> [at : TaskPlace, op : Operations, options : Options]]
    /\ cancelled \in SUBSET Task
    /\ probe \in [Probe -> ProbeType \cup {NoProbe}]
    /\ opsChannel \in [Task -> Seq(Probe)]

IsSetUp(t) == task[t].at \in {"dial", "built", "probing", "stopped"}

\* Tasks that create the same instance and database at the same time do not get
\* into each other's way: with good options none gives up unless Spanner fails,
\* or its context is cancelled.
RacesHarmless ==
    \A t \in Task : task[t].at = "exited" /\ FlagsValid(task[t].options)
                        => faulted \/ t \in cancelled \/ Refused(task[t].options)

\* When a task is set up the instance is ready, whoever created it, and there
\* is a database, or its creation has failed in another task.
SetUpOnReady ==
    \A t \in Task : IsSetUp(t) => instance = "ready" /\ (database # "none" \/ faulted)

\* Probes of all kinds and tasks on the same rows never make each other fail: no
\* row has the hash of another payload, and none is inserted twice.
ErrorsFromOutside == \A p \in Probe : probe[p].error \in {"none", "outside"}

\* Every probe ends and its result is recorded, although the channel is bounded
\* and the context may be cancelled at any time ("avoids the case in which
\* probes are blocked due to the channel being full", proberlib.go:542).
ProbesRecorded == \A p \in Probe : probe[p].at # "idle" ~> probe[p].at = "idle"

(***************************************************************************)
(* What the comments say, and the code does not do.                        *)
(***************************************************************************)

\* proberlib.go:299: New sets up the database.
DatabaseSetUp == \A t \in Task : IsSetUp(t) => database = "ready"

\* proberlib.go:557: "qps must be > 0 as we validate this when constructing a
\* CSProber", and proberlib.go:329: a missing Probe is an error.
LibraryChecks == \A t \in Task : task[t].at # "panicked"

\* main.go:186: the flag is limited, and proberlib.go:559: a QPS below 1 is
\* supported; but NaN, and a QPS of 1e-10, pass the flags.
FlagsSuffice == \A t \in Main : task[t].at # "panicked"
=============================================================================
