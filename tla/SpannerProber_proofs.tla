-------------------------- MODULE SpannerProber_proofs --------------------------
(***************************************************************************)
(* Theorems about SpannerProber, for any number of tasks, goroutines and   *)
(* rows, and for any channel size.                                         *)
(*                                                                         *)
(* The properties of the setup are about its end.  The invariant SetupInv  *)
(* says what a task knows of the instance and the database at each place   *)
(* before: that somebody's creation is under way or done, or has failed.   *)
(* Isolated is what Spanner's transactions give: a transaction that found  *)
(* no row still finds none when it commits.                                *)
(***************************************************************************)
EXTENDS SpannerProber, TLAPS

TaskType == [at : TaskPlace, op : Operations, options : Options]

\* What is known of the instance at each place of the setup.
Knows(t) ==
    /\ task[t].op = "failed" => faulted
    /\ task[t].at \in {"wait", "poll"} => instance # "none" \/ faulted
    /\ task[t].at \in {"database", "waitDatabase"} \/ IsSetUp(t) => instance = "ready"
    /\ task[t].at = "waitDatabase" \/ IsSetUp(t) => database # "none" \/ faulted

\* Why a task has given up.
GaveUp(t) ==
    task[t].at = "exited" =>
        faulted \/ t \in cancelled \/ Refused(task[t].options) \/ ~FlagsValid(task[t].options)

SetupInv == \A t \in Task : Knows(t) /\ GaveUp(t)

\* Rows are whole, and what a transaction has read is still so.
Isolated ==
    /\ \A r \in Row : HashMatches(r)
    /\ \A p \in Probe : probe[p].at = "read" /\ probe[p].rows = 0 => table[probe[p].row] = None

IInv == TypeOK /\ SetupInv /\ Isolated /\ ErrorsFromOutside

-----------------------------------------------------------------------------
LEMMA InitIInv == Init => IInv
  <1> SUFFICES ASSUME Init PROVE IInv
    OBVIOUS
  <1> USE DEF Init
  <1>1. PICK o \in [Task -> Options] :
          task = [t \in Task |-> [at |-> IF t \in Main THEN "flags" ELSE "new",
                                  op |-> "none", options |-> o[t]]]
    OBVIOUS
  <1>2. \A t \in Task : task[t] \in TaskType /\ task[t].op = "none" /\ task[t].at \in {"flags", "new"}
                          /\ (t \in Main => task[t].at = "flags")
    BY <1>1 DEF TaskType, TaskPlace, Operations
  <1>3. \A p \in Probe : probe[p] = NoProbe
    OBVIOUS
  <1>4. TypeOK
    <2>1. task \in [Task -> TaskType]
      BY <1>1, <1>2
    <2>2. table \in [Row -> RowType \cup {None}] /\ probe \in [Probe -> ProbeType \cup {NoProbe}]
      OBVIOUS
    <2>3. <<>> \in Seq(Probe)
      OBVIOUS
    <2>4. opsChannel \in [Task -> Seq(Probe)]
      BY <2>3
    <2>5. instance = "none" /\ database = "none" /\ faulted = FALSE /\ cancelled = {}
      OBVIOUS
    <2> HIDE DEF Init
    <2> QED BY <2>1, <2>2, <2>4, <2>5 DEF TypeOK, TaskType
  <1>5. SetupInv
    BY <1>2 DEF SetupInv, Knows, GaveUp, IsSetUp
  <1>6. Isolated /\ ErrorsFromOutside
    BY <1>3 DEF Isolated, ErrorsFromOutside, HashMatches, NoProbe
  <1> QED BY <1>4, <1>5, <1>6 DEF IInv

\* What setting a task does.
LEMMA TaskSet ==
  ASSUME TypeOK, NEW t \in Task, NEW a \in TaskPlace, NEW o \in Operations, Set(t, a, o)
  PROVE  /\ task' \in [Task -> TaskType]
         /\ task'[t].at = a /\ task'[t].op = o /\ task'[t].options = task[t].options
         /\ \A u \in Task \ {t} : task'[u] = task[u]
  <1>1. task \in [Task -> TaskType]
    BY DEF TypeOK, TaskType
  <1> DEFINE new == [at |-> a, op |-> o, options |-> task[t].options]
  <1>2. new \in TaskType /\ new.at = a /\ new.op = o /\ new.options = task[t].options
    BY <1>1 DEF TaskType
  <1>3. task' = [task EXCEPT ![t] = new]
    BY DEF Set
  <1> HIDE DEF new
  <1>4. task'[t] = new /\ \A u \in Task \ {t} : task'[u] = task[u]
    BY <1>1, <1>3
  <1>5. task' \in [Task -> TaskType]
    BY <1>1, <1>2, <1>3
  <1> QED BY <1>2, <1>4, <1>5

\* A step of the setup moves one task, and changes nothing of the probing.
LEMMA SetupEffect ==
  ASSUME IInv, NEW t \in Task, Setup(t)
  PROVE  /\ \E a \in TaskPlace, o \in Operations : Set(t, a, o)
         /\ UNCHANGED probingVars
  <1> USE DEF TaskPlace, Operations
  <1>0. task[t].op \in Operations
    BY DEF IInv, TypeOK
  <1>1. CASE validateFlags(t)
    BY <1>0, <1>1 DEF validateFlags, Move
  <1>2. CASE NewProber(t)
    BY <1>0, <1>2 DEF NewProber, Move
  <1>3. CASE SetupFails(t)
    BY <1>0, <1>3 DEF SetupFails
  <1>4. CASE checkInstancePresence(t)
    BY <1>0, <1>4 DEF checkInstancePresence, Move
  <1>5. CASE CreateInstance(t)
    BY <1>0, <1>5 DEF CreateInstance, AfterExists
  <1>6. CASE GetInstance(t)
    BY <1>0, <1>6 DEF GetInstance, Move
  <1>7. CASE CreateDatabase(t)
    BY <1>0, <1>7 DEF CreateDatabase
  <1>8. CASE OperationDone(t)
    BY <1>0, <1>8 DEF OperationDone
  <1>9. CASE Dial(t)
    BY <1>0, <1>9 DEF Dial, Move
  <1>10. CASE Start(t)
    BY <1>0, <1>10 DEF Start, Move
  <1> QED BY <1>1, <1>2, <1>3, <1>4, <1>5, <1>6, <1>7, <1>8, <1>9, <1>10 DEF Setup

\* Spanner only goes forward while tasks are set up.
LEMMA SetupSpanner ==
  ASSUME IInv, NEW t \in Task, Setup(t)
  PROVE  /\ instance' \in {"none", "creating", "ready"} /\ database' \in {"none", "creating", "ready"}
         /\ faulted' \in BOOLEAN /\ (faulted => faulted')
         /\ (instance # "none" => instance' = instance) /\ (database # "none" => database' = database)
  <1> USE DEF IInv, TypeOK, spannerVars
  <1>1. CASE SetupFails(t)
    BY <1>1 DEF SetupFails
  <1>2. CASE CreateInstance(t)
    BY <1>2 DEF CreateInstance
  <1>3. CASE CreateDatabase(t)
    BY <1>3 DEF CreateDatabase
  <1>4. CASE UNCHANGED spannerVars
    BY <1>4
  <1> QED
    BY <1>1, <1>2, <1>3, <1>4
       DEF Setup, validateFlags, NewProber, checkInstancePresence, GetInstance, OperationDone, Dial, Start

-----------------------------------------------------------------------------
\* The task that is moved.
LEMMA SetupMoves ==
  ASSUME IInv, NEW t \in Task, Setup(t)
  PROVE  Knows(t)' /\ GaveUp(t)'
  <1>1. PICK a \in TaskPlace, o \in Operations : Set(t, a, o)
    BY SetupEffect
  <1>2. task'[t].at = a /\ task'[t].op = o /\ task'[t].options = task[t].options
    BY <1>1, TaskSet DEF IInv
  <1>3. Knows(t) /\ GaveUp(t) /\ task[t].op \in Operations
    BY DEF IInv, SetupInv, TypeOK
  <1>4. instance \in {"none", "creating", "ready"} /\ database \in {"none", "creating", "ready"}
    BY DEF IInv, TypeOK
  <1>m. ASSUME NEW b \in TaskPlace, NEW q \in Operations, Set(t, b, q)
        PROVE  task'[t].at = b /\ task'[t].op = q
    BY <1>m, TaskSet DEF IInv
  <1>n. cancelled' = cancelled
    BY SetupEffect DEF probingVars
  <1> USE DEF TaskPlace, Operations, IsSetUp, spannerVars, Knows, GaveUp
  <1> HIDE <1>1
  <1>11. CASE validateFlags(t)
    BY <1>2, <1>3, <1>11, <1>m, <1>n DEF validateFlags, Move
  <1>12. CASE NewProber(t)
    BY <1>2, <1>3, <1>12, <1>m, <1>n DEF NewProber, Move, FlagsValid
  <1>13. CASE SetupFails(t)
    BY <1>2, <1>3, <1>13, <1>m, <1>n DEF SetupFails
  <1>14. CASE checkInstancePresence(t)
    BY <1>2, <1>3, <1>14, <1>m, <1>n DEF checkInstancePresence, Move
  <1>15. CASE CreateInstance(t)
    BY <1>2, <1>3, <1>4, <1>15, <1>m, <1>n DEF CreateInstance, AfterExists
  <1>16. CASE GetInstance(t)
    BY <1>2, <1>3, <1>16, <1>m, <1>n DEF GetInstance, InstanceUsable, Move
  <1>17. CASE CreateDatabase(t)
    BY <1>2, <1>3, <1>4, <1>17, <1>m, <1>n DEF CreateDatabase
  <1>18. CASE OperationDone(t)
    BY <1>2, <1>3, <1>18, <1>m, <1>n DEF OperationDone
  <1>19. CASE Dial(t)
    BY <1>2, <1>3, <1>19, <1>m, <1>n DEF Dial, Move
  <1>20. CASE Start(t)
    BY <1>2, <1>3, <1>20, <1>m, <1>n DEF Start, Move, FlagsValid
  <1> QED
    BY <1>11, <1>12, <1>13, <1>14, <1>15, <1>16, <1>17, <1>18, <1>19, <1>20 DEF Setup

LEMMA SetupIInv ==
  ASSUME IInv, NEW t \in Task, Setup(t)
  PROVE  IInv'
  <1>1. PICK a \in TaskPlace, o \in Operations : Set(t, a, o)
    BY SetupEffect
  <1>2. task' \in [Task -> TaskType] /\ \A u \in Task \ {t} : task'[u] = task[u]
    BY <1>1, TaskSet DEF IInv
  <1>3. UNCHANGED <<table, cancelled, probe, opsChannel>>
    BY SetupEffect DEF probingVars
  <1>4. TypeOK'
    BY <1>2, <1>3, SetupSpanner DEF IInv, TypeOK, TaskType
  <1>5. ASSUME NEW u \in Task PROVE Knows(u)' /\ GaveUp(u)'
    <2>1. CASE u = t
      BY <2>1, SetupMoves
    <2>2. CASE u # t
      <3>1. Knows(u) /\ GaveUp(u) /\ task'[u] = task[u]
        BY <1>2, <2>2 DEF IInv, SetupInv
      <3> QED BY <3>1, <1>3, SetupSpanner DEF Knows, GaveUp, IsSetUp
    <2> QED BY <2>1, <2>2
  <1>6. Isolated' /\ ErrorsFromOutside'
    BY <1>3 DEF IInv, Isolated, ErrorsFromOutside, HashMatches
  <1> QED BY <1>4, <1>5, <1>6 DEF IInv, SetupInv

LEMMA OperationEndsIInv ==
  ASSUME IInv, NEW ok \in BOOLEAN, OperationEnds(ok)
  PROVE  IInv'
  <1>0. UNCHANGED <<table, cancelled, probe, opsChannel>>
    BY DEF OperationEnds, probingVars
  <1>1. ASSUME NEW t \in Task
        PROVE  /\ task'[t] \in TaskType /\ task'[t].at = task[t].at
               /\ task'[t].options = task[t].options
               /\ task'[t].op = "failed" => task[t].op = "failed" \/ ~ok
    BY DEF OperationEnds, IInv, TypeOK, TaskType, Operations
  <1>2. task' \in [Task -> TaskType]
    BY <1>1 DEF OperationEnds
  <1>3. /\ instance' \in {"none", "creating", "ready"} /\ database' \in {"none", "creating", "ready"}
        /\ faulted' \in BOOLEAN /\ (faulted => faulted') /\ (~ok => faulted')
        /\ (instance = "ready" => instance' = "ready")
        /\ (instance # "none" => instance' # "none" \/ faulted')
        /\ (database # "none" => database' # "none" \/ faulted')
    BY DEF OperationEnds, IInv, TypeOK
  <1>4. TypeOK'
    BY <1>0, <1>2, <1>3 DEF IInv, TypeOK, TaskType
  <1>5. ASSUME NEW t \in Task PROVE Knows(t)' /\ GaveUp(t)'
    <2>1. Knows(t) /\ GaveUp(t)
      BY DEF IInv, SetupInv
    <2> QED BY <2>1, <1>0, <1>1, <1>3 DEF Knows, GaveUp, IsSetUp
  <1>6. Isolated' /\ ErrorsFromOutside'
    BY <1>0 DEF IInv, Isolated, ErrorsFromOutside, HashMatches
  <1> QED BY <1>4, <1>5, <1>6 DEF IInv, SetupInv

-----------------------------------------------------------------------------
\* The state a goroutine moves on to has its type.
LEMMA InStateType ==
  ASSUME TypeOK, NEW p \in Probe, probe[p].at # "idle",
         NEW at \in {"begun", "read", "ended", "sent"}, NEW rows \in {0, 1},
         NEW error \in {"none", "outside", "hash", "AlreadyExists"}
  PROVE  /\ InState(p, at, rows, error) \in ProbeType
         /\ InState(p, at, rows, error).at = at /\ InState(p, at, rows, error).rows = rows
         /\ InState(p, at, rows, error).error = error /\ InState(p, at, rows, error).row = probe[p].row
  <1>1. probe[p] \in ProbeType
    BY DEF TypeOK, NoProbe
  <1> QED BY <1>1 DEF InState, ProbeType

\* A step of the probing is judged by the goroutines and the table.
LEMMA ProbingIInv ==
  ASSUME IInv, UNCHANGED <<setupVars, cancelled>>,
         table' \in [Row -> RowType \cup {None}], probe' \in [Probe -> ProbeType \cup {NoProbe}],
         opsChannel' \in [Task -> Seq(Probe)], Isolated', ErrorsFromOutside'
  PROVE  IInv'
  <1>1. UNCHANGED <<instance, database, faulted, task, cancelled>>
    BY DEF setupVars, spannerVars
  <1>2. TypeOK'
    BY <1>1 DEF IInv, TypeOK
  <1>3. SetupInv'
    BY <1>1 DEF IInv, SetupInv, Knows, GaveUp, IsSetUp
  <1> QED BY <1>2, <1>3 DEF IInv

\* A goroutine that moves, and changes no row, and does not claim to have found none.
LEMMA GoroutineIInv ==
  ASSUME IInv, UNCHANGED <<setupVars, cancelled, table>>, NEW p \in Probe,
         NEW new \in ProbeType \cup {NoProbe}, probe' = [probe EXCEPT ![p] = new],
         new.error \in {"none", "outside"},
         new.at = "read" /\ new.rows = 0 => table[new.row] = None,
         opsChannel' \in [Task -> Seq(Probe)]
  PROVE  IInv'
  <1>1. probe' \in [Probe -> ProbeType \cup {NoProbe}] /\ table' \in [Row -> RowType \cup {None}]
    BY DEF IInv, TypeOK
  <1>2. \A q \in Probe : probe'[q] = IF q = p THEN new ELSE probe[q]
    BY DEF IInv, TypeOK
  <1>3. Isolated'
    BY <1>2 DEF IInv, Isolated, HashMatches
  <1>4. ErrorsFromOutside'
    BY <1>2 DEF IInv, ErrorsFromOutside
  <1> QED BY <1>1, <1>3, <1>4, ProbingIInv

LEMMA CancelIInv ==
  ASSUME IInv, NEW t \in Task, Cancel(t)
  PROVE  IInv'
  <1>1. UNCHANGED <<instance, database, faulted, task, table, probe, opsChannel>> /\ cancelled' = cancelled \cup {t}
    BY DEF Cancel, setupVars, spannerVars
  <1>2. TypeOK'
    BY <1>1 DEF IInv, TypeOK
  <1>3. SetupInv'
    BY <1>1 DEF IInv, SetupInv, Knows, GaveUp, IsSetUp
  <1>4. Isolated' /\ ErrorsFromOutside'
    BY <1>1 DEF IInv, Isolated, ErrorsFromOutside, HashMatches
  <1> QED BY <1>2, <1>3, <1>4 DEF IInv

LEMMA StopIInv ==
  ASSUME IInv, NEW t \in Task, Stop(t)
  PROVE  IInv'
  <1>1. UNCHANGED <<instance, database, faulted, table, cancelled, probe, opsChannel>>
    BY DEF Stop, spannerVars, probingVars
  <1>2. task[t].at = "probing" /\ task[t].op \in Operations /\ Set(t, "stopped", task[t].op)
    BY DEF Stop, Move, IInv, TypeOK
  <1>3. /\ task' \in [Task -> TaskType] /\ task'[t].at = "stopped" /\ task'[t].op = task[t].op
        /\ task'[t].options = task[t].options /\ \A u \in Task \ {t} : task'[u] = task[u]
    BY <1>2, TaskSet DEF IInv, TaskPlace
  <1>4. TypeOK'
    BY <1>1, <1>3 DEF IInv, TypeOK, TaskType
  <1>5. ASSUME NEW u \in Task PROVE Knows(u)' /\ GaveUp(u)'
    BY <1>1, <1>2, <1>3 DEF IInv, SetupInv, Knows, GaveUp, IsSetUp
  <1>6. Isolated' /\ ErrorsFromOutside'
    BY <1>1 DEF IInv, Isolated, ErrorsFromOutside, HashMatches
  <1> QED BY <1>4, <1>5, <1>6 DEF IInv, SetupInv

LEMMA TickIInv ==
  ASSUME IInv, NEW t \in Task, NEW p \in Probe, Tick(t, p)
  PROVE  IInv'
  <1>1. PICK r \in Row :
          probe' = [probe EXCEPT ![p] = [at |-> "begun", task |-> t, row |-> r, rows |-> 0, error |-> "none"]]
    BY DEF Tick
  <1> DEFINE new == [at |-> "begun", task |-> t, row |-> r, rows |-> 0, error |-> "none"]
  <1>2. new \in ProbeType /\ new.error = "none" /\ new.at = "begun"
    BY DEF ProbeType
  <1>3. UNCHANGED <<setupVars, cancelled, table, opsChannel>> /\ probe' = [probe EXCEPT ![p] = new]
    BY <1>1 DEF Tick
  <1> HIDE DEF new
  <1>4. opsChannel' \in [Task -> Seq(Probe)]
    BY <1>3 DEF IInv, TypeOK
  <1> QED BY <1>2, <1>3, <1>4, GoroutineIInv

\* A goroutine ends, without a complaint about another.
LEMMA EndIInv ==
  ASSUME IInv, NEW p \in Probe, probe[p].at # "idle", NEW e \in {"none", "outside"},
         probe' = End(p, e), UNCHANGED <<setupVars, cancelled, table, opsChannel>>
  PROVE  IInv'
  <1>1. Ended(p, e) \in ProbeType /\ Ended(p, e).error = e /\ Ended(p, e).at = "ended"
    BY InStateType DEF Ended, IInv
  <1>2. probe' = [probe EXCEPT ![p] = Ended(p, e)]
    BY DEF End
  <1>3. opsChannel' \in [Task -> Seq(Probe)]
    BY DEF IInv, TypeOK
  <1> HIDE DEF Ended
  <1> QED BY <1>1, <1>2, <1>3, GoroutineIInv

LEMMA ReadIInv ==
  ASSUME IInv, NEW p \in Probe, Read(p)
  PROVE  IInv'
  <1>1. probe[p].at = "begun" /\ UNCHANGED <<setupVars, cancelled, table, opsChannel>>
    BY DEF Read
  <1>2. probe[p] \in ProbeType
    BY <1>1 DEF IInv, TypeOK, NoProbe
  <1>3. HashMatches(probe[p].row)
    BY <1>2 DEF IInv, Isolated, ProbeType
  <1>4. CASE Kind(p) = "read"
    BY <1>1, <1>3, <1>4, EndIInv DEF Read
  <1>5. CASE Kind(p) # "read"
    <2> DEFINE new == InState(p, "read", RowsRead(p), "none")
    <2>1. probe' = [probe EXCEPT ![p] = new]
      BY <1>3, <1>5 DEF Read
    <2>2. RowsRead(p) \in {0, 1} /\ (RowsRead(p) = 0 => table[probe[p].row] = None)
      BY DEF RowsRead
    <2>3. new \in ProbeType /\ new.error = "none" /\ new.rows = RowsRead(p) /\ new.row = probe[p].row
      BY <1>1, <2>2, InStateType DEF IInv
    <2>4. opsChannel' \in [Task -> Seq(Probe)]
      BY <1>1 DEF IInv, TypeOK
    <2> HIDE DEF new
    <2> QED BY <1>1, <2>1, <2>2, <2>3, <2>4, GoroutineIInv
  <1> QED BY <1>4, <1>5

\* A commit writes payload and hash together, and runs again whoever has read the row.
LEMMA CommitIInv ==
  ASSUME IInv, NEW p \in Probe, Commit(p)
  PROVE  IInv'
  <1> DEFINE r == probe[p].row
  <1>1. probe[p].at = "read" /\ UNCHANGED <<setupVars, cancelled, opsChannel>>
    BY DEF Commit
  <1>2. probe[p] \in ProbeType /\ r \in Row
    BY <1>1 DEF IInv, TypeOK, NoProbe, ProbeType
  <1>3. ~(Kind(p) = "dml" /\ probe[p].rows = 0 /\ table[r] # None)
    BY <1>1 DEF IInv, Isolated
  <1>4. /\ table' = [table EXCEPT ![r] = Written(p)]
        /\ probe' = [q \in Probe |->
                       IF q = p THEN Ended(p, "none")
                       ELSE IF probe[q].row = r /\ InTransaction(q)
                            THEN InState(q, "begun", probe[q].rows, "none")
                            ELSE probe[q]]
    BY <1>3 DEF Commit
  <1>5. Written(p) \in RowType /\ Written(p).payload = Written(p).hash
    BY DEF Written, RowType
  <1>6. /\ table' \in [Row -> RowType \cup {None}] /\ table'[r] = Written(p)
        /\ \A s \in Row \ {r} : table'[s] = table[s]
    BY <1>2, <1>4, <1>5 DEF IInv, TypeOK
  <1>7. ASSUME NEW q \in Probe
        PROVE  /\ probe'[q] \in ProbeType \cup {NoProbe} /\ probe'[q].error \in {"none", "outside"}
               /\ probe'[q].at = "read" => probe'[q] = probe[q] /\ probe[q].row # r
    <2>1. CASE q = p
      <3>1. probe'[q] = Ended(p, "none")
        BY <1>4, <2>1
      <3> QED BY <1>1, <3>1, InStateType DEF Ended, IInv
    <2>2. CASE q # p /\ probe[q].row = r /\ InTransaction(q)
      <3>1. probe'[q] = InState(q, "begun", probe[q].rows, "none")
        BY <1>4, <2>2
      <3>2. probe[q].at = "read"
        BY <2>2 DEF InTransaction
      <3>3. probe[q].rows \in {0, 1}
        BY <3>2 DEF IInv, TypeOK, NoProbe, ProbeType
      <3> QED BY <3>1, <3>2, <3>3, InStateType DEF IInv
    <2>3. CASE q # p /\ ~(probe[q].row = r /\ InTransaction(q))
      <3>1. probe'[q] = probe[q]
        BY <1>4, <2>3
      <3> QED BY <2>3, <3>1 DEF IInv, TypeOK, ErrorsFromOutside, InTransaction
    <2> QED BY <2>1, <2>2, <2>3
  <1>8. probe' \in [Probe -> ProbeType \cup {NoProbe}]
    BY <1>4, <1>7
  <1>9. ASSUME NEW s \in Row PROVE HashMatches(s)'
    BY <1>5, <1>6 DEF IInv, Isolated, HashMatches
  <1>10. ASSUME NEW q \in Probe, probe'[q].at = "read", probe'[q].rows = 0
         PROVE  table'[probe'[q].row] = None
    <2>1. probe'[q] = probe[q] /\ probe[q].row # r
      BY <1>7, <1>10
    <2>2. table[probe[q].row] = None /\ probe[q].row \in Row
      BY <1>10, <2>1 DEF IInv, Isolated, TypeOK, NoProbe, ProbeType
    <2> QED BY <1>6, <2>1, <2>2
  <1>11. Isolated' /\ ErrorsFromOutside'
    BY <1>7, <1>9, <1>10 DEF Isolated, ErrorsFromOutside
  <1>12. opsChannel' \in [Task -> Seq(Probe)]
    BY <1>1 DEF IInv, TypeOK
  <1> QED BY <1>1, <1>6, <1>8, <1>11, <1>12, ProbingIInv

LEMMA SendIInv ==
  ASSUME IInv, NEW p \in Probe, Send(p)
  PROVE  IInv'
  <1> DEFINE new == InState(p, "sent", 0, probe[p].error)
  <1>1. probe[p].at = "ended" /\ UNCHANGED <<setupVars, cancelled, table>> /\ probe' = [probe EXCEPT ![p] = new]
    BY DEF Send
  <1>2. probe[p] \in ProbeType /\ probe[p].task \in Task /\ probe[p].error \in {"none", "outside"}
    BY <1>1 DEF IInv, TypeOK, NoProbe, ProbeType, ErrorsFromOutside
  <1>3. new \in ProbeType /\ new.error = probe[p].error /\ new.at = "sent"
    BY <1>1, <1>2, InStateType DEF IInv
  <1>4. opsChannel[probe[p].task] \in Seq(Probe)
    BY <1>2 DEF IInv, TypeOK
  <1>5. Append(opsChannel[probe[p].task], p) \in Seq(Probe)
    BY <1>4
  <1>6. opsChannel' \in [Task -> Seq(Probe)]
    BY <1>2, <1>5 DEF Send, IInv, TypeOK
  <1> HIDE DEF new
  <1> QED BY <1>1, <1>2, <1>3, <1>6, GoroutineIInv

LEMMA RecordIInv ==
  ASSUME IInv, NEW t \in Task, Record(t)
  PROVE  IInv'
  <1>1. opsChannel[t] \in Seq(Probe) /\ opsChannel[t] # <<>> /\ UNCHANGED <<setupVars, cancelled, table>>
    BY DEF Record, IInv, TypeOK
  <1>2. Head(opsChannel[t]) \in Probe /\ Tail(opsChannel[t]) \in Seq(Probe)
    BY <1>1
  <1>3. opsChannel' \in [Task -> Seq(Probe)]
    BY <1>2 DEF Record, IInv, TypeOK
  <1>4. probe' = [probe EXCEPT ![Head(opsChannel[t])] = NoProbe]
    BY DEF Record
  <1>5. NoProbe.error = "none" /\ NoProbe.at = "idle"
    BY DEF NoProbe
  <1> QED BY <1>1, <1>2, <1>3, <1>4, <1>5, GoroutineIInv

-----------------------------------------------------------------------------
LEMMA StepIInv == IInv /\ [Next]_vars => IInv'
  <1> SUFFICES ASSUME IInv, [Next]_vars PROVE IInv'
    OBVIOUS
  <1>1. CASE \E t \in Task : Setup(t)
    BY <1>1, SetupIInv
  <1>2. CASE \E t \in Task : Cancel(t) \/ Stop(t) \/ Record(t)
    BY <1>2, CancelIInv, StopIInv, RecordIInv
  <1>3. CASE \E t \in Task, p \in Probe : Tick(t, p)
    BY <1>3, TickIInv
  <1>4. CASE \E ok \in BOOLEAN : OperationEnds(ok)
    BY <1>4, OperationEndsIInv
  <1>5. ASSUME NEW p \in Probe, NoopProbe(p) \/ Interrupted(p) PROVE IInv'
    <2>1. probe[p].at # "idle" /\ UNCHANGED <<setupVars, cancelled, table, opsChannel>>
      BY <1>5 DEF NoopProbe, Interrupted
    <2>2. probe' = End(p, "none") \/ probe' = End(p, "outside")
      BY <1>5 DEF NoopProbe, Interrupted
    <2> QED BY <2>1, <2>2, EndIInv
  <1>6. CASE \E p \in Probe : RunProbe(p) \/ Send(p)
    BY <1>5, <1>6, ReadIInv, CommitIInv, SendIInv DEF RunProbe
  <1>7. CASE UNCHANGED vars
    BY <1>7 DEF IInv, vars, TypeOK, SetupInv, Knows, GaveUp, IsSetUp, Isolated, ErrorsFromOutside, HashMatches
  <1> QED BY <1>1, <1>2, <1>3, <1>4, <1>6, <1>7 DEF Next

LEMMA Invariance == Spec => []IInv
  BY InitIInv, StepIInv, PTL DEF Spec

\* The variables have their types: also the results in a channel are those of probes.
THEOREM TypeCorrect == Spec => []TypeOK
  <1>1. IInv => TypeOK
    BY DEF IInv
  <1> QED BY <1>1, Invariance, PTL

\* However many tasks create the instance and the database together, none with
\* good options gives up unless Spanner fails or its context is cancelled.
THEOREM RacesAreHarmless == Spec => []RacesHarmless
  <1>1. IInv => RacesHarmless
    BY DEF IInv, SetupInv, GaveUp, RacesHarmless
  <1> QED BY <1>1, Invariance, PTL

\* A task that is set up has a ready instance, whichever task created it.
THEOREM SetUpIsReady == Spec => []SetUpOnReady
  <1>1. IInv => SetUpOnReady
    BY DEF IInv, SetupInv, Knows, SetUpOnReady
  <1> QED BY <1>1, Invariance, PTL

\* Any number of probes of any kinds, of any tasks, on any rows do not make each
\* other fail.
THEOREM ErrorsAreFromOutside == Spec => []ErrorsFromOutside
  <1>1. IInv => ErrorsFromOutside
    BY DEF IInv
  <1> QED BY <1>1, Invariance, PTL
=============================================================================
