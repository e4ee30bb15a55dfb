-------------------------------- MODULE MCClients --------------------------------
(* The two programs that only call services, LoadTest and CloudProber, for TLC:  *)
(* they share nothing, and a behaviour is one of the one or of the other.        *)
EXTENDS LoadTest, CloudProber

VARIABLE program

vars == <<program, loadVars, cloudVars>>

\* Each method alone, two together, none at all, and a name that is no method.
MCInputs == {{m} : m \in Methods} \cup {{"UnaryCall", "HalfDuplexCall"}, {}, {"other"}}

\* The command line is of the load test: one is enough beside the cloud prober.
Init ==
    /\ LoadInit /\ CloudInit
    /\ program \in {"load"} \cup (IF methods = {} THEN {"cloud"} ELSE {})

Next ==
    /\ UNCHANGED program
    /\ \/ program = "load" /\ LoadNext /\ UNCHANGED cloudVars
       \/ program = "cloud" /\ CloudNext /\ UNCHANGED loadVars

\* Goroutines run, and RPCs of a server that answers return.
Fairness == \A w \in WorkerID : WF_vars(program = "load" /\ Step(w) /\ UNCHANGED <<program, cloudVars>>)

Spec == Init /\ [][Next]_vars /\ Fairness

\* The type of every variable of both programs.
TypeOK == LoadTypeOK /\ CloudTypeOK
=============================================================================
