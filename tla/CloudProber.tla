------------------------------- MODULE CloudProber -------------------------------
(***************************************************************************)
(* The cloud prober, src/cloudprober: five probers run one after another,  *)
(* each of them a sequence of Spanner requests in a session of its own.    *)
(* A request may fail, and with it the prober.  At the end the success and *)
(* the latencies of the requests are printed.                              *)
(***************************************************************************)
EXTENDS Naturals, Sequences

\* spannerProbers in the order they are executed in.
Probers == <<"sessionManagement", "executeSql", "read", "transaction", "partition">>

\* The requests of each prober after CreateSession, and the metric each leaves.
Requests == [sessionManagement |-> <<"get_session", "list_sessions">>,
             executeSql |-> <<"execute_sql", "execute_streaming_sql">>,
             read |-> <<"read", "streaming_read">>,
             transaction |-> <<"begin_transaction", "commit", "none", "rollback">>,
             partition |-> <<"partition_query", "partition_read">>]

VARIABLES
    place,        \* where executeSpannerProbers is
    prober,       \* the number of the prober
    request,      \* the number of its request
    err,          \* the prober has returned, or is about to return, an error
    errClient,    \* util.errClient is not nil
    failureCount, \* how many probers returned an error
    success,      \* util.success
    metrics,      \* the metrics measured
    database,     \* the probers whose session exists in the database
    unanswered    \* history: the requests <<prober, name>> not answered as they should

cloudVars == <<place, prober, request, err, errClient, failureCount, success, metrics,
               database, unanswered>>

Now == Probers[prober]

CloudInit ==
    /\ place = "start" /\ prober = 1 /\ request = 0 /\ err = FALSE
    /\ errClient = FALSE /\ failureCount = 0 /\ success = FALSE /\ metrics = {}
    /\ database = {} /\ unanswered = {}

\* createClient, which may fail for good, and newStackdriverUtil, which goes on without.
CreateClients ==
    /\ place = "start"
    /\ place' \in {"create", "fatal"}
    /\ errClient' \in BOOLEAN
    /\ UNCHANGED <<prober, request, err, failureCount, success, metrics, database, unanswered>>

Unanswered(name) == unanswered' = unanswered \cup {<<Now, name>>}

\* createSession ends the program on an error; sessionManagementProber returns it.
\* An error does not say that Spanner has made no session.
CreateSession ==
    /\ place = "create"
    /\ \/ /\ place' = "request" /\ request' = 1 /\ database' = database \cup {Now}
          /\ metrics' = IF Now = "sessionManagement" THEN metrics \cup {"create_session"} ELSE metrics
          /\ UNCHANGED <<err, unanswered>>
       \/ /\ database' \in {database, database \cup {Now}}
          /\ Unanswered("create_session")
          /\ IF Now = "sessionManagement"
             THEN place' = "report" /\ err' = TRUE
             ELSE place' = "fatal" /\ UNCHANGED err
          /\ UNCHANGED <<request, metrics>>
    /\ UNCHANGED <<prober, errClient, failureCount, success>>

\* Mutant: only the session of the first prober is deleted when it fails.
Deferred_first(p) == p = "sessionManagement"

\* The probers that defer deleting their session.
Deferred(p) == p # "transaction"

\* The next request of a prober answers as it should; or it fails, for
\* ListSessions possibly after its latency was measured.
Request ==
    LET r == Requests[Now]
    IN  /\ place = "request"
        /\ \/ /\ metrics' = metrics \cup ({r[request]} \ {"none"})
              /\ IF request < Len(r)
                 THEN request' = request + 1 /\ UNCHANGED place
                 ELSE place' = "delete" /\ UNCHANGED request
              /\ UNCHANGED <<err, unanswered>>
           \/ /\ err' = TRUE /\ Unanswered(r[request])
              /\ metrics' \in {metrics} \cup (IF r[request] = "list_sessions"
                                              THEN {metrics \cup {"list_sessions"}} ELSE {})
              /\ place' = IF Deferred(Now) THEN "delete" ELSE "report"
              /\ UNCHANGED request
        /\ UNCHANGED <<prober, errClient, failureCount, success, database>>

\* An error is ignored, and does not say that Spanner has kept the session.
DeleteSession ==
    /\ place = "delete"
    /\ \/ database' = database \ {Now} /\ UNCHANGED unanswered
       \/ database' \in {database, database \ {Now}} /\ Unanswered("delete_session")
    /\ metrics' = IF Now = "sessionManagement" THEN metrics \cup {"delete_session"} ELSE metrics
    /\ place' = "report"
    /\ UNCHANGED <<prober, request, err, errClient, failureCount, success>>

\* executeSpannerProber: an error is counted, then reported by a client that may be nil.
Report ==
    /\ place = "report"
    /\ failureCount' = failureCount + (IF err THEN 1 ELSE 0)
    /\ err' = FALSE
    /\ IF err /\ ~errClient
       THEN place' = "panicked" /\ UNCHANGED <<prober, success>>
       ELSE IF prober < Len(Probers)
       THEN place' = "create" /\ prober' = prober + 1 /\ UNCHANGED success
       ELSE place' = "printed" /\ success' = (failureCount' = 0) /\ UNCHANGED prober
    /\ UNCHANGED <<request, errClient, metrics, database, unanswered>>

CloudNext == CreateClients \/ CreateSession \/ Request \/ DeleteSession \/ Report

(***************************************************************************)
(* Properties.                                                             *)
(***************************************************************************)

ProberNames == {Probers[i] : i \in 1..Len(Probers)}
AllMetrics == {"create_session", "delete_session"} \cup
              ((UNION {{Requests[p][i] : i \in 1..Len(Requests[p])} : p \in ProberNames}) \ {"none"})

CloudTypeOK ==
    /\ place \in {"start", "create", "request", "delete", "report", "printed", "fatal", "panicked"}
    /\ prober \in 1..Len(Probers) /\ request \in 0..4
    /\ err \in BOOLEAN /\ errClient \in BOOLEAN /\ success \in BOOLEAN
    /\ failureCount \in 0..Len(Probers)
    /\ metrics \subseteq AllMetrics
    /\ database \subseteq ProberNames
    /\ unanswered \subseteq ProberNames \X (AllMetrics \cup {"none"})

\* What is printed is what the service did: success if, and only if, no request
\* failed but deletions of sessions, whose errors are ignored, and then with every
\* latency; and no latency of a request that failed, except of that deletion and
\* of a listing that was complete but did not hold the session.
PrintedTruly ==
    place = "printed" =>
        /\ success <=> \A u \in unanswered : u[2] = "delete_session"
        /\ success => metrics = AllMetrics
        /\ \A u \in unanswered : u[2] \in metrics => u[2] \in {"delete_session", "list_sessions"}

\* The probers that have returned, or have ended the program.
Ended == {Probers[i] : i \in 1..(prober - 1)}
         \cup (IF place \in {"report", "printed", "fatal", "panicked"} THEN {Now} ELSE {})

\* A session that outlives its prober counts against the quota of the database.
\* It does so only if its creation or its deletion was not answered, or if it
\* is that of transactionProber, which deletes its session at its end only, and
\* a request of it failed: whichever other prober fails deletes its session.
LeftSessionsHaveCauses ==
    \A p \in database \cap Ended :
        \E u \in unanswered :
            u[1] = p /\ (u[2] \in {"create_session", "delete_session"} \/ p = "transaction")

\* What was printed, and what was left in the database, can be accounted for.
Accountable == PrintedTruly /\ LeftSessionsHaveCauses

(***************************************************************************)
(* What the comments say, and the code does not do.                        *)
(***************************************************************************)

\* stackdriverutils.go:64,67: an error is reported to stderr and to the error
\* log, whether or not there is a client for the log.
ErrorsReported == place # "panicked"

\* What the deferred deletions of the other probers are for: a request that fails
\* leaves no session behind.
NoSessionLeft ==
    \A p \in database \cap Ended :
        \E u \in unanswered : u[1] = p /\ u[2] \in {"create_session", "delete_session"}

\* The latencies printed are those of requests that were answered.
LatenciesOfAnswers == \A u \in unanswered : place = "printed" => u[2] \notin metrics
=============================================================================
