--------------------------- MODULE GcpClientStream ---------------------------
(***************************************************************************)
(* gcpClientStream, src/grpcgcp/gcp_interceptor.go: a stream whose real    *)
(* ClientStream is only created by the first SendMsg, because the picker   *)
(* needs the first message.  Senders and receivers share the mutex and the *)
(* condition variable of the gcpClientStream.                              *)
(***************************************************************************)
EXTENDS Integers, FiniteSets

CONSTANTS Sender,     \* goroutines that call SendMsg
          Receiver,   \* goroutines that call RecvMsg
          Closer,     \* goroutines that call another method: CloseSend, Header, ...
          None,       \* no goroutine
          MaxFailures \* bound: failed creations, with those under way

Goroutine == Sender \cup Receiver \cup Closer

ASSUME GoroutineAssumption ==
    /\ None \notin Goroutine /\ MaxFailures \in Nat
    /\ Sender \cap Receiver = {} /\ Sender \cap Closer = {} /\ Receiver \cap Closer = {}

VARIABLES
    locked,        \* who holds the mutex
    ClientStream,  \* the embedded stream: 0 if nil, or the number of its creation
    initStreamErr, \* the error of a failed creation: 0 if nil, or the number of the attempt
    created,       \* ClientStreams created
    attempts,      \* history: calls of the streamer that failed
    panicked,      \* a method of the nil ClientStream was called
    pc,            \* where each goroutine is
    result         \* history: what each goroutine's last method returned

vars == <<locked, ClientStream, initStreamErr, created, attempts, panicked, pc, result>>

(* Where a goroutine is:
     "none"       outside             "wait"      in cond.Wait()
     "lock"       before cs.Lock()    "broadcast" after cs.Unlock(), before cond.Broadcast()
     "create"     in the streamer     "fail"      the same, with an error to return
                                      "use"       in a method of ClientStream *)
PCs == {"none", "lock", "create", "broadcast", "fail", "wait", "use"}

Init ==
    /\ locked = None
    /\ ClientStream = 0
    /\ initStreamErr = 0
    /\ created = 0
    /\ attempts = 0
    /\ panicked = FALSE
    /\ pc = [g \in Goroutine |-> "none"]
    /\ result = [g \in Goroutine |-> "none"]

Goes(g, place) == pc' = [pc EXCEPT ![g] = place]

\* The method of g returns.
Returns(g, value) ==
    /\ Goes(g, "none")
    /\ result' = [result EXCEPT ![g] = value]

\* SendMsg or RecvMsg is called.
Call(g) ==
    /\ ~panicked /\ pc[g] = "none"
    /\ g \in Sender \cup Receiver
    /\ g \in Sender => attempts + Cardinality({s \in Sender : pc[s] # "none"}) < MaxFailures
    /\ Goes(g, "lock")
    /\ result' = [result EXCEPT ![g] = "none"]
    /\ UNCHANGED <<locked, ClientStream, initStreamErr, created, attempts, panicked>>

-----------------------------------------------------------------------------
(***************************************************************************)
(* SendMsg.                                                                *)
(***************************************************************************)

\* Mutant: the stream is created again.
NeedsStream_always == TRUE
NeedsStream == ClientStream = 0

\* cs.Lock() and the test for the stream; without it the streamer is called.
SendMsg(s) ==
    /\ ~panicked /\ pc[s] = "lock" /\ locked = None
    /\ IF NeedsStream
       THEN locked' = s /\ Goes(s, "create")
       ELSE Goes(s, "broadcast") /\ UNCHANGED locked
    /\ UNCHANGED <<ClientStream, initStreamErr, created, attempts, panicked, result>>

\* Mutant: no cs.Unlock() when the creation fails.
LockAfter_kept(ok) == IF ok THEN None ELSE locked
LockAfter(ok) == None

\* The streamer returns a stream or an error; then cs.Unlock().
CreateStream(s) ==
    /\ ~panicked /\ pc[s] = "create"
    /\ \/ /\ locked' = LockAfter(TRUE)
          /\ created' = created + 1
          /\ ClientStream' = created'
          /\ Goes(s, "broadcast")
          /\ UNCHANGED <<initStreamErr, attempts>>
       \/ /\ locked' = LockAfter(FALSE)
          /\ attempts' = attempts + 1
          /\ initStreamErr' = attempts'
          /\ Goes(s, "fail")
          /\ UNCHANGED <<ClientStream, created>>
    /\ UNCHANGED <<panicked, result>>

\* Mutant: a failed creation is not announced.
Announces_success(s) == pc[s] = "broadcast"
Announces(s) == TRUE

\* cond.Broadcast(): those who wait compete for the mutex again.
Woken(s) == IF Announces(s) THEN {r \in Receiver : pc[r] = "wait"} ELSE {}

Broadcast(s) ==
    /\ ~panicked /\ pc[s] \in {"broadcast", "fail"}
    /\ pc' = [g \in Goroutine |-> IF g \in Woken(s) THEN "lock"
                                  ELSE IF g # s THEN pc[g]
                                  ELSE IF pc[s] = "fail" THEN "none" ELSE "use"]
    /\ result' = [result EXCEPT ![s] = IF pc[s] = "fail" THEN "initStreamErr" ELSE @]
    /\ UNCHANGED <<locked, ClientStream, initStreamErr, created, attempts, panicked>>

-----------------------------------------------------------------------------
(***************************************************************************)
(* RecvMsg, and the methods gcpClientStream does not override.             *)
(***************************************************************************)

NothingYet == initStreamErr = 0 /\ ClientStream = 0

\* cs.Lock() and, on waking too, the test whether there is something to do.
RecvMsg(r) ==
    /\ ~panicked /\ pc[r] = "lock" /\ locked = None
    /\ \/ /\ NothingYet
          /\ Goes(r, "wait")
          /\ UNCHANGED result
       \/ /\ ~NothingYet /\ initStreamErr # 0
          /\ Returns(r, "initStreamErr")
       \/ /\ ~NothingYet /\ initStreamErr = 0
          /\ Goes(r, "use")
          /\ UNCHANGED result
    /\ UNCHANGED <<locked, ClientStream, initStreamErr, created, attempts, panicked>>

\* CloseSend, Header, Trailer and Context are those of the embedded ClientStream.
CallEmbedded(g) ==
    /\ ~panicked /\ pc[g] = "none"
    /\ g \in Closer
    /\ Goes(g, "use")
    /\ UNCHANGED <<locked, ClientStream, initStreamErr, created, attempts, panicked, result>>

\* The method of the ClientStream returns, or there is no ClientStream.
Use(g) ==
    /\ ~panicked /\ pc[g] = "use"
    /\ panicked' = (ClientStream = 0)
    /\ Returns(g, "done")
    /\ UNCHANGED <<locked, ClientStream, initStreamErr, created, attempts>>

-----------------------------------------------------------------------------
Next ==
    \/ \E g \in Goroutine : Call(g) \/ CallEmbedded(g) \/ Use(g)
    \/ \E s \in Sender : SendMsg(s) \/ CreateStream(s) \/ Broadcast(s)
    \/ \E r \in Receiver : RecvMsg(r)

\* Goroutines run, the streamer returns, and the mutex is not starved of anyone.
Fairness ==
    /\ \A s \in Sender : SF_vars(SendMsg(s)) /\ WF_vars(CreateStream(s)) /\ WF_vars(Broadcast(s))
    /\ \A r \in Receiver : SF_vars(RecvMsg(r))
    /\ \A g \in Goroutine : WF_vars(Use(g))

Spec == Init /\ [][Next]_vars
FairSpec == Spec /\ Fairness

-----------------------------------------------------------------------------
(***************************************************************************)
(* Properties.                                                             *)
(***************************************************************************)

\* The types; and the mutex is held by the goroutine in the streamer, if any.
TypeOK ==
    /\ locked \in Goroutine \cup {None}
    /\ ClientStream \in Nat /\ initStreamErr \in Nat /\ created \in Nat /\ attempts \in Nat
    /\ panicked \in BOOLEAN
    /\ pc \in [Goroutine -> PCs]
    /\ result \in [Goroutine -> {"none", "initStreamErr", "done"}]
    /\ \A g \in Goroutine : pc[g] = "create" <=> locked = g

\* However many goroutines send first messages at once, and however often the
\* creation fails, at most one real stream is opened, and it is the one in use.
OneStream == created <= 1 /\ ClientStream = created

\* SendMsg and RecvMsg never reach a nil ClientStream, whichever comes first and
\* whatever failed before.
NeverNil == \A g \in Sender \cup Receiver : pc[g] = "use" => ClientStream # 0

\* A RecvMsg that waits is woken when there is a stream or an error: no signal is
\* lost between the test and the wait.
ReceiversWoken ==
    \A r \in Receiver : (pc[r] = "wait" /\ ~NothingYet) ~> (pc[r] # "wait" \/ panicked)

(***************************************************************************)
(* What the comments say, and the code does not do.                        *)
(***************************************************************************)

\* gcp_interceptor.go:118-119: RecvMsg waits "until cs.ClientStream is initialized
\* or the initialization failed": once it is initialized, RecvMsg uses it.
ErrorIsCurrent ==
    [][\A r \in Receiver : RecvMsg(r) /\ ClientStream # 0 => pc'[r] = "use"]_vars

\* gcp_interceptor.go:69-70: the constructor "only stores all parameters and let
\* SendMsg() to create ClientStream"; the other methods need one before.
NoPanic == ~panicked
=============================================================================
