-------------------------------- MODULE LoadTest --------------------------------
(***************************************************************************)
(* The load test client, src/continuous_load_testing/client.go: for every  *)
(* method enabled it starts workers, each of which makes calls in a loop.  *)
(*                                                                         *)
(* The server is external: it answers every request of a stream with the   *)
(* same number of messages, ends a stream when the client has closed it    *)
(* and everything is answered, and may fail at any time.                   *)
(***************************************************************************)
EXTENDS Naturals, FiniteSets

CONSTANTS Worker,         \* the workers of a method: as many as concurrency says
          NumOfRequests,  \* num_of_requests
          Inputs,         \* the sets of methods that may be given on the command line
          Answers,        \* the messages a server may answer a request with
          MaxUnread       \* bound: the answers that a bidi stream holds unread

Unary == {"EmptyCall", "UnaryCall"}
Streaming == {"StreamingInputCall", "StreamingOutputCall", "FullDuplexCall", "HalfDuplexCall"}
Bidi == {"StreamedSequentialUnaryCall"}
Methods == Unary \cup Streaming \cup Bidi
WorkerID == Methods \X Worker

ASSUME LoadAssumption == NumOfRequests \in Nat /\ MaxUnread \in Nat /\ Answers \subseteq Nat

VARIABLES
    client,  \* main: "start", "running" or "fatal"
    methods, \* the methods given, and then those enabled
    worker   \* the goroutines, and the stream each of them has

loadVars == <<client, methods, worker>>

NoCall == [at |-> "none", answers |-> 0, sent |-> 0, received |-> 0, closed |-> FALSE,
           unread |-> 0, receivers |-> 0, recvErr |-> FALSE, result |-> "none"]

LoadInit ==
    /\ client = "start"
    /\ methods \in Inputs
    /\ worker = [w \in WorkerID |-> NoCall]

\* main: flags, telemetry and the connection, and then the workers.
Main ==
    /\ client = "start"
    /\ \/ client' = "fatal" /\ UNCHANGED <<methods, worker>>
       \/ /\ methods \subseteq Methods
          /\ client' = "running"
          /\ methods' = IF methods = {} THEN {"EmptyCall"} ELSE methods
          /\ worker' = [w \in WorkerID |-> IF w[1] \in methods'
                                           THEN [NoCall EXCEPT !.at = "call"] ELSE NoCall]

-----------------------------------------------------------------------------
Move(w, from, new) ==
    /\ worker[w].at = from
    /\ worker' = [worker EXCEPT ![w] = new]
    /\ UNCHANGED <<client, methods>>

\* The method function returns.
Return(c, result) == [c EXCEPT !.at = "returned", !.result = result]

\* Messages the server has still to send, on a stream that is not bidi.
Owed(c) == c.answers * c.sent - c.received

\* Mutant: one request too many.
AfterSend_more(m, c) ==
    [c EXCEPT !.at = IF m = "FullDuplexCall" THEN "recv"
                     ELSE IF c.sent <= NumOfRequests THEN "send"
                     ELSE IF m = "StreamingInputCall" THEN "last" ELSE "close"]

\* Where a stream goes on after it was opened, and after every message.
AfterOpen(m, c) ==
    [c EXCEPT !.at = CASE m = "StreamingOutputCall" -> "recv"
                       [] m \in Bidi -> "virtual"
                       [] OTHER -> IF NumOfRequests > 0 THEN "send"
                                   ELSE IF m = "StreamingInputCall" THEN "last" ELSE "close"]

AfterSend(m, c) ==
    [c EXCEPT !.at = IF m = "FullDuplexCall" THEN "recv"
                     ELSE IF c.sent < NumOfRequests THEN "send"
                     ELSE IF m = "StreamingInputCall" THEN "last" ELSE "close"]

AfterRecv(m, c) ==
    [c EXCEPT !.at = IF m = "StreamingOutputCall" THEN "recv"
                     ELSE IF c.received < NumOfRequests
                     THEN IF m = "FullDuplexCall" THEN "send" ELSE "recv"
                     ELSE IF m = "FullDuplexCall" THEN "close" ELSE "last"]

AfterClose(m, c) ==
    [c EXCEPT !.at = IF m = "HalfDuplexCall" /\ NumOfRequests > 0 THEN "recv" ELSE "last",
              !.closed = TRUE]

\* The RPC is made, or its stream is opened; a bidi stream is tried for again.
\* The request of StreamingOutputCall is sent and closed with it.
Call(w) ==
    LET m == w[1]  c == worker[w]
    IN  \/ m \in Unary /\ \E r \in {"ok", "error"} : Move(w, "call", Return(c, r))
        \/ /\ m \notin Unary
           /\ \E a \in Answers :
             Move(w, "call", AfterOpen(m, [c EXCEPT !.answers = a,
                                                    !.sent = IF m = "StreamingOutputCall" THEN 1 ELSE 0,
                                                    !.closed = m = "StreamingOutputCall"]))
        \/ m \in Streaming /\ Move(w, "call", Return(c, "error"))

Send(w) ==
    LET m == w[1]  c == worker[w]
    IN  \/ Move(w, "send", AfterSend(m, [c EXCEPT !.sent = @ + 1]))
        \/ Move(w, "send", Return(c, "error"))

\* A message, the end of the stream, or an error.
Recv(w) ==
    LET m == w[1]  c == worker[w]
    IN  \/ Owed(c) > 0 /\ Move(w, "recv", AfterRecv(m, [c EXCEPT !.received = @ + 1]))
        \/ /\ Owed(c) = 0 /\ c.closed
           /\ Move(w, "recv", Return(c, IF m = "StreamingOutputCall" THEN "ok" ELSE "error"))
        \/ Move(w, "recv", Return(c, "error"))

CloseSend(w) ==
    LET m == w[1]  c == worker[w]
    IN  Move(w, "close", AfterClose(m, c)) \/ Move(w, "close", Return(c, "error"))

\* The end of the stream is all that may come now; for StreamingInputCall it is
\* CloseAndRecv and the response.
Finish(w) ==
    LET m == w[1]  c == worker[w]
    IN  \/ /\ m = "StreamingInputCall" \/ Owed(c) = 0
           /\ Move(w, "last", Return(c, "ok"))
        \/ Move(w, "last", Return(c, "error"))

\* Mutant: an error ends the worker.
GoesOn_success(w) == w[1] \notin Bidi /\ worker[w].result = "ok"

\* executeMethod's worker goes on for ever, executeBidiMethod's ends.
GoesOn(w) == w[1] \notin Bidi

Loop(w) ==
    Move(w, "returned", [NoCall EXCEPT !.at = IF GoesOn(w) THEN "call" ELSE "exited",
                                       !.unread = worker[w].unread,
                                       !.receivers = worker[w].receivers])

-----------------------------------------------------------------------------
(***************************************************************************)
(* ExecuteStreamedSequentialUnaryCall: virtual RPCs on one stream.         *)
(***************************************************************************)

\* A goroutine is started that receives the response, or whatever the stream
\* holds unread of the answers to earlier requests.
StartVirtual(w) ==
    Move(w, "virtual", [worker[w] EXCEPT !.at = "sending", !.receivers = @ + 1, !.recvErr = FALSE])

\* When sending fails the goroutine is left alone; no error is returned, err is shadowed.
SendVirtual(w) ==
    LET c == worker[w]
    IN  \/ /\ c.unread + c.answers <= MaxUnread
           /\ Move(w, "sending", [c EXCEPT !.at = "waiting", !.unread = @ + c.answers])
        \/ Move(w, "sending", Return(c, "ok"))

ReceiverDone(w) ==
    LET c == worker[w]
    IN  /\ c.receivers > 0
        /\ \/ /\ c.unread > 0
              /\ Move(w, c.at, [c EXCEPT !.receivers = @ - 1, !.unread = @ - 1])
           \/ Move(w, c.at, [c EXCEPT !.receivers = @ - 1, !.recvErr = TRUE])

\* Mutant: wg.Wait() is forgotten.
Received_now(w) == TRUE

\* wg.Wait()
Received(w) == worker[w].receivers = 0

EndVirtual(w) ==
    /\ Received(w)
    /\ Move(w, "waiting", IF worker[w].recvErr THEN Return(worker[w], "ok")
                          ELSE [worker[w] EXCEPT !.at = "virtual"])

-----------------------------------------------------------------------------
Step(w) ==
    \/ Call(w) \/ Send(w) \/ Recv(w) \/ CloseSend(w) \/ Finish(w) \/ Loop(w)
    \/ StartVirtual(w) \/ SendVirtual(w) \/ ReceiverDone(w) \/ EndVirtual(w)

LoadNext == Main \/ \E w \in WorkerID : Step(w)

(***************************************************************************)
(* Properties.                                                             *)
(***************************************************************************)

CallType ==
    [at : {"none", "call", "send", "recv", "close", "last", "virtual", "sending", "waiting",
           "returned", "exited"},
     answers : Answers \cup {0}, sent : 0..NumOfRequests \cup {1}, received : Nat,
     closed : BOOLEAN, unread : 0..MaxUnread, receivers : Nat, recvErr : BOOLEAN,
     result : {"none", "ok", "error"}]

LoadTypeOK ==
    /\ client \in {"start", "running", "fatal"}
    /\ methods \subseteq Methods \/ client # "running"
    /\ worker \in [WorkerID -> CallType]

\* A stream call that is counted as a success sent all its requests, and nothing
\* the server answered was left unread, however many answers that are.
SuccessIsComplete ==
    \A w \in WorkerID :
        w[1] \in Streaming /\ worker[w].result = "ok" =>
            /\ w[1] # "StreamingOutputCall" => worker[w].sent = NumOfRequests
            /\ w[1] # "StreamingInputCall" => Owed(worker[w]) = 0

\* Two goroutines never receive from one stream, which gRPC does not allow, and a
\* result is read only when the goroutine that sets it has ended.
OneReceiver ==
    \A w \in WorkerID :
        /\ worker[w].receivers <= 1
        /\ worker[w].at = "virtual" => worker[w].receivers = 0

\* What the streams of a worker promise whoever counts its successes and latencies.
StreamsInOrder == SuccessIsComplete /\ OneReceiver

\* Every call of a worker of executeMethod ends and is followed by another,
\* whatever the server does, as long as it answers.
CallsGoOn ==
    \A w \in (Unary \cup Streaming) \X Worker :
        worker[w].at # "none" ~> worker[w].at = "returned"

(***************************************************************************)
(* What the comments and the log say, and the code does not do.             *)
(***************************************************************************)

\* client.go:166: "persistent bidi stream workers", and client.go:320:
\* "Restarting stream after failure or completion."
BidiPersists == \A w \in WorkerID : worker[w].at # "exited"
=============================================================================
