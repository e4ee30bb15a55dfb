----------------------------- MODULE Clients_proofs -----------------------------
(***************************************************************************)
(* Proofs about LoadTest and CloudProber, for any number of workers, of    *)
(* requests of a stream and of answers to a request.                       *)
(***************************************************************************)
EXTENDS MCClients, TLAPS

-----------------------------------------------------------------------------
(***************************************************************************)
(* LoadTest: where a method is in its stream tells what went over it.      *)
(***************************************************************************)

\* The call or the virtual RPC is complete, as a success is to be.
Complete(m, c) ==
    /\ m # "StreamingOutputCall" => c.sent = NumOfRequests
    /\ m # "StreamingInputCall" => Owed(c) = 0

\* What went over the stream before the method got to the place at.
Reaches(m, c, at) ==
    /\ at = "call" => c.sent = 0 /\ c.received = 0
    /\ at = "send" =>
          /\ m \in {"StreamingInputCall", "FullDuplexCall", "HalfDuplexCall"}
          /\ c.sent < NumOfRequests
          /\ m = "FullDuplexCall" => c.received = c.sent
          /\ m = "HalfDuplexCall" => c.received = 0
    /\ at = "recv" =>
          /\ m \in {"StreamingOutputCall", "FullDuplexCall", "HalfDuplexCall"}
          /\ m = "FullDuplexCall" => c.sent <= NumOfRequests /\ c.sent = c.received + 1
          /\ m = "HalfDuplexCall" => c.sent = NumOfRequests /\ c.received < NumOfRequests
    /\ at = "close" =>
          /\ m \in {"FullDuplexCall", "HalfDuplexCall"}
          /\ c.sent = NumOfRequests
          /\ m = "HalfDuplexCall" => c.received = 0
    /\ at = "last" => m \in Streaming \ {"StreamingOutputCall"} /\ c.sent = NumOfRequests
    /\ at \in {"virtual", "sending", "waiting", "exited"} => m \in Bidi

StreamOK(m, c) ==
    /\ Reaches(m, c, c.at)
    /\ c.result # "none" => c.at = "returned"
    /\ m \in Streaming /\ c.result = "ok" => Complete(m, c)
    /\ c.receivers <= 1
    /\ m \notin Bidi \/ c.at \in {"none", "call", "virtual"} => c.receivers = 0

LoadInv == LoadTypeOK /\ \A w \in WorkerID : StreamOK(w[1], worker[w])

\* new may be the locals of a worker of m.
Fine(m, new) == new \in CallType /\ StreamOK(m, new)

LEMMA WorkerMethod == ASSUME NEW w \in WorkerID PROVE w[1] \in Methods
BY DEF WorkerID

LEMMA MoveKeeps ==
    ASSUME LoadInv, NEW w \in WorkerID, NEW from, NEW new, Move(w, from, new), Fine(w[1], new)
    PROVE  LoadInv'
<1>1. /\ worker' = [worker EXCEPT ![w] = new] /\ UNCHANGED <<client, methods>>
      /\ worker \in [WorkerID -> CallType]
  BY DEF LoadInv, LoadTypeOK, Move
<1>2. LoadTypeOK'
  BY <1>1 DEF LoadInv, LoadTypeOK, Fine
<1>3. \A x \in WorkerID : StreamOK(x[1], worker'[x])
  BY <1>1 DEF LoadInv, Fine
<1> QED
  BY <1>2, <1>3 DEF LoadInv, StreamOK, Reaches, Complete, Owed

LEMMA IdleFine ==
    ASSUME NEW m, NEW new \in CallType, new.at \in {"none", "call"}, new.result = "none",
           new.sent = 0, new.received = 0, new.receivers = 0
    PROVE  Fine(m, new)
BY DEF Fine, StreamOK, Reaches

LEMMA NoCallFine ==
    ASSUME NEW m, NEW at \in {"none", "call"}
    PROVE  Fine(m, [NoCall EXCEPT !.at = at])
<1> DEFINE new == [NoCall EXCEPT !.at = at]
<1>1. new \in CallType
  <2>1. 0 \in Answers \cup {0} /\ 0 \in 0..NumOfRequests \cup {1} /\ 0 \in Nat /\ 0 \in 0..MaxUnread
    BY LoadAssumption
  <2> QED
    BY <2>1 DEF NoCall, CallType
<1>2. new.at = at /\ new.result = "none" /\ new.sent = 0 /\ new.received = 0 /\ new.receivers = 0
  BY DEF NoCall
<1> HIDE DEF new
<1>3. Fine(m, new)
  BY <1>1, <1>2, IdleFine
<1> QED
  BY <1>3 DEF new

LEMMA ReturnFine ==
    ASSUME NEW m, NEW c \in CallType, StreamOK(m, c), NEW r \in {"ok", "error"},
           m \in Streaming /\ r = "ok" => Complete(m, c)
    PROVE  Fine(m, Return(c, r))
<1> DEFINE new == Return(c, r)
<1>1. new \in CallType
  BY DEF Return, CallType
<1>2. /\ new.at = "returned" /\ new.result = r /\ new.answers = c.answers /\ new.sent = c.sent
      /\ new.received = c.received /\ new.receivers = c.receivers
  BY DEF Return, CallType
<1> HIDE DEF new
<1>3. Complete(m, c) => Complete(m, new)
  BY <1>2 DEF Complete, Owed
<1>4. StreamOK(m, new)
  BY <1>2, <1>3 DEF StreamOK, Reaches
<1> QED
  BY <1>1, <1>4 DEF Fine, new

\* Going on at another place, before the method returns.
LEMMA AtFine ==
    ASSUME NEW m, NEW c \in CallType, NEW at \in {"send", "recv", "close", "last", "virtual"},
           c.result = "none", c.receivers = 0, Reaches(m, c, at),
           NEW new, new = [c EXCEPT !.at = at]
    PROVE  Fine(m, new)
<1>1. new \in CallType
  BY DEF CallType
<1>2. /\ new.at = at /\ new.result = c.result /\ new.sent = c.sent
      /\ new.received = c.received /\ new.receivers = c.receivers
  BY DEF CallType
<1>3. StreamOK(m, new)
  BY <1>2 DEF StreamOK, Reaches
<1> QED
  BY <1>1, <1>3 DEF Fine

LEMMA MainKeeps == ASSUME LoadInv, Main PROVE LoadInv'
<1>1. CASE client' = "fatal" /\ UNCHANGED <<methods, worker>>
  BY <1>1 DEF LoadInv, LoadTypeOK, StreamOK, Reaches, Complete, Owed
<1>2. CASE /\ methods \subseteq Methods
           /\ client' = "running"
           /\ methods' = IF methods = {} THEN {"EmptyCall"} ELSE methods
           /\ worker' = [w \in WorkerID |-> IF w[1] \in methods'
                                            THEN [NoCall EXCEPT !.at = "call"] ELSE NoCall]
  <2>1. \A w \in WorkerID : worker'[w] \in {[NoCall EXCEPT !.at = "call"], NoCall}
    BY <1>2
  <2>2. NoCall = [NoCall EXCEPT !.at = "none"]
    BY DEF NoCall
  <2>3. \A w \in WorkerID : Fine(w[1], worker'[w])
    BY <2>1, <2>2, NoCallFine
  <2>4. LoadTypeOK'
    BY <1>2, <2>3 DEF LoadTypeOK, Fine, Methods, Unary
  <2> QED
    BY <2>3, <2>4 DEF LoadInv, Fine, StreamOK, Reaches, Complete, Owed
<1> QED
  BY <1>1, <1>2 DEF Main

LEMMA Typed ==
    ASSUME LoadInv, NEW w \in WorkerID
    PROVE  /\ worker[w] \in CallType /\ StreamOK(w[1], worker[w]) /\ w[1] \in Methods
           /\ worker[w].sent \in Nat /\ worker[w].received \in Nat /\ worker[w].receivers \in Nat
           /\ NumOfRequests \in Nat
BY LoadAssumption, WorkerMethod DEF LoadInv, LoadTypeOK, CallType

LEMMA FailureKeeps ==
    ASSUME LoadInv, NEW w \in WorkerID, NEW from, Move(w, from, Return(worker[w], "error"))
    PROVE  LoadInv'
BY Typed, ReturnFine, MoveKeeps

LEMMA CallKeeps == ASSUME LoadInv, NEW w \in WorkerID, Call(w) PROVE LoadInv'
<1> DEFINE m == w[1]
           c == worker[w]
<1>1. ASSUME m \in Unary, NEW r \in {"ok", "error"}, Move(w, "call", Return(c, r)) PROVE LoadInv'
  <2>1. m \notin Streaming
    BY <1>1 DEF Unary, Streaming
  <2> QED
    BY <1>1, <2>1, Typed, ReturnFine, MoveKeeps
<1>2. ASSUME m \notin Unary, NEW a \in Answers
      PROVE  LET opened == [c EXCEPT !.answers = a,
                                     !.sent = IF m = "StreamingOutputCall" THEN 1 ELSE 0,
                                     !.closed = m = "StreamingOutputCall"]
             IN  Move(w, "call", AfterOpen(m, opened)) => LoadInv'
  <2> DEFINE opened == [c EXCEPT !.answers = a,
                                 !.sent = IF m = "StreamingOutputCall" THEN 1 ELSE 0,
                                 !.closed = m = "StreamingOutputCall"]
  <2> SUFFICES ASSUME Move(w, "call", AfterOpen(m, opened)) PROVE LoadInv'
    OBVIOUS
  <2>1. /\ c.at = "call" /\ c \in CallType /\ c.received = 0 /\ c.receivers = 0 /\ c.result = "none"
        /\ m \in Streaming \cup Bidi
    BY <1>2, Typed DEF Move, StreamOK, Reaches, Methods
  <2>2. opened \in CallType
    <3> DEFINE closed == m = "StreamingOutputCall"
               sent == IF m = "StreamingOutputCall" THEN 1 ELSE 0
    <3>1. closed \in BOOLEAN /\ sent \in 0..NumOfRequests \cup {1} /\ a \in Answers \cup {0}
      BY LoadAssumption
    <3> HIDE DEF closed, sent
    <3> QED
      BY <2>1, <3>1 DEF CallType, closed, sent
  <2>3. /\ opened.sent = IF m = "StreamingOutputCall" THEN 1 ELSE 0
        /\ opened.received = 0 /\ opened.receivers = 0 /\ opened.result = "none"
    BY <2>1 DEF CallType
  <2> HIDE DEF opened
  <2> DEFINE at == CASE m = "StreamingOutputCall" -> "recv"
                     [] m \in Bidi -> "virtual"
                     [] OTHER -> IF NumOfRequests > 0 THEN "send"
                                 ELSE IF m = "StreamingInputCall" THEN "last" ELSE "close"
  <2>4. AfterOpen(m, opened) = [opened EXCEPT !.at = at]
    BY DEF AfterOpen
  <2>5. at \in {"send", "recv", "close", "last", "virtual"} /\ Reaches(m, opened, at)
    BY <2>1, <2>3, LoadAssumption DEF Reaches, Streaming, Bidi
  <2> HIDE DEF at
  <2>6. Fine(m, AfterOpen(m, opened))
    BY <2>2, <2>3, <2>4, <2>5, AtFine
  <2> QED
    BY <2>6, MoveKeeps
<1> QED
  BY <1>1, <1>2, FailureKeeps DEF Call

LEMMA SendKeeps == ASSUME LoadInv, NEW w \in WorkerID, Send(w) PROVE LoadInv'
<1> DEFINE m == w[1]
           c == worker[w]
           next == [c EXCEPT !.sent = @ + 1]
<1> SUFFICES ASSUME Move(w, "send", AfterSend(m, next)) PROVE LoadInv'
  BY FailureKeeps DEF Send
<1>1. /\ c.at = "send" /\ c \in CallType /\ c.sent \in Nat /\ c.received \in Nat /\ NumOfRequests \in Nat
      /\ m \in {"StreamingInputCall", "FullDuplexCall", "HalfDuplexCall"}
      /\ c.sent < NumOfRequests /\ c.receivers = 0 /\ c.result = "none"
      /\ m = "FullDuplexCall" => c.received = c.sent
      /\ m = "HalfDuplexCall" => c.received = 0
  BY Typed DEF Move, StreamOK, Reaches, Bidi
<1>2. next \in CallType
  BY <1>1 DEF CallType
<1>3. /\ next.sent = c.sent + 1 /\ next.received = c.received
      /\ next.receivers = 0 /\ next.result = "none"
  BY <1>1 DEF CallType
<1> HIDE DEF next
<1> DEFINE at == IF m = "FullDuplexCall" THEN "recv"
                 ELSE IF next.sent < NumOfRequests THEN "send"
                 ELSE IF m = "StreamingInputCall" THEN "last" ELSE "close"
<1>4. AfterSend(m, next) = [next EXCEPT !.at = at]
  BY DEF AfterSend
<1>5. at \in {"send", "recv", "close", "last"} /\ Reaches(m, next, at)
  BY <1>1, <1>3 DEF Reaches, Streaming
<1> HIDE DEF at
<1>6. Fine(m, AfterSend(m, next))
  BY <1>2, <1>3, <1>4, <1>5, AtFine
<1> QED
  BY <1>6, MoveKeeps

LEMMA RecvKeeps == ASSUME LoadInv, NEW w \in WorkerID, Recv(w) PROVE LoadInv'
<1> DEFINE m == w[1]
           c == worker[w]
           next == [c EXCEPT !.received = @ + 1]
<1>1. CASE Move(w, "recv", AfterRecv(m, next))
  <2>1. /\ c.at = "recv" /\ c \in CallType /\ c.sent \in Nat /\ c.received \in Nat /\ NumOfRequests \in Nat
        /\ m \in {"StreamingOutputCall", "FullDuplexCall", "HalfDuplexCall"}
        /\ m = "FullDuplexCall" => c.sent <= NumOfRequests /\ c.sent = c.received + 1
        /\ m = "HalfDuplexCall" => c.sent = NumOfRequests /\ c.received < NumOfRequests
        /\ c.receivers = 0 /\ c.result = "none"
    BY <1>1, Typed DEF Move, StreamOK, Reaches, Bidi
  <2>2. next \in CallType
    BY <2>1 DEF CallType
  <2>3. /\ next.sent = c.sent /\ next.received = c.received + 1
        /\ next.receivers = 0 /\ next.result = "none"
    BY <2>1 DEF CallType
  <2> HIDE DEF next
  <2> DEFINE at == IF m = "StreamingOutputCall" THEN "recv"
                   ELSE IF next.received < NumOfRequests
                   THEN IF m = "FullDuplexCall" THEN "send" ELSE "recv"
                   ELSE IF m = "FullDuplexCall" THEN "close" ELSE "last"
  <2>4. AfterRecv(m, next) = [next EXCEPT !.at = at]
    BY DEF AfterRecv
  <2>5. at \in {"send", "recv", "close", "last"} /\ Reaches(m, next, at)
    BY <2>1, <2>3 DEF Reaches, Streaming
  <2> HIDE DEF at
  <2>6. Fine(m, AfterRecv(m, next))
    BY <2>2, <2>3, <2>4, <2>5, AtFine
  <2> QED
    BY <1>1, <2>6, MoveKeeps
<1>2. CASE /\ Owed(c) = 0
           /\ Move(w, "recv", Return(c, IF m = "StreamingOutputCall" THEN "ok" ELSE "error"))
  BY <1>2, Typed, ReturnFine, MoveKeeps DEF Complete
<1> QED
  BY <1>1, <1>2, FailureKeeps DEF Recv

LEMMA CloseSendKeeps == ASSUME LoadInv, NEW w \in WorkerID, CloseSend(w) PROVE LoadInv'
<1> DEFINE m == w[1]
           c == worker[w]
           next == [c EXCEPT !.closed = TRUE]
<1> SUFFICES ASSUME Move(w, "close", AfterClose(m, c)) PROVE LoadInv'
  BY FailureKeeps DEF CloseSend
<1>1. /\ c.at = "close" /\ c \in CallType /\ NumOfRequests \in Nat /\ c.received \in Nat
      /\ m \in {"FullDuplexCall", "HalfDuplexCall"}
      /\ c.sent = NumOfRequests /\ c.receivers = 0 /\ c.result = "none"
      /\ m = "HalfDuplexCall" => c.received = 0
  BY Typed DEF Move, StreamOK, Reaches, Bidi
<1> DEFINE at == IF m = "HalfDuplexCall" /\ NumOfRequests > 0 THEN "recv" ELSE "last"
           new == AfterClose(m, c)
<1>2. new \in CallType
  BY <1>1 DEF AfterClose, CallType
<1>3. /\ new.at = at /\ new.sent = c.sent /\ new.received = c.received
      /\ new.receivers = 0 /\ new.result = "none"
  BY <1>1 DEF AfterClose, CallType
<1>4. Reaches(m, c, at) /\ at \in {"recv", "last"}
  BY <1>1 DEF Reaches, Streaming
<1> HIDE DEF at, new
<1>5. StreamOK(m, new)
  BY <1>3, <1>4 DEF StreamOK, Reaches
<1> QED
  BY <1>2, <1>5, MoveKeeps DEF Fine, new

LEMMA FinishKeeps == ASSUME LoadInv, NEW w \in WorkerID, Finish(w) PROVE LoadInv'
<1> DEFINE m == w[1]
           c == worker[w]
<1>1. CASE /\ m = "StreamingInputCall" \/ Owed(c) = 0
           /\ Move(w, "last", Return(c, "ok"))
  <2>1. Complete(m, c)
    BY <1>1, Typed DEF Move, StreamOK, Reaches, Complete
  <2> QED
    BY <1>1, <2>1, Typed, ReturnFine, MoveKeeps
<1> QED
  BY <1>1, FailureKeeps DEF Finish

\* A bidi stream, on which virtual RPCs follow each other.
LEMMA VirtualFine ==
    ASSUME NEW m \in Bidi, NEW new \in CallType, new.receivers <= 1, new.result # "none" => new.at = "returned",
           new.at \in {"virtual", "sending", "waiting", "returned", "exited"},
           new.at = "virtual" => new.receivers = 0
    PROVE  Fine(m, new)
BY DEF Fine, StreamOK, Reaches, Bidi, Streaming

LEMMA LoopKeeps == ASSUME LoadInv, NEW w \in WorkerID, Loop(w) PROVE LoadInv'
<1> DEFINE m == w[1]
           c == worker[w]
           new == [NoCall EXCEPT !.at = IF GoesOn(w) THEN "call" ELSE "exited",
                                 !.unread = c.unread, !.receivers = c.receivers]
<1>0. /\ Move(w, "returned", new) /\ c \in CallType /\ StreamOK(m, c) /\ c.receivers \in Nat
      /\ c.unread \in 0..MaxUnread
  BY Typed DEF Loop, CallType
<1>1. new \in CallType
  <2>1. 0 \in Answers \cup {0} /\ 0 \in 0..NumOfRequests \cup {1} /\ 0 \in Nat
    BY LoadAssumption
  <2> QED
    BY <1>0, <2>1 DEF NoCall, CallType
<1>2. /\ new.at = IF GoesOn(w) THEN "call" ELSE "exited"
      /\ new.receivers = c.receivers /\ new.result = "none" /\ new.sent = 0 /\ new.received = 0
  BY DEF NoCall
<1>3. c.receivers <= 1 /\ (m \notin Bidi => c.receivers = 0)
  BY <1>0 DEF StreamOK
<1> HIDE DEF new
<1>4. Fine(m, new)
  BY <1>1, <1>2, <1>3, IdleFine, VirtualFine DEF GoesOn
<1> QED
  BY <1>0, <1>4, MoveKeeps

LEMMA StartVirtualKeeps == ASSUME LoadInv, NEW w \in WorkerID, StartVirtual(w) PROVE LoadInv'
<1> DEFINE c == worker[w]
           new == [c EXCEPT !.at = "sending", !.receivers = @ + 1, !.recvErr = FALSE]
<1>1. /\ Move(w, "virtual", new) /\ w[1] \in Bidi
      /\ c \in CallType /\ c.receivers = 0 /\ c.result = "none"
  BY Typed DEF StartVirtual, Move, StreamOK, Reaches
<1>2. c.receivers + 1 \in Nat
  BY <1>1
<1>3. new \in CallType
  BY <1>1, <1>2 DEF CallType
<1>4. new.at = "sending" /\ new.receivers = 1 /\ new.result = "none"
  BY <1>1 DEF CallType
<1> HIDE DEF new
<1> QED
  BY <1>1, <1>3, <1>4, VirtualFine, MoveKeeps

LEMMA SendVirtualKeeps == ASSUME LoadInv, NEW w \in WorkerID, SendVirtual(w) PROVE LoadInv'
<1> DEFINE c == worker[w]
           new == [c EXCEPT !.at = "waiting", !.unread = @ + c.answers]
<1>1. /\ w[1] \in Bidi /\ w[1] \notin Streaming
      /\ c \in CallType /\ StreamOK(w[1], c) /\ c.receivers <= 1 /\ c.result = "none"
  BY Typed DEF SendVirtual, Move, StreamOK, Reaches, Bidi, Streaming
<1>2. ASSUME c.unread + c.answers <= MaxUnread, Move(w, "sending", new) PROVE LoadInv'
  <2>1. c.unread + c.answers \in 0..MaxUnread
    BY <1>1, <1>2, LoadAssumption DEF CallType
  <2>2. new \in CallType /\ new.at = "waiting" /\ new.receivers = c.receivers /\ new.result = "none"
    BY <1>1, <2>1 DEF CallType
  <2> HIDE DEF new
  <2> QED
    BY <1>1, <1>2, <2>2, VirtualFine, MoveKeeps
<1>3. Fine(w[1], Return(c, "ok"))
  BY <1>1, ReturnFine
<1> QED
  BY <1>2, <1>3, MoveKeeps DEF SendVirtual

LEMMA ReceiverDoneKeeps == ASSUME LoadInv, NEW w \in WorkerID, ReceiverDone(w) PROVE LoadInv'
<1> DEFINE c == worker[w]
           got == [c EXCEPT !.receivers = @ - 1, !.unread = @ - 1]
           failed == [c EXCEPT !.receivers = @ - 1, !.recvErr = TRUE]
<1>1. /\ c \in CallType /\ StreamOK(w[1], c) /\ c.receivers \in Nat /\ c.receivers > 0
      /\ w[1] \in Bidi /\ c.at \in {"sending", "waiting", "returned", "exited"}
  BY Typed DEF ReceiverDone, StreamOK, Reaches, Bidi, Streaming, CallType
<1>2. c.receivers = 1 /\ c.receivers - 1 = 0 /\ (c.result # "none" => c.at = "returned")
  BY <1>1 DEF StreamOK
<1>r. c.receivers - 1 = 0 /\ 0 \in Nat
  BY <1>2
<1>3. ASSUME c.unread > 0, Move(w, c.at, got) PROVE LoadInv'
  <2>1. c.unread - 1 \in 0..MaxUnread
    BY <1>1, <1>3, LoadAssumption DEF CallType
  <2>2. got \in CallType /\ got.at = c.at /\ got.receivers = 0 /\ got.result = c.result
    BY <1>1, <1>r, <2>1 DEF CallType
  <2> HIDE DEF got
  <2> QED
    BY <1>1, <1>2, <1>3, <2>2, VirtualFine, MoveKeeps
<1>4. ASSUME Move(w, c.at, failed) PROVE LoadInv'
  <2>1. failed \in CallType /\ failed.at = c.at /\ failed.receivers = 0 /\ failed.result = c.result
    BY <1>1, <1>r DEF CallType
  <2> HIDE DEF failed
  <2> QED
    BY <1>1, <1>2, <1>4, <2>1, VirtualFine, MoveKeeps
<1> QED
  BY <1>3, <1>4 DEF ReceiverDone

LEMMA EndVirtualKeeps == ASSUME LoadInv, NEW w \in WorkerID, EndVirtual(w) PROVE LoadInv'
<1> DEFINE c == worker[w]
           new == [c EXCEPT !.at = "virtual"]
<1>1. /\ w[1] \in Bidi /\ w[1] \notin Streaming
      /\ c \in CallType /\ StreamOK(w[1], c) /\ c.receivers = 0 /\ c.result = "none"
  BY Typed DEF EndVirtual, Received, Move, StreamOK, Reaches, Bidi, Streaming
<1>2. new \in CallType /\ new.at = "virtual" /\ new.receivers = 0 /\ new.result = "none"
  BY <1>1 DEF CallType
<1> HIDE DEF new
<1>3. Fine(w[1], new)
  BY <1>1, <1>2, VirtualFine
<1>4. Fine(w[1], Return(c, "ok"))
  BY <1>1, ReturnFine
<1> QED
  BY <1>3, <1>4, MoveKeeps DEF EndVirtual, new

LEMMA InitLoad == LoadInit => LoadInv
<1> SUFFICES ASSUME LoadInit PROVE LoadInv
  OBVIOUS
<1>1. NoCall = [NoCall EXCEPT !.at = "none"]
  BY DEF NoCall
<1>2. \A w \in WorkerID : Fine(w[1], NoCall)
  BY <1>1, NoCallFine
<1> QED
  BY <1>2 DEF LoadInit, LoadInv, LoadTypeOK, Fine

LEMMA NextLoad == LoadInv /\ [LoadNext]_loadVars => LoadInv'
<1> SUFFICES ASSUME LoadInv, [LoadNext]_loadVars PROVE LoadInv'
  OBVIOUS
<1>1. CASE UNCHANGED loadVars
  BY <1>1 DEF loadVars, LoadInv, LoadTypeOK, StreamOK, Reaches, Complete, Owed
<1> QED
  BY <1>1, MainKeeps, CallKeeps, SendKeeps, RecvKeeps, CloseSendKeeps, FinishKeeps, LoopKeeps,
     StartVirtualKeeps, SendVirtualKeeps, ReceiverDoneKeeps, EndVirtualKeeps DEF LoadNext, Step

-----------------------------------------------------------------------------
(***************************************************************************)
(* CloudProber: what is known of the probers that were executed.           *)
(***************************************************************************)

\* The names of the requests of the prober p between creation and deletion.
NamesOf(p) == {Requests[p][i] : i \in 1..Len(Requests[p])}

SessionNames == {"create_session", "delete_session"}

\* The metrics that the prober p leaves when nothing fails.
MetricsOf(p) ==
    (NamesOf(p) \ {"none"}) \cup (IF p = "sessionManagement" THEN SessionNames ELSE {})

OnlyDeletionsFailed == \A u \in unanswered : u[2] = "delete_session"

\* The first n requests of the prober have left their metrics.
Measured(n) == \A i \in 1..n : Requests[Now][i] \in metrics \cup {"none"}

\* The metrics there are when no request failed but deletions.
Collected ==
    /\ \A i \in 1..(prober - 1) : MetricsOf(Probers[i]) \subseteq metrics
    /\ place \in {"request", "delete"} /\ Now = "sessionManagement" => "create_session" \in metrics
    /\ place = "request" => Measured(request - 1)
    /\ place = "delete" => Measured(Len(Requests[Now]))
    /\ place \in {"report", "printed"} => MetricsOf(Now) \subseteq metrics

\* A metric is that of a request made before: it cannot be one of a request to come.
MeasuredBefore ==
    /\ prober = 1 /\ place \in {"start", "create"} => metrics = {}
    /\ \A x \in metrics :
          \/ x \in SessionNames
          \/ \E i \in 1..(prober - 1) : x \in NamesOf(Probers[i])
          \/ /\ place \notin {"start", "create"}
             /\ \E k \in 1..Len(Requests[Now]) :
                   x = Requests[Now][k] /\ (place = "request" => k < request)

\* A request that failed is one of a prober that has been executed, and has left
\* no metric; the creation of a session ends the program, but the first prober's.
Failed(u) ==
    /\ \E i \in 1..prober :
          /\ u[1] = Probers[i] /\ u[2] \in NamesOf(u[1]) \cup SessionNames
          /\ i = prober => place \in {"delete", "report", "printed", "fatal", "panicked"}
    /\ u[2] \in metrics /\ place # "fatal" => u[2] \in {"delete_session", "list_sessions"}

CloudInv ==
    /\ CloudTypeOK
    /\ place = "start" => prober = 1 /\ database = {}
    /\ place = "request" => request \in 1..Len(Requests[Now])
    /\ place \in {"start", "create", "request", "printed"} => ~err
    /\ place = "panicked" => failureCount > 0
    /\ place = "printed" => prober = Len(Probers) /\ (success <=> failureCount = 0)
    /\ place # "fatal" => (OnlyDeletionsFailed <=> failureCount = 0 /\ ~err)
    /\ place # "fatal" /\ OnlyDeletionsFailed => Collected
    /\ MeasuredBefore
    /\ \A u \in unanswered : Failed(u)
    /\ failureCount < prober \/ place \in {"printed", "panicked"}
    /\ LeftSessionsHaveCauses

LEMMA ProberFacts ==
    /\ Len(Probers) = 5
    /\ Probers[1] = "sessionManagement" /\ Probers[2] = "executeSql" /\ Probers[3] = "read"
    /\ Probers[4] = "transaction" /\ Probers[5] = "partition"
    /\ ProberNames = {"sessionManagement", "executeSql", "read", "transaction", "partition"}
BY DEF Probers, ProberNames

LEMMA RequestFacts ==
    /\ NamesOf("sessionManagement") = {"get_session", "list_sessions"}
    /\ NamesOf("executeSql") = {"execute_sql", "execute_streaming_sql"}
    /\ NamesOf("read") = {"read", "streaming_read"}
    /\ NamesOf("transaction") = {"begin_transaction", "commit", "none", "rollback"}
    /\ NamesOf("partition") = {"partition_query", "partition_read"}
    /\ \A p \in ProberNames : Len(Requests[p]) \in 1..4
    /\ \A p \in ProberNames : \A i, k \in 1..Len(Requests[p]) :
          Requests[p][i] = Requests[p][k] => i = k
<1>1. /\ Requests["sessionManagement"] = <<"get_session", "list_sessions">>
      /\ Requests["executeSql"] = <<"execute_sql", "execute_streaming_sql">>
      /\ Requests["read"] = <<"read", "streaming_read">>
      /\ Requests["transaction"] = <<"begin_transaction", "commit", "none", "rollback">>
      /\ Requests["partition"] = <<"partition_query", "partition_read">>
  BY DEF Requests
<1>2. \A p \in ProberNames : Len(Requests[p]) \in 1..4
  BY <1>1, ProberFacts
<1>3. /\ NamesOf("sessionManagement") = {"get_session", "list_sessions"}
      /\ NamesOf("executeSql") = {"execute_sql", "execute_streaming_sql"}
      /\ NamesOf("read") = {"read", "streaming_read"}
      /\ NamesOf("partition") = {"partition_query", "partition_read"}
  BY <1>1 DEF NamesOf
<1>4. NamesOf("transaction") = {"begin_transaction", "commit", "none", "rollback"}
  BY <1>1 DEF NamesOf
<1>5. \A p \in {"sessionManagement", "executeSql", "read", "partition"} :
          \A i, k \in 1..Len(Requests[p]) : Requests[p][i] = Requests[p][k] => i = k
  BY <1>1
<1>6. \A i, k \in 1..4 : Requests["transaction"][i] = Requests["transaction"][k] => i = k
  BY <1>1
<1>7. Len(Requests["transaction"]) = 4
  BY <1>1
<1>8. \A p \in ProberNames : \A i, k \in 1..Len(Requests[p]) :
          Requests[p][i] = Requests[p][k] => i = k
  <2>1. ProberNames = {"sessionManagement", "executeSql", "read", "partition"} \cup {"transaction"}
    BY ProberFacts
  <2>2. \A i, k \in 1..Len(Requests["transaction"]) :
            Requests["transaction"][i] = Requests["transaction"][k] => i = k
    BY <1>6, <1>7
  <2> QED
    BY <1>5, <2>1, <2>2, Zenon
<1> QED
  BY <1>2, <1>3, <1>4, <1>8

\* No two probers make a request of the same name, but those of sessions.
LEMMA NamesDiffer ==
    ASSUME NEW i \in 1..5, NEW j \in 1..5, i # j
    PROVE  /\ NamesOf(Probers[i]) \cap NamesOf(Probers[j]) = {}
           /\ NamesOf(Probers[i]) \cap SessionNames = {}
BY ProberFacts, RequestFacts DEF SessionNames

LEMMA MetricFacts ==
    /\ AllMetrics = UNION {MetricsOf(p) : p \in ProberNames}
    /\ \A p \in ProberNames : NamesOf(p) \subseteq AllMetrics \cup {"none"}
    /\ SessionNames \subseteq AllMetrics /\ "none" \notin AllMetrics
<1>1. AllMetrics = SessionNames \cup ((UNION {NamesOf(p) : p \in ProberNames}) \ {"none"})
  BY DEF AllMetrics, SessionNames, NamesOf
<1>2. "none" \notin SessionNames
  BY DEF SessionNames
<1> QED
  BY <1>1, <1>2, ProberFacts DEF MetricsOf

LEMMA NowTyped ==
    ASSUME CloudTypeOK
    PROVE  /\ Now \in ProberNames /\ Len(Requests[Now]) \in 1..4 /\ Now = Probers[prober]
           /\ prober \in 1..5 /\ request \in 0..4
           /\ MetricsOf(Now) \subseteq AllMetrics
           /\ \A i \in 1..Len(Requests[Now]) : Requests[Now][i] \in NamesOf(Now)
<1>1. Now \in ProberNames
  BY ProberFacts DEF CloudTypeOK, Now, ProberNames
<1> QED
  BY <1>1, ProberFacts, RequestFacts, MetricFacts DEF CloudTypeOK, Now, NamesOf

\* A request that fails now joins those that failed.
LEMMA FailureTyped ==
    ASSUME CloudTypeOK, NEW x \in NamesOf(Now) \cup SessionNames
    PROVE  <<Now, x>> \in ProberNames \X (AllMetrics \cup {"none"})
BY NowTyped, MetricFacts

LEMMA InitCloud == CloudInit => CloudInv
<1> SUFFICES ASSUME CloudInit PROVE CloudInv
  OBVIOUS
<1>0. /\ 1 \in 1..Len(Probers) /\ 0 \in 0..4 /\ 0 \in 0..Len(Probers)
      /\ \A i \in 1..(1 - 1) : FALSE
  BY ProberFacts
<1>1. CloudTypeOK
  BY <1>0, ProberFacts DEF CloudInit, CloudTypeOK
<1>2. Collected /\ MeasuredBefore /\ OnlyDeletionsFailed
  BY <1>0 DEF CloudInit, Collected, MeasuredBefore, OnlyDeletionsFailed
<1> QED
  BY <1>1, <1>2 DEF CloudInit, CloudInv, LeftSessionsHaveCauses

LEMMA CreateClientsKeeps == ASSUME CloudInv, CreateClients PROVE CloudInv'
<1>0. /\ place = "start" /\ place' \in {"create", "fatal"} /\ errClient' \in BOOLEAN
      /\ prober = 1 /\ database = {} /\ metrics = {}
      /\ UNCHANGED <<prober, request, err, failureCount, success, metrics, database, unanswered>>
      /\ Now' = Now
  BY DEF CloudInv, CreateClients, MeasuredBefore, Now
<1>1. CloudTypeOK'
  BY <1>0 DEF CloudInv, CloudTypeOK
<1>2. Collected' /\ MeasuredBefore'
  BY <1>0 DEF Collected, MeasuredBefore
<1>3. OnlyDeletionsFailed' <=> OnlyDeletionsFailed
  BY <1>0 DEF OnlyDeletionsFailed
<1>4. \A u \in unanswered' : Failed(u)'
  BY <1>0 DEF CloudInv, Failed
<1>5. LeftSessionsHaveCauses'
  BY <1>0 DEF LeftSessionsHaveCauses
<1> QED
  BY <1>0, <1>1, <1>2, <1>3, <1>4, <1>5 DEF CloudInv

LEMMA CreateSessionKeeps == ASSUME CloudInv, CreateSession PROVE CloudInv'
<1>0. /\ place = "create" /\ UNCHANGED <<prober, errClient, failureCount, success>> /\ ~err
      /\ Now \in ProberNames /\ Len(Requests[Now]) \in 1..4 /\ Now' = Now /\ Now = Probers[prober]
      /\ prober \in 1..5 /\ MetricsOf(Now) \subseteq AllMetrics
      /\ Now = "sessionManagement" => prober = 1
  BY NowTyped, ProberFacts DEF CloudInv, CreateSession, Now
<1>1. \A u \in unanswered : \E i \in 1..(prober - 1) :
          u[1] = Probers[i] /\ u[2] \in NamesOf(u[1]) \cup SessionNames
  BY <1>0 DEF CloudInv, Failed
<1>2. ASSUME database' \subseteq database \cup {Now}, unanswered \subseteq unanswered',
             place' = "request" \/ <<Now, "create_session">> \in unanswered'
      PROVE  LeftSessionsHaveCauses'
  <2>1. Ended' \subseteq Ended \cup {Now} /\ (place' = "request" => Ended' = Ended)
    <3>1. place' \in {"request", "report", "fatal"} /\ prober' = prober
      BY <1>0 DEF CreateSession
    <3> QED
      BY <1>0, <3>1 DEF Ended
  <2>2. place' = "request" => Now \notin Ended'
    <3>1. \A i \in 1..(prober - 1) : Probers[i] # Now
      BY <1>0, ProberFacts
    <3> QED
      BY <1>0, <2>1, <3>1 DEF Ended
  <2>3. ASSUME NEW p \in database' \cap Ended'
        PROVE  \E u \in unanswered' :
                  u[1] = p /\ (u[2] \in {"create_session", "delete_session"} \/ p = "transaction")
    <3>1. CASE p = Now
      BY <1>2, <2>2, <2>3, <3>1
    <3>2. CASE p # Now
      BY <1>2, <2>1, <2>3, <3>2 DEF CloudInv, LeftSessionsHaveCauses
    <3> QED
      BY <3>1, <3>2
  <2> QED
    BY <2>3 DEF LeftSessionsHaveCauses
<1>3. CASE /\ place' = "request" /\ request' = 1 /\ database' = database \cup {Now}
           /\ metrics' = IF Now = "sessionManagement" THEN metrics \cup {"create_session"} ELSE metrics
           /\ UNCHANGED <<err, unanswered>>
  <2>1. /\ metrics \subseteq metrics' /\ metrics' \subseteq AllMetrics
        /\ metrics' \subseteq metrics \cup {"create_session"}
        /\ Now # "sessionManagement" => metrics' = metrics
    BY <1>0, <1>3, MetricFacts DEF CloudInv, CloudTypeOK, SessionNames
  <2>2. CloudTypeOK'
    BY <1>0, <1>3, <2>1 DEF CloudInv, CloudTypeOK
  <2>3. OnlyDeletionsFailed' = OnlyDeletionsFailed
    BY <1>3 DEF OnlyDeletionsFailed
  <2>4. OnlyDeletionsFailed => Collected'
    BY <1>0, <1>3, <2>1 DEF CloudInv, Collected, Measured
  <2>5. MeasuredBefore'
    BY <1>0, <1>3, <2>1 DEF CloudInv, MeasuredBefore, SessionNames
  <2>6. \A u \in unanswered' : Failed(u)'
    <3>1. SUFFICES ASSUME NEW u \in unanswered PROVE Failed(u)'
      BY <1>3
    <3>2. Now = "sessionManagement" => FALSE
      BY <1>0, <1>1
    <3> QED
      BY <1>0, <1>1, <1>3, <2>1, <3>2 DEF CloudInv, Failed
  <2>7. LeftSessionsHaveCauses'
    BY <1>2, <1>3
  <2>8. request' \in 1..Len(Requests[Now'])
    <3> DEFINE n == Len(Requests[Now])
    <3>1. n \in 1..4
      BY <1>0
    <3> HIDE DEF n
    <3>2. 1 \in 1..n
      BY <3>1
    <3> QED
      BY <1>0, <1>3, <3>2 DEF n
  <2> QED
    BY <1>0, <1>3, <2>2, <2>3, <2>4, <2>5, <2>6, <2>7, <2>8 DEF CloudInv
<1>4. CASE /\ database' \in {database, database \cup {Now}}
           /\ Unanswered("create_session")
           /\ IF Now = "sessionManagement"
              THEN place' = "report" /\ err' = TRUE
              ELSE place' = "fatal" /\ UNCHANGED err
           /\ UNCHANGED <<request, metrics>>
  <2> DEFINE new == <<Now, "create_session">>
  <2>1. unanswered' = unanswered \cup {new} /\ new[1] = Now /\ new[2] = "create_session"
    BY <1>4 DEF Unanswered
  <2>2. new \in ProberNames \X (AllMetrics \cup {"none"})
    BY FailureTyped DEF CloudInv, SessionNames
  <2>3. CloudTypeOK'
    BY <1>0, <1>4, <2>1, <2>2 DEF CloudInv, CloudTypeOK
  <2>4. ~OnlyDeletionsFailed'
    BY <2>1 DEF OnlyDeletionsFailed
  <2>5. MeasuredBefore'
    <3>1. place' \in {"report", "fatal"}
      BY <1>4
    <3> QED
      BY <1>0, <1>4, <3>1 DEF CloudInv, MeasuredBefore
  <2>6. ASSUME NEW u, u = new PROVE Failed(u)'
    <3>1. place' = "report" => "create_session" \notin metrics'
      BY <1>0, <1>4 DEF CloudInv, MeasuredBefore
    <3>2. prober \in 1..prober' /\ place' \in {"report", "fatal"}
      BY <1>0, <1>4
    <3> QED
      BY <1>0, <2>1, <2>6, <3>1, <3>2 DEF Failed, SessionNames
  <2>7. ASSUME NEW u \in unanswered PROVE Failed(u)'
    BY <1>0, <1>4, <2>7, <1>1 DEF CloudInv, Failed
  <2>8. LeftSessionsHaveCauses'
    BY <1>2, <1>4, <2>1
  <2>9. \A u \in unanswered' : Failed(u)'
    BY <2>1, <2>6, <2>7
  <2> QED
    BY <1>0, <1>4, <2>3, <2>4, <2>5, <2>8, <2>9 DEF CloudInv
<1> QED
  BY <1>3, <1>4 DEF CreateSession

LEMMA RequestKeeps == ASSUME CloudInv, Request PROVE CloudInv'
<1> DEFINE r == Requests[Now]
           x == r[request]
<1>0. /\ place = "request" /\ request \in 1..Len(r) /\ ~err
      /\ UNCHANGED <<prober, errClient, failureCount, success, database>>
      /\ Now \in ProberNames /\ Len(r) \in 1..4 /\ Now' = Now /\ Now = Probers[prober]
      /\ MetricsOf(Now) \subseteq AllMetrics /\ request \in 0..4 /\ prober \in 1..5
      /\ x \in NamesOf(Now) /\ x \in AllMetrics \cup {"none"}
  BY NowTyped, MetricFacts DEF CloudInv, Request, Now
<1>1. \A u \in unanswered : \E i \in 1..(prober - 1) :
          u[1] = Probers[i] /\ u[2] \in NamesOf(u[1]) \cup SessionNames
  BY <1>0 DEF CloudInv, Failed
<1>2. \A u \in unanswered : u[2] # x
  BY <1>0, <1>1, NamesDiffer
<1>3. x \notin metrics
  <2>1. ASSUME x \in metrics PROVE FALSE
    <3>1. x \notin SessionNames
      <4>1. \E j \in 1..5 : j # prober
        BY <1>0
      <4> QED
        BY <1>0, <4>1, NamesDiffer
    <3>2. ASSUME NEW i \in 1..(prober - 1) PROVE x \notin NamesOf(Probers[i])
      <4>1. i \in 1..5 /\ i # prober
        BY <1>0
      <4> QED
        BY <1>0, <4>1, NamesDiffer
    <3>3. PICK k \in 1..Len(r) : x = r[k] /\ k < request
      BY <1>0, <2>1, <3>1, <3>2 DEF CloudInv, MeasuredBefore
    <3> QED
      BY <1>0, <3>3, RequestFacts
  <2> QED
    BY <2>1
<1> HIDE DEF x
<1>4. CASE /\ metrics' = metrics \cup ({x} \ {"none"})
           /\ IF request < Len(r)
              THEN request' = request + 1 /\ UNCHANGED place
              ELSE place' = "delete" /\ UNCHANGED request
           /\ UNCHANGED <<err, unanswered>>
  <2>1. metrics \subseteq metrics' /\ metrics' \subseteq AllMetrics
    BY <1>0, <1>4 DEF CloudInv, CloudTypeOK
  <2>t. /\ request' \in 0..4 /\ (place' = "request" => request' = request + 1 /\ request' \in 1..Len(r))
        /\ place' \in {"request", "delete"}
    <3> DEFINE n == Len(r)
    <3>0. n \in 1..4 /\ request \in 1..n /\ place = "request"
      BY <1>0
    <3> HIDE DEF n, r
    <3>1. CASE request < n
      <4>1. request' = request + 1 /\ place' = place
        BY <1>4, <3>1 DEF n
      <4>2. request + 1 \in 1..n /\ request + 1 \in 0..4
        BY <3>0, <3>1
      <4> QED
        BY <3>0, <4>1, <4>2 DEF n
    <3>2. CASE ~(request < n)
      BY <1>0, <1>4, <3>2 DEF n
    <3> QED
      BY <3>1, <3>2
  <2>2. CloudTypeOK'
    BY <1>0, <1>4, <2>1, <2>t DEF CloudInv, CloudTypeOK
  <2>3. OnlyDeletionsFailed' = OnlyDeletionsFailed
    BY <1>4 DEF OnlyDeletionsFailed
  <2>4. ASSUME OnlyDeletionsFailed PROVE Collected'
    <3>1. /\ \A i \in 1..(prober - 1) : MetricsOf(Probers[i]) \subseteq metrics
          /\ Now = "sessionManagement" => "create_session" \in metrics
          /\ \A i \in 1..(request - 1) : r[i] \in metrics \cup {"none"}
      BY <1>0, <2>4 DEF CloudInv, Collected, Measured
    <3>2. \A i \in 1..request : r[i] \in metrics' \cup {"none"}
      BY <1>0, <1>4, <2>1, <3>1 DEF x
    <3>3. place' = "delete" => request = Len(r)
      BY <1>0, <1>4
    <3> QED
      BY <1>0, <1>4, <2>1, <2>t, <3>1, <3>2, <3>3 DEF Collected, Measured
  <2>5. MeasuredBefore'
    <3>1. ASSUME NEW y \in metrics'
          PROVE  \/ y \in SessionNames
                 \/ \E i \in 1..(prober - 1) : y \in NamesOf(Probers[i])
                 \/ \E k \in 1..Len(r) : y = r[k] /\ (place' = "request" => k < request')
      <4>1. CASE y \in metrics
        BY <1>0, <2>t, <4>1 DEF CloudInv, MeasuredBefore
      <4>2. CASE y = x
        <5>1. place' = "request" => request < request'
          BY <1>0, <2>t
        <5> QED
          BY <1>0, <4>2, <5>1 DEF x
      <4> QED
        BY <1>4, <4>1, <4>2
    <3> QED
      BY <1>0, <2>t, <3>1 DEF MeasuredBefore
  <2>6. \A u \in unanswered' : Failed(u)'
    BY <1>0, <1>1, <1>2, <1>4 DEF CloudInv, Failed
  <2>7. LeftSessionsHaveCauses'
    BY <1>0, <1>4, <2>t DEF CloudInv, LeftSessionsHaveCauses, Ended
  <2> QED
    BY <1>0, <1>4, <2>t, <2>2, <2>3, <2>4, <2>5, <2>6, <2>7 DEF CloudInv
<1>5. CASE /\ err' = TRUE /\ Unanswered(x)
           /\ metrics' \in {metrics} \cup (IF x = "list_sessions"
                                           THEN {metrics \cup {"list_sessions"}} ELSE {})
           /\ place' = IF Deferred(Now) THEN "delete" ELSE "report"
           /\ UNCHANGED request
  <2> DEFINE new == <<Now, x>>
  <2>1. /\ unanswered' = unanswered \cup {new} /\ new[1] = Now /\ new[2] = x
        /\ place' \in {"delete", "report"} /\ (place' = "report" => Now = "transaction")
    BY <1>5 DEF Unanswered, Deferred
  <2>2. /\ metrics \subseteq metrics' /\ metrics' \subseteq metrics \cup {x}
        /\ x \in metrics' => x = "list_sessions"
    BY <1>3, <1>5
  <2>3. new \in ProberNames \X (AllMetrics \cup {"none"})
    BY <1>0, FailureTyped DEF CloudInv
  <2>4. CloudTypeOK'
    <3>1. metrics' \subseteq AllMetrics
      BY <1>5, <2>2, <1>0, MetricFacts DEF CloudInv, CloudTypeOK
    <3> QED
      BY <1>0, <1>5, <2>1, <2>3, <3>1 DEF CloudInv, CloudTypeOK
  <2>5. ~OnlyDeletionsFailed'
    <3>1. x # "delete_session"
      <4>1. \E j \in 1..5 : j # prober
        BY <1>0
      <4> QED
        BY <1>0, <4>1, NamesDiffer DEF SessionNames
    <3> QED
      BY <2>1, <3>1 DEF OnlyDeletionsFailed
  <2>6. MeasuredBefore'
    <3>1. ASSUME NEW y \in metrics'
          PROVE  \/ y \in SessionNames
                 \/ \E i \in 1..(prober - 1) : y \in NamesOf(Probers[i])
                 \/ \E k \in 1..Len(r) : y = r[k]
      BY <1>0, <2>2 DEF CloudInv, MeasuredBefore, x
    <3> QED
      BY <1>0, <2>1, <3>1 DEF MeasuredBefore
  <2>7. ASSUME NEW u, u = new PROVE Failed(u)'
    BY <1>0, <2>1, <2>2, <2>7 DEF Failed
  <2>8. ASSUME NEW u \in unanswered PROVE Failed(u)'
    <3>1. u[2] \in metrics' => u[2] \in metrics
      BY <1>2, <2>2
    <3> QED
      BY <1>0, <1>1, <2>1, <3>1 DEF CloudInv, Failed
  <2>9. LeftSessionsHaveCauses'
    <3>1. Ended' \subseteq Ended \cup (IF place' = "report" THEN {Now} ELSE {})
      BY <1>0, <2>1 DEF Ended
    <3> QED
      BY <1>0, <2>1, <3>1 DEF CloudInv, LeftSessionsHaveCauses
  <2>10. \A u \in unanswered' : Failed(u)'
    BY <2>1, <2>7, <2>8
  <2> QED
    BY <1>0, <1>5, <2>1, <2>4, <2>5, <2>6, <2>9, <2>10 DEF CloudInv
<1> QED
  BY <1>4, <1>5 DEF Request, x

LEMMA DeleteSessionKeeps == ASSUME CloudInv, DeleteSession PROVE CloudInv'
<1> DEFINE new == <<Now, "delete_session">>
<1>0. /\ place = "delete" /\ place' = "report"
      /\ UNCHANGED <<prober, request, err, errClient, failureCount, success>>
      /\ \/ database' = database \ {Now} /\ UNCHANGED unanswered
         \/ database' \in {database, database \ {Now}} /\ unanswered' = unanswered \cup {new}
      /\ Now \in ProberNames /\ Now' = Now /\ Now = Probers[prober] /\ prober \in 1..5
      /\ MetricsOf(Now) \subseteq AllMetrics
      /\ metrics' = IF Now = "sessionManagement" THEN metrics \cup {"delete_session"} ELSE metrics
  BY NowTyped DEF CloudInv, DeleteSession, Unanswered, Now
<1>1. /\ metrics \subseteq metrics' /\ metrics' \subseteq AllMetrics
      /\ metrics' \subseteq metrics \cup {"delete_session"}
      /\ new[1] = Now /\ new[2] = "delete_session" /\ database' \subseteq database
      /\ unanswered \subseteq unanswered' /\ unanswered' \subseteq unanswered \cup {new}
  BY <1>0, MetricFacts DEF CloudInv, CloudTypeOK, SessionNames
<1>2. CloudTypeOK'
  <2>1. new \in ProberNames \X (AllMetrics \cup {"none"})
    BY FailureTyped DEF CloudInv, SessionNames
  <2> QED
    BY <1>0, <1>1, <2>1 DEF CloudInv, CloudTypeOK
<1>3. OnlyDeletionsFailed' <=> OnlyDeletionsFailed
  BY <1>1 DEF OnlyDeletionsFailed
<1>4. ASSUME OnlyDeletionsFailed PROVE Collected'
  <2>1. /\ \A i \in 1..(prober - 1) : MetricsOf(Probers[i]) \subseteq metrics
        /\ Now = "sessionManagement" => "create_session" \in metrics
        /\ \A i \in 1..Len(Requests[Now]) : Requests[Now][i] \in metrics \cup {"none"}
    BY <1>0, <1>4 DEF CloudInv, Collected, Measured
  <2>2. MetricsOf(Now) \subseteq metrics'
    BY <1>0, <1>1, <2>1 DEF MetricsOf, NamesOf, SessionNames
  <2> QED
    BY <1>0, <1>1, <2>1, <2>2 DEF Collected
<1>5. MeasuredBefore'
  BY <1>0, <1>1 DEF CloudInv, MeasuredBefore, SessionNames
<1>6. ASSUME NEW u, u = new PROVE Failed(u)'
  BY <1>0, <1>1, <1>6 DEF Failed, SessionNames
<1>7. ASSUME NEW u \in unanswered PROVE Failed(u)'
  BY <1>0, <1>1, <1>7 DEF CloudInv, Failed
<1>9. LeftSessionsHaveCauses'
  <2>1. Ended' \subseteq Ended \cup {Now}
    BY <1>0 DEF Ended
  <2>2. Now \notin database' \/ new \in unanswered'
    BY <1>0
  <2> QED
    BY <1>1, <2>1, <2>2 DEF CloudInv, LeftSessionsHaveCauses
<1>8. \A u \in unanswered' : Failed(u)'
  BY <1>1, <1>6, <1>7
<1> QED
  BY <1>0, <1>2, <1>3, <1>4, <1>5, <1>8, <1>9 DEF CloudInv

LEMMA ReportKeeps == ASSUME CloudInv, Report PROVE CloudInv'
<1>0. /\ place = "report" /\ err' = FALSE /\ err \in BOOLEAN
      /\ failureCount' = failureCount + (IF err THEN 1 ELSE 0)
      /\ UNCHANGED <<request, errClient, metrics, database, unanswered>>
      /\ Now = Probers[prober] /\ prober \in 1..5 /\ failureCount \in 0..5 /\ failureCount < prober
  BY NowTyped, ProberFacts DEF CloudInv, CloudTypeOK, Report
<1>1. /\ failureCount' \in 0..prober /\ failureCount' \in 0..5
      /\ failureCount' = 0 <=> failureCount = 0 /\ ~err
      /\ err => failureCount' > 0
  BY <1>0
<1>2. OnlyDeletionsFailed' = OnlyDeletionsFailed /\ (OnlyDeletionsFailed <=> failureCount' = 0)
  BY <1>0, <1>1 DEF CloudInv, OnlyDeletionsFailed
<1>3. OnlyDeletionsFailed => \A i \in 1..prober : MetricsOf(Probers[i]) \subseteq metrics
  BY <1>0 DEF CloudInv, Collected
<1>m. \A x \in metrics : x \in SessionNames \/ \E i \in 1..prober : x \in NamesOf(Probers[i])
  <2>1. ASSUME NEW k \in 1..Len(Requests[Now]) PROVE Requests[Now][k] \in NamesOf(Probers[prober])
    BY <1>0, <2>1 DEF NamesOf
  <2> QED
    BY <1>0, <2>1 DEF CloudInv, MeasuredBefore
<1>4. CASE place' \in {"panicked", "printed"} /\ prober' = prober /\ success' \in BOOLEAN
           /\ (place' = "panicked" => err)
           /\ (place' = "printed" => prober = 5 /\ (success' <=> failureCount' = 0))
  <2>1. CloudTypeOK'
    BY <1>0, <1>1, <1>4, ProberFacts DEF CloudInv, CloudTypeOK
  <2>2. OnlyDeletionsFailed => Collected'
    BY <1>0, <1>3, <1>4 DEF Collected, Now
  <2>3. MeasuredBefore' /\ \A u \in unanswered' : Failed(u)'
    BY <1>0, <1>4 DEF CloudInv, MeasuredBefore, Failed, Now
  <2>4. LeftSessionsHaveCauses'
    BY <1>0, <1>4 DEF CloudInv, LeftSessionsHaveCauses, Ended, Now
  <2> QED
    BY <1>0, <1>1, <1>2, <1>4, <2>1, <2>2, <2>3, <2>4, ProberFacts DEF CloudInv
<1>5. CASE prober < 5 /\ place' = "create" /\ prober' = prober + 1 /\ UNCHANGED success
  <2>0. prober' - 1 = prober /\ prober' \in 2..5
    BY <1>0, <1>5
  <2>1. CloudTypeOK'
    <3>1. prober' \in 1..Len(Probers) /\ failureCount' \in 0..Len(Probers)
      BY <1>1, <2>0, ProberFacts
    <3> QED
      BY <1>0, <1>5, <3>1 DEF CloudInv, CloudTypeOK
  <2>2. OnlyDeletionsFailed => Collected'
    BY <1>0, <1>3, <1>5, <2>0 DEF Collected
  <2>3. MeasuredBefore'
    BY <1>0, <1>m, <1>5, <2>0 DEF MeasuredBefore
  <2>4. \A u \in unanswered' : Failed(u)'
    BY <1>0, <1>5, <2>0 DEF CloudInv, Failed
  <2>5. LeftSessionsHaveCauses'
    <3>1. Ended' \subseteq Ended
      BY <1>0, <1>5, <2>0 DEF Ended, Now
    <3> QED
      BY <1>0, <3>1 DEF CloudInv, LeftSessionsHaveCauses
  <2>6. failureCount' < prober'
    BY <1>0, <1>1, <1>5
  <2> QED
    BY <1>0, <1>1, <1>2, <1>5, <2>1, <2>2, <2>3, <2>4, <2>5, <2>6 DEF CloudInv
<1> QED
  <2>1. Len(Probers) = 5 /\ success \in BOOLEAN
    BY ProberFacts DEF CloudInv, CloudTypeOK
  <2>2. CASE err /\ ~errClient
    BY <1>4, <2>1, <2>2 DEF Report
  <2>3. CASE ~(err /\ ~errClient) /\ prober < 5
    BY <1>5, <2>1, <2>3 DEF Report
  <2>4. CASE ~(err /\ ~errClient) /\ ~(prober < 5)
    <3>1. prober = 5
      BY <1>0, <2>4
    <3>2. place' = "printed" /\ success' = (failureCount' = 0) /\ UNCHANGED prober
      BY <2>1, <2>4 DEF Report
    <3> QED
      BY <1>4, <3>1, <3>2
  <2> QED
    BY <2>2, <2>3, <2>4

LEMMA NextCloud == CloudInv /\ [CloudNext]_cloudVars => CloudInv'
<1> SUFFICES ASSUME CloudInv, [CloudNext]_cloudVars PROVE CloudInv'
  OBVIOUS
<1>1. CASE UNCHANGED cloudVars
  BY <1>1 DEF cloudVars, CloudInv, CloudTypeOK, Collected, Measured, MeasuredBefore, Now,
             OnlyDeletionsFailed, Failed, LeftSessionsHaveCauses, Ended
<1> QED
  BY <1>1, CreateClientsKeeps, CreateSessionKeeps, RequestKeeps, DeleteSessionKeeps, ReportKeeps
     DEF CloudNext

-----------------------------------------------------------------------------
(***************************************************************************)
(* The theorems.                                                           *)
(***************************************************************************)

LEMMA ClientsStep ==
    LoadInv /\ CloudInv /\ [Next]_vars => LoadInv' /\ CloudInv'
<1>1. [Next]_vars => [LoadNext]_loadVars /\ [CloudNext]_cloudVars
  BY DEF Next, vars
<1> QED
  BY <1>1, NextLoad, NextCloud

LEMMA ClientsInvariance == Spec => [](LoadInv /\ CloudInv)
<1>1. Init => LoadInv /\ CloudInv
  BY InitLoad, InitCloud DEF Init
<1> QED
  BY <1>1, ClientsStep, PTL DEF Spec

\* Every variable of both programs always has its type, for any number of workers
\* and requests.
THEOREM ClientsTypeCorrect == Spec => []TypeOK
<1>1. LoadInv /\ CloudInv => TypeOK
  BY DEF LoadInv, CloudInv, TypeOK
<1> QED
  BY <1>1, ClientsInvariance, PTL

\* A call that counts as a success sent every request and left no answer unread,
\* however many of them there are; and one goroutine receives from a stream.
THEOREM StreamsAreInOrder == Spec => []StreamsInOrder
<1>1. ASSUME LoadInv PROVE StreamsInOrder
  <2>1. SuccessIsComplete
    BY <1>1 DEF LoadInv, StreamOK, Complete, SuccessIsComplete
  <2>2. OneReceiver
    BY <1>1 DEF LoadInv, StreamOK, OneReceiver
  <2> QED
    BY <2>1, <2>2 DEF StreamsInOrder
<1> QED
  BY <1>1, ClientsInvariance, PTL

\* The cloud prober prints success exactly if nothing failed but deletions of
\* sessions, with the latency of every request and of none that failed; a session
\* that outlives its prober in the database has a cause.
THEOREM ProbesAreAccountable == Spec => []Accountable
<1>1. ASSUME CloudInv PROVE Accountable
  <2>1. ASSUME place = "printed", success PROVE metrics = AllMetrics
    <3>1. Collected /\ prober = 5 /\ metrics \subseteq AllMetrics
      BY <1>1, <2>1, ProberFacts DEF CloudInv, CloudTypeOK
    <3>2. \A i \in 1..5 : MetricsOf(Probers[i]) \subseteq metrics
      BY <2>1, <3>1 DEF Collected, Now
    <3>3. \A p \in ProberNames : MetricsOf(p) \subseteq metrics
      BY <3>2, ProberFacts
    <3> QED
      BY <3>1, <3>3, MetricFacts
  <2>2. PrintedTruly
    BY <1>1, <2>1 DEF CloudInv, PrintedTruly, OnlyDeletionsFailed, Failed
  <2> QED
    BY <1>1, <2>2 DEF CloudInv, Accountable
<1> QED
  BY <1>1, ClientsInvariance, PTL
=============================================================================
